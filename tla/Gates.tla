------------------------------- MODULE Gates --------------------------------
(***************************************************************************)
(* A session's gate runs and writes against what really happened: agents   *)
(* work side by side, each call is declared, does its work and is answered *)
(* in three steps, a run reads the files at one moment between the two     *)
(* records, and GateStates says at every moment what a Stop would say.     *)
(***************************************************************************)
EXTENDS GateStates, TLC

CONSTANTS
  AgentOf,      \* the agent a call is of; an agent has one call at a time
  Paths,        \* the files
  Readings,     \* per run, what it may come to: [passed, outcome, coded, ...]
  MaxFaults     \* bound: records lost, torn or without a seq, and edits by others

VARIABLES
  log,      \* the record's lines that have a seq, in order
  spilled,  \* the executions that have none
  signs,    \* what the coverage records and the reader say of the record
  phase,    \* where each call is
  content,  \* what each file holds: its last writer, "" or "another"
  done,     \* the writes that have happened
  reading,  \* what each run came to
  saw,      \* what each run read: the writes done, and the files
  faults    \* how many of those there have been

vars == <<log, spilled, signs, phase, content, done, reading, saw, faults>>

rec == [log |-> log, spilled |-> spilled, signs |-> signs]
Now == Len(log)
Tree == content
Gate(f) == StateOf(rec, f, Now, Tree)
Shown == GateStates(rec, Now, Tree)

Unread == [passed |-> FALSE, outcome |-> "ok", coded |-> FALSE, background |-> FALSE, hidden |-> FALSE,
           keeps |-> FALSE, delegate |-> FALSE, bare |-> FALSE, output |-> "none"]
NotRun == [writes |-> {}, content |-> [p \in Paths |-> ""]]

\* What the post of a launch records: the line's masking and what its output
\* read so far, and no end.
Launched(x) ==
  [outcome |-> "ok", coded |-> FALSE, background |-> TRUE, hidden |-> x.hidden,
   keeps |-> x.keeps, delegate |-> x.delegate, bare |-> x.bare, output |-> x.output]

\* The end of a background command: its line's exit is zero or it is not.
Joined(x) == IF x.outcome = "ok" THEN "ok" ELSE "failed"

\* A reading as a run that ended, with a seq; one in the background as its
\* joined end judges it.
Ended(x) ==
  [outcome |-> IF x.background THEN Joined(x) ELSE x.outcome, coded |-> x.coded \/ x.background,
   background |-> FALSE, hidden |-> x.hidden, keeps |-> x.keeps, delegate |-> x.delegate,
   bare |-> x.bare, output |-> x.output, exec |-> 1]

\* A run's own exit, or its own summary, says whether it passed; the files'
\* contents are told apart from a call's by who wrote them.
ASSUME GatesAssumption ==
  /\ CallKind \in [Calls -> {"run", "tool", "shell", "unnamed"}]
  /\ Path \in [Named -> Paths]
  /\ Calls \cap {"", "another"} = {}
  /\ MaxFaults \in Nat
  /\ \A c \in Runs : \A x \in Readings[c] :
       /\ IsGreen(Ended(x)) => x.passed
       /\ IsRed(Ended(x)) => ~x.passed

TypeOK ==
  /\ \A i \in DOMAIN log : log[i].type \in {"decl", "exec", "join"} /\ log[i].call \in Calls
  /\ \A i, j \in DOMAIN log : log[i].type = log[j].type /\ log[i].call = log[j].call => i = j
  /\ \A e \in spilled : e.type = "exec" /\ Place(rec, "exec", e.call) = 0
  /\ signs \subseteq {"verified", "unknown", "skipped"}
  /\ phase \in [Calls -> {"idle", "declared", "acted", "launched", "ended", "done"}]
  /\ content \in [Paths -> Calls \cup {"", "another"}]
  /\ done \subseteq Calls
  /\ \A r \in Runs : reading[r] \in Readings[r] \cup {Unread}
  /\ \A r \in Runs : saw[r].writes \subseteq done
  /\ faults \in 0..MaxFaults

Init ==
  /\ log = <<>> /\ spilled = {} /\ signs = {}
  /\ phase = [c \in Calls |-> "idle"]
  /\ content = [p \in Paths |-> ""]
  /\ done = {}
  /\ reading = [r \in Runs |-> Unread]
  /\ saw = [r \in Runs |-> NotRun]
  /\ faults = 0

Goto(c, where) == phase' = [phase EXCEPT ![c] = where]
Fault == faults < MaxFaults /\ faults' = faults + 1

\* A record that did not get whole into its file: a line torn in it is one the
\* reader skips.
TornOrLost == signs' \in {signs, signs \cup {"skipped"}}

\* A post appends its coverage too: verified, or with its hook entry or probe
\* not resolved.
Covered ==
  \/ signs' = signs \cup {"verified"} /\ UNCHANGED faults
  \/ signs' = signs \cup {"unknown"} /\ Fault

\* An agent has one call at a time, a background command aside, and is not
\* given an earlier prompt's call after a later one's.
Free(c) ==
  /\ phase[c] = "idle"
  /\ \A d \in Calls : AgentOf[d] = AgentOf[c] =>
       /\ phase[d] \notin {"declared", "acted"}
       /\ PromptOf[d] > PromptOf[c] => phase[d] = "idle"

\* PreToolUse: the declaration, in order, before the tool runs.
Declare(c) ==
  /\ Free(c)
  /\ log' = Append(log, [type |-> "decl", call |-> c])
  /\ Goto(c, "declared")
  /\ UNCHANGED <<spilled, signs, content, done, reading, saw, faults>>

\* The declaration cannot be written, and the call runs as ever.
DeclareLost(c) ==
  /\ Free(c) /\ Fault /\ TornOrLost
  /\ Goto(c, "declared")
  /\ UNCHANGED <<log, spilled, content, done, reading, saw>>

\* The tool writes its file; one that names no file writes any of them.
WriteFile(c) ==
  /\ CallKind[c] # "run" /\ phase[c] = "declared"
  /\ \E p \in Paths :
       /\ c \in Named => p = Path[c]
       /\ content' = [content EXCEPT ![p] = c]
  /\ done' = done \cup {c}
  /\ Goto(c, "acted")
  /\ UNCHANGED <<log, spilled, signs, reading, saw, faults>>

Sees(c) == saw' = [saw EXCEPT ![c] = [writes |-> done, content |-> content]]

\* The runner reads the files and comes to its end.
RunGate(c) ==
  /\ CallKind[c] = "run" /\ phase[c] = "declared"
  /\ \E r \in Readings[c] : ~r.background /\ reading' = [reading EXCEPT ![c] = r]
  /\ Sees(c)
  /\ Goto(c, "acted")
  /\ UNCHANGED <<log, spilled, signs, content, done, faults>>

\* A run moved to the background: its post comes first, and then its end.
Launch(c) ==
  /\ CallKind[c] = "run" /\ phase[c] = "declared"
  /\ \E r \in Readings[c] :
       /\ r.background /\ reading' = [reading EXCEPT ![c] = r]
       /\ log' = Append(log, [type |-> "exec", call |-> c, sha |-> "none", end |-> Launched(r)])
  /\ Covered
  /\ Goto(c, "launched")
  /\ UNCHANGED <<spilled, content, done, saw>>

EndLaunched(c) ==
  /\ phase[c] = "launched"
  /\ Sees(c)
  /\ Goto(c, "ended")
  /\ UNCHANGED <<log, spilled, signs, content, done, reading, faults>>

\* The end of a background command reaches the next prompt (outcome_join).
Join(c) ==
  /\ phase[c] = "ended"
  /\ log' = Append(log, [type |-> "join", call |-> c, outcome |-> Joined(reading[c])])
  /\ Goto(c, "done")
  /\ UNCHANGED <<spilled, signs, content, done, reading, saw, faults>>

\* PostToolUse: what the run came to, or the file as it is now.
Answer(c) ==
  [type |-> "exec", call |-> c,
   sha |-> IF CallKind[c] = "tool" THEN content[Path[c]] ELSE "none",
   end |-> IF CallKind[c] = "run" THEN reading[c] ELSE Unread]

Post(c) ==
  /\ phase[c] = "acted"
  /\ log' = Append(log, Answer(c))
  /\ Covered
  /\ Goto(c, "done")
  /\ UNCHANGED <<spilled, content, done, reading, saw>>

\* (broken: a spilled execution is put in order as well)
PostTwice(c) ==
  /\ phase[c] = "acted" /\ Fault
  /\ spilled' = spilled \cup {Answer(c)}
  /\ log' = Append(log, Answer(c))
  /\ signs' = signs \cup {"verified"}
  /\ Goto(c, "done")
  /\ UNCHANGED <<content, done, reading, saw>>

\* The lock is not had in time: the execution has no seq.
PostSpilled(c) ==
  /\ phase[c] = "acted" /\ Fault
  /\ spilled' = spilled \cup {Answer(c)}
  /\ signs' = signs \cup {"verified"}
  /\ Goto(c, "done")
  /\ UNCHANGED <<log, content, done, reading, saw>>

\* The post does not run, or its record cannot be written.
PostLost(c) ==
  /\ phase[c] = "acted" /\ Fault /\ TornOrLost
  /\ Goto(c, "done")
  /\ UNCHANGED <<log, spilled, content, done, reading, saw>>

\* Someone else edits a file.
EditElsewhere(p) ==
  /\ Fault
  /\ content' = [content EXCEPT ![p] = "another"]
  /\ UNCHANGED <<log, spilled, signs, phase, done, reading, saw>>

Next ==
  \/ \E c \in Calls :
       \/ Declare(c) \/ DeclareLost(c) \/ WriteFile(c) \/ RunGate(c) \/ Launch(c)
       \/ EndLaunched(c) \/ Join(c) \/ Post(c) \/ PostSpilled(c) \/ PostLost(c)
  \/ \E p \in Paths : EditElsewhere(p)

Spec == Init /\ [][Next]_vars

-----------------------------------------------------------------------------
\* A write that was declared before a run and was not over when the run
\* began: whether the run saw it the record cannot say.
Overlaps(w, run) ==
  /\ Place(rec, "decl", w) \in 1..run.seq
  /\ \/ Place(rec, "exec", w) > run.seq
     \/ Executions(rec, w) = {}
Seen(run) == saw[run.call].writes
Known(S) == {c \in S : Declared(rec, c) \/ Executions(rec, c) # {}}

\* The ledger says a gate ran green after the last write only of a run that
\* passed, and that saw every named write the gate covers, whichever agent
\* made it and whatever was still in flight (gateStates, D31), except one under
\* way when the run began; and a readable red is of a run that did not pass.
GatesAreTrue ==
  \A g \in Shown :
    /\ GateAfterWrite(g) = "met" =>
         /\ reading[g.last.call].passed
         /\ \A w \in Known(Named) :
              Path[w] \in Covers[g.gate] => w \in Seen(g.last) \/ Overlaps(w, g.last)
    /\ g.state = "red" /\ ExitUnmasked(g) = "met" => ~reading[g.last.call].passed

\* A turn reads verified only if every required gate is green, and no unnamed
\* write of the turn came after one of their runs (TurnSummary, D30).
VerifiedIsEarned ==
  TurnSummary(rec, Now, Tree) = "verified" =>
    \A f \in Required \cap {g.gate : g \in Shown} :
      /\ Gate(f).state = "green"
      /\ \A w \in OfTurn(rec, Now, Unnamed) \cap done :
           w \in Seen(Gate(f).last) \/ Overlaps(w, Gate(f).last)

\* The ledger says a gate's evidence is bound only where the files the run
\* read are the files as they are now (bind, PF-PG6, INV-14), but for a write
\* under way when the run began, and for a file in which the write's own post
\* found what another program had left: that can be put back as it was.
BoundIsWhatRan ==
  \A g \in Shown : EvidenceBound(g) = "met" =>
    \A w \in Bound(rec, g.gate, g.last) :
      \/ saw[g.last.call].content[Path[w]] = content[Path[w]]
      \/ Overlaps(w, g.last)
      \/ Sha(rec, w) = "another"

\* A watched red is met only by a write that came after that red run read the
\* files, and a run that then passed over it (watchedRow, Q4), unless the red
\* run was moved to the background.
Answers(red, green, w) == w \notin Seen(red) /\ (w \in Seen(green) \/ Overlaps(w, green))
WatchedFixCameAfter ==
  \A f \in {g.gate : g \in Shown} : Watched(rec, f, Now) = "met" =>
    LET red == Latest(Reds(rec, f, Now))
        green == FirstGreen(rec, f, Now, red)
    IN \/ reading[red.call].background
       \/ /\ reading[green.call].passed
          /\ \E w \in Fixes(rec, f, red, green) : Answers(red, green, w)

\* What is said of a point does not change as later calls come and are
\* answered; only an execution without a seq and the end of a background command do
\* (Evaluate, INV-11, RES14b).
EarlierPointsStand ==
  [][Len(log') > Now /\ log'[Len(log')].type # "join" =>
       \A f \in Families : \A at \in 1..Now :
         LET was == RunsAt(rec, f, at) IN
         was # {} => /\ RunsAt(rec', f, at) # {}
                     /\ StateOf(rec', f, at, <<>>).state = StateOf(rec, f, at, <<>>).state]_vars

\* obligations.go says that "a write declared while the red was in flight is
\* not a response to it, so it never meets the row".
InFlightWriteIsNoFix ==
  \A f \in {g.gate : g \in Shown} : Watched(rec, f, Now) = "met" =>
    LET red == Latest(Reds(rec, f, Now))
    IN \E w \in Fixes(rec, f, red, FirstGreen(rec, f, Now, red)) : w \notin Seen(red)

=============================================================================
