------------------------------- MODULE Forget -------------------------------
(***************************************************************************)
(* Forgetting a window of one run while its session goes on recording      *)
(* (internal/store gaps.go forgetRun, forgetHostInRun, rewriteSpill). A    *)
(* forget holds the records lock from its plan to its last rewrite, which  *)
(* drives hooks to the spill file; it reads the spill file without a lock, *)
(* and reads it again under the lock to rewrite it. What one rewrite may   *)
(* leave behind when it is killed is Rewrite's; here it happens or not.    *)
(*                                                                         *)
(* Lines are told apart and their order is not: the records file is a set  *)
(* of lines, and the spill file a bag, for a killed rewrite leaves a line  *)
(* twice.                                                                  *)
(***************************************************************************)
EXTENDS Integers, FiniteSets

CONSTANTS
  Calls,     \* tool calls
  Forgets,   \* forget commands, all of one window
  Nobody,    \* the holder of a lock when there is none
  MaxCopies, \* bound: copies of a line the spill file starts with
  Kills      \* whether a forget may be killed (TRUE or FALSE)

ASSUME ForgetAssumption ==
  /\ MaxCopies \in Nat /\ Kills \in BOOLEAN
  /\ Nobody \notin Forgets \cup (Calls \X {"pre", "post"})
  /\ Forgets \cap (Calls \X {"pre", "post"}) = {}

\* What a call's two hooks record, one line each.
Lines == Calls \X {"pre", "post"}

VARIABLES
  window,   \* the lines that doom their call: recorded inside the window, or,
            \* for forget --host, a declaration that names the host
  records,  \* records.ndjson
  spill,    \* spill.ndjson: how often it holds each line
  recLock, spillLock,
  hook,     \* where the hook of each line is
  gaps,     \* how often the gap records count each line
  fg,       \* where each forget is
  recSeen, spillSeen,   \* what each forget's plan read
  reread,   \* the spill file as each forget read it again
  landed,   \* how many copies of each line ever landed
  raced     \* lines that landed, without the lock, in a file being rewritten

files == <<records, spill, recLock, spillLock>>
fgVars == <<gaps, fg, recSeen, spillSeen, reread>>
vars == <<window, files, hook, fgVars, landed, raced>>

Counts == [Lines -> Nat]
None == [l \in Lines |-> 0]

TypeOK ==
  /\ window \subseteq Lines /\ records \subseteq Lines
  /\ spill \in Counts /\ gaps \in Counts /\ landed \in Counts
  /\ recLock \in Forgets \cup Lines \cup {Nobody}
  /\ spillLock \in Forgets \cup Lines \cup {Nobody}
  /\ hook \in [Lines -> {"wait", "locked", "spill", "spillLocked", "lockless", "done"}]
  /\ fg \in [Forgets -> {"wait", "locked", "read", "planned", "counted", "spillWait",
                         "reread", "write", "done", "nothing", "failed", "killed"}]
  /\ recSeen \in [Forgets -> SUBSET Lines]
  /\ spillSeen \in [Forgets -> Counts] /\ reread \in [Forgets -> Counts]
  /\ raced \subseteq Lines

\* How many copies of a line a reader finds.
Copies(l) == spill[l] + IF l \in records THEN 1 ELSE 0

-----------------------------------------------------------------------------
\* A line is in the records, in the spill file, or its hook is about to begin.
Init ==
  /\ window \in SUBSET Lines
  /\ records \in SUBSET Lines
  /\ spill \in [Lines -> 0..MaxCopies]
  /\ \A l \in records : spill[l] = 0
  /\ recLock = Nobody /\ spillLock = Nobody
  /\ landed = [l \in Lines |-> Copies(l)]
  /\ hook = [l \in Lines |-> IF landed[l] > 0 THEN "done" ELSE "wait"]
  /\ gaps = None
  /\ fg = [f \in Forgets |-> "wait"]
  /\ recSeen = [f \in Forgets |-> {}]
  /\ spillSeen = [f \in Forgets |-> None]
  /\ reread = [f \in Forgets |-> None]
  /\ raced = {}

HookAt(l, where) == hook' = [hook EXCEPT ![l] = where]

\* lockAppend on the records file, or its timeout, which spills.
HookLock(l) ==
  /\ hook[l] = "wait"
  /\ \/ recLock = Nobody /\ recLock' = l /\ HookAt(l, "locked")
     \/ recLock # Nobody /\ HookAt(l, "spill") /\ UNCHANGED recLock
  /\ UNCHANGED <<window, records, spill, spillLock, fgVars, landed, raced>>

HookAppend(l) ==
  /\ hook[l] = "locked"
  /\ records' = records \cup {l}
  /\ landed' = [landed EXCEPT ![l] = @ + 1]
  /\ recLock' = Nobody
  /\ HookAt(l, "done")
  /\ UNCHANGED <<window, spill, spillLock, fgVars, raced>>

\* The spill lock, or spillBudget running out.
HookSpillLock(l) ==
  /\ hook[l] = "spill"
  /\ \/ spillLock = Nobody /\ spillLock' = l /\ HookAt(l, "spillLocked")
     \/ spillLock # Nobody /\ HookAt(l, "lockless") /\ UNCHANGED spillLock
  /\ UNCHANGED <<window, records, spill, recLock, fgVars, landed, raced>>

HookSpill(l) ==
  /\ hook[l] \in {"spillLocked", "lockless"}
  /\ spill' = [spill EXCEPT ![l] = @ + 1]
  /\ landed' = [landed EXCEPT ![l] = @ + 1]
  /\ raced' = IF hook[l] = "lockless" /\ \E f \in Forgets : fg[f] = "write"
                THEN raced \cup {l} ELSE raced
  /\ spillLock' = IF spillLock = l THEN Nobody ELSE spillLock
  /\ HookAt(l, "done")
  /\ UNCHANGED <<window, records, recLock, fgVars>>

-----------------------------------------------------------------------------
Goto(f, where) == fg' = [fg EXCEPT ![f] = where]

\* Returning, or dying, closes every file the forget has locked.
Close(f) ==
  /\ recLock' = IF recLock = f THEN Nobody ELSE recLock
  /\ spillLock' = IF spillLock = f THEN Nobody ELSE spillLock

\* (broken: a forget does not wait for the records lock)
LockNothing(f) ==
  /\ fg[f] = "wait"
  /\ Goto(f, "locked")
  /\ UNCHANGED <<window, files, hook, gaps, recSeen, spillSeen, reread, landed, raced>>

\* openRunLines: the records lock or an error, the records, the spill file.
LockRecords(f) ==
  /\ fg[f] = "wait"
  /\ \/ recLock = Nobody /\ recLock' = f /\ Goto(f, "locked")
     \/ recLock # Nobody /\ Goto(f, "failed") /\ UNCHANGED recLock
  /\ UNCHANGED <<window, records, spill, spillLock, hook, gaps, recSeen, spillSeen,
                 reread, landed, raced>>

ReadRecords(f) ==
  /\ fg[f] = "locked"
  /\ recSeen' = [recSeen EXCEPT ![f] = records]
  /\ Goto(f, "read")
  /\ UNCHANGED <<window, files, hook, gaps, spillSeen, reread, landed, raced>>

ReadSpill(f) ==
  /\ fg[f] = "read"
  /\ spillSeen' = [spillSeen EXCEPT ![f] = spill]
  /\ Goto(f, "planned")
  /\ UNCHANGED <<window, files, hook, gaps, recSeen, reread, landed, raced>>

Seen(f) == recSeen[f] \cup {l \in Lines : spillSeen[f][l] > 0}

\* (broken: lines leave by their own time, not with their call)
DoomedAlone(f) == Seen(f) \cap window

\* A call leaves whole when any of its lines is in the window.
Doomed(f) == {l \in Seen(f) : \E m \in Seen(f) \cap window : m[1] = l[1]}

\* How often the plan counts each line.
Counted(f) == [l \in Lines |->
  IF l \in Doomed(f) THEN spillSeen[f][l] + IF l \in recSeen[f] THEN 1 ELSE 0 ELSE 0]

\* The gap lands, cannot be written, or is not needed.
WriteGap(f) ==
  /\ fg[f] = "planned"
  /\ \/ /\ Doomed(f) # {}
        /\ gaps' = [l \in Lines |-> gaps[l] + Counted(f)[l]]
        /\ Goto(f, "counted")
        /\ UNCHANGED <<recLock, spillLock>>
     \/ /\ Doomed(f) # {} /\ Goto(f, "failed") /\ Close(f)
        /\ UNCHANGED gaps
     \/ /\ Doomed(f) = {} /\ Goto(f, "nothing") /\ Close(f)
        /\ UNCHANGED gaps
  /\ UNCHANGED <<window, records, spill, hook, recSeen, spillSeen, reread, landed, raced>>

SpillDoomed(f) == \E l \in Doomed(f) : spillSeen[f][l] > 0

\* The records file under the lock that has been held since it was read.
RewriteRecords(f) ==
  /\ fg[f] = "counted"
  /\ records' = recSeen[f] \ Doomed(f)
  /\ IF SpillDoomed(f) THEN Goto(f, "spillWait") /\ UNCHANGED <<recLock, spillLock>>
                       ELSE Goto(f, "done") /\ Close(f)
  /\ UNCHANGED <<window, spill, hook, gaps, recSeen, spillSeen, reread, landed, raced>>

\* rewriteSpill's lock, or its timeout.
LockSpill(f) ==
  /\ fg[f] = "spillWait"
  /\ \/ /\ spillLock = Nobody
        /\ spillLock' = f
        /\ Goto(f, "reread")
        /\ UNCHANGED recLock
     \/ spillLock # Nobody /\ Goto(f, "failed") /\ Close(f)
  /\ UNCHANGED <<window, records, spill, hook, gaps, recSeen, spillSeen, reread, landed, raced>>

\* (broken: the file is rewritten from what the plan read)
RereadNothing(f) ==
  /\ fg[f] = "reread"
  /\ reread' = [reread EXCEPT ![f] = spillSeen[f]]
  /\ Goto(f, "write")
  /\ UNCHANGED <<window, files, hook, gaps, recSeen, spillSeen, landed, raced>>

Reread(f) ==
  /\ fg[f] = "reread"
  /\ reread' = [reread EXCEPT ![f] = spill]
  /\ Goto(f, "write")
  /\ UNCHANGED <<window, files, hook, gaps, recSeen, spillSeen, landed, raced>>

\* (broken: one tally of both files is taken from the spill file)
RewriteSpillOneTally(f) ==
  /\ fg[f] = "write"
  /\ spill' = [l \in Lines |-> reread[f][l] - Counted(f)[l]]
  /\ Goto(f, "done")
  /\ Close(f)
  /\ UNCHANGED <<window, records, hook, gaps, recSeen, spillSeen, reread, landed, raced>>

\* Every line is written back but as many copies as the plan counted; a line
\* that landed since the file was read again is cut off.
RewriteSpill(f) ==
  /\ fg[f] = "write"
  /\ spill' = [l \in Lines |->
       IF l \notin Doomed(f) THEN reread[f][l]
       ELSE IF reread[f][l] > spillSeen[f][l] THEN reread[f][l] - spillSeen[f][l] ELSE 0]
  /\ Goto(f, "done")
  /\ Close(f)
  /\ UNCHANGED <<window, records, hook, gaps, recSeen, spillSeen, reread, landed, raced>>

\* The user interrupts it, or a write of its fails.
Kill(f) ==
  /\ Kills
  /\ fg[f] \in {"locked", "read", "planned", "counted", "spillWait", "reread", "write"}
  /\ Goto(f, "killed")
  /\ Close(f)
  /\ UNCHANGED <<window, records, spill, hook, gaps, recSeen, spillSeen, reread, landed, raced>>

Over ==
  /\ \A l \in Lines : hook[l] = "done"
  /\ \A f \in Forgets : fg[f] \in {"done", "nothing", "failed", "killed"}
  /\ UNCHANGED vars

Next ==
  \/ \E l \in Lines : HookLock(l) \/ HookAppend(l) \/ HookSpillLock(l) \/ HookSpill(l)
  \/ \E f \in Forgets :
       \/ LockRecords(f) \/ ReadRecords(f) \/ ReadSpill(f) \/ WriteGap(f)
       \/ RewriteRecords(f) \/ LockSpill(f) \/ Reread(f) \/ RewriteSpill(f) \/ Kill(f)
  \/ Over

Spec == Init /\ [][Next]_vars

-----------------------------------------------------------------------------
\* No copy of a line leaves a run without a gap that counts it, whether it
\* landed before the plan, between the plan and the rewrite, under the lock or
\* after a patience that ran out; the one exception the code accepts is a line
\* written without the lock while the spill file is rewritten (rewriteSpill).
LossIsCounted ==
  \A l \in Lines \ raced : landed[l] <= Copies(l) + gaps[l]

\* A forget that ends well leaves no line of a call it removed that it had
\* read: "the records sharing a tool_use_id leave together", from both files,
\* or a declaration without its terminal would read as a killed handler.
CallsLeaveWhole ==
  \A f \in Forgets : fg[f] = "done" =>
    \A l \in Seen(f) : (\E m \in Seen(f) \cap window : m[1] = l[1]) => Copies(l) = 0

\* Two forgets of one window do not both count a line, unless one was killed or
\* failed between its gap and its rewrite.
CountedOnce ==
  (\A f \in Forgets : fg[f] \notin {"killed", "failed"}) =>
    \A l \in Lines : gaps[l] <= landed[l]

=============================================================================
