-------------------------------- MODULE Steer -------------------------------
(***************************************************************************)
(* One session's steering: hooks that route their findings through the     *)
(* steer log (internal/steer route.go, internal/store steerlog.go), the    *)
(* stale trigger they race for (internal/hook steerstep.go), the notice    *)
(* the session prints once, and the Stop that looks for each delivered     *)
(* note in Claude Code's transcript (internal/steer evidence.go).          *)
(*                                                                         *)
(* The kinds of hook: "gate" (the post of a gate run), "write" (the post   *)
(* of a write), "start" (SessionStart, which has no prompt) and "stop".    *)
(* A decision and what it reads under the log's lock are one step; the     *)
(* write, the flush and the print that follow are steps of their own, and  *)
(* a process may end, or the machine lose power, between any two.          *)
(***************************************************************************)
EXTENDS SteerDecide

CONSTANTS
  Hooks,        \* the session's hook invocations
  Kind,         \* what each hook is
  Prompt,       \* the prompt each hook belongs to, 0 for a start hook
  Clock,        \* the millisecond each hook's lines carry
  Calls,        \* the calls a hook's judge may come up with
  Draws,        \* what a session may be: [armOff, held, ci]
  Prompts,      \* bound: the prompts of the session
  Versions,     \* bound: Claude Code's versions while the session lasts
  MaxFaults,    \* bound: kills, failed writes and lost power
  AutoCompact,  \* whether a compaction may come in the middle of a prompt
  Nobody        \* the holder of the log's lock when there is none

ASSUME SteerAssumption ==
  /\ Kind \in [Hooks -> {"gate", "write", "start", "stop"}]
  /\ Clock \in [Hooks -> Nat]
  /\ \A h \in Hooks : Kind[h] # "stop" => \A call \in Calls[h] : IsCall(call)
  /\ Prompts \subseteq Nat /\ Prompts # {}
  /\ Versions \subseteq Nat \ {0} /\ Versions # {}
  /\ MaxNotes \in Nat /\ MaxFlags \in Nat /\ MaxFaults \in Nat
  /\ Nobody \notin Hooks

VARIABLES
  prompt,    \* the prompt the session is in
  version,   \* the version of Claude Code that runs it
  carries,   \* the versions on which a printed note reaches the model
  draw,      \* the session's arm, its draw into the holdout, and whether CI runs it
  log,       \* steer.ndjson
  synced,    \* how much of the log a full sync covers
  lock,      \* the holder of the log's lock
  armed,     \* the stale trigger's marker
  notices,   \* the markers of the notices the session has had
  shadow,    \* per event, the version whose notes were not seen, 0 for none
  pc,        \* where each hook is
  batch,     \* the lines each hook has decided, or a Stop's verdicts
  out,       \* what each hook is to print
  owes,      \* the marker a failed append has to give back
  faults,    \* how many faults there have been
  arms,      \* history: how often the trigger was armed
  took,      \* history: the hooks that took the trigger
  shown,     \* history: the hooks that printed
  lost       \* history: whether the machine lost power

session == <<prompt, version, carries, draw>>
markers == <<armed, notices, shadow>>
local == <<pc, batch, out, owes>>
history == <<arms, took, shown, lost>>
vars == <<session, log, synced, lock, markers, local, faults, history>>

Events == {"post", "start"}
EventOf(h) == IF Kind[h] = "start" THEN "start" ELSE "post"
Nothing == [what |-> "nothing", line |-> 0]

\* A hook's line of the log: a note's, or a Stop's verdict on one.
NoteLine(h, i, line, notice) ==
  [type |-> "note", hook |-> h, n |-> i, at |-> Clock[h], prompt |-> Prompt[h],
   version |-> version, notice |-> notice, key |-> line.key, level |-> line.level,
   own |-> line.own, reserve |-> line.reserve, state |-> line.state, by |-> line.by,
   held |-> line.held, told |-> line.told]
Verdict(line, found, streak) ==
  [type |-> "evidence", hook |-> line.hook, n |-> line.n,
   event |-> EventOf(line.hook), version |-> line.version, evidence |-> found, streak |-> streak]

TypeOK ==
  /\ prompt \in Prompts /\ version \in Versions /\ carries \subseteq Versions
  /\ draw \in Draws
  /\ \A i \in DOMAIN log : log[i].type \in {"note", "evidence"}
  /\ synced \in 0..Len(log)
  /\ lock \in Hooks \cup {Nobody}
  /\ armed \in BOOLEAN
  /\ notices \subseteq Notices
  /\ shadow \in [Events -> Versions \cup {0}]
  /\ pc \in [Hooks -> {"idle", "take", "route", "judged", "locked", "written", "flushed",
                       "failed", "done"}]
  /\ \A h \in Hooks : out[h].what \in {"note", "flag", "notice", "nothing"}
  /\ owes \in [Hooks -> Notices \cup {""}]
  /\ faults \in 0..MaxFaults
  /\ arms \in Nat /\ took \subseteq Hooks
  /\ shown \subseteq Hooks /\ lost \in BOOLEAN

Init ==
  /\ prompt = Min(Prompts) /\ version = Min(Versions)
  /\ carries \in SUBSET Versions
  /\ draw \in Draws
  /\ log = <<>> /\ synced = 0
  /\ lock = Nobody
  /\ armed = FALSE /\ notices = {}
  /\ shadow = [e \in Events |-> 0]
  /\ pc = [h \in Hooks |-> "idle"]
  /\ batch = [h \in Hooks |-> <<>>]
  /\ out = [h \in Hooks |-> Nothing]
  /\ owes = [h \in Hooks |-> ""]
  /\ faults = 0 /\ arms = 0 /\ took = {} /\ shown = {} /\ lost = FALSE

Live(h) == pc[h] \notin {"idle", "done"}
Quiet == \A h \in Hooks : ~Live(h)
Started(p) == \E h \in Hooks : Prompt[h] = p /\ pc[h] # "idle"
Goto(h, where) == pc' = [pc EXCEPT ![h] = where]

\* Claude Code runs a start hook alone, between prompts or at a compaction;
\* a prompt's other hooks together; and its Stop after them.
MayBegin(h) ==
  /\ pc[h] = "idle"
  /\ CASE Kind[h] = "start" -> Quiet /\ (AutoCompact \/ ~Started(prompt))
       [] Kind[h] = "stop" -> Prompt[h] = prompt /\ Quiet
       [] OTHER -> /\ Prompt[h] = prompt
                   /\ \A g \in Hooks : Live(g) => Kind[g] \in {"gate", "write"}
                   /\ \A g \in Hooks : Kind[g] = "stop" /\ Prompt[g] = prompt => pc[g] = "idle"

NextPrompt ==
  /\ Quiet /\ prompt + 1 \in Prompts
  /\ prompt' = prompt + 1
  /\ UNCHANGED <<version, carries, draw, log, synced, lock, markers, local, faults, history>>

\* The session is resumed under a newer Claude Code, once its log has a line;
\* without one it is as a session that starts there.
Upgrade ==
  /\ Quiet /\ version + 1 \in Versions /\ ~Started(prompt) /\ log # <<>>
  /\ version' = version + 1
  /\ UNCHANGED <<prompt, carries, draw, log, synced, lock, markers, local, faults, history>>

-----------------------------------------------------------------------------
\* armStale, at the post of a gate run, which then routes.
ArmStale(h) ==
  /\ Kind[h] = "gate" /\ MayBegin(h)
  /\ armed' = TRUE /\ arms' = arms + 1
  /\ Goto(h, "route")
  /\ UNCHANGED <<session, log, synced, lock, notices, shadow, batch, out, owes, faults, took, shown, lost>>

\* staleWrite's first look: an unarmed write reads nothing more.
StaleArmed(h) ==
  /\ Kind[h] = "write" /\ MayBegin(h)
  /\ Goto(h, IF armed THEN "take" ELSE "done")
  /\ UNCHANGED <<session, log, synced, lock, markers, batch, out, owes, faults, history>>

\* (broken: the marker is looked at again and not removed by name)
TakeSeen(h) ==
  /\ pc[h] = "take"
  /\ armed' = FALSE
  /\ took' = took \cup {h}
  /\ Goto(h, "route")
  /\ UNCHANGED <<session, log, synced, lock, notices, shadow, batch, out, owes, faults, arms, shown, lost>>

\* TakeStaleArm: the one that removes the marker judges.
TakeStaleArm(h) ==
  /\ pc[h] = "take"
  /\ armed' = FALSE
  /\ took' = IF armed THEN took \cup {h} ELSE took
  /\ Goto(h, IF armed THEN "route" ELSE "done")
  /\ UNCHANGED <<session, log, synced, lock, notices, shadow, batch, out, owes, faults, arms, shown, lost>>

SessionStart(h) ==
  /\ Kind[h] = "start" /\ MayBegin(h)
  /\ Goto(h, "route")
  /\ UNCHANGED <<session, log, synced, lock, markers, batch, out, owes, faults, history>>

\* The routed call: its own verdict on the channel, and the session's draws. No
\* one reads the notes of a post under CI.
Routed(h, call) ==
  [findings |-> call.findings, rule |-> "context",
   attended |-> call.attended /\ (draw.ci => Kind[h] = "start"),
   clamped |-> call.clamped, prompted |-> Prompt[h] # 0, armOff |-> draw.armOff,
   held |-> draw.held,
   verified |-> call.verified /\ shadow[EventOf(h)] \in {v \in 0..Max(Versions) : v < version}]

\* evidenceShadow: a client newer than the marker's removes it.
Unshadow(h, call) ==
  shadow' = [shadow EXCEPT ![EventOf(h)] = IF call.verified /\ @ < version THEN 0 ELSE @]

\* route under the lock: count, decide, and the notice where nothing prints.
Route(h) ==
  /\ pc[h] = "route" /\ lock = Nobody
  /\ \E call \in Calls[h] :
       LET routed == Routed(h, call)
           lines == Lines(routed, Count(log, Prompt[h]))
           prints == Printing(lines)
           at == NoticeLine(lines)
           name == IF at = 0 THEN "" ELSE NoticeOf(lines[at])
           takes == at # 0 /\ name \notin notices
       IN /\ lines # <<>>
          /\ batch' = [batch EXCEPT ![h] =
                        [i \in DOMAIN lines |-> NoteLine(h, i, lines[i], takes /\ i = at)]]
          /\ out' = [out EXCEPT ![h] =
                      IF prints # 0
                      THEN [what |-> IF lines[prints].told THEN "note" ELSE "flag", line |-> prints]
                      ELSE IF takes THEN [what |-> "notice", line |-> at] ELSE Nothing]
          /\ notices' = IF takes THEN notices \cup {name} ELSE notices
          /\ owes' = [owes EXCEPT ![h] = IF takes THEN name ELSE ""]
          /\ Unshadow(h, call)
  /\ lock' = h
  /\ Goto(h, "locked")
  /\ UNCHANGED <<session, log, synced, armed, faults, history>>

\* Another call holds the lock for too long, or nothing is above off: the call
\* writes no line and prints nothing.
RouteNothing(h) ==
  /\ pc[h] = "route"
  /\ lock # Nobody \/ \E call \in Calls[h] : Ranked(call.findings) = <<>>
  /\ Goto(h, "done")
  /\ UNCHANGED <<session, log, synced, lock, markers, batch, out, owes, faults, history>>

-----------------------------------------------------------------------------
\* The batch goes out in one write, and the append is ordered.
AppendLines(h) ==
  /\ pc[h] = "locked" /\ lock = h
  /\ log' = log \o batch[h]
  /\ lock' = Nobody
  /\ owes' = [owes EXCEPT ![h] = ""]
  /\ Goto(h, "written")
  /\ UNCHANGED <<session, synced, markers, batch, out, faults, history>>

Fault == faults < MaxFaults /\ faults' = faults + 1

\* The write or the barrier after it fails: some of the lines, none or all of
\* them are in the log, and the call prints nothing.
AppendFails(h) ==
  /\ pc[h] = "locked" /\ lock = h /\ Fault
  /\ \E n \in 0..Len(batch[h]) : log' = log \o SubSeq(batch[h], 1, n)
  /\ lock' = Nobody
  /\ out' = [out EXCEPT ![h] = Nothing]
  /\ Goto(h, "failed")
  /\ UNCHANGED <<session, synced, markers, batch, owes, history>>

\* (broken: a marker is given back whoever took it)
ReturnAny(h) ==
  /\ pc[h] = "failed"
  /\ notices' = {}
  /\ owes' = [owes EXCEPT ![h] = ""]
  /\ Goto(h, "done")
  /\ UNCHANGED <<session, log, synced, lock, armed, shadow, batch, out, faults, history>>

\* ReturnNotice, after the lock is released, so a later call prints it.
ReturnNotice(h) ==
  /\ pc[h] = "failed"
  /\ notices' = notices \ {owes[h]}
  /\ owes' = [owes EXCEPT ![h] = ""]
  /\ Goto(h, "done")
  /\ UNCHANGED <<session, log, synced, lock, armed, shadow, batch, out, faults, history>>

\* (broken: the sync's reach counts the call's own lines twice)
FlushAhead(h) ==
  /\ pc[h] = "written"
  /\ synced' = Len(log) + Len(batch[h])
  /\ Goto(h, "flushed")
  /\ UNCHANGED <<session, log, lock, markers, batch, out, owes, faults, history>>

\* (broken: the call prints before its line is flushed)
FlushNothing(h) ==
  /\ pc[h] = "written"
  /\ Goto(h, "flushed")
  /\ UNCHANGED <<session, log, synced, lock, markers, batch, out, owes, faults, history>>

\* Flush: one full sync of the file covers every line in it.
Flush(h) ==
  /\ pc[h] = "written"
  /\ synced' = Len(log)
  /\ Goto(h, "flushed")
  /\ UNCHANGED <<session, log, lock, markers, batch, out, owes, faults, history>>

\* A post whose flush fails prints nothing; a Stop goes on all the same.
FlushFails(h) ==
  /\ pc[h] = "written" /\ Fault
  /\ out' = [out EXCEPT ![h] = Nothing]
  /\ Goto(h, IF Kind[h] = "stop" THEN "flushed" ELSE "done")
  /\ UNCHANGED <<session, log, synced, lock, markers, batch, owes, history>>

PrintOut(h) ==
  /\ pc[h] = "flushed" /\ Kind[h] # "stop"
  /\ shown' = IF out[h] = Nothing THEN shown ELSE shown \cup {h}
  /\ Goto(h, "done")
  /\ UNCHANGED <<session, log, synced, lock, markers, batch, out, owes, faults, arms, took, lost>>

-----------------------------------------------------------------------------
\* What the session's log says of the notes a Stop has to look for.
Judged(line) ==
  \E i \in DOMAIN log : log[i].type = "evidence" /\ log[i].hook = line.hook /\ log[i].n = line.n
PendingNotes ==
  {i \in DOMAIN log : log[i].type = "note" /\ log[i].told /\ ~Judged(log[i])}

\* The note's text is in the transcript.
Reached(line) ==
  /\ line.hook \in shown
  /\ out[line.hook] = [what |-> "note", line |-> line.n]
  /\ line.version \in carries

\* priorStreaks: the absent readings in a row of an event that the log ends in.
PriorStreak(event) ==
  LET read == {i \in DOMAIN log : log[i].type = "evidence" /\ log[i].event = event
                                    /\ log[i].evidence # "unreadable"}
  IN IF read = {} THEN 0 ELSE log[Max(read)].streak

\* CheckEvidence up to its append: some of the pending notes are old enough to
\* judge, and the transcript reaches past them or does not. The log is read
\* without its lock, and the transcript is of the Stop's own session.
CheckEvidence(h) ==
  /\ Kind[h] = "stop" /\ MayBegin(h)
  /\ \E settled \in SUBSET PendingNotes, complete \in BOOLEAN :
       LET notes == InOrder(settled, {p \in settled \X settled : p[1] < p[2]})
           reading(i) == IF Reached(log[i]) /\ complete THEN "seen"
                         ELSE IF complete THEN "absent" ELSE "unreadable"
           seen(event) == \E i \in settled : EventOf(log[i].hook) = event /\ reading(i) = "seen"
           streak(i) == LET event == EventOf(log[i].hook) IN
                        IF reading(i) # "absent" \/ seen(event) THEN 0
                        ELSE PriorStreak(event) + 1
       IN /\ batch' = [batch EXCEPT ![h] =
                         [n \in DOMAIN notes |->
                            Verdict(log[notes[n]], reading(notes[n]), streak(notes[n]))]]
          /\ Goto(h, IF settled = {} THEN "done" ELSE "judged")
  /\ UNCHANGED <<session, log, synced, lock, markers, out, owes, faults, history>>

\* The Stop's append waits for the lock as any other, and is not made without.
LockForEvidence(h) ==
  /\ pc[h] = "judged" /\ lock = Nobody
  /\ lock' = h
  /\ Goto(h, "locked")
  /\ UNCHANGED <<session, log, synced, markers, batch, out, owes, faults, history>>

EvidenceAbsents == 2

\* (broken: one absent reading shuts the channel)
ShadowAtOnce(h) ==
  /\ Kind[h] = "stop" /\ pc[h] = "flushed"
  /\ shadow' = [e \in Events |->
       LET bad == {n \in DOMAIN batch[h] : batch[h][n].event = e /\ batch[h][n].streak >= 1}
       IN IF shadow[e] # 0 \/ bad = {} THEN shadow[e] ELSE batch[h][Min(bad)].version]
  /\ Goto(h, "done")
  /\ UNCHANGED <<session, log, synced, lock, armed, notices, batch, out, owes, faults, history>>

\* TakeChannelEvidence: the marker of an event whose notes two Stops in a row
\* did not find; the first version to shadow an event stays.
TakeChannelEvidence(h) ==
  /\ Kind[h] = "stop" /\ pc[h] = "flushed"
  /\ shadow' = [e \in Events |->
       LET bad == {n \in DOMAIN batch[h] :
                     batch[h][n].event = e /\ batch[h][n].streak >= EvidenceAbsents}
       IN IF shadow[e] # 0 \/ bad = {} THEN shadow[e] ELSE batch[h][Min(bad)].version]
  /\ batch' = [batch EXCEPT ![h] = <<>>]
  /\ Goto(h, "done")
  /\ UNCHANGED <<session, log, synced, lock, armed, notices, out, owes, faults, history>>

-----------------------------------------------------------------------------
\* A process ends where it is: in its write, any lines of the batch are there.
Kill(h) ==
  /\ Live(h) /\ Fault
  /\ \E n \in 0..Len(batch[h]) :
       /\ n > 0 => pc[h] = "locked"
       /\ log' = log \o SubSeq(batch[h], 1, n)
  /\ lock' = IF lock = h THEN Nobody ELSE lock
  /\ out' = [out EXCEPT ![h] = Nothing]
  /\ owes' = [owes EXCEPT ![h] = ""]
  /\ Goto(h, "done")
  /\ UNCHANGED <<session, synced, markers, batch, history>>

\* The machine loses power: every hook ends, the lines no full sync covers may
\* go, last first, and so may the markers, which are written without one.
PowerLoss ==
  /\ Fault
  /\ \E n \in synced..Len(log) : log' = SubSeq(log, 1, n) /\ synced' = n
  /\ \E kept \in SUBSET notices : notices' = kept
  /\ \E kept \in {armed, FALSE} : armed' = kept
  /\ lock' = Nobody
  /\ pc' = [h \in Hooks |-> IF Live(h) THEN "done" ELSE pc[h]]
  /\ out' = [h \in Hooks |-> IF Live(h) THEN Nothing ELSE out[h]]
  /\ owes' = [h \in Hooks |-> ""]
  /\ lost' = TRUE
  /\ UNCHANGED <<session, shadow, batch, arms, took, shown>>

Step(h) ==
  \/ ArmStale(h) \/ StaleArmed(h) \/ TakeStaleArm(h) \/ SessionStart(h)
  \/ Route(h) \/ RouteNothing(h)
  \/ AppendLines(h) \/ AppendFails(h) \/ ReturnNotice(h)
  \/ Flush(h) \/ FlushFails(h) \/ PrintOut(h)
  \/ CheckEvidence(h) \/ LockForEvidence(h) \/ TakeChannelEvidence(h)
  \/ Kill(h)

Next ==
  \/ NextPrompt \/ Upgrade \/ PowerLoss
  \/ \E h \in Hooks : Step(h)

Spec == Init /\ [][Next]_vars

-----------------------------------------------------------------------------
Printed(h, what) == h \in shown /\ out[h].what = what
At(h) == {i \in DOMAIN log : log[i].type = "note" /\ log[i].hook = h /\ log[i].n = out[h].line}

\* Nothing the user or the model saw is missing from the log, whoever was
\* killed and whenever the power went: route returns an Output only when its
\* append succeeded, and Post.Steer flushes before it prints (STR-8, REC-34).
PrintedIsRecorded ==
  \A h \in shown : \E i \in At(h) :
    IF out[h].what = "notice" THEN log[i].notice
    ELSE /\ log[i].state = "delivered"
         /\ log[i].level = IF out[h].what = "note" THEN "nudge" ELSE "flag"

PrintedLines(what) == UNION {At(h) : h \in {g \in shown : out[g].what = what}}

\* The call that wrote line j had to see line i of its prompt: between the two
\* lie lines of the prompt, then one foreign batch at most, then the call's own.
Reckoned(l, i, j) ==
  LET between == {k \in DOMAIN l : i < k /\ k < j /\ l[k].type = "note"}
      own == {k \in between : l[k].prompt = l[j].prompt}
      foreign == between \ own
  IN /\ i < j /\ l[i].prompt = l[j].prompt
     /\ OneBatch(l, foreign)
     /\ \A k \in own : (\E f \in foreign : f < k) => l[k].hook = l[j].hook

\* The lines of a kind that a line's call had to see, without the briefing.
Had(j, what) == {i \in PrintedLines(what) : ~log[i].own /\ Reckoned(log, i, j)}

\* However a prompt's hooks interleave, fail or are killed, and although a
\* compaction writes a line among its own, a call prints a note or a flag only
\* below the cap, a note that leaves some to the others (pattern.Reserve) below
\* that, and no note twice, what was printed before that foreign batch counted
\* (tech 4.2.5, countBudget and charge).
BudgetKept ==
  /\ \A j \in PrintedLines("note") :
       /\ ~log[j].own => Cardinality(Had(j, "note")) + log[j].reserve < MaxNotes
       /\ \A i \in PrintedLines("note") : Reckoned(log, i, j) => log[i].key # log[j].key
  /\ \A j \in PrintedLines("flag") : Cardinality(Had(j, "flag")) < MaxFlags

\* budget.go:79 says a prompt's lines are contiguous in the log, so that the
\* caps hold for a prompt and not only for its lines in a row.
OneBudgetPerPrompt ==
  \A i, j \in PrintedLines("note") :
    i # j /\ log[i].prompt = log[j].prompt => log[i].key # log[j].key

\* A session has each notice once, whoever raced for it and whoever failed and
\* gave its marker back (TakeNotice, ReturnNotice), unless the power went.
NoticeOnce ==
  \A name \in Notices :
    \/ lost
    \/ Cardinality({h \in shown : out[h].what = "notice"
                       /\ NoticeOf(batch[h][out[h].line]) = name}) <= 1

\* No more writes judge the run than gate runs armed the trigger, however many
\* saw it armed at once (TakeStaleArm).
OneJudgePerArm == lost \/ Cardinality(took) <= arms

\* A channel that shows its notes is not shut to the sessions that follow by
\* one note that a kill or a failed flush kept from the transcript: a marker
\* stands on two (CheckEvidence, evidenceAbsents).
Unseen(h) == \E n \in DOMAIN batch[h] : batch[h][n].type = "note" /\ batch[h][n].told /\ ~Reached(batch[h][n])
WorkingChannelStaysOpen ==
  \A e \in Events :
    shadow[e] \in carries => Cardinality({h \in Hooks : EventOf(h) = e /\ Unseen(h)}) >= 2

=============================================================================
