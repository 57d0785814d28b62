------------------------------- MODULE Ledger -------------------------------
(***************************************************************************)
(* One project's learner ledger (internal/learn ledger.go, active.go,      *)
(* cmd/rashomon learn.go): lessons.json and active.json, each replaced     *)
(* whole, and state.sum, which signs the two.  A learn verb opens the      *)
(* ledger, may wait at the terminal for a person, and saves; nothing keeps *)
(* two verbs apart, a verb may be killed anywhere, and some other program  *)
(* may replace a file.  A prompt's hook reads what may reach the agent.    *)
(*                                                                         *)
(* labels.ndjson is left out: nothing outside the package appends to it,   *)
(* so every approved lesson is on probation.                               *)
(***************************************************************************)
EXTENDS Integers, FiniteSets

CONSTANTS
  Lessons,     \* lesson ids
  Verbs,       \* runs of the learn command
  Readers,     \* prompts
  Absent,      \* a file that does not exist
  MaxKills,    \* bound: verbs killed
  MaxForeign,  \* bound: files replaced by another program
  Overlap      \* whether two verbs may run at once (TRUE or FALSE)

VARIABLES
  disk,       \* lessons.json, active.json and state.sum
  key,        \* the learner's key: "none", "first", or the verb that made it
  verb,       \* what each run of the command has in memory
  reader,     \* and each prompt's hook
  kills, foreign,   \* how many of those there have been
  standing,   \* history: the lessons a person let through, as it stands
  withdrawn,  \* history: those a verb said no longer reach the agent
  mixed       \* history: whether two verbs overlapped, or another program
              \* replaced a file beside a verb or a prompt

history == <<standing, withdrawn, mixed>>
vars == <<disk, key, verb, reader, kills, foreign, history>>

Files == {"lessons", "active"}
Tiers == [Lessons -> {"none", "proposed", "approved"}]
Approved(tiers) == {l \in Lessons : tiers[l] = "approved"}
NoLessons == [l \in Lessons |-> "none"]
NoFiles == [f \in Files \cup {"sum"} |-> Absent]
Sign(k, files) == [key |-> k, lessons |-> files.lessons, active |-> files.active]
Checks(k, files) == k # "none" /\ files.sum = Sign(k, files)

TypeOK ==
  /\ disk.lessons \in Tiers \cup {Absent}
  /\ disk.active = Absent \/ disk.active.rows \subseteq Lessons
  /\ key \in Verbs \cup {"none", "first"}
  /\ \A v \in Verbs :
       /\ verb[v].at \in {"idle", "lessons", "active", "sum", "check", "ask", "key", "newKey",
                          "replace", "sign", "done", "killed"}
       /\ verb[v].tiers \in Tiers /\ verb[v].rest \subseteq Files
  /\ \A r \in Readers : reader[r].gave \subseteq Lessons
  /\ kills \in 0..MaxKills /\ foreign \in 0..MaxForeign
  /\ standing \subseteq Lessons /\ withdrawn \subseteq Lessons /\ mixed \in BOOLEAN

Idle == [at |-> "idle", got |-> NoFiles, tiers |-> NoLessons, flagged |-> FALSE,
         opened |-> FALSE, drops |-> {}, key |-> "none", rest |-> {}]

Init ==
  /\ \/ disk = NoFiles /\ key = "none" /\ standing = {}
     \/ \E tiers \in Tiers :
          /\ key = "first" /\ standing = Approved(tiers)
          /\ LET active == [quarantined |-> FALSE, rows |-> Approved(tiers)]
                 files == [NoFiles EXCEPT !.lessons = tiers, !.active = active]
             IN disk = [files EXCEPT !.sum = Sign("first", files)]
  /\ verb = [v \in Verbs |-> Idle]
  /\ reader = [r \in Readers |-> [at |-> "idle", try |-> 1, got |-> NoFiles, key |-> "none",
                                  gave |-> {}, could |-> {}, calm |-> TRUE]]
  /\ kills = 0 /\ foreign = 0 /\ withdrawn = {} /\ mixed = FALSE

Live(v) == verb[v].at \notin {"idle", "done", "killed"}
At(v, where) == verb[v].at = where
Ended(v, how) == [Idle EXCEPT !.at = how, !.flagged = verb[v].flagged]
Calm == \A v \in Verbs : ~Live(v)

-----------------------------------------------------------------------------
\* Open: readState takes the files one by one, and then state.sum.
Start(v) ==
  /\ At(v, "idle") /\ (Overlap \/ Calm)
  /\ verb' = [verb EXCEPT ![v].at = "lessons"]
  /\ mixed' = (mixed \/ ~Calm)
  /\ reader' = [r \in Readers |-> [reader[r] EXCEPT !.calm = FALSE]]
  /\ UNCHANGED <<disk, key, kills, foreign, standing, withdrawn>>

Following(v) ==
  CASE At(v, "lessons") -> "active"
    [] At(v, "active") -> IF verb[v].rest = {} THEN "sum" ELSE "sign"
    [] At(v, "sum") -> "check"

ReadFile(v) ==
  /\ verb[v].at \in {"lessons", "active", "sum"}
  /\ verb' = [verb EXCEPT ![v].got[verb[v].at] = disk[verb[v].at], ![v].at = Following(v)]
  /\ UNCHANGED <<disk, key, reader, kills, foreign, history>>

\* A state that its manifest does not sign is quarantined: every lesson goes
\* back to proposed, and is saved so before the verb goes on.
Check(v) ==
  /\ At(v, "check")
  /\ LET got == verb[v].got
         bad == got # NoFiles /\ ~Checks(key, got)
         tiers == IF got.lessons = Absent THEN NoLessons ELSE got.lessons
         proposed == [l \in Lessons |-> IF tiers[l] = "none" THEN "none" ELSE "proposed"]
     IN verb' = [verb EXCEPT ![v].tiers = IF bad THEN proposed ELSE tiers,
                             ![v].flagged = bad, ![v].at = IF bad THEN "key" ELSE "ask",
                             ![v].opened = ~bad]
  /\ UNCHANGED <<disk, key, reader, kills, foreign, history>>

\* What the person asked for, once they typed the code, or a refusal.
Saves(v, l, tier, drops) ==
  verb' = [verb EXCEPT ![v].tiers[l] = tier, ![v].drops = drops, ![v].at = "key",
                       ![v].flagged = @ /\ tier # "approved"]

Approve(v, l) ==
  /\ At(v, "ask") /\ verb[v].tiers[l] = "proposed"
  /\ Saves(v, l, "approved", {})
  /\ standing' = standing \cup {l} /\ withdrawn' = withdrawn \ {l}
  /\ reader' = [r \in Readers |-> [reader[r] EXCEPT !.could = @ \cup {l}]]
  /\ UNCHANGED <<disk, key, kills, foreign, mixed>>

Withdraw(v, l) ==
  /\ At(v, "ask") /\ verb[v].tiers[l] = "approved"
  /\ Saves(v, l, "proposed", {l})
  /\ UNCHANGED <<disk, key, reader, kills, foreign, history>>

\* An import saves even if it adds nothing.
Import(v, l) ==
  /\ At(v, "ask")
  /\ IF verb[v].tiers[l] = "none" THEN Saves(v, l, "proposed", {})
     ELSE verb' = [verb EXCEPT ![v].at = "key"]
  /\ UNCHANGED <<disk, key, reader, kills, foreign, history>>

\* The listing, a code that was not typed, and a verb that is refused.
EndUnsaved(v) ==
  /\ At(v, "ask")
  /\ verb' = [verb EXCEPT ![v] = Ended(v, "done")]
  /\ UNCHANGED <<disk, key, reader, kills, foreign, history>>

-----------------------------------------------------------------------------
\* Save: ensureKey, which replaces a key that it did not find.
EnsureKey(v) ==
  /\ At(v, "key")
  /\ verb' = [verb EXCEPT ![v].key = key, ![v].rest = Files,
                          ![v].at = IF key = "none" THEN "newKey" ELSE "replace"]
  /\ UNCHANGED <<disk, key, reader, kills, foreign, history>>

NewKey(v) ==
  /\ At(v, "newKey")
  /\ key' = v
  /\ verb' = [verb EXCEPT ![v].key = v, ![v].at = "replace"]
  /\ UNCHANGED <<disk, reader, kills, foreign, history>>

\* What a verb writes: every lesson, and the approved ones for the prompt.
Written(v, file) ==
  IF file = "lessons" THEN verb[v].tiers
  ELSE [quarantined |-> verb[v].flagged, rows |-> Approved(verb[v].tiers)]

\* (broken: the manifest signs the files as Open read them)
ReplaceUnread(v) ==
  /\ At(v, "replace")
  /\ \E f \in verb[v].rest :
       /\ disk' = [disk EXCEPT ![f] = Written(v, f)]
       /\ IF verb[v].rest = Files THEN verb' = [verb EXCEPT ![v].rest = @ \ {f}]
          ELSE verb' = [verb EXCEPT ![v].at = "sign"]
  /\ UNCHANGED <<key, reader, kills, foreign, history>>

\* The two files, in the order a Go map comes in; rest is what is not read
\* back yet, and the last file written stays in it until the signature.
Replace(v) ==
  /\ At(v, "replace")
  /\ \E f \in verb[v].rest :
       /\ disk' = [disk EXCEPT ![f] = Written(v, f)]
       /\ IF verb[v].rest = Files THEN verb' = [verb EXCEPT ![v].rest = @ \ {f}]
          ELSE verb' = [verb EXCEPT ![v].at = "lessons"]
  /\ UNCHANGED <<key, reader, kills, foreign, history>>

\* The manifest signs the files as they were read back, and the verb says so. A
\* quarantine stands from here on, and its verb goes on to what it was asked.
SignState(v) ==
  /\ At(v, "sign")
  /\ disk' = [disk EXCEPT !.sum = Sign(verb[v].key, verb[v].got)]
  /\ verb' = [verb EXCEPT ![v] = IF @.opened THEN Ended(v, "done")
                                 ELSE [@ EXCEPT !.at = "ask", !.opened = TRUE, !.rest = {}]]
  /\ standing' = IF verb[v].opened THEN standing \ verb[v].drops ELSE {}
  /\ withdrawn' = withdrawn \cup verb[v].drops
  /\ UNCHANGED <<key, reader, kills, foreign, mixed>>

\* A kill, or an error of one of the writes.
Kill(v) ==
  /\ Live(v) /\ kills < MaxKills
  /\ verb' = [verb EXCEPT ![v] = Ended(v, "killed")]
  /\ kills' = kills + 1
  /\ UNCHANGED <<disk, key, reader, foreign, history>>

\* Another program replaces one of the files, with every lesson approved.
ReplaceElsewhere ==
  /\ foreign < MaxForeign /\ disk.sum # Absent
  /\ \E f \in Files :
       disk' = [disk EXCEPT ![f] = IF f = "lessons" THEN [l \in Lessons |-> "approved"]
                                   ELSE [quarantined |-> FALSE, rows |-> Lessons]]
  /\ foreign' = foreign + 1
  /\ mixed' = (mixed \/ ~Calm \/ \E r \in Readers : reader[r].at \in {"sum", "lessons", "active", "match"})
  /\ UNCHANGED <<key, verb, reader, kills, standing, withdrawn>>

-----------------------------------------------------------------------------
\* ReadActive: no active.json, or no key, ends it; then state.sum, and then
\* the files, once more if the first pass did not match.
Prompt(r) ==
  /\ reader[r].at = "idle"
  /\ reader' = [reader EXCEPT
       ![r] = [@ EXCEPT !.key = key, !.could = standing, !.calm = Calm,
                        !.at = IF disk.active = Absent THEN "nothing"
                               ELSE IF key = "none" THEN "unchecked" ELSE "sum"]]
  /\ UNCHANGED <<disk, key, verb, kills, foreign, history>>

ReadForPrompt(r) ==
  /\ reader[r].at \in {"sum", "lessons", "active"}
  /\ LET at == reader[r].at
         next == CASE at = "sum" -> "lessons" [] at = "lessons" -> "active" [] at = "active" -> "match"
     IN reader' = [reader EXCEPT ![r].got[at] = disk[at], ![r].at = next]
  /\ UNCHANGED <<disk, key, verb, kills, foreign, history>>

Given(active) == IF active = Absent \/ active.quarantined THEN {} ELSE active.rows

\* (broken: what two passes did not match is given all the same)
MatchOnce(r) ==
  /\ reader[r].at = "match"
  /\ LET me == reader[r] IN
     reader' = [reader EXCEPT ![r] =
       IF Checks(me.key, me.got) \/ me.try = 2 THEN [me EXCEPT !.at = "given", !.got = NoFiles, !.gave = Given(me.got.active)]
       ELSE [me EXCEPT !.at = "sum", !.got = NoFiles, !.try = 2, !.calm = Calm]]
  /\ UNCHANGED <<disk, key, verb, kills, foreign, history>>

Match(r) ==
  /\ reader[r].at = "match"
  /\ LET me == reader[r] IN
     reader' = [reader EXCEPT ![r] =
       IF Checks(me.key, me.got) THEN [me EXCEPT !.at = "given", !.got = NoFiles, !.gave = Given(me.got.active)]
       ELSE IF me.try = 2 THEN [me EXCEPT !.at = "unchecked", !.got = NoFiles]
       ELSE [me EXCEPT !.at = "sum", !.got = NoFiles, !.try = 2, !.calm = Calm]]
  /\ UNCHANGED <<disk, key, verb, kills, foreign, history>>

Next ==
  \/ \E v \in Verbs :
       \/ Start(v) \/ ReadFile(v) \/ Check(v)
       \/ EndUnsaved(v) \/ \E l \in Lessons : Approve(v, l) \/ Withdraw(v, l) \/ Import(v, l)
       \/ EnsureKey(v) \/ NewKey(v) \/ Replace(v) \/ SignState(v) \/ Kill(v)
  \/ \E r \in Readers : Prompt(r) \/ ReadForPrompt(r) \/ Match(r)
  \/ ReplaceElsewhere

Spec == Init /\ [][Next]_vars

-----------------------------------------------------------------------------
\* What a prompt that comes now, with nothing beside it, would give.
Reaches == IF key # "none" /\ Checks(key, disk) THEN Given(disk.active) ELSE {}

\* With one verb at a time, a lesson reaches the agent only while a person's
\* approval of it stands: after a verb killed in the middle of a Save, a file
\* replaced by another program and the quarantine that follows, and for a
\* prompt that reads while a Save is under way (Open, Save, ReadActive, LD7).
OnlyApprovedArrives ==
  ~mixed => /\ Reaches \subseteq standing
            /\ \A r \in Readers : reader[r].gave \subseteq reader[r].could

\* The user is told of a write the ledger did not make, by Open's quarantine
\* or by a prompt that no verb ran beside, only if there was one, or a verb
\* was killed (Ledger.Quarantined, UncheckedSignature).
AlarmIsReal ==
  /\ ~mixed /\ kills = 0 /\ foreign = 0 => \A v \in Verbs : ~verb[v].flagged
  /\ \A r \in Readers :
       reader[r].at = "unchecked" /\ reader[r].calm => mixed \/ kills > 0 \/ foreign > 0

\* Withdraw says that the lesson "leaves active.json and reaches the agent
\* again only once a person approves it".
WithdrawnStaysOut == withdrawn \cap Reaches = {}

=============================================================================
