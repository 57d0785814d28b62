----------------------------- MODULE FilesProof -----------------------------
(***************************************************************************)
(* Theorems about the small files of MCFiles, each for any processes,      *)
(* faults and contents: the pause marker (Pause), settings.json            *)
(* (SettingsFile) and the learner's ledger (Ledger).  The invariants are   *)
(* of the part's own variables; a step of another part leaves them alone.  *)
(***************************************************************************)
EXTENDS MCFiles, SequenceTheorems, TLAPS

allVars == <<part, rewriteVars, learnVars, vars, pauseVars, settingsVars>>

-----------------------------------------------------------------------------
\* What the constants of Pause stand for: instants are numbers, the first is 1,
\* and no instant is a marker that does not exist or does not read.
Instants ==
  /\ Times \subseteq Int /\ 1 \in Times
  /\ Absent \notin Times \cup {Unreadable} /\ Unreadable \notin Times

Underway == {"mark", "cut", "open", "remove", "close"}
Commanded ==
  [at : Underway \cup {"idle", "paused", "resumed", "nothing", "killed"},
   now : Times, since : Times, owes : SUBSET Times, blind : BOOLEAN]
PauseType ==
  /\ clock \in Times /\ store \in BOOLEAN /\ opened \in BOOLEAN
  /\ marker \in Times \cup {Unreadable, Absent}
  /\ gaps \in Seq([from : Times, to : Times])
  /\ cmd \in [Pausers -> Commanded]
  /\ hidden \subseteq Times

\* One command at a time.
OnePauser == \A k, j \in Pausers : cmd[k].at \in Underway /\ cmd[j].at \in Underway => j = k

\* The calls of the pause in force: those that were hidden, and one that may be
\* now. The marker, and the gap of the pause, are no later than any of them.
Calls == hidden \cup {clock}
MarkerStarts ==
  /\ marker = Absent => hidden = {} /\ ~opened
  /\ marker \in Times => \A t \in Calls : marker <= t
GapStarts ==
  opened => /\ gaps # <<>> /\ gaps[Len(gaps)].from = gaps[Len(gaps)].to
            /\ \A t \in Calls : gaps[Len(gaps)].from <= t

\* Where a resume will say that the calls it owes began.
Starts(k, calls) == ~cmd[k].blind => \A t \in calls : Ps!EarlierPauseStart(cmd[k].since) <= t

\* What a command in the middle of its work knows.
Knows(k) ==
  /\ cmd[k].at = "mark" => marker = Absent
  /\ cmd[k].at = "cut" => marker = Unreadable
  /\ cmd[k].at = "open" => marker # Absent
  /\ cmd[k].at \in {"cut", "open"} => ~opened /\ \A t \in hidden : cmd[k].now <= t
  /\ cmd[k].at = "remove" => marker # Absent /\ Starts(k, Calls)
  /\ cmd[k].at = "close" =>
       marker = Absent /\ Starts(k, cmd[k].owes) /\ \A t \in cmd[k].owes : t <= cmd[k].now

PauseInv ==
  /\ PauseType /\ OnePauser /\ MarkerStarts /\ GapStarts
  /\ \A k \in Pausers : cmd[k].now <= clock /\ Knows(k)
  /\ Ps!HiddenCallsAreTold

LEMMA PauseInit ==
  ASSUME Instants, Ps!Init
  PROVE  PauseInv
<1>1. PauseType
  <2>1. [at |-> "idle", now |-> 1, since |-> 1, owes |-> {}, blind |-> FALSE] \in Commanded
    BY DEF Instants, Commanded
  <2>2. cmd \in [Pausers -> Commanded]
    BY <2>1 DEF Ps!Init
  <2>3. gaps \in Seq([from : Times, to : Times])
    BY EmptySeq DEF Ps!Init
  <2> QED BY <2>2, <2>3 DEF Ps!Init, PauseType, Instants
<1>2. \A k \in Pausers : cmd[k].at = "idle" /\ cmd[k].now = 1
  BY DEF Ps!Init
<1> QED
  BY <1>1, <1>2 DEF PauseInv, OnePauser, MarkerStarts, GapStarts, Knows, Underway, Ps!Init,
       Ps!HiddenCallsAreTold, Ps!At, Instants, Calls

\* What a command read is an instant, and so is what a resume says.
LEMMA PauseFacts ==
  ASSUME Instants, PauseType
  PROVE  /\ Times \subseteq Int /\ Calls \subseteq Times /\ clock \in Times
         /\ gaps # <<>> => /\ Len(gaps) \in DOMAIN gaps
                           /\ gaps[Len(gaps)].from \in Times /\ gaps[Len(gaps)].to \in Times
         /\ \A k \in Pausers :
              /\ cmd[k] \in Commanded
              /\ Ps!EarlierPauseStart(cmd[k].since) \in Times
<1>1. Times \subseteq Int /\ Calls \subseteq Times /\ clock \in Times
  BY DEF PauseType, Instants, Calls
<1>2. gaps # <<>> => /\ Len(gaps) \in DOMAIN gaps
                     /\ gaps[Len(gaps)].from \in Times /\ gaps[Len(gaps)].to \in Times
  <2> SUFFICES ASSUME gaps # <<>>
               PROVE  Len(gaps) \in 1..Len(gaps) /\ gaps[Len(gaps)] \in [from : Times, to : Times]
    BY DEF PauseType
  <2>1. gaps \in Seq([from : Times, to : Times])
    BY DEF PauseType
  <2>2. Len(gaps) \in 1..Len(gaps)
    BY <2>1, EmptySeq
  <2> QED BY <2>1, <2>2, ElementOfSeq
<1>3. ASSUME NEW k \in Pausers
      PROVE  cmd[k] \in Commanded /\ Ps!EarlierPauseStart(cmd[k].since) \in Times
  <2>1. cmd[k] \in Commanded /\ cmd[k].since \in Times
    BY DEF PauseType, Commanded
  <2> QED BY <1>2, <2>1 DEF Ps!EarlierPauseStart
<1> QED BY <1>1, <1>2, <1>3

\* A resume says no later start than the marker, or than the last gap of no width.
LEMMA StartIsFirst ==
  ASSUME Instants, PauseType, NEW since \in Times
  PROVE  /\ Ps!EarlierPauseStart(since) \in Int
         /\ Ps!EarlierPauseStart(since) <= since
         /\ gaps # <<>> /\ gaps[Len(gaps)].from = gaps[Len(gaps)].to
              => Ps!EarlierPauseStart(since) <= gaps[Len(gaps)].from
<1>1. since \in Int
  BY DEF Instants
<1>2. gaps # <<>> => gaps[Len(gaps)].from \in Int
  BY PauseFacts
<1> DEFINE from == gaps[Len(gaps)].from
           last == gaps # <<>> /\ from = gaps[Len(gaps)].to /\ from < since
<1>3. Ps!EarlierPauseStart(since) = IF last THEN from ELSE since
  BY DEF Ps!EarlierPauseStart
<1> QED BY <1>1, <1>2, <1>3

LEMMA PauseStep ==
  ASSUME Instants, ~Overlap, PauseInv, [Ps!Next]_pauseVars
  PROVE  PauseInv'
<1> USE DEF PauseInv
<1>t. /\ Times \subseteq Int /\ Calls \subseteq Times /\ clock \in Times /\ clock \in Int
      /\ hidden \subseteq Times
      /\ gaps # <<>> => Len(gaps) \in DOMAIN gaps /\ gaps[Len(gaps)].from \in Times
      /\ \A k \in Pausers : Ps!EarlierPauseStart(cmd[k].since) \in Times
  BY PauseFacts DEF PauseType
<1>s. ASSUME NEW k \in Pausers
      PROVE  /\ cmd[k].at \in Underway \cup {"idle", "paused", "resumed", "nothing", "killed"}
             /\ cmd[k].now \in Times /\ cmd[k].since \in Times /\ cmd[k].owes \subseteq Times
             /\ cmd[k].blind \in BOOLEAN
  BY PauseFacts DEF Commanded
<1>o. ASSUME NEW k \in Pausers, cmd[k].at \in Underway
      PROVE  \A j \in Pausers \ {k} : cmd[j].at \notin Underway
  BY <1>o DEF OnePauser
\* A command that is not in the middle of its work knows nothing.
<1>k. ASSUME NEW k \in Pausers, cmd'[k] = cmd[k], cmd[k].at \notin Underway
      PROVE  Knows(k)'
  BY <1>k DEF Knows, Underway
<1>1. CASE Ps!Tick
  <2>1. /\ clock' \in Times /\ clock' = clock + 1
        /\ UNCHANGED <<marker, store, gaps, cmd, hidden, opened, faults>>
    BY <1>1 DEF Ps!Tick
  <2>2. ASSUME NEW x \in Times, \A t \in Calls : x <= t
        PROVE  \A t \in Calls' : x <= t
    <3>1. x \in Int /\ x <= clock
      BY <1>t, <2>2 DEF Calls
    <3>2. x <= clock'
      BY <1>t, <2>1, <3>1
    <3> QED BY <2>1, <2>2, <3>2 DEF Calls
  <2>3. MarkerStarts' /\ GapStarts'
    BY <1>t, <2>1, <2>2 DEF MarkerStarts, GapStarts
  <2>4. ASSUME NEW k \in Pausers PROVE cmd'[k].now <= clock' /\ Knows(k)'
    <3>1. \A x \in Int : x <= clock => x <= clock'
      BY <1>t, <2>1
    <3>2. Starts(k, Calls) => Starts(k, Calls)'
      BY <1>t, <2>1, <2>2 DEF Starts, Ps!EarlierPauseStart
    <3>3. Starts(k, cmd[k].owes) => Starts(k, cmd[k].owes)'
      BY <2>1 DEF Starts, Ps!EarlierPauseStart
    <3> QED BY <1>s, <1>t, <2>1, <3>1, <3>2, <3>3 DEF Knows
  <2> QED
    BY <2>1, <2>3, <2>4 DEF PauseType, OnePauser, Ps!HiddenCallsAreTold, Ps!At
<1>2. CASE Ps!MakeStore
  <2>1. UNCHANGED <<clock, marker, gaps, cmd, hidden, opened, faults>> /\ store' = TRUE
    BY <1>2 DEF Ps!MakeStore
  <2> QED
    BY <2>1 DEF PauseType, OnePauser, MarkerStarts, GapStarts, Knows, Starts, Calls,
         Ps!EarlierPauseStart, Ps!HiddenCallsAreTold, Ps!At
<1>3. CASE Ps!Call
  <2>1. /\ marker # Absent /\ hidden' = hidden \cup {clock}
        /\ UNCHANGED <<clock, marker, store, gaps, cmd, opened, faults>>
    BY <1>3 DEF Ps!Call
  <2>2. Calls' = Calls
    BY <2>1 DEF Calls
  <2> QED
    BY <1>t, <2>1, <2>2 DEF PauseType, OnePauser, MarkerStarts, GapStarts, Knows, Starts,
         Ps!EarlierPauseStart, Ps!HiddenCallsAreTold, Ps!At
<1>4. CASE Ps!Spoil
  <2>1. /\ marker \in Times /\ marker' = Unreadable
        /\ UNCHANGED <<clock, store, gaps, cmd, hidden, opened>>
    BY <1>4 DEF Ps!Spoil
  <2> QED
    BY <2>1 DEF PauseType, OnePauser, MarkerStarts, GapStarts, Knows, Starts, Calls, Instants,
         Ps!EarlierPauseStart, Ps!HiddenCallsAreTold, Ps!At
<1>5. ASSUME NEW k \in Pausers, Ps!StartPause(k) PROVE PauseInv'
  <2>1. /\ cmd[k].at = "idle" /\ \A j \in Pausers : cmd[j].at \notin Underway
        /\ cmd' = [cmd EXCEPT ![k].now = clock, ![k].at = IF marker = Absent THEN "mark" ELSE "nothing"]
        /\ UNCHANGED <<clock, marker, store, gaps, hidden, opened, faults>>
    BY <1>5 DEF Ps!StartPause, Ps!MayStart, Ps!At, Underway
  <2>2. /\ cmd'[k].at = IF marker = Absent THEN "mark" ELSE "nothing"
        /\ cmd'[k].now = clock
        /\ cmd' \in [Pausers -> Commanded]
        /\ \A j \in Pausers \ {k} : cmd'[j] = cmd[j]
    BY <1>t, <2>1 DEF PauseType, Commanded, Underway
  <2>3. OnePauser'
    BY <2>1, <2>2 DEF OnePauser
  <2>4. \A j \in Pausers : cmd'[j].now <= clock' /\ Knows(j)'
    BY <1>k, <1>t, <2>1, <2>2 DEF Knows
  <2> QED
    BY <2>1, <2>2, <2>3, <2>4 DEF PauseType, MarkerStarts, GapStarts, Calls,
         Ps!HiddenCallsAreTold, Ps!At
<1>6. ASSUME NEW k \in Pausers, Ps!EmptyMarker(k) PROVE PauseInv'
  <2>1. /\ cmd[k].at = "mark" /\ marker = Absent /\ marker' = Unreadable
        /\ cmd' = [cmd EXCEPT ![k].at = "cut"]
        /\ UNCHANGED <<clock, store, gaps, hidden, opened, faults>>
    BY <1>6 DEF Ps!EmptyMarker, Ps!At, Ps!Goto, Knows
  <2>2. /\ cmd'[k].at = "cut" /\ cmd'[k].now = cmd[k].now
        /\ cmd' \in [Pausers -> Commanded]
        /\ \A j \in Pausers \ {k} : cmd'[j] = cmd[j] /\ cmd[j].at \notin Underway
    BY <1>o, <2>1 DEF PauseType, Commanded, Underway
  <2>3. OnePauser'
    BY <2>2 DEF OnePauser, Underway
  <2>4. hidden = {} /\ ~opened
    BY <2>1 DEF MarkerStarts
  <2>5. \A j \in Pausers : cmd'[j].now <= clock' /\ Knows(j)'
    BY <1>k, <2>1, <2>2, <2>4 DEF Knows
  <2>6. Ps!HiddenCallsAreTold'
    BY <2>1, <2>2 DEF Ps!HiddenCallsAreTold, Ps!At
  <2>7. MarkerStarts' /\ GapStarts'
    BY <2>1, <2>4 DEF MarkerStarts, GapStarts, Instants
  <2> QED BY <2>1, <2>2, <2>3, <2>5, <2>6, <2>7 DEF PauseType
<1>7. ASSUME NEW k \in Pausers, Ps!WriteMarker(k) PROVE PauseInv'
  <2>1. /\ cmd[k].at = "cut" /\ marker = Unreadable /\ marker' = cmd[k].now
        /\ ~opened /\ \A t \in hidden : cmd[k].now <= t
        /\ cmd' = [cmd EXCEPT ![k].at = "open"]
        /\ UNCHANGED <<clock, store, gaps, hidden, opened, faults>>
    BY <1>7 DEF Ps!WriteMarker, Ps!At, Ps!Goto, Knows, Instants
  <2>2. /\ cmd'[k].at = "open" /\ cmd'[k].now = cmd[k].now
        /\ cmd' \in [Pausers -> Commanded]
        /\ \A j \in Pausers \ {k} : cmd'[j] = cmd[j] /\ cmd[j].at \notin Underway
    BY <1>o, <2>1 DEF PauseType, Commanded, Underway
  <2>3. OnePauser'
    BY <2>2 DEF OnePauser, Underway
  <2>4. marker' \in Times /\ marker' # Absent
    BY <1>s, <2>1 DEF Instants
  <2>5. \A j \in Pausers : cmd'[j].now <= clock' /\ Knows(j)'
    BY <1>k, <2>1, <2>2, <2>4 DEF Knows
  <2>6. Ps!HiddenCallsAreTold'
    BY <2>1, <2>2 DEF Ps!HiddenCallsAreTold, Ps!At
  <2>7. MarkerStarts' /\ GapStarts'
    BY <2>1, <2>4 DEF MarkerStarts, GapStarts, Calls
  <2> QED BY <2>1, <2>2, <2>3, <2>4, <2>5, <2>6, <2>7 DEF PauseType
<1>8. ASSUME NEW k \in Pausers, Ps!OpenGap(k) PROVE PauseInv'
  <2> DEFINE gap == [from |-> cmd[k].now, to |-> cmd[k].now]
  <2>1. /\ cmd[k].at = "open" /\ marker # Absent /\ ~opened
        /\ \A t \in hidden : cmd[k].now <= t
        /\ gaps' = IF store THEN Append(gaps, gap) ELSE gaps
        /\ opened' = store
        /\ cmd' = [cmd EXCEPT ![k].at = "paused"]
        /\ UNCHANGED <<clock, marker, store, hidden, faults>>
    BY <1>8 DEF Ps!OpenGap, Ps!Gap, Ps!At, Ps!Goto, Knows, PauseType
  <2>2. /\ cmd'[k].at = "paused" /\ cmd'[k].now = cmd[k].now
        /\ cmd' \in [Pausers -> Commanded]
        /\ \A j \in Pausers \ {k} : cmd'[j] = cmd[j] /\ cmd[j].at \notin Underway
    BY <1>o, <2>1 DEF PauseType, Commanded, Underway
  <2>3. OnePauser'
    BY <2>2 DEF OnePauser, Underway
  <2>4. /\ gaps' \in Seq([from : Times, to : Times])
        /\ \A i \in DOMAIN gaps : i \in DOMAIN gaps' /\ gaps'[i] = gaps[i]
        /\ store => gaps' # <<>> /\ gaps'[Len(gaps')] = gap
    <3>1. gap \in [from : Times, to : Times] /\ gaps \in Seq([from : Times, to : Times])
      BY <1>s DEF PauseType
    <3> HIDE DEF gap
    <3>2. CASE store
      BY <2>1, <3>1, <3>2, AppendProperties
    <3>3. CASE ~store
      BY <2>1, <3>1, <3>3
    <3> QED BY <3>2, <3>3
  <2>5. \A j \in Pausers : cmd'[j].now <= clock' /\ Knows(j)'
    BY <1>k, <2>1, <2>2 DEF Knows
  <2>6. Ps!HiddenCallsAreTold'
    BY <2>2, <2>4 DEF Ps!HiddenCallsAreTold, Ps!At
  <2>7. MarkerStarts' /\ GapStarts'
    BY <2>1, <2>4 DEF MarkerStarts, GapStarts, Calls
  <2> QED BY <2>1, <2>2, <2>3, <2>4, <2>5, <2>6, <2>7 DEF PauseType
<1>9. ASSUME NEW k \in Pausers, Ps!StartResume(k) PROVE PauseInv'
  <2> DEFINE since == IF marker \in Times THEN marker ELSE clock
  <2> DEFINE blind == marker = Unreadable /\ ~opened
  <2>1. /\ cmd[k].at = "idle" /\ \A j \in Pausers : cmd[j].at \notin Underway
        /\ cmd' = [cmd EXCEPT ![k].now = clock, ![k].since = since, ![k].blind = blind,
                              ![k].at = IF marker = Absent THEN "nothing" ELSE "remove"]
        /\ UNCHANGED <<clock, marker, store, gaps, hidden, opened, faults>>
    BY <1>9 DEF Ps!StartResume, Ps!MayStart, Ps!At, Underway
  <2>2. /\ cmd'[k].at = (IF marker = Absent THEN "nothing" ELSE "remove")
        /\ cmd'[k].now = clock /\ cmd'[k].since = since
        /\ cmd'[k].blind = blind
        /\ cmd' \in [Pausers -> Commanded]
        /\ \A j \in Pausers \ {k} : cmd'[j] = cmd[j]
    <3>1. blind \in BOOLEAN /\ since \in Times
      BY <1>t
    <3> HIDE DEF blind, since
    <3> QED BY <1>t, <2>1, <3>1 DEF PauseType, Commanded, Underway
  <2>3. OnePauser'
    BY <2>1, <2>2 DEF OnePauser
  <2>4. marker # Absent => Starts(k, Calls)'
    <3>0. /\ Calls' = Calls /\ Ps!EarlierPauseStart(cmd[k].since)' = Ps!EarlierPauseStart(since)
          /\ marker \in Times \cup {Unreadable, Absent}
      BY <2>1, <2>2 DEF Calls, Ps!EarlierPauseStart, PauseType
    <3> SUFFICES ASSUME marker # Absent, marker \in Times \/ opened, NEW t \in Calls
                 PROVE  Ps!EarlierPauseStart(since) <= t
      BY <2>2, <3>0 DEF Starts
    <3>1. since \in Times /\ since \in Int /\ t \in Int /\ (opened => gaps[Len(gaps)].from \in Int)
      BY <1>t DEF GapStarts
    <3>2. CASE marker \in Times
      <4>1. since <= t
        BY <3>2 DEF MarkerStarts
      <4> HIDE DEF since
      <4> QED BY <3>1, <4>1, StartIsFirst
    <3>3. CASE opened
      <4> HIDE DEF since
      <4> QED BY <3>1, <3>3, StartIsFirst DEF GapStarts
    <3> QED BY <3>2, <3>3
  <2>5. \A j \in Pausers : cmd'[j].now <= clock' /\ Knows(j)'
    BY <1>k, <1>t, <2>1, <2>2, <2>4 DEF Knows
  <2> QED
    BY <2>1, <2>2, <2>3, <2>5 DEF PauseType, MarkerStarts, GapStarts, Calls,
         Ps!HiddenCallsAreTold, Ps!At
<1>10. ASSUME NEW k \in Pausers, Ps!RemoveMarker(k) PROVE PauseInv'
  <2> DEFINE owed == {t \in hidden : t <= cmd[k].now}
  <2>1. /\ cmd[k].at = "remove" /\ marker' = Absent /\ Starts(k, Calls)
        /\ cmd' = [cmd EXCEPT ![k].at = "close", ![k].owes = owed]
        /\ hidden' = {} /\ opened' = FALSE
        /\ UNCHANGED <<clock, store, gaps, faults>>
    BY <1>10 DEF Ps!RemoveMarker, Ps!At, Knows
  <2>2. /\ cmd'[k].at = "close" /\ cmd'[k].now = cmd[k].now /\ cmd'[k].since = cmd[k].since
        /\ cmd'[k].blind = cmd[k].blind /\ cmd'[k].owes = owed
        /\ cmd' \in [Pausers -> Commanded]
        /\ \A j \in Pausers \ {k} : cmd'[j] = cmd[j] /\ cmd[j].at \notin Underway
    BY <1>o, <1>t, <2>1 DEF PauseType, Commanded, Underway
  <2>3. OnePauser'
    BY <2>2 DEF OnePauser, Underway
  <2>4. Starts(k, cmd[k].owes)'
    BY <2>1, <2>2 DEF Starts, Calls, Ps!EarlierPauseStart
  <2>5. \A j \in Pausers : cmd'[j].now <= clock' /\ Knows(j)'
    BY <1>k, <2>1, <2>2, <2>4 DEF Knows
  <2>6. Ps!HiddenCallsAreTold'
    BY <2>1, <2>2 DEF Ps!HiddenCallsAreTold, Ps!At
  <2>7. MarkerStarts' /\ GapStarts'
    BY <2>1 DEF MarkerStarts, GapStarts, Instants
  <2> QED BY <2>1, <2>2, <2>3, <2>5, <2>6, <2>7 DEF PauseType
<1>11. ASSUME NEW k \in Pausers, Ps!CloseGap(k) PROVE PauseInv'
  <2> DEFINE gap == [from |-> Ps!EarlierPauseStart(cmd[k].since), to |-> cmd[k].now]
  <2>1. /\ cmd[k].at = "close" /\ marker = Absent
        /\ Starts(k, cmd[k].owes) /\ \A t \in cmd[k].owes : t <= cmd[k].now
        /\ gaps' = IF store THEN Append(gaps, gap) ELSE gaps
        /\ cmd' = [cmd EXCEPT ![k].at = "resumed", ![k].owes = IF store THEN @ ELSE {}]
        /\ UNCHANGED <<clock, marker, store, hidden, opened, faults>>
    BY <1>11 DEF Ps!CloseGap, Ps!Gap, Ps!At, Knows
  <2>2. /\ cmd'[k].at = "resumed" /\ cmd'[k].now = cmd[k].now /\ cmd'[k].blind = cmd[k].blind
        /\ cmd'[k].owes = IF store THEN cmd[k].owes ELSE {}
        /\ cmd' \in [Pausers -> Commanded]
        /\ \A j \in Pausers \ {k} : cmd'[j] = cmd[j] /\ cmd[j].at \notin Underway
    <3>1. cmd \in [Pausers -> Commanded] /\ cmd[k] \in Commanded
      BY DEF PauseType
    <3>2. PICK o \in SUBSET Times :
            /\ o = IF store THEN cmd[k].owes ELSE {}
            /\ cmd' = [cmd EXCEPT ![k].at = "resumed", ![k].owes = o]
      <4>1. cmd[k].owes \in SUBSET Times
        BY <3>1 DEF Commanded
      <4> QED BY <2>1, <4>1
    <3>3. cmd' \in [Pausers -> Commanded]
      BY <3>1, <3>2 DEF Commanded
    <3>4. \A j \in Pausers \ {k} : cmd[j].at \notin Underway
      BY <1>o, <2>1 DEF Underway
    <3> QED BY <3>1, <3>2, <3>3, <3>4 DEF Commanded
  <2>3. OnePauser'
    BY <2>2 DEF OnePauser, Underway
  <2>4. /\ gaps' \in Seq([from : Times, to : Times])
        /\ \A i \in DOMAIN gaps : i \in DOMAIN gaps' /\ gaps'[i] = gaps[i]
        /\ store => Len(gaps') \in DOMAIN gaps' /\ gaps'[Len(gaps')] = gap
    <3>1. gap \in [from : Times, to : Times] /\ gaps \in Seq([from : Times, to : Times])
      BY <1>s, <1>t DEF PauseType
    <3> HIDE DEF gap
    <3>2. CASE store
      BY <2>1, <3>1, <3>2, AppendProperties
    <3>3. CASE ~store
      BY <2>1, <3>1, <3>3
    <3> QED BY <3>2, <3>3
  <2>5. \A j \in Pausers : cmd'[j].now <= clock' /\ Knows(j)'
    BY <1>k, <2>1, <2>2 DEF Knows
  <2>6. ASSUME NEW j \in Pausers, cmd'[j].at = "resumed", ~cmd'[j].blind, NEW t \in cmd'[j].owes
        PROVE  \E i \in DOMAIN gaps' : gaps'[i].from <= t /\ t <= gaps'[i].to
    <3>1. CASE j = k
      <4>1. store /\ t \in cmd[k].owes
        BY <2>2, <2>6, <3>1
      <4>2. gap.from <= t /\ t <= gap.to
        BY <2>1, <2>2, <2>6, <3>1, <4>1 DEF Starts
      <4> QED BY <2>4, <4>1, <4>2
    <3>2. CASE j # k
      <4>1. \E i \in DOMAIN gaps : gaps[i].from <= t /\ t <= gaps[i].to
        BY <2>2, <2>6, <3>2 DEF Ps!HiddenCallsAreTold, Ps!At
      <4> QED BY <2>4, <4>1
    <3> QED BY <3>1, <3>2
  <2>7. Ps!HiddenCallsAreTold'
    BY <2>6 DEF Ps!HiddenCallsAreTold, Ps!At
  <2>8. ~opened
    BY <2>1 DEF MarkerStarts
  <2>9. MarkerStarts' /\ GapStarts'
    BY <2>1, <2>8 DEF MarkerStarts, GapStarts, Calls
  <2> QED BY <2>1, <2>2, <2>3, <2>4, <2>5, <2>7, <2>9 DEF PauseType
<1>12. ASSUME NEW k \in Pausers, Ps!Kill(k) PROVE PauseInv'
  <2>1. /\ cmd[k].at \in Underway
        /\ cmd' = [cmd EXCEPT ![k].at = "killed"]
        /\ UNCHANGED <<clock, marker, store, gaps, hidden, opened>>
    BY <1>12 DEF Ps!Kill, Ps!Goto, Underway
  <2>2. /\ cmd'[k].at = "killed" /\ cmd'[k].now = cmd[k].now
        /\ cmd' \in [Pausers -> Commanded]
        /\ \A j \in Pausers \ {k} : cmd'[j] = cmd[j] /\ cmd[j].at \notin Underway
    BY <1>o, <2>1 DEF PauseType, Commanded, Underway
  <2>3. OnePauser'
    BY <2>2 DEF OnePauser, Underway
  <2>4. \A j \in Pausers : cmd'[j].now <= clock' /\ Knows(j)'
    BY <1>k, <2>1, <2>2 DEF Knows
  <2> QED
    BY <2>1, <2>2, <2>3, <2>4 DEF PauseType, MarkerStarts, GapStarts, Calls,
         Ps!HiddenCallsAreTold, Ps!At
<1>13. CASE UNCHANGED pauseVars
  BY <1>13 DEF pauseVars, PauseType, OnePauser, MarkerStarts, GapStarts, Knows, Starts, Calls,
       Ps!EarlierPauseStart, Ps!HiddenCallsAreTold, Ps!At
<1> QED
  BY <1>1, <1>2, <1>3, <1>4, <1>5, <1>6, <1>7, <1>8, <1>9, <1>10, <1>11, <1>12, <1>13 DEF Ps!Next

\* A step of the machine is one of its part, and of no other part.
LEMMA PartStep ==
  ASSUME [MCNext]_allVars
  PROVE  /\ [Ps!Next]_pauseVars
         /\ [St!Next]_settingsVars
         /\ [Ln!Next]_learnVars
BY DEF MCNext, allVars, InRewrite, InLedger, InStoreRoot, InPause, InSettingsFile,
     Ps!Next, St!Next, Ln!Next

\* Every call that a pause hid lies in a gap once the resume that ended it
\* returns, whatever was killed and however the marker reads, for any number of
\* commands that do not overlap: a resume takes the start from the marker or
\* from the gap that the pause itself wrote (cmdResume, earlierPauseStart).
THEOREM HiddenCallsStayTold ==
  ASSUME Instants, ~Overlap
  PROVE  MCSpec => []HiddenCallsAreTold
<1>1. MCInit => PauseInv
  BY PauseInit DEF MCInit
<1>2. PauseInv /\ [MCNext]_allVars => PauseInv'
  BY PauseStep, PartStep
<1>3. PauseInv => HiddenCallsAreTold
  BY DEF PauseInv, HiddenCallsAreTold
<1> QED BY <1>1, <1>2, <1>3, PTL DEF MCSpec, allVars

-----------------------------------------------------------------------------
\* What the constants of SettingsFile stand for: entries of a version are some,
\* and a file that does not exist and an unknown hash are no file.
Hashes ==
  /\ 0 \notin Versions
  /\ Absent # Unknown /\ Absent \notin St!Contents /\ Unknown \notin St!Contents

Settings == St!Contents \cup {Absent}
Recs == [pre : Settings \cup {Unknown}, post : St!Contents \cup {Unknown}]
Written == {"record", "replace", "consent", "undo", "undoRename"}
Edit ==
  [at : Written \cup {"idle", "read", "compare", "rename", "done", "failed", "undone", "stuck", "killed"},
   kind : Versions \cup {0}, before : Settings, after : Settings, had : BOOLEAN, seen : Recs,
   tries : Nat, beside : BOOLEAN, said : {"", "nothing", "restored", "kept", "bug"}, true : BOOLEAN]
SettingsType ==
  /\ settings \in Settings /\ origin \in Settings /\ rec \in Recs
  /\ editor \in [Editors -> Edit]
  /\ theirs \in Bodies \cup {Absent} /\ muddled \in BOOLEAN

\* A record that tells the file before watch tells of one with the same members
\* of others as the file watch left, and without entries.
Sound(r) == r.pre # Unknown => St!BodyOf(r.pre) = St!BodyOf(r.post) /\ St!OursOf(r.pre) = 0

\* What a command in the middle of its work is to make of the file.
Planned(e) ==
  /\ Sound(e.seen)
  /\ e.at \in Written => e.kind # 0
  /\ e.at \in Written \cup {"compare", "rename"} =>
       /\ St!BodyOf(e.after) = St!BodyOf(e.before) /\ e.had = (St!OursOf(e.before) # 0)
       /\ e.kind # 0 => e.after \in St!Contents /\ e.after.ours = e.kind
       /\ e.kind = 0 => /\ St!OursOf(e.before) # 0 /\ St!OursOf(e.after) = 0
                        /\ e.after = St!Edited(0, e.seen, e.before)
  /\ e.at \in {"rename", "undoRename"} /\ ~e.beside => St!BodyOf(settings) = St!BodyOf(e.before)
  /\ e.said # "bug"

PlanInv ==
  /\ SettingsType /\ Sound(rec) /\ \A c \in Editors : Planned(editor[c])
  /\ St!TheirsIsKept

\* Two places of a command that differ in what happened beside it.
Like(e, d) ==
  /\ e.at = d.at /\ e.kind = d.kind /\ e.before = d.before /\ e.after = d.after /\ e.had = d.had
  /\ e.seen = d.seen /\ e.said = d.said /\ e.true = d.true

LEMMA BesideFacts ==
  ASSUME SettingsType, NEW body
  PROVE  LET E == St!Beside(body) IN
         /\ E \in [Editors -> Edit]
         /\ \A d \in Editors :
              /\ Like(E[d], editor[d])
              /\ editor[d].at \in {"rename", "undoRename"} /\ ~E[d].beside
                   => ~editor[d].beside /\ body = St!BodyOf(settings)
<1> DEFINE E == St!Beside(body)
<1>1. ASSUME NEW d \in Editors
      PROVE  /\ E[d] \in Edit /\ Like(E[d], editor[d])
             /\ editor[d].at \in {"rename", "undoRename"} /\ ~E[d].beside
                  => ~editor[d].beside /\ body = St!BodyOf(settings)
  <2> DEFINE b == editor[d].beside \/ (body # St!BodyOf(settings) /\ editor[d].at \in {"rename", "undoRename"})
  <2>1. b \in BOOLEAN /\ editor[d] \in Edit
    BY DEF SettingsType, Edit
  <2>2. E[d] = [editor[d] EXCEPT !.beside = b]
    BY DEF St!Beside
  <2>3. E[d] \in Edit /\ Like(E[d], editor[d]) /\ E[d].beside = b
    <3> HIDE DEF b, E
    <3> QED BY <2>1, <2>2 DEF Edit, Like
  <2> HIDE DEF E
  <2> QED BY <2>3
<1>2. E = [d \in Editors |-> E[d]]
  BY DEF St!Beside
<1> HIDE DEF E
<1>3. E \in [Editors -> Edit]
  BY <1>1, <1>2
<1> QED BY <1>1, <1>3 DEF E

\* What a replacement of the file does to it and to the commands beside it.
LEMMA PutFacts ==
  ASSUME SettingsType, NEW c \in Editors, NEW f \in Settings, NEW e \in Edit, St!Put(c, f, e)
  PROVE  /\ settings' = f /\ editor' \in [Editors -> Edit] /\ editor'[c] = e
         /\ \A d \in Editors \ {c} :
              /\ Like(editor'[d], editor[d])
              /\ editor'[d].at \in {"rename", "undoRename"} /\ ~editor'[d].beside
                   => ~editor[d].beside /\ St!BodyOf(f) = St!BodyOf(settings)
<1> DEFINE E == St!Beside(St!BodyOf(f))
<1>1. settings' = f /\ editor' = [E EXCEPT ![c] = e]
  BY DEF St!Put
<1>2. /\ E \in [Editors -> Edit]
      /\ \A d \in Editors :
           /\ Like(E[d], editor[d])
           /\ editor[d].at \in {"rename", "undoRename"} /\ ~E[d].beside
                => ~editor[d].beside /\ St!BodyOf(f) = St!BodyOf(settings)
  BY BesideFacts
<1> HIDE DEF E
<1> QED BY <1>1, <1>2 DEF Like

\* A command's plan stands while the file does, or while it was told.
LEMMA PlanStays ==
  ASSUME NEW d \in Editors, Planned(editor[d]), Like(editor'[d], editor[d]),
         editor'[d].at \in {"rename", "undoRename"} /\ ~editor'[d].beside
           => ~editor[d].beside /\ St!BodyOf(settings') = St!BodyOf(settings)
  PROVE  Planned(editor[d])'
BY DEF Planned, Like

\* A step of one command that leaves the file alone.
LEMMA StillEdit ==
  ASSUME PlanInv, NEW c \in Editors, NEW e \in Edit, Planned(e),
         editor' = [editor EXCEPT ![c] = e],
         UNCHANGED <<settings, theirs, origin>>,
         rec' \in Recs, Sound(rec'), muddled' \in BOOLEAN
  PROVE  PlanInv'
<1>1. SettingsType'
  BY DEF PlanInv, SettingsType
<1>2. ASSUME NEW d \in Editors PROVE Planned(editor[d])'
  <2>1. CASE d = c
    <3>1. editor'[d] = e
      BY <2>1 DEF PlanInv, SettingsType
    <3> QED BY <3>1 DEF Planned
  <2>2. CASE d # c
    <3>1. editor'[d] = editor[d]
      BY <2>2 DEF PlanInv, SettingsType
    <3> QED BY <3>1 DEF PlanInv, Planned
  <2> QED BY <2>1, <2>2
<1> QED BY <1>1, <1>2 DEF PlanInv, St!TheirsIsKept

\* A step of one command that replaces the file.
LEMMA PutEdit ==
  ASSUME PlanInv, NEW c \in Editors, NEW f \in Settings, NEW e \in Edit, Planned(e),
         e.at \notin {"rename", "undoRename"},
         St!Put(c, f, e), ~editor[c].beside => St!BodyOf(f) = St!BodyOf(settings),
         UNCHANGED <<rec, muddled>>, St!BodyOf(f) \in Bodies \cup {Absent}
  PROVE  PlanInv'
<1>1. /\ settings' = f /\ editor' \in [Editors -> Edit] /\ editor'[c] = e
      /\ \A d \in Editors \ {c} :
           /\ Like(editor'[d], editor[d])
           /\ editor'[d].at \in {"rename", "undoRename"} /\ ~editor'[d].beside
                => ~editor[d].beside /\ St!BodyOf(f) = St!BodyOf(settings)
  BY PutFacts DEF PlanInv
<1>2. theirs' = St!BodyOf(f)
  BY DEF St!Put, PlanInv, St!TheirsIsKept
<1>3. origin' \in Settings
  <2>1. editor[c].before \in Settings
    BY DEF PlanInv, SettingsType, Edit
  <2> QED BY <2>1 DEF St!Put, PlanInv, SettingsType
<1>4. SettingsType'
  BY <1>1, <1>2, <1>3 DEF PlanInv, SettingsType
<1>5. ASSUME NEW d \in Editors PROVE Planned(editor[d])'
  <2>1. CASE d = c
    BY <1>1, <2>1 DEF Planned
  <2>2. CASE d # c
    BY <1>1, <2>2, PlanStays DEF PlanInv
  <2> QED BY <2>1, <2>2
<1> QED BY <1>1, <1>2, <1>4, <1>5 DEF PlanInv, St!TheirsIsKept

\* The members of others are a body, or none; a file's entries, a version or 0.
LEMMA FileFacts ==
  ASSUME Hashes
  PROVE  \A f \in Settings :
           /\ St!BodyOf(f) \in Bodies \cup {Absent} /\ St!OursOf(f) \in Versions \cup {0}
           /\ f # Absent => f \in St!Contents /\ f.body = St!BodyOf(f) /\ f.ours = St!OursOf(f)
BY DEF Hashes, Settings, St!Contents, St!BodyOf, St!OursOf

\* A command that ended remembers what it said, and of a detach whether it is so.
Ends == {"done", "failed", "undone", "stuck", "killed"}
Words == {"", "nothing", "restored", "kept"}
Truths == BOOLEAN
Ending(at, said, so) == [St!Ended(at) EXCEPT !.said = said, !.true = so]
Saying(at, said) == [St!Ended(at) EXCEPT !.said = said]

\* Such a command has no plan.
Over(e) == e.at \in Ends /\ e.said \in Words /\ e.seen.pre = Unknown
LEMMA OverFacts ==
  ASSUME NEW e, Over(e)
  PROVE  Planned(e)
<1>1. Sound(e.seen) /\ e.said # "bug"
  BY DEF Over, Sound, Words
<1>2. e.at \notin Written \cup {"compare", "rename", "undoRename"}
  BY DEF Over, Ends, Written
<1> QED BY <1>1, <1>2 DEF Planned

LEMMA EndedFacts ==
  ASSUME NEW at \in Ends
  PROVE  St!Ended(at) \in Edit /\ Over(St!Ended(at)) /\ St!Ended(at).at = at /\ St!Ended(at).said = ""
<1> DEFINE i == St!Idle
           o == St!Ended(at)
<1>1. St!NoRecord \in Recs /\ St!NoRecord.pre = Unknown
  BY DEF St!NoRecord, Recs
<1>2. i \in Edit /\ i.seen = St!NoRecord /\ i.said = ""
  BY <1>1 DEF St!Idle, Edit, Settings
<1>3. o \in Edit /\ o.at = at /\ o.seen = St!NoRecord /\ o.said = ""
  <2>1. o = [i EXCEPT !.at = at]
    BY DEF St!Ended
  <2> HIDE DEF i, o
  <2> QED BY <1>2, <2>1 DEF Edit, Ends
<1> HIDE DEF o
<1>4. Over(o)
  BY <1>1, <1>3 DEF Over, Words
<1> QED BY <1>3, <1>4 DEF o

LEMMA SayingFacts ==
  ASSUME NEW at \in Ends, NEW said \in Words
  PROVE  /\ Saying(at, said) \in Edit /\ Over(Saying(at, said))
         /\ Saying(at, said).at = at /\ Saying(at, said).said = said
<1> DEFINE o == St!Ended(at)
           n == Saying(at, said)
<1>1. o \in Edit /\ Over(o) /\ o.at = at
  BY EndedFacts
<1>2. n = [o EXCEPT !.said = said]
  BY DEF Saying
<1> HIDE DEF o, n
<1>3. n \in Edit /\ n.at = at /\ n.said = said /\ n.seen = o.seen
  BY <1>1, <1>2 DEF Edit, Words
<1>4. Over(n)
  BY <1>1, <1>3 DEF Over
<1> QED BY <1>3, <1>4 DEF n

LEMMA EndingFacts ==
  ASSUME NEW at \in Ends, NEW said \in Words, NEW so \in Truths
  PROVE  /\ Ending(at, said, so) \in Edit /\ Over(Ending(at, said, so))
         /\ Ending(at, said, so).at = at /\ Ending(at, said, so).said = said
<1> DEFINE o == St!Ended(at)
           n == Ending(at, said, so)
<1>1. o \in Edit /\ Over(o) /\ o.at = at
  BY EndedFacts
<1>2. n = [o EXCEPT !.said = said, !.true = so]
  BY DEF Ending
<1> HIDE DEF o, n
<1>3. n \in Edit /\ n.at = at /\ n.said = said /\ n.seen = o.seen
  BY <1>1, <1>2 DEF Edit, Words, Truths
<1>4. Over(n)
  BY <1>1, <1>3 DEF Over
<1> QED BY <1>3, <1>4 DEF n

\* What it remembers of a detach is what it was given.
LEMMA EndedSo ==
  ASSUME NEW at, NEW said, NEW so
  PROVE  Ending(at, said, so).true = so
BY DEF Ending, St!Ended, St!Idle

\* An edit leaves the members of others as they are.
LEMMA EditedFacts ==
  ASSUME Hashes, NEW kind \in Versions \cup {0}, NEW seen, NEW f \in Settings, St!OursOf(f) # kind
  PROVE  LET g == St!Edited(kind, seen, f) IN
         /\ g \in Settings /\ St!BodyOf(g) = St!BodyOf(f)
         /\ kind # 0 => g \in St!Contents /\ g.ours = kind
         /\ kind = 0 => St!OursOf(f) # 0 /\ St!OursOf(g) = 0
<1> DEFINE g == St!Edited(kind, seen, f)
<1>1. kind # 0 =>
        /\ g \in Settings /\ St!BodyOf(g) = St!BodyOf(f)
        /\ g \in St!Contents /\ g.ours = kind
  <2> SUFFICES ASSUME kind # 0 PROVE g \in Settings /\ St!BodyOf(g) = St!BodyOf(f)
                                     /\ g \in St!Contents /\ g.ours = kind
    OBVIOUS
  <2>1. g = [body |-> St!BodyOf(f), ours |-> kind]
    BY DEF St!Edited
  <2>2. St!BodyOf(f) \in Bodies \cup {Absent}
    BY FileFacts
  <2>3. g \in St!Contents /\ g.ours = kind /\ g.body = St!BodyOf(f)
    BY <2>1, <2>2 DEF St!Contents
  <2> HIDE DEF g
  <2> QED BY <2>3 DEF Hashes, Settings, St!BodyOf
<1>2. kind = 0 =>
        /\ g \in Settings /\ St!BodyOf(g) = St!BodyOf(f)
        /\ St!OursOf(f) # 0 /\ St!OursOf(g) = 0
  <2> SUFFICES ASSUME kind = 0
               PROVE  /\ g \in Settings /\ St!BodyOf(g) = St!BodyOf(f)
                      /\ St!OursOf(f) # 0 /\ St!OursOf(g) = 0
    OBVIOUS
  <2>1. f # Absent /\ f \in St!Contents /\ St!OursOf(f) # 0 /\ St!BodyOf(f) = f.body
    BY FileFacts DEF St!OursOf
  <2>2. CASE g = Absent /\ f.body = Absent
    BY <2>1, <2>2 DEF St!BodyOf, St!OursOf, Settings
  <2>3. CASE g = [f EXCEPT !.ours = 0]
    <3>1. g \in St!Contents /\ g.body = f.body /\ g.ours = 0
      BY <2>1, <2>3 DEF St!Contents
    <3> HIDE DEF g
    <3> QED BY <2>1, <3>1 DEF Hashes, Settings, St!BodyOf, St!OursOf
  <2>4. (g = Absent /\ f.body = Absent) \/ g = [f EXCEPT !.ours = 0]
    BY DEF St!Edited
  <2> QED BY <2>2, <2>3, <2>4
<1> QED BY <1>1, <1>2

\* A detach calls no file a bug: what its edit left is what the record tells of
\* before watch, whenever the record tells of it and of the file it found.
LEMMA ToldFacts ==
  ASSUME Hashes, SettingsType, NEW e \in Edit, Planned(e), e.kind = 0, e.at \in {"compare", "rename"}
  PROVE  /\ St!Told(e) \in Edit /\ Planned(St!Told(e))
         /\ St!Told(e).at = "done" /\ St!Told(e).true = (e.after = origin)
         /\ St!Told(e).said = "restored" =>
              e.seen.pre # Unknown /\ e.after = e.seen.pre
<1> DEFINE b == e.before
           r == e.seen
<1>1. /\ b \in Settings /\ r \in Recs /\ e.after \in Settings /\ Sound(r)
      /\ St!OursOf(b) # 0 /\ e.after = St!Edited(0, r, b)
  BY DEF Edit, Planned
<1>2. b # Absent /\ b \in St!Contents /\ b.body = St!BodyOf(b)
  BY <1>1, FileFacts DEF St!OursOf
<1>3. ASSUME St!Unchanged(r, b) PROVE e.after = r.pre
  <2>1. /\ r.pre # Unknown /\ b = r.post /\ r.pre \in Settings
        /\ St!BodyOf(r.pre) = b.body /\ St!OursOf(r.pre) = 0
    BY <1>1, <1>2, <1>3 DEF St!Unchanged, Sound, Recs
  <2>2. CASE b.body = Absent /\ r.pre = Absent
    BY <1>1, <1>3, <2>2 DEF St!Edited
  <2>3. CASE ~(b.body = Absent /\ r.pre = Absent)
    <3>1. e.after = [b EXCEPT !.ours = 0]
      BY <1>1, <1>3, <2>3 DEF St!Edited
    <3>2. r.pre # Absent /\ r.pre \in St!Contents
      BY <2>1, <2>3 DEF St!BodyOf, Settings
    <3>3. r.pre.body = b.body /\ r.pre.ours = 0
      BY <2>1, <3>2 DEF St!BodyOf, St!OursOf
    <3> QED BY <1>2, <3>1, <3>2, <3>3 DEF St!Contents
  <2> QED BY <2>2, <2>3
<1> DEFINE word == St!Said(e)
           fits == e.after = origin
<1>4. word \in {"restored", "kept"} /\ (word = "restored" => r.pre # Unknown /\ e.after = r.pre)
  BY <1>3 DEF St!Said, St!Unchanged
<1>5. fits \in BOOLEAN /\ St!Told(e) = Ending("done", word, fits)
  BY DEF St!Told, Ending
<1> HIDE DEF word, fits
<1>6. Ending("done", word, fits).true = fits
  BY EndedSo, Zenon
<1>7. /\ St!Told(e) \in Edit /\ Planned(St!Told(e)) /\ St!Told(e).at = "done"
      /\ St!Told(e).said = word
  <2>1. "done" \in Ends /\ word \in Words /\ fits \in Truths
    BY <1>4, <1>5 DEF Ends, Words, Truths
  <2>2. /\ Ending("done", word, fits) \in Edit /\ Over(Ending("done", word, fits))
        /\ Ending("done", word, fits).at = "done" /\ Ending("done", word, fits).said = word
    BY <2>1, EndingFacts
  <2> QED BY <1>5, <2>2, OverFacts
<1> QED BY <1>4, <1>5, <1>6, <1>7 DEF fits

LEMMA PlanInit ==
  ASSUME Hashes, St!Init
  PROVE  PlanInv
<1>1. St!NoRecord \in Recs /\ Sound(St!NoRecord)
  BY DEF St!NoRecord, Recs, Sound
<1>2. St!Idle \in Edit
  BY <1>1 DEF St!Idle, Edit, Settings
<1>3. Planned(St!Idle)
  BY <1>1 DEF St!Idle, Planned, Written
<1>4. editor \in [Editors -> Edit] /\ \A c \in Editors : editor[c] = St!Idle
  BY <1>2 DEF St!Init
<1>5. \A c \in Editors : Planned(editor[c])
  BY <1>3, <1>4
<1>6. settings \in Settings
  BY DEF St!Init, Settings, St!Contents
<1>7. theirs \in Bodies \cup {Absent} /\ St!TheirsIsKept
  BY <1>6, FileFacts DEF St!Init, St!TheirsIsKept
<1> QED BY <1>1, <1>4, <1>5, <1>6, <1>7 DEF St!Init, PlanInv, SettingsType

\* A change of a command's place alone keeps its plan, where the place it comes to
\* asks for no more.
LEMMA GoesOn ==
  ASSUME SettingsType, NEW me \in Edit, Planned(me),
         NEW at \in Written \cup {"compare", "rename"}, NEW b \in Truths,
         me.at \in Written \cup {"compare", "rename"}, at \in Written => me.kind # 0,
         at \in {"rename", "undoRename"} /\ ~b => St!BodyOf(settings) = St!BodyOf(me.before)
  PROVE  LET e == [me EXCEPT !.at = at, !.beside = b] IN
         e \in Edit /\ Planned(e)
<1> DEFINE e == [me EXCEPT !.at = at, !.beside = b]
<1>1. /\ e \in Edit /\ e.at = at /\ e.beside = b /\ e.kind = me.kind /\ e.before = me.before
      /\ e.after = me.after /\ e.had = me.had /\ e.seen = me.seen /\ e.said = me.said
  BY DEF Edit, Truths
<1> HIDE DEF e
<1>2. Planned(e)
  BY <1>1 DEF Planned
<1> QED BY <1>1, <1>2 DEF e

LEMMA PlanStep ==
  ASSUME Hashes, PlanInv, [St!Next]_settingsVars
  PROVE  PlanInv'
<1>t. /\ SettingsType /\ Sound(rec) /\ rec \in Recs /\ settings \in Settings
      /\ \A c \in Editors : editor[c] \in Edit /\ Planned(editor[c])
  BY DEF PlanInv, SettingsType
<1>1. ASSUME NEW c \in Editors, St!Begin(c) PROVE PlanInv'
  <2>1. PICK kind \in Versions \cup {0} :
             editor' = [editor EXCEPT ![c].at = "read", ![c].kind = kind, ![c].seen = rec]
    BY <1>1 DEF St!Begin
  <2> DEFINE e == [editor[c] EXCEPT !.at = "read", !.kind = kind, !.seen = rec]
  <2>2. e \in Edit /\ e.at = "read" /\ e.seen = rec /\ e.said = editor[c].said
    BY <1>t DEF Edit
  <2>3. editor' = [editor EXCEPT ![c] = e]
    BY <2>1 DEF PlanInv, SettingsType
  <2> HIDE DEF e
  <2>4. Planned(e)
    BY <1>t, <2>2 DEF Planned, Written
  <2>5. /\ UNCHANGED <<settings, theirs, origin, rec>> /\ muddled' \in BOOLEAN
    BY <1>1 DEF St!Begin
  <2> QED BY <1>t, <2>2, <2>3, <2>4, <2>5, StillEdit
<1>2. ASSUME NEW c \in Editors, St!Read(c) PROVE PlanInv'
  <2> DEFINE me == editor[c]
             n == Saying("done", "nothing")
             g == St!Edited(me.kind, me.seen, settings)
             e == [me EXCEPT !.at = "compare", !.before = settings, !.after = g,
                             !.had = St!OursOf(settings) # 0]
  <2>1. UNCHANGED <<settings, theirs, origin, rec, muddled>>
    BY <1>2 DEF St!Read, St!history
  <2>2. CASE St!OursOf(settings) = me.kind
    <3>1. editor' = [editor EXCEPT ![c] = n]
      BY <1>2, <2>2 DEF St!Read, Saying
    <3>2. n \in Edit /\ Planned(n)
      BY SayingFacts, OverFacts DEF Ends, Words
    <3> QED BY <1>t, <2>1, <3>1, <3>2, StillEdit DEF PlanInv, SettingsType
  <2>3. CASE St!OursOf(settings) # me.kind
    <3>1. editor' = [editor EXCEPT ![c] = e]
      BY <1>2, <2>3 DEF St!Read
    <3>2. me \in Edit /\ me.kind \in Versions \cup {0} /\ Planned(me)
      BY <1>t DEF Edit
    <3>3. /\ g \in Settings /\ St!BodyOf(g) = St!BodyOf(settings)
          /\ me.kind # 0 => g \in St!Contents /\ g.ours = me.kind
          /\ me.kind = 0 => St!OursOf(settings) # 0 /\ St!OursOf(g) = 0
      BY <1>t, <2>3, <3>2, EditedFacts
    <3>4. me.kind = 0 => g = St!Edited(0, me.seen, settings)
      OBVIOUS
    <3> DEFINE had == St!OursOf(settings) # 0
    <3> HIDE DEF g, had
    <3>5. had \in BOOLEAN
      BY DEF had
    <3>6. /\ e \in Edit /\ e.at = "compare" /\ e.before = settings /\ e.after = g /\ e.had = had
          /\ e.kind = me.kind /\ e.seen = me.seen /\ e.said = me.said
      <4>1. e = [me EXCEPT !.at = "compare", !.before = settings, !.after = g, !.had = had]
        BY DEF had
      <4> HIDE DEF e, me
      <4> QED BY <1>t, <3>2, <3>3, <3>5, <4>1 DEF Edit
    <3> HIDE DEF e, me
    <3>7. Planned(e)
      <4>1. Sound(e.seen) /\ e.said # "bug"
        BY <3>2, <3>6 DEF Planned
      <4>2. /\ St!BodyOf(e.after) = St!BodyOf(e.before) /\ e.had = (St!OursOf(e.before) # 0)
            /\ e.kind # 0 => e.after \in St!Contents /\ e.after.ours = e.kind
            /\ e.kind = 0 => /\ St!OursOf(e.before) # 0 /\ St!OursOf(e.after) = 0
                             /\ e.after = St!Edited(0, e.seen, e.before)
        BY <3>3, <3>4, <3>6 DEF had
      <4>3. e.at \notin Written \cup {"rename", "undoRename"}
        BY <3>6 DEF Written
      <4> QED BY <4>1, <4>2, <4>3 DEF Planned
    <3>8. editor' = [editor EXCEPT ![c] = e]
      BY <3>1 DEF me
    <3> QED BY <1>t, <2>1, <3>6, <3>7, <3>8, StillEdit DEF PlanInv, SettingsType
  <2> QED BY <2>2, <2>3
<1>3. ASSUME NEW c \in Editors, St!Compare(c) PROVE PlanInv'
  <2> DEFINE me == editor[c]
  <2>1. UNCHANGED <<settings, theirs, origin, rec, muddled>>
    BY <1>3 DEF St!Compare, St!history
  <2>2. me \in Edit /\ Planned(me) /\ me.at = "compare" /\ editor \in [Editors -> Edit]
    BY <1>t, <1>3 DEF St!Compare, St!At, SettingsType
  <2>3. ASSUME NEW e \in Edit, Planned(e), editor' = [editor EXCEPT ![c] = e]
        PROVE  PlanInv'
    BY <1>t, <2>1, <2>3, StillEdit DEF PlanInv, SettingsType
  <2>4. CASE settings = me.before
    <3> DEFINE e == [me EXCEPT !.at = "rename", !.beside = FALSE]
    <3>1. editor' = [editor EXCEPT ![c] = e]
      BY <1>3, <2>4 DEF St!Compare
    <3>2. e \in Edit /\ Planned(e)
      BY <1>t, <2>2, <2>4, GoesOn DEF Written, Truths
    <3> HIDE DEF e
    <3> QED BY <2>3, <3>1, <3>2
  <2>5. CASE settings # me.before /\ me.after = Absent /\ settings = Absent
    <3>1. editor' = [editor EXCEPT ![c] = St!Told(me)]
      BY <1>3, <2>5 DEF St!Compare
    <3>2. me.kind = 0
      BY <2>2, <2>5 DEF Planned, Hashes
    <3> QED BY <1>t, <2>2, <2>3, <3>1, <3>2, ToldFacts
  <2>6. CASE settings # me.before /\ ~(me.after = Absent /\ settings = Absent) /\ me.tries + 1 < Attempts
    <3> DEFINE tries == me.tries + 1
               e == [me EXCEPT !.at = "read", !.tries = tries]
    <3>0. tries \in Nat
      <4>1. me.tries \in Nat
        BY <2>2 DEF Edit
      <4> HIDE DEF me
      <4> QED BY <4>1
    <3>1. editor' = [editor EXCEPT ![c] = e]
      BY <1>3, <2>6 DEF St!Compare
    <3> HIDE DEF tries
    <3>2. e \in Edit /\ e.at = "read" /\ e.seen = me.seen /\ e.said = me.said
      BY <2>2, <3>0 DEF Edit
    <3> HIDE DEF e
    <3>3. Planned(e)
      BY <2>2, <3>2 DEF Planned, Written
    <3> QED BY <2>3, <3>1, <3>2, <3>3
  <2>7. CASE settings # me.before /\ ~(me.after = Absent /\ settings = Absent) /\ ~(me.tries + 1 < Attempts)
    <3>1. editor' = [editor EXCEPT ![c] = St!Ended("failed")]
      BY <1>3, <2>7 DEF St!Compare
    <3>2. St!Ended("failed") \in Edit /\ Planned(St!Ended("failed"))
      BY EndedFacts, OverFacts DEF Ends
    <3> QED BY <2>3, <3>1, <3>2
  <2> QED BY <2>4, <2>5, <2>6, <2>7
<1>4. ASSUME NEW c \in Editors, St!Rename(c) PROVE PlanInv'
  <2> DEFINE me == editor[c]
             e == IF me.kind # 0 THEN [me EXCEPT !.at = "record"] ELSE St!Told(me)
  <2>1. /\ me \in Edit /\ Planned(me) /\ me.at = "rename" /\ me.after \in Settings
        /\ me.kind \in Versions \cup {0}
    BY <1>t, <1>4 DEF St!Rename, St!At, Edit
  <2>2. St!Put(c, me.after, e) /\ UNCHANGED <<rec, muddled>>
    BY <1>4 DEF St!Rename
  <2>3. e \in Edit /\ Planned(e) /\ e.at \notin {"rename", "undoRename"}
    <3>1. CASE me.kind # 0
      <4> DEFINE f == [me EXCEPT !.at = "record"]
      <4>1. /\ f \in Edit /\ f.at = "record" /\ f.kind = me.kind /\ f.before = me.before
            /\ f.after = me.after /\ f.had = me.had /\ f.seen = me.seen /\ f.said = me.said
        BY <2>1 DEF Edit, Written
      <4>2. e = f
        BY <3>1
      <4> HIDE DEF e, f
      <4> QED BY <2>1, <3>1, <4>1, <4>2 DEF Planned
    <3>2. CASE me.kind = 0
      <4>1. e = St!Told(me)
        BY <3>2
      <4> HIDE DEF e
      <4> QED BY <1>t, <2>1, <3>2, <4>1, ToldFacts
    <3> QED BY <3>1, <3>2
  <2>4. ~me.beside => St!BodyOf(me.after) = St!BodyOf(settings)
    BY <2>1 DEF Planned
  <2>5. St!BodyOf(me.after) \in Bodies \cup {Absent}
    BY <2>1, FileFacts
  <2> HIDE DEF e
  <2> QED BY <2>1, <2>2, <2>3, <2>4, <2>5, PutEdit
<1>5. ASSUME NEW c \in Editors, St!ReadRecord(c) PROVE PlanInv'
  <2> DEFINE me == editor[c]
             e == [me EXCEPT !.at = "replace", !.seen = rec]
  <2>1. UNCHANGED <<settings, theirs, origin, rec, muddled>> /\ editor' = [editor EXCEPT ![c] = e]
    BY <1>5 DEF St!ReadRecord, St!history, PlanInv, SettingsType
  <2>2. me \in Edit /\ Planned(me) /\ me.at = "record"
    BY <1>t, <1>5 DEF St!ReadRecord, St!At
  <2>3. /\ e \in Edit /\ e.at = "replace" /\ e.kind = me.kind /\ e.before = me.before
        /\ e.after = me.after /\ e.had = me.had /\ e.seen = rec /\ e.said = me.said
    BY <1>t, <2>2 DEF Edit, Written
  <2> HIDE DEF e, me
  <2>4. Planned(e)
    BY <1>t, <2>2, <2>3 DEF Planned, Written
  <2> QED BY <1>t, <2>1, <2>3, <2>4, StillEdit DEF PlanInv, SettingsType
<1>6. ASSUME NEW c \in Editors, St!ReplaceRecord(c) PROVE PlanInv'
  <2> DEFINE me == editor[c]
             e == [me EXCEPT !.at = "consent", !.beside = @]
             r == St!Recorded(me)
  <2>1. /\ UNCHANGED <<settings, theirs, origin, muddled>> /\ rec' = r
        /\ editor' = [editor EXCEPT ![c] = e]
    BY <1>6 DEF St!ReplaceRecord, St!history, PlanInv, SettingsType, Edit
  <2>2. me \in Edit /\ Planned(me) /\ me.at = "replace"
    BY <1>t, <1>6 DEF St!ReplaceRecord, St!At
  <2>3. e \in Edit /\ Planned(e)
    <3>1. me.beside \in Truths /\ me.kind # 0
      BY <2>2 DEF Edit, Truths, Planned, Written
    <3> QED BY <1>t, <2>2, <3>1, GoesOn DEF Written
  <2>4. /\ me.before \in Settings /\ me.after \in St!Contents /\ me.seen \in Recs /\ Sound(me.seen)
        /\ St!BodyOf(me.after) = St!BodyOf(me.before) /\ me.had = (St!OursOf(me.before) # 0)
    BY <2>2 DEF Edit, Planned, Written
  <2>5. r \in Recs /\ Sound(r)
    <3>1. r.post = me.after
      BY DEF St!Recorded
    <3>2. CASE ~me.had
      <4>1. r = [pre |-> me.before, post |-> me.after]
        BY <3>2 DEF St!Recorded
      <4>2. r.pre = me.before /\ r \in Recs
        BY <2>4, <4>1 DEF Recs
      <4> HIDE DEF r, me
      <4> QED BY <2>4, <3>1, <3>2, <4>2 DEF Sound
    <3>3. CASE me.had /\ me.seen.pre # Unknown /\ me.seen.post = me.before
      <4>1. r = [pre |-> me.seen.pre, post |-> me.after]
        BY <3>3 DEF St!Recorded
      <4>2. r.pre = me.seen.pre /\ r \in Recs
        BY <2>4, <4>1 DEF Recs
      <4> HIDE DEF r, me
      <4> QED BY <2>4, <3>1, <3>3, <4>2 DEF Sound
    <3>4. CASE me.had /\ ~(me.seen.pre # Unknown /\ me.seen.post = me.before)
      <4>1. r = [pre |-> Unknown, post |-> me.after]
        BY <3>4 DEF St!Recorded
      <4>2. r.pre = Unknown /\ r \in Recs
        BY <2>4, <4>1 DEF Recs
      <4> HIDE DEF r, me
      <4> QED BY <4>2 DEF Sound
    <3> QED BY <3>2, <3>3, <3>4
  <2> HIDE DEF e, r, me
  <2> QED BY <2>1, <2>3, <2>5, StillEdit DEF PlanInv, SettingsType
<1>7. ASSUME NEW c \in Editors, St!Consent(c) PROVE PlanInv'
  <2>1. UNCHANGED <<settings, theirs, origin, rec, muddled>> /\ editor' = [editor EXCEPT ![c] = St!Ended("done")]
    BY <1>7 DEF St!Consent, St!history
  <2>2. St!Ended("done") \in Edit /\ Planned(St!Ended("done"))
    BY EndedFacts, OverFacts DEF Ends
  <2> QED BY <1>t, <2>1, <2>2, StillEdit DEF PlanInv, SettingsType
<1>8. ASSUME NEW c \in Editors, St!WriteFails(c) PROVE PlanInv'
  <2> DEFINE me == editor[c]
             e == [me EXCEPT !.at = "undo", !.beside = me.beside]
  <2>1. /\ UNCHANGED <<settings, theirs, origin, rec, muddled>>
        /\ editor' = [editor EXCEPT ![c] = e]
    BY <1>8 DEF St!WriteFails, St!history, PlanInv, SettingsType, Edit
  <2>2. me \in Edit /\ Planned(me) /\ me.at \in Written
    BY <1>t, <1>8 DEF St!WriteFails, Written
  <2>3. e \in Edit /\ Planned(e)
    <3>1. me.beside \in Truths /\ me.kind # 0
      BY <2>2 DEF Edit, Truths, Planned
    <3> QED BY <1>t, <2>2, <3>1, GoesOn DEF Written
  <2> HIDE DEF e
  <2> QED BY <1>t, <2>1, <2>3, StillEdit DEF PlanInv, SettingsType
<1>9. ASSUME NEW c \in Editors, St!Undo(c) PROVE PlanInv'
  <2> DEFINE me == editor[c]
             gone == me.before = Absent /\ settings = Absent
             last == IF gone THEN "undone" ELSE "stuck"
             e == IF settings = me.after THEN [me EXCEPT !.at = "undoRename", !.beside = FALSE]
                  ELSE St!Ended(last)
  <2>1. /\ UNCHANGED <<settings, theirs, origin, rec>> /\ muddled' \in BOOLEAN
        /\ editor' = [editor EXCEPT ![c] = e]
    BY <1>9 DEF St!Undo
  <2>2. me \in Edit /\ Planned(me) /\ me.at = "undo"
    BY <1>t, <1>9 DEF St!Undo, St!At
  <2>3. e \in Edit /\ Planned(e)
    <3>1. CASE settings = me.after
      <4>1. /\ me.kind # 0 /\ St!BodyOf(settings) = St!BodyOf(me.before)
        BY <2>2, <3>1 DEF Planned, Written
      <4> QED BY <1>t, <2>2, <3>1, <4>1, GoesOn DEF Written, Truths
    <3>2. CASE settings # me.after
      <4>1. e = St!Ended(last) /\ last \in Ends
        BY <3>2 DEF Ends
      <4> HIDE DEF e, last
      <4> QED BY <4>1, EndedFacts, OverFacts
    <3> QED BY <3>1, <3>2
  <2> HIDE DEF e
  <2> QED BY <1>t, <2>1, <2>3, StillEdit
<1>10. ASSUME NEW c \in Editors, St!UndoRename(c) PROVE PlanInv'
  <2> DEFINE me == editor[c]
  <2>1. St!Put(c, me.before, St!Ended("undone")) /\ UNCHANGED <<rec, muddled>>
    BY <1>10 DEF St!UndoRename
  <2>2. me \in Edit /\ Planned(me) /\ me.at = "undoRename" /\ me.before \in Settings
    BY <1>t, <1>10 DEF St!UndoRename, St!At, Edit
  <2>3. /\ St!Ended("undone") \in Edit /\ Planned(St!Ended("undone"))
        /\ St!Ended("undone").at = "undone"
    BY EndedFacts, OverFacts DEF Ends
  <2>4. ~me.beside => St!BodyOf(me.before) = St!BodyOf(settings)
    BY <2>2 DEF Planned
  <2>5. St!BodyOf(me.before) \in Bodies \cup {Absent}
    BY <2>2, FileFacts
  <2> QED BY <2>1, <2>2, <2>3, <2>4, <2>5, PutEdit
<1>11. ASSUME NEW c \in Editors, St!Kill(c) PROVE PlanInv'
  <2>1. /\ UNCHANGED <<settings, theirs, origin, rec>> /\ muddled' \in BOOLEAN
        /\ editor' = [editor EXCEPT ![c] = St!Ended("killed")]
    BY <1>11 DEF St!Kill
  <2>2. St!Ended("killed") \in Edit /\ Planned(St!Ended("killed"))
    BY EndedFacts, OverFacts DEF Ends
  <2> QED BY <1>t, <2>1, <2>2, StillEdit
<1>12. CASE St!EditElsewhere
  <2>1. PICK body \in Bodies \cup {Absent} :
             /\ body # St!BodyOf(settings)
             /\ settings' = [body |-> body, ours |-> St!OursOf(settings)]
             /\ theirs' = body /\ editor' = St!Beside(body)
    BY <1>12 DEF St!EditElsewhere
  <2>2. UNCHANGED <<rec, origin, muddled>>
    BY <1>12 DEF St!EditElsewhere
  <2>3. settings' \in Settings /\ St!BodyOf(settings') = body
    <3>1. settings' \in St!Contents /\ settings'.body = body
      BY <1>t, <2>1, FileFacts DEF St!Contents
    <3> QED BY <3>1 DEF Settings, Hashes, St!BodyOf
  <2>4. /\ editor' \in [Editors -> Edit]
        /\ \A d \in Editors :
             /\ Like(editor'[d], editor[d])
             /\ editor[d].at \in {"rename", "undoRename"} /\ ~editor'[d].beside
                  => ~editor[d].beside /\ body = St!BodyOf(settings)
    BY <1>t, <2>1, BesideFacts
  <2>5. \A d \in Editors : Planned(editor[d])'
    BY <1>t, <2>3, <2>4, PlanStays DEF Like
  <2>6. SettingsType'
    BY <2>1, <2>2, <2>3, <2>4 DEF PlanInv, SettingsType
  <2> QED BY <1>t, <2>1, <2>2, <2>3, <2>5, <2>6 DEF PlanInv, St!TheirsIsKept
<1>13. CASE UNCHANGED settingsVars
  BY <1>13 DEF settingsVars, PlanInv, SettingsType, Planned, St!TheirsIsKept
<1> QED
  BY <1>1, <1>2, <1>3, <1>4, <1>5, <1>6, <1>7, <1>8, <1>9, <1>10, <1>11, <1>12, <1>13 DEF St!Next

\* What others put into settings.json stays there, whatever command dies, starts
\* over or takes its edit back, for any number of commands beside each other; but
\* for an edit between a last comparison and its rename (write.go Write).
THEOREM TheirsStaysKept ==
  ASSUME Hashes
  PROVE  MCSpec => []TheirsIsKept
<1>1. MCInit => PlanInv
  BY PlanInit DEF MCInit
<1>2. PlanInv /\ [MCNext]_allVars => PlanInv'
  BY PlanStep, PartStep
<1>3. PlanInv => TheirsIsKept
  BY DEF PlanInv, TheirsIsKept
<1> QED BY <1>1, <1>2, <1>3, PTL DEF MCSpec, allVars

-----------------------------------------------------------------------------
\* What the record and a command in the middle of its work know of the file that
\* the entries first went into, where no two commands overlapped and no watch
\* ended with its edit there and unrecorded.
Busy(e) == e.at \in Written \cup {"read", "compare", "rename"}
OneEditor == \A c, d \in Editors : Busy(editor[c]) /\ Busy(editor[d]) => c = d

\* A first watch whose edit is in the file, and not in the record.
Early(e) == e.at \in {"record", "replace", "undo", "undoRename"} /\ ~e.had
Rooted == St!OursOf(settings) # 0 /\ rec.pre # Unknown => rec.pre = origin

InHand(e) ==
  /\ e.at \in {"compare", "rename"} => (St!OursOf(settings) # 0 <=> St!OursOf(e.before) # 0)
  /\ e.at \in Written => St!OursOf(settings) # 0
  /\ e.at = "rename" /\ ~e.beside => settings = e.before
  /\ e.kind = 0 /\ e.at \in {"read", "compare", "rename"} => e.seen = rec
  /\ e.at = "replace" => e.seen = rec
  /\ e.at \in {"record", "replace"} /\ ~e.had => origin = e.before
  /\ e.said = "restored" => e.true = TRUE

OriginKnown ==
  /\ OneEditor
  /\ (\A c \in Editors : ~Early(editor[c])) => Rooted
  /\ \A c \in Editors : InHand(editor[c])
OriginInv == muddled \/ OriginKnown

\* A step of the one command that is at work.
LEMMA OriginStays ==
  ASSUME OriginKnown, NEW c \in Editors, NEW e, editor'[c] = e,
         \A d \in Editors \ {c} : ~Busy(editor[d]) /\ Like(editor'[d], editor[d]),
         InHand(e)', ~Early(e) => Rooted'
  PROVE  OriginKnown'
<1>1. \A d \in Editors \ {c} : ~Busy(editor'[d])
  BY DEF Like, Busy
<1>2. OneEditor'
  BY <1>1 DEF OneEditor
<1>3. ASSUME NEW d \in Editors PROVE InHand(editor[d])'
  <2>1. CASE d = c
    BY <2>1 DEF InHand
  <2>2. CASE d # c
    <3>1. InHand(editor[d]) /\ Like(editor'[d], editor[d]) /\ ~Busy(editor'[d])
      BY <1>1, <2>2 DEF OriginKnown
    <3>2. editor'[d].said = "restored" => editor'[d].true = TRUE
      BY <3>1 DEF InHand, Like
    <3> QED BY <3>1, <3>2 DEF InHand, Busy, Written
  <2> QED BY <2>1, <2>2
<1>4. (\A d \in Editors : ~Early(editor'[d])) => Rooted'
  OBVIOUS
<1> QED BY <1>2, <1>3, <1>4 DEF OriginKnown, Early

\* Beside a command at work there is none; the record is rooted but for its own
\* edit.
LEMMA OriginAlone ==
  ASSUME OriginKnown, NEW c \in Editors, Busy(editor[c])
  PROVE  /\ \A d \in Editors \ {c} : ~Busy(editor[d])
         /\ ~Early(editor[c]) => Rooted
<1>1. \A d \in Editors \ {c} : ~Busy(editor[d])
  BY DEF OriginKnown, OneEditor
<1>2. \A d \in Editors \ {c} : ~Early(editor[d])
  BY <1>1 DEF Busy, Early, Written
<1> QED BY <1>1, <1>2 DEF OriginKnown

\* A step that leaves the file and the record alone.
LEMMA OriginStill ==
  ASSUME SettingsType, OriginKnown, NEW c \in Editors, NEW e,
         editor' = [editor EXCEPT ![c] = e],
         \A d \in Editors \ {c} : ~Busy(editor[d]),
         UNCHANGED <<settings, rec, origin>>,
         InHand(e), ~Early(e) => Rooted
  PROVE  OriginKnown'
<1>1. editor'[c] = e /\ \A d \in Editors \ {c} : editor'[d] = editor[d]
  BY DEF SettingsType
<1>2. \A d \in Editors \ {c} : Like(editor'[d], editor[d])
  BY <1>1 DEF Like
<1>3. InHand(e)' /\ (~Early(e) => Rooted')
  BY DEF InHand, Rooted
<1> QED BY <1>1, <1>2, <1>3, OriginStays

\* A command that ended, and restored nothing, has nothing in hand.
LEMMA OverInHand ==
  ASSUME NEW e, e.at \in Ends, e.said = "restored" => e.true = TRUE
  PROVE  InHand(e) /\ InHand(e)' /\ ~Early(e)
BY DEF InHand, Early, Ends, Written

LEMMA OriginStep ==
  ASSUME Hashes, PlanInv, OriginInv, [St!Next]_settingsVars
  PROVE  OriginInv'
<1> SUFFICES ASSUME ~muddled' PROVE OriginKnown'
  BY DEF OriginInv
<1>t. /\ SettingsType /\ rec \in Recs /\ settings \in Settings /\ editor \in [Editors -> Edit]
      /\ \A c \in Editors : editor[c] \in Edit /\ Planned(editor[c])
  BY DEF PlanInv, SettingsType
<1>m. ~muddled
  BY DEF St!Next, St!Begin, St!Read, St!Compare, St!Rename, St!ReadRecord, St!ReplaceRecord,
       St!Consent, St!WriteFails, St!Undo, St!UndoRename, St!Kill, St!EditElsewhere,
       St!history, settingsVars
<1>k. OriginKnown
  BY <1>m DEF OriginInv
<1>h. \A c \in Editors : InHand(editor[c])
  BY <1>k DEF OriginKnown
<1>1. ASSUME NEW c \in Editors, St!Begin(c) PROVE OriginKnown'
  <2>1. PICK kind \in Versions \cup {0} :
             editor' = [editor EXCEPT ![c].at = "read", ![c].kind = kind, ![c].seen = rec]
    BY <1>1 DEF St!Begin
  <2> DEFINE e == [editor[c] EXCEPT !.at = "read", !.kind = kind, !.seen = rec]
  <2>2. /\ e.at = "read" /\ e.seen = rec /\ e.said = editor[c].said /\ e.true = editor[c].true
    BY <1>t DEF Edit
  <2>3. editor' = [editor EXCEPT ![c] = e]
    BY <2>1 DEF PlanInv, SettingsType
  <2>4. UNCHANGED <<settings, origin, rec>>
    BY <1>1 DEF St!Begin
  <2>5. \A d \in Editors : ~Busy(editor[d])
    <3>1. \A d \in Editors : ~St!Running(d)
      BY <1>1 DEF St!Begin
    <3> QED BY <3>1 DEF St!Running, Busy, Written
  <2>6. Rooted
    BY <1>k, <2>5 DEF OriginKnown, Early, Busy, Written
  <2> HIDE DEF e
  <2>7. InHand(e)
    <3>1. e.said = "restored" => e.true = TRUE
      BY <1>h, <2>2 DEF InHand
    <3> QED BY <2>2, <3>1 DEF InHand, Written
  <2> QED BY <1>t, <1>k, <2>3, <2>4, <2>5, <2>6, <2>7, OriginStill
<1>2. ASSUME NEW c \in Editors, St!Read(c) PROVE OriginKnown'
  <2> DEFINE me == editor[c]
             n == Saying("done", "nothing")
             g == St!Edited(me.kind, me.seen, settings)
             had == St!OursOf(settings) # 0
             e == [me EXCEPT !.at = "compare", !.before = settings, !.after = g, !.had = had]
  <2>1. UNCHANGED <<settings, origin, rec>>
    BY <1>2 DEF St!Read, St!history
  <2>2. me \in Edit /\ me.at = "read" /\ InHand(me) /\ Busy(me)
    BY <1>t, <1>h, <1>2 DEF St!Read, St!At, Busy
  <2>3. Rooted /\ \A d \in Editors \ {c} : ~Busy(editor[d])
    <3>1. ~Early(me)
      BY <2>2 DEF Early
    <3> QED BY <1>k, <2>2, <3>1, OriginAlone
  <2>4. CASE St!OursOf(settings) = me.kind
    <3>1. editor' = [editor EXCEPT ![c] = n]
      BY <1>2, <2>4 DEF St!Read, Saying
    <3>2. InHand(n) /\ ~Early(n)
      <4>1. n.at \in Ends /\ n.said = "nothing"
        BY SayingFacts DEF Ends, Words
      <4> HIDE DEF n
      <4> QED BY <4>1, OverInHand
    <3> HIDE DEF n
    <3> QED BY <1>t, <1>k, <2>1, <2>3, <3>1, <3>2, OriginStill
  <2>5. CASE St!OursOf(settings) # me.kind
    <3>1. editor' = [editor EXCEPT ![c] = e]
      BY <1>2, <2>5 DEF St!Read
    <3> HIDE DEF g, had
    <3>2. /\ e.at = "compare" /\ e.before = settings /\ e.kind = me.kind /\ e.seen = me.seen
          /\ e.said = me.said /\ e.true = me.true
      BY <2>2 DEF Edit
    <3> HIDE DEF e, me
    <3>3. InHand(e)
      BY <2>2, <3>2 DEF InHand, Written
    <3> QED BY <1>t, <1>k, <2>1, <2>3, <3>1, <3>3, OriginStill
  <2> QED BY <2>4, <2>5
<1>3. ASSUME NEW c \in Editors, St!Compare(c) PROVE OriginKnown'
  <2> DEFINE me == editor[c]
  <2>1. UNCHANGED <<settings, origin, rec>>
    BY <1>3 DEF St!Compare, St!history
  <2>2. me \in Edit /\ Planned(me) /\ me.at = "compare" /\ InHand(me) /\ Busy(me)
    BY <1>t, <1>h, <1>3 DEF St!Compare, St!At, Busy
  <2>3. Rooted /\ \A d \in Editors \ {c} : ~Busy(editor[d])
    <3>1. ~Early(me)
      BY <2>2 DEF Early
    <3> QED BY <1>k, <2>2, <3>1, OriginAlone
  <2>4. ASSUME NEW e, InHand(e), editor' = [editor EXCEPT ![c] = e] PROVE OriginKnown'
    BY <1>t, <1>k, <2>1, <2>3, <2>4, OriginStill
  <2>5. CASE settings = me.before
    <3> DEFINE e == [me EXCEPT !.at = "rename", !.beside = FALSE]
    <3>1. editor' = [editor EXCEPT ![c] = e]
      BY <1>3, <2>5 DEF St!Compare
    <3>2. /\ e.at = "rename" /\ e.before = me.before /\ e.kind = me.kind /\ e.seen = me.seen
          /\ e.said = me.said /\ e.true = me.true
      BY <2>2 DEF Edit
    <3> HIDE DEF e, me
    <3>3. InHand(e)
      BY <2>2, <2>5, <3>2 DEF InHand, Written
    <3> QED BY <2>4, <3>1, <3>3
  <2>6. CASE settings # me.before /\ me.after = Absent /\ settings = Absent
    <3>1. me.kind = 0
      BY <2>2, <2>6 DEF Planned, Hashes
    <3>2. St!OursOf(me.before) # 0 /\ St!OursOf(settings) = 0
      BY <2>2, <2>6, <3>1 DEF Planned, St!OursOf
    <3> QED BY <2>2, <3>2 DEF InHand
  <2>7. CASE settings # me.before /\ ~(me.after = Absent /\ settings = Absent) /\ me.tries + 1 < Attempts
    <3> DEFINE tries == me.tries + 1
               e == [me EXCEPT !.at = "read", !.tries = tries]
    <3>1. editor' = [editor EXCEPT ![c] = e]
      BY <1>3, <2>7 DEF St!Compare
    <3> HIDE DEF tries
    <3>2. e.at = "read" /\ e.kind = me.kind /\ e.seen = me.seen /\ e.said = me.said /\ e.true = me.true
      BY <2>2 DEF Edit
    <3> HIDE DEF e, me
    <3>3. InHand(e)
      BY <2>2, <3>2 DEF InHand, Written
    <3> QED BY <2>4, <3>1, <3>3
  <2>8. CASE settings # me.before /\ ~(me.after = Absent /\ settings = Absent) /\ ~(me.tries + 1 < Attempts)
    <3> DEFINE e == St!Ended("failed")
    <3>1. editor' = [editor EXCEPT ![c] = e]
      BY <1>3, <2>8 DEF St!Compare
    <3>2. e.at \in Ends /\ e.said = ""
      BY EndedFacts DEF Ends
    <3> HIDE DEF e
    <3> QED BY <2>4, <3>1, <3>2, OverInHand
  <2> QED BY <2>5, <2>6, <2>7, <2>8
<1>4. ASSUME NEW c \in Editors, St!Rename(c) PROVE OriginKnown'
  <2> DEFINE me == editor[c]
             e == IF me.kind # 0 THEN [me EXCEPT !.at = "record"] ELSE St!Told(me)
  <2>1. /\ me \in Edit /\ Planned(me) /\ me.at = "rename" /\ me.after \in Settings
        /\ InHand(me) /\ Busy(me)
    BY <1>t, <1>h, <1>4 DEF St!Rename, St!At, Edit, Busy
  <2>2. Rooted /\ \A d \in Editors \ {c} : ~Busy(editor[d])
    <3>1. ~Early(me)
      BY <2>1 DEF Early
    <3> QED BY <1>k, <2>1, <3>1, OriginAlone
  <2>3. St!Put(c, me.after, e) /\ UNCHANGED rec
    BY <1>4 DEF St!Rename
  <2>4. /\ me.had = (St!OursOf(me.before) # 0)
        /\ St!OursOf(settings) # 0 <=> St!OursOf(me.before) # 0
        /\ me.seen = rec \/ me.kind # 0
    BY <2>1 DEF Planned, InHand
  <2>5. CASE me.kind # 0
    <3> DEFINE f == [me EXCEPT !.at = "record"]
    <3>1. /\ f \in Edit /\ f.at = "record" /\ f.before = me.before /\ f.had = me.had
          /\ f.said = me.said /\ f.true = me.true
      BY <2>1 DEF Edit, Written
    <3>2. St!Put(c, me.after, f)
      BY <2>3, <2>5
    <3>3. St!OursOf(me.after) # 0
      <4>1. me.after \in St!Contents /\ me.after.ours = me.kind
        BY <2>1, <2>5 DEF Planned
      <4> QED BY <4>1, <2>5 DEF Hashes, St!OursOf
    <3>4. origin' = IF me.had THEN origin ELSE me.before
      BY <2>1, <2>4, <3>2, <3>3 DEF St!Put, InHand
    <3> HIDE DEF f
    <3>5. /\ settings' = me.after /\ editor'[c] = f
          /\ \A d \in Editors \ {c} : Like(editor'[d], editor[d])
      BY <1>t, <2>1, <3>1, <3>2, PutFacts
    <3> HIDE DEF me, e
    <3>6. PICK x : x = f
      OBVIOUS
    <3>7. InHand(x)'
      <4>1. x.said = "restored" => x.true = TRUE
        BY <2>1, <3>1, <3>6 DEF InHand
      <4>2. x.at = "record" /\ (~x.had => origin' = x.before) /\ St!OursOf(settings') # 0
        BY <3>1, <3>3, <3>4, <3>5, <3>6
      <4> QED BY <4>1, <4>2 DEF InHand, Written
    <3>8. ~Early(x) => Rooted'
      BY <2>2, <2>3, <2>4, <3>1, <3>4, <3>6 DEF Early, Rooted
    <3> QED BY <1>k, <2>2, <3>5, <3>6, <3>7, <3>8, OriginStays
  <2>6. CASE me.kind = 0
    <3> DEFINE t == St!Told(me)
    <3>1. /\ t \in Edit /\ t.at = "done" /\ t.true = (me.after = origin)
          /\ t.said = "restored" => me.seen.pre # Unknown /\ me.after = me.seen.pre
      BY <1>t, <2>1, <2>6, ToldFacts
    <3>2. St!Put(c, me.after, t)
      BY <2>3, <2>6
    <3>3. St!OursOf(me.after) = 0 /\ St!OursOf(settings) # 0 /\ me.seen = rec
      BY <2>1, <2>4, <2>6 DEF Planned, InHand
    <3>4. t.said = "restored" => t.true = TRUE
      <4> HIDE DEF t
      <4>1. t.said = "restored" => me.after = origin
        BY <2>2, <3>1, <3>3 DEF Rooted
      <4> QED BY <3>1, <4>1
    <3> HIDE DEF t
    <3>5. /\ settings' = me.after /\ editor'[c] = t
          /\ \A d \in Editors \ {c} : Like(editor'[d], editor[d])
      BY <1>t, <2>1, <3>1, <3>2, PutFacts
    <3> HIDE DEF me, e
    <3>6. PICK x : x = t
      OBVIOUS
    <3>7. InHand(x)'
      <4>1. x.at \in Ends /\ (x.said = "restored" => x.true = TRUE)
        BY <3>1, <3>4, <3>6 DEF Ends
      <4> QED BY <4>1, OverInHand
    <3>8. Rooted'
      BY <3>3, <3>5 DEF Rooted
    <3> QED BY <1>k, <2>2, <3>5, <3>6, <3>7, <3>8, OriginStays
  <2> QED BY <2>5, <2>6
<1>5. ASSUME NEW c \in Editors, St!ReadRecord(c) PROVE OriginKnown'
  <2> DEFINE me == editor[c]
             e == [me EXCEPT !.at = "replace", !.seen = rec]
  <2>1. UNCHANGED <<settings, origin, rec>> /\ editor' = [editor EXCEPT ![c] = e]
    BY <1>t, <1>5 DEF St!ReadRecord, St!history
  <2>2. me \in Edit /\ me.at = "record" /\ InHand(me) /\ Busy(me)
    BY <1>t, <1>h, <1>5 DEF St!ReadRecord, St!At, Busy, Written
  <2>3. (~Early(me) => Rooted) /\ \A d \in Editors \ {c} : ~Busy(editor[d])
    BY <1>k, <2>2, OriginAlone
  <2>4. /\ e.at = "replace" /\ e.before = me.before /\ e.had = me.had /\ e.seen = rec
        /\ e.kind = me.kind /\ e.said = me.said /\ e.true = me.true
    BY <2>2 DEF Edit
  <2> HIDE DEF e, me
  <2>5. InHand(e) /\ (~Early(e) => Rooted)
    BY <2>2, <2>3, <2>4 DEF InHand, Early, Written
  <2> QED BY <1>t, <1>k, <2>1, <2>3, <2>5, OriginStill
<1>6. ASSUME NEW c \in Editors, St!ReplaceRecord(c) PROVE OriginKnown'
  <2> DEFINE me == editor[c]
             e == [me EXCEPT !.at = "consent"]
  <2>1. UNCHANGED <<settings, origin>> /\ rec' = St!Recorded(me) /\ editor' = [editor EXCEPT ![c] = e]
    BY <1>t, <1>6 DEF St!ReplaceRecord, St!history
  <2>2. /\ me \in Edit /\ Planned(me) /\ me.at = "replace" /\ InHand(me) /\ Busy(me)
        /\ me.had \in BOOLEAN
    BY <1>t, <1>h, <1>6 DEF St!ReplaceRecord, St!At, Busy, Written, Edit
  <2>3. (~Early(me) => Rooted) /\ \A d \in Editors \ {c} : ~Busy(editor[d])
    BY <1>k, <2>2, OriginAlone
  <2>4. e.at = "consent" /\ e.kind = me.kind /\ e.said = me.said /\ e.true = me.true
    BY <2>2 DEF Edit
  <2>5. Rooted'
    <3>1. CASE ~me.had
      <4>1. rec'.pre = me.before /\ me.before = origin
        BY <2>1, <2>2, <3>1 DEF St!Recorded, InHand
      <4> QED BY <2>1, <4>1 DEF Rooted
    <3>2. CASE me.had /\ me.seen.pre # Unknown /\ me.seen.post = me.before
      <4>1. rec'.pre = rec.pre /\ Rooted
        BY <2>1, <2>2, <2>3, <3>2 DEF St!Recorded, InHand, Early
      <4> QED BY <2>1, <4>1 DEF Rooted
    <3>3. CASE me.had /\ ~(me.seen.pre # Unknown /\ me.seen.post = me.before)
      <4>1. rec'.pre = Unknown
        BY <2>1, <3>3 DEF St!Recorded
      <4> QED BY <4>1 DEF Rooted
    <3> QED BY <3>1, <3>2, <3>3
  <2>6. editor'[c] = e /\ \A d \in Editors \ {c} : Like(editor'[d], editor[d])
    BY <1>t, <2>1 DEF Like
  <2> HIDE DEF e, me
  <2>7. PICK x : x = e
    OBVIOUS
  <2>8. InHand(x)'
    <3>1. St!OursOf(settings') # 0 /\ (x.said = "restored" => x.true = TRUE)
      BY <2>1, <2>2, <2>4, <2>7 DEF InHand, Written
    <3> QED BY <2>4, <2>7, <3>1 DEF InHand
  <2> QED BY <1>k, <2>3, <2>5, <2>6, <2>7, <2>8, OriginStays
<1>7. ASSUME NEW c \in Editors, St!Consent(c) PROVE OriginKnown'
  <2> DEFINE e == St!Ended("done")
  <2>1. UNCHANGED <<settings, origin, rec>> /\ editor' = [editor EXCEPT ![c] = e]
    BY <1>7 DEF St!Consent, St!history
  <2>2. editor[c].at = "consent" /\ Busy(editor[c]) /\ ~Early(editor[c])
    BY <1>7 DEF St!Consent, St!At, Busy, Written, Early
  <2>3. Rooted /\ \A d \in Editors \ {c} : ~Busy(editor[d])
    BY <1>k, <2>2, OriginAlone
  <2>4. e.at \in Ends /\ e.said = ""
    BY EndedFacts DEF Ends
  <2> HIDE DEF e
  <2> QED BY <1>t, <1>k, <2>1, <2>3, <2>4, OverInHand, OriginStill
<1>8. ASSUME NEW c \in Editors, St!WriteFails(c) PROVE OriginKnown'
  <2> DEFINE me == editor[c]
             e == [me EXCEPT !.at = "undo"]
  <2>1. UNCHANGED <<settings, origin, rec>> /\ editor' = [editor EXCEPT ![c] = e]
    BY <1>t, <1>8 DEF St!WriteFails, St!history
  <2>2. /\ me \in Edit /\ me.at \in {"record", "replace", "consent"} /\ InHand(me) /\ Busy(me)
    BY <1>t, <1>h, <1>8 DEF St!WriteFails, Busy, Written
  <2>3. (~Early(me) => Rooted) /\ \A d \in Editors \ {c} : ~Busy(editor[d])
    BY <1>k, <2>2, OriginAlone
  <2>4. e.at = "undo" /\ e.had = me.had /\ e.kind = me.kind /\ e.said = me.said /\ e.true = me.true
    BY <2>2 DEF Edit
  <2> HIDE DEF e, me
  <2>5. InHand(e) /\ (~Early(e) => Rooted)
    BY <2>2, <2>3, <2>4 DEF InHand, Early, Written
  <2> QED BY <1>t, <1>k, <2>1, <2>3, <2>5, OriginStill
<1>9. ASSUME NEW c \in Editors, St!Undo(c) PROVE OriginKnown'
  <2> DEFINE me == editor[c]
             e == [me EXCEPT !.at = "undoRename", !.beside = FALSE]
  <2>1. /\ me \in Edit /\ me.at = "undo" /\ InHand(me) /\ Busy(me)
    BY <1>t, <1>h, <1>9 DEF St!Undo, St!At, Busy, Written
  <2>2. (~Early(me) => Rooted) /\ \A d \in Editors \ {c} : ~Busy(editor[d])
    BY <1>k, <2>1, OriginAlone
  <2>3. St!OursOf(settings) # 0
    BY <2>1 DEF InHand, Written
  <2>4. settings # Absent
    BY <2>3 DEF St!OursOf
  <2>5. settings = me.after
    BY <1>9, <2>4 DEF St!Undo
  <2>6. UNCHANGED <<settings, origin, rec>> /\ editor' = [editor EXCEPT ![c] = e]
    BY <1>9, <2>5 DEF St!Undo
  <2>7. e.at = "undoRename" /\ e.had = me.had /\ e.kind = me.kind /\ e.said = me.said /\ e.true = me.true
    BY <2>1 DEF Edit
  <2> HIDE DEF e, me
  <2>8. InHand(e) /\ (~Early(e) => Rooted)
    BY <2>1, <2>2, <2>7 DEF InHand, Early, Written
  <2> QED BY <1>t, <1>k, <2>2, <2>6, <2>8, OriginStill
<1>10. ASSUME NEW c \in Editors, St!UndoRename(c) PROVE OriginKnown'
  <2> DEFINE me == editor[c]
             e == St!Ended("undone")
  <2>1. /\ me \in Edit /\ Planned(me) /\ me.at = "undoRename" /\ InHand(me) /\ Busy(me)
        /\ me.before \in Settings
    BY <1>t, <1>h, <1>10 DEF St!UndoRename, St!At, Busy, Written, Edit
  <2>2. (~Early(me) => Rooted) /\ \A d \in Editors \ {c} : ~Busy(editor[d])
    BY <1>k, <2>1, OriginAlone
  <2>3. St!Put(c, me.before, e) /\ UNCHANGED rec
    BY <1>10 DEF St!UndoRename
  <2>4. e \in Edit /\ e.at \in Ends /\ e.said = ""
    BY EndedFacts DEF Ends
  <2>5. St!OursOf(settings) # 0 /\ me.had = (St!OursOf(me.before) # 0)
    BY <2>1 DEF InHand, Planned, Written
  <2>6. origin' = origin
    BY <2>3, <2>5 DEF St!Put
  <2> HIDE DEF e
  <2>7. /\ settings' = me.before /\ editor'[c] = e
        /\ \A d \in Editors \ {c} : Like(editor'[d], editor[d])
    BY <1>t, <2>1, <2>3, <2>4, PutFacts
  <2> HIDE DEF me
  <2>8. Rooted'
    BY <2>1, <2>2, <2>3, <2>5, <2>6, <2>7 DEF Early, Rooted
  <2>9. PICK x : x = e
    OBVIOUS
  <2>10. InHand(x)'
    BY <2>4, <2>9, OverInHand
  <2> QED BY <1>k, <2>2, <2>7, <2>8, <2>9, <2>10, OriginStays
<1>11. ASSUME NEW c \in Editors, St!Kill(c) PROVE OriginKnown'
  <2> DEFINE me == editor[c]
             e == St!Ended("killed")
  <2>1. UNCHANGED <<settings, origin, rec>> /\ editor' = [editor EXCEPT ![c] = e]
    BY <1>11 DEF St!Kill
  <2>2. Busy(me) /\ ~Early(me)
    BY <1>11 DEF St!Kill, St!Running, Busy, Written, Early
  <2>3. Rooted /\ \A d \in Editors \ {c} : ~Busy(editor[d])
    BY <1>k, <2>2, OriginAlone
  <2>4. e.at \in Ends /\ e.said = ""
    BY EndedFacts DEF Ends
  <2> HIDE DEF e
  <2> QED BY <1>t, <1>k, <2>1, <2>3, <2>4, OverInHand, OriginStill
<1>12. CASE St!EditElsewhere
  <2>1. PICK body \in Bodies \cup {Absent} :
             /\ body # St!BodyOf(settings)
             /\ settings' = [body |-> body, ours |-> St!OursOf(settings)]
             /\ editor' = St!Beside(body)
    BY <1>12 DEF St!EditElsewhere
  <2>2. UNCHANGED <<rec, origin>>
    BY <1>12 DEF St!EditElsewhere
  <2>3. St!OursOf(settings') = St!OursOf(settings)
    <3>1. settings' \in St!Contents /\ settings'.ours = St!OursOf(settings)
      BY <1>t, <2>1, FileFacts DEF St!Contents
    <3> QED BY <3>1 DEF Hashes, St!OursOf
  <2>4. \A d \in Editors :
          /\ Like(editor'[d], editor[d])
          /\ editor[d].at \in {"rename", "undoRename"} => editor'[d].beside
    BY <1>t, <2>1, BesideFacts
  <2>5. ASSUME NEW d \in Editors PROVE InHand(editor[d])'
    BY <1>h, <2>2, <2>3, <2>4 DEF InHand, Like
  <2>6. OneEditor'
    BY <1>k, <2>4 DEF OriginKnown, OneEditor, Like, Busy
  <2>7. (\A d \in Editors : ~Early(editor[d]))' => Rooted'
    BY <1>k, <2>2, <2>3, <2>4 DEF OriginKnown, Early, Rooted, Like
  <2> QED BY <2>5, <2>6, <2>7 DEF OriginKnown
<1>13. CASE UNCHANGED settingsVars
  BY <1>k, <1>13 DEF settingsVars, OriginKnown, OneEditor, Busy, Early, Rooted, InHand
<1> QED
  BY <1>1, <1>2, <1>3, <1>4, <1>5, <1>6, <1>7, <1>8, <1>9, <1>10, <1>11, <1>12, <1>13 DEF St!Next

LEMMA OriginInit ==
  ASSUME St!Init
  PROVE  OriginInv
<1>1. \A c \in Editors : editor[c] = St!Idle
  BY DEF St!Init
<1>2. St!Idle.at = "idle" /\ St!Idle.said = ""
  BY DEF St!Idle
<1>3. \A c \in Editors : ~Busy(editor[c]) /\ InHand(editor[c])
  BY <1>1, <1>2 DEF Busy, InHand, Written
<1>4. Rooted
  BY DEF St!Init, St!NoRecord, Rooted
<1> QED BY <1>3, <1>4 DEF OriginInv, OriginKnown, OneEditor

\* After any number of watches, refreshes by newer binaries, failed watches and
\* detaches, each killed or beaten to the file at any point, no detach calls itself
\* a bug; and while none overlapped another and no watch ended with its edit there
\* and unrecorded, each that says it restored the file did (detach.go recordWatch,
\* selfCheck).
THEOREM RestoredStaysOriginal ==
  ASSUME Hashes
  PROVE  MCSpec => []RestoredIsOriginal
<1> DEFINE Inv == PlanInv /\ OriginInv
<1>1. MCInit => Inv
  BY PlanInit, OriginInit DEF MCInit
<1>2. Inv /\ [MCNext]_allVars => Inv'
  BY PlanStep, OriginStep, PartStep
<1>3. Inv => RestoredIsOriginal
  BY DEF PlanInv, Planned, OriginInv, OriginKnown, InHand, RestoredIsOriginal, St!RestoredIsOriginal
<1> QED BY <1>1, <1>2, <1>3, PTL DEF MCSpec, allVars

-----------------------------------------------------------------------------
\* What the constants of Ledger stand for: no verb is the absence of a key, and a
\* file that does not exist is none of the files.
Keys == Verbs \cup {"none", "first"}
Actives == [quarantined : BOOLEAN, rows : SUBSET Lessons]
Manifests == [key : Keys, lessons : Ln!Tiers \cup {Absent}, active : Actives \cup {Absent}]
LedgerFiles ==
  "none" \notin Verbs /\ Absent \notin Ln!Tiers /\ Absent \notin Actives /\ Absent \notin Manifests

Shelf ==
  [lessons : Ln!Tiers \cup {Absent}, active : Actives \cup {Absent}, sum : Manifests \cup {Absent}]
Stopped == {"idle", "done", "killed"}
Runs ==
  [at : Stopped \cup {"lessons", "active", "sum", "check", "ask", "key", "newKey", "replace", "sign"},
   got : Shelf, tiers : Ln!Tiers, flagged : BOOLEAN, opened : BOOLEAN, drops : SUBSET Lessons,
   key : Keys, rest : SUBSET Ln!Files]
Reading == {"sum", "lessons", "active", "match"}
Prompts ==
  [at : Reading \cup {"idle", "nothing", "unchecked", "given"}, try : Nat, got : Shelf, key : Keys,
   gave : SUBSET Lessons, could : SUBSET Lessons, calm : BOOLEAN]
LedgerType ==
  /\ disk \in Shelf /\ key \in Keys
  /\ verb \in [Verbs -> Runs] /\ reader \in [Readers -> Prompts]
  /\ killedLearn \in Nat /\ foreign \in Nat
  /\ standing \subseteq Lessons /\ mixed \in BOOLEAN

\* Where a verb reads back what it wrote, and what it writes for the prompt.
Signing(w) == w.at = "sign" \/ (w.at \in {"lessons", "active"} /\ w.rest # {})
Opening(w) == w.at \in {"idle", "sum", "check"} \/ (w.at \in {"lessons", "active"} /\ w.rest = {})
ForPrompt(w) == [quarantined |-> w.flagged, rows |-> Ln!Approved(w.tiers)]

\* A verb approves what a person let through and nothing it drops, it read what is
\* there, and what it reads back is what it wrote.
Careful(w) ==
  /\ Ln!Approved(w.tiers) \subseteq standing /\ Ln!Approved(w.tiers) \cap w.drops = {}
  /\ w.at \in Stopped => Ln!Approved(w.tiers) = {}
  /\ ~w.opened => Ln!Approved(w.tiers) = {} /\ w.drops = {}
  /\ w.at = "ask" => w.opened
  /\ Opening(w) => ~w.opened /\ w.rest = {}
  /\ w.at \in {"active", "sum", "sign", "check"} => w.got.lessons = disk.lessons
  /\ w.at \in {"sum", "sign", "check"} => w.got.active = disk.active
  /\ w.at = "check" => w.got.sum = disk.sum
  /\ w.at = "newKey" => w.rest = Ln!Files
  /\ w.at = "replace" => /\ "lessons" \notin w.rest => disk.lessons = w.tiers
                         /\ "active" \notin w.rest => disk.active = ForPrompt(w)
  /\ Signing(w) => disk.lessons = w.tiers /\ disk.active = ForPrompt(w)

\* The manifest signs nothing but what stands, and a prompt holds no other manifest.
Honest == disk.sum # Absent => Ln!Approved(disk.sum.lessons) \cup Ln!Given(disk.sum.active) \subseteq standing
Fair(m) ==
  /\ m.gave \subseteq m.could
  /\ m.at = "idle" => m.gave = {}
  /\ m.at # "idle" => standing \subseteq m.could
  /\ m.at \in {"lessons", "active", "match"} /\ m.got.sum # Absent => Ln!Given(m.got.sum.active) \subseteq m.could

OneVerb == \A u, v \in Verbs : Ln!Live(u) /\ Ln!Live(v) => u = v
Sole == OneVerb /\ Honest /\ (\A v \in Verbs : Careful(verb[v])) /\ (\A r \in Readers : Fair(reader[r]))

\* While nothing was killed or replaced from outside: the files match their manifest
\* but for a verb in the middle of its writes, and a prompt that no verb ran beside
\* has what is there.
Clean == disk = Ln!NoFiles \/ Ln!Checks(key, disk)
Begun(w) == Signing(w) \/ (w.at = "replace" /\ w.rest # Ln!Files)
Clear(w) ==
  /\ ~w.flagged
  /\ w.at = "newKey" => key = "none"
  /\ w.at = "replace" \/ Signing(w) => w.key = key /\ key # "none"
Calmly(m) ==
  /\ m.at \in Reading => m.key = key /\ key # "none" /\ disk.active # Absent
  /\ m.at \in Reading /\ m.calm =>
       /\ Ln!Calm
       /\ m.at \in {"lessons", "active", "match"} => m.got.sum = disk.sum
       /\ m.at \in {"active", "match"} => m.got.lessons = disk.lessons
       /\ m.at = "match" => m.got.active = disk.active
  /\ m.at = "unchecked" => ~m.calm
Quiet ==
  /\ \A v \in Verbs : Clear(verb[v])
  /\ (\A v \in Verbs : ~Begun(verb[v])) => Clean
  /\ \A r \in Readers : Calmly(reader[r])

Disturbed == mixed \/ killedLearn # 0 \/ foreign # 0
LedgerInv == LedgerType /\ (mixed \/ Sole) /\ (Disturbed \/ Quiet)

\* A prompt beside whom a verb moved, or a person approved a lesson.
Keeps(n, m) ==
  /\ n.at = m.at /\ n.got = m.got /\ n.key = m.key /\ n.gave = m.gave
  /\ m.could \subseteq n.could /\ (n.calm => m.calm)
Moves ==
  /\ disk' \in Shelf /\ key' \in Keys /\ standing' \subseteq Lessons /\ mixed' \in BOOLEAN
  /\ killedLearn' \in Nat /\ foreign' = foreign /\ reader' \in [Readers -> Prompts]
  /\ mixed => mixed'
  /\ killedLearn # 0 => killedLearn' # 0
  /\ \A r \in Readers : Keeps(reader'[r], reader[r]) /\ standing' \subseteq standing \cup reader'[r].could

\* What one verb does, with the parts of the invariant that its step may disturb.
LEMMA VerbMoves ==
  ASSUME LedgerInv, Moves, NEW v \in Verbs, NEW w \in Runs, verb' = [verb EXCEPT ![v] = w],
         \/ Ln!Live(v)
         \/ (~mixed' => Ln!Calm) /\ \A r \in Readers : ~reader'[r].calm,
         ~mixed' /\ Sole => (Careful(w) /\ Honest)',
         ~Disturbed' /\ Sole /\ Quiet =>
           /\ (Clear(w) /\ (~Begun(w) => Clean))'
           /\ key # "none" => key' = key
           /\ disk.active # Absent => disk'.active # Absent
  PROVE  LedgerInv'
<1>1. LedgerType'
  BY DEF LedgerInv, LedgerType, Moves
<1>2. verb'[v] = w /\ \A u \in Verbs \ {v} : verb'[u] = verb[u]
  BY DEF LedgerInv, LedgerType
<1>3. ASSUME ~mixed' PROVE Sole' /\ \A u \in Verbs \ {v} : ~Ln!Live(u)
  <2>1. Sole
    BY <1>3 DEF Moves, LedgerInv
  <2>2. \A u \in Verbs \ {v} : ~Ln!Live(u)
    BY <1>3, <2>1 DEF Sole, OneVerb, Ln!Calm
  <2>3. \A u \in Verbs \ {v} : verb[u].at \in Stopped /\ Careful(verb[u])
    BY <2>1, <2>2 DEF Sole, Ln!Live, Stopped
  <2>4. OneVerb'
    BY <1>2, <2>2 DEF OneVerb, Ln!Live
  <2>5. ASSUME NEW u \in Verbs PROVE Careful(verb[u])'
    <3>1. CASE u = v
      BY <1>2, <1>3, <2>1, <3>1 DEF Careful
    <3>2. CASE u # v
      BY <1>2, <2>3, <3>2 DEF Careful, Stopped, Signing, Opening
    <3> QED BY <3>1, <3>2
  <2>6. ASSUME NEW r \in Readers PROVE Fair(reader[r])'
    <3>1. Fair(reader[r]) /\ Keeps(reader'[r], reader[r]) /\ standing' \subseteq standing \cup reader'[r].could
      BY <2>1 DEF Sole, Moves
    <3> QED BY <3>1 DEF Fair, Keeps
  <2> QED BY <1>3, <2>1, <2>2, <2>4, <2>5, <2>6 DEF Sole
<1>4. ASSUME ~Disturbed' PROVE Quiet'
  <2>1. ~mixed' /\ ~Disturbed /\ Sole /\ Quiet
    BY <1>4 DEF Moves, LedgerInv, Disturbed
  <2>2. \A u \in Verbs \ {v} : verb[u].at \in Stopped /\ Clear(verb[u])
    BY <1>3, <2>1 DEF Quiet, Ln!Live, Stopped
  <2>3. ASSUME NEW u \in Verbs PROVE Clear(verb[u])'
    <3>1. CASE u = v
      BY <1>2, <1>4, <2>1, <3>1 DEF Clear
    <3>2. CASE u # v
      BY <1>2, <2>2, <3>2 DEF Clear, Stopped, Signing
    <3> QED BY <3>1, <3>2
  <2>4. (\A u \in Verbs : ~Begun(verb'[u])) => Clean'
    BY <1>2, <1>4, <2>1
  <2>5. ASSUME NEW r \in Readers PROVE Calmly(reader[r])'
    <3>1. Calmly(reader[r]) /\ Keeps(reader'[r], reader[r])
      BY <2>1 DEF Quiet, Moves
    <3>2. reader'[r].at \in Reading => ~reader'[r].calm
      BY <3>1 DEF Calmly, Keeps, Ln!Calm
    <3> QED BY <1>4, <2>1, <3>1, <3>2 DEF Calmly, Keeps
  <2> QED BY <2>3, <2>4, <2>5 DEF Quiet, Begun
<1> QED BY <1>1, <1>3, <1>4 DEF LedgerInv

LEMMA StillMoves ==
  ASSUME LedgerInv, UNCHANGED <<reader, killedLearn, foreign, mixed>>,
         disk' \in Shelf, key' \in Keys, standing' \subseteq standing
  PROVE  Moves
BY DEF Moves, LedgerInv, LedgerType, Keeps

LEMMA CleanAlone ==
  ASSUME Sole, Quiet, NEW v \in Verbs, Ln!Live(v), ~Begun(verb[v])
  PROVE  Clean
<1>1. \A u \in Verbs \ {v} : verb[u].at \in Stopped
  BY DEF Sole, OneVerb, Ln!Live, Stopped
<1>2. \A u \in Verbs : ~Begun(verb[u])
  BY <1>1 DEF Begun, Signing, Stopped
<1> QED BY <1>2 DEF Quiet

\* A verb that ended, and what nobody approved.
LEMMA NobodyApproved ==
  Ln!NoLessons \in Ln!Tiers /\ Ln!Approved(Ln!NoLessons) = {}
BY DEF Ln!NoLessons, Ln!Tiers, Ln!Approved

LEMMA NoFilesFacts ==
  /\ Ln!NoFiles \in Shelf
  /\ Ln!NoFiles.lessons = Absent /\ Ln!NoFiles.active = Absent /\ Ln!NoFiles.sum = Absent
BY DEF Ln!NoFiles, Ln!Files, Shelf

LEMMA EndedVerb ==
  ASSUME LedgerType, NEW v \in Verbs, NEW how \in {"done", "killed"}
  PROVE  LET w == Ln!Ended(v, how) IN
         /\ w \in Runs /\ w.at = how /\ w.flagged = verb[v].flagged
         /\ w.tiers = Ln!NoLessons /\ w.drops = {} /\ w.rest = {} /\ ~w.opened
<1> DEFINE i == Ln!Idle
           w == Ln!Ended(v, how)
<1>1. i \in Runs /\ i.tiers = Ln!NoLessons /\ i.drops = {} /\ i.rest = {} /\ i.opened = FALSE
  BY NobodyApproved, NoFilesFacts DEF Ln!Idle, Runs, Stopped, Keys
<1>2. verb[v].flagged \in BOOLEAN
  BY DEF LedgerType, Runs
<1>3. w = [i EXCEPT !.at = how, !.flagged = verb[v].flagged]
  BY DEF Ln!Ended
<1> HIDE DEF i
<1>4. /\ w \in Runs /\ w.at = how /\ w.flagged = verb[v].flagged
      /\ w.tiers = Ln!NoLessons /\ w.drops = {} /\ w.rest = {} /\ ~w.opened
  <2> HIDE DEF w
  <2> QED BY <1>1, <1>2, <1>3 DEF Runs, Stopped
<1> QED BY <1>4

LEMMA EndStep ==
  ASSUME LedgerInv, NEW v \in Verbs, Ln!EndUnsaved(v) \/ Ln!Kill(v)
  PROVE  LedgerInv'
<1>1. PICK how \in {"done", "killed"} : verb' = [verb EXCEPT ![v] = Ln!Ended(v, how)]
  BY DEF Ln!EndUnsaved, Ln!Kill
<1>2. PICK w : w = Ln!Ended(v, how)
  OBVIOUS
<1>3. /\ w \in Runs /\ w.at \in Stopped /\ w.at # "idle" /\ w.flagged = verb[v].flagged
      /\ Ln!Approved(w.tiers) = {} /\ w.drops = {} /\ w.rest = {} /\ ~w.opened
  BY <1>2, EndedVerb, NobodyApproved DEF LedgerInv, Stopped
<1>4. UNCHANGED <<disk, key, reader, foreign, standing, mixed>> /\ Ln!Live(v)
  BY DEF Ln!EndUnsaved, Ln!Kill, Ln!history, Ln!At, Ln!Live
<1>5. killedLearn' \in Nat /\ (killedLearn # 0 => killedLearn' # 0)
  BY DEF Ln!EndUnsaved, Ln!Kill, LedgerInv, LedgerType
<1>6. Moves
  BY <1>4, <1>5 DEF Moves, LedgerInv, LedgerType, Keeps
<1>7. Sole => (Careful(w) /\ Honest)'
  BY <1>3, <1>4 DEF Careful, Sole, Honest, Stopped, Signing, Opening
<1>8. ASSUME ~Disturbed', Sole, Quiet PROVE (Clear(w) /\ Clean)'
  <2>1. Ln!EndUnsaved(v)
    BY <1>8 DEF Disturbed, Ln!Kill, LedgerInv, LedgerType
  <2>2. ~Begun(verb[v])
    BY <2>1 DEF Ln!EndUnsaved, Ln!At, Begun, Signing
  <2>3. Clean
    BY <1>4, <1>8, <2>2, CleanAlone
  <2> QED BY <1>3, <1>4, <1>8, <2>3 DEF Clean, Ln!Checks, Ln!Sign, Clear, Quiet, Stopped, Signing
<1> QED BY <1>1, <1>2, <1>3, <1>4, <1>6, <1>7, <1>8, VerbMoves

LEMMA StartStep ==
  ASSUME LedgerInv, NEW v \in Verbs, Ln!Start(v)
  PROVE  LedgerInv'
<1>1. PICK w : w = [verb[v] EXCEPT !.at = "lessons"]
  OBVIOUS
<1>2. verb[v] \in Runs /\ verb[v].at = "idle"
  BY DEF LedgerInv, LedgerType, Ln!Start, Ln!At
<1>3. /\ w \in Runs /\ w.at = "lessons" /\ w.got = verb[v].got /\ w.tiers = verb[v].tiers
      /\ w.flagged = verb[v].flagged /\ w.opened = verb[v].opened /\ w.drops = verb[v].drops
      /\ w.rest = verb[v].rest
  BY <1>1, <1>2 DEF Runs
<1>4. verb' = [verb EXCEPT ![v] = w]
  BY <1>1 DEF Ln!Start, LedgerInv, LedgerType
<1>5. UNCHANGED <<disk, key, killedLearn, foreign, standing>> /\ mixed' = (mixed \/ ~Ln!Calm)
  BY DEF Ln!Start
<1>6. /\ reader' \in [Readers -> Prompts]
      /\ \A r \in Readers : Keeps(reader'[r], reader[r]) /\ ~reader'[r].calm
  <2>1. ASSUME NEW r \in Readers
        PROVE  /\ [reader[r] EXCEPT !.calm = FALSE] \in Prompts
               /\ Keeps([reader[r] EXCEPT !.calm = FALSE], reader[r])
               /\ ~[reader[r] EXCEPT !.calm = FALSE].calm
    <3>1. reader[r] \in Prompts
      BY DEF LedgerInv, LedgerType
    <3> QED BY <3>1 DEF Prompts, Keeps
  <2>2. reader' = [r \in Readers |-> [reader[r] EXCEPT !.calm = FALSE]]
    BY DEF Ln!Start
  <2> QED BY <2>1, <2>2
<1>7. Moves
  BY <1>5, <1>6 DEF Moves, LedgerInv, LedgerType, Ln!Calm
<1>8. Sole => (Careful(w) /\ Honest)' /\ ~Signing(w) /\ Careful(verb[v])
  BY <1>2, <1>3, <1>5 DEF Careful, Sole, Honest, Stopped, Signing, Opening
<1>9. ASSUME ~Disturbed', Sole, Quiet PROVE (Clear(w) /\ Clean)'
  <2>1. \A u \in Verbs : ~Ln!Live(u)
    BY <1>5, <1>9 DEF Disturbed, Ln!Calm
  <2>2. \A u \in Verbs : ~Begun(verb[u])
    BY <2>1 DEF Ln!Live, Begun, Signing
  <2>3. Clean
    BY <1>9, <2>2 DEF Quiet
  <2> QED BY <1>3, <1>5, <1>8, <1>9, <2>3 DEF Clean, Ln!Checks, Ln!Sign, Clear, Quiet
<1>10. ~mixed' => Ln!Calm
  BY <1>5
<1> QED BY <1>3, <1>4, <1>5, <1>6, <1>7, <1>8, <1>9, <1>10, VerbMoves

LEMMA ReadFileStep ==
  ASSUME LedgerInv, NEW v \in Verbs, Ln!ReadFile(v)
  PROVE  LedgerInv'
<1>1. /\ verb[v] \in Runs /\ verb[v].at \in {"lessons", "active", "sum"} /\ Ln!Live(v)
      /\ verb[v].got \in Shelf /\ disk \in Shelf /\ verb \in [Verbs -> Runs]
  BY DEF LedgerInv, LedgerType, Ln!ReadFile, Ln!Live, Runs
<1>2. UNCHANGED <<disk, key, reader, killedLearn, foreign, standing, mixed>>
  BY DEF Ln!ReadFile, Ln!history
<1>3. Moves
  BY <1>2, StillMoves DEF LedgerInv, LedgerType
<1>4. ASSUME NEW w \in Runs, verb' = [verb EXCEPT ![v] = w],
             w.tiers = verb[v].tiers, w.flagged = verb[v].flagged, w.opened = verb[v].opened,
             w.drops = verb[v].drops, w.rest = verb[v].rest, w.key = verb[v].key,
             w.at \notin Stopped \cup {"ask", "newKey", "replace"},
             Opening(w) <=> Opening(verb[v]), Signing(w) <=> Signing(verb[v]),
             Careful(verb[v]) => /\ w.at \in {"active", "sum", "sign", "check"} => w.got.lessons = disk.lessons
                                 /\ w.at \in {"sum", "sign", "check"} => w.got.active = disk.active
                                 /\ w.at = "check" => w.got.sum = disk.sum
      PROVE  LedgerInv'
  <2>1. Sole => (Careful(w) /\ Honest)'
    <3> SUFFICES ASSUME Sole PROVE (Careful(w) /\ Honest)'
      OBVIOUS
    <3>1. Careful(verb[v]) /\ Honest
      BY DEF Sole
    <3> QED BY <1>2, <1>4, <3>1 DEF Careful, Honest, Signing, Opening, ForPrompt
  <2>2. ASSUME Sole, Quiet PROVE (Clear(w) /\ (~Begun(w) => Clean))'
    <3>1. Clear(verb[v]) /\ (~Begun(verb[v]) => Clean)
      BY <1>1, <2>2, CleanAlone DEF Quiet
    <3>2. Begun(w) <=> Begun(verb[v])
      BY <1>1, <1>4 DEF Begun
    <3> QED BY <1>2, <1>4, <3>1, <3>2 DEF Clean, Ln!Checks, Ln!Sign, Clear, Begun, Signing
  <2> QED BY <1>1, <1>2, <1>3, <1>4, <2>1, <2>2, VerbMoves
<1>5. CASE verb[v].at = "lessons"
  <2>1. PICK w : w = [verb[v] EXCEPT !.got.lessons = disk.lessons, !.at = "active"]
    OBVIOUS
  <2>2. verb' = [verb EXCEPT ![v] = w]
    BY <1>1, <1>5, <2>1 DEF Ln!ReadFile, Ln!Following, Ln!At
  <2>3. /\ w \in Runs /\ w.at = "active" /\ w.got.lessons = disk.lessons
        /\ w.tiers = verb[v].tiers /\ w.flagged = verb[v].flagged /\ w.opened = verb[v].opened
        /\ w.drops = verb[v].drops /\ w.rest = verb[v].rest /\ w.key = verb[v].key
    BY <1>1, <2>1 DEF Runs, Shelf
  <2> QED BY <1>4, <1>5, <2>2, <2>3 DEF Opening, Signing, Stopped
<1>6. CASE verb[v].at = "active"
  <2> DEFINE next == IF verb[v].rest = {} THEN "sum" ELSE "sign"
  <2>1. PICK w : w = [verb[v] EXCEPT !.got.active = disk.active, !.at = next]
    OBVIOUS
  <2>2. verb' = [verb EXCEPT ![v] = w]
    BY <1>1, <1>6, <2>1 DEF Ln!ReadFile, Ln!Following, Ln!At
  <2>3. /\ w \in Runs /\ w.at = next /\ w.got.lessons = verb[v].got.lessons /\ w.got.active = disk.active
        /\ w.tiers = verb[v].tiers /\ w.flagged = verb[v].flagged /\ w.opened = verb[v].opened
        /\ w.drops = verb[v].drops /\ w.rest = verb[v].rest /\ w.key = verb[v].key
    BY <1>1, <2>1 DEF Runs, Shelf
  <2>4. Careful(verb[v]) => verb[v].got.lessons = disk.lessons
    BY <1>6 DEF Careful
  <2> QED BY <1>4, <1>6, <2>2, <2>3, <2>4 DEF Opening, Signing, Stopped
<1>7. CASE verb[v].at = "sum"
  <2>1. PICK w : w = [verb[v] EXCEPT !.got.sum = disk.sum, !.at = "check"]
    OBVIOUS
  <2>2. verb' = [verb EXCEPT ![v] = w]
    BY <1>1, <1>7, <2>1 DEF Ln!ReadFile, Ln!Following, Ln!At
  <2>3. /\ w \in Runs /\ w.at = "check" /\ w.got.lessons = verb[v].got.lessons
        /\ w.got.active = verb[v].got.active /\ w.got.sum = disk.sum
        /\ w.tiers = verb[v].tiers /\ w.flagged = verb[v].flagged /\ w.opened = verb[v].opened
        /\ w.drops = verb[v].drops /\ w.rest = verb[v].rest /\ w.key = verb[v].key
    BY <1>1, <2>1 DEF Runs, Shelf
  <2>4. Careful(verb[v]) => verb[v].got.lessons = disk.lessons /\ verb[v].got.active = disk.active
    BY <1>7 DEF Careful
  <2> QED BY <1>4, <1>7, <2>2, <2>3, <2>4 DEF Opening, Signing, Stopped
<1> QED BY <1>1, <1>5, <1>6, <1>7

\* A shelf is the three files it holds.
LEMMA SameShelf ==
  ASSUME NEW a \in Shelf, NEW b \in Shelf, a.lessons = b.lessons, a.active = b.active, a.sum = b.sum
  PROVE  a = b
BY DEF Shelf

LEMMA CheckStep ==
  ASSUME LedgerFiles, LedgerInv, NEW v \in Verbs, Ln!Check(v)
  PROVE  LedgerInv'
<1> DEFINE got == verb[v].got
           bad == got # Ln!NoFiles /\ ~Ln!Checks(key, got)
           tiers == IF got.lessons = Absent THEN Ln!NoLessons ELSE got.lessons
           proposed == [l \in Lessons |-> IF tiers[l] = "none" THEN "none" ELSE "proposed"]
           found == IF bad THEN proposed ELSE tiers
           next == IF bad THEN "key" ELSE "ask"
           fine == ~bad
<1>1. /\ verb[v] \in Runs /\ verb[v].at = "check" /\ Ln!Live(v)
      /\ got \in Shelf /\ disk \in Shelf /\ verb \in [Verbs -> Runs]
  BY DEF LedgerInv, LedgerType, Ln!Check, Ln!Live, Ln!At, Runs
<1>2. UNCHANGED <<disk, key, reader, killedLearn, foreign, standing, mixed>>
  BY DEF Ln!Check, Ln!history
<1>3. Moves
  BY <1>2, StillMoves DEF LedgerInv, LedgerType
<1>4. tiers \in Ln!Tiers /\ proposed \in Ln!Tiers /\ Ln!Approved(proposed) = {}
  BY <1>1, NobodyApproved DEF Shelf, Ln!Tiers, Ln!Approved
<1>5. found \in Ln!Tiers /\ bad \in BOOLEAN /\ next \in {"key", "ask"}
  BY <1>4
<1>6. verb' = [verb EXCEPT ![v] = [verb[v] EXCEPT !.tiers = found, !.flagged = bad, !.at = next, !.opened = fine]]
  BY <1>1 DEF Ln!Check
<1>7. Sole => Ln!Approved(found) \subseteq standing /\ verb[v].drops = {} /\ (bad => Ln!Approved(found) = {})
  <2> SUFFICES ASSUME Sole
               PROVE  Ln!Approved(found) \subseteq standing /\ verb[v].drops = {} /\ (bad => Ln!Approved(found) = {})
    OBVIOUS
  <2>1. /\ got.sum = disk.sum /\ verb[v].drops = {} /\ Honest
    BY <1>1 DEF Sole, Careful, Opening
  <2>2. CASE bad
    BY <1>4, <2>1, <2>2
  <2>3. CASE got = Ln!NoFiles
    <3>1. found = Ln!NoLessons
      BY <2>3, NoFilesFacts
    <3> QED BY <2>1, <2>3, <3>1, NobodyApproved
  <2>4. CASE Ln!Checks(key, got)
    <3>1. got.sum \in Manifests /\ got.sum.lessons = got.lessons
      BY <1>1, <2>4 DEF Ln!Checks, Ln!Sign, Shelf, Manifests, LedgerInv, LedgerType
    <3>2. Ln!Approved(got.lessons) \subseteq standing
      BY <2>1, <3>1 DEF Honest, LedgerFiles
    <3> QED BY <2>1, <2>4, <3>2, NobodyApproved
  <2> QED BY <2>2, <2>3, <2>4
<1>8. Sole /\ Quiet => ~bad /\ Clean
  <2> SUFFICES ASSUME Sole, Quiet PROVE ~bad /\ Clean
    OBVIOUS
  <2>1. Clean
    BY <1>1, CleanAlone DEF Begun, Signing
  <2>2. got = disk
    BY <1>1, SameShelf DEF Sole, Careful
  <2> QED BY <2>1, <2>2 DEF Clean
<1> HIDE DEF bad, found, next, fine
<1>9. PICK w : w = [verb[v] EXCEPT !.tiers = found, !.flagged = bad, !.at = next, !.opened = fine]
  OBVIOUS
<1>10. fine \in BOOLEAN /\ (fine <=> ~bad) /\ (bad => next = "key") /\ (next = "ask" => fine)
  BY DEF fine, next
<1>11. /\ w \in Runs /\ w.at = next /\ w.tiers = found /\ w.flagged = bad /\ w.opened = fine
       /\ w.drops = verb[v].drops
  BY <1>1, <1>5, <1>9, <1>10 DEF Runs
<1>12. Sole => (Careful(w) /\ Honest)'
  <2> SUFFICES ASSUME Sole PROVE (Careful(w) /\ Honest)'
    OBVIOUS
  <2>1. ~Opening(w) /\ ~Signing(w) /\ w.at \in {"key", "ask"}
    BY <1>5, <1>11 DEF Opening, Signing
  <2> QED BY <1>2, <1>7, <1>10, <1>11, <2>1 DEF Careful, Sole, Honest, Stopped
<1>13. Sole /\ Quiet => (Clear(w) /\ Clean)'
  BY <1>2, <1>5, <1>8, <1>11 DEF Clear, Signing, Clean, Ln!Checks, Ln!Sign
<1>14. verb' = [verb EXCEPT ![v] = w]
  BY <1>6, <1>9
<1> HIDE DEF got
<1> QED BY <1>1, <1>2, <1>3, <1>11, <1>12, <1>13, <1>14, VerbMoves

\* A verb goes on to save, with what the person asked of it.
LEMMA SavesStep ==
  ASSUME LedgerInv, Moves, NEW v \in Verbs, NEW w \in Runs, verb' = [verb EXCEPT ![v] = w],
         verb[v].at = "ask", w.at = "key", w.opened = verb[v].opened,
         verb[v].flagged = FALSE => w.flagged = FALSE,
         standing \subseteq standing',
         Ln!Approved(verb[v].tiers) \cap verb[v].drops = {} => Ln!Approved(w.tiers) \cap w.drops = {},
         Ln!Approved(verb[v].tiers) \subseteq standing => Ln!Approved(w.tiers) \subseteq standing',
         UNCHANGED <<disk, key, killedLearn, foreign, mixed>>
  PROVE  LedgerInv'
<1>1. Ln!Live(v) /\ disk \in Shelf /\ key \in Keys /\ standing' \subseteq Lessons /\ ~Begun(verb[v])
      /\ verb[v].flagged \in BOOLEAN
  BY DEF LedgerInv, LedgerType, Ln!Live, Begun, Signing, Moves, Runs
<1>2. Sole => (Careful(w) /\ Honest)'
  <2> SUFFICES ASSUME Sole PROVE (Careful(w) /\ Honest)'
    OBVIOUS
  <2>1. Careful(verb[v]) /\ Honest
    BY DEF Sole
  <2>2. ~Opening(w) /\ ~Signing(w) /\ w.opened
    BY <2>1 DEF Opening, Signing, Careful
  <2>3. Careful(w)'
    BY <2>1, <2>2 DEF Careful, Stopped
  <2> QED BY <2>1, <2>3 DEF Honest
<1>3. ASSUME Sole, Quiet PROVE (Clear(w) /\ Clean)'
  <2>1. Clean
    BY <1>1, <1>3, CleanAlone
  <2> QED BY <1>1, <1>3, <2>1 DEF Quiet, Clear, Signing, Clean, Ln!Checks, Ln!Sign
<1> QED BY <1>1, <1>2, <1>3, VerbMoves

Asked(w, v, l, tier, drops) ==
  /\ verb' = [verb EXCEPT ![v] = w]
  /\ w.at = "key" /\ w.opened = verb[v].opened /\ w.drops = drops
  /\ verb[v].flagged = FALSE => w.flagged = FALSE
  /\ tier = "approved" => Ln!Approved(w.tiers) = Ln!Approved(verb[v].tiers) \cup {l}
  /\ tier = "proposed" => Ln!Approved(w.tiers) = Ln!Approved(verb[v].tiers) \ {l}

LEMMA SavesFacts ==
  ASSUME LedgerType, NEW v \in Verbs, NEW l \in Lessons, NEW tier \in {"proposed", "approved"},
         NEW drops \in SUBSET Lessons, Ln!Saves(v, l, tier, drops)
  PROVE  \E w \in Runs : Asked(w, v, l, tier, drops)
<1> DEFINE t == [verb[v].tiers EXCEPT ![l] = tier]
           flagged == verb[v].flagged /\ tier # "approved"
<1>1. verb[v] \in Runs /\ verb[v].tiers \in Ln!Tiers /\ verb[v].flagged \in BOOLEAN
  BY DEF LedgerType, Runs
<1>2. /\ t \in Ln!Tiers
      /\ tier = "approved" => Ln!Approved(t) = Ln!Approved(verb[v].tiers) \cup {l}
      /\ tier = "proposed" => Ln!Approved(t) = Ln!Approved(verb[v].tiers) \ {l}
  BY <1>1 DEF Ln!Tiers, Ln!Approved
<1>3. flagged \in BOOLEAN /\ (verb[v].flagged = FALSE => flagged = FALSE)
  OBVIOUS
<1>4. verb' = [verb EXCEPT ![v] = [verb[v] EXCEPT !.tiers = t, !.drops = drops, !.at = "key", !.flagged = flagged]]
  BY <1>1 DEF Ln!Saves, LedgerType
<1> HIDE DEF t, flagged
<1>5. PICK w : w = [verb[v] EXCEPT !.tiers = t, !.drops = drops, !.at = "key", !.flagged = flagged]
  OBVIOUS
<1>6. /\ w \in Runs /\ w.at = "key" /\ w.opened = verb[v].opened /\ w.drops = drops
      /\ w.flagged = flagged /\ w.tiers = t
  BY <1>1, <1>2, <1>3, <1>5 DEF Runs
<1> QED BY <1>2, <1>3, <1>4, <1>5, <1>6 DEF Asked

LEMMA AskStep ==
  ASSUME LedgerInv, NEW v \in Verbs, NEW l \in Lessons,
         Ln!Approve(v, l) \/ Ln!Withdraw(v, l) \/ Ln!Import(v, l)
  PROVE  LedgerInv'
<1>1. /\ LedgerType /\ verb[v] \in Runs /\ verb[v].at = "ask" /\ Ln!Approved(verb[v].tiers) \subseteq Lessons
      /\ UNCHANGED <<disk, key, killedLearn, foreign, mixed>>
  BY DEF LedgerInv, LedgerType, Ln!Approve, Ln!Withdraw, Ln!Import, Ln!At, Ln!Approved, Ln!history
<1>2. CASE Ln!Approve(v, l)
  <2>1. PICK w \in Runs : Asked(w, v, l, "approved", {})
    <3>1. Ln!Saves(v, l, "approved", {})
      BY <1>2 DEF Ln!Approve
    <3> QED BY <1>1, <3>1, SavesFacts
  <2>2. /\ reader' \in [Readers -> Prompts]
        /\ \A r \in Readers : Keeps(reader'[r], reader[r]) /\ l \in reader'[r].could
    <3>1. ASSUME NEW r \in Readers
          PROVE  LET n == [reader[r] EXCEPT !.could = reader[r].could \cup {l}] IN
                 n \in Prompts /\ Keeps(n, reader[r]) /\ l \in n.could
      <4>1. reader[r] \in Prompts /\ reader[r].could \cup {l} \in SUBSET Lessons
        BY <1>1 DEF LedgerType, Prompts
      <4> DEFINE could == reader[r].could \cup {l}
                 n == [reader[r] EXCEPT !.could = could]
      <4>2. reader[r].could \subseteq could /\ l \in could
        OBVIOUS
      <4> HIDE DEF could
      <4>3. n \in Prompts /\ Keeps(n, reader[r]) /\ l \in n.could
        BY <4>1, <4>2 DEF Prompts, Keeps, could
      <4> QED BY <4>3 DEF could
    <3>2. reader' = [r \in Readers |-> [reader[r] EXCEPT !.could = reader[r].could \cup {l}]]
      BY <1>2 DEF Ln!Approve
    <3> QED BY <3>1, <3>2
  <2>3. standing' = standing \cup {l}
    BY <1>2 DEF Ln!Approve
  <2>4. Moves
    BY <1>1, <2>2, <2>3 DEF Moves, LedgerType
  <2> QED BY <1>1, <2>1, <2>3, <2>4, SavesStep DEF Asked
<1>3. CASE Ln!Withdraw(v, l) \/ (Ln!Import(v, l) /\ verb[v].tiers[l] = "none")
  <2>1. PICK drops \in {{}, {l}} : Ln!Saves(v, l, "proposed", drops)
    BY <1>3 DEF Ln!Withdraw, Ln!Import
  <2>2. UNCHANGED <<reader, standing>>
    BY <1>3 DEF Ln!Withdraw, Ln!Import, Ln!history
  <2>3. PICK w \in Runs : Asked(w, v, l, "proposed", drops)
    <3>1. drops \in SUBSET Lessons
      OBVIOUS
    <3> QED BY <1>1, <2>1, <3>1, SavesFacts
  <2>4. Moves
    BY <1>1, <2>2, StillMoves DEF LedgerType
  <2> QED BY <1>1, <2>1, <2>2, <2>3, <2>4, SavesStep DEF Asked
<1>4. CASE Ln!Import(v, l) /\ verb[v].tiers[l] # "none"
  <2>1. verb' = [verb EXCEPT ![v] = [verb[v] EXCEPT !.at = "key"]] /\ UNCHANGED <<reader, standing>>
    BY <1>1, <1>4 DEF Ln!Import, Ln!history, LedgerType
  <2>2. PICK w : w = [verb[v] EXCEPT !.at = "key"]
    OBVIOUS
  <2>3. /\ w \in Runs /\ w.at = "key" /\ w.opened = verb[v].opened /\ w.drops = verb[v].drops
        /\ w.flagged = verb[v].flagged /\ w.tiers = verb[v].tiers
    BY <1>1, <2>2 DEF Runs
  <2>4. Moves
    BY <1>1, <2>1, StillMoves DEF LedgerType
  <2> QED BY <1>1, <2>1, <2>2, <2>3, <2>4, SavesStep
<1> QED BY <1>2, <1>3, <1>4

LEMMA KeyStep ==
  ASSUME LedgerFiles, LedgerInv, NEW v \in Verbs, Ln!EnsureKey(v) \/ Ln!NewKey(v)
  PROVE  LedgerInv'
<1>1. /\ LedgerType /\ verb[v] \in Runs /\ Ln!Live(v) /\ ~Begun(verb[v])
      /\ UNCHANGED <<disk, reader, killedLearn, foreign, standing, mixed>>
  BY DEF LedgerInv, LedgerType, Ln!EnsureKey, Ln!NewKey, Ln!At, Ln!Live, Ln!history, Begun, Signing
<1>2. CASE Ln!EnsureKey(v)
  <2> DEFINE next == IF key = "none" THEN "newKey" ELSE "replace"
  <2>1. /\ verb' = [verb EXCEPT ![v] = [verb[v] EXCEPT !.key = key, !.rest = Ln!Files, !.at = next]]
        /\ key' = key /\ verb[v].at = "key"
    BY <1>1, <1>2 DEF Ln!EnsureKey, Ln!At, LedgerType
  <2>2. /\ next \in {"newKey", "replace"} /\ key \in Keys /\ Ln!Files \in SUBSET Ln!Files
        /\ next = "newKey" <=> key = "none"
    BY <1>1 DEF LedgerType
  <2> HIDE DEF next
  <2>3. PICK w : w = [verb[v] EXCEPT !.key = key, !.rest = Ln!Files, !.at = next]
    OBVIOUS
  <2>4. /\ w \in Runs /\ w.at = next /\ w.tiers = verb[v].tiers /\ w.flagged = verb[v].flagged
        /\ w.opened = verb[v].opened /\ w.drops = verb[v].drops /\ w.rest = Ln!Files /\ w.key = key
    BY <1>1, <2>2, <2>3 DEF Runs
  <2>5. ~Signing(w) /\ ~Opening(w) /\ ~Begun(w) /\ "lessons" \in w.rest /\ "active" \in w.rest
    BY <2>2, <2>4 DEF Signing, Opening, Begun, Ln!Files
  <2>6. Moves
    BY <1>1, <2>1, StillMoves DEF LedgerType
  <2>7. Sole => (Careful(w) /\ Honest)'
    <3> SUFFICES ASSUME Sole PROVE (Careful(w) /\ Honest)'
      OBVIOUS
    <3>1. Careful(verb[v]) /\ Honest
      BY DEF Sole
    <3>2. Careful(w)'
      BY <1>1, <2>2, <2>4, <2>5, <3>1 DEF Careful, Stopped
    <3> QED BY <1>1, <3>1, <3>2 DEF Honest
  <2>8. Sole /\ Quiet => (Clear(w) /\ Clean)'
    BY <1>1, <2>1, <2>2, <2>4, <2>5, CleanAlone DEF Quiet, Clear, Clean, Ln!Checks, Ln!Sign
  <2>9. verb' = [verb EXCEPT ![v] = w]
    BY <2>1, <2>3
  <2> QED BY <1>1, <2>1, <2>4, <2>6, <2>7, <2>8, <2>9, VerbMoves
<1>3. CASE Ln!NewKey(v)
  <2>1. /\ verb' = [verb EXCEPT ![v] = [verb[v] EXCEPT !.key = v, !.at = "replace"]]
        /\ key' = v /\ verb[v].at = "newKey"
    BY <1>1, <1>3 DEF Ln!NewKey, Ln!At, LedgerType
  <2>2. v \in Keys /\ v # "none"
    BY DEF Keys, LedgerFiles
  <2>3. PICK w : w = [verb[v] EXCEPT !.key = v, !.at = "replace"]
    OBVIOUS
  <2>4. /\ w \in Runs /\ w.at = "replace" /\ w.tiers = verb[v].tiers /\ w.flagged = verb[v].flagged
        /\ w.opened = verb[v].opened /\ w.drops = verb[v].drops /\ w.rest = verb[v].rest /\ w.key = v
    BY <1>1, <2>2, <2>3 DEF Runs
  <2>5. ~Signing(w) /\ ~Opening(w)
    BY <2>4 DEF Signing, Opening
  <2>6. Moves
    BY <1>1, <2>1, <2>2, StillMoves DEF LedgerType
  <2>7. Sole => (Careful(w) /\ Honest)'
    <3> SUFFICES ASSUME Sole PROVE (Careful(w) /\ Honest)'
      OBVIOUS
    <3>1. Careful(verb[v]) /\ Honest
      BY DEF Sole
    <3>2. w.rest = Ln!Files
      BY <2>1, <2>4, <3>1 DEF Careful
    <3>3. Careful(w)'
      BY <1>1, <2>4, <2>5, <3>1, <3>2 DEF Careful, Stopped, Ln!Files
    <3> QED BY <1>1, <3>1, <3>3 DEF Honest
  <2>8. Sole /\ Quiet => (Clear(w) /\ Clean)' /\ key = "none"
    <3> SUFFICES ASSUME Sole, Quiet PROVE (Clear(w) /\ Clean)' /\ key = "none"
      OBVIOUS
    <3>1. Clean /\ key = "none" /\ verb[v].flagged = FALSE
      BY <1>1, <2>1, CleanAlone DEF Quiet, Clear, Runs
    <3> QED BY <1>1, <2>1, <2>2, <2>4, <2>5, <3>1 DEF Clear, Clean, Ln!Checks
  <2>9. verb' = [verb EXCEPT ![v] = w]
    BY <2>1, <2>3
  <2> QED BY <1>1, <2>1, <2>2, <2>4, <2>6, <2>7, <2>8, <2>9, VerbMoves
<1> QED BY <1>2, <1>3

LEMMA ReplaceStep ==
  ASSUME LedgerFiles, LedgerInv, NEW v \in Verbs, Ln!Replace(v)
  PROVE  LedgerInv'
<1>1. /\ LedgerType /\ verb[v] \in Runs /\ Ln!Live(v) /\ verb[v].at = "replace"
      /\ UNCHANGED <<key, reader, killedLearn, foreign, standing, mixed>>
      /\ verb[v].tiers \in Ln!Tiers /\ ForPrompt(verb[v]) \in Actives /\ verb[v].rest \subseteq Ln!Files
  BY DEF LedgerInv, LedgerType, Ln!Replace, Ln!At, Ln!Live, Ln!history, Runs, ForPrompt, Actives, Ln!Approved
<1>2. PICK f \in verb[v].rest :
        /\ disk' = [disk EXCEPT ![f] = Ln!Written(v, f)]
        /\ IF verb[v].rest = Ln!Files THEN verb' = [verb EXCEPT ![v].rest = verb[v].rest \ {f}]
           ELSE verb' = [verb EXCEPT ![v].at = "lessons"]
  BY <1>1 DEF Ln!Replace, LedgerType
<1>3. f \in {"lessons", "active"}
  BY <1>1 DEF Ln!Files
<1>4. /\ disk' \in Shelf /\ disk'.sum = disk.sum
      /\ f = "lessons" => disk'.lessons = verb[v].tiers /\ disk'.active = disk.active
      /\ f = "active" => disk'.active = ForPrompt(verb[v]) /\ disk'.lessons = disk.lessons
  <2>1. CASE f = "lessons"
    BY <1>1, <1>2, <2>1 DEF Ln!Written, LedgerType, Shelf
  <2>2. CASE f = "active"
    <3>1. disk' = [disk EXCEPT !.active = ForPrompt(verb[v])]
      BY <1>2, <2>2 DEF Ln!Written, ForPrompt
    <3> QED BY <1>1, <2>2, <3>1 DEF LedgerType, Shelf
  <2> QED BY <1>3, <2>1, <2>2
<1>5. Moves
  BY <1>1, <1>4, StillMoves DEF LedgerType
<1>6. disk.active # Absent => disk'.active # Absent
  BY <1>1, <1>3, <1>4 DEF LedgerFiles
<1>7. ASSUME NEW w \in Runs, verb' = [verb EXCEPT ![v] = w],
             w.tiers = verb[v].tiers, w.flagged = verb[v].flagged, w.opened = verb[v].opened,
             w.drops = verb[v].drops, w.key = verb[v].key,
             Begun(w), w.at \in {"replace", "lessons"}, w.at = "lessons" => Signing(w),
             Careful(verb[v]) => (w.at = "replace" /\ "lessons" \in w.rest) \/ disk'.lessons = w.tiers,
             Careful(verb[v]) => (w.at = "replace" /\ "active" \in w.rest) \/ disk'.active = ForPrompt(w)
      PROVE  LedgerInv'
  <2>1. Sole => (Careful(w) /\ Honest)'
    <3> SUFFICES ASSUME Sole PROVE (Careful(w) /\ Honest)'
      OBVIOUS
    <3>1. Careful(verb[v]) /\ Honest
      BY DEF Sole
    <3>2. ~Opening(w)
      BY <1>7 DEF Opening, Signing
    <3>3. Careful(w)'
      BY <1>1, <1>7, <3>1, <3>2 DEF Careful, Stopped, Signing, ForPrompt
    <3> QED BY <1>1, <1>4, <3>1, <3>3 DEF Honest
  <2>2. Sole /\ Quiet => Clear(w)'
    BY <1>1, <1>7 DEF Quiet, Clear
  <2> QED BY <1>1, <1>4, <1>5, <1>6, <1>7, <2>1, <2>2, VerbMoves DEF LedgerType, Begun, Signing
<1>8. CASE verb[v].rest = Ln!Files
  <2> DEFINE rest == verb[v].rest \ {f}
  <2>1. PICK w : w = [verb[v] EXCEPT !.rest = rest]
    OBVIOUS
  <2>2. verb' = [verb EXCEPT ![v] = w]
    BY <1>2, <1>8, <2>1
  <2>3. rest \in SUBSET Ln!Files /\ rest # Ln!Files /\ ("lessons" \in rest <=> f # "lessons")
        /\ ("active" \in rest <=> f # "active")
    BY <1>3, <1>8 DEF Ln!Files
  <2> HIDE DEF rest
  <2>4. /\ w \in Runs /\ w.at = "replace" /\ w.rest = rest
        /\ w.tiers = verb[v].tiers /\ w.flagged = verb[v].flagged /\ w.opened = verb[v].opened
        /\ w.drops = verb[v].drops /\ w.key = verb[v].key
    BY <1>1, <2>1, <2>3 DEF Runs
  <2>5. Begun(w) /\ ForPrompt(w) = ForPrompt(verb[v])
    BY <2>3, <2>4 DEF Begun, ForPrompt
  <2> QED BY <1>3, <1>4, <1>7, <2>2, <2>3, <2>4, <2>5
<1>9. CASE verb[v].rest # Ln!Files
  <2>1. PICK w : w = [verb[v] EXCEPT !.at = "lessons"]
    OBVIOUS
  <2>2. verb' = [verb EXCEPT ![v] = w]
    BY <1>2, <1>9, <2>1
  <2>3. /\ w \in Runs /\ w.at = "lessons" /\ w.rest = verb[v].rest
        /\ w.tiers = verb[v].tiers /\ w.flagged = verb[v].flagged /\ w.opened = verb[v].opened
        /\ w.drops = verb[v].drops /\ w.key = verb[v].key
    BY <1>1, <2>1 DEF Runs
  <2>4. Signing(w) /\ Begun(w) /\ ForPrompt(w) = ForPrompt(verb[v])
    BY <1>2, <2>3 DEF Begun, Signing, ForPrompt
  <2>5. /\ f = "lessons" => "active" \notin verb[v].rest
        /\ f = "active" => "lessons" \notin verb[v].rest
    BY <1>1, <1>2, <1>9 DEF Ln!Files
  <2>6. Careful(verb[v]) => /\ f = "lessons" => disk.active = ForPrompt(verb[v])
                            /\ f = "active" => disk.lessons = verb[v].tiers
    BY <1>1, <2>5 DEF Careful
  <2> QED BY <1>3, <1>4, <1>7, <2>2, <2>3, <2>4, <2>6
<1> QED BY <1>8, <1>9

LEMMA SignStep ==
  ASSUME LedgerFiles, LedgerInv, NEW v \in Verbs, Ln!SignState(v)
  PROVE  LedgerInv'
<1> DEFINE s == Ln!Sign(verb[v].key, verb[v].got)
<1>1. /\ LedgerType /\ verb[v] \in Runs /\ Ln!Live(v) /\ verb[v].at = "sign" /\ Signing(verb[v])
      /\ UNCHANGED <<key, reader, killedLearn, foreign, mixed>>
      /\ verb[v].got \in Shelf /\ verb[v].key \in Keys /\ verb[v].opened \in BOOLEAN
  BY DEF LedgerInv, LedgerType, Ln!SignState, Ln!At, Ln!Live, Ln!history, Runs, Signing
<1>2. /\ s \in Manifests /\ s.key = verb[v].key
      /\ s.lessons = verb[v].got.lessons /\ s.active = verb[v].got.active
  BY <1>1 DEF Ln!Sign, Manifests, Shelf
<1>3. disk' = [disk EXCEPT !.sum = s]
  BY DEF Ln!SignState
<1> HIDE DEF s
<1>4. /\ disk' \in Shelf /\ disk'.lessons = disk.lessons /\ disk'.active = disk.active /\ disk'.sum = s
  BY <1>1, <1>2, <1>3 DEF LedgerType, Shelf
<1>5. standing' = IF verb[v].opened THEN standing \ verb[v].drops ELSE {}
  BY DEF Ln!SignState
<1>6. Moves
  BY <1>1, <1>4, <1>5, StillMoves DEF LedgerType
<1>7. Sole => /\ s.lessons = disk.lessons /\ s.active = disk.active /\ Honest'
              /\ ~verb[v].opened => Ln!Approved(verb[v].tiers) = {} /\ verb[v].drops = {}
              /\ Ln!Approved(verb[v].tiers) \subseteq standing'
  <2> SUFFICES ASSUME Sole
               PROVE  /\ s.lessons = disk.lessons /\ s.active = disk.active /\ Honest'
                      /\ ~verb[v].opened => Ln!Approved(verb[v].tiers) = {} /\ verb[v].drops = {}
                      /\ Ln!Approved(verb[v].tiers) \subseteq standing'
    OBVIOUS
  <2>1. /\ s.lessons = disk.lessons /\ s.active = disk.active
        /\ disk.lessons = verb[v].tiers /\ disk.active = ForPrompt(verb[v])
        /\ Ln!Approved(verb[v].tiers) \subseteq standing /\ Ln!Approved(verb[v].tiers) \cap verb[v].drops = {}
        /\ ~verb[v].opened => Ln!Approved(verb[v].tiers) = {} /\ verb[v].drops = {}
    BY <1>1, <1>2 DEF Sole, Careful
  <2>2. Ln!Approved(verb[v].tiers) \subseteq standing'
    BY <1>5, <2>1
  <2>3. Ln!Given(ForPrompt(verb[v])) \subseteq Ln!Approved(verb[v].tiers)
    BY DEF Ln!Given, ForPrompt
  <2> QED BY <1>4, <2>1, <2>2, <2>3 DEF Honest
<1>8. Sole /\ Quiet => Clean' /\ verb[v].flagged = FALSE
  <2> SUFFICES ASSUME Sole, Quiet PROVE Clean' /\ verb[v].flagged = FALSE
    OBVIOUS
  <2>1. verb[v].flagged = FALSE /\ verb[v].key = key /\ key # "none"
    BY <1>1 DEF Quiet, Clear, Runs
  <2>2. s = Ln!Sign(key, disk')
    BY <1>2, <1>4, <1>7, <2>1 DEF Ln!Sign, Manifests
  <2> QED BY <1>1, <1>4, <2>1, <2>2 DEF Clean, Ln!Checks
<1>9. CASE verb[v].opened
  <2>1. verb' = [verb EXCEPT ![v] = Ln!Ended(v, "done")]
    BY <1>9 DEF Ln!SignState
  <2>2. PICK w : w = Ln!Ended(v, "done")
    OBVIOUS
  <2>3. /\ w \in Runs /\ w.at = "done" /\ w.flagged = verb[v].flagged
        /\ Ln!Approved(w.tiers) = {} /\ w.drops = {} /\ w.rest = {} /\ ~w.opened
    BY <1>1, <2>2, EndedVerb, NobodyApproved
  <2>4. Sole => (Careful(w) /\ Honest)'
    BY <1>7, <2>3 DEF Careful, Stopped, Signing, Opening
  <2>5. Sole /\ Quiet => (Clear(w) /\ Clean)'
    BY <1>8, <2>3 DEF Clear, Signing
  <2> QED BY <1>1, <1>4, <1>6, <2>1, <2>2, <2>3, <2>4, <2>5, VerbMoves
<1>10. CASE ~verb[v].opened
  <2>1. verb' = [verb EXCEPT ![v] = [verb[v] EXCEPT !.at = "ask", !.opened = TRUE, !.rest = {}]]
    BY <1>10 DEF Ln!SignState
  <2>2. PICK w : w = [verb[v] EXCEPT !.at = "ask", !.opened = TRUE, !.rest = {}]
    OBVIOUS
  <2>3. /\ w \in Runs /\ w.at = "ask" /\ w.flagged = verb[v].flagged /\ w.tiers = verb[v].tiers
        /\ w.drops = verb[v].drops /\ w.rest = {} /\ w.opened = TRUE
    BY <1>1, <2>2 DEF Runs
  <2>4. Sole => (Careful(w) /\ Honest)'
    BY <1>7, <1>10, <2>3 DEF Careful, Stopped, Signing, Opening
  <2>5. Sole /\ Quiet => (Clear(w) /\ Clean)'
    BY <1>8, <2>3 DEF Clear, Signing
  <2>6. verb' = [verb EXCEPT ![v] = w]
    BY <2>1, <2>2
  <2> QED BY <1>1, <1>4, <1>6, <2>3, <2>4, <2>5, <2>6, VerbMoves
<1> QED BY <1>1, <1>9, <1>10

\* What one prompt's hook does.
LEMMA ReaderMoves ==
  ASSUME LedgerInv, NEW r \in Readers, NEW m \in Prompts, reader' = [reader EXCEPT ![r] = m],
         UNCHANGED <<disk, key, verb, killedLearn, foreign, standing, mixed>>,
         Sole => Fair(m), Sole /\ Quiet => Calmly(m)
  PROVE  LedgerInv'
<1>1. reader'[r] = m /\ \A q \in Readers \ {r} : reader'[q] = reader[q]
  BY DEF LedgerInv, LedgerType
<1>2. LedgerType'
  BY DEF LedgerInv, LedgerType
<1>3. Sole => Sole'
  <2> SUFFICES ASSUME Sole PROVE Sole'
    OBVIOUS
  <2>1. ASSUME NEW q \in Readers PROVE Fair(reader[q])'
    <3>1. Fair(reader'[q])
      BY <1>1 DEF Sole
    <3> QED BY <3>1 DEF Fair
  <2>2. \A v \in Verbs : Careful(verb[v])'
    BY DEF Sole, Careful
  <2> QED BY <2>1, <2>2 DEF Sole, OneVerb, Ln!Live, Honest
<1>4. Sole /\ Quiet => Quiet'
  <2> SUFFICES ASSUME Sole, Quiet PROVE Quiet'
    OBVIOUS
  <2>1. ASSUME NEW q \in Readers PROVE Calmly(reader[q])'
    <3>1. Calmly(reader'[q])
      BY <1>1 DEF Quiet
    <3> QED BY <3>1 DEF Calmly, Ln!Calm, Ln!Live
  <2>2. \A v \in Verbs : Clear(verb[v])'
    BY DEF Quiet, Clear
  <2> QED BY <2>1, <2>2 DEF Quiet, Clean, Ln!Checks, Ln!Sign
<1> QED BY <1>2, <1>3, <1>4 DEF LedgerInv, Disturbed

\* Where no verb is at work, the files match their manifest.
LEMMA CleanCalm ==
  ASSUME Quiet, Ln!Calm
  PROVE  Clean
<1>1. \A v \in Verbs : ~Begun(verb[v])
  BY DEF Ln!Calm, Ln!Live, Begun, Signing
<1> QED BY <1>1 DEF Quiet

LEMMA PromptStep ==
  ASSUME LedgerInv, NEW r \in Readers, Ln!Prompt(r)
  PROVE  LedgerInv'
<1> DEFINE next == IF disk.active = Absent THEN "nothing" ELSE IF key = "none" THEN "unchecked" ELSE "sum"
           calm == Ln!Calm
<1>1. /\ reader[r] \in Prompts /\ reader[r].at = "idle" /\ key \in Keys /\ standing \subseteq Lessons
      /\ UNCHANGED <<disk, key, verb, killedLearn, foreign, standing, mixed>>
  BY DEF LedgerInv, LedgerType, Ln!Prompt, Ln!history
<1>2. reader' = [reader EXCEPT ![r] =
                   [reader[r] EXCEPT !.key = key, !.could = standing, !.calm = calm, !.at = next]]
  BY DEF Ln!Prompt
<1>3. calm \in BOOLEAN /\ (calm => Ln!Calm)
  BY DEF Ln!Calm
<1>4. /\ next \in {"nothing", "unchecked", "sum"}
      /\ next = "sum" => key # "none" /\ disk.active # Absent
      /\ next = "unchecked" => disk.active # Absent /\ key = "none"
  OBVIOUS
<1> HIDE DEF next, calm
<1>5. PICK m : m = [reader[r] EXCEPT !.key = key, !.could = standing, !.calm = calm, !.at = next]
  OBVIOUS
<1>6. /\ m \in Prompts /\ m.at = next /\ m.key = key /\ m.could = standing /\ m.calm = calm
      /\ m.gave = reader[r].gave
  BY <1>1, <1>3, <1>4, <1>5 DEF Prompts, Reading
<1>7. Sole => reader[r].gave = {}
  BY <1>1 DEF Sole, Fair
<1>8. Sole => Fair(m)
  BY <1>4, <1>6, <1>7 DEF Fair
<1>9. Sole /\ Quiet => Calmly(m)
  <2> SUFFICES ASSUME Quiet PROVE Calmly(m)
    OBVIOUS
  <2>1. next = "unchecked" => ~calm
    BY <1>3, <1>4, CleanCalm, NoFilesFacts DEF Clean, Ln!Checks
  <2> QED BY <1>3, <1>4, <1>6, <2>1 DEF Calmly, Reading
<1>10. reader' = [reader EXCEPT ![r] = m]
  BY <1>2, <1>5
<1> QED BY <1>1, <1>6, <1>8, <1>9, <1>10, ReaderMoves

LEMMA ReadForPromptStep ==
  ASSUME LedgerInv, NEW r \in Readers, Ln!ReadForPrompt(r)
  PROVE  LedgerInv'
<1>1. /\ reader[r] \in Prompts /\ reader[r].at \in {"sum", "lessons", "active"} /\ disk \in Shelf
      /\ reader[r].got \in Shelf /\ reader \in [Readers -> Prompts] /\ reader[r].calm \in BOOLEAN
      /\ UNCHANGED <<disk, key, verb, killedLearn, foreign, standing, mixed>>
  BY DEF LedgerInv, LedgerType, Ln!ReadForPrompt, Ln!history, Prompts
<1>2. ASSUME NEW m \in Prompts, reader' = [reader EXCEPT ![r] = m],
             m.gave = reader[r].gave, m.could = reader[r].could, m.calm = reader[r].calm,
             m.key = reader[r].key, m.at \in {"lessons", "active", "match"},
             \/ reader[r].at = "sum" /\ m.at = "lessons" /\ m.got.sum = disk.sum
             \/ /\ reader[r].at = "lessons" /\ m.at = "active" /\ m.got.sum = reader[r].got.sum
                /\ m.got.lessons = disk.lessons
             \/ /\ reader[r].at = "active" /\ m.at = "match" /\ m.got.sum = reader[r].got.sum
                /\ m.got.lessons = reader[r].got.lessons /\ m.got.active = disk.active
      PROVE  LedgerInv'
  <2>1. Sole => Fair(m)
    <3> SUFFICES ASSUME Sole PROVE Fair(m)
      OBVIOUS
    <3>1. Fair(reader[r]) /\ Honest
      BY DEF Sole
    <3> QED BY <1>1, <1>2, <3>1 DEF Fair, Honest
  <2>2. Sole /\ Quiet => Calmly(m)
    <3> SUFFICES ASSUME Quiet PROVE Calmly(m)
      OBVIOUS
    <3>1. Calmly(reader[r])
      BY DEF Quiet
    <3> QED BY <1>1, <1>2, <3>1 DEF Calmly, Reading
  <2> QED BY <1>1, <1>2, <2>1, <2>2, ReaderMoves
<1>3. CASE reader[r].at = "sum"
  <2>1. PICK m : m = [reader[r] EXCEPT !.got.sum = disk.sum, !.at = "lessons"]
    OBVIOUS
  <2>2. reader' = [reader EXCEPT ![r] = m]
    BY <1>1, <1>3, <2>1 DEF Ln!ReadForPrompt
  <2>3. /\ m \in Prompts /\ m.at = "lessons" /\ m.got.sum = disk.sum /\ m.gave = reader[r].gave
        /\ m.could = reader[r].could /\ m.calm = reader[r].calm /\ m.key = reader[r].key
    BY <1>1, <2>1 DEF Prompts, Shelf, Reading
  <2> QED BY <1>2, <1>3, <2>2, <2>3
<1>4. CASE reader[r].at = "lessons"
  <2>1. PICK m : m = [reader[r] EXCEPT !.got.lessons = disk.lessons, !.at = "active"]
    OBVIOUS
  <2>2. reader' = [reader EXCEPT ![r] = m]
    BY <1>1, <1>4, <2>1 DEF Ln!ReadForPrompt
  <2>3. /\ m \in Prompts /\ m.at = "active" /\ m.got.lessons = disk.lessons
        /\ m.got.sum = reader[r].got.sum /\ m.gave = reader[r].gave
        /\ m.could = reader[r].could /\ m.calm = reader[r].calm /\ m.key = reader[r].key
    BY <1>1, <2>1 DEF Prompts, Shelf, Reading
  <2> QED BY <1>2, <1>4, <2>2, <2>3
<1>5. CASE reader[r].at = "active"
  <2>1. PICK m : m = [reader[r] EXCEPT !.got.active = disk.active, !.at = "match"]
    OBVIOUS
  <2>2. reader' = [reader EXCEPT ![r] = m]
    BY <1>1, <1>5, <2>1 DEF Ln!ReadForPrompt
  <2>3. /\ m \in Prompts /\ m.at = "match" /\ m.got.active = disk.active
        /\ m.got.lessons = reader[r].got.lessons /\ m.got.sum = reader[r].got.sum
        /\ m.gave = reader[r].gave /\ m.could = reader[r].could /\ m.calm = reader[r].calm
        /\ m.key = reader[r].key
    BY <1>1, <2>1 DEF Prompts, Shelf, Reading
  <2> QED BY <1>2, <1>5, <2>2, <2>3
<1> QED BY <1>1, <1>3, <1>4, <1>5

LEMMA MatchStep ==
  ASSUME LedgerFiles, LedgerInv, NEW r \in Readers, Ln!Match(r)
  PROVE  LedgerInv'
<1> DEFINE me == reader[r]
           given == Ln!Given(me.got.active)
           calm == Ln!Calm
<1>1. /\ me \in Prompts /\ me.at = "match" /\ me.got \in Shelf /\ me.key \in Keys /\ disk \in Shelf
      /\ me.calm \in BOOLEAN
      /\ UNCHANGED <<disk, key, verb, killedLearn, foreign, standing, mixed>>
  BY DEF LedgerInv, LedgerType, Ln!Match, Ln!history, Prompts
<1>2. Sole => /\ me.gave \subseteq me.could /\ standing \subseteq me.could
              /\ me.got.sum # Absent => Ln!Given(me.got.sum.active) \subseteq me.could
  BY <1>1 DEF Sole, Fair
<1>3. Sole /\ Quiet =>
        /\ me.key = key /\ key # "none" /\ disk.active # Absent
        /\ me.calm => Ln!Calm /\ me.got.sum = disk.sum /\ me.got.lessons = disk.lessons
                      /\ me.got.active = disk.active
  BY <1>1 DEF Quiet, Calmly, Reading
<1>4. given \in SUBSET Lessons
  BY <1>1 DEF Ln!Given, Shelf, Actives
<1>5. calm \in BOOLEAN /\ (calm => Ln!Calm)
  BY DEF Ln!Calm
<1>6. CASE Ln!Checks(me.key, me.got)
  <2>1. reader' = [reader EXCEPT ![r] = [me EXCEPT !.at = "given", !.got = Ln!NoFiles, !.gave = given]]
    BY <1>6 DEF Ln!Match
  <2>2. Sole => given \subseteq me.could
    <3>1. me.got.sum \in Manifests /\ me.got.sum.active = me.got.active
      BY <1>1, <1>6 DEF Ln!Checks, Ln!Sign, Shelf, Manifests
    <3> QED BY <1>2, <3>1 DEF LedgerFiles
  <2> HIDE DEF given
  <2>3. PICK m : m = [me EXCEPT !.at = "given", !.got = Ln!NoFiles, !.gave = given]
    OBVIOUS
  <2>4. m \in Prompts /\ m.at = "given" /\ m.gave = given /\ m.could = me.could
    BY <1>1, <1>4, <2>3, NoFilesFacts DEF Prompts
  <2>5. reader' = [reader EXCEPT ![r] = m]
    BY <2>1, <2>3
  <2>6. (Sole => Fair(m)) /\ Calmly(m)
    BY <1>2, <2>2, <2>4 DEF Fair, Calmly, Reading
  <2> QED BY <1>1, <2>4, <2>5, <2>6, ReaderMoves
<1>7. CASE ~Ln!Checks(me.key, me.got) /\ me.try = 2
  <2>1. reader' = [reader EXCEPT ![r] = [me EXCEPT !.at = "unchecked", !.got = Ln!NoFiles]]
    BY <1>7 DEF Ln!Match
  <2>2. PICK m : m = [me EXCEPT !.at = "unchecked", !.got = Ln!NoFiles]
    OBVIOUS
  <2>3. /\ m \in Prompts /\ m.at = "unchecked" /\ m.gave = me.gave /\ m.could = me.could
        /\ m.calm = me.calm
    BY <1>1, <2>2, NoFilesFacts DEF Prompts
  <2>4. Sole => Fair(m)
    BY <1>2, <2>3 DEF Fair
  <2>5. Sole /\ Quiet => ~me.calm
    <3> SUFFICES ASSUME Sole, Quiet, me.calm PROVE FALSE
      OBVIOUS
    <3>1. me.got = disk /\ me.key = key
      BY <1>1, <1>3, SameShelf
    <3>2. Ln!Checks(key, disk)
      BY <1>3, CleanCalm, NoFilesFacts DEF Clean
    <3> QED BY <1>7, <3>1, <3>2
  <2>6. Sole /\ Quiet => Calmly(m)
    BY <2>3, <2>5 DEF Calmly, Reading
  <2>7. reader' = [reader EXCEPT ![r] = m]
    BY <2>1, <2>2
  <2> QED BY <1>1, <2>3, <2>4, <2>6, <2>7, ReaderMoves
<1>8. CASE ~Ln!Checks(me.key, me.got) /\ me.try # 2
  <2>1. reader' = [reader EXCEPT ![r] =
                     [me EXCEPT !.at = "sum", !.got = Ln!NoFiles, !.try = 2, !.calm = calm]]
    BY <1>8 DEF Ln!Match
  <2> HIDE DEF calm
  <2>2. PICK m : m = [me EXCEPT !.at = "sum", !.got = Ln!NoFiles, !.try = 2, !.calm = calm]
    OBVIOUS
  <2>3. /\ m \in Prompts /\ m.at = "sum" /\ m.gave = me.gave /\ m.could = me.could
        /\ m.calm = calm /\ m.key = me.key
    BY <1>1, <1>5, <2>2, NoFilesFacts DEF Prompts, Reading
  <2>4. Sole => Fair(m)
    BY <1>2, <2>3 DEF Fair
  <2>5. Sole /\ Quiet => Calmly(m)
    BY <1>3, <1>5, <2>3 DEF Calmly
  <2>6. reader' = [reader EXCEPT ![r] = m]
    BY <2>1, <2>2
  <2> QED BY <1>1, <2>3, <2>4, <2>5, <2>6, ReaderMoves
<1> QED BY <1>6, <1>7, <1>8

LEMMA ElsewhereStep ==
  ASSUME LedgerInv, Ln!ReplaceElsewhere
  PROVE  LedgerInv'
<1>1. /\ LedgerType /\ UNCHANGED <<key, verb, reader, killedLearn, standing>>
      /\ foreign' = foreign + 1 /\ mixed' \in BOOLEAN /\ (~mixed' => ~mixed /\ Ln!Calm)
  BY DEF LedgerInv, LedgerType, Ln!ReplaceElsewhere
<1>2. disk' \in Shelf /\ disk'.sum = disk.sum
  <2> DEFINE all == [l \in Lessons |-> "approved"]
             given == [quarantined |-> FALSE, rows |-> Lessons]
  <2>1. all \in Ln!Tiers /\ given \in Actives
    BY DEF Ln!Tiers, Actives
  <2>2. disk' = [disk EXCEPT !.lessons = all] \/ disk' = [disk EXCEPT !.active = given]
    BY DEF Ln!ReplaceElsewhere, Ln!Files
  <2> HIDE DEF all, given
  <2> QED BY <1>1, <2>1, <2>2 DEF LedgerType, Shelf
<1>3. LedgerType' /\ Disturbed'
  BY <1>1, <1>2 DEF LedgerType, Disturbed
<1>4. ASSUME ~mixed' PROVE Sole'
  <2>1. Sole
    BY <1>1, <1>4 DEF LedgerInv
  <2>2. ASSUME NEW v \in Verbs PROVE Careful(verb[v])'
    <3>1. verb[v].at \in Stopped /\ Careful(verb[v])
      BY <1>1, <1>4, <2>1 DEF Sole, Ln!Calm, Ln!Live, Stopped
    <3> QED BY <1>1, <3>1 DEF Careful, Stopped, Signing, Opening
  <2>3. ASSUME NEW r \in Readers PROVE Fair(reader[r])'
    BY <1>1, <2>1 DEF Sole, Fair
  <2> QED BY <1>1, <1>2, <2>1, <2>2, <2>3 DEF Sole, OneVerb, Ln!Live, Honest
<1> QED BY <1>3, <1>4 DEF LedgerInv

LEMMA LedgerStep ==
  ASSUME LedgerFiles, LedgerInv, [Ln!Next]_learnVars
  PROVE  LedgerInv'
<1>1. CASE UNCHANGED learnVars
  <2>1. LedgerType'
    BY <1>1 DEF learnVars, LedgerInv, LedgerType
  <2>2. Sole => Sole'
    BY <1>1 DEF learnVars, Sole, OneVerb, Ln!Live, Honest, Careful, Fair
  <2>3. Quiet => Quiet'
    BY <1>1 DEF learnVars, Quiet, Clear, Clean, Ln!Checks, Ln!Sign, Calmly, Ln!Calm, Ln!Live
  <2> QED BY <1>1, <2>1, <2>2, <2>3 DEF learnVars, LedgerInv, Disturbed
<1> QED
  BY <1>1, StartStep, ReadFileStep, CheckStep, EndStep, AskStep, KeyStep, ReplaceStep, SignStep,
     PromptStep, ReadForPromptStep, MatchStep, ElsewhereStep DEF Ln!Next

LEMMA LedgerInit ==
  ASSUME LedgerFiles, Ln!Init
  PROVE  LedgerInv
<1> DEFINE i == Ln!Idle
           m == [at |-> "idle", try |-> 1, got |-> Ln!NoFiles, key |-> "none",
                 gave |-> {}, could |-> {}, calm |-> TRUE]
<1>1. /\ i \in Runs /\ i.at = "idle" /\ i.tiers = Ln!NoLessons /\ i.drops = {} /\ i.rest = {}
      /\ i.opened = FALSE /\ i.flagged = FALSE
  BY NobodyApproved, NoFilesFacts DEF Ln!Idle, Runs, Stopped, Keys
<1>2. m \in Prompts /\ m.at = "idle" /\ m.gave = {}
  BY NoFilesFacts DEF Prompts, Keys
<1>3. verb = [v \in Verbs |-> i] /\ reader = [r \in Readers |-> m]
  BY DEF Ln!Init
<1> HIDE DEF i, m
<1>4. /\ verb \in [Verbs -> Runs] /\ reader \in [Readers -> Prompts]
      /\ (\A v \in Verbs : verb[v] = i) /\ \A r \in Readers : reader[r] = m
  BY <1>1, <1>2, <1>3
<1>5. disk \in Shelf /\ key \in Keys /\ standing \subseteq Lessons /\ Honest /\ Clean
  <2>1. CASE disk = Ln!NoFiles /\ key = "none" /\ standing = {}
    BY <2>1, NoFilesFacts DEF Keys, Honest, Clean
  <2>2. ASSUME NEW tiers \in Ln!Tiers, key = "first", standing = Ln!Approved(tiers),
               LET active == [quarantined |-> FALSE, rows |-> Ln!Approved(tiers)]
                   files == [Ln!NoFiles EXCEPT !.lessons = tiers, !.active = active]
               IN disk = [files EXCEPT !.sum = Ln!Sign("first", files)]
        PROVE  disk \in Shelf /\ key \in Keys /\ standing \subseteq Lessons /\ Honest /\ Clean
    <3> DEFINE active == [quarantined |-> FALSE, rows |-> Ln!Approved(tiers)]
               files == [Ln!NoFiles EXCEPT !.lessons = tiers, !.active = active]
               s == Ln!Sign("first", files)
    <3>1. active \in Actives /\ Ln!Given(active) \subseteq Ln!Approved(tiers)
      BY DEF Actives, Ln!Approved, Ln!Given
    <3>2. disk = [files EXCEPT !.sum = s]
      BY <2>2
    <3> HIDE DEF active
    <3>3. files \in Shelf /\ files.lessons = tiers /\ files.active = active
      <4>1. Ln!NoFiles \in Shelf
        BY NoFilesFacts
      <4> QED BY <2>2, <3>1, <4>1 DEF Shelf
    <3> HIDE DEF files
    <3>4. s \in Manifests /\ s = [key |-> "first", lessons |-> tiers, active |-> active]
      BY <2>2, <3>1, <3>3 DEF Ln!Sign, Manifests, Keys
    <3> HIDE DEF s
    <3>5. disk \in Shelf /\ disk.lessons = tiers /\ disk.active = active /\ disk.sum = s
      BY <3>2, <3>3, <3>4 DEF Shelf
    <3>6. Ln!Checks(key, disk)
      BY <2>2, <3>4, <3>5 DEF Ln!Checks, Ln!Sign
    <3>7. standing \subseteq Lessons
      BY <2>2 DEF Ln!Approved
    <3> QED BY <2>2, <3>1, <3>4, <3>5, <3>6, <3>7 DEF Keys, Honest, Clean
  <2> QED BY <2>1, <2>2 DEF Ln!Init
<1>6. LedgerType
  BY <1>4, <1>5 DEF LedgerType, Ln!Init
<1>7. Sole
  <2>1. Careful(i)
    BY <1>1, NobodyApproved DEF Careful, Signing, Opening
  <2>2. Fair(m)
    BY <1>2 DEF Fair
  <2> QED BY <1>1, <1>4, <1>5, <2>1, <2>2 DEF Sole, OneVerb, Ln!Live
<1>8. Quiet
  <2>1. Clear(i)
    BY <1>1 DEF Clear, Signing
  <2>2. Calmly(m)
    BY <1>2 DEF Calmly, Reading
  <2> QED BY <1>4, <1>5, <2>1, <2>2 DEF Quiet
<1> QED BY <1>6, <1>7, <1>8 DEF LedgerInv

\* With one verb at a time, for any verbs, prompts, lessons, kills and files replaced
\* by other programs: a lesson reaches a prompt only while a person's approval of it
\* stands. What a manifest signs was read back and is what the verb wrote, and a
\* prompt gives only what a manifest signs (Open, Save, ReadActive).
THEOREM OnlyApprovedEverArrives ==
  ASSUME LedgerFiles
  PROVE  MCSpec => []OnlyApprovedArrives
<1>1. MCInit => LedgerInv
  BY LedgerInit DEF MCInit
<1>2. LedgerInv /\ [MCNext]_allVars => LedgerInv'
  BY LedgerStep, PartStep
<1>3. LedgerInv => OnlyApprovedArrives
  <2> SUFFICES ASSUME LedgerInv, ~mixed
               PROVE  Ln!Reaches \subseteq standing /\ \A r \in Readers : reader[r].gave \subseteq reader[r].could
    BY DEF OnlyApprovedArrives, Ln!OnlyApprovedArrives
  <2>1. LedgerType /\ Sole
    BY DEF LedgerInv
  <2>2. ASSUME Ln!Checks(key, disk) PROVE Ln!Given(disk.active) \subseteq standing
    <3>1. disk.sum \in Manifests /\ disk.sum.active = disk.active
      BY <2>1, <2>2 DEF Ln!Checks, Ln!Sign, LedgerType, Shelf, Manifests
    <3> QED BY <2>1, <3>1 DEF Sole, Honest, LedgerFiles
  <2>3. Ln!Reaches \subseteq standing
    BY <2>2 DEF Ln!Reaches
  <2> QED BY <2>1, <2>3 DEF Sole, Fair
<1> QED BY <1>1, <1>2, <1>3, PTL DEF MCSpec, allVars

\* A quarantine, or the notice that lessons are withheld because their signature
\* does not check, comes to nobody whose files no other program replaced, as long as
\* no verb was killed and no two overlapped (Ledger.Quarantined, UncheckedSignature).
THEOREM AlarmStaysReal ==
  ASSUME LedgerFiles
  PROVE  MCSpec => []AlarmIsReal
<1>1. MCInit => LedgerInv
  BY LedgerInit DEF MCInit
<1>2. LedgerInv /\ [MCNext]_allVars => LedgerInv'
  BY LedgerStep, PartStep
<1>3. LedgerInv => AlarmIsReal
  BY DEF LedgerInv, LedgerType, Disturbed, Quiet, Clear, Calmly, AlarmIsReal, Ln!AlarmIsReal
<1> QED BY <1>1, <1>2, <1>3, PTL DEF MCSpec, allVars

=============================================================================
