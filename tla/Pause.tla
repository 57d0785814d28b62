------------------------------- MODULE Pause --------------------------------
(***************************************************************************)
(* Pausing and resuming the recording of a machine (internal/store         *)
(* pause.go, cmd/rashomon cmdPause, cmdResume, checkPaused): a marker that *)
(* every hook looks for, and the gap records that tell what it hid.  A     *)
(* pause writes the marker and then a gap of no width; a resume removes    *)
(* the marker and then writes the gap of the whole window.  Commands of    *)
(* two terminals may overlap, and each may be killed anywhere.             *)
(***************************************************************************)
EXTENDS Integers, Sequences

CONSTANTS
  Commands,   \* runs of pause or resume
  Times,      \* bound: the instants, 1 to the last
  Absent,     \* a marker that does not exist
  Unreadable, \* a marker that is there, and tells no time
  Overlap,    \* bound: may a command start while another runs
  MaxFaults   \* bound: commands killed and markers spoiled

VARIABLES
  clock,    \* the time, in milliseconds
  marker,   \* the instant the marker holds, Unreadable, or Absent
  store,    \* whether there is a store to write a gap into
  gaps,     \* the gap records of the two commands, [from, to], in order
  cmd,      \* where each command is, and what it read
  hidden,   \* history: when calls were not recorded, since the marker was made
  opened,   \* history: whether the gap of the pause in force is written
  faults    \* how many faults there have been

vars == <<clock, marker, store, gaps, cmd, hidden, opened, faults>>

Gap(from, to) == [from |-> from, to |-> to]

TypeOK ==
  /\ clock \in Times /\ store \in BOOLEAN /\ opened \in BOOLEAN
  /\ marker \in Times \cup {Unreadable, Absent}
  /\ \A i \in DOMAIN gaps : gaps[i].from \in Times /\ gaps[i].to \in Times
  /\ \A k \in Commands :
       cmd[k].at \in {"idle", "mark", "cut", "open", "remove", "close", "paused", "resumed", "nothing", "killed"}
  /\ hidden \subseteq Times /\ faults \in 0..MaxFaults

Init ==
  /\ clock = 1 /\ marker = Absent /\ store \in BOOLEAN /\ gaps = <<>>
  /\ cmd = [k \in Commands |-> [at |-> "idle", now |-> 1, since |-> 1, owes |-> {}, blind |-> FALSE]]
  /\ hidden = {} /\ opened = FALSE /\ faults = 0

At(k, where) == cmd[k].at = where
Goto(k, where) == cmd' = [cmd EXCEPT ![k].at = where]

Tick ==
  /\ clock + 1 \in Times
  /\ clock' = clock + 1
  /\ UNCHANGED <<marker, store, gaps, cmd, hidden, opened, faults>>

\* watch makes a store, paused or not.
MakeStore ==
  /\ ~store /\ store' = TRUE
  /\ UNCHANGED <<clock, marker, gaps, cmd, hidden, opened, faults>>

\* checkPaused: a marker that is there stops the call's records, whatever it
\* holds.
Call ==
  /\ marker # Absent
  /\ hidden' = hidden \cup {clock}
  /\ UNCHANGED <<clock, marker, store, gaps, cmd, opened, faults>>

MayStart(k) ==
  /\ At(k, "idle")
  /\ Overlap \/ \A j \in Commands : cmd[j].at \notin {"mark", "cut", "open", "remove", "close"}

\* A command takes the time before it looks at the marker.
StartPause(k) ==
  /\ MayStart(k)
  /\ cmd' = [cmd EXCEPT ![k].now = clock, ![k].at = IF marker = Absent THEN "mark" ELSE "nothing"]
  /\ UNCHANGED <<clock, marker, store, gaps, hidden, opened, faults>>

\* writeSmall, which empties the marker and then fills it.
EmptyMarker(k) ==
  /\ At(k, "mark")
  /\ marker' = Unreadable
  /\ Goto(k, "cut")
  /\ UNCHANGED <<clock, store, gaps, hidden, opened, faults>>

\* What is written may go to a marker that a resume has removed.
WriteMarker(k) ==
  /\ At(k, "cut")
  /\ marker' = IF marker = Absent THEN Absent ELSE cmd[k].now
  /\ Goto(k, "open")
  /\ UNCHANGED <<clock, store, gaps, hidden, opened, faults>>

\* The gap of no width, where a store exists.
OpenGap(k) ==
  /\ At(k, "open")
  /\ gaps' = IF store THEN Append(gaps, Gap(cmd[k].now, cmd[k].now)) ELSE gaps
  /\ opened' = (opened \/ (store /\ marker # Absent))
  /\ Goto(k, "paused")
  /\ UNCHANGED <<clock, marker, store, hidden, faults>>

StartResume(k) ==
  /\ MayStart(k)
  /\ cmd' = [cmd EXCEPT ![k].now = clock, ![k].since = IF marker \in Times THEN marker ELSE clock,
                        ![k].blind = marker = Unreadable /\ ~opened,
                        ![k].at = IF marker = Absent THEN "nothing" ELSE "remove"]
  /\ UNCHANGED <<clock, marker, store, gaps, hidden, opened, faults>>

\* A marker that another resume has removed is no error.
RemoveMarker(k) ==
  /\ At(k, "remove")
  /\ marker' = Absent
  /\ cmd' = [cmd EXCEPT ![k].at = "close", ![k].owes = {t \in hidden : t <= cmd[k].now}]
  /\ hidden' = {} /\ opened' = FALSE
  /\ UNCHANGED <<clock, store, gaps, faults>>

\* (broken: only the marker says when the pause began)
StartOfMarker(since) == since

\* earlierPauseStart: the last gap, if it has no width, may know better.
EarlierPauseStart(since) ==
  LET last == gaps[Len(gaps)] IN
  IF gaps # <<>> /\ last.from = last.to /\ last.from < since THEN last.from ELSE since

CloseGap(k) ==
  /\ At(k, "close")
  /\ gaps' = IF store THEN Append(gaps, Gap(EarlierPauseStart(cmd[k].since), cmd[k].now)) ELSE gaps
  /\ cmd' = [cmd EXCEPT ![k].at = "resumed", ![k].owes = IF store THEN @ ELSE {}]
  /\ UNCHANGED <<clock, marker, store, hidden, opened, faults>>

Fault == faults < MaxFaults /\ faults' = faults + 1

\* A kill, or a gap that cannot be written.
Kill(k) ==
  /\ cmd[k].at \in {"mark", "cut", "open", "remove", "close"} /\ Fault
  /\ Goto(k, "killed")
  /\ UNCHANGED <<clock, marker, store, gaps, hidden, opened>>

\* The marker's content is lost, or it can no longer be read.
Spoil ==
  /\ marker \in Times /\ Fault
  /\ marker' = Unreadable
  /\ UNCHANGED <<clock, store, gaps, cmd, hidden, opened>>

Next ==
  \/ Tick \/ MakeStore \/ Call \/ Spoil
  \/ \E k \in Commands :
       \/ StartPause(k) \/ EmptyMarker(k) \/ WriteMarker(k) \/ OpenGap(k)
       \/ StartResume(k) \/ RemoveMarker(k) \/ CloseGap(k) \/ Kill(k)

Spec == Init /\ [][Next]_vars

-----------------------------------------------------------------------------
\* Every call that a pause hid before the resume that ended it began lies in a
\* gap once that resume returns, whatever was killed before and however the
\* marker reads, unless neither the marker nor the pause's own gap tells when
\* it began (cmdResume, earlierPauseStart).
HiddenCallsAreTold ==
  \A k \in Commands : At(k, "resumed") /\ ~cmd[k].blind =>
    \A t \in cmd[k].owes : \E i \in DOMAIN gaps : gaps[i].from <= t /\ t <= gaps[i].to

=============================================================================
