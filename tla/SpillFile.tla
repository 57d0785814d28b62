----------------------------- MODULE SpillFile -----------------------------
(***************************************************************************)
(* spill.ndjson, byte order and all: the one file of the store with a      *)
(* writer that takes no lock (internal/store store.go appendLine, tail.go).*)
(* A writer that holds the lock looks at the last byte and then writes; a  *)
(* writer whose patience ran out writes between a newline and a newline    *)
(* and looks at nothing. Either may be cut short in the middle of its      *)
(* write, by a kill or a full disk, and a spill append is never cut back.  *)
(***************************************************************************)
EXTENDS Integers, Sequences

CONSTANTS
  Writers,  \* hook processes with one record each to spill
  Nobody,   \* the holder of the file's lock when there is none
  Tearable  \* the appends that may be cut short: "locked", "lockless"

VARIABLES
  file,     \* newlines, whole records and the first halves of torn ones
  lock,     \* the writer holding the file's lock, or Nobody
  pc,       \* where each writer is
  size      \* the size of the file at the writer's stat

vars == <<file, lock, pc, size>>

Newline == <<Nobody, "newline">>
Whole(w) == <<w, "whole">>
Half(w) == <<w, "half">>

Marks == {Newline} \cup {Whole(w) : w \in Writers} \cup {Half(w) : w \in Writers}

TypeOK ==
  /\ file \in Seq(Marks)
  /\ lock \in Writers \cup {Nobody}
  /\ pc \in [Writers -> {"wait", "locked", "checked", "lockless", "done", "torn", "tornLockless"}]
  /\ size \in [Writers -> Nat]

\* A reader takes what lies between two newlines, or an end of the file, as
\* one line. The mark at i is a line of its own:
Alone(i) ==
  /\ i > 1 => file[i - 1] = Newline
  /\ i < Len(file) => file[i + 1] = Newline

\* The writer's record parses.
Reads(w) == \E i \in DOMAIN file : file[i] = Whole(w) /\ Alone(i)

\* Some line is not a record, and the reader counts it (Run.Skipped).
Skips ==
  \E i \in DOMAIN file :
    /\ file[i] # Newline
    /\ ~(Alone(i) /\ \E w \in Writers : file[i] = Whole(w))

-----------------------------------------------------------------------------
Init ==
  /\ file = <<>>
  /\ lock = Nobody
  /\ pc = [w \in Writers |-> "wait"]
  /\ size = [w \in Writers |-> 0]

TakeLock(w) ==
  /\ pc[w] = "wait"
  /\ lock = Nobody
  /\ lock' = w
  /\ pc' = [pc EXCEPT ![w] = "locked"]
  /\ UNCHANGED <<file, size>>

\* spillBudget runs out while another writer holds the lock.
GiveUp(w) ==
  /\ pc[w] = "wait"
  /\ lock # Nobody
  /\ pc' = [pc EXCEPT ![w] = "lockless"]
  /\ UNCHANGED <<file, lock, size>>

\* appendHealed's stat. The one pread after it is of the byte before size, which
\* no later append changes.
CheckTail(w) ==
  /\ pc[w] = "locked"
  /\ size' = [size EXCEPT ![w] = Len(file)]
  /\ pc' = [pc EXCEPT ![w] = "checked"]
  /\ UNCHANGED <<file, lock>>

\* (broken: no look at the last byte)
FoundClosed(w) == FALSE

\* The last line the writer saw lacks its newline.
FoundOpen(w) == size[w] > 0 /\ file[size[w]] # Newline

\* What precedes the record in the writer's one write.
Lead(w) ==
  IF pc[w] = "lockless" \/ FoundOpen(w) THEN <<Newline>> ELSE <<>>

Write(w) ==
  /\ pc[w] \in {"checked", "lockless"}
  /\ file' = file \o Lead(w) \o <<Whole(w), Newline>>
  /\ lock' = IF lock = w THEN Nobody ELSE lock
  /\ pc' = [pc EXCEPT ![w] = "done"]
  /\ UNCHANGED size

\* (broken: a failed locked write is cut back to the size it started from)
TearCutBack(w) ==
  /\ \/ pc[w] = "checked" /\ "locked" \in Tearable
     \/ pc[w] = "lockless" /\ "lockless" \in Tearable
  /\ file' = IF pc[w] = "checked" THEN SubSeq(file, 1, size[w]) ELSE file
  /\ lock' = IF lock = w THEN Nobody ELSE lock
  /\ pc' = [pc EXCEPT ![w] = IF @ = "checked" THEN "torn" ELSE "tornLockless"]
  /\ UNCHANGED size

\* The write is cut short: none of it, its leading newline, part of the
\* record, or all but the last newline reaches the file.
Tear(w) ==
  /\ \/ pc[w] = "checked" /\ "locked" \in Tearable
     \/ pc[w] = "lockless" /\ "lockless" \in Tearable
  /\ \E torn \in {<<>>, Lead(w), Lead(w) \o <<Half(w)>>, Lead(w) \o <<Whole(w)>>} :
       file' = file \o torn
  /\ lock' = IF lock = w THEN Nobody ELSE lock
  /\ pc' = [pc EXCEPT ![w] = IF @ = "checked" THEN "torn" ELSE "tornLockless"]
  /\ UNCHANGED size

Over ==
  /\ \A w \in Writers : pc[w] \in {"done", "torn", "tornLockless"}
  /\ UNCHANGED vars

Next ==
  \/ \E w \in Writers : TakeLock(w) \/ GiveUp(w) \/ CheckTail(w) \/ Write(w) \/ Tear(w)
  \/ Over

Spec == Init /\ [][Next]_vars

-----------------------------------------------------------------------------
\* A lockless append was cut short: it may have left its fragment between a
\* locked writer's look at the last byte and its write.
Unseen == \E w \in Writers : pc[w] = "tornLockless"

\* A record whose append returned without an error reads back on a line of its
\* own, whatever fragment it found at the end of the file and whatever is
\* written after it: "the record after it reads intact" (tail.go). The one
\* fragment no writer is sure to see is a lockless append's.
SpilledRecordReads == ~Unseen => \A w \in Writers : pc[w] = "done" => Reads(w)

\* A record whose append returned without an error and that does not read back
\* is told by a line the reader skips (records_unreadable), lockless fragments
\* included: the loss is never silent, because a spill append is not cut back.
LossIsTold == \A w \in Writers : pc[w] = "done" /\ ~Reads(w) => Skips

=============================================================================
