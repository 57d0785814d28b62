---------------------------- MODULE MCRetention -----------------------------
(***************************************************************************)
(* Three ways records leave a store, or fail to reach it, on instances of  *)
(* their own: a run forgotten while its session goes on (Forget), a run    *)
(* evicted while its session wakes up (Eviction), and the spill file       *)
(* byte by byte (SpillFile).  A behaviour is one of one part; the others   *)
(* keep their first state.                                                 *)
(***************************************************************************)
EXTENDS Forget, Sequences, TLC

CONSTANTS Hooks, Evictors, Old, MaxFiles, Writers, Tearable

VARIABLES
  part,                                                  \* "forget", "evict" or "spill"
  dir, path, seq, lines, lock, fresh, pc, handle, num,   \* Eviction's
  gapLock, ev, listed, read, evGaps, late,
  bytes, bytesLock, writer, size                         \* SpillFile's

Ev == INSTANCE Eviction WITH gaps <- evGaps
Sp == INSTANCE SpillFile WITH file <- bytes, lock <- bytesLock, pc <- writer

evictVars == <<dir, path, seq, lines, lock, fresh, pc, handle, num, gapLock, ev, listed, read, evGaps, late>>
spillVars == <<bytes, bytesLock, writer, size>>

\* A forget meets every window and every start; the other parts, one of them.
MCInit ==
  /\ part \in {"forget", "evict", "spill"}
  /\ Init /\ (part # "forget" => window = {} /\ records = {} /\ spill = None)
  /\ Ev!Init /\ Sp!Init

InForget == part = "forget" /\ UNCHANGED <<part, evictVars, spillVars>>
InEvict == part = "evict" /\ UNCHANGED <<part, vars, spillVars>>
InSpill == part = "spill" /\ UNCHANGED <<part, vars, evictVars>>

MCNext ==
  \/ InForget /\ \E l \in Lines : HookLock(l)
  \/ InForget /\ \E l \in Lines : HookAppend(l)
  \/ InForget /\ \E l \in Lines : HookSpillLock(l)
  \/ InForget /\ \E l \in Lines : HookSpill(l)
  \/ InForget /\ \E f \in Forgets : LockRecords(f)
  \/ InForget /\ \E f \in Forgets : ReadRecords(f)
  \/ InForget /\ \E f \in Forgets : ReadSpill(f)
  \/ InForget /\ \E f \in Forgets : WriteGap(f)
  \/ InForget /\ \E f \in Forgets : RewriteRecords(f)
  \/ InForget /\ \E f \in Forgets : LockSpill(f)
  \/ InForget /\ \E f \in Forgets : Reread(f)
  \/ InForget /\ \E f \in Forgets : RewriteSpill(f)
  \/ InForget /\ \E f \in Forgets : Kill(f)
  \/ InForget /\ Over
  \/ InEvict /\ \E h \in Hooks : Ev!MakeDir(h)
  \/ InEvict /\ \E h \in Hooks : Ev!OpenRecords(h)
  \/ InEvict /\ \E h \in Hooks : Ev!OpenSpill(h)
  \/ InEvict /\ \E h \in Hooks : Ev!TakeLock(h)
  \/ InEvict /\ \E h \in Hooks : Ev!ReadSeq(h)
  \/ InEvict /\ \E h \in Hooks : Ev!WriteSeq(h)
  \/ InEvict /\ \E h \in Hooks : Ev!AppendRecord(h)
  \/ InEvict /\ \E h \in Hooks : Ev!Spill(h)
  \/ InEvict /\ \E e \in Evictors : Ev!TakeGaps(e)
  \/ InEvict /\ \E e \in Evictors : Ev!Plan(e)
  \/ InEvict /\ \E e \in Evictors : Ev!WriteGap(e)
  \/ InEvict /\ \E e \in Evictors : Ev!List(e)
  \/ InEvict /\ \E e \in Evictors : Ev!Unlink(e)
  \/ InEvict /\ \E e \in Evictors : Ev!Rmdir(e)
  \/ InEvict /\ \E e \in Evictors : Ev!Kill(e)
  \/ InEvict /\ Ev!Over
  \/ InSpill /\ \E w \in Writers : Sp!TakeLock(w)
  \/ InSpill /\ \E w \in Writers : Sp!GiveUp(w)
  \/ InSpill /\ \E w \in Writers : Sp!CheckTail(w)
  \/ InSpill /\ \E w \in Writers : Sp!Write(w)
  \/ InSpill /\ \E w \in Writers : Sp!Tear(w)
  \/ InSpill /\ Sp!Over

MCSpec == MCInit /\ [][MCNext]_<<part, vars, evictVars, spillVars>>

\* The forgets' calls and commands are alike; the other parts are small.
Symmetry == Permutations(Calls) \cup Permutations(Forgets)

-----------------------------------------------------------------------------
\* The types of the two instances (Eviction.TypeOK, SpillFile.TypeOK).
PartTypes == (part = "evict" => Ev!TypeOK) /\ (part = "spill" => Sp!TypeOK)

\* No record that landed is lost but after a gap, and the gap counts those that
\* were there when it was drawn up (Eviction.LossIsAdmitted; evict.go Evict).
LossIsAdmitted == part = "evict" => Ev!LossIsAdmitted

\* Two evictors do not count a record twice, unless one of them was killed or
\* could not finish (Eviction.CountedOnce; evict.go Evict).
EvictedOnce == part = "evict" => Ev!CountedOnce

\* A record whose append returned without an error reads back, whatever is at
\* the end of the file and whatever comes after it (SpillFile.SpilledRecordReads;
\* tail.go appendHealed).
SpilledRecordReads == part = "spill" => Sp!SpilledRecordReads

\* A record that does not read back is told by a line the reader skips
\* (SpillFile.LossIsTold; tail.go, read.go).
LossIsTold == part = "spill" => Sp!LossIsTold

=============================================================================
