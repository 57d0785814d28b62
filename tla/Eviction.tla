------------------------------ MODULE Eviction ------------------------------
(***************************************************************************)
(* The size cap removing a run that nothing has written to for an hour,    *)
(* while the session that owns it wakes up (internal/store evict.go Evict, *)
(* store.go appendOrdered, nextSeq and SpillTerminal). Evict takes no lock *)
(* of the run's, so a hook may hold a file whose name is gone, or make the *)
(* directory again under the removal. Evictors are the probes of other     *)
(* sessions; each sees the store over its cap.                             *)
(*                                                                         *)
(* A lock belongs to a file and not to its name, and seq has no lock but   *)
(* the records file's: that is what the removal pulls apart.               *)
(***************************************************************************)
EXTENDS Integers, Sequences, FiniteSetsExt, Functions

CONSTANTS
  Hooks,      \* hook invocations of the run's session, one append each
  Evictors,   \* probes of other sessions
  Nobody,     \* the holder of a lock when there is none
  Old,        \* how many records the run holds
  MaxFiles,   \* bound: files ever made under the run's two record names
  Kills       \* whether an evictor may be killed (TRUE or FALSE)

VARIABLES
  dir,      \* whether the run's directory exists
  path,     \* the file each record name stands for, 0 when there is none
  seq,      \* what the seq file holds, 0 when there is none
  lines,    \* the records in each file ever made
  lock,     \* the holder of each file's lock
  fresh,    \* whether the run was written to within evictGrace
  pc,       \* where each hook is
  handle,   \* the file a hook has open
  num,      \* the number a hook allocated
  gapLock,  \* the holder of gaps.ndjson's lock
  ev,       \* where each evictor is
  listed,   \* the names a removal found in the directory and has yet to unlink
  read,     \* the records each evictor's gap counts
  gaps,     \* the gap records, each the set of records it counts
  late      \* hooks whose record landed with a gap already read for

hookVars == <<pc, handle, num>>
evVars == <<gapLock, ev, listed, read, gaps>>
vars == <<dir, path, seq, lines, lock, fresh, hookVars, evVars, late>>

Names == {"records", "spill"}
Files == 1..MaxFiles
Rec(by, n) == [by |-> by, seq |-> n]
Line == [by : Hooks \cup {Nobody}, seq : Nat]

TypeOK ==
  /\ dir \in BOOLEAN /\ fresh \in BOOLEAN
  /\ path \in [Names -> Files \cup {0}]
  /\ seq \in Nat
  /\ lines \in [Files -> Seq(Line)]
  /\ lock \in [Files -> Hooks \cup {Nobody}]
  /\ pc \in [Hooks -> {"mkdir", "open", "wait", "locked", "numbered", "counted",
                       "spillDir", "spillOpen", "spill", "done", "failed"}]
  /\ handle \in [Hooks -> Files \cup {0}]
  /\ num \in [Hooks -> Nat]
  /\ gapLock \in Evictors \cup {Nobody}
  /\ ev \in [Evictors -> {"wait", "plan", "gap", "list", "unlink", "rmdir",
                          "removed", "nothing", "failed", "killed"}]
  /\ listed \in [Evictors -> SUBSET (Names \cup {"seq"})]
  /\ read \in [Evictors -> SUBSET Line]
  /\ gaps \in Seq(SUBSET Line)
  /\ late \subseteq Hooks

\* What a reader of the run finds under a name, or under both.
Under(name) == IF path[name] = 0 THEN {} ELSE Range(lines[path[name]])
Readable == Under("records") \cup Under("spill")

\* Files that hold something, have a name or are held open.
Made == {f \in Files : lines[f] # <<>> \/ \E n \in Names : path[n] = f}
        \cup {handle[h] : h \in Hooks}
Unused == Files \ Made

-----------------------------------------------------------------------------
\* The run has been idle for an hour and no hook of its session is in flight.
Init ==
  /\ dir = TRUE
  /\ path = [n \in Names |-> IF n = "records" THEN 1 ELSE 0]
  /\ seq = Old
  /\ lines = [f \in Files |-> IF f = 1 THEN [i \in 1..Old |-> Rec(Nobody, i)] ELSE <<>>]
  /\ lock = [f \in Files |-> Nobody]
  /\ fresh = FALSE
  /\ pc = [h \in Hooks |-> "mkdir"]
  /\ handle = [h \in Hooks |-> 0]
  /\ num = [h \in Hooks |-> 0]
  /\ gapLock = Nobody
  /\ ev = [e \in Evictors |-> "wait"]
  /\ listed = [e \in Evictors |-> {}]
  /\ read = [e \in Evictors |-> {}]
  /\ gaps = <<>>
  /\ late = {}

Goto(h, where) == pc' = [pc EXCEPT ![h] = where]

\* MkdirAll, for the ordered stream or for the spill file.
MakeDir(h) ==
  /\ \/ pc[h] = "mkdir" /\ Goto(h, "open")
     \/ pc[h] = "spillDir" /\ Goto(h, "spillOpen")
  /\ dir' = TRUE
  /\ UNCHANGED <<path, seq, lines, lock, fresh, handle, num, evVars, late>>

\* OpenFile with O_CREATE: the file the name stands for, or a new one, which
\* is one the grace covers.
OpenAt(h, name, next) ==
  /\ dir
  /\ \/ /\ path[name] # 0
        /\ handle' = [handle EXCEPT ![h] = path[name]]
        /\ UNCHANGED <<path, fresh>>
     \/ /\ path[name] = 0
        /\ \E f \in Unused :
             /\ \A g \in Unused : f <= g
             /\ path' = [path EXCEPT ![name] = f]
             /\ handle' = [handle EXCEPT ![h] = f]
        /\ fresh' = TRUE
  /\ Goto(h, next)
  /\ UNCHANGED <<dir, seq, lines, lock, num, evVars, late>>

\* The directory went after MkdirAll: the open fails, and with it the append.
\* Only a lock that is not had in time is followed by a spill.
OpenFails(h) ==
  /\ ~dir
  /\ Goto(h, "failed")
  /\ UNCHANGED <<dir, path, seq, lines, lock, fresh, handle, num, evVars, late>>

OpenRecords(h) ==
  pc[h] = "open" /\ (OpenAt(h, "records", "wait") \/ OpenFails(h))

OpenSpill(h) ==
  pc[h] = "spillOpen" /\ (OpenAt(h, "spill", "spill") \/ OpenFails(h))

\* lockAppend, or its timeout.
TakeLock(h) ==
  /\ pc[h] = "wait"
  /\ \/ /\ lock[handle[h]] = Nobody
        /\ lock' = [lock EXCEPT ![handle[h]] = h]
        /\ Goto(h, "locked")
     \/ /\ lock[handle[h]] # Nobody
        /\ Goto(h, "spillDir")
        /\ UNCHANGED lock
  /\ UNCHANGED <<dir, path, seq, lines, fresh, handle, num, evVars, late>>

Highest(f) == Max({0} \cup {line.seq : line \in Range(lines[f])})

\* nextSeq's read: the seq file, or the highest number in the file held open.
ReadSeq(h) ==
  /\ pc[h] = "locked"
  /\ num' = [num EXCEPT ![h] = 1 + IF seq > 0 THEN seq ELSE Highest(handle[h])]
  /\ Goto(h, "numbered")
  /\ UNCHANGED <<dir, path, seq, lines, lock, fresh, handle, evVars, late>>

\* nextSeq's write, by name: it makes the file again, and fails with the
\* directory gone.
WriteSeq(h) ==
  /\ pc[h] = "numbered"
  /\ \/ /\ dir
        /\ seq' = num[h]
        /\ fresh' = TRUE
        /\ Goto(h, "counted")
        /\ UNCHANGED lock
     \/ /\ ~dir
        /\ lock' = [lock EXCEPT ![handle[h]] = Nobody]
        /\ Goto(h, "failed")
        /\ UNCHANGED <<seq, fresh>>
  /\ UNCHANGED <<dir, path, lines, handle, num, evVars, late>>

Counting == \E e \in Evictors : read[e] # {}

\* A record lands in the file the hook has open, whatever its name is now.
Land(h, line) ==
  /\ lines' = [lines EXCEPT ![handle[h]] = Append(@, line)]
  /\ fresh' = (fresh \/ \E n \in Names : path[n] = handle[h])
  /\ late' = IF Counting THEN late \cup {h} ELSE late
  /\ Goto(h, "done")
  /\ UNCHANGED <<dir, path, seq, handle, num, evVars>>

AppendRecord(h) ==
  /\ pc[h] = "counted"
  /\ Land(h, Rec(h, num[h]))
  /\ lock' = [lock EXCEPT ![handle[h]] = Nobody]

\* (broken: a spilled line is numbered -1)
SpillMinusOne(h) ==
  /\ pc[h] = "spill"
  /\ Land(h, Rec(h, -1))
  /\ UNCHANGED lock

\* A spilled line has no number.
Spill(h) ==
  /\ pc[h] = "spill"
  /\ Land(h, Rec(h, 0))
  /\ UNCHANGED lock

-----------------------------------------------------------------------------
runVars == <<dir, path, seq, lines, lock, fresh>>

EvGoto(e, where) == ev' = [ev EXCEPT ![e] = where]

\* (broken: a pass does not keep other evictors out)
TakeGapsShared(e) ==
  /\ ev[e] = "wait"
  /\ EvGoto(e, "plan")
  /\ UNCHANGED <<runVars, hookVars, gapLock, listed, read, gaps, late>>

TakeGaps(e) ==
  /\ ev[e] = "wait" /\ gapLock = Nobody
  /\ gapLock' = e
  /\ EvGoto(e, "plan")
  /\ UNCHANGED <<runVars, hookVars, listed, read, gaps, late>>

Release(e) == gapLock' = IF gapLock = e THEN Nobody ELSE gapLock

\* evictCandidates and the grace. A directory with no file in it has its own
\* time, which is when the last file was made in it or left it.
Idle == dir /\ ~fresh /\ (seq > 0 \/ \E n \in Names : path[n] # 0)

\* A run that is idle is read, without a lock; any other is left.
Plan(e) ==
  /\ ev[e] = "plan"
  /\ \/ /\ Idle
        /\ read' = [read EXCEPT ![e] = Readable]
        /\ EvGoto(e, "gap")
        /\ UNCHANGED gapLock
     \/ /\ ~Idle
        /\ EvGoto(e, "nothing")
        /\ Release(e)
        /\ UNCHANGED read
  /\ UNCHANGED <<runVars, hookVars, listed, gaps, late>>

\* (broken: the gap is left for after the removal)
NoGapYet(e) ==
  /\ ev[e] = "gap"
  /\ EvGoto(e, "list")
  /\ UNCHANGED <<runVars, hookVars, gapLock, listed, read, gaps, late>>

WriteGap(e) ==
  /\ ev[e] = "gap"
  /\ gaps' = Append(gaps, read[e])
  /\ EvGoto(e, "list")
  /\ UNCHANGED <<runVars, hookVars, gapLock, listed, read, late>>

\* RemoveAll reads the directory once, unlinks what it found in any order, and
\* then removes the directory, which it cannot when a file was made meanwhile.
List(e) ==
  /\ ev[e] = "list"
  /\ listed' = [listed EXCEPT ![e] =
       {n \in Names : path[n] # 0} \cup (IF seq > 0 THEN {"seq"} ELSE {})]
  /\ EvGoto(e, "unlink")
  /\ UNCHANGED <<runVars, hookVars, gapLock, read, gaps, late>>

Unlink(e) ==
  /\ ev[e] = "unlink"
  /\ \E n \in listed[e] :
       /\ path' = IF n \in Names THEN [path EXCEPT ![n] = 0] ELSE path
       /\ seq' = IF n = "seq" THEN 0 ELSE seq
       /\ listed' = [listed EXCEPT ![e] = @ \ {n}]
  /\ UNCHANGED <<dir, lines, lock, fresh, hookVars, gapLock, ev, read, gaps, late>>

Rmdir(e) ==
  /\ ev[e] = "unlink" /\ listed[e] = {}
  /\ LET empty == seq = 0 /\ \A n \in Names : path[n] = 0
     IN /\ dir' = (dir /\ ~empty)
        /\ EvGoto(e, IF empty THEN "removed" ELSE "failed")
  /\ Release(e)
  /\ UNCHANGED <<path, seq, lines, lock, fresh, hookVars, listed, read, gaps, late>>

\* The probe's own timeout ends it.
Kill(e) ==
  /\ Kills /\ ev[e] \in {"plan", "gap", "list", "unlink"}
  /\ EvGoto(e, "killed")
  /\ Release(e)
  /\ UNCHANGED <<runVars, hookVars, listed, read, gaps, late>>

Over ==
  /\ \A h \in Hooks : pc[h] \in {"done", "failed"}
  /\ \A e \in Evictors : ev[e] \in {"removed", "nothing", "failed", "killed"}
  /\ UNCHANGED vars

Next ==
  \/ \E h \in Hooks :
       \/ MakeDir(h) \/ OpenRecords(h) \/ OpenSpill(h) \/ TakeLock(h) \/ ReadSeq(h)
       \/ WriteSeq(h) \/ AppendRecord(h) \/ Spill(h)
  \/ \E e \in Evictors :
       TakeGaps(e) \/ Plan(e) \/ WriteGap(e) \/ List(e) \/ Unlink(e) \/ Rmdir(e) \/ Kill(e)
  \/ Over

Spec == Init /\ [][Next]_vars

-----------------------------------------------------------------------------
Landed == UNION {Range(lines[f]) : f \in Files}
Lost == Landed \ Readable

\* A record that landed and that no reader finds again went with a gap already
\* written, "in either case after the run's gap record" (doc.go); and a record
\* that was there when the gap was drawn up is one the gap counts. It is so for
\* a record that landed in a file whose name was gone, for one the removal
\* unlinked behind the hook, and for a removal killed half way.
LossIsAdmitted ==
  \A line \in Lost :
    /\ gaps # <<>>
    /\ line.by \notin late => \E i \in DOMAIN gaps : line \in gaps[i]

\* "A second handler that arrives mid-eviction sees the removals and does not
\* write a second gap record for a run that is already gone" (evict.go): a
\* record is counted twice only when a removal before was killed or failed.
CountedOnce ==
  (\A e \in Evictors : ev[e] \notin {"killed", "failed"}) =>
    \A i, j \in DOMAIN gaps : i # j => gaps[i] \cap gaps[j] = {}

=============================================================================
