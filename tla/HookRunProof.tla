---------------------------- MODULE HookRunProof ----------------------------
(***************************************************************************)
(* Theorems about HookRun, for any number of calls and any set of faults:  *)
(* its types and the order of its records; what the records say of one     *)
(* another, a failed sync and its marker, a clean coverage record and the  *)
(* lines it vouches for, a declaration and its terminal; and that the      *)
(* processes implement the evidence log.                                   *)
(***************************************************************************)
EXTENDS HookRun, SequenceTheorems, TLAPS

\* A process is a call with one of its two hooks, and none is the free lock's
\* holder.
LEMMA ProcFacts ==
  ASSUME NEW p \in Proc
  PROVE  p[1] \in Calls /\ p[2] \in {"call", "post"} /\ p # Free
BY ConstantsAssumption DEF Proc, Free

\* A line a process places is a line, and so is its coverage record.
LEMMA LineFacts ==
  ASSUME TypeOK, NEW p \in Proc
  PROVE  /\ OrderedLine(p) \in Line
         /\ SpillLine(p) \in Line
         /\ FlushFailedMarker(p) \in Line
         /\ Fragment \in Line
         /\ \A config \in Resolved : CallCoverage(p, config) \in CoverageRecord
<1>1. p[1] \in Calls /\ p[2] \in {"call", "post"}
  BY ProcFacts
<1>2. /\ job[p] \in {"declaration", "terminal", "execution"}
      /\ num[p] \in Nat /\ reason[p] \in CloseReasons
  BY DEF TypeOK
<1>3. OrderedLine(p) \in Line
  BY <1>1, <1>2 DEF OrderedLine, Line, CloseReasons
<1>4. SpillLine(p) \in Line
  BY <1>1, <1>2 DEF SpillLine, OrderedLine, Line, CloseReasons
<1>5. FlushFailedMarker(p) \in Line
  BY <1>1 DEF FlushFailedMarker, Line
<1>6. Fragment \in Line
  BY DEF Fragment, Line, CloseReasons
<1>7. \A config \in Resolved : CallCoverage(p, config) \in CoverageRecord
  BY <1>1, <1>2, ConstantsAssumption DEF CallCoverage, CoverageRecord
<1> QED BY <1>3, <1>4, <1>5, <1>6, <1>7

\* What an append leaves in records.ndjson, torn or not.
LEMMA AppendFact ==
  ASSUME TypeOK, NEW line \in Line
  PROVE  /\ AppendHealed(line) => records' \in Seq(Line) /\ tailOpen' \in BOOLEAN
         /\ TornWrite(line) => records' \in Seq(Line) /\ tailOpen' \in BOOLEAN
<1>1. records \in Seq(Line) /\ tailOpen \in BOOLEAN
  BY DEF TypeOK
<1>2. \A l \in Line : Append(records, l) \in Seq(Line)
  BY <1>1, AppendProperties
<1>3. Fragment \in Line
  BY DEF Fragment, Line, CloseReasons
<1> QED
  BY <1>1, <1>2, <1>3 DEF AppendHealed, TornWrite

\* The numbers the records hold are natural numbers.
LEMMA SeqFact ==
  ASSUME TypeOK
  PROVE  Seqs(records) \subseteq Nat /\ Highest(records) \subseteq Nat
<1>1. \A i \in DOMAIN records : records[i] \in Line
  BY DEF TypeOK
<1>2. Seqs(records) \subseteq Nat
  BY <1>1 DEF Seqs, Line
<1> QED
  BY <1>2 DEF Highest

LEMMA ReturnFact ==
  ASSUME TypeOK, NEW p \in Proc, NEW ok \in BOOLEAN, Return(p, ok)
  PROVE  /\ pc' \in [Proc -> Places]
         /\ opened' \in [Proc -> BOOLEAN]
         /\ err' \in [Proc -> CloseReasons]
         /\ reason' \in [Proc -> CloseReasons]
BY DEF TypeOK, Return, Move, Places, CloseReasons

\* A probe's coverage record is one.
LEMMA ProbeFact ==
  ASSUME TypeOK, NEW phase \in {"start", "end"},
         NEW r \in {"none", "unterminated_entry"}, ProbeCover(phase, r)
  PROVE  coverage' \subseteq CoverageRecord
<1>1. Resolved \subseteq ConfigReasons
  BY ConstantsAssumption
<1>2. \A config \in Resolved :
        ProbeRecord(phase, IF r # "none" THEN r ELSE config) \in CoverageRecord
  BY <1>1 DEF ProbeRecord, CoverageRecord
<1> QED
  BY <1>2 DEF TypeOK, ProbeCover

-----------------------------------------------------------------------------
\* Every step keeps the variables in their types.
LEMMA TypeStep ==
  ASSUME TypeOK, [Next]_vars
  PROVE  TypeOK'
<1>1. ASSUME NEW p \in Proc, TakeLock(p) PROVE TypeOK'
  BY <1>1 DEF TypeOK, TakeLock, Move, Places, session
<1>2. ASSUME NEW p \in Proc, LockTimesOut(p) PROVE TypeOK'
  BY <1>2 DEF TypeOK, LockTimesOut, Move, Places, CloseReasons, disk, session
<1>3. ASSUME NEW p \in Proc, TruncateSeq(p) PROVE TypeOK'
  <2>1. num' \in [Proc -> Nat]
    BY <1>3, SeqFact DEF TypeOK, TruncateSeq
  <2> QED
    BY <1>3, <2>1 DEF TypeOK, TruncateSeq, Move, Places, session
<1>4. ASSUME NEW p \in Proc, WriteSeq(p) PROVE TypeOK'
  BY <1>4 DEF TypeOK, WriteSeq, Move, Places, session
<1>5. ASSUME NEW p \in Proc, SeqFails(p) PROVE TypeOK'
  <2>1. Return(p, FALSE) /\ lock' = Free
    BY <1>5 DEF SeqFails
  <2>2. seqFile' \in Nat \cup {Unreadable}
    BY <1>5 DEF TypeOK, SeqFails
  <2>3. broken' \in [Proc -> BOOLEAN]
    BY <1>5, Zenon DEF TypeOK, SeqFails
  <2> QED
    BY <1>5, <2>1, <2>2, <2>3, ReturnFact DEF TypeOK, SeqFails, session
<1>6. ASSUME NEW p \in Proc, AppendLine(p) PROVE TypeOK'
  <2>1. records' \in Seq(Line) /\ tailOpen' \in BOOLEAN
    BY <1>6, LineFacts, AppendFact DEF AppendLine
  <2> QED
    BY <1>6, <2>1 DEF TypeOK, AppendLine, Move, Places, session
<1>7. ASSUME NEW p \in Proc, AppendFails(p) PROVE TypeOK'
  <2>1. records' \in Seq(Line) /\ tailOpen' \in BOOLEAN
    BY <1>7, LineFacts, AppendFact DEF AppendFails
  <2>2. Return(p, FALSE) /\ lock' = Free
    BY <1>7 DEF AppendFails
  <2> QED
    BY <1>7, <2>1, <2>2, ReturnFact DEF TypeOK, AppendFails, session
<1>8. ASSUME NEW p \in Proc, SyncLine(p) PROVE TypeOK'
  BY <1>8, ReturnFact DEF TypeOK, SyncLine, session
<1>9. ASSUME NEW p \in Proc, SyncFails(p) PROVE TypeOK'
  BY <1>9, ReturnFact DEF TypeOK, SyncFails, session
<1>10. ASSUME NEW p \in Proc, Close(p) PROVE TypeOK'
  BY <1>10 DEF TypeOK, Close, Move, Places, CloseReasons, disk, session
<1>11. ASSUME NEW p \in Proc, SpillLands(p) PROVE TypeOK'
  BY <1>11, LineFacts, ReturnFact DEF TypeOK, SpillLands, session
<1>12. ASSUME NEW p \in Proc, SpillFails(p) PROVE TypeOK'
  BY <1>12, LineFacts, ReturnFact DEF TypeOK, SpillFails, session
<1>13. ASSUME NEW p \in Proc, Cover(p) PROVE TypeOK'
  BY <1>13, LineFacts DEF TypeOK, Cover, Move, Places, session
<1>14. ASSUME NEW p \in Proc, CoverFails(p) PROVE TypeOK'
  <2>1. coverage' \subseteq CoverageRecord /\ broken' \in [Proc -> BOOLEAN]
    BY <1>14, LineFacts DEF TypeOK, CoverFails
  <2> QED
    BY <1>14, <2>1 DEF TypeOK, CoverFails, Move, Places, session
<1>15. ASSUME NEW p \in Proc, Flush(p) PROVE TypeOK'
  BY <1>15 DEF TypeOK, Flush, Move, Places, disk, session
<1>16. ASSUME NEW p \in Proc, FlushFails(p) PROVE TypeOK'
  BY <1>16 DEF TypeOK, FlushFails, Move, Places, disk, session
<1>17. ASSUME NEW p \in Proc, MarkCall(p) PROVE TypeOK'
  BY <1>17, LineFacts DEF TypeOK, MarkCall, Move, Places, session
<1>18. ASSUME NEW p \in Proc, MarkFails(p) PROVE TypeOK'
  BY <1>18, LineFacts DEF TypeOK, MarkFails, Move, Places, session
<1>19. ASSUME NEW p \in Proc, Begin(p) PROVE TypeOK'
  BY <1>19 DEF TypeOK, Begin, Move, Places, CloseReasons, disk, session
<1>20. ASSUME NEW p \in Proc, Panic(p) PROVE TypeOK'
  BY <1>20 DEF TypeOK, Panic, Move, Places, CloseReasons, disk, session
<1>21. ASSUME NEW p \in Proc, PanicInClose(p) PROVE TypeOK'
  BY <1>21 DEF TypeOK, PanicInClose, Move, Places, disk, session
<1>22. ASSUME NEW p \in Proc, Signal(p) PROVE TypeOK'
  BY <1>22 DEF TypeOK, Signal, disk, session
<1>23. ASSUME NEW p \in Proc, Kill(p) PROVE TypeOK'
  <2>1. records' \in Seq(Line) /\ tailOpen' \in BOOLEAN
    BY <1>23, LineFacts, AppendFact DEF TypeOK, Kill
  <2>2. spill' \subseteq Line
    BY <1>23, LineFacts DEF TypeOK, Kill, Spilling
  <2> QED
    BY <1>23, <2>1, <2>2 DEF TypeOK, Kill, Move, Places, session
<1>24. CASE SessionStart
  <2>1. coverage' \subseteq CoverageRecord
    BY <1>24, ProbeFact DEF SessionStart
  <2> QED
    BY <1>24, <2>1 DEF TypeOK, SessionStart
<1>25. CASE SessionEndRead
  BY <1>25 DEF TypeOK, SessionEndRead, disk
<1>26. CASE SessionEndCover
  <2>1. coverage' \subseteq CoverageRecord
    BY <1>26, ProbeFact DEF SessionEndCover, TypeOK
  <2> QED
    BY <1>26, <2>1 DEF TypeOK, SessionEndCover
<1>27. CASE UNCHANGED vars
  BY <1>27 DEF TypeOK, vars
<1> QED
  BY <1>1, <1>2, <1>3, <1>4, <1>5, <1>6, <1>7, <1>8, <1>9, <1>10, <1>11, <1>12,
     <1>13, <1>14, <1>15, <1>16, <1>17, <1>18, <1>19, <1>20, <1>21, <1>22, <1>23, <1>24,
     <1>25, <1>26, <1>27
     DEF Next, Step, Environment, Probes, Over

\* Whatever is killed, refused or fails, what the files and the processes hold
\* stays of its type: records.ndjson holds only lines some hook built, fragments
\* included (appendHealed), and each hook is at one of its steps (cmdHook).
THEOREM TypeCorrect == Spec => []TypeOK
<1>1. Init => TypeOK
  <2> SUFFICES ASSUME Init PROVE TypeOK
    OBVIOUS
  <2>1. records \in Seq(Line)
    BY EmptySeq DEF Init
  <2> QED
    BY <2>1 DEF Init, TypeOK, Places, CloseReasons
<1> QED
  BY <1>1, TypeStep, PTL DEF Spec

-----------------------------------------------------------------------------
(* The inductive invariant behind the order of the records.                *)

\* The lock's holder, and it alone, is between the lock and its release.
Exclusive == \A p \in Proc : pc[p] \in InLock <=> lock = p

\* A counter that can be read is at or above every number in the file.
CounterAhead ==
  seqFile # Unreadable => \A i \in DOMAIN records : records[i].seq <= seqFile

\* The number a process is about to use is above every number in the file.
NumberAhead ==
  \A p \in Proc : pc[p] \in {"truncated", "numbered"} =>
    \A i \in DOMAIN records : records[i].seq < num[p]

\* The counter was advanced to it before the record was written.
CounterFirst ==
  \A p \in Proc : pc[p] \in {"numbered", "written"} => seqFile = num[p]

OrderInv ==
  Exclusive /\ CounterAhead /\ NumberAhead /\ CounterFirst /\ SeqOrdered

\* A step of a process outside the critical section that stays outside it.
LEMMA QuietStep ==
  ASSUME TypeOK, OrderInv, NEW p \in Proc, NEW place \in Places \ InLock,
         pc[p] \notin InLock, pc' = [pc EXCEPT ![p] = place],
         UNCHANGED <<records, seqFile, lock, num>>
  PROVE  OrderInv'
BY DEF TypeOK, OrderInv, Exclusive, CounterAhead, NumberAhead, CounterFirst,
       SeqOrdered, InLock, Places, Readable

\* A step that releases the lock, and leaves the file ordered and the counter,
\* if it can be read, ahead of it.
LEMMA ReleaseStep ==
  ASSUME TypeOK, OrderInv, NEW p \in Proc, NEW place \in Places \ InLock,
         pc[p] \in InLock, pc' = [pc EXCEPT ![p] = place],
         lock' = Free, CounterAhead', SeqOrdered'
  PROVE  OrderInv'
<1>1. \A q \in Proc : pc[q] \in InLock <=> q = p
  BY DEF OrderInv, Exclusive
<1>2. \A q \in Proc : pc'[q] \notin InLock
  BY <1>1 DEF TypeOK
<1>3. Exclusive'
  BY <1>2, ProcFacts DEF Exclusive
<1>4. NumberAhead' /\ CounterFirst'
  BY <1>2 DEF NumberAhead, CounterFirst, InLock
<1> QED
  BY <1>3, <1>4 DEF OrderInv

\* The same, of a step that ends in the append's return.
LEMMA ReturnStep ==
  ASSUME TypeOK, OrderInv, NEW p \in Proc, NEW ok \in BOOLEAN,
         pc[p] \in InLock, Return(p, ok), lock' = Free, CounterAhead', SeqOrdered'
  PROVE  OrderInv'
<1>1. PICK place \in {"cover", "close"} : pc' = [pc EXCEPT ![p] = place]
  BY DEF Return, Move
<1>2. place \in Places \ InLock
  BY DEF Places, InLock
<1> QED
  BY <1>1, <1>2, ReleaseStep

\* A line put at the end of the file, its number above every other, keeps the
\* file ordered.
LEMMA AppendOrdered ==
  ASSUME TypeOK, SeqOrdered, NEW line \in Line, records' = Append(records, line),
         Readable(line) => \A i \in DOMAIN records : records[i].seq < line.seq
  PROVE  /\ SeqOrdered'
         /\ \A i \in DOMAIN records' :
              (i \in DOMAIN records /\ records'[i] = records[i]) \/ records'[i] = line
<1>1. records \in Seq(Line)
  BY DEF TypeOK
<1>2. /\ DOMAIN records = 1..Len(records)
      /\ DOMAIN records' = 1..(Len(records) + 1)
      /\ \A i \in 1..Len(records) : records'[i] = records[i]
      /\ records'[Len(records) + 1] = line
      /\ Len(records) \in Nat
  BY <1>1, AppendProperties
<1>3. SeqOrdered'
  <2> SUFFICES ASSUME NEW i \in DOMAIN records', NEW j \in DOMAIN records', i < j,
                      Readable(records'[i]), Readable(records'[j])
               PROVE  records'[i].seq < records'[j].seq
    BY DEF SeqOrdered, Readable
  <2>1. i \in DOMAIN records /\ records'[i] = records[i]
    BY <1>2
  <2>2. CASE j \in DOMAIN records
    BY <1>2, <2>1, <2>2 DEF SeqOrdered
  <2>3. CASE j = Len(records) + 1
    BY <1>2, <2>1, <2>3
  <2> QED
    BY <1>2, <2>2, <2>3
<1> QED
  BY <1>2, <1>3

\* What the process with a number writes, whole or torn, keeps the file ordered
\* and the counter ahead of it.
LEMMA WriteStep ==
  ASSUME TypeOK, OrderInv, NEW p \in Proc, pc[p] = "numbered", UNCHANGED seqFile,
         AppendHealed(OrderedLine(p)) \/ TornWrite(OrderedLine(p))
  PROVE  SeqOrdered' /\ CounterAhead'
<1>1. /\ \A i \in DOMAIN records : records[i].seq < num[p]
      /\ seqFile = num[p]
      /\ num[p] \in Nat
      /\ SeqOrdered /\ CounterAhead
  BY DEF TypeOK, OrderInv, NumberAhead, CounterFirst
<1>2. ASSUME NEW line \in {Fragment, OrderedLine(p)}, records' = Append(records, line)
      PROVE  SeqOrdered' /\ CounterAhead'
  <2>1. line \in Line /\ line.seq <= num[p] /\ (Readable(line) => line.seq = num[p])
    BY <1>1, LineFacts DEF Fragment, OrderedLine, Readable
  <2>2. /\ SeqOrdered'
        /\ \A i \in DOMAIN records' :
             (i \in DOMAIN records /\ records'[i] = records[i]) \/ records'[i] = line
    BY <1>1, <1>2, <2>1, AppendOrdered
  <2>3. CounterAhead'
    BY <1>1, <2>1, <2>2 DEF CounterAhead
  <2> QED
    BY <2>2, <2>3
<1>3. CASE UNCHANGED records
  BY <1>1, <1>3 DEF SeqOrdered, CounterAhead, Readable
<1> QED
  BY <1>2, <1>3 DEF AppendHealed, TornWrite

\* Every step keeps the invariant.
LEMMA OrderStep ==
  ASSUME TypeOK, OrderInv, [Next]_vars
  PROVE  OrderInv'
<1>1. ASSUME NEW p \in Proc, TakeLock(p) PROVE OrderInv'
  <2>1. \A q \in Proc : pc[q] \notin InLock
    BY <1>1, ProcFacts DEF TakeLock, OrderInv, Exclusive
  <2>2. Exclusive'
    BY <1>1, <2>1 DEF TypeOK, TakeLock, Move, Exclusive, InLock
  <2> QED
    BY <1>1, <2>2 DEF TypeOK, OrderInv, TakeLock, Move, CounterAhead, NumberAhead,
                      CounterFirst, SeqOrdered, Readable
<1>2. ASSUME NEW p \in Proc, LockTimesOut(p) PROVE OrderInv'
  BY <1>2, QuietStep DEF TypeOK, LockTimesOut, Move, InLock, Places, disk
<1>3. ASSUME NEW p \in Proc, TruncateSeq(p) PROVE OrderInv'
  <2>1. \A i \in DOMAIN records : records[i].seq < num'[p]
    <3>1. PICK last \in Nat :
            /\ num' = [num EXCEPT ![p] = last + 1]
            /\ \A i \in DOMAIN records : records[i].seq <= last
      BY <1>3, SeqFact DEF TypeOK, TruncateSeq, OrderInv, CounterAhead, Highest, Seqs
    <3>2. \A i \in DOMAIN records : records[i].seq \in Nat
      BY SeqFact DEF Seqs
    <3> QED
      BY <3>1, <3>2 DEF TypeOK
  <2>2. \A r \in Proc : pc[r] \in InLock <=> r = p
    BY <1>3 DEF TruncateSeq, OrderInv, Exclusive, InLock
  <2>3. Exclusive'
    BY <1>3, <2>2 DEF TypeOK, TruncateSeq, Move, OrderInv, Exclusive, InLock
  <2>4. CounterAhead'
    BY <1>3 DEF TruncateSeq, CounterAhead
  <2>5. NumberAhead' /\ CounterFirst'
    BY <1>3, <2>1, <2>2 DEF TypeOK, TruncateSeq, Move, NumberAhead, CounterFirst, InLock
  <2> QED
    BY <1>3, <2>3, <2>4, <2>5 DEF TruncateSeq, OrderInv, SeqOrdered, Readable
<1>4. ASSUME NEW p \in Proc, WriteSeq(p) PROVE OrderInv'
  <2>1. \A r \in Proc : pc[r] \in InLock <=> r = p
    BY <1>4 DEF WriteSeq, OrderInv, Exclusive, InLock
  <2>2. \A i \in DOMAIN records : records[i].seq < num[p]
    BY <1>4 DEF WriteSeq, OrderInv, NumberAhead
  <2>3. Exclusive'
    BY <1>4, <2>1 DEF TypeOK, WriteSeq, Move, OrderInv, Exclusive, InLock
  <2>4. CounterAhead'
    <3>1. seqFile' = num[p] /\ UNCHANGED records
      BY <1>4 DEF WriteSeq
    <3>2. num[p] \in Nat /\ \A i \in DOMAIN records : records[i].seq \in Nat
      BY SeqFact DEF TypeOK, Seqs
    <3> QED
      BY <2>2, <3>1, <3>2 DEF CounterAhead
  <2>5. NumberAhead' /\ CounterFirst'
    BY <1>4, <2>1, <2>2 DEF TypeOK, WriteSeq, Move, NumberAhead, CounterFirst, InLock
  <2> QED
    BY <1>4, <2>3, <2>4, <2>5 DEF WriteSeq, OrderInv, SeqOrdered, Readable
<1>5. ASSUME NEW p \in Proc, SeqFails(p) PROVE OrderInv'
  <2>1. \A i \in DOMAIN records : records[i].seq < num[p] /\ records[i].seq \in Nat
    BY <1>5, SeqFact DEF SeqFails, OrderInv, NumberAhead, Seqs
  <2>2. CounterAhead'
    BY <1>5, <2>1 DEF TypeOK, SeqFails, OrderInv, CounterAhead
  <2>3. SeqOrdered'
    BY <1>5 DEF SeqFails, OrderInv, SeqOrdered, Readable
  <2> QED
    BY <1>5, <2>2, <2>3, ReturnStep DEF SeqFails, InLock
<1>6. ASSUME NEW p \in Proc, AppendLine(p) PROVE OrderInv'
  <2>1. SeqOrdered' /\ CounterAhead'
    BY <1>6, WriteStep DEF AppendLine
  <2>2. \A r \in Proc : pc[r] \in InLock <=> r = p
    BY <1>6 DEF AppendLine, OrderInv, Exclusive, InLock
  <2>3. Exclusive'
    BY <1>6, <2>2 DEF TypeOK, AppendLine, Move, OrderInv, Exclusive, InLock
  <2>4. NumberAhead' /\ CounterFirst'
    BY <1>6, <2>2 DEF TypeOK, AppendLine, Move, OrderInv, NumberAhead, CounterFirst, InLock
  <2> QED
    BY <2>1, <2>3, <2>4 DEF OrderInv
<1>7. ASSUME NEW p \in Proc, AppendFails(p) PROVE OrderInv'
  <2>1. SeqOrdered' /\ CounterAhead'
    BY <1>7, WriteStep DEF AppendFails
  <2> QED
    BY <1>7, <2>1, ReturnStep DEF AppendFails, InLock
<1>8. ASSUME NEW p \in Proc, SyncLine(p) PROVE OrderInv'
  <2>1. SeqOrdered' /\ CounterAhead'
    BY <1>8 DEF SyncLine, OrderInv, SeqOrdered, CounterAhead, Readable
  <2> QED
    BY <1>8, <2>1, ReturnStep DEF SyncLine, InLock
<1>9. ASSUME NEW p \in Proc, SyncFails(p) PROVE OrderInv'
  <2>1. SeqOrdered' /\ CounterAhead'
    BY <1>9 DEF SyncFails, OrderInv, SeqOrdered, CounterAhead, Readable
  <2> QED
    BY <1>9, <2>1, ReturnStep DEF SyncFails, InLock
<1>10. ASSUME NEW p \in Proc, Close(p) PROVE OrderInv'
  BY <1>10, QuietStep DEF Close, Move, InLock, Places, disk
<1>11. ASSUME NEW p \in Proc, SpillLands(p) PROVE OrderInv'
  BY <1>11, QuietStep DEF TypeOK, SpillLands, Move, InLock, Places, disk, Return
<1>12. ASSUME NEW p \in Proc, SpillFails(p) PROVE OrderInv'
  BY <1>12, QuietStep DEF TypeOK, SpillFails, Move, InLock, Places, disk, Return
<1>13. ASSUME NEW p \in Proc, Cover(p) PROVE OrderInv'
  BY <1>13, QuietStep DEF TypeOK, Cover, Move, InLock, Places, disk
<1>14. ASSUME NEW p \in Proc, CoverFails(p) PROVE OrderInv'
  BY <1>14, QuietStep DEF TypeOK, CoverFails, Move, InLock, Places, disk
<1>15. ASSUME NEW p \in Proc, Flush(p) PROVE OrderInv'
  BY <1>15, QuietStep DEF TypeOK, Flush, Move, InLock, Places, disk
<1>16. ASSUME NEW p \in Proc, FlushFails(p) PROVE OrderInv'
  BY <1>16, QuietStep DEF TypeOK, FlushFails, Move, InLock, Places, disk
<1>17. ASSUME NEW p \in Proc, MarkCall(p) PROVE OrderInv'
  BY <1>17, QuietStep DEF TypeOK, MarkCall, Move, InLock, Places, disk
<1>18. ASSUME NEW p \in Proc, MarkFails(p) PROVE OrderInv'
  BY <1>18, QuietStep DEF TypeOK, MarkFails, Move, InLock, Places, disk
<1>19. ASSUME NEW p \in Proc, Begin(p) PROVE OrderInv'
  BY <1>19, QuietStep DEF TypeOK, Begin, Move, InLock, Places, disk
<1>20. ASSUME NEW p \in Proc, Panic(p) PROVE OrderInv'
  BY <1>20, QuietStep DEF TypeOK, Panic, Move, InLock, Places, disk
<1>21. ASSUME NEW p \in Proc, PanicInClose(p) PROVE OrderInv'
  BY <1>21, QuietStep DEF TypeOK, PanicInClose, Move, InLock, Places, disk
<1>22. ASSUME NEW p \in Proc, Signal(p) PROVE OrderInv'
  BY <1>22 DEF Signal, disk, OrderInv, Exclusive, CounterAhead, NumberAhead,
              CounterFirst, SeqOrdered, Readable
<1>23. ASSUME NEW p \in Proc, Kill(p) PROVE OrderInv'
  <2>1. CASE pc[p] \in InLock
    <3>1. lock' = Free
      BY <1>23, <2>1 DEF Kill, OrderInv, Exclusive
    <3>2. SeqOrdered' /\ CounterAhead'
      BY <1>23, WriteStep DEF Kill, OrderInv, SeqOrdered, CounterAhead, Readable
    <3> QED
      BY <1>23, <2>1, <3>1, <3>2, ReleaseStep DEF Kill, Move, InLock, Places
  <2>2. CASE pc[p] \notin InLock
    <3>1. UNCHANGED <<records, seqFile, lock, num>>
      BY <1>23, <2>2 DEF Kill, OrderInv, Exclusive, InLock
    <3> QED
      BY <1>23, <2>2, <3>1, QuietStep DEF Kill, Move, InLock, Places
  <2> QED
    BY <2>1, <2>2
<1>24. CASE SessionStart
  BY <1>24 DEF SessionStart, disk, OrderInv, Exclusive, CounterAhead, NumberAhead,
              CounterFirst, SeqOrdered, Readable
<1>25. CASE SessionEndRead
  BY <1>25 DEF SessionEndRead, disk, OrderInv, Exclusive, CounterAhead, NumberAhead,
              CounterFirst, SeqOrdered, Readable
<1>26. CASE SessionEndCover
  BY <1>26 DEF SessionEndCover, disk, OrderInv, Exclusive, CounterAhead, NumberAhead,
              CounterFirst, SeqOrdered, Readable
<1>27. CASE UNCHANGED vars
  BY <1>27 DEF vars, OrderInv, Exclusive, CounterAhead, NumberAhead,
              CounterFirst, SeqOrdered, Readable
<1> QED
  BY <1>1, <1>2, <1>3, <1>4, <1>5, <1>6, <1>7, <1>8, <1>9, <1>10, <1>11, <1>12,
     <1>13, <1>14, <1>15, <1>16, <1>17, <1>18, <1>19, <1>20, <1>21, <1>22, <1>23, <1>24,
     <1>25, <1>26, <1>27
     DEF Next, Step, Environment, Probes, Over

\* The readable records are numbered in file order, whatever dies or fails: the
\* counter is advanced before the record is written, under the lock that its
\* writer holds until the record is in the file.
THEOREM RecordsStayOrdered == Spec => []SeqOrdered
<1>1. Init => OrderInv
  BY ProcFacts DEF Init, OrderInv, Exclusive, CounterAhead, NumberAhead,
                   CounterFirst, SeqOrdered, InLock
<1>2. OrderInv => SeqOrdered
  BY DEF OrderInv
<1> QED
  BY <1>1, <1>2, OrderStep, TypeCorrect, PTL DEF Spec

-----------------------------------------------------------------------------
(* What the records say of one another.                                    *)

\* Every line of the run's two files.
OnDisk == LinesOf(records) \cup spill

\* A line put at the end of the records leaves the others where they are.
LEMMA AppendKeeps ==
  ASSUME TypeOK, NEW line
  PROVE  LinesOf(Append(records, line)) = LinesOf(records) \cup {line}
<1>1. /\ DOMAIN records = 1..Len(records) /\ Len(records) \in Nat
      /\ DOMAIN Append(records, line) = 1..(Len(records) + 1)
      /\ \A i \in 1..Len(records) : Append(records, line)[i] = records[i]
      /\ Append(records, line)[Len(records) + 1] = line
  BY DEF TypeOK
<1>2. ASSUME NEW i \in 1..(Len(records) + 1) PROVE i \in 1..Len(records) \/ i = Len(records) + 1
  BY <1>1
<1>3. LinesOf(Append(records, line)) \subseteq LinesOf(records) \cup {line}
  BY <1>1, <1>2 DEF LinesOf
<1>4. LinesOf(records) \subseteq LinesOf(Append(records, line))
  <2>1. \A i \in DOMAIN records : i \in DOMAIN Append(records, line) /\ Append(records, line)[i] = records[i]
    BY <1>1
  <2> QED BY <2>1 DEF LinesOf
<1>5. line \in LinesOf(Append(records, line))
  <2>1. Len(records) + 1 \in DOMAIN Append(records, line)
    BY <1>1
  <2> QED BY <1>1, <2>1 DEF LinesOf
<1> QED BY <1>3, <1>4, <1>5

\* What a write that was cut short leaves of the records.
LEMMA TornKeeps ==
  ASSUME TypeOK, NEW line, TornWrite(line)
  PROVE  LinesOf(records) \subseteq LinesOf(records') /\ LinesOf(records') \subseteq LinesOf(records) \cup {line, Fragment}
<1>1. CASE records' = records
  BY <1>1
<1>2. ASSUME NEW torn \in {Fragment, line}, records' = Append(records, torn)
      PROVE  LinesOf(records') = LinesOf(records) \cup {torn}
  BY <1>2, AppendKeeps
<1> QED BY <1>1, <1>2 DEF TornWrite

\* No step of a hook takes a line away.
LEMMA LinesStay ==
  ASSUME TypeOK, [Next]_vars
  PROVE  OnDisk \subseteq OnDisk' /\ spill \subseteq spill'
<1>1. ASSUME NEW p \in Proc, AppendLine(p) PROVE OnDisk \subseteq OnDisk' /\ spill \subseteq spill'
  <2>1. records' = Append(records, OrderedLine(p)) /\ spill' = spill
    BY <1>1 DEF AppendLine, AppendHealed
  <2> QED BY <2>1, AppendKeeps DEF OnDisk
<1>2. ASSUME NEW p \in Proc, AppendFails(p) PROVE OnDisk \subseteq OnDisk' /\ spill \subseteq spill'
  BY <1>2, TornKeeps DEF AppendFails, OnDisk
<1>3. ASSUME NEW p \in Proc, Kill(p) PROVE OnDisk \subseteq OnDisk' /\ spill \subseteq spill'
  <2>1. LinesOf(records) \subseteq LinesOf(records')
    BY <1>3, TornKeeps DEF Kill
  <2> QED BY <1>3, <2>1 DEF Kill, OnDisk
<1>4. ASSUME NEW p \in Proc, SpillLands(p) \/ SpillFails(p) \/ MarkCall(p) \/ MarkFails(p)
      PROVE  OnDisk \subseteq OnDisk' /\ spill \subseteq spill'
  BY <1>4 DEF SpillLands, SpillFails, MarkCall, MarkFails, OnDisk
<1>5. CASE UNCHANGED <<records, spill>>
  BY <1>5 DEF OnDisk
<1>6. ASSUME NEW p \in Proc,
             \/ TakeLock(p) \/ LockTimesOut(p) \/ TruncateSeq(p) \/ WriteSeq(p) \/ SeqFails(p)
             \/ SyncLine(p) \/ SyncFails(p) \/ Close(p) \/ Cover(p) \/ CoverFails(p)
             \/ Flush(p) \/ FlushFails(p) \/ Begin(p) \/ Panic(p) \/ PanicInClose(p) \/ Signal(p)
      PROVE  UNCHANGED <<records, spill>>
  BY <1>6 DEF TakeLock, LockTimesOut, TruncateSeq, WriteSeq, SeqFails, SyncLine, SyncFails,
              Close, Cover, CoverFails, Flush, FlushFails, Begin, Panic, PanicInClose, Signal, disk
<1>7. CASE Probes \/ UNCHANGED vars
  BY <1>5, <1>7 DEF Probes, SessionStart, SessionEndRead, SessionEndCover, vars, disk
<1> QED
  BY <1>1, <1>2, <1>3, <1>4, <1>5, <1>6, <1>7 DEF Next, Step, Environment, Over

\* What a process keeps of its own when another moves.
Own(q) == <<pc[q], job[q], num[q], opened[q], err[q], reason[q], signalled[q], broken[q]>>

\* A step of a process is no other's.
LEMMA OthersStay ==
  ASSUME TypeOK, NEW p \in Proc, Step(p) \/ Environment(p)
  PROVE  \A q \in Proc \ {p} : Own(q)' = Own(q)
<1>1. CASE TakeLock(p) \/ LockTimesOut(p) \/ TruncateSeq(p) \/ WriteSeq(p) \/ AppendLine(p)
           \/ Close(p) \/ Cover(p) \/ CoverFails(p) \/ Flush(p) \/ FlushFails(p) \/ MarkCall(p)
           \/ MarkFails(p)
  BY <1>1 DEF TypeOK, Own, TakeLock, LockTimesOut, TruncateSeq, WriteSeq, AppendLine, Close, Cover,
              CoverFails, Flush, FlushFails, MarkCall, MarkFails, Move
<1>2. CASE SeqFails(p) \/ AppendFails(p) \/ SyncLine(p) \/ SyncFails(p) \/ SpillLands(p) \/ SpillFails(p)
  BY <1>2 DEF TypeOK, Own, SeqFails, AppendFails, SyncLine, SyncFails, SpillLands, SpillFails,
              Return, Move
<1>3. CASE Environment(p)
  BY <1>3 DEF TypeOK, Own, Environment, Begin, Panic, PanicInClose, Signal, Kill, Move
<1> QED BY <1>1, <1>2, <1>3 DEF Step

\* A probe moves no hook.
LEMMA ProbesStay ==
  ASSUME Probes \/ UNCHANGED vars
  PROVE  \A q \in Proc : Own(q)' = Own(q)
BY DEF Own, Probes, SessionStart, SessionEndRead, SessionEndCover, vars

-----------------------------------------------------------------------------
(* A failed sync and its marker.                                           *)

\* A process that returned with a failed sync has put its marker in the spill
\* file; a flush that finds the failure goes there and nowhere else.
LEMMA MarkStep ==
  ASSUME TypeOK, FailedSyncIsMarked, [Next]_vars
  PROVE  FailedSyncIsMarked'
<1> SUFFICES ASSUME NEW q \in Proc, pc'[q] = "done", broken'[q]
             PROVE  FlushFailedMarker(q)' \in Run.lines'
  BY DEF FailedSyncIsMarked
<1>1. /\ \A r \in Proc : FlushFailedMarker(r).kind = "terminal"
      /\ \A l \in spill' : Readable(l) => l \in Run.lines'
  BY DEF FlushFailedMarker, Run, Readable
<1>2. CASE pc[q] = "done" /\ Own(q)' = Own(q)
  <2>1. FlushFailedMarker(q)' = FlushFailedMarker(q)
    BY <1>2 DEF Own, FlushFailedMarker
  <2>2. FlushFailedMarker(q) \in Run.lines
    BY <1>2 DEF Own, FailedSyncIsMarked
  <2>3. Run.lines \subseteq Run.lines'
    BY LinesStay DEF Run, OnDisk, Readable
  <2> QED BY <2>1, <2>2, <2>3
<1>3. CASE MarkCall(q)
  <2>1. FlushFailedMarker(q)' = FlushFailedMarker(q) /\ FlushFailedMarker(q) \in spill'
    BY <1>3 DEF MarkCall, FlushFailedMarker
  <2> QED BY <1>1, <2>1 DEF Readable
<1>4. CASE Flush(q)
  BY <1>4 DEF Flush, TypeOK
<1>5. ASSUME Step(q) \/ Environment(q), ~MarkCall(q), ~Flush(q)
      PROVE  pc'[q] # "done"
  BY <1>5 DEF Step, Environment, TakeLock, LockTimesOut, TruncateSeq, WriteSeq, SeqFails, AppendLine,
              AppendFails, SyncLine, SyncFails, Close, SpillLands, SpillFails, Cover, CoverFails,
              FlushFails, MarkFails, Begin, Panic, PanicInClose, Signal, Kill, Return, Move, TypeOK,
              InLock
<1>6. Step(q) \/ Environment(q) \/ Own(q)' = Own(q)
  BY OthersStay, ProbesStay DEF Next, Over
<1>7. Own(q)' = Own(q) => pc[q] = "done"
  BY DEF Own
<1> QED BY <1>2, <1>3, <1>4, <1>5, <1>6, <1>7

\* A sync that failed in a hook that returned without a word on stderr is in the
\* store as a flush_failed marker of that hook, whatever else fails, in this
\* process or beside it (Store.syncFailed, flushOrMark).
THEOREM FailedSyncStaysMarked == Spec => []FailedSyncIsMarked
<1>1. Init => FailedSyncIsMarked
  BY DEF Init, FailedSyncIsMarked
<1>2. TypeOK /\ FailedSyncIsMarked /\ [Next]_vars => FailedSyncIsMarked'
  BY MarkStep
<1> QED
  BY <1>1, <1>2, TypeCorrect, PTL DEF Spec

-----------------------------------------------------------------------------
(* A session that reads verified.                                          *)

\* A process that has not begun has synced nothing.
Unbegun == \A p \in Proc : pc[p] = "idle" => ~broken[p]

\* Only a process that runs can fail a sync.
LEMMA UnbegunStep ==
  ASSUME TypeOK, Unbegun, [Next]_vars
  PROVE  Unbegun'
<1>1. ASSUME NEW p \in Proc, Step(p) \/ Environment(p) PROVE pc'[p] # "idle"
  BY <1>1 DEF Step, Environment, TakeLock, LockTimesOut, TruncateSeq, WriteSeq, SeqFails, AppendLine,
              AppendFails, SyncLine, SyncFails, Close, SpillLands, SpillFails, Cover, CoverFails,
              Flush, FlushFails, MarkCall, MarkFails, Begin, Panic, PanicInClose, Signal, Kill,
              Return, Move, TypeOK, InLock
<1>2. \A q \in Proc : Own(q)' = Own(q) => pc'[q] = pc[q] /\ broken'[q] = broken[q]
  BY DEF Own
<1> QED BY <1>1, <1>2, OthersStay, ProbesStay DEF Next, Over, Unbegun

\* A run that shows none of the report's reasons.
LEMMA NoReasonShows ==
  ASSUME NEW run, NEW transcript, Verified(run, transcript), NEW r \in ReportReasons
  PROVE  ~Shows(run, transcript, r)
BY DEF Verified, Reasons

\* A session that declared anything and reads verified is whole: no call Claude
\* Code issued is undeclared or open, no result is without its execution, and a
\* sync that was lost was lost by a process that said so on stderr or was
\* killed, whatever fails and however the hooks interleave (report.build).
THEOREM VerifiedSessionsAreWhole == Spec => []VerifiedSessionIsWhole
<1>1. Init => Unbegun /\ FailedSyncIsMarked
  BY DEF Init, Unbegun, FailedSyncIsMarked
<1>2. TypeOK /\ Unbegun /\ FailedSyncIsMarked /\ [Next]_vars => Unbegun' /\ FailedSyncIsMarked'
  BY UnbegunStep, MarkStep
<1>3. Unbegun /\ FailedSyncIsMarked => VerifiedSessionIsWhole
  <2> SUFFICES ASSUME Unbegun, FailedSyncIsMarked,
                      Settled, Declared(Run) # {}, Verified(Run, Transcript)
               PROVE  /\ Issued \subseteq Declared(Run) \ Unterminated(Run)
                      /\ Results \subseteq Executed(Run)
                      /\ \A p \in Proc : broken[p] => pc[p] \in {"unmarked", "killed"}
    BY DEF VerifiedSessionIsWhole
  <2>1. Accounted(Run, Transcript)
    BY DEF Accounted, Transcript
  <2>2. Issued = Declared(Run)
    <3>1. ~Shows(Run, Transcript, "transcript_mismatch")
      BY NoReasonShows DEF ReportReasons
    <3> QED BY <2>1, <3>1 DEF Shows, TranscriptMismatch, Transcript
  <2>3. Unterminated(Run) = {}
    <3>1. ~Shows(Run, Transcript, "unterminated_entry")
      BY NoReasonShows DEF ReportReasons
    <3> QED BY <3>1 DEF Shows
  <2>4. Results \subseteq Executed(Run)
    <3>1. ~Shows(Run, Transcript, "execution_mismatch")
      BY NoReasonShows DEF ReportReasons
    <3> QED BY <2>1, <3>1 DEF Shows, ExecutionMismatch, Transcript
  <2>5. ASSUME NEW p \in Proc, broken[p] PROVE pc[p] \in {"unmarked", "killed"}
    <3>1. \A l \in Run.lines : ~(IsKind(l, "terminal") /\ FlushFailed(l))
      <4>1. ~Shows(Run, Transcript, "flush_failed")
        BY NoReasonShows DEF ReportReasons
      <4> QED BY <4>1 DEF Shows
    <3>2. pc[p] # "done"
      <4>1. IsKind(FlushFailedMarker(p), "terminal") /\ FlushFailed(FlushFailedMarker(p))
        BY DEF FlushFailedMarker, IsKind, FlushFailed
      <4> QED BY <2>5, <3>1, <4>1 DEF FailedSyncIsMarked
    <3>3. pc[p] \in Finished
      BY <2>5 DEF Settled, Unbegun
    <3> QED BY <3>2, <3>3 DEF Finished
  <2> QED BY <2>2, <2>3, <2>4, <2>5
<1> QED
  BY <1>1, <1>2, <1>3, TypeCorrect, PTL DEF Spec

-----------------------------------------------------------------------------
(* A clean coverage record and the lines it vouches for.                   *)

\* A line of one kind about a call, which is no flush_failed marker.
Holds(kind, c) ==
  \E l \in OnDisk : l.kind = kind /\ l.id = c /\ l.reason # "flush_failed"

\* What a process has to show for a coverage record that gives no reason.
Backed(p) ==
  IF p[2] = "call" THEN opened[p] /\ Holds("terminal", p[1]) ELSE Holds("execution", p[1])

\* Where a process is, and what is on disk by then.
Grounded(p) ==
  /\ opened[p] => p[2] = "call" /\ Holds("declaration", p[1])
  /\ pc[p] # "idle" => (p[2] = "post" <=> job[p] = "execution")
  /\ pc[p] = "close" => job[p] # "terminal"
  /\ pc[p] = "spill" => job[p] # "declaration"
  /\ pc[p] = "close" /\ err[p] = "none" =>
       IF p[2] = "call" THEN opened[p] ELSE Holds("execution", p[1])
  /\ pc[p] = "written" => OrderedLine(p) \in OnDisk
  /\ pc[p] = "cover" /\ reason[p] = "none" => Backed(p)
  /\ job[p] = "terminal" /\ reason[p] = "none" => opened[p]

ClaimInv == (\A p \in Proc : Grounded(p)) /\ CleanCoverageIsBacked

\* What is on disk stays there.
LEMMA HoldsStays ==
  ASSUME OnDisk \subseteq OnDisk', NEW kind, NEW c, Holds(kind, c)
  PROVE  Holds(kind, c)'
BY DEF Holds

\* A step that moves nothing of a process leaves it grounded.
LEMMA GroundedStays ==
  ASSUME OnDisk \subseteq OnDisk', NEW q \in Proc, Own(q)' = Own(q), Grounded(q)
  PROVE  Grounded(q)'
<1>1. /\ pc'[q] = pc[q] /\ job'[q] = job[q] /\ num'[q] = num[q] /\ opened'[q] = opened[q]
      /\ err'[q] = err[q] /\ reason'[q] = reason[q]
  BY DEF Own
<1>2. OrderedLine(q)' = OrderedLine(q)
  BY <1>1 DEF OrderedLine
<1>3. Backed(q) => Backed(q)'
  BY <1>1, HoldsStays DEF Backed
<1> QED BY <1>1, <1>2, <1>3, HoldsStays DEF Grounded

\* A claim that stands on the disk goes on standing.
LEMMA ClaimStays ==
  ASSUME TypeOK, [Next]_vars, CleanCoverageIsBacked,
         \A r \in coverage' \ coverage :
           /\ r.phase = "call" /\ r.reason = "none" => Holds("declaration", r.id) /\ Holds("terminal", r.id)
           /\ r.phase = "post" /\ r.reason = "none" => Holds("execution", r.id)
  PROVE  CleanCoverageIsBacked'
<1>1. \A kind, c : Holds(kind, c) => Holds(kind, c)'
  BY LinesStay, HoldsStays
<1>2. \A c : /\ Holds("declaration", c)' /\ Holds("terminal", c)' => c \in (Declared(Run) \ Unterminated(Run))'
             /\ Holds("execution", c)' => c \in Executed(Run)'
  BY DEF Holds, OnDisk, Run, Readable, Declared, Declarations, Unterminated, Closing, Executed, Ids, IsKind, FlushFailed
<1>3. Run.lines \subseteq Run.lines'
  BY LinesStay DEF OnDisk, Run, Readable
<1>4. /\ Declared(Run) \ Unterminated(Run) \subseteq (Declared(Run) \ Unterminated(Run))'
      /\ Executed(Run) \subseteq Executed(Run)'
  BY <1>3 DEF Declared, Declarations, Unterminated, Closing, Executed, Ids, IsKind, FlushFailed
<1> QED BY <1>1, <1>2, <1>4 DEF CleanCoverageIsBacked

\* An append that came back has left its line on disk.
LEMMA LandedLine ==
  ASSUME TypeOK, [Next]_vars, NEW p \in Proc, Grounded(p), SyncLine(p) \/ SpillLands(p)
  PROVE  Holds(job[p], p[1])'
<1>1. OrderedLine(p) \in OnDisk' \/ SpillLine(p) \in OnDisk'
  BY LinesStay DEF SyncLine, SpillLands, Grounded, OnDisk
<1>2. reason[p] # "flush_failed"
  BY DEF TypeOK, CloseReasons
<1>3. \A l \in {OrderedLine(p), SpillLine(p)} :
        l.kind = job[p] /\ l.id = p[1] /\ l.reason # "flush_failed"
  BY <1>2 DEF OrderedLine, SpillLine
<1>4. \E l \in OnDisk' : l.kind = job[p] /\ l.id = p[1] /\ l.reason # "flush_failed"
  BY <1>1, <1>3
<1>5. job'[p] = job[p]
  BY DEF SyncLine, SpillLands
<1> QED BY <1>4, <1>5 DEF Holds

\* Each step of a process leaves it grounded.
LEMMA GroundedStep ==
  ASSUME TypeOK, [Next]_vars, NEW p \in Proc, Grounded(p), Step(p) \/ Environment(p)
  PROVE  Grounded(p)'
<1>1. OnDisk \subseteq OnDisk' /\ \A kind, c : Holds(kind, c) => Holds(kind, c)'
  BY LinesStay, HoldsStays
<1>2. p[1] \in Calls /\ p[2] \in {"call", "post"}
  BY ProcFacts
<1>3. CASE TakeLock(p) \/ TruncateSeq(p) \/ WriteSeq(p)
  BY <1>1, <1>2, <1>3 DEF TypeOK, Grounded, TakeLock, TruncateSeq, WriteSeq, Move
<1>4. CASE LockTimesOut(p)
  BY <1>1, <1>2, <1>4 DEF TypeOK, Grounded, LockTimesOut, Move
<1>5. CASE SeqFails(p) \/ AppendFails(p) \/ SyncFails(p) \/ SpillFails(p)
  <2>1. Return(p, FALSE) /\ UNCHANGED job /\ pc[p] # "idle"
    BY <1>5 DEF SeqFails, AppendFails, SyncFails, SpillFails
  <2> QED BY <1>1, <1>2, <2>1 DEF TypeOK, Grounded, Return, Move
<1>6. CASE AppendLine(p)
  <2>1. OrderedLine(p)' = OrderedLine(p) /\ OrderedLine(p) \in OnDisk'
    BY <1>6, AppendKeeps DEF AppendLine, AppendHealed, OrderedLine, OnDisk
  <2> QED BY <1>1, <1>2, <1>6, <2>1 DEF TypeOK, Grounded, AppendLine, Move
<1>7. CASE SyncLine(p) \/ SpillLands(p)
  <2>1. Return(p, TRUE) /\ UNCHANGED job /\ pc[p] # "idle"
    BY <1>7 DEF SyncLine, SpillLands
  <2>2. Holds(job[p], p[1])'
    BY <1>7, LandedLine
  <2>3. pc[p] = "spill" => job[p] # "declaration"
    BY DEF Grounded
  <2> QED BY <1>1, <1>2, <2>1, <2>2 DEF TypeOK, Grounded, Return, Move, Backed
<1>8. CASE Close(p)
  BY <1>1, <1>2, <1>8 DEF TypeOK, Grounded, Close, OwesTerminal, Move, Backed
<1>9. CASE Cover(p) \/ CoverFails(p) \/ Flush(p) \/ FlushFails(p) \/ MarkCall(p) \/ MarkFails(p)
  BY <1>1, <1>2, <1>9 DEF TypeOK, Grounded, Cover, CoverFails, Flush, FlushFails, MarkCall, MarkFails, Move
<1>10. CASE Begin(p)
  BY <1>1, <1>2, <1>10 DEF TypeOK, Grounded, Begin, Move
<1>11. CASE Panic(p) \/ PanicInClose(p)
  BY <1>1, <1>2, <1>11 DEF TypeOK, Grounded, Panic, PanicInClose, Move
<1>12. CASE Signal(p)
  <2>1. OrderedLine(p)' = OrderedLine(p) /\ UNCHANGED <<pc, job, opened, err, reason>>
    BY <1>12 DEF Signal, OrderedLine
  <2>2. Backed(p) => Backed(p)'
    BY <1>1, <2>1 DEF Backed
  <2>3. pc[p] = "written" => OrderedLine(p)' \in OnDisk'
    BY <1>1, <2>1 DEF Grounded
  <2> QED BY <1>1, <2>1, <2>2, <2>3 DEF Grounded
<1>13. CASE Kill(p)
  BY <1>1, <1>2, <1>13 DEF TypeOK, Grounded, Kill, Move, Active
<1> QED
  BY <1>3, <1>4, <1>5, <1>6, <1>7, <1>8, <1>9, <1>10, <1>11, <1>12, <1>13 DEF Step, Environment

\* Each step keeps every process grounded and every claim backed.
LEMMA ClaimStep ==
  ASSUME TypeOK, ClaimInv, [Next]_vars
  PROVE  ClaimInv'
<1>1. OnDisk \subseteq OnDisk'
  BY LinesStay
<1>2. ASSUME NEW p \in Proc, Step(p) \/ Environment(p)
      PROVE  \A q \in Proc : Grounded(q)'
  <2>1. Grounded(p)'
    BY <1>2, GroundedStep DEF ClaimInv
  <2>2. \A q \in Proc \ {p} : Grounded(q)'
    BY <1>1, <1>2, OthersStay, GroundedStays DEF ClaimInv
  <2> QED BY <2>1, <2>2
<1>3. CASE Probes \/ UNCHANGED vars
  <2>1. \A q \in Proc : Grounded(q)'
    BY <1>1, <1>3, ProbesStay, GroundedStays DEF ClaimInv
  <2>2. \A r \in coverage' \ coverage : r.phase \in {"start", "end"}
    BY <1>3 DEF Probes, SessionStart, SessionEndRead, SessionEndCover, ProbeCover, ProbeRecord, vars, disk
  <2>3. CleanCoverageIsBacked'
    BY <2>2, ClaimStays DEF ClaimInv
  <2> QED BY <2>1, <2>3 DEF ClaimInv
<1>4. ASSUME NEW p \in Proc, Cover(p) \/ CoverFails(p)
      PROVE  CleanCoverageIsBacked'
  <2>1. \A r \in coverage' \ coverage : pc[p] = "cover" /\ \E config \in Resolved : r = CallCoverage(p, config)
    BY <1>4 DEF Cover, CoverFails
  <2>2. \A r \in coverage' \ coverage :
          /\ r.id = p[1] /\ r.phase = p[2]
          /\ r.reason = "none" => reason[p] = "none" /\ pc[p] = "cover"
    BY <2>1 DEF CallCoverage
  <2>3. Grounded(p)
    BY DEF ClaimInv
  <2>4. \A r \in coverage' \ coverage :
          /\ r.phase = "call" /\ r.reason = "none" => Holds("declaration", r.id) /\ Holds("terminal", r.id)
          /\ r.phase = "post" /\ r.reason = "none" => Holds("execution", r.id)
    BY <2>2, <2>3 DEF Grounded, Backed
  <2> QED BY <2>4, ClaimStays DEF ClaimInv
<1>5. ASSUME NEW p \in Proc, Step(p) \/ Environment(p), ~Cover(p), ~CoverFails(p)
      PROVE  coverage' = coverage
  BY <1>5 DEF Step, Environment, TakeLock, LockTimesOut, TruncateSeq, WriteSeq, SeqFails, AppendLine,
              AppendFails, SyncLine, SyncFails, Close, SpillLands, SpillFails, Flush, FlushFails,
              MarkCall, MarkFails, Begin, Panic, PanicInClose, Signal, Kill, disk
<1>6. coverage' = coverage => CleanCoverageIsBacked'
  BY ClaimStays DEF ClaimInv
<1> QED
  BY <1>2, <1>3, <1>4, <1>5, <1>6 DEF ClaimInv, Next, Over

\* A coverage record that gives no reason is backed, then and ever after, by the
\* call's declaration and a terminal that closes it, or by its execution,
\* whatever fails, panics or is killed (Handler.Close, BuildCoverage).
THEOREM CleanCoverageStaysBacked == Spec => []CleanCoverageIsBacked
<1>1. Init => ClaimInv
  BY DEF Init, ClaimInv, Grounded, CleanCoverageIsBacked
<1>2. TypeOK /\ ClaimInv /\ [Next]_vars => ClaimInv'
  BY ClaimStep
<1>3. ClaimInv => CleanCoverageIsBacked
  BY DEF ClaimInv
<1> QED
  BY <1>1, <1>2, <1>3, TypeCorrect, PTL DEF Spec

-----------------------------------------------------------------------------
(* A declaration and its terminal.                                         *)

\* A declaration on disk is a call's, and its process knows of it.
Owned ==
  \A l \in OnDisk : l.kind = "declaration" =>
    /\ l.id \in Calls
    /\ \/ opened[<<l.id, "call">>]
       \/ pc[<<l.id, "call">>] = "killed"
       \/ pc[<<l.id, "call">>] = "written" /\ job[<<l.id, "call">>] = "declaration"

\* A process past its Close has closed what it opened.
ClosedBy(p) ==
  opened[p] /\ pc[p] \in {"cover", "flush", "mark", "done", "unmarked"} => Holds("terminal", p[1])

CloseInv == Owned /\ \A p \in Proc : ClosedBy(p)

\* The declarations a step puts on disk.
LEMMA NewDeclaration ==
  ASSUME TypeOK, ClaimInv, [Next]_vars, NEW l \in OnDisk' \ OnDisk, l.kind = "declaration",
         NEW p \in Proc, Step(p) \/ Environment(p)
  PROVE  /\ l.id = p[1] /\ p[2] = "call" /\ job[p] = "declaration"
         /\ AppendLine(p) \/ AppendFails(p) \/ Kill(p)
<1>1. Grounded(p)
  BY DEF ClaimInv
<1>2. CASE AppendLine(p) \/ AppendFails(p) \/ (Kill(p) /\ pc[p] = "numbered")
  <2>1. LinesOf(records') \subseteq LinesOf(records) \cup {OrderedLine(p), Fragment} /\ spill' = spill
    BY <1>2, AppendKeeps, TornKeeps, ZenonT(40) DEF AppendLine, AppendHealed, AppendFails, Kill
  <2>2. l = OrderedLine(p)
    BY <2>1 DEF OnDisk, Fragment
  <2>3. pc[p] # "idle" /\ p[2] \in {"call", "post"}
    BY <1>2, ProcFacts DEF AppendLine, AppendFails, Kill
  <2> QED BY <1>1, <1>2, <2>2, <2>3 DEF OrderedLine, Grounded
<1>3. CASE SpillLands(p) \/ SpillFails(p) \/ MarkCall(p) \/ MarkFails(p) \/ (Kill(p) /\ pc[p] # "numbered")
  <2>1. /\ records' = records
        /\ spill' \subseteq spill \cup {Fragment, FlushFailedMarker(p)} \cup
                            (IF pc[p] = "spill" THEN {SpillLine(p)} ELSE {})
    BY <1>3 DEF SpillLands, SpillFails, MarkCall, MarkFails, Kill, Spilling
  <2>2. l \in {Fragment, FlushFailedMarker(p)} \/ (l = SpillLine(p) /\ pc[p] = "spill")
    BY <2>1 DEF OnDisk
  <2>3. SpillLine(p).kind = job[p] /\ Fragment.kind = "damaged" /\ FlushFailedMarker(p).kind = "terminal"
    BY DEF SpillLine, OrderedLine, Fragment, FlushFailedMarker
  <2> QED BY <1>1, <2>2, <2>3 DEF Grounded
<1>4. ASSUME \/ TakeLock(p) \/ LockTimesOut(p) \/ TruncateSeq(p) \/ WriteSeq(p) \/ SeqFails(p)
             \/ SyncLine(p) \/ SyncFails(p) \/ Close(p) \/ Cover(p) \/ CoverFails(p)
             \/ Flush(p) \/ FlushFails(p) \/ Begin(p) \/ Panic(p) \/ PanicInClose(p) \/ Signal(p)
      PROVE  OnDisk' = OnDisk
  BY <1>4 DEF TakeLock, LockTimesOut, TruncateSeq, WriteSeq, SeqFails, SyncLine, SyncFails, OnDisk,
              Close, Cover, CoverFails, Flush, FlushFails, Begin, Panic, PanicInClose, Signal, disk
<1> QED BY <1>2, <1>3, <1>4 DEF Step, Environment

\* What no write, no sync and no panic of Close's can fail.
Unfailing == Faults \cap {"write", "sync", "panic_in_close"} = {}

\* A process goes on knowing of its declaration, and closes it before it leaves.
LEMMA CloseOwnStep ==
  ASSUME Unfailing, TypeOK, [Next]_vars, NEW p \in Proc, Grounded(p), ClosedBy(p),
         Step(p) \/ Environment(p)
  PROVE  /\ ClosedBy(p)'
         /\ \/ opened[p] \/ pc[p] = "killed"
            \/ pc[p] = "written" /\ job[p] = "declaration"
            => \/ opened'[p] \/ pc'[p] = "killed"
               \/ pc'[p] = "written" /\ job'[p] = "declaration"
         /\ AppendLine(p) \/ Kill(p) => pc'[p] \in {"written", "killed"} /\ job'[p] = job[p]
<1>1. \A kind, c : Holds(kind, c) => Holds(kind, c)'
  BY LinesStay, HoldsStays
<1>2. CASE TakeLock(p) \/ TruncateSeq(p) \/ WriteSeq(p) \/ AppendLine(p) \/ LockTimesOut(p)
  BY <1>1, <1>2 DEF TypeOK, ClosedBy, TakeLock, TruncateSeq, WriteSeq, AppendLine, LockTimesOut, Move, Kill
<1>3. CASE SyncLine(p) \/ SpillLands(p)
  <2>1. Return(p, TRUE) /\ UNCHANGED job
    BY <1>3 DEF SyncLine, SpillLands
  <2>2. Holds(job[p], p[1])'
    BY <1>3, LandedLine
  <2> QED BY <1>1, <1>3, <2>1, <2>2 DEF TypeOK, ClosedBy, Return, Move, SyncLine, SpillLands, AppendLine, Kill
<1>4. CASE Close(p)
  BY <1>1, <1>4 DEF TypeOK, Grounded, ClosedBy, Close, OwesTerminal, Move, AppendLine, Kill
<1>5. CASE Cover(p) \/ CoverFails(p) \/ Flush(p) \/ FlushFails(p) \/ MarkCall(p) \/ MarkFails(p)
  BY <1>1, <1>5 DEF TypeOK, ClosedBy, Cover, CoverFails, Flush, FlushFails, MarkCall, MarkFails, Move, AppendLine, Kill
<1>6. CASE Begin(p) \/ Panic(p) \/ Signal(p)
  BY <1>1, <1>6 DEF TypeOK, ClosedBy, Begin, Panic, Signal, Move, InLock, AppendLine, Kill
<1>7. CASE Kill(p)
  BY <1>1, <1>7 DEF TypeOK, ClosedBy, Kill, Move
<1>8. ~SeqFails(p) /\ ~AppendFails(p) /\ ~SyncFails(p) /\ ~SpillFails(p) /\ ~PanicInClose(p)
  BY DEF Unfailing, SeqFails, AppendFails, SyncFails, SpillFails, PanicInClose
<1> QED BY <1>2, <1>3, <1>4, <1>5, <1>6, <1>7, <1>8 DEF Step, Environment

\* Each step keeps declarations owned and closed.
LEMMA CloseStep ==
  ASSUME Unfailing, TypeOK, ClaimInv, CloseInv, [Next]_vars
  PROVE  CloseInv'
<1>1. \A kind, c : Holds(kind, c) => Holds(kind, c)'
  BY LinesStay, HoldsStays
<1>2. \A q \in Proc : Own(q)' = Own(q) =>
        /\ pc'[q] = pc[q] /\ job'[q] = job[q] /\ opened'[q] = opened[q] /\ ClosedBy(q)'
  BY <1>1 DEF Own, CloseInv, ClosedBy
<1>3. ASSUME NEW p \in Proc, Step(p) \/ Environment(p) PROVE CloseInv'
  <2>1. \A q \in Proc : ClosedBy(q)'
    BY <1>2, <1>3, OthersStay, CloseOwnStep DEF CloseInv, ClaimInv
  <2>2. ASSUME NEW l \in OnDisk', l.kind = "declaration"
        PROVE  /\ l.id \in Calls
               /\ \/ opened'[<<l.id, "call">>]
                  \/ pc'[<<l.id, "call">>] = "killed"
                  \/ pc'[<<l.id, "call">>] = "written" /\ job'[<<l.id, "call">>] = "declaration"
    <3>1. CASE l \in OnDisk
      <4>1. PICK q \in Proc : q = <<l.id, "call">> /\ l.id \in Calls
        <5>1. l.id \in Calls
          BY <2>2, <3>1 DEF CloseInv, Owned
        <5>2. <<l.id, "call">> \in Proc
          BY <5>1 DEF Proc
        <5> QED BY <5>1, <5>2
      <4>2. \/ opened[q] \/ pc[q] = "killed"
            \/ pc[q] = "written" /\ job[q] = "declaration"
        BY <2>2, <3>1, <4>1 DEF CloseInv, Owned
      <4>3. CASE q = p
        BY <1>3, <4>1, <4>2, <4>3, CloseOwnStep DEF CloseInv, ClaimInv
      <4>4. CASE q # p
        BY <1>2, <1>3, <4>1, <4>2, <4>4, OthersStay
      <4> QED BY <4>3, <4>4
    <3>2. CASE l \notin OnDisk
      <4>1. /\ l.id = p[1] /\ p[2] = "call" /\ job[p] = "declaration"
            /\ AppendLine(p) \/ AppendFails(p) \/ Kill(p)
        BY <1>3, <2>2, <3>2, NewDeclaration
      <4>2. ~AppendFails(p)
        BY DEF Unfailing, AppendFails
      <4>3. p = <<l.id, "call">> /\ l.id \in Calls
        BY <4>1, ProcFacts DEF Proc
      <4>4. pc'[p] \in {"written", "killed"} /\ job'[p] = job[p]
        BY <1>3, <4>1, <4>2, CloseOwnStep DEF CloseInv, ClaimInv
      <4> QED BY <4>1, <4>3, <4>4
    <3> QED BY <3>1, <3>2
  <2> QED BY <2>1, <2>2 DEF CloseInv, Owned
<1>4. CASE Probes \/ UNCHANGED vars
  <2>1. \A q \in Proc : Own(q)' = Own(q)
    BY <1>4, ProbesStay
  <2>2. OnDisk' = OnDisk
    BY <1>4 DEF OnDisk, Probes, SessionStart, SessionEndRead, SessionEndCover, vars, disk
  <2>3. \A c \in Calls : <<c, "call">> \in Proc
    BY DEF Proc
  <2> QED BY <1>2, <2>1, <2>2, <2>3 DEF CloseInv, Owned
<1> QED BY <1>3, <1>4 DEF Next, Over

\* A hook that leaves by an exit it controls, a clean or an error return, SIGTERM
\* or a recovered panic, has closed the declaration it opened, whatever is killed
\* beside it, where no write, no sync and no panic inside Close fails
\* (Handler.Close).
THEOREM DeclarationsAreClosed ==
  ASSUME Unfailing
  PROVE  Spec => []EveryDeclarationIsClosed
<1>1. Init => ClaimInv /\ CloseInv
  BY DEF Init, ClaimInv, Grounded, CleanCoverageIsBacked, CloseInv, Owned, ClosedBy, OnDisk, LinesOf
<1>2. TypeOK /\ ClaimInv /\ CloseInv /\ [Next]_vars => ClaimInv' /\ CloseInv'
  BY ClaimStep, CloseStep
<1>3. CloseInv => EveryDeclarationIsClosed
  <2> SUFFICES ASSUME CloseInv, NEW c \in Declared(Run), pc[<<c, "call">>] \in {"done", "unmarked"}
               PROVE  c \notin Unterminated(Run)
    BY DEF EveryDeclarationIsClosed
  <2>1. PICK l \in OnDisk : l.kind = "declaration" /\ l.id = c
    BY DEF Declared, Declarations, Ids, IsKind, Run, OnDisk
  <2>2. <<c, "call">> \in Proc /\ opened[<<c, "call">>]
    BY <2>1 DEF CloseInv, Owned, Proc
  <2>3. Holds("terminal", c)
    BY <2>2 DEF CloseInv, ClosedBy
  <2> QED BY <2>3 DEF Holds, OnDisk, Unterminated, Closing, Ids, IsKind, FlushFailed, Run, Readable
<1> QED
  BY <1>1, <1>2, <1>3, TypeCorrect, PTL DEF Spec

-----------------------------------------------------------------------------
(* The hook processes implement the evidence log.                          *)

Recs == LinesOf(records)

\* Where a process is before its line has landed.
Before == {"idle", "wait", "locked", "truncated", "numbered"}

\* A line of one kind about a call, in the records.
InRecords(kind, c) == \E l \in Recs : l.kind = kind /\ l.id = c

\* What the records hold of a process, and where it is.
Placed(p) ==
  /\ p[2] = "call" /\ InRecords("terminal", p[1]) => job[p] = "terminal" /\ pc[p] \notin Before
  /\ p[2] = "call" /\ InRecords("declaration", p[1]) => job[p] = "terminal" \/ pc[p] \notin Before
  /\ p[2] = "post" /\ InRecords("execution", p[1]) => pc[p] \notin Before
  /\ opened[p] => InRecords("declaration", p[1])
  /\ pc[p] \in Before /\ job[p] = "terminal" => opened[p]
  /\ pc[p] = "idle" => job[p] = "declaration"
  /\ pc[p] = "written" => InRecords(job[p], p[1])

LogInv == \A p \in Proc : Grounded(p) /\ Placed(p)

\* What a step of a process does to the records: nothing, a fragment, or the
\* line it was about to write, whole.
LEMMA RecordsStep ==
  ASSUME TypeOK, NEW p \in Proc, Step(p) \/ Environment(p)
  PROVE  \/ Recs' = Recs \/ Recs' = Recs \cup {Fragment}
         \/ /\ Recs' = Recs \cup {OrderedLine(p)} /\ pc[p] = "numbered"
            /\ pc'[p] \notin Before /\ job'[p] = job[p]
<1>1. ASSUME NEW line, records' = Append(records, line)
      PROVE  Recs' = Recs \cup {line}
  BY <1>1, AppendKeeps DEF Recs, LinesOf
<1>2. CASE AppendLine(p)
  BY <1>1, <1>2 DEF AppendLine, AppendHealed, Move, TypeOK, Before
<1>3. CASE AppendFails(p)
  <2>1. pc'[p] \notin Before /\ job'[p] = job[p] /\ pc[p] = "numbered"
    BY <1>3 DEF AppendFails, Return, Move, TypeOK, Before
  <2> QED BY <1>1, <1>3, <2>1 DEF AppendFails, TornWrite, Recs, LinesOf
<1>4. CASE Kill(p)
  <2>1. pc'[p] \notin Before /\ job'[p] = job[p]
    BY <1>4 DEF Kill, Move, TypeOK, Before
  <2>2. CASE pc[p] = "numbered"
    BY <1>1, <1>4, <2>1, <2>2 DEF Kill, TornWrite, Recs, LinesOf
  <2>3. CASE pc[p] # "numbered"
    BY <1>4, <2>3 DEF Kill, Recs, LinesOf
  <2> QED BY <2>2, <2>3
<1>5. ASSUME ~AppendLine(p), ~AppendFails(p), ~Kill(p)
      PROVE  records' = records
  BY <1>5 DEF Step, Environment, TakeLock, LockTimesOut, TruncateSeq, WriteSeq, SeqFails, SyncLine,
              SyncFails, Close, SpillLands, SpillFails, Cover, CoverFails, Flush, FlushFails,
              MarkCall, MarkFails, Begin, Panic, PanicInClose, Signal, disk
<1> QED BY <1>2, <1>3, <1>4, <1>5 DEF Recs, LinesOf

\* The lines a step adds are the process's own.
LEMMA NewRecord ==
  ASSUME TypeOK, NEW p \in Proc, Grounded(p), Step(p) \/ Environment(p),
         NEW kind \in {"declaration", "terminal", "execution"}, NEW c,
         InRecords(kind, c)', ~InRecords(kind, c)
  PROVE  /\ kind = job[p] /\ c = p[1] /\ pc[p] = "numbered" /\ (p[2] = "post" <=> kind = "execution")
         /\ pc'[p] \notin Before /\ job'[p] = job[p]
<1>1. PICK l \in Recs' : l.kind = kind /\ l.id = c
  BY DEF InRecords
<1>2. l \notin Recs
  BY <1>1 DEF InRecords
<1>3. Fragment.kind = "damaged"
  BY DEF Fragment
<1>4. l = OrderedLine(p) /\ pc[p] = "numbered" /\ pc'[p] \notin Before /\ job'[p] = job[p]
  BY <1>1, <1>2, <1>3, RecordsStep
<1>5. OrderedLine(p).kind = job[p] /\ OrderedLine(p).id = p[1]
  BY DEF OrderedLine
<1>6. p[2] = "post" <=> job[p] = "execution"
  BY <1>4 DEF Grounded
<1> QED BY <1>1, <1>4, <1>5, <1>6

\* Lines stay in the records.
LEMMA RecordsStay ==
  ASSUME TypeOK, NEW p \in Proc, Step(p) \/ Environment(p), NEW kind, NEW c, InRecords(kind, c)
  PROVE  InRecords(kind, c)'
BY RecordsStep DEF InRecords

\* Each step of a process keeps its own lines placed.
LEMMA PlacedStep ==
  ASSUME TypeOK, [Next]_vars, NEW p \in Proc, Grounded(p), Placed(p), Step(p) \/ Environment(p)
  PROVE  Placed(p)'
<1>1. \A kind, c : InRecords(kind, c) => InRecords(kind, c)'
  BY RecordsStay
<1>2. p[1] \in Calls /\ p[2] \in {"call", "post"}
  BY ProcFacts
<1>3. \A kind \in {"declaration", "terminal", "execution"} :
        InRecords(kind, p[1])' /\ pc[p] # "numbered" => InRecords(kind, p[1])
  BY NewRecord
<1>4. CASE TakeLock(p) \/ TruncateSeq(p) \/ WriteSeq(p) \/ LockTimesOut(p)
  BY <1>1, <1>2, <1>3, <1>4 DEF TypeOK, Placed, TakeLock, TruncateSeq, WriteSeq, LockTimesOut, Move, Before
<1>5. CASE SeqFails(p) \/ SyncFails(p) \/ SpillFails(p) \/ SpillLands(p)
  <2>1. /\ pc'[p] \in {"cover", "close"} /\ job'[p] = job[p] /\ opened'[p] = opened[p]
        /\ pc[p] \in {"truncated", "written", "spill"}
    <3>1. pc[p] = "spill" => job[p] # "declaration"
      BY DEF Grounded
    <3> QED BY <1>5, <3>1 DEF TypeOK, SeqFails, SyncFails, SpillFails, SpillLands, Return, Move
  <2> QED BY <1>1, <1>2, <1>3, <2>1 DEF Placed, Before
<1>6. CASE SyncLine(p)
  <2>1. /\ pc'[p] \in {"cover", "close"} /\ job'[p] = job[p] /\ pc[p] = "written"
        /\ opened'[p] => opened[p] \/ job[p] = "declaration"
    BY <1>6 DEF TypeOK, SyncLine, Return, Move
  <2>2. job[p] = "declaration" => InRecords("declaration", p[1])'
    BY <1>1, <2>1 DEF Placed
  <2> QED BY <1>1, <1>2, <1>3, <2>1, <2>2 DEF Placed, Before
<1>7. CASE AppendLine(p) \/ AppendFails(p) \/ Kill(p)
  <2>1. /\ pc'[p] \notin Before /\ job'[p] = job[p]
        /\ opened'[p] => opened[p]
    BY <1>7 DEF TypeOK, AppendLine, AppendFails, Kill, Return, Move, Before
  <2>2. InRecords("terminal", p[1])' => InRecords("terminal", p[1]) \/ job[p] = "terminal"
    BY NewRecord
  <2>3. pc'[p] = "written" => InRecords(job[p], p[1])'
    <3>1. CASE AppendLine(p)
      <4>1. OrderedLine(p) \in Recs'
        BY <3>1, AppendKeeps DEF AppendLine, AppendHealed, Recs, LinesOf
      <4>2. OrderedLine(p).kind = job[p] /\ OrderedLine(p).id = p[1]
        BY DEF OrderedLine
      <4> QED BY <4>1, <4>2, <2>1 DEF InRecords
    <3>2. CASE AppendFails(p) \/ Kill(p)
      BY <3>2 DEF TypeOK, AppendFails, Kill, Return, Move
    <3> QED BY <1>7, <3>1, <3>2
  <2>4. pc'[p] # "idle"
    BY <2>1 DEF Before
  <2> QED BY <1>1, <2>1, <2>2, <2>3, <2>4 DEF Placed
<1>8. CASE Close(p)
  BY <1>1, <1>2, <1>3, <1>8 DEF TypeOK, Grounded, Placed, Close, OwesTerminal, Move, Before
<1>9. CASE Cover(p) \/ CoverFails(p) \/ Flush(p) \/ FlushFails(p) \/ MarkCall(p) \/ MarkFails(p)
  BY <1>1, <1>2, <1>3, <1>9 DEF TypeOK, Placed, Cover, CoverFails, Flush, FlushFails, MarkCall, MarkFails, Move, Before
<1>10. CASE Begin(p)
  BY <1>1, <1>2, <1>3, <1>10 DEF TypeOK, Placed, Begin, Move, Before
<1>11. CASE Panic(p) \/ PanicInClose(p) \/ Signal(p)
  <2>1. UNCHANGED <<records, job, opened>> /\ (pc' = pc \/ pc' = [pc EXCEPT ![p] = "close"] \/ pc' = [pc EXCEPT ![p] = "flush"])
    BY <1>11 DEF Panic, PanicInClose, Signal, Move, disk
  <2>2. \A kind, c : InRecords(kind, c)' = InRecords(kind, c)
    BY <2>1 DEF InRecords, Recs, LinesOf
  <2>3. pc'[p] \in {pc[p], "close", "flush"}
    BY <2>1 DEF TypeOK
  <2> QED BY <2>1, <2>2, <2>3 DEF Placed, Before
<1> QED
  BY <1>4, <1>5, <1>6, <1>7, <1>8, <1>9, <1>10, <1>11 DEF Step, Environment

\* A step of a process leaves another's lines placed.
LEMMA PlacedStays ==
  ASSUME TypeOK, NEW p \in Proc, Grounded(p), Step(p) \/ Environment(p),
         NEW q \in Proc \ {p}, Placed(q)
  PROVE  Placed(q)'
<1>1. pc'[q] = pc[q] /\ job'[q] = job[q] /\ opened'[q] = opened[q]
  BY OthersStay DEF Own
<1>2. \A kind, c : InRecords(kind, c) => InRecords(kind, c)'
  BY RecordsStay
<1>3. /\ q[2] = "call" /\ InRecords("terminal", q[1])' => InRecords("terminal", q[1])
      /\ q[2] = "call" /\ InRecords("declaration", q[1])' => InRecords("declaration", q[1])
      /\ q[2] = "post" /\ InRecords("execution", q[1])' => InRecords("execution", q[1])
  <2>1. p[1] # q[1] \/ p[2] # q[2]
    BY DEF Proc
  <2>2. p[2] \in {"call", "post"}
    BY ProcFacts
  <2> QED BY <2>1, <2>2, NewRecord
<1> QED BY <1>1, <1>2, <1>3 DEF Placed

\* Each step keeps every process grounded and placed.
LEMMA LogInvStep ==
  ASSUME TypeOK, ClaimInv, LogInv, [Next]_vars
  PROVE  LogInv'
<1>1. \A q \in Proc : Grounded(q)'
  BY ClaimStep DEF ClaimInv
<1>2. ASSUME NEW p \in Proc, Step(p) \/ Environment(p)
      PROVE  \A q \in Proc : Placed(q)'
  BY <1>2, PlacedStep, PlacedStays DEF LogInv
<1>3. CASE Probes \/ UNCHANGED vars
  <2>1. \A q \in Proc : pc'[q] = pc[q] /\ job'[q] = job[q] /\ opened'[q] = opened[q]
    BY <1>3, ProbesStay DEF Own
  <2>2. \A kind, c : InRecords(kind, c)' <=> InRecords(kind, c)
    BY <1>3 DEF InRecords, Recs, LinesOf, Probes, SessionStart, SessionEndRead, SessionEndCover, vars, disk
  <2>3. ASSUME NEW q \in Proc
        PROVE  Placed(q)'
    <3>1. Placed(q)
      BY DEF LogInv
    <3>2. pc'[q] = pc[q] /\ job'[q] = job[q] /\ opened'[q] = opened[q]
      BY <2>1
    <3>3. /\ InRecords("terminal", q[1])' <=> InRecords("terminal", q[1])
          /\ InRecords("declaration", q[1])' <=> InRecords("declaration", q[1])
          /\ InRecords("execution", q[1])' <=> InRecords("execution", q[1])
          /\ InRecords(job[q], q[1])' <=> InRecords(job[q], q[1])
      BY <2>2, <3>2
    <3> QED BY <3>1, <3>2, <3>3 DEF Placed, Before
  <2> QED BY <1>1, <2>3 DEF LogInv
<1> QED BY <1>1, <1>2, <1>3 DEF LogInv, Next, Over

\* What a line is to the log.
EntryOf(l) == [kind |-> l.kind, id |-> l.id, seq |-> l.seq]

\* Each step of the hooks is a step of the log, or none.
LEMMA LandStep ==
  ASSUME TypeOK, OrderInv, LogInv, [Next]_vars
  PROVE  [Log!Next]_Stream
<1>1. Stream = {EntryOf(l) : l \in {m \in Recs : Readable(m)}}
  BY DEF Stream, EntryOf, Recs
<1>2. Stream' = {EntryOf(l) : l \in {m \in Recs' : Readable(m)}}
  BY DEF Stream, EntryOf, Recs, Readable
<1>3. ~Readable(Fragment)
  BY DEF Readable, Fragment
<1>4. ASSUME NEW p \in Proc, Recs' = Recs \cup {OrderedLine(p)}, pc[p] = "numbered"
      PROVE  Log!Next
  <2> DEFINE e == [kind |-> job[p], id |-> p[1], seq |-> num[p]]
  <2>1. /\ job[p] \in {"declaration", "terminal", "execution"} /\ num[p] \in Nat
        /\ p[1] \in Calls /\ p[2] \in {"call", "post"}
    BY ProcFacts DEF TypeOK
  <2>2. EntryOf(OrderedLine(p)) = e /\ Readable(OrderedLine(p))
    BY <2>1 DEF EntryOf, OrderedLine, Readable
  <2>3. Stream' = Stream \cup {e}
    BY <1>1, <1>2, <1>4, <2>2
  <2>4. e \in Log!Entry
    BY <2>1 DEF Log!Entry, Log!Kinds
  <2>5. \A kind, c : Log!Landed(kind, c) => InRecords(kind, c)
    BY <1>1 DEF Log!Landed, InRecords, EntryOf
  <2>6. \A c : InRecords("declaration", c) => Log!Landed("declaration", c)
    <3>1. ASSUME NEW l \in Recs, l.kind = "declaration"
          PROVE  EntryOf(l) \in Stream /\ EntryOf(l).kind = "declaration" /\ EntryOf(l).id = l.id
      BY <1>1, <3>1 DEF EntryOf, Readable
    <3> QED BY <3>1 DEF Log!Landed, InRecords
  <2>7. Grounded(p) /\ Placed(p)
    BY DEF LogInv
  <2>8. ~InRecords(job[p], p[1])
    BY <1>4, <2>1, <2>7 DEF Grounded, Placed, Before
  <2>9. job[p] = "terminal" => InRecords("declaration", p[1])
    BY <1>4, <2>7 DEF Placed, Before
  <2>10. \A f \in Stream : f.seq < num[p]
    <3>1. \A l \in Recs : l.seq < num[p]
      BY <1>4 DEF OrderInv, NumberAhead, Recs, LinesOf
    <3> QED BY <1>1, <3>1 DEF EntryOf
  <2>11. Log!Land(e)
    BY <2>3, <2>4, <2>5, <2>6, <2>8, <2>9, <2>10 DEF Log!Land
  <2>12. e \in Stream'
    BY <2>3
  <2> QED BY <2>11, <2>12 DEF Log!Next
<1>5. ASSUME NEW p \in Proc, Step(p) \/ Environment(p)
      PROVE  Log!Next \/ Stream' = Stream
  BY <1>1, <1>2, <1>3, <1>4, <1>5, RecordsStep
<1>6. CASE Probes \/ UNCHANGED vars
  <2>1. records' = records
    BY <1>6 DEF Probes, SessionStart, SessionEndRead, SessionEndCover, vars, disk
  <2> QED BY <2>1 DEF Stream, LinesOf, Readable
<1> QED BY <1>5, <1>6 DEF Next, Over

\* The hook processes, in any number and whatever is killed or fails, implement
\* a log that only grows, one numbered record at a time, where no record lands
\* twice and a terminal never comes before its declaration (appendOrdered,
\* Handler.Close).
THEOREM HooksImplementLog == Spec => ImplementsEvidenceLog
<1>1. Init => ClaimInv /\ LogInv /\ OrderInv /\ Log!Init
  <2> SUFFICES ASSUME Init PROVE ClaimInv /\ LogInv /\ OrderInv /\ Log!Init
    OBVIOUS
  <2>1. Recs = {} /\ DOMAIN records = {}
    BY DEF Init, Recs, LinesOf
  <2>2. ClaimInv
    BY DEF Init, ClaimInv, Grounded, CleanCoverageIsBacked
  <2>3. LogInv
    BY <2>1, <2>2 DEF Init, ClaimInv, LogInv, Placed, InRecords
  <2>4. OrderInv
    BY <2>1, ProcFacts DEF Init, OrderInv, Exclusive, CounterAhead, NumberAhead, CounterFirst,
                           SeqOrdered, InLock, Free
  <2>5. Log!Init
    BY <2>1 DEF Log!Init, Stream, Recs
  <2> QED BY <2>2, <2>3, <2>4, <2>5
<1>2. TypeOK /\ ClaimInv /\ LogInv /\ OrderInv /\ [Next]_vars => ClaimInv' /\ LogInv' /\ OrderInv'
  BY ClaimStep, LogInvStep, OrderStep
<1>3. TypeOK /\ LogInv /\ OrderInv /\ [Next]_vars => [Log!Next]_Stream
  BY LandStep
<1> QED
  BY <1>1, <1>2, <1>3, TypeCorrect, PTL DEF Spec, ImplementsEvidenceLog, Log!Spec

=============================================================================
