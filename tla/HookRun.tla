------------------------------ MODULE HookRun ------------------------------
(***************************************************************************)
(* One session's run directory and the hook processes that write it        *)
(* (internal/hook handle.go, post.go, probe.go, flush.go; internal/store   *)
(* store.go, tail.go, landexec.go).                                        *)
(*                                                                         *)
(* Claude Code runs a PreToolUse process and, if the tool ran, a           *)
(* PostToolUse process for every tool call, several at a time. They share  *)
(* records.ndjson (under an flock, numbered from the seq file),            *)
(* spill.ndjson and coverage.ndjson. Any of them may be killed between two *)
(* of its system calls, and any of its waits, writes and syncs may fail.   *)
(***************************************************************************)
EXTENDS Integers, Sequences, FiniteSets, Verdict

CONSTANTS
  Calls,    \* the tool calls of the session, by tool_use_id
  Ran,      \* the calls whose tool ran, so that a PostToolUse follows
  NoCall,   \* the id of a line that names no call
  Faults,   \* the failures the environment may cause
  Resolved, \* what a hook may read of its own configuration
  Stalled   \* processes the scheduler may stop running (liveness only)

FaultKinds ==
  {"kill", "signal", "panic", "panic_in_close", "refuse", "write", "sync", "coverage"}

ConfigReasons == {"none", "hook_entry_absent", "hook_entry_unresolved"}

ASSUME ConstantsAssumption ==
  /\ Ran \subseteq Calls
  /\ NoCall \notin Calls
  /\ Faults \subseteq FaultKinds
  /\ Resolved \subseteq ConfigReasons
  /\ Stalled \subseteq Calls \X {"call", "post"}

Proc == (Calls \X {"call"}) \cup (Ran \X {"post"})

\* A seq file that is missing, empty or does not parse.
Unreadable == -1

\* The holder of the records lock when there is none.
Free == <<NoCall, "none">>

CloseReasons ==
  {"none", "lock_timeout", "internal_error", "payload_too_large",
   "recovered_panic", "terminated_by_signal"}

Line ==
  [kind: {"declaration", "terminal", "execution", "damaged"},
   id: Calls \cup {NoCall}, by: {"call", "post"}, seq: Nat,
   reason: CloseReasons \cup {"flush_failed"}]

\* A line that was only partly written: it parses as nothing.
Fragment ==
  [kind |-> "damaged", id |-> NoCall, by |-> "call", seq |-> 0, reason |-> "none"]

CoverageRecord ==
  [phase: {"start", "end", "call", "post"}, id: Calls \cup {NoCall},
   reason: CloseReasons \cup ConfigReasons \cup {"unterminated_entry", "probe_absent"}]

VARIABLES
  (* On disk *)
  records,     \* the lines of records.ndjson, in file order
  tailOpen,    \* whether the last of them lacks its newline
  seqFile,     \* the number in the seq file, or Unreadable
  lock,        \* the process holding the flock on records.ndjson, or Free
  spill,       \* the lines of spill.ndjson
  coverage,    \* the records of coverage.ndjson
  probe,       \* the session: SessionStart and SessionEnd
  endReason,   \* what the end probe read, between its read and its record
  (* Per hook process *)
  pc,          \* where the process is
  job,         \* the record its ordered append is placing
  num,         \* the seq it has allocated
  opened,      \* Handler.opened: its declaration landed
  err,         \* the reason of Capture's error
  reason,      \* the reason Close settled on
  signalled,   \* a catchable signal has been delivered
  broken       \* Store.flushErr: a sync failed, and stays failed

disk == <<records, tailOpen, seqFile, lock, spill, coverage>>
session == <<probe, endReason>>
vars == <<records, tailOpen, seqFile, lock, spill, coverage, probe, endReason,
          pc, job, num, opened, err, reason, signalled, broken>>

Places ==
  {"idle", "wait", "locked", "truncated", "numbered", "written", "close",
   "spill", "cover", "flush", "mark", "done", "unmarked", "killed"}

Finished == {"done", "unmarked", "killed"}

Active == Places \ (Finished \cup {"idle"})

InLock == {"locked", "truncated", "numbered", "written"}

TypeOK ==
  /\ records \in Seq(Line)
  /\ tailOpen \in BOOLEAN
  /\ seqFile \in Nat \cup {Unreadable}
  /\ lock \in Proc \cup {Free}
  /\ spill \subseteq Line
  /\ coverage \subseteq CoverageRecord
  /\ probe \in {"none", "started", "ending", "ended"}
  /\ endReason \in {"none", "unterminated_entry"}
  /\ pc \in [Proc -> Places]
  /\ job \in [Proc -> {"declaration", "terminal", "execution"}]
  /\ num \in [Proc -> Nat]
  /\ opened \in [Proc -> BOOLEAN]
  /\ err \in [Proc -> CloseReasons]
  /\ reason \in [Proc -> CloseReasons]
  /\ signalled \in [Proc -> BOOLEAN]
  /\ broken \in [Proc -> BOOLEAN]

-----------------------------------------------------------------------------
(* What a reader finds in the run directory.                               *)

Readable(l) == l.kind # "damaged"

LinesOf(file) == {file[i] : i \in DOMAIN file}

Run ==
  [lines    |-> {l \in LinesOf(records) \cup spill : Readable(l)},
   coverage |-> coverage,
   skipped  |-> Fragment \in LinesOf(records) \cup spill,
   gaps     |-> {}]

\* The calls Claude Code has issued, and those it holds a result for.
Issued == {c \in Calls : pc[<<c, "call">>] # "idle"}

Results == {c \in Ran : pc[<<c, "post">>] # "idle"}

Transcript == [status |-> "read", ids |-> Issued, results |-> Results]

Seqs(file) == {file[i].seq : i \in DOMAIN file}

\* (a broken maxSeq that finds nothing)
HighestNone(file) == {0}

\* maxSeq: the highest seq in the file, 0 when it holds none.
Highest(file) == {s \in Seqs(file) \cup {0} : \A t \in Seqs(file) : t <= s}

-----------------------------------------------------------------------------
(* The ordered append: appendOrdered, writeOrderedLocked, nextSeq.         *)

Move(p, place) == pc' = [pc EXCEPT ![p] = place]

\* The line the process is placing in records.ndjson.
OrderedLine(p) ==
  [kind |-> job[p], id |-> p[1], by |-> p[2], seq |-> num[p],
   reason |-> IF job[p] = "terminal" THEN reason[p] ELSE "none"]

\* The append returns to Capture, or to Close for a terminal.
Return(p, ok) ==
  /\ Move(p, IF job[p] = "terminal" THEN "cover" ELSE "close")
  /\ opened' = [opened EXCEPT ![p] = @ \/ (job[p] = "declaration" /\ ok)]
  /\ err' = [err EXCEPT ![p] =
               IF job[p] # "terminal" /\ ~ok THEN "internal_error" ELSE @]
  /\ reason' = [reason EXCEPT ![p] =
                  IF job[p] = "terminal" /\ ~ok /\ @ = "none"
                    THEN "internal_error" ELSE @]

TakeLock(p) ==
  /\ pc[p] = "wait"
  /\ lock = Free
  /\ lock' = p
  /\ Move(p, "locked")
  /\ UNCHANGED <<records, tailOpen, seqFile, spill, coverage, session,
                 job, num, opened, err, reason, signalled, broken>>

\* (broken: only a declaration's wait has a budget)
LockTimesOutOnce(p) ==
  /\ pc[p] = "wait"
  /\ lock # Free
  /\ job[p] = "declaration"
  /\ err' = [err EXCEPT ![p] = "lock_timeout"]
  /\ Move(p, "close")
  /\ UNCHANGED <<disk, session, job, num, opened, reason, signalled, broken>>

\* The wait outlasts its budget while another process holds the lock. A
\* declaration is given up; a terminal and an execution go to the spill file.
LockTimesOut(p) ==
  /\ pc[p] = "wait"
  /\ lock # Free
  /\ IF job[p] = "declaration"
       THEN /\ err' = [err EXCEPT ![p] = "lock_timeout"]
            /\ Move(p, "close")
       ELSE /\ Move(p, "spill")
            /\ UNCHANGED err
  /\ UNCHANGED <<disk, session, job, num, opened, reason, signalled, broken>>

\* nextSeq reads the counter, or the records when it does not parse, and
\* reopens the seq file truncated.
TruncateSeq(p) ==
  /\ pc[p] = "locked"
  /\ \E last \in IF seqFile = Unreadable THEN Highest(records) ELSE {seqFile} :
       num' = [num EXCEPT ![p] = last + 1]
  /\ seqFile' = Unreadable
  /\ Move(p, "truncated")
  /\ UNCHANGED <<records, tailOpen, lock, spill, coverage, session,
                 job, opened, err, reason, signalled, broken>>

WriteSeq(p) ==
  /\ pc[p] = "truncated"
  /\ seqFile' = num[p]
  /\ Move(p, "numbered")
  /\ UNCHANGED <<records, tailOpen, lock, spill, coverage, session,
                 job, num, opened, err, reason, signalled, broken>>

\* The counter cannot be written, or its sync fails: no record follows.
SeqFails(p) ==
  /\ pc[p] = "truncated"
  /\ \/ /\ "write" \in Faults
        /\ UNCHANGED <<seqFile, broken>>
     \/ /\ "sync" \in Faults
        /\ seqFile' = num[p]
        /\ broken' = [broken EXCEPT ![p] = TRUE]
  /\ lock' = Free
  /\ Return(p, FALSE)
  /\ UNCHANGED <<records, tailOpen, spill, coverage, session,
                 job, num, signalled>>

\* (broken: the record continues the line it finds open)
AppendGlued(line) ==
  /\ records' = IF tailOpen
                  THEN [records EXCEPT ![Len(records)] = Fragment]
                  ELSE Append(records, line)
  /\ tailOpen' = FALSE

\* appendHealed: an open tail is closed by a newline in the same write.
AppendHealed(line) ==
  /\ records' = Append(records, line)
  /\ tailOpen' = FALSE

\* A write of line that did not complete: nothing of it, the healing newline
\* alone, a fragment, or every byte but the newline.
TornWrite(line) ==
  \/ UNCHANGED <<records, tailOpen>>
  \/ /\ tailOpen
     /\ tailOpen' = FALSE
     /\ UNCHANGED records
  \/ /\ \E torn \in {Fragment, line} : records' = Append(records, torn)
     /\ tailOpen' = TRUE

AppendLine(p) ==
  /\ pc[p] = "numbered"
  /\ AppendHealed(OrderedLine(p))
  /\ Move(p, "written")
  /\ UNCHANGED <<seqFile, lock, spill, coverage, session,
                 job, num, opened, err, reason, signalled, broken>>

\* The write fails. cutBack restores the file where it can, and leaves what
\* the write put there where it cannot.
AppendFails(p) ==
  /\ pc[p] = "numbered"
  /\ "write" \in Faults
  /\ TornWrite(OrderedLine(p))
  /\ lock' = Free
  /\ Return(p, FALSE)
  /\ UNCHANGED <<seqFile, spill, coverage, session, job, num, signalled, broken>>

SyncLine(p) ==
  /\ pc[p] = "written"
  /\ lock' = Free
  /\ Return(p, TRUE)
  /\ UNCHANGED <<records, tailOpen, seqFile, spill, coverage, session,
                 job, num, signalled, broken>>

\* The record is in the file and its sync failed: the append returns an error.
SyncFails(p) ==
  /\ pc[p] = "written"
  /\ "sync" \in Faults
  /\ lock' = Free
  /\ broken' = [broken EXCEPT ![p] = TRUE]
  /\ Return(p, FALSE)
  /\ UNCHANGED <<records, tailOpen, seqFile, spill, coverage, session,
                 job, num, signalled>>

-----------------------------------------------------------------------------
(* One hook invocation: Capture, Close, Flush.                             *)

\* Claude Code starts the process: PreToolUse in a started session, and
\* PostToolUse once the call's PreToolUse process is gone and the tool ran.
Begin(p) ==
  /\ pc[p] = "idle"
  /\ probe = "started"
  /\ p[2] = "post" => pc[<<p[1], "call">>] \in Finished
  /\ job' = [job EXCEPT ![p] = IF p[2] = "call" THEN "declaration" ELSE "execution"]
  /\ \/ /\ Move(p, "wait")
        /\ UNCHANGED err
     \/ /\ "refuse" \in Faults
        /\ Move(p, "close")
        /\ err' = [err EXCEPT ![p] = "payload_too_large"]
  /\ UNCHANGED <<disk, session, num, opened, reason, signalled, broken>>

\* A panic inside Capture, before its append or after it, ends in the barrier.
Panic(p) ==
  /\ "panic" \in Faults
  /\ pc[p] \in {"wait", "close"}
  /\ job[p] # "terminal"
  /\ err[p] = "none"
  /\ err' = [err EXCEPT ![p] = "recovered_panic"]
  /\ Move(p, "close")
  /\ UNCHANGED <<disk, session, job, num, opened, reason, signalled, broken>>

\* A panic inside Close: whatever it had still to write reads as its absence,
\* and the flush goes ahead.
PanicInClose(p) ==
  /\ "panic_in_close" \in Faults
  /\ pc[p] \in {"close", "cover"}
  /\ Move(p, "flush")
  /\ UNCHANGED <<disk, session, job, num, opened, err, reason, signalled, broken>>

\* SIGTERM, the hook timeout's cancellation. Only Close looks for it.
Signal(p) ==
  /\ "signal" \in Faults
  /\ pc[p] \in InLock \cup {"wait", "close"}
  /\ job[p] # "terminal"
  /\ ~signalled[p]
  /\ signalled' = [signalled EXCEPT ![p] = TRUE]
  /\ UNCHANGED <<disk, session, pc, job, num, opened, err, reason, broken>>

\* (broken: a signalled process leaves its declaration open)
OwesTerminalUnsignalled(p, r) ==
  p[2] = "call" /\ r # "terminated_by_signal" /\ (opened[p] \/ r = "lock_timeout")

\* (broken: a terminal whatever became of the declaration)
OwesTerminalAlways(p, r) == p[2] = "call"

\* A terminal is owed to a declaration that landed and to one that the lock
\* refused; a refused payload names no call.
OwesTerminal(p, r) ==
  p[2] = "call" /\ (opened[p] \/ r = "lock_timeout")

\* Close settles the reason, and what it has to write first.
Close(p) ==
  LET r == IF signalled[p] THEN "terminated_by_signal" ELSE err[p] IN
  /\ pc[p] = "close"
  /\ reason' = [reason EXCEPT ![p] = r]
  /\ job' = [job EXCEPT ![p] = IF OwesTerminal(p, r) THEN "terminal" ELSE @]
  /\ Move(p, IF ~OwesTerminal(p, r) THEN "cover"
             ELSE IF r = "lock_timeout" THEN "spill"
             ELSE "wait")
  /\ UNCHANGED <<disk, session, num, opened, err, signalled, broken>>

\* (broken: a spilled line says it has a seq)
SpillLineNumbered(p) == [OrderedLine(p) EXCEPT !.seq = Unreadable]

\* A spilled line carries no seq.
SpillLine(p) ==
  [OrderedLine(p) EXCEPT !.seq = 0]

\* The spill append comes back to Close for a terminal, to Capture for an
\* execution.
SpillLands(p) ==
  /\ pc[p] = "spill"
  /\ spill' = spill \cup {SpillLine(p)}
  /\ Return(p, TRUE)
  /\ UNCHANGED <<records, tailOpen, seqFile, lock, coverage, session,
                 job, num, signalled, broken>>

SpillFails(p) ==
  /\ pc[p] = "spill"
  /\ \/ /\ "write" \in Faults
        /\ \E torn \in {{}, {Fragment}} : spill' = spill \cup torn
        /\ UNCHANGED broken
     \/ /\ "sync" \in Faults
        /\ spill' = spill \cup {SpillLine(p)}
        /\ broken' = [broken EXCEPT ![p] = TRUE]
  /\ Return(p, FALSE)
  /\ UNCHANGED <<records, tailOpen, seqFile, lock, coverage, session,
                 job, num, signalled>>

\* BuildCoverage: the invocation's own reason outranks the configuration's.
CallCoverage(p, config) ==
  [phase |-> p[2], id |-> p[1],
   reason |-> IF reason[p] # "none" THEN reason[p] ELSE config]

Cover(p) ==
  /\ pc[p] = "cover"
  /\ \E config \in Resolved : coverage' = coverage \cup {CallCoverage(p, config)}
  /\ Move(p, "flush")
  /\ UNCHANGED <<records, tailOpen, seqFile, lock, spill, session,
                 job, num, opened, err, reason, signalled, broken>>

\* The coverage record's own append fails: Close drops the error. A sync that
\* failed under it is still the store's, and Flush returns it.
CoverFails(p) ==
  /\ pc[p] = "cover"
  /\ \/ /\ "coverage" \in Faults
        /\ UNCHANGED <<coverage, broken>>
     \/ /\ "sync" \in Faults
        /\ \E config \in Resolved : coverage' = coverage \cup {CallCoverage(p, config)}
        /\ broken' = [broken EXCEPT ![p] = TRUE]
  /\ Move(p, "flush")
  /\ UNCHANGED <<records, tailOpen, seqFile, lock, spill, session,
                 job, num, opened, err, reason, signalled>>

\* (broken: a flush retries what failed, and believes it)
FlushRetried(p) ==
  /\ pc[p] = "flush"
  /\ Move(p, "done")
  /\ UNCHANGED <<disk, session, job, num, opened, err, reason, signalled, broken>>

\* The one full sync of the invocation.
Flush(p) ==
  /\ pc[p] = "flush"
  /\ ~broken[p]
  /\ Move(p, "done")
  /\ UNCHANGED <<disk, session, job, num, opened, err, reason, signalled, broken>>

\* The full sync fails now, or a barrier failed earlier: no retry.
FlushFails(p) ==
  /\ pc[p] = "flush"
  /\ broken[p] \/ "sync" \in Faults
  /\ broken' = [broken EXCEPT ![p] = TRUE]
  /\ Move(p, "mark")
  /\ UNCHANGED <<disk, session, job, num, opened, err, reason, signalled>>

\* A refused payload names no call, and neither does its marker.
FlushFailedMarker(p) ==
  [kind |-> "terminal", by |-> p[2], seq |-> 0, reason |-> "flush_failed",
   id |-> IF err[p] = "payload_too_large" THEN NoCall ELSE p[1]]

MarkCall(p) ==
  /\ pc[p] = "mark"
  /\ spill' = spill \cup {FlushFailedMarker(p)}
  /\ Move(p, "done")
  /\ UNCHANGED <<records, tailOpen, seqFile, lock, coverage, session,
                 job, num, opened, err, reason, signalled, broken>>

\* The marker cannot be written, or its own sync fails: the line on stderr is
\* all there is to count on.
MarkFails(p) ==
  /\ pc[p] = "mark"
  /\ \/ /\ "write" \in Faults
        /\ \E torn \in {{}, {Fragment}} : spill' = spill \cup torn
     \/ /\ "sync" \in Faults
        /\ spill' = spill \cup {FlushFailedMarker(p)}
  /\ Move(p, "unmarked")
  /\ UNCHANGED <<records, tailOpen, seqFile, lock, coverage, session,
                 job, num, opened, err, reason, signalled, broken>>

\* The line a process at place is in the middle of writing to the spill file.
Spilling(p) == IF pc[p] = "spill" THEN SpillLine(p) ELSE FlushFailedMarker(p)

\* SIGKILL. The kernel drops the lock; a write under way is torn.
Kill(p) ==
  /\ "kill" \in Faults
  /\ pc[p] \in Active
  /\ Move(p, "killed")
  /\ lock' = IF lock = p THEN Free ELSE lock
  /\ IF pc[p] = "numbered"
       THEN TornWrite(OrderedLine(p))
       ELSE UNCHANGED <<records, tailOpen>>
  /\ IF pc[p] \in {"spill", "mark"}
       THEN \E torn \in {{}, {Fragment}, {Spilling(p)}} : spill' = spill \cup torn
       ELSE UNCHANGED spill
  /\ UNCHANGED <<seqFile, coverage, session,
                 job, num, opened, err, reason, signalled, broken>>

-----------------------------------------------------------------------------
(* The liveness probe: RunProbe at SessionStart and SessionEnd.            *)

ProbeRecord(phase, r) == [phase |-> phase, id |-> NoCall, reason |-> r]

\* A probe's coverage record, which may fail to be written.
ProbeCover(phase, r) ==
  \/ \E config \in Resolved :
       coverage' = coverage \cup
         {ProbeRecord(phase, IF r # "none" THEN r ELSE config)}
  \/ "coverage" \in Faults /\ UNCHANGED coverage

SessionStart ==
  /\ probe = "none"
  /\ probe' = "started"
  /\ ProbeCover("start", "none")
  /\ UNCHANGED <<records, tailOpen, seqFile, lock, spill, endReason,
                 pc, job, num, opened, err, reason, signalled, broken>>

\* The end probe reads the run, then writes what it read.
SessionEndRead ==
  /\ probe = "started"
  /\ probe' = "ending"
  /\ endReason' = IF Unterminated(Run) # {} THEN "unterminated_entry" ELSE "none"
  /\ UNCHANGED <<disk, pc, job, num, opened, err, reason, signalled, broken>>

SessionEndCover ==
  /\ probe = "ending"
  /\ probe' = "ended"
  /\ ProbeCover("end", endReason)
  /\ UNCHANGED <<records, tailOpen, seqFile, lock, spill, endReason,
                 pc, job, num, opened, err, reason, signalled, broken>>

-----------------------------------------------------------------------------
Init ==
  /\ records = <<>>
  /\ tailOpen = FALSE
  /\ seqFile = Unreadable
  /\ lock = Free
  /\ spill = {}
  /\ coverage = {}
  /\ probe = "none"
  /\ endReason = "none"
  /\ pc = [p \in Proc |-> "idle"]
  /\ job = [p \in Proc |-> "declaration"]
  /\ num = [p \in Proc |-> 0]
  /\ opened = [p \in Proc |-> FALSE]
  /\ err = [p \in Proc |-> "none"]
  /\ reason = [p \in Proc |-> "none"]
  /\ signalled = [p \in Proc |-> FALSE]
  /\ broken = [p \in Proc |-> FALSE]

\* The process's own steps.
Step(p) ==
  \/ TakeLock(p) \/ LockTimesOut(p)
  \/ TruncateSeq(p) \/ WriteSeq(p) \/ SeqFails(p)
  \/ AppendLine(p) \/ AppendFails(p) \/ SyncLine(p) \/ SyncFails(p)
  \/ Close(p) \/ SpillLands(p) \/ SpillFails(p)
  \/ Cover(p) \/ CoverFails(p)
  \/ Flush(p) \/ FlushFails(p) \/ MarkCall(p) \/ MarkFails(p)

\* What happens to it.
Environment(p) ==
  Begin(p) \/ Panic(p) \/ PanicInClose(p) \/ Signal(p) \/ Kill(p)

Probes == SessionStart \/ SessionEndRead \/ SessionEndCover

\* The session is over and no hook is running.
Settled == probe = "ended" /\ \A p \in Proc : pc[p] \in Finished \cup {"idle"}

Over == Settled /\ UNCHANGED vars

Next ==
  \/ \E p \in Proc : Step(p) \/ Environment(p)
  \/ Probes
  \/ Over

Spec == Init /\ [][Next]_vars

\* A hook process that is not stalled is scheduled, and each of its waits is
\* bounded by a budget of the code's own, so it always has a next step.
Fairness == \A p \in Proc \ Stalled : WF_vars(Step(p))

FairSpec == Spec /\ Fairness

-----------------------------------------------------------------------------
(* Properties                                                              *)

\* The readable lines of records.ndjson, in file order, carry strictly
\* increasing seqs: a number is never handed out twice, whatever died between
\* advancing the counter and writing the record (nextSeq), and a writer that
\* holds the lock never writes behind one that came after it.
SeqOrdered ==
  \A i, j \in DOMAIN records :
    i < j /\ Readable(records[i]) /\ Readable(records[j])
      => records[i].seq < records[j].seq

\* A declaration that reads back is closed once its process has left by an exit
\* it controls: a clean return, an error return, SIGTERM or a recovered panic
\* (Handler.Close).
EveryDeclarationIsClosed ==
  \A c \in Declared(Run) :
    pc[<<c, "call">>] \in {"done", "unmarked"} => c \notin Unterminated(Run)

\* A call's coverage record that gives no reason is backed by the records it
\* vouches for, which stay readable whatever later writers do: the call's
\* declaration and a terminal that closes it, or the execution.
CleanCoverageIsBacked ==
  \A c \in coverage :
    /\ c.phase = "call" /\ c.reason = "none"
         => c.id \in Declared(Run) \ Unterminated(Run)
    /\ c.phase = "post" /\ c.reason = "none" => c.id \in Executed(Run)

\* Any sync that failed in a process that returned without saying so on stderr
\* left a flush_failed marker of that invocation in the store, though every
\* later sync succeeded (Store.syncFailed, flushOrMark).
FailedSyncIsMarked ==
  \A p \in Proc :
    pc[p] = "done" /\ broken[p] => FlushFailedMarker(p) \in Run.lines

\* A session that reads verified, and declared anything at all, is whole: every
\* call Claude Code issued is declared and closed, every result it holds has an
\* execution, and no process that could still say so lost a sync
\* (report.build).
VerifiedSessionIsWhole ==
  Settled /\ Declared(Run) # {} /\ Verified(Run, Transcript) =>
    /\ Issued \subseteq Declared(Run) \ Unterminated(Run)
    /\ Results \subseteq Executed(Run)
    /\ \A p \in Proc : broken[p] => pc[p] \in {"unmarked", "killed"}

\* The ordered stream, as the log its readers count on.
Stream ==
  {[kind |-> l.kind, id |-> l.id, seq |-> l.seq] :
     l \in {m \in LinesOf(records) : Readable(m)}}

Log == INSTANCE EvidenceLog WITH log <- Stream

\* The hook processes implement the evidence log: nothing they or a kill do
\* removes a record, lands one twice, puts one below a number already used, or
\* closes a declaration that is not there.
ImplementsEvidenceLog == Log!Spec

\* A hook returns, even while another process holds the records lock and never
\* runs again: every wait of the hook is bounded (lockBudget, spillBudget).
HookReturns ==
  \A p \in Proc \ Stalled : pc[p] \in Active ~> pc[p] \in Finished

\* What handle.go says of a coverage record that could not be written: a call
\* with none never reads as covered.
CallWithoutCoverageIsTold ==
  Settled /\ Verified(Run, Transcript) =>
    \A c \in Issued : \E r \in coverage : r.phase = "call" /\ r.id = c

=============================================================================
