------------------------------ MODULE Verdict ------------------------------
(***************************************************************************)
(* What `rashomon report` concludes from one run directory                 *)
(* (internal/report, internal/store/read.go).                              *)
(*                                                                         *)
(* A run is a record with four fields:                                     *)
(*   lines    the records of records.ndjson and spill.ndjson that parse:   *)
(*            [kind, id, by, seq, reason], where by is the hook phase that *)
(*            wrote the line and seq is 0 for a spilled one                *)
(*   coverage the records of coverage.ndjson: [phase, id, reason]; the id  *)
(*            is a history variable of the model, no coverage record       *)
(*            carries one                                                  *)
(*   skipped  whether some line did not parse                              *)
(*   gaps     the gap records that name the session                        *)
(* A transcript is what Claude Code itself wrote: the ids of the calls it  *)
(* issued and those it holds a result for, or status "missing".            *)
(*                                                                         *)
(* Every operator is a function of these values: nothing is re-read.       *)
(***************************************************************************)
EXTENDS FiniteSets

IsKind(l, kind) == l.kind = kind

Ids(lines) == {l.id : l \in lines}

FlushFailed(l) == l.reason = "flush_failed"

Declarations(run) == {l \in run.lines : IsKind(l, "declaration")}

Declared(run) == Ids(Declarations(run))

Executed(run) == Ids({l \in run.lines : IsKind(l, "execution")})

\* A flush_failed marker is a terminal that closes nothing.
Closing(run) == {l \in run.lines : IsKind(l, "terminal") /\ ~FlushFailed(l)}

Unterminated(run) == Declared(run) \ Ids(Closing(run))

Dropped(run) == {l \in Closing(run) : l.id \notin Declared(run)}

\* A start or end record written while recording was paused says that the
\* probe did not run.
PhaseRecorded(run, phase) ==
  \E c \in run.coverage : c.phase = phase /\ c.reason # "recording_paused"

DuplicateDeclarations(run) ==
  \E l, m \in Declarations(run) : l # m /\ l.id = m.id

(***************************************************************************)
(* The accounting equation of H-10. The transcript is found through the    *)
(* declarations that name it, so a run with no declaration has no          *)
(* transcript to be held against.                                          *)
(***************************************************************************)
Accounted(run, transcript) ==
  Declared(run) # {} /\ transcript.status = "read"

\* (broken: only what the transcript lacks is a mismatch)
OneWayMismatch(run, transcript) ==
  Accounted(run, transcript) /\ ~(Declared(run) \subseteq transcript.ids)

TranscriptMismatch(run, transcript) ==
  Accounted(run, transcript) /\ transcript.ids # Declared(run)

ExecutionMismatch(run, transcript) ==
  Accounted(run, transcript) /\ ~(transcript.results \subseteq Executed(run))

Recorded(run) == {c.reason : c \in run.coverage} \ {"none"}

ReportReasons ==
  {"probe_absent", "run_not_closed", "records_unreadable",
   "unterminated_entry", "lock_timeout", "declaration_missing",
   "flush_failed", "duplicate_declarations", "transcript_mismatch",
   "execution_mismatch", "gap"}

\* Whether the run, read back, gives the report reason r on its own account.
Shows(run, transcript, r) ==
  \/ r = "probe_absent" /\ ~PhaseRecorded(run, "start")
  \/ r = "run_not_closed" /\ ~PhaseRecorded(run, "end")
  \/ r = "records_unreadable" /\ run.skipped
  \/ r = "unterminated_entry" /\ Unterminated(run) # {}
  \/ r = "lock_timeout" /\ \E l \in Dropped(run) : l.reason = "lock_timeout"
  \/ r = "declaration_missing" /\ \E l \in Dropped(run) : l.reason # "lock_timeout"
  \/ r = "flush_failed" /\ \E l \in run.lines : IsKind(l, "terminal") /\ FlushFailed(l)
  \/ r = "duplicate_declarations" /\ DuplicateDeclarations(run)
  \/ r = "transcript_mismatch" /\ TranscriptMismatch(run, transcript)
  \/ r = "execution_mismatch" /\ ExecutionMismatch(run, transcript)
  \/ r = "gap" /\ run.gaps # {}

Reasons(run, transcript) ==
  Recorded(run) \cup {r \in ReportReasons : Shows(run, transcript, r)}

\* The session's coverage state.
Verified(run, transcript) == Reasons(run, transcript) = {}

=============================================================================
