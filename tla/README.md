# Rashomon in TLA+

Rashomon records what a coding agent declares, runs and claims. Claude Code
starts one short process of it for every hook event; the processes share
nothing but files under one store root, and any of them may be killed between
two system calls. This directory models the parts of the program where that
matters, checks them with TLC on small instances, and proves the central ones
with TLAPS for every instance.

Paths below are relative to the repository root. H-, REC- and STR- numbers are
the repository's own (docs/design-notes.md and the comments of the code).

## 1. The system

### Components, their state and operations

| Component | State it keeps | Operations | Modelled |
|---|---|---|---|
| run store, `internal/store` | `runs/<dir>/records.ndjson`, `seq`, `spill.ndjson`, `coverage.ndjson`; a lock per file; the in-memory sticky sync error of a deferred `Store` | ordered append, spill, coverage append, group commit (`DeferDurability`, `Flush`), readers | `HookRun`, `SpillFile`, `EvidenceLog` |
| hook entry points, `internal/hook` | one `Handler` or `Post` per process | `Capture`, `Close`, `Flush` for PreToolUse and PostToolUse | `HookRun` |
| liveness probe, `internal/hook/probe.go` | the probe marker | start and end records, the end's read of the run | `HookRun` |
| report verdict, `internal/report` | none (a function of one run, its gaps, its transcripts) | `build`, `accounting`, `RollupCoverage`, `AssembleSession` | `Verdict` |
| retention, `store/gaps.go`, `store/evict.go` | `gaps.ndjson`, `forgotten_hosts.ndjson` | `ForgetWindow`, `ForgetHost`, `Evict` | `Forget`, `Rewrite`, `Eviction` |
| steering, `internal/steer`, `store/steerlog.go`, `hook/steerstep.go` | `steer.ndjson`, notice markers, the stale arm, the channel markers | route, budget, append, print, check the channel | `SteerDecide`, `Steer` |
| gates, `internal/verify` | none (a function of one run, and the files at a Stop) | gate states, obligations, the turn's summary | `GateStates`, `Gates` |
| learner, `internal/learn`, `cmd/rashomon/learn.go` | `lessons.json`, `active.json`, `state.sum`, a key | open, approve, withdraw, import, save; a prompt's read | `Ledger` |
| store creation, `store/store.go` | `install.json`, `install.key` | `Open`, `createExclusive` | `StoreRoot` |
| purge, `internal/purge` | the whole root | accept, plan, execute | `StoreRoot` |
| pause, `store/pause.go`, `cmd/rashomon` | the pause marker and the gap it owes | pause, resume, a hook's check | `Pause` |
| settings and install, `internal/settings`, `internal/install`, `cmd/rashomon` | the user's `settings.json`, two hashes in `install.json` | watch, detach | `SettingsFile` |
| turn digest, `internal/digest` | none | the turn's verdict | no |
| fold cursor, `internal/fold`, `internal/recap` | `fold.json` | validate, resume, write | no |
| consent, `internal/consent`, `store/scope.go` | `consent.json`, the record-scope marker | grant, withdraw, gate | no |
| baseline, `internal/baseline` | a file of hosts per project, a lock file | locked load, fold, save | no |
| `shape`, `secretshape`, `jsonscan`, `hookio`, `pgraph`, `spend`, `spec`, `recap`, `platform`, `disclose`, `intent` and the smaller packages | none of their own | pure parsing, matching, pricing, rendering | no |

### How they interact

For a tool call Claude Code starts a PreToolUse process (`rashomon hook`),
waits for it, runs the tool, and starts a PostToolUse process. Several calls are
in flight at once, so several of these run together on one run directory. Each
takes the records lock to append one numbered record (a declaration or an
execution), writes its terminal and its coverage record, and ends with one full
sync. SessionStart and SessionEnd start a probe. Later, `rashomon report` reads
the run and the transcript Claude Code itself wrote and says whether the session
is *verified*. Two things take records away while sessions go on: a person's
`forget`, which rewrites files under their locks, and the size cap, which a
probe of any session applies to every idle run without a lock of the run's;
both write a gap record first, which the report reads. The hooks never call one
another; everything is said through files.

A post may also speak: it routes what it found through the session's steer log,
which is its budget and its memory, and prints at most one note. A Stop evaluates
the gates of the turn from the run's records and looks in the transcript for the
notes that were printed. Around the session, commands of a person change what
the hooks find: `watch` and `detach` put the hooks into `settings.json` or take
them out, `pause` and `resume` stop the recording for a while, `learn` decides
what a prompt is told, and `purge` removes the store under whatever still runs.

### What is hard

- a process killed between advancing the seq counter and writing the record, or
  in the middle of a line, beside others that go on;
- waits that run out: a declaration is given up, a terminal or an execution goes
  to the spill file, whose last-resort append takes no lock;
- a sync that fails after its record is in the file, and that a retry would
  report as fine;
- a file compacted in place, killed anywhere, while its readers take no lock;
- a plan read without the spill file's lock and carried out later;
- a directory removed under processes that are waking up in it;
- a verdict computed from what is left after all that, which may be silent only
  about sessions that are whole;
- a budget, a notice and a trigger shared by posts that run together, each of
  which may die between deciding, writing, flushing and printing;
- gate evidence judged by the order of records, while what matters is which
  files a run read, and when;
- small files that several commands read, keep for a while and write back, with
  a person at a terminal in between.

The properties that make each component correct are stated with it below; the
hazards, each at its line, are listed in `PROJECT.json`, with the properties that
cover each or the reason none does.

## 2. The modules

### `HookRun`: one session's run directory and its hook processes

A process is a call paired with `"call"` (PreToolUse) or `"post"`
(PostToolUse). The state on disk is `records` (the lines of `records.ndjson` in
order, with `tailOpen` when the last lacks its newline), `seqFile`, `lock`,
`spill` and `coverage`; the state of a process is `pc` and the fields the code
keeps (`Handler.opened`, the error of `Capture`, the reason `Close` settles on,
the delivered signal, `Store.flushErr` as `broken`).

| Action | Code |
|---|---|
| `Begin`, `Panic`, `PanicInClose`, `Signal`, `Kill` | the process starts (`Capture`, or a refused payload), a bug is caught by `safe.Guard`, SIGTERM is delivered to the channel `Delivered` reads, SIGKILL |
| `TakeLock`, `LockTimesOut` | `lockAppend` within its budget, or not |
| `TruncateSeq`, `WriteSeq`, `SeqFails` | `nextSeq`: read, fall back to `maxSeq`, reopen truncated, write, sync |
| `AppendLine`, `AppendFails` | `appendHealed` with `healAppendError` and `cutBack` |
| `SyncLine`, `SyncFails` | `syncAppend` and the return to `Capture` or `Close` |
| `Close`, `SpillLands`, `SpillFails`, `Cover`, `CoverFails` | `Handler.Close` and `Post.Close` |
| `Flush`, `FlushFails`, `MarkCall`, `MarkFails` | `Store.Flush`, `flushOrMark` |
| `SessionStart`, `SessionEndRead`, `SessionEndCover` | `runProbeFromPayload` |

A kill may fall between any two of these and tears the write it lands in: of the
line, nothing, the healing newline alone, a fragment, or all but the newline
reaches the file.

What is abstracted: records carry their kind, id, writer, seq and reason, and
nothing a payload says; the caps and the degraded record of `fitLine`, the label
barrier and the fired marker are left out. The seq file's one small write is all
or nothing. A spill append and a coverage append are one step each here; the
bytes of the spill file, the one file with a lockless writer, are `SpillFile`'s.
A failed coverage append is its absence, and a torn coverage line is left out.
The transcript always exists and is complete. Hooks run between SessionStart and
the end, so that a call's coverage record never reads `probe_absent`.

### `Verdict`: what the report concludes

Pure operators over a run read back and a transcript: unterminated, dropped and
executed calls, the accounting equation of H-10, and the set of reasons whose
emptiness is *verified*. `HookRun` states its properties with it.

### `EvidenceLog`: the promise of the ordered stream

An abstract log that grows one numbered record at a time, lands nothing twice,
and never holds a terminal before its declaration. `HookRun!Stream` maps the
readable lines of `records.ndjson` to it.

### `SpillFile`: the bytes of the spill file

Newlines, whole records and first halves of torn ones, in order. A writer with
the lock stats the file, looks at its last byte and writes; one that gave up
writes between two newlines. Reads and skips are what a reader makes of the
result.

### `Rewrite`: the compaction in place, byte by byte

`gaps.go rewrite` writes each kept line over the file from its start and cuts
the file last. Each byte says whose it is, so that the model can tell a whole
line from the meeting of two. `LinesOf` is the reader: a line is the first and the
last place of a run of bytes between two newlines, which says in one set what the
loop of `forEachLineUntil` finds one after the other. A forget plans with the
places of the bytes it read (`read`, `plan`) and writes the earliest of them next
(`Foremost`).

| Action | Code |
|---|---|
| `Forget` | the plan of `forgetRun`: the lines that parse as doomed go, all others stay, unreadable ones included |
| `WriteLine`, `Written` | the loop of `WriteAt` |
| `Cut` | `Truncate` and the full sync |
| `DieBetween`, `DieWithin` | a kill or a failed write, between two writes or inside one |

### `Forget`: forgetting a window of one run beside its hooks

The records file is a set of lines and the spill file a bag (a killed rewrite
leaves copies); what is kept is which line is where and how often a gap counts
it.

| Action | Code |
|---|---|
| `HookLock`, `HookAppend` | `lockAppend` and the append, or the wait that runs out |
| `HookSpillLock`, `HookSpill` | `appendSpill`: under the lock, or without it when `spillBudget` ran out |
| `LockRecords`, `ReadRecords`, `ReadSpill` | `openRunLines`: the lock or an error, the records, the spill file without a lock |
| `WriteGap` | the gap record lands, fails, or is not needed |
| `RewriteRecords` | the rewrite under the lock held since the plan |
| `LockSpill`, `Reread`, `RewriteSpill` | `rewriteSpill`: lock, read again, take out at most as many copies as the plan counted |
| `Kill` | an interrupt, or a write that fails |

A rewrite is one step here: what a killed one leaves is `Rewrite`'s, and a spill
file that starts with a line twice is how it reaches this module. One run and
one window are modelled. `forget --host` dooms calls by the host their
declaration names, which the free choice of `window` covers; the file of
forgotten hosts is left out. Both files exist. A killed hook is one that does
not move.

### `Eviction`: the size cap beside a session that wakes up

Files are separate from names: a hook may hold a file that was unlinked, and the
lock it holds is that file's, while `seq` is always reached by name.

| Action | Code |
|---|---|
| `MakeDir`, `OpenRecords`, `OpenSpill` | `MkdirAll`, then `OpenFile` with `O_CREATE`, two system calls |
| `TakeLock`, `ReadSeq`, `WriteSeq`, `AppendRecord`, `Spill` | `appendOrdered`, `nextSeq`, `SpillTerminal` |
| `TakeGaps`, `Plan`, `WriteGap` | `Evict`: the lock of `gaps.ndjson`, the candidates and the grace, the gap record |
| `List`, `Unlink`, `Rmdir` | `os.RemoveAll`: the directory is read once, its files unlinked in any order, the directory removed if empty |
| `Kill` | the probe's timeout |

A failed open or counter write fails the append (`OpenFails`); only a lock's
timeout is followed by the spill (`TakeLock`). The store is over its cap
throughout. Sizes, and the order in which runs are taken, are left out; so is
the flush, which is `HookRun`'s. Whether the run is within its grace is one
flag, raised by any write; time passing again is left out, since a pass that
finds the run fresh leaves it.

### `SteerDecide` and `Steer`: what a post may say

`SteerDecide` is the decision as a function of the findings, the call and the
count of the prompt's lines: rank, clamp, refuse, charge, and which line prints.
The recount from the log's tail (`Count`, with the one foreign batch it skips)
is in it as well. `Steer` runs a session's hooks over it.

| Action | Code |
|---|---|
| `NextPrompt`, `Upgrade`, `SessionStart` | Claude Code: a prompt, a resume under a newer version, a briefing's post (`cmd/rashomon/continuity.go`) |
| `ArmStale`, `StaleArmed`, `TakeStaleArm` | the gate run's post arms, a write's post looks, and one removes the marker |
| `Route`, `RouteNothing` | `route` under the steer lock: count, decide, take the notice, or nothing without the lock |
| `AppendLines`, `AppendFails`, `ReturnNotice` | `AppendSteer`: one write of the batch and its barrier, or a part of it |
| `Flush`, `FlushFails`, `PrintOut` | the rest of `Post.Steer` |
| `CheckEvidence`, `LockForEvidence`, `TakeChannelEvidence` | a Stop's verdicts on the notes it can judge, and the marker that shuts a channel |
| `Kill`, `PowerLoss` | a hook ends anywhere; the machine keeps what was synced, and of the rest a prefix |

The recount tells a foreign batch as `countBudget` does, by the time and the
prompt its lines carry (`OneBatch`); `Clock` gives the time of a hook's lines, so
that two hooks may write in one millisecond. A finding carries the share of the
budget its pattern leaves to the others (`pattern.Reserve`), and its line keeps
it for the properties to speak of.

Abstracted: what a finding says is its key, level, priority and place; an event
has one channel; one append is one batch; notes have no subagents; the output
gate never refuses; a marker is cleared by a newer version in `Route`. The
session's draw is a constant of it: whether its notes are off, held out, or
those of an unattended run (under CI, where a post may raise a flag but give no
note). The recap that `internal/steer/budget.go:74-83` says may straddle another
batch is not routed by any code of this commit: routed calls are those of
`cmd/rashomon/preflight.go:144`, `cmd/rashomon/continuity.go:93` and
`internal/hook/steerstep.go:159`. Left out are the notes of a prompt itself: the
preflight, and a resumed session's briefing at its first prompt.

### `GateStates` and `Gates`: what the record says of the gates, and what happened

`GateStates` is the pure fold: the entries of a run in order, and from them the
runs, named and unnamed writes, the state of each gate at a point with the table
of `stateOf`, the tree binding, the obligations, the watched reds and the turn's
summary, which counts the runs that have an execution. `Gates` lets agents work
side by side: a call is declared, does its work and is answered in three steps,
a run reads the files at one moment in between, and the properties compare what
`GateStates` says with what the runs read.

| Action | Code |
|---|---|
| `Declare`, `DeclareLost` | PreToolUse's record, or none |
| `WriteFile`, `RunGate`, `Launch`, `EndLaunched`, `EditElsewhere` | the tools, and other programs |
| `Post`, `PostSpilled`, `PostLost`, `Join` | the execution in order, without a seq, or not at all; a background command's end |

A run in the background keeps what its line says of its status and of its output
(`Launched`). Its end brings the line's own exit (`Joined`), so that a run whose
line hides its status stays masked after it, as `endedBy` leaves it; `Ended` is
the run as it is judged then. `signs` is what the record says of itself: a
post's coverage is verified or unknown, and a line that was torn is one the
reader skips. `Complete` asks for coverage that is verified and for no other
sign.

Abstracted: one project; every gate is known by a recorded run (declared,
inferred and wrapped ones are left out), with the rules version of today; every
file at the Stop can be read; a call has one execution; a file's content is
who last wrote it, so that other programs all leave the same one. What a run may
come to (`Readings`) is given with whether it really passed, and `GatesAssumption`
says that its own exit, or the summary it printed, tells that, of one in the
background once it has ended.

### `Ledger`: the learner's three files

A verb reads `lessons.json`, `active.json` and `state.sum` one by one,
quarantines what the signature does not cover, waits for a person, and writes
the files one by one, reads them back and signs. A prompt reads them with the
second pass of `ReadActive`. A verb may be killed anywhere, and another program
may replace a file. `labels.ndjson` and the tiers it moves, and the caps, are
left out.

### `StoreRoot`: from the first hook to the purge

Hooks make the key and the identity (`createExclusive`, with links or by name and
then content), then a run; a purge accepts a root with both anchors, plans,
detaches, and removes deepest first and the anchors last. Either may be killed.
Entries of others, temporary names, created directories and the binary are left
out, and so is an anchor that cannot be removed.

### `Pause`: the marker and the gaps it owes

`EmptyMarker` and `WriteMarker` are the two halves of `writeSmall`; `OpenGap`,
`RemoveMarker` and `CloseGap` the order of `cmdPause` and `cmdResume`. The marker
may be spoiled, a command killed between any two, and the store made while paused.

### `SettingsFile`: watch and detach beside other editors

A file is what others have in it and whose entries of ours; a hash is the
content. `Read`, `Compare`, `Rename` are `editSettings` with its retries;
`ReadRecord`, `ReplaceRecord`, `Consent` the writes of `applyWatch`, and `Undo`
what a failed one takes back; `Told` is detach's self-check. Edited entries and
`--force`, `--all`, symlinks, files of no member at the start and watch's other
undos are left out.

### How they are put together

`HookRun` composes the store, the hooks, the probe and the verdict, and
`EvidenceLog` is what it implements. `Steer` and `Gates` each stand on their
function. The rest share no state while they run, and one instance of each goes
into a sum: `MCRetention` (`Forget`, `Eviction`, `SpillFile`) and `MCFiles`
(`Rewrite`, `Ledger`, `StoreRoot`, `Pause`, `SettingsFile`). A behaviour of a sum
is a behaviour of one part while the others keep their first state; the
invariants are those of the parts.

## 3. What the runs check

| Run | Instance | Properties |
|---|---|---|
| `exits` | 2 concurrent PreToolUse; kill, signal, panic, refusal; one process may stop for good anywhere | `TypeOK`, `EveryDeclarationIsClosed`, `HookReturns` |
| `torn` | 2 calls, one with its PostToolUse; kills and failed writes | `SeqOrdered`, `CleanCoverageIsBacked`, `ImplementsEvidenceLog` |
| `sync` | 2 concurrent PreToolUse; failed writes, syncs, coverage records, panics in `Close` | `FailedSyncIsMarked` |
| `session` | 2 calls, one executed, whole sessions; kills and failed syncs | `VerifiedSessionIsWhole` |
| `retained` | 2 calls of 2 lines and 2 forgets; 2 hooks and 2 evictors; 3 spill writers; kills and cut appends | `TypeOK`, `LossIsCounted`, `CallsLeaveWhole`, `CountedOnce`; `PartTypes`, `LossIsAdmitted`, `EvictedOnce`; `SpilledRecordReads`, `LossIsTold` |
| `steered` | a gate run, two writes and a Stop of one prompt, the Stop of the next, a briefing before, among or after them, an upgrade; a session that is given its notes, held out or under CI; one fault | `TypeOK`, `PrintedIsRecorded`, `BudgetKept`, `NoticeOnce`, `OneJudgePerArm`, `WorkingChannelStaysOpen` |
| `judged` | one agent with a gate run in each of 2 prompts, the first in front or in the background, its status told or hidden; another with a named and an unnamed write; one fault, a torn line or an unknown coverage among them | `TypeOK`, `GatesAreTrue`, `VerifiedIsEarned`, `BoundIsWhatRan`, `WatchedFixCameAfter`, `EarlierPointsStand` |
| `files` | 3 records of 1 to 3 bytes forgotten twice; 2 learn commands and a prompt; 2 first hooks and 2 purges; 3 pause or resume commands; 3 watch or detach commands, 2 at once; one kill or fault each | `PartTypes`; `KeptLinesRead`, `OneLineDamagedEach`, `ForgottenLinesGo`; `OnlyApprovedArrives`, `AlarmIsReal`; `OneIdentity`, `RerunAccepts`; `HiddenCallsAreTold`; `TheirsIsKept`, `RestoredIsOriginal` |

Bounds, for the hooks. Two calls give up to three processes on one lock: one
that holds it, one that waits, and one that comes after a death. The counter,
the lock and a fragment are each handed over at most between two processes at a
time, and the order of records is a relation between two of them. The spill file
needs a fragment's writer, a locked writer and a lockless one between its two
steps.

Bounds, for what leaves. In `Rewrite`, lines of different lengths make a kept
line land across the boundary of two old ones; the second forget meets what the
first, killed, left. In `Forget`, one call is in the window in part, so that its
other line has to leave with it, and the other call is not; `MaxCopies` lets a
spilled line start there, and a second forget reads what the first left. In
`Eviction`, `MaxFiles` is what two hooks can make (each name twice) and the file
there at the start; it is never reached in a way that blocks a hook, or TLC would
report a deadlock.

Bounds, for steering and the gates. The race for an arm needs the run that arms
it and two writes that saw it; a channel is shut by two Stops, and one fault is
where a note is lost that would have been seen. `MaxNotes` and `MaxFlags` are
made small rather than the posts many, and both caps bind. A write has three
notes to give where `MaxNotes` is 2: one has the key of the gate run's note, and
one leaves a note to the others, so that posts are refused by the cap, by the
reserve and by the key. Every post has a flag where
`MaxFlags` is 1. The briefing may come inside a prompt (`AutoCompact`), and the
recount of the next post passes over it. Leaving any of these out of
`SteerDecide` (the prompt's own count, the reserve, the cap on flags, the key,
the foreign batch) violates `BudgetKept` in this run. `LaterShows` keeps to
sessions whose later version shows notes: another's channel is rightly shut, and
`WorkingChannelStaysOpen` says nothing of it.

A gate's order is decided by two runs, one write it names and one it does not, by
an agent that runs and one that writes; a third run adds an outcome that `Latest`
would take instead. `StillTells` follows a record no further once it tells of itself
that it is not complete: `Complete` is then false for good, no gate is shown, and
what remains of `judged` is `EarlierPointsStand`, which the theorem states for such
records too.

Bounds, for the small files. Each protocol is of two parties, one that does
something in between and one that comes after: two learn commands and a prompt,
two first hooks, a purge and its rerun, a pause, a resume and a third command,
two overlapping editors and the detach that reads what they left. Learn commands
and pause commands run one at a time in `files` (`Overlap`); what overlapping
does to them is told below.

The sums and `judged` and `steered` run with `CHECK_DEADLOCK FALSE`: every hook
has run and every command has ended. Fairness, for `HookReturns` only: weak
fairness of each process's own steps. The scheduler runs a runnable process, and
each wait ends by itself: the lock waits poll and stop at `lockBudget` or
`spillBudget`. A process in `Stalled` is exempt and may stop anywhere, the lock
in its hands.

### What the properties leave out

Each property that has an exception states it in the formula. Those the code's
own comments make: a line that landed without the lock while the spill file was
being rewritten may be cut off (`raced` in `LossIsCounted`); a record that landed
after a gap was drawn up is admitted by a gap that does not count it (`late` in
`LossIsAdmitted`); a path a hook made since the plan is not the plan's (`late` in
`RerunAccepts`); another editor's edit between the last comparison and the rename
is lost (`beside` in `TheirsIsKept`). Those the comments do not make:

- A lockless spill append cut short between a locked writer's look and its write
  joins the two lines (`Unseen` in `SpilledRecordReads`; `internal/store/tail.go:48`
  against the comment at 21).
- A rewrite's `WriteAt` cut short inside a line destroys that line when it is
  longer than the distance it moves (`torn` in `KeptLinesRead`;
  `internal/store/gaps.go:341` against the comment at 326).
- A kill between the counter and the record leaves a hole in seqs
  (`internal/store/store.go:748`) that `internal/store/doc.go:20` calls
  contiguous; `SeqOrdered` claims only that they grow.
- A write that was declared before a gate run and was still under way when the
  run began may be taken as seen (`Overlaps` in `GatesAreTrue` and
  `VerifiedIsEarned`): the record has no place for the moment a tool acts.
- A write whose post found what another program had left is bound to that
  content, which the other program can leave again (`Sha = "another"` in
  `BoundIsWhatRan`): with two edits, TLC finds the run that read another write in
  between. Of the content a call of the session left this does not hold.
- The caps and the keys hold for what a call's recount can reach: the prompt's
  lines, across one foreign batch, up to the first call after it (`Reckoned` in
  `BudgetKept`). The call after that does not see what lies before the batch (the run
  `recounted`).
- A power loss takes the notice and arm markers, which no full sync covers
  (`lost` in `NoticeOnce` and `OneJudgePerArm`), and one power loss with one
  killed note can shut a channel that works: two notes unseen are enough.
- A pause whose marker cannot be read and whose own gap was not written has no
  start to tell (`blind` in `HiddenCallsAreTold`).
- A watch that died before it recorded its edit, or one beside another, leaves
  the hashes of an earlier watch, and a later detach speaks of that one
  (`muddled` in `RestoredIsOriginal`).

### Where a document and the code part ways

| Run | What it shows |
|---|---|
| `uncounted` | a call whose coverage record could not be written reads verified, where a comment says it never does |
| `recounted` | a compaction inside a prompt writes a line between the prompt's own; the recount ends there, and the prompt is given the same note again, which the budget allows it once |
| `inflight` | a write declared while a red run in the background was still running meets the watched row, where a comment says it never does |
| `withdrawn` | a learn command that waited at its terminal while another withdrew a lesson saves it back |

Others were met on the way and have no run of their own:

- A declaration whose sync fails is in the file and gets no terminal, though the
  process returns (`internal/store/store.go:506`, against
  `docs/design-notes.md:162-164`); the `flush_failed` marker still makes the
  session unverified.
- A session that lost every declaration is held against no transcript and reads
  verified (`internal/report/report.go:605`, against `docs/design-notes.md:775`).
- A hook that holds the lock of an unlinked records file writes the counter of
  the run that took its place, and a number can be given twice
  (`internal/store/store.go:748`, against `internal/store/doc.go:20-22`).
- A learn listing beside a `Save` can quarantine every lesson, a `Save` signs
  whatever it reads back, and one that spans both passes of `ReadActive` raises
  the user's alarm.
- A hook in flight when a purge ends makes the root and a run again.
- Two pauses at once overwrite one marker, a pause between a resume's removal and
  its gap hides the start from `earlierPauseStart`, and a resume killed between
  the two leaves only the gap of no width.

## 4. What is proved

`HookRunProof`, for any number of calls, any set of faults and any
configuration, from `ConstantsAssumption` alone:

- `TypeCorrect`: `Spec => []TypeOK`. The lines and coverage records a process
  builds are lines and coverage records (`LineFacts`), an append keeps a
  sequence of lines one (`AppendFact`), and each action keeps each variable's
  type (`TypeStep`).
- `RecordsStayOrdered`: `Spec => []SeqOrdered`. Order alone is not inductive: a
  process about to write must hold a number above every number in the file. The
  invariant `OrderInv` adds that the lock's holder alone is in the critical
  section (`Exclusive`), that a counter that can be read is at or above every
  number in the file (`CounterAhead`), that a number in hand is above them
  (`NumberAhead`), and that the counter was advanced to it before the record is
  written (`CounterFirst`). `CounterFirst` is the order `nextSeq` insists on, and
  what a kill in between cannot break.
- `FailedSyncStaysMarked`: `Spec => []FailedSyncIsMarked`. No step takes a line away
  (`LinesStay`), and the one way to `done` with a sync that failed is through the
  marker (`MarkStep`).
- `CleanCoverageStaysBacked`: `Spec => []CleanCoverageIsBacked`. `Grounded` says
  of each place in a hook what is on disk by then: a process that knows of its
  declaration has it there, and one that is about to claim success has the
  terminal or the execution there too. `ClaimInv` is that for every process, and
  the property.
- `DeclarationsAreClosed`: `Spec => []EveryDeclarationIsClosed`, under `Unfailing`:
  no write, no sync and no panic inside `Close` fails. Kills, other panics,
  signals, lock timeouts and coverage failures stay. It is the assumption
  the `exits` run makes by its `Faults`; with a write that fails the code has no
  terminal to give. `CloseInv` adds that a declaration on disk is known to its
  process, or that process was killed or has just written it (`Owned`), and that a
  process past its `Close` has closed what it opened (`ClosedBy`).
- `VerifiedSessionsAreWhole`: `Spec => []VerifiedSessionIsWhole`. Most of it is
  what `Verified` says of one run: with no reason left, the accounting equation
  makes what was issued, declared, closed and executed agree. A lost sync is the
  part that is about the hooks: it leaves a marker (`FailedSyncIsMarked`), the
  marker is a reason, and a process that has not begun has lost none (`Unbegun`).
- `HooksImplementLog`: `Spec => ImplementsEvidenceLog`. `Placed` says where a process
  is by the kinds of line that have landed of it, so that a line about to be
  written has not landed before and a terminal's declaration has; `OrderInv` gives
  that its number is above every other. `RecordsStep` is what a step may do to the
  file, and `LandStep` maps it to `Land`, or to no step of the log.

`ForgetProof`, for any calls, any number of forgets, killed or not, and any
number of copies, from `ForgetAssumption` (a lock's holder is a forget, a line's
hook or nobody, and only one of them):

- `TypeCorrect`: `Spec => []TypeOK`. The step that needs an argument is
  `RewriteSpill`: a rewrite never takes out more copies than there are.
- `LossStaysCounted`: `Spec => []LossIsCounted`. The property speaks of lines that
  are gone, and says nothing while a forget has a plan in hand, so it is not
  inductive. `CountInv` adds who holds which lock (`LocksHeld`, which makes two
  forgets exclude each other, `OneForget`); that a line is in the records only
  when its hook is over (`WrittenOnce`); that what was read of the records stands
  until they are rewritten (`RecordsStand`), and that the spill file holds no more
  of a line than was read again, `raced` lines apart (`SpillStands`); and the
  bookkeeping itself (`OwedIsCounted`): while a forget is past its gap, the gaps
  cover what has left and also what it has still to remove. `QuietStep` disposes
  of the steps that move no line; the rest of `CountStep` is the gap, the two
  rewrites, and the two ways a line lands.

Its second half needs no more assumptions. `WholeInv` adds that a line is nowhere
before its one hook is over (`LandedOnce`), so that a line a forget has seen never
lands again; that the spill file only grows under a forget, and not by such a line
(`SeenStays`); and that a doomed line is out of each file from its rewrite on
(`Gone`). Every other forget's step only shrinks a file, and none is between its
reads and its rewrites then (`WholeStays`).

- `CallsStayWhole`: `Spec => []CallsLeaveWhole`, from `WholeInv`.
- `LossIsCountedOnce`: `Spec => []CountedOnce`. The bookkeeping of `CountInv`
  the other way round, while no forget has failed: the gaps and the copies
  together are at most what landed and what a forget in its rewrites still owes
  (`Exact`, `Settled`); what is owed is there to be removed (`OwedIsThere`).

`RetentionProof`, about two parts of `MCRetention`, whose steps leave each other's
variables alone (`PartStep`). Of `Eviction`, from `Begun` (the run holds a record,
in a file):

- `LossStaysAdmitted`: `MCSpec => []LossIsAdmitted`. A reader loses a record when
  its file loses its name, so `AdmitInv` says which files have one: all of them until
  a gap is written (`GapFirst`), and until an evictor has read something
  (`ReadFirst`). The delicate case is an evictor that reads an empty run, one that
  was killed half way before it: `ReadFirst` makes another evictor's reading come
  first, so that whatever lands later is `late`. `EarlyIsTold` is then that
  what is not late is readable or counted, or about to be.
- `RunIsCountedOnce`: `MCSpec => []EvictedOnce`, with `Nobody` no evictor. The lock
  on the gaps keeps two passes apart (`Exclusive`), and a run whose removal ended
  well has no file left, or one that a hook has just made, so that it is never
  idle again (`OneGap`).

Of `SpillFile`, with `Nobody` no writer, from `SpillInv`: a writer with the lock that
looked at the last byte is still at the end of the file, or a line that is over came
after it, unless a lockless append was cut short meanwhile; and a record that landed
is on a line of its own that is over (`Settled`), or two marks are on one line
(`Joined`) and such a cut is why. The file only grows (`Extended`), which keeps both
(`SettledStays`); `WriteLands` is the step that makes one of them true.

- `SpilledRecordsRead`: `MCSpec => []SpilledRecordReads`.
- `LossStaysTold`: `MCSpec => []LossIsTold`: two marks on one line are a line that no
  reader takes for a record, and that it counts (`SettledReads`).
- `PartsAreTyped`: `MCSpec => []PartTypes`, of both parts. `Eviction`'s highest number
  is a `Max`, which is a number only of a set that has a greatest member: `EvTypes`
  adds that the numbers given so far have a bound (`Below`), and `GreatestFound` finds
  the member by the least of the bounds, with no induction.

`StoreRootProof`, from `Distinct` (a bound on kills that is a number, and an absent
file that is neither a hook nor a file):

- `TypeCorrect`: `Spec => []TypeOK`.
- `IdentityStaysOne`: `Spec => []OneIdentity`. `FillOwns` is the strengthening: where
  there are no links, the half-written name a hook took stays its own until it has
  written it, or a purge has removed it.
- `RerunStaysPossible`: `Spec => []RerunAccepts`. `RerunInv` adds that one purge runs
  at a time (`OnePurge`), that a purge still has in its plan, or has listed as
  left, whatever remains (`PlanCovers`), and that once there was a plan the anchors
  stand while anything remains (`AnchorsLast`).

`SteerProof`, for any hooks, calls, prompts, versions, caps and faults, from
`SteerAssumption` (kinds are kinds, calls are calls, bounds and times are numbers,
nobody is no hook):

- `TypeCorrect`: `Spec => []TypeOK`, beside `Whole`: the log and the batches are
  made of notes and verdicts, each note is of the hook that holds it, and the lock
  is with the hook that is at it. The decision orders its findings with `InOrder`,
  which chooses the member with so many before it; that there is one at each place
  is a pigeonhole argument over finite sets (`InOrderMember`), and no induction.
- `OneJudgeAnArm`: `Spec => []OneJudgePerArm`. `ArmInv` counts: whoever took the
  marker, and the marker itself while it stands, are no more than the arms.
- `PrintedLinesAreRecorded`: `Spec => []PrintedIsRecorded`. `PrintInv` says where the
  line a hook is to print is: in its batch when it comes from `Route`, in the log
  from its append on, and below what is synced from its flush on.
- `NoticesAreOnce`: `Spec => []NoticeOnce`. `NoticeInv`: one hook at most holds a
  notice, to print it or to give it back, and its marker stands while one does.

- `BudgetIsKept`: `Spec => []BudgetKept`. `InBudget` says of every line of the log
  that was charged that it was affordable (`Afforded`) by the lines its call had to
  count (`ReckonedBefore`): below the cap, its reserve taken off, and with no line of
  its key among them. What a call has to count is what the recount finds
  (`OldIsCounted`), across one foreign batch (`RunMember`); what a call has decided
  and not yet written is affordable with the log as it stands (`ChargesFit`), which
  is what the lock is for. `PrintedIsCounted` ties a printed line to the one that was
  charged. The batch may be cut by a failed append or by lost power, so that
  `BudgetGrows` and `BudgetCut` are about any prefix.
- `ChannelStaysOpen`: `Spec => []WorkingChannelStaysOpen`. `ChannelInv` says what a
  verdict bears out, in the log or in a Stop's hands: a streak of one is a note that
  no transcript shows, and a streak of two is two hooks' notes.  What is missed stays
  so (`DoneStays`), and the verdicts at hand are finitely many (`BegunInv`).

`FilesProof`, about three parts of `MCFiles`, each from an assumption on what its
constants stand for; a step of another part leaves its variables alone (`PartStep`).

- `HiddenCallsStayTold`: from `Instants` and `~Overlap`. `PauseInv` adds that one
  command runs at a time (`OnePauser`), that the marker, and the gap the pause itself
  wrote, start no later than any call it hid (`MarkerStarts`, `GapStarts`), and what
  a command in the middle of its work relies on (`Knows`). Without `~Overlap` it does
  not hold (section 3).
- `TheirsStaysKept`: from `Hashes` (a file that is absent and a hash that is unknown
  are no file's). Commands may overlap. `PlanInv` adds of each command that what it
  is about to put in place has the members of others of the file it read
  (`Planned`), and that this still is the file when it has just compared.
- `RestoredStaysOriginal`: from `Hashes`. `OriginInv` adds that, unless the record is
  `muddled`, one command is at work, the record tells of the file before our entries
  came (`Rooted`) but for the time between an edit and its record (`Early`), and what
  the command at work has in hand (`InHand`).
- `OnlyApprovedEverArrives`, `AlarmStaysReal`: from `LedgerFiles` (the absence of a
  file is no file, and that of a key no key). Both come from `LedgerInv`. While
  verbs do not overlap it has `Sole`: a manifest signs nothing but what stands
  (`Honest`), the verb at work approves nothing else and reads what is there
  (`Careful`), and a prompt holds no manifest of anything that did not stand while it
  read (`Fair`). While nothing was killed or replaced from outside either, it has
  `Quiet`: between verbs the files match their manifest (`Clean`), no verb finds them
  otherwise (`Clear`), and a prompt that no verb ran beside has one state of all
  three in hand (`Calmly`).

`RewriteProof`, for any records, any choice of those to forget, any number of
forgets, killed anywhere, from `Bounds` (the number of records and the bounds are
numbers):

- `KeptLinesStayRead`, `OneLineStaysDamagedEach`, `ForgottenLinesStayGone`:
  `MCSpec => []KeptLinesRead`, `[]OneLineDamagedEach`, `[]ForgottenLinesGo`. All three
  come from `RewriteInv`, which says of a forget at work how the file lies to the
  bytes it read (`Midway`): the lines written again are those that stay and left the
  plan, one behind the other from the start and each whole (`Laid`); past them the
  bytes are as they were (`Rest`); the plan's lines lie past them and after the others
  (`Ahead`), so that no write covers a line that is still to be copied. `LaidLines`,
  `OnlyLaid` and `RestLines` are what a reader makes of such a file: the written
  lines, what lies after the meeting as it was, and one run of bytes in between,
  which is the one that may be damaged (`MeetingDamage`).
- That a damaged line is counted once takes more: a file that was killed over has
  nothing before its damaged lines but lines that stay (`Firm`). So the next forget
  writes each of those, and the damaged one, to where it already is (`Fixed`), and
  the damage moves no further.
- That the first file's lines are its records (`FirstLines`) needs that their ends
  rise, which is the least-number principle and no induction over data. The model
  states lines by their places, and no recursive reader is left in it.
- `PartTypesStay`: `MCSpec => []PartTypes`, the types of all five parts, from the
  assumptions of each (`Bounds`, `Distinct`, `Instants`, `Hashes`, `LedgerFiles`) and
  `Limits` (bounds are numbers). The other parts' invariants hold most of it. What they
  lack are the counters, an edit's tries among them (`TriesStep`), and the pause's
  types where commands overlap (`PauseTypeStep`), which `PauseInv` leaves out.

`GatesProof`, for any agents, calls, gates, prompts, paths and faults, from
`GatesAssumption` (kinds are kinds, a path is a path, calls are told apart from what
other programs leave, and a run's own exit or summary, a background one's once it has
ended, says whether it passed). All
six come from `GatesInv`, which says how the record lies to what happened:

- where a call is, by the entries the record has of it (`Phases`): a call has one
  place in order for each type of entry, and the step that puts an entry there
  (`Puts`) leaves every other place as it was;
- what the record says a run came to is what it came to, and of one in the
  background only that it was launched, until its end is joined (`Told`);
- a run that has read the files saw every write answered before the run was
  declared (`SeenBefore`), and none declared after the run was answered
  (`SeenAfter`). These two are what the order of seqs is for;
- a call gives a file a content that no file had before (`Fresh`), so that a file
  which reads as a write's post found it read so to every run declared since
  (`Unmoved`).

The theorems then argue about the pure fold at one moment:

- `TypeCorrect`: `Spec => []TypeOK`.
- `GatesStayTrue`: `Spec => []GatesAreTrue`. A record that is complete has no
  execution without a seq (`CompleteFacts`), a green run passed and had read the
  files (`RunFacts`), the last run of a green gate is the run its writes are counted
  from (`GreenLast`), and a write declared before a run was answered before it or was
  under way (`SeenOrUnderWay`).
- `VerifiedTurnsAreEarned`: `Spec => []VerifiedIsEarned`. Every required gate is
  green (`RowFacts`), and the last unnamed write comes before the earliest of their
  runs. That a least and a greatest place exist (`MinFound`, `MaxFound`) is the
  well-foundedness of the naturals, with no induction.
- `BoundStaysWhatRan`: `Spec => []BoundIsWhatRan`, from `Unmoved`.
- `WatchedFixesComeAfter`: `Spec => []WatchedFixCameAfter`, from `SeenAfter` for the
  red run and `SeenBefore` for the green one.
- `EarlierPointsStay`: `Spec => EarlierPointsStand`. An entry of a call that has no
  execution yet lies past the point, whether it is the declaration or the answer, and
  leaves the runs and the writes of the point the same (`EntryLeaves`); the state is a
  function of those (`StateSame`).

Only model-checked:

- `HookReturns`, as liveness under fairness is out of the prover's reach. Every other
  property of a passing run is stated by a theorem.
- The four runs that end in a violation, whose counterexamples are TLC's.

## 5. Not modelled, and why

- `internal/fold`: a contract with no caller outside its tests; nothing checks the
  generation its cursor documents. There is no behaviour yet to be faithful to.
- `internal/digest`: one read of a run and a function of it. What it takes from
  `verify` is `GateStates`'; its own join of coverage records is by wall-clock
  time, which no module keeps.
- `internal/consent`, `store/scope.go`, `internal/baseline`: one rename, or one
  lock around a load and a save; there is no state between two steps.
- `internal/report` beyond the verdict, `internal/recap`, `internal/steer/render`,
  `internal/disclose`: rendering of what was already decided.
- `internal/shape`, `secretshape`, `intent`, `gateinfer`, `gateout`, `jsonscan`,
  `hookio`, `linescan`, `spec`, `directive`: parsers. What they decide enters the
  models as a choice (a call's kind, a run's reading, a finding); a model of the
  parsing itself would be the program again.
- `internal/spend`, `budget`, `receipt`, `measure`, `backtest`, `seed`, `share`,
  `brief`: offline arithmetic over files nobody changes meanwhile.
- `internal/platform`, `harness`, `host`: reads of the environment.
- `scripts`, `cmd/rashomon` beyond the commands above: build tools and printing.

These hold most of the repository's lines, which is why the share of lines the
modules stand for is small though every component that keeps state several
processes change is modelled.

## 6. Plan

1. Group commit across a power loss: what `Flush` makes durable of a run.
2. A resumed session's second start and end, in `HookRun`.
