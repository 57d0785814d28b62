------------------------------ MODULE MCFiles -------------------------------
(***************************************************************************)
(* The small files of the machine that several programs change, each with  *)
(* its own protocol and on an instance of its own: a log compacted in      *)
(* place (Rewrite), the learner's ledger (Ledger), the store's root from   *)
(* its first hook to its purge (StoreRoot), the pause marker (Pause) and   *)
(* settings.json (SettingsFile).  A behaviour is one of one part; the      *)
(* others keep their first state.                                          *)
(***************************************************************************)
EXTENDS StoreRoot, TLC

CONSTANTS
  Unreadable, Unknown,
  Lines, MaxLen, MaxForgets, Kills,            \* Rewrite's
  Lessons, Verbs, Readers, MaxForeign,         \* Ledger's
  Pausers, Times,                              \* Pause's
  Editors, Versions, Bodies, Attempts, AtOnce, MaxEdits,   \* SettingsFile's
  MaxFaults, Overlap

VARIABLES
  part,   \* "rewrite", "learn", "root", "pause" or "settings"
  file, len, doomed, pc, read, plan, off, forgets, torn,   \* Rewrite's
  disk, key, verb, reader, killedLearn, foreign, standing, withdrawn, mixed,   \* Ledger's
  clock, marker, store, gaps, cmd, hidden, opened, faults,   \* Pause's
  settings, rec, editor, edits, editFaults, theirs, origin, muddled   \* SettingsFile's

Rw == INSTANCE Rewrite
Ln == INSTANCE Ledger WITH kills <- killedLearn
Ps == INSTANCE Pause WITH Commands <- Pausers
St == INSTANCE SettingsFile WITH file <- settings, cmd <- editor, faults <- editFaults, Commands <- Editors

rewriteVars == <<file, len, doomed, pc, read, plan, off, forgets, torn>>
learnVars == <<disk, key, verb, reader, killedLearn, foreign, standing, withdrawn, mixed>>
pauseVars == <<clock, marker, store, gaps, cmd, hidden, opened, faults>>
settingsVars == <<settings, rec, editor, edits, editFaults, theirs, origin, muddled>>

InRewrite == part = "rewrite" /\ UNCHANGED <<part, learnVars, vars, pauseVars, settingsVars>>
InLedger == part = "learn" /\ UNCHANGED <<part, rewriteVars, vars, pauseVars, settingsVars>>
InStoreRoot == part = "root" /\ UNCHANGED <<part, rewriteVars, learnVars, pauseVars, settingsVars>>
InPause == part = "pause" /\ UNCHANGED <<part, rewriteVars, learnVars, vars, settingsVars>>
InSettingsFile == part = "settings" /\ UNCHANGED <<part, rewriteVars, learnVars, vars, pauseVars>>

\* The part in question starts anywhere it may; the others, in one place.
MCInit ==
  /\ part \in {"rewrite", "learn", "root", "pause", "settings"}
  /\ Rw!Init /\ (part # "rewrite" => doomed = {} /\ (\A i \in 1..Lines : len[i] = 1) /\ file[Len(file)] = Rw!Newline)
  /\ Ln!Init /\ (part # "learn" => disk = Ln!NoFiles)
  /\ Init /\ (part # "root" => links /\ ~root)
  /\ Ps!Init /\ (part # "pause" => store)
  /\ St!Init /\ (part # "settings" => settings = Absent)

MCNext ==
  \/ InRewrite /\ Rw!Forget
  \/ InRewrite /\ Rw!WriteLine
  \/ InRewrite /\ Rw!Written
  \/ InRewrite /\ Rw!Cut
  \/ InRewrite /\ Rw!DieBetween
  \/ InRewrite /\ Rw!DieWithin
  \/ InLedger /\ \E v \in Verbs : Ln!Start(v)
  \/ InLedger /\ \E v \in Verbs : Ln!ReadFile(v)
  \/ InLedger /\ \E v \in Verbs : Ln!Check(v)
  \/ InLedger /\ \E v \in Verbs : Ln!EndUnsaved(v)
  \/ InLedger /\ \E v \in Verbs, l \in Lessons : Ln!Approve(v, l)
  \/ InLedger /\ \E v \in Verbs, l \in Lessons : Ln!Withdraw(v, l)
  \/ InLedger /\ \E v \in Verbs, l \in Lessons : Ln!Import(v, l)
  \/ InLedger /\ \E v \in Verbs : Ln!EnsureKey(v)
  \/ InLedger /\ \E v \in Verbs : Ln!NewKey(v)
  \/ InLedger /\ \E v \in Verbs : Ln!Replace(v)
  \/ InLedger /\ \E v \in Verbs : Ln!SignState(v)
  \/ InLedger /\ \E v \in Verbs : Ln!Kill(v)
  \/ InLedger /\ \E r \in Readers : Ln!Prompt(r)
  \/ InLedger /\ \E r \in Readers : Ln!ReadForPrompt(r)
  \/ InLedger /\ \E r \in Readers : Ln!Match(r)
  \/ InLedger /\ Ln!ReplaceElsewhere
  \/ InStoreRoot /\ \E h \in Hooks : MakeRoot(h)
  \/ InStoreRoot /\ \E h \in Hooks : Publish(h)
  \/ InStoreRoot /\ \E h \in Hooks : Fill(h)
  \/ InStoreRoot /\ \E h \in Hooks : NoRoot(h)
  \/ InStoreRoot /\ \E h \in Hooks : MakeRun(h)
  \/ InStoreRoot /\ \E h \in Hooks : AppendRecord(h)
  \/ InStoreRoot /\ \E h \in Hooks : KillHook(h)
  \/ InStoreRoot /\ \E h \in Hooks, f \in {"key", "meta"} : Load(h, f)
  \/ InStoreRoot /\ \E h \in Hooks, f \in {"key", "meta"} : GiveUp(h, f)
  \/ InStoreRoot /\ \E p \in Purges : Plan(p)
  \/ InStoreRoot /\ \E p \in Purges : Detach(p)
  \/ InStoreRoot /\ \E p \in Purges : RemoveNext(p)
  \/ InStoreRoot /\ \E p \in Purges : KeepAnchors(p)
  \/ InStoreRoot /\ \E p \in Purges, f \in {"key", "meta"} : RemoveAnchor(p, f)
  \/ InStoreRoot /\ \E p \in Purges : RemoveRoot(p)
  \/ InStoreRoot /\ \E p \in Purges : KillPurge(p)
  \/ InPause /\ Ps!Tick
  \/ InPause /\ Ps!MakeStore
  \/ InPause /\ Ps!Call
  \/ InPause /\ Ps!Spoil
  \/ InPause /\ \E k \in Pausers : Ps!StartPause(k)
  \/ InPause /\ \E k \in Pausers : Ps!EmptyMarker(k)
  \/ InPause /\ \E k \in Pausers : Ps!WriteMarker(k)
  \/ InPause /\ \E k \in Pausers : Ps!OpenGap(k)
  \/ InPause /\ \E k \in Pausers : Ps!StartResume(k)
  \/ InPause /\ \E k \in Pausers : Ps!RemoveMarker(k)
  \/ InPause /\ \E k \in Pausers : Ps!CloseGap(k)
  \/ InPause /\ \E k \in Pausers : Ps!Kill(k)
  \/ InSettingsFile /\ \E c \in Editors : St!Begin(c)
  \/ InSettingsFile /\ \E c \in Editors : St!Read(c)
  \/ InSettingsFile /\ \E c \in Editors : St!Compare(c)
  \/ InSettingsFile /\ \E c \in Editors : St!Rename(c)
  \/ InSettingsFile /\ \E c \in Editors : St!ReadRecord(c)
  \/ InSettingsFile /\ \E c \in Editors : St!ReplaceRecord(c)
  \/ InSettingsFile /\ \E c \in Editors : St!Consent(c)
  \/ InSettingsFile /\ \E c \in Editors : St!WriteFails(c)
  \/ InSettingsFile /\ \E c \in Editors : St!Undo(c)
  \/ InSettingsFile /\ \E c \in Editors : St!UndoRename(c)
  \/ InSettingsFile /\ \E c \in Editors : St!Kill(c)
  \/ InSettingsFile /\ St!EditElsewhere

MCSpec == MCInit /\ [][MCNext]_<<part, rewriteVars, learnVars, vars, pauseVars, settingsVars>>

\* Commands that edit the settings are alike; the other parts are small.
Symmetry == Permutations(Editors)

-----------------------------------------------------------------------------
\* The types of the five modules, in the part that moves.
PartTypes ==
  /\ part = "rewrite" => Rw!TypeOK
  /\ part = "learn" => Ln!TypeOK
  /\ part = "root" => TypeOK
  /\ part = "pause" => Ps!TypeOK
  /\ part = "settings" => St!TypeOK

\* A record nobody asked to forget reads back at every point of a forget and of
\* a killed one run again (Rewrite.KeptLinesRead; gaps.go rewrite).
KeptLinesRead == part = "rewrite" => Rw!KeptLinesRead

\* A forget damages one line at most, and a rerun of a killed one as many more
\* (Rewrite.OneLineDamagedEach; gaps.go rewrite, read.go records_unreadable).
OneLineDamagedEach == part = "rewrite" => Rw!OneLineDamagedEach

\* A forget that ends leaves nothing it was asked to remove
\* (Rewrite.ForgottenLinesGo; gaps.go forgetRun).
ForgottenLinesGo == part = "rewrite" => Rw!ForgottenLinesGo

\* A lesson reaches the agent only while a person's approval of it stands
\* (Ledger.OnlyApprovedArrives; learn Open, Save, ReadActive).
OnlyApprovedArrives == part = "learn" => Ln!OnlyApprovedArrives

\* The user is told of a foreign write only if there was one
\* (Ledger.AlarmIsReal; learn Open, ReadActive).
AlarmIsReal == part = "learn" => Ln!AlarmIsReal

\* Every call a pause hid lies in a gap once a resume returns
\* (Pause.HiddenCallsAreTold; main.go cmdResume, earlierPauseStart).
HiddenCallsAreTold == part = "pause" => Ps!HiddenCallsAreTold

\* What others have in settings.json stays, but for an edit between the last
\* comparison and the rename (SettingsFile.TheirsIsKept; write.go Write).
TheirsIsKept == part = "settings" => St!TheirsIsKept

\* A detach that says it restored settings.json did (SettingsFile.
\* RestoredIsOriginal; detach.go recordWatch, selfCheck).
RestoredIsOriginal == part = "settings" => St!RestoredIsOriginal

=============================================================================
