---------------------------- MODULE SettingsFile ----------------------------
(***************************************************************************)
(* settings.json between watch, detach and the other programs that edit it *)
(* (internal/settings write.go, cmd/rashomon editSettings, applyWatch,     *)
(* recordWatch, cmdDetach, selfCheck).  A command reads the file, compares *)
(* it again just before a rename, and starts over when it changed; watch   *)
(* then writes into install.json what the edit found and left, or takes    *)
(* the edit back; detach says from that record whether the file is as it   *)
(* was.  Hashes of contents are the contents.                              *)
(*                                                                         *)
(* A file is the members of others and the entries of this install.  A     *)
(* file of no member at all is one that a detach left; entries a person    *)
(* edited, which both commands refuse, and watch's other undos are left    *)
(* out.                                                                    *)
(***************************************************************************)
EXTENDS Integers, FiniteSets

CONSTANTS
  Commands,   \* runs of watch and detach
  Versions,   \* binaries, each with entries of its own (a set of numbers above 0)
  Bodies,     \* what others may put into the file
  Absent,     \* a file that does not exist, and nothing in it
  Unknown,    \* a hash that install.json does not hold
  Attempts,   \* editAttempts
  AtOnce,     \* bound: commands that run at once
  MaxEdits,   \* bound: edits of others
  MaxFaults   \* bound: commands killed, and writes of watch that fail

VARIABLES
  file,    \* settings.json: [body, ours], or Absent
  rec,     \* install.json's pre_sha256 and post_sha256; a pre of Absent is
           \* settings_existed = false
  cmd,     \* where each command is, and what it has in memory
  edits, faults,   \* how many of those there have been
  theirs,  \* history: what others last put into the file and nobody overwrote
  origin,  \* history: the file when entries last went into one without any
  muddled  \* history: whether two commands overlapped, or a watch ended with its
           \* edit there and unrecorded

history == <<theirs, origin, muddled>>
vars == <<file, rec, cmd, edits, faults, history>>

BodyOf(f) == IF f = Absent THEN Absent ELSE f.body
OursOf(f) == IF f = Absent THEN 0 ELSE f.ours
Contents == [body : Bodies \cup {Absent}, ours : Versions \cup {0}]

TypeOK ==
  /\ file \in Contents \cup {Absent} /\ origin \in Contents \cup {Absent}
  /\ rec.pre \in Contents \cup {Absent, Unknown} /\ rec.post \in Contents \cup {Unknown}
  /\ \A c \in Commands :
       /\ cmd[c].at \in {"idle", "read", "compare", "rename", "record", "replace", "consent",
                         "undo", "undoRename", "done", "failed", "undone", "stuck", "killed"}
       /\ cmd[c].said \in {"", "nothing", "restored", "kept", "bug"}
       /\ cmd[c].tries \in 0..Attempts
  /\ edits \in 0..MaxEdits /\ faults \in 0..MaxFaults
  /\ theirs \in Bodies \cup {Absent} /\ muddled \in BOOLEAN

NoRecord == [pre |-> Unknown, post |-> Unknown]

Idle == [at |-> "idle", kind |-> 0, before |-> Absent, after |-> Absent, had |-> FALSE,
         seen |-> NoRecord, tries |-> 0, beside |-> FALSE, said |-> "", true |-> TRUE]

\* A command that ended remembers nothing but what it said.
Ended(where) == [Idle EXCEPT !.at = where]

Init ==
  /\ file \in {Absent} \cup [body : Bodies, ours : {0}]
  /\ rec = NoRecord
  /\ cmd = [c \in Commands |-> Idle]
  /\ edits = 0 /\ faults = 0
  /\ theirs = BodyOf(file) /\ origin = file /\ muddled = FALSE

At(c, where) == cmd[c].at = where
Running(c) ==
  cmd[c].at \in {"read", "compare", "rename", "record", "replace", "consent", "undo", "undoRename"}

\* watch, with the version that runs it, or detach, which reads install.json
\* first.
Begin(c) ==
  /\ At(c, "idle") /\ Cardinality({d \in Commands : Running(d)}) < AtOnce
  /\ \E kind \in Versions \cup {0} :
       cmd' = [cmd EXCEPT ![c].at = "read", ![c].kind = kind, ![c].seen = rec]
  /\ muddled' = (muddled \/ \E d \in Commands : Running(d))
  /\ UNCHANGED <<file, rec, edits, faults, theirs, origin>>

\* unchangedSinceWatch
Unchanged(seen, before) == seen.pre # Unknown /\ before # Absent /\ before = seen.post

\* What the edit makes of the file: install.Apply, or install.Remove. A file
\* left without a member goes when watch made it and it is the one watch left.
Edited(kind, seen, f) ==
  IF kind # 0 THEN [body |-> BodyOf(f), ours |-> kind]
  ELSE IF f.body = Absent /\ Unchanged(seen, f) /\ seen.pre = Absent THEN Absent
  ELSE [f EXCEPT !.ours = 0]

\* editSettings' read and edit. Entries that are there, or not, already are
\* left alone.
Read(c) ==
  /\ At(c, "read")
  /\ LET me == cmd[c] IN
     cmd' = [cmd EXCEPT ![c] =
       IF OursOf(file) = me.kind THEN [Ended("done") EXCEPT !.said = "nothing"]
       ELSE [@ EXCEPT !.at = "compare", !.before = file, !.after = Edited(me.kind, me.seen, file),
                      !.had = OursOf(file) # 0]]
  /\ UNCHANGED <<file, rec, edits, faults, history>>

\* selfCheck, of a detach that edited the file.
Said(me) ==
  IF ~Unchanged(me.seen, me.before) THEN "kept" ELSE IF me.after = me.seen.pre THEN "restored" ELSE "bug"
Told(me) == [Ended("done") EXCEPT !.said = Said(me), !.true = me.after = origin]

\* (broken: a file that changed is written all the same)
CompareNothing(c) ==
  /\ At(c, "compare")
  /\ cmd' = [cmd EXCEPT ![c].at = "rename", ![c].beside = FALSE]
  /\ UNCHANGED <<file, rec, edits, faults, history>>

\* Write's and Remove's comparison, or ErrChanged, which starts over. A file
\* to remove that is gone is removed.
Compare(c) ==
  /\ At(c, "compare")
  /\ LET me == cmd[c] IN
     cmd' = [cmd EXCEPT ![c] =
       IF file = me.before THEN [@ EXCEPT !.at = "rename", !.beside = FALSE]
       ELSE IF me.after = Absent /\ file = Absent THEN Told(me)
       ELSE IF me.tries + 1 < Attempts THEN [@ EXCEPT !.at = "read", !.tries = me.tries + 1]
       ELSE Ended("failed")]
  /\ UNCHANGED <<file, rec, edits, faults, history>>

\* The commands whose comparison the members of others no longer match.
Beside(body) ==
  [c \in Commands |-> [cmd[c] EXCEPT !.beside =
     @ \/ (body # BodyOf(file) /\ cmd[c].at \in {"rename", "undoRename"})]]

\* Whatever is there is replaced, what others wrote since the comparison too.
Put(c, f, me) ==
  /\ file' = f
  /\ cmd' = [Beside(BodyOf(f)) EXCEPT ![c] = me]
  /\ theirs' = IF cmd[c].beside THEN BodyOf(f) ELSE theirs
  /\ origin' = IF OursOf(f) = 0 \/ OursOf(file) # 0 THEN origin
               ELSE IF cmd[c].beside THEN cmd[c].before ELSE file

Rename(c) ==
  /\ At(c, "rename")
  /\ LET me == cmd[c] IN
     Put(c, me.after, IF me.kind # 0 THEN [me EXCEPT !.at = "record"]
                      ELSE Told(me))
  /\ UNCHANGED <<rec, edits, faults, muddled>>

ReadRecord(c) ==
  /\ At(c, "record")
  /\ cmd' = [cmd EXCEPT ![c].at = "replace", ![c].seen = rec]
  /\ UNCHANGED <<file, rec, edits, faults, history>>

\* (broken: a refresh takes the file it found for the file before watch)
RecordedAsFound(me) == [pre |-> me.before, post |-> me.after]

\* recordWatch: a refresh keeps the file before the first watch, if the file is
\* still the one that watch left.
Recorded(me) ==
  [pre |-> IF ~me.had THEN me.before
           ELSE IF me.seen.pre # Unknown /\ me.seen.post = me.before THEN me.seen.pre ELSE Unknown,
   post |-> me.after]

ReplaceRecord(c) ==
  /\ At(c, "replace")
  /\ rec' = Recorded(cmd[c])
  /\ cmd' = [cmd EXCEPT ![c].at = "consent"]
  /\ UNCHANGED <<file, edits, faults, history>>

Consent(c) ==
  /\ At(c, "consent")
  /\ cmd' = [cmd EXCEPT ![c] = Ended("done")]
  /\ UNCHANGED <<file, rec, edits, faults, history>>

Fault == faults < MaxFaults /\ faults' = faults + 1

\* install.json or the consent cannot be written: watch takes its edit back.
WriteFails(c) ==
  /\ cmd[c].at \in {"record", "replace", "consent"} /\ Fault
  /\ cmd' = [cmd EXCEPT ![c].at = "undo"]
  /\ UNCHANGED <<file, rec, edits, history>>

\* Only while the file holds what the edit wrote.
Undo(c) ==
  /\ At(c, "undo")
  /\ LET me == cmd[c]
         gone == me.before = Absent /\ file = Absent IN
     /\ cmd' = [cmd EXCEPT ![c] =
          IF file = me.after THEN [@ EXCEPT !.at = "undoRename", !.beside = FALSE]
          ELSE Ended(IF gone THEN "undone" ELSE "stuck")]
     /\ muddled' = (muddled \/ (file # me.after /\ ~gone))
  /\ UNCHANGED <<file, rec, edits, faults, theirs, origin>>

UndoRename(c) ==
  /\ At(c, "undoRename")
  /\ Put(c, cmd[c].before, Ended("undone"))
  /\ UNCHANGED <<rec, edits, faults, muddled>>

Kill(c) ==
  /\ Running(c) /\ Fault
  /\ muddled' = (muddled \/ cmd[c].at \in {"record", "replace", "undo", "undoRename"})
  /\ cmd' = [cmd EXCEPT ![c] = Ended("killed")]
  /\ UNCHANGED <<file, rec, edits, theirs, origin>>

\* Claude Code or a person changes the members of their own, or makes the file.
EditElsewhere ==
  /\ edits < MaxEdits /\ edits' = edits + 1
  /\ \E body \in Bodies \cup (IF OursOf(file) # 0 THEN {Absent} ELSE {}) :
       /\ body # BodyOf(file)
       /\ file' = [body |-> body, ours |-> OursOf(file)]
       /\ theirs' = body
       /\ cmd' = Beside(body)
  /\ UNCHANGED <<rec, faults, origin, muddled>>

Next ==
  \/ \E c \in Commands :
       \/ Begin(c) \/ Read(c) \/ Compare(c) \/ Rename(c)
       \/ ReadRecord(c) \/ ReplaceRecord(c) \/ Consent(c)
       \/ WriteFails(c) \/ Undo(c) \/ UndoRename(c) \/ Kill(c)
  \/ EditElsewhere

Spec == Init /\ [][Next]_vars

-----------------------------------------------------------------------------
\* No watch, detach or undo, at whatever point it dies or starts over, changes
\* what others have in settings.json, "so an edit Claude Code made in the
\* meantime is not silently discarded" (write.go Write); except an edit that
\* falls between the last comparison and the rename or the removal.
TheirsIsKept == BodyOf(file) = theirs

\* A detach that says it restored the file byte for byte "as it was before
\* watch" left the file that the entries first went into, or no file when there
\* was none, refreshes by newer binaries and failed watches included; and none
\* has to call itself a bug. The exceptions are commands that overlap, and a
\* watch that died before it recorded its edit: what the record says is then
\* of an earlier watch.
RestoredIsOriginal ==
  \A c \in Commands :
    /\ cmd[c].said # "bug"
    /\ cmd[c].said = "restored" /\ ~muddled => cmd[c].true

=============================================================================
