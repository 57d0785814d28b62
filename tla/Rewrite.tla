------------------------------ MODULE Rewrite ------------------------------
(***************************************************************************)
(* The compaction in place that a forget leaves a file through             *)
(* (internal/store gaps.go forgetRun and rewrite), byte by byte. Each kept *)
(* line is written over the file from its start, the file is cut to its    *)
(* new length last, and the process may be killed at any of those points,  *)
(* or in the middle of one write. The file's lock is held throughout, so   *)
(* nothing else touches it.                                                *)
(***************************************************************************)
EXTENDS Integers, Sequences, FiniteSets

CONSTANTS
  Lines,       \* how many records the file starts with
  MaxLen,      \* bound: bytes in one record, its newline apart
  MaxForgets,  \* bound: forgets of the same records, killed ones included
  Kills        \* where a forget may be killed: "between", "within" writes

VARIABLES
  file,     \* the bytes of the file
  len,      \* the length of each record
  doomed,   \* the records the user asked to forget
  pc,       \* "ready", "writing", "cutting", or "done" when the last forget ended
  read,     \* the bytes as the forget read them
  plan,     \* the kept lines of them still to be written
  off,      \* where the next one goes
  forgets,  \* forgets begun
  torn      \* whether one of them was cut short inside a write

vars == <<file, len, doomed, pc, read, plan, off, forgets, torn>>

\* A byte is a newline or the i-th byte of a record.
Bytes == (0..Lines) \X (0..MaxLen)
Newline == <<0, 0>>
Record(l) == [i \in 1..len[l] |-> <<l, i>>]

\* What a reader makes of some bytes: the runs between two newlines or an end
\* of the file, the empty ones passed over. A line is its first and last place.
Starts(bytes) == {i \in DOMAIN bytes : i > 1 => bytes[i - 1] = Newline}
Ends(bytes) == {i \in DOMAIN bytes : i < Len(bytes) => bytes[i + 1] = Newline}
LinesOf(bytes) ==
  {s \in Starts(bytes) \X Ends(bytes) : s[1] <= s[2] /\ \A i \in s[1]..s[2] : bytes[i] # Newline}

Size(s) == s[2] - s[1] + 1
Text(bytes, s) == [i \in 1..Size(s) |-> bytes[s[1] + i - 1]]

\* A line that does not parse is no record.
Parses(line) == \E l \in 1..Lines : line = Record(l)

\* A line stays unless it parses as a forgotten record.
Stays(line) == \A l \in doomed : line # Record(l)

\* bytes over the file's own, from position at.
Overlay(bytes, at) ==
  [i \in 1..(IF at + Len(bytes) > Len(file) THEN at + Len(bytes) ELSE Len(file)) |->
     IF i \in (at + 1)..(at + Len(bytes)) THEN bytes[i - at] ELSE file[i]]

Terminated(line) == Append(line, Newline)

TypeOK ==
  /\ file \in Seq(Bytes) /\ read \in Seq(Bytes)
  /\ len \in [1..Lines -> 1..MaxLen]
  /\ doomed \subseteq 1..Lines
  /\ pc \in {"ready", "writing", "cutting", "done"}
  /\ plan \subseteq LinesOf(read)
  /\ off \in 0..Len(file)
  /\ forgets \in 0..MaxForgets
  /\ torn \in BOOLEAN

-----------------------------------------------------------------------------
\* The records one after the other, end[l] where the newline of the l-th is.
Whole(end) ==
  [i \in 1..end[Lines] |->
     LET l == CHOOSE l \in 1..Lines : i \in (end[l - 1] + 1)..end[l]
     IN IF i = end[l] THEN Newline ELSE <<l, i - end[l - 1]>>]

\* The file ends with a newline, or its last append was torn just before it.
Init ==
  /\ doomed \in SUBSET (1..Lines)
  /\ \E end \in [0..Lines -> 0..(Lines * (MaxLen + 1))] :
       /\ end[0] = 0 /\ \A l \in 1..Lines : end[l] - end[l - 1] \in 2..(MaxLen + 1)
       /\ len = [l \in 1..Lines |-> end[l] - end[l - 1] - 1]
       /\ \E cut \in {0, 1} : file = SubSeq(Whole(end), 1, end[Lines] - cut)
  /\ pc = "ready"
  /\ read = <<>>
  /\ plan = {}
  /\ off = 0
  /\ forgets = 0
  /\ torn = FALSE

Kept == {s \in LinesOf(file) : Stays(Text(file, s))}

\* (broken: the file is cut before its lines are written, as it once was)
ForgetCutFirst ==
  /\ pc \in {"ready", "done"} /\ forgets < MaxForgets
  /\ Kept # LinesOf(file)
  /\ read' = file /\ plan' = Kept
  /\ file' = <<>>
  /\ pc' = "writing"
  /\ forgets' = forgets + 1
  /\ UNCHANGED <<len, doomed, off, torn>>

\* The plan, and the gap record, which lands before a byte is changed. A run
\* with nothing to remove is left alone.
Forget ==
  /\ pc \in {"ready", "done"} /\ forgets < MaxForgets
  /\ Kept # LinesOf(file)
  /\ read' = file /\ plan' = Kept
  /\ pc' = "writing"
  /\ forgets' = forgets + 1
  /\ UNCHANGED <<file, len, doomed, off, torn>>

Foremost == CHOOSE s \in plan : \A t \in plan : s[1] <= t[1]

\* (broken: the lines are written last one first)
WriteLineBackwards ==
  /\ pc = "writing" /\ plan # {}
  /\ LET last == CHOOSE s \in plan : \A t \in plan : t[1] <= s[1]
         before == plan \ {last}
     IN /\ file' = Overlay(Terminated(Text(read, last)),
                           Cardinality(UNION {s[1]..(s[2] + 1) : s \in before}))
        /\ plan' = before
        /\ off' = off + Size(last) + 1
  /\ UNCHANGED <<len, doomed, pc, read, forgets, torn>>

\* (broken: a newline is counted as two bytes)
WriteLineTwoEnds ==
  /\ pc = "writing" /\ plan # {}
  /\ file' = Overlay(Terminated(Text(read, Foremost)), off)
  /\ plan' = plan \ {Foremost}
  /\ off' = off + Size(Foremost) + 2
  /\ UNCHANGED <<len, doomed, pc, read, forgets, torn>>

WriteLine ==
  /\ pc = "writing" /\ plan # {}
  /\ file' = Overlay(Terminated(Text(read, Foremost)), off)
  /\ plan' = plan \ {Foremost}
  /\ off' = off + Size(Foremost) + 1
  /\ UNCHANGED <<len, doomed, pc, read, forgets, torn>>

Written ==
  /\ pc = "writing" /\ plan = {}
  /\ pc' = "cutting"
  /\ UNCHANGED <<file, len, doomed, read, plan, off, forgets, torn>>

\* (broken: the file keeps its length)
CutNothing ==
  /\ pc = "cutting"
  /\ pc' = "done"
  /\ read' = <<>> /\ off' = 0
  /\ UNCHANGED <<file, len, doomed, plan, forgets, torn>>

\* Truncate, and the full sync after it.
Cut ==
  /\ pc = "cutting"
  /\ file' = SubSeq(file, 1, off)
  /\ pc' = "done"
  /\ read' = <<>> /\ off' = 0
  /\ UNCHANGED <<len, doomed, plan, forgets, torn>>

\* The forget dies, or one of its writes fails, with the bytes in bytes on file.
Die(bytes) ==
  /\ pc \in {"writing", "cutting"}
  /\ file' = bytes
  /\ pc' = "ready"
  /\ read' = <<>> /\ plan' = {} /\ off' = 0
  /\ UNCHANGED <<len, doomed, forgets>>

DieBetween == "between" \in Kills /\ Die(file) /\ UNCHANGED torn

\* Only a first part of the line reached the file.
DieWithin ==
  /\ "within" \in Kills /\ plan # {}
  /\ torn' = TRUE
  /\ \E n \in 1..Size(Foremost) : Die(Overlay(SubSeq(Text(read, Foremost), 1, n), off))

Next == Forget \/ WriteLine \/ Written \/ Cut \/ DieBetween \/ DieWithin

Spec == Init /\ [][Next]_vars

-----------------------------------------------------------------------------
Reads(l) == \E s \in LinesOf(file) : Text(file, s) = Record(l)

\* At every point of a forget, of the forget after a killed one, and after
\* them, a record the user did not ask to forget reads back, "in its new place
\* or its old one" (gaps.go rewrite). It is so for a forget killed between two
\* of its writes; one cut short inside a write can destroy a line that is
\* longer than the distance it moves.
KeptLinesRead == ~torn => \A l \in (1..Lines) \ doomed : Reads(l)

Damaged(bytes) == {s \in LinesOf(bytes) : ~Parses(Text(bytes, s))}

\* A forget adds at most one damaged line, where the written part and the old
\* bytes meet, and a killed forget that is run again adds at most one more; the
\* reader counts each (records_unreadable).
OneLineDamagedEach == Cardinality(Damaged(file)) <= forgets

\* The records of the file are in the order they were appended in, none twice.
Ordered(bytes) ==
  \A s, t \in LinesOf(bytes) : \E l, m \in 1..Lines :
    Text(bytes, s) = Record(l) /\ Text(bytes, t) = Record(m) /\ (s[1] < t[1] => l < m)

\* A forget that ends leaves no record it was asked to remove, its duplicates
\* and what a killed forget left past its last write included; and one that
\* was never killed leaves the other records as they were, in their order.
ForgottenLinesGo ==
  pc = "done" =>
    /\ \A l \in doomed : ~Reads(l)
    /\ forgets = 1 => Ordered(file) /\ \A l \in (1..Lines) \ doomed : Reads(l)

=============================================================================
