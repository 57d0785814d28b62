---------------------------- MODULE RetentionProof ----------------------------
(***************************************************************************)
(* Theorems about two parts of MCRetention: Eviction, for any number of    *)
(* hooks and of evictors and any number of records the run held, and       *)
(* SpillFile, for any number of writers.  The invariants are of the part's *)
(* own variables; a step of another part leaves them alone.                *)
(***************************************************************************)
EXTENDS MCRetention, SequenceTheorems, WellFoundedInduction, TLAPS

allVars == <<part, vars, evictVars, spillVars>>

\* A step is one of each part, or leaves the part as it is.
LEMMA PartStep ==
  ASSUME [MCNext]_allVars
  PROVE  [Ev!Next]_evictVars /\ [Sp!Next]_spillVars
BY DEF MCNext, allVars, InForget, InEvict, InSpill, Ev!Next, Sp!Next

-----------------------------------------------------------------------------

\* The run that may be evicted holds a record, in the first file.
Begun == Old \in Nat \ {0} /\ MaxFiles \in Nat \ {0}

Working == {"wait", "locked", "numbered", "counted", "spill"}

\* What the variables are, but for the numbers that records carry.
Shape ==
  /\ path \in [Ev!Names -> Ev!Files \cup {0}]
  /\ DOMAIN lines = Ev!Files /\ \A f \in Ev!Files : lines[f] \in Seq(Ev!Range(lines[f]))
  /\ evGaps \in Seq(Ev!Range(evGaps))
  /\ pc \in [Hooks -> {"mkdir", "open", "wait", "locked", "numbered", "counted",
                       "spillDir", "spillOpen", "spill", "done", "failed"}]
  /\ handle \in [Hooks -> Ev!Files \cup {0}]
  /\ \A h \in Hooks : pc[h] \in Working => handle[h] \in Ev!Files
  /\ ev \in [Evictors -> {"wait", "plan", "gap", "list", "unlink", "rmdir",
                          "removed", "nothing", "failed", "killed"}]
  /\ listed \in [Evictors -> SUBSET (Ev!Names \cup {"seq"})]
  /\ DOMAIN read = Evictors /\ late \subseteq Hooks

\* No file is the one a name stands for when there is none.
LEMMA NoFile == 0 \notin Ev!Files
BY DEF Ev!Files

\* A sequence that one element is put to the end of.
LEMMA AppendRange ==
  ASSUME NEW s, s \in Seq(Ev!Range(s)), NEW e
  PROVE  /\ Append(s, e) \in Seq(Ev!Range(Append(s, e)))
         /\ Ev!Range(Append(s, e)) = Ev!Range(s) \cup {e}
         /\ Append(s, e) # <<>>
         /\ \A i \in DOMAIN s : i \in DOMAIN Append(s, e) /\ Append(s, e)[i] = s[i]
         /\ Len(Append(s, e)) = Len(s) + 1
<1> DEFINE S == Ev!Range(s) \cup {e}
<1>1. s \in Seq(S)
  BY DEF Ev!Range
<1>2. /\ Append(s, e) \in Seq(S) /\ Len(Append(s, e)) = Len(s) + 1 /\ Len(s) \in Nat
      /\ \A i \in 1..Len(s) : Append(s, e)[i] = s[i]
      /\ Append(s, e)[Len(s) + 1] = e
  BY <1>1
<1>3. DOMAIN s = 1..Len(s) /\ DOMAIN Append(s, e) = 1..(Len(s) + 1)
  BY <1>1, <1>2
<1>4. Ev!Range(Append(s, e)) = S
  BY <1>2, <1>3 DEF Ev!Range
<1> QED BY <1>2, <1>3, <1>4

\* A record that lands is put to the end of the file its hook holds.
LEMMA LandStep ==
  ASSUME Shape, NEW h \in Hooks, pc[h] \in Working, NEW line, Ev!Land(h, line)
  PROVE  /\ DOMAIN lines' = Ev!Files
         /\ \A f \in Ev!Files : lines'[f] \in Seq(Ev!Range(lines'[f]))
         /\ \A f \in Ev!Files :
              Ev!Range(lines'[f]) = Ev!Range(lines[f]) \cup IF f = handle[h] THEN {line} ELSE {}
         /\ \A f \in Ev!Files : f # handle[h] => lines'[f] = lines[f]
         /\ handle[h] \in Ev!Files
<1>1. handle[h] \in Ev!Files
  BY DEF Shape
<1>2. lines'[handle[h]] = Append(lines[handle[h]], line)
  BY <1>1 DEF Ev!Land, Shape
<1>3. \A f \in Ev!Files : f # handle[h] => lines'[f] = lines[f]
  BY DEF Ev!Land, Shape
<1>4. /\ lines'[handle[h]] \in Seq(Ev!Range(lines'[handle[h]]))
      /\ Ev!Range(lines'[handle[h]]) = Ev!Range(lines[handle[h]]) \cup {line}
  BY <1>1, <1>2, AppendRange DEF Shape
<1> QED BY <1>1, <1>3, <1>4 DEF Ev!Land, Shape

\* Each step keeps the variables' shape.
LEMMA ShapeStep == Shape /\ [Ev!Next]_evictVars => Shape'
<1> SUFFICES ASSUME Shape, [Ev!Next]_evictVars PROVE Shape'
  OBVIOUS
<1>1. ASSUME NEW h \in Hooks, Ev!MakeDir(h) \/ Ev!TakeLock(h) \/ Ev!ReadSeq(h) \/ Ev!WriteSeq(h)
      PROVE  Shape'
  BY <1>1 DEF Ev!MakeDir, Ev!TakeLock, Ev!ReadSeq, Ev!WriteSeq, Ev!Goto, Ev!evVars, Shape,
              Working
<1>2. ASSUME NEW h \in Hooks, Ev!OpenRecords(h) \/ Ev!OpenSpill(h)
      PROVE  Shape'
  <2>1. UNCHANGED <<lines, evGaps, ev, listed, read, late>>
    BY <1>2 DEF Ev!OpenRecords, Ev!OpenSpill, Ev!OpenAt, Ev!OpenFails, Ev!evVars
  <2>2. PICK name \in Ev!Names, next \in {"wait", "spill"} :
          Ev!OpenAt(h, name, next) \/ Ev!OpenFails(h)
    BY <1>2 DEF Ev!OpenRecords, Ev!OpenSpill, Ev!Names
  <2>3. CASE Ev!OpenFails(h)
    BY <2>1, <2>3 DEF Ev!OpenFails, Ev!Goto, Shape, Working
  <2>4. CASE Ev!OpenAt(h, name, next)
    <3>1. PICK f \in Ev!Files : /\ path' = path \/ path' = [path EXCEPT ![name] = f]
                                /\ handle' = [handle EXCEPT ![h] = f]
      <4>1. CASE path[name] # 0
        BY <2>4, <4>1 DEF Ev!OpenAt, Shape
      <4>2. CASE path[name] = 0
        BY <2>4, <4>2 DEF Ev!OpenAt, Ev!Unused
      <4> QED BY <4>1, <4>2
    <3>2. path' \in [Ev!Names -> Ev!Files \cup {0}] /\ handle' \in [Hooks -> Ev!Files \cup {0}]
      BY <3>1 DEF Shape
    <3>3. handle'[h] \in Ev!Files /\ \A k \in Hooks \ {h} : handle'[k] = handle[k]
      BY <3>1 DEF Shape
    <3>4. pc' = [pc EXCEPT ![h] = next]
      BY <2>4 DEF Ev!OpenAt, Ev!Goto
    <3>5. \A k \in Hooks : pc'[k] \in Working => handle'[k] \in Ev!Files
      BY <3>3, <3>4 DEF Shape
    <3> QED BY <2>1, <3>2, <3>4, <3>5 DEF Shape
  <2> QED BY <2>2, <2>3, <2>4
<1>3. ASSUME NEW h \in Hooks, Ev!AppendRecord(h) \/ Ev!Spill(h)
      PROVE  Shape'
  <2>1. PICK line : pc[h] \in Working /\ Ev!Land(h, line)
    BY <1>3 DEF Ev!AppendRecord, Ev!Spill, Working
  <2>2. UNCHANGED <<path, evGaps, handle, ev, listed, read>> /\ pc' = [pc EXCEPT ![h] = "done"]
    BY <2>1 DEF Ev!Land, Ev!Goto, Ev!evVars
  <2>3. late' \subseteq Hooks
    BY <2>1 DEF Ev!Land, Shape
  <2> QED BY <2>1, <2>2, <2>3, LandStep DEF Shape, Working
<1>4. ASSUME NEW e \in Evictors,
             \/ Ev!TakeGaps(e) \/ Ev!Plan(e) \/ Ev!List(e)
             \/ Ev!Unlink(e) \/ Ev!Rmdir(e) \/ Ev!Kill(e)
      PROVE  Shape'
  <2>1. CASE Ev!TakeGaps(e) \/ Ev!Plan(e)
    BY <2>1 DEF Ev!TakeGaps, Ev!Plan, Ev!EvGoto, Ev!runVars, Ev!hookVars, Shape
  <2>2. CASE Ev!List(e)
    BY <2>2 DEF Ev!List, Ev!EvGoto, Ev!runVars, Ev!hookVars, Shape
  <2>3. CASE Ev!Unlink(e)
    BY <2>3 DEF Ev!Unlink, Ev!EvGoto, Ev!hookVars, Shape
  <2>4. CASE Ev!Rmdir(e) \/ Ev!Kill(e)
    BY <2>4 DEF Ev!Rmdir, Ev!Kill, Ev!EvGoto, Ev!runVars, Ev!hookVars, Shape
  <2> QED BY <1>4, <2>1, <2>2, <2>3, <2>4
<1>5. ASSUME NEW e \in Evictors, Ev!WriteGap(e) PROVE Shape'
  BY <1>5, AppendRange DEF Ev!WriteGap, Ev!EvGoto, Ev!runVars, Ev!hookVars, Shape
<1>6. CASE UNCHANGED evictVars
  BY <1>6 DEF evictVars, Shape
<1> QED BY <1>1, <1>2, <1>3, <1>4, <1>5, <1>6 DEF Ev!Next, Ev!Over, Ev!vars, Ev!hookVars,
                                                  Ev!evVars, evictVars

-----------------------------------------------------------------------------
\* Every file that holds a record, or that a hook has open, has a name.
OnPath(f) == \E n \in Ev!Names : path[n] = f
AllLinked ==
  \A f \in Ev!Files : Ev!Range(lines[f]) # {} \/ (\E h \in Hooks : handle[h] = f) => OnPath(f)

Accounted(line) == \E i \in DOMAIN evGaps : line \in evGaps[i]

\* The records that no hook put in once an evictor had read the run.
Early == {line \in Ev!Landed : line.by \notin late}

Unread == \A e \in Evictors : ev[e] \in {"wait", "plan"} => read[e] = {}
GapFirst ==
  /\ evGaps = <<>> => AllLinked
  /\ \A e \in Evictors : ev[e] \in {"list", "unlink"} => evGaps # <<>>
ReadFirst ==
  /\ ~Ev!Counting => path["records"] = 1 /\ Ev!Range(lines[1]) # {} /\ AllLinked
  /\ \A e \in Evictors : ev[e] \in {"gap", "list", "unlink"} => Ev!Counting
EarlyIsTold ==
  /\ \A line \in Early : line \in Ev!Readable \/ Accounted(line)
  /\ \A e \in Evictors : ev[e] = "gap" => \A line \in Early : line \in read[e] \/ Accounted(line)
  /\ \A e \in Evictors : ev[e] \in {"list", "unlink"} => \A line \in Early : Accounted(line)

AdmitInv == Unread /\ GapFirst /\ ReadFirst /\ EarlyIsTold

\* A step that moves no record and unlinks no file keeps what is told.
LEMMA QuietStep ==
  ASSUME Shape, AdmitInv, UNCHANGED <<lines, evGaps, read, ev, late>>,
         \A n \in Ev!Names : path[n] # 0 => path'[n] = path[n],
         \A f \in Ev!Files : (\E h \in Hooks : handle'[h] = f) =>
           (\E h \in Hooks : handle[h] = f) \/ (\E n \in Ev!Names : path'[n] = f)
  PROVE  AdmitInv'
<1>2. \A f \in Ev!Files : OnPath(f) => OnPath(f)'
  BY NoFile DEF OnPath
<1>3. AllLinked => AllLinked'
  BY <1>2 DEF AllLinked, OnPath
<1>4. Ev!Readable \subseteq Ev!Readable'
  BY DEF Ev!Readable, Ev!Under, Ev!Names
<1>5. Early' = Early /\ \A line : Accounted(line)' <=> Accounted(line)
  BY DEF Early, Ev!Landed, Accounted
<1>6. Ev!Counting' <=> Ev!Counting
  BY DEF Ev!Counting
<1>7. path["records"] = 1 => path'["records"] = 1
  BY DEF Ev!Names
<1>8. Unread' /\ GapFirst'
  BY <1>3 DEF AdmitInv, Unread, GapFirst
<1>9. ReadFirst'
  BY <1>3, <1>6, <1>7 DEF AdmitInv, ReadFirst
<1>10. EarlyIsTold'
  BY <1>4, <1>5 DEF AdmitInv, EarlyIsTold
<1> QED BY <1>8, <1>9, <1>10 DEF AdmitInv

\* A record that lands is in a file with a name, or is late.
LEMMA AdmitLand ==
  ASSUME Shape, AdmitInv, NEW h \in Hooks, pc[h] \in Working, NEW n, Ev!Land(h, Ev!Rec(h, n))
  PROVE  AdmitInv'
<1> DEFINE line == Ev!Rec(h, n)
<1>1. UNCHANGED <<path, evGaps, read, ev, handle>>
  BY DEF Ev!Land, Ev!evVars
<1>2. /\ \A f \in Ev!Files :
              Ev!Range(lines'[f]) = Ev!Range(lines[f]) \cup IF f = handle[h] THEN {line} ELSE {}
      /\ handle[h] \in Ev!Files
  BY LandStep
<1>3. AllLinked => AllLinked'
  BY <1>1, <1>2 DEF AllLinked, OnPath
<1>4. Ev!Landed' = Ev!Landed \cup {line} /\ Ev!Readable \subseteq Ev!Readable'
  <2>1. Ev!Landed' = Ev!Landed \cup {line}
    BY <1>2 DEF Ev!Landed
  <2>2. \A m \in Ev!Names : Ev!Under(m) \subseteq Ev!Under(m)'
    BY <1>1, <1>2 DEF Ev!Under, Shape
  <2> QED BY <2>1, <2>2 DEF Ev!Readable, Ev!Names
<1>5. Ev!Counting => Early' \subseteq Early
  BY <1>4 DEF Early, Ev!Land, Ev!Rec
<1>6. ~Ev!Counting => line \in Ev!Readable'
  <2> SUFFICES ASSUME ~Ev!Counting PROVE line \in Ev!Readable'
    OBVIOUS
  <2>1. PICK m \in Ev!Names : path[m] = handle[h]
    BY <1>2 DEF AdmitInv, ReadFirst, AllLinked, OnPath
  <2>2. path'[m] = handle[h] /\ line \in Ev!Range(lines'[path'[m]])
    BY <1>1, <1>2, <2>1
  <2>3. path'[m] # 0
    BY <1>2, <2>2, NoFile
  <2> QED BY <2>2, <2>3 DEF Ev!Readable, Ev!Under, Ev!Names
<1>7. Early' \subseteq Early \cup {line}
  BY <1>4 DEF Early, Ev!Land
<1>8. \A x : Accounted(x)' <=> Accounted(x)
  BY <1>1 DEF Accounted
<1>9. Ev!Counting' <=> Ev!Counting
  BY <1>1 DEF Ev!Counting
<1>10. Unread' /\ GapFirst'
  BY <1>1, <1>3 DEF AdmitInv, Unread, GapFirst
<1>11. ReadFirst'
  <2>1. 1 \in Ev!Files => Ev!Range(lines[1]) \subseteq Ev!Range(lines'[1])
    BY <1>2
  <2>2. path["records"] = 1 => 1 \in Ev!Files
    BY DEF Shape, Ev!Names
  <2> QED BY <1>1, <1>3, <1>9, <2>1, <2>2 DEF AdmitInv, ReadFirst
<1>12. EarlyIsTold'
  <2>1. CASE Ev!Counting
    BY <1>1, <1>4, <1>5, <1>8, <2>1 DEF AdmitInv, EarlyIsTold
  <2>2. CASE ~Ev!Counting
    <3>1. \A e \in Evictors : ev'[e] \notin {"gap", "list", "unlink"}
      BY <1>1, <2>2 DEF AdmitInv, ReadFirst
    <3>2. \A x \in Early' : x \in Ev!Readable' \/ Accounted(x)'
      BY <1>4, <1>6, <1>7, <1>8, <2>2 DEF AdmitInv, EarlyIsTold
    <3> QED BY <3>1, <3>2 DEF EarlyIsTold
  <2> QED BY <2>1, <2>2
<1> QED BY <1>10, <1>11, <1>12 DEF AdmitInv

\* Each step keeps a gap ahead of what the removal takes.
LEMMA AdmitStep == Shape /\ AdmitInv /\ [Ev!Next]_evictVars => AdmitInv'
<1> SUFFICES ASSUME Shape, AdmitInv, [Ev!Next]_evictVars PROVE AdmitInv'
  OBVIOUS
<1>1. ASSUME NEW h \in Hooks, Ev!MakeDir(h) \/ Ev!TakeLock(h) \/ Ev!ReadSeq(h) \/ Ev!WriteSeq(h)
      PROVE  AdmitInv'
  <2>1. UNCHANGED <<path, handle, lines, evGaps, read, ev, late>>
    BY <1>1 DEF Ev!MakeDir, Ev!TakeLock, Ev!ReadSeq, Ev!WriteSeq, Ev!evVars
  <2> QED BY <2>1, QuietStep
<1>2. ASSUME NEW h \in Hooks, Ev!OpenRecords(h) \/ Ev!OpenSpill(h)
      PROVE  AdmitInv'
  <2>1. UNCHANGED <<lines, evGaps, read, ev, late>>
    BY <1>2 DEF Ev!OpenRecords, Ev!OpenSpill, Ev!OpenAt, Ev!OpenFails, Ev!evVars
  <2>2. \A n \in Ev!Names : path[n] # 0 => path'[n] = path[n]
    BY <1>2 DEF Ev!OpenRecords, Ev!OpenSpill, Ev!OpenAt, Ev!OpenFails, Shape
  <2>3. ASSUME NEW f \in Ev!Files, NEW g \in Hooks, handle'[g] = f
        PROVE  (\E k \in Hooks : handle[k] = f) \/ (\E n \in Ev!Names : path'[n] = f)
    BY <1>2, <2>3 DEF Ev!OpenRecords, Ev!OpenSpill, Ev!OpenAt, Ev!OpenFails, Shape, Ev!Names
  <2> QED BY <2>1, <2>2, <2>3, QuietStep
<1>3. ASSUME NEW h \in Hooks, Ev!AppendRecord(h) \/ Ev!Spill(h)
      PROVE  AdmitInv'
  BY <1>3, AdmitLand DEF Ev!AppendRecord, Ev!Spill, Working
<1>4. ASSUME NEW e \in Evictors, Ev!TakeGaps(e) \/ Ev!List(e) \/ Ev!Rmdir(e) \/ Ev!Kill(e)
      PROVE  AdmitInv'
  <2>1. UNCHANGED <<path, lines, evGaps, read, handle, late>>
    BY <1>4 DEF Ev!TakeGaps, Ev!List, Ev!Rmdir, Ev!Kill, Ev!runVars, Ev!hookVars
  <2>2. /\ \A g \in Evictors \ {e} : ev'[g] = ev[g]
        /\ \/ ev'[e] \in {"removed", "failed", "killed"}
           \/ ev[e] = "wait" /\ ev'[e] = "plan"
           \/ ev[e] = "list" /\ ev'[e] = "unlink"
    BY <1>4 DEF Ev!TakeGaps, Ev!List, Ev!Rmdir, Ev!Kill, Ev!EvGoto, Shape
  <2>3. /\ Ev!Readable' = Ev!Readable /\ Early' = Early
        /\ (AllLinked' <=> AllLinked) /\ (Ev!Counting' <=> Ev!Counting)
    BY <2>1 DEF Ev!Readable, Ev!Under, Early, Ev!Landed, AllLinked, OnPath, Ev!Counting
  <2>4. \A line : Accounted(line)' <=> Accounted(line)
    BY <2>1 DEF Accounted
  <2>5. Unread' /\ GapFirst'
    BY <2>1, <2>2, <2>3 DEF AdmitInv, Unread, GapFirst
  <2>6. ReadFirst'
    BY <2>1, <2>2, <2>3 DEF AdmitInv, ReadFirst
  <2>7. EarlyIsTold'
    BY <2>1, <2>2, <2>3, <2>4 DEF AdmitInv, EarlyIsTold
  <2> QED BY <2>5, <2>6, <2>7 DEF AdmitInv
<1>5. ASSUME NEW e \in Evictors, Ev!Plan(e) PROVE AdmitInv'
  <2>1. UNCHANGED <<path, lines, evGaps, handle, late>> /\ ev[e] = "plan"
    BY <1>5 DEF Ev!Plan, Ev!runVars, Ev!hookVars
  <2>2. \A g \in Evictors \ {e} : ev'[g] = ev[g] /\ read'[g] = read[g]
    BY <1>5 DEF Ev!Plan, Ev!EvGoto, Shape
  <2>3. Ev!Readable' = Ev!Readable /\ Early' = Early /\ (AllLinked' <=> AllLinked)
    BY <2>1 DEF Ev!Readable, Ev!Under, Early, Ev!Landed, AllLinked, OnPath
  <2>4. \A line : Accounted(line)' <=> Accounted(line)
    BY <2>1 DEF Accounted
  <2>5. \/ ev'[e] = "gap" /\ read'[e] = Ev!Readable
        \/ ev'[e] = "nothing" /\ read' = read
    BY <1>5 DEF Ev!Plan, Ev!EvGoto, Shape
  <2>6. Ev!Counting => Ev!Counting'
    <3>1. read[e] = {}
      BY <2>1 DEF AdmitInv, Unread
    <3> QED BY <2>2, <3>1 DEF Ev!Counting
  <2>7. ev'[e] = "gap" => Ev!Counting'
    <3> SUFFICES ASSUME ev'[e] = "gap", ~Ev!Counting PROVE Ev!Counting'
      BY <2>6
    <3>1. path["records"] = 1 /\ Ev!Range(lines[1]) # {}
      BY DEF AdmitInv, ReadFirst
    <3>2. Ev!Readable # {}
      BY <3>1 DEF Ev!Readable, Ev!Under
    <3> QED BY <2>5, <3>2 DEF Ev!Counting
  <2>8. Unread' /\ GapFirst'
    BY <2>1, <2>2, <2>3, <2>5 DEF AdmitInv, Unread, GapFirst
  <2>9. ReadFirst'
    BY <2>1, <2>2, <2>3, <2>5, <2>6, <2>7 DEF AdmitInv, ReadFirst
  <2>10. EarlyIsTold'
    BY <2>1, <2>2, <2>3, <2>4, <2>5 DEF AdmitInv, EarlyIsTold
  <2> QED BY <2>8, <2>9, <2>10 DEF AdmitInv
<1>6. ASSUME NEW e \in Evictors, Ev!WriteGap(e) PROVE AdmitInv'
  <2>1. /\ UNCHANGED <<path, lines, handle, read, late>>
        /\ ev[e] = "gap" /\ evGaps' = Append(evGaps, read[e])
    BY <1>6 DEF Ev!WriteGap, Ev!runVars, Ev!hookVars
  <2>2. ev'[e] = "list" /\ \A g \in Evictors \ {e} : ev'[g] = ev[g]
    BY <1>6 DEF Ev!WriteGap, Ev!EvGoto, Shape
  <2>3. /\ Ev!Readable' = Ev!Readable /\ Early' = Early
        /\ (AllLinked' <=> AllLinked) /\ (Ev!Counting' <=> Ev!Counting)
    BY <2>1 DEF Ev!Readable, Ev!Under, Early, Ev!Landed, AllLinked, OnPath, Ev!Counting
  <2>4. /\ evGaps' # <<>> /\ \A i \in DOMAIN evGaps : i \in DOMAIN evGaps' /\ evGaps'[i] = evGaps[i]
        /\ read[e] \in Ev!Range(evGaps')
    BY <2>1, AppendRange DEF Shape
  <2>5. \A line : (Accounted(line) => Accounted(line)') /\ (line \in read[e] => Accounted(line)')
    BY <2>4 DEF Accounted, Ev!Range
  <2>6. Unread' /\ GapFirst'
    BY <2>1, <2>2, <2>4 DEF AdmitInv, Unread, GapFirst
  <2>7. ReadFirst'
    BY <2>1, <2>2, <2>3 DEF AdmitInv, ReadFirst
  <2>8. EarlyIsTold'
    BY <2>1, <2>2, <2>3, <2>5 DEF AdmitInv, EarlyIsTold
  <2> QED BY <2>6, <2>7, <2>8 DEF AdmitInv
<1>7. ASSUME NEW e \in Evictors, Ev!Unlink(e) PROVE AdmitInv'
  <2>1. UNCHANGED <<lines, evGaps, ev, read, late>> /\ ev[e] = "unlink"
    BY <1>7 DEF Ev!Unlink, Ev!hookVars
  <2>2. Early' = Early /\ (Ev!Counting' <=> Ev!Counting) /\ \A line : Accounted(line)' <=> Accounted(line)
    BY <2>1 DEF Early, Ev!Landed, Ev!Counting, Accounted
  <2>3. Ev!Counting /\ evGaps # <<>> /\ \A line \in Early : Accounted(line)
    BY <2>1 DEF AdmitInv, ReadFirst, GapFirst, EarlyIsTold
  <2>4. Unread' /\ GapFirst'
    BY <2>1, <2>3 DEF AdmitInv, Unread, GapFirst
  <2>5. ReadFirst'
    BY <2>1, <2>2, <2>3 DEF AdmitInv, ReadFirst
  <2>6. EarlyIsTold'
    BY <2>1, <2>2, <2>3 DEF AdmitInv, EarlyIsTold
  <2> QED BY <2>4, <2>5, <2>6 DEF AdmitInv
<1>8. CASE UNCHANGED evictVars
  <2>1. UNCHANGED <<path, handle, lines, evGaps, read, ev, late>>
    BY <1>8 DEF evictVars
  <2> QED BY <2>1, QuietStep
<1> QED
  BY <1>1, <1>2, <1>3, <1>4, <1>5, <1>6, <1>7, <1>8 DEF Ev!Next, Ev!Over, Ev!vars,
                                                        Ev!hookVars, Ev!evVars, evictVars

\* The run at first: its records are in one file, which has its name.
LEMMA AdmitInit == ASSUME Begun PROVE Ev!Init => Shape /\ AdmitInv
<1> SUFFICES ASSUME Ev!Init PROVE Shape /\ AdmitInv
  OBVIOUS
<1>1. 1 \in Ev!Files /\ 0 \notin Ev!Files
  BY DEF Begun, Ev!Files
<1>2. lines[1] = [i \in 1..Old |-> Ev!Rec(Nobody, i)] /\ \A f \in Ev!Files \ {1} : lines[f] = <<>>
  BY <1>1 DEF Ev!Init
<1>3. \A f \in Ev!Files : lines[f] \in Seq(Ev!Range(lines[f]))
  <2>1. lines[1] \in Seq(Ev!Range(lines[1]))
    <3>1. \A i \in 1..Old : lines[1][i] \in Ev!Range(lines[1])
      BY <1>2 DEF Ev!Range
    <3>2. lines[1] = [i \in 1..Old |-> lines[1][i]]
      BY <1>2
    <3>3. lines[1] \in [1..Old -> Ev!Range(lines[1])] /\ Old \in Nat
      BY <3>1, <3>2 DEF Begun
    <3> QED BY <3>3, SeqDef
  <2>2. \A S : <<>> \in Seq(S)
    OBVIOUS
  <2>3. ASSUME NEW f \in Ev!Files \ {1} PROVE lines[f] \in Seq(Ev!Range(lines[f]))
    <3>1. lines[f] = <<>>
      BY <1>2
    <3> QED BY <2>2, <3>1
  <2> QED BY <2>1, <2>3
<1>4. evGaps \in Seq(Ev!Range(evGaps)) /\ evGaps = <<>>
  BY DEF Ev!Init
<1>5. Shape
  BY <1>1, <1>3, <1>4 DEF Ev!Init, Shape, Working, Ev!Names
<1>6. Ev!Range(lines[1]) # {} /\ path["records"] = 1
  <2>1. lines[1][1] \in Ev!Range(lines[1])
    BY <1>2 DEF Ev!Range, Begun
  <2> QED BY <2>1 DEF Ev!Init, Ev!Names
<1>7. AllLinked
  <2>1. \A f \in Ev!Files \ {1} : Ev!Range(lines[f]) = {}
    BY <1>2 DEF Ev!Range
  <2>2. OnPath(1)
    BY <1>6 DEF OnPath, Ev!Names
  <2> QED BY <1>1, <2>1, <2>2 DEF Ev!Init, AllLinked
<1>8. Ev!Readable = Ev!Landed
  <2>1. \A f \in Ev!Files \ {1} : Ev!Range(lines[f]) = {}
    BY <1>2 DEF Ev!Range
  <2>3. Ev!Landed = Ev!Range(lines[1])
    BY <1>1, <2>1 DEF Ev!Landed
  <2>2. Ev!Under("records") = Ev!Range(lines[1]) /\ Ev!Under("spill") = {}
    BY DEF Ev!Init, Ev!Under, Ev!Names
  <2> QED BY <2>2, <2>3 DEF Ev!Readable
<1>9. AdmitInv
  BY <1>4, <1>6, <1>7, <1>8 DEF Ev!Init, AdmitInv, Unread, GapFirst, ReadFirst, EarlyIsTold,
                                Early
<1> QED BY <1>5, <1>9

\* A record that landed and that no reader finds again went with a gap already
\* written, and with one that counts it if it was there when an evictor read
\* the run: the gap is flushed before the first unlink, and an evictor that
\* reads nothing comes after one that read it all (evict.go evictRun).
THEOREM LossStaysAdmitted ==
  ASSUME Begun
  PROVE  MCSpec => []LossIsAdmitted
<1>1. MCInit => Shape /\ AdmitInv
  BY AdmitInit DEF MCInit
<1>2. Shape /\ AdmitInv /\ [MCNext]_allVars => Shape' /\ AdmitInv'
  BY ShapeStep, AdmitStep, PartStep
<1>3. Shape /\ AdmitInv => LossIsAdmitted
  <2> SUFFICES ASSUME Shape, AdmitInv, NEW line \in Ev!Lost
               PROVE  evGaps # <<>> /\ (line.by \notin late => Accounted(line))
    BY DEF LossIsAdmitted, Ev!LossIsAdmitted, Accounted
  <2>1. PICK f \in Ev!Files : line \in Ev!Range(lines[f])
    BY DEF Ev!Lost, Ev!Landed
  <2>2. ~OnPath(f)
    <3> SUFFICES ASSUME NEW n \in Ev!Names, path[n] = f PROVE FALSE
      BY DEF OnPath
    <3>1. line \in Ev!Under(n)
      BY <2>1 DEF Ev!Under, Ev!Files
    <3> QED BY <3>1 DEF Ev!Lost, Ev!Readable, Ev!Names
  <2>3. evGaps # <<>>
    BY <2>1, <2>2 DEF AdmitInv, GapFirst, AllLinked
  <2> QED BY <2>3 DEF Ev!Lost, Early, AdmitInv, EarlyIsTold
<1> QED BY <1>1, <1>2, <1>3, PTL DEF MCSpec, allVars

-----------------------------------------------------------------------------
\* No evictor was killed or failed.
Smooth == \A e \in Evictors : ev[e] \notin {"killed", "failed"}

\* One evictor at a time is between the lock on the gap records and the end of
\* its pass.
Exclusive == \A e \in Evictors : ev[e] \in {"plan", "gap", "list", "unlink"} => gapLock = e

\* The run has no file left, or has one that a hook made since.
Emptied == fresh \/ (~(seq > 0) /\ \A n \in Ev!Names : path[n] = 0)

\* A run whose removal ended well is never idle again.
OneGap ==
  /\ evGaps = <<>> \/ Len(evGaps) = 1
  /\ \A e \in Evictors : ev[e] = "gap" => evGaps = <<>>
  /\ evGaps # <<>> /\ (\A e \in Evictors : ev[e] \notin {"list", "unlink"}) => Emptied

OnceInv == Exclusive /\ (Smooth => OneGap)

\* An evictor that has ended stays as it ended.
LEMMA SmoothBefore == ASSUME Shape, [Ev!Next]_evictVars, Smooth' PROVE Smooth
<1>1. ASSUME NEW e \in Evictors, ev[e] \in {"killed", "failed"} PROVE ev'[e] = ev[e]
  BY <1>1 DEF Shape, Ev!Next, Ev!Over, evictVars, Ev!vars, Ev!evVars, Ev!hookVars, Ev!MakeDir,
              Ev!OpenRecords, Ev!OpenSpill, Ev!OpenAt, Ev!OpenFails,
              Ev!TakeLock, Ev!ReadSeq, Ev!WriteSeq, Ev!AppendRecord, Ev!Spill, Ev!Land,
              Ev!TakeGaps, Ev!Plan, Ev!WriteGap, Ev!List,
              Ev!Unlink, Ev!Rmdir, Ev!Kill, Ev!EvGoto
<1> QED BY <1>1 DEF Smooth

\* Each step keeps the pass exclusive.
LEMMA ExclusiveStep ==
  ASSUME Nobody \notin Evictors PROVE Shape /\ Exclusive /\ [Ev!Next]_evictVars => Exclusive'
<1> SUFFICES ASSUME Shape, Exclusive, [Ev!Next]_evictVars PROVE Exclusive'
  OBVIOUS
<1> USE DEF Exclusive
<1>1. ASSUME NEW h \in Hooks,
             \/ Ev!MakeDir(h) \/ Ev!OpenRecords(h) \/ Ev!OpenSpill(h) \/ Ev!TakeLock(h) \/ Ev!ReadSeq(h)
             \/ Ev!WriteSeq(h) \/ Ev!AppendRecord(h) \/ Ev!Spill(h)
      PROVE  Exclusive'
  <2>1. UNCHANGED <<ev, gapLock>>
    BY <1>1 DEF Ev!MakeDir, Ev!OpenRecords, Ev!OpenSpill, Ev!OpenAt, Ev!OpenFails,
                Ev!TakeLock, Ev!ReadSeq, Ev!WriteSeq,
                Ev!AppendRecord, Ev!Spill, Ev!Land, Ev!evVars
  <2> QED BY <2>1
<1>2. ASSUME NEW e \in Evictors, Ev!TakeGaps(e) PROVE Exclusive'
  BY <1>2 DEF Ev!TakeGaps, Ev!EvGoto, Shape
<1>3. ASSUME NEW e \in Evictors,
             \/ Ev!Plan(e) \/ Ev!WriteGap(e) \/ Ev!List(e)
             \/ Ev!Unlink(e) \/ Ev!Rmdir(e) \/ Ev!Kill(e)
      PROVE  Exclusive'
  <2>1. /\ gapLock = e
        /\ \A g \in Evictors \ {e} : ev'[g] = ev[g] /\ ev[g] \notin {"plan", "gap", "list", "unlink"}
        /\ gapLock' = gapLock \/ ev'[e] \notin {"plan", "gap", "list", "unlink"}
    BY <1>3 DEF Ev!Plan, Ev!WriteGap, Ev!List, Ev!Unlink, Ev!Rmdir, Ev!Kill, Ev!EvGoto,
                Ev!Release, Shape
  <2> QED BY <2>1
<1>4. CASE UNCHANGED evictVars
  BY <1>4 DEF evictVars
<1> QED BY <1>1, <1>2, <1>3, <1>4 DEF Ev!Next, Ev!Over, Ev!vars, Ev!hookVars, Ev!evVars,
                                      evictVars

\* A step that only makes files, or makes them newer, leaves the run emptied.
LEMMA StillOneGap ==
  ASSUME OneGap, UNCHANGED <<evGaps, ev>>, Emptied => Emptied'
  PROVE  OneGap'
BY DEF OneGap

\* Each step keeps the run from being counted again.
LEMMA OnceStep ==
  ASSUME Nobody \notin Evictors PROVE Shape /\ GapFirst /\ OnceInv /\ [Ev!Next]_evictVars => OnceInv'
<1> SUFFICES ASSUME Shape, GapFirst, Exclusive, OneGap, [Ev!Next]_evictVars, Smooth' PROVE OneGap'
  BY ExclusiveStep, SmoothBefore DEF OnceInv
<1>1. ASSUME NEW h \in Hooks,
             \/ Ev!MakeDir(h) \/ Ev!OpenRecords(h) \/ Ev!OpenSpill(h) \/ Ev!TakeLock(h) \/ Ev!ReadSeq(h)
             \/ Ev!WriteSeq(h) \/ Ev!AppendRecord(h) \/ Ev!Spill(h)
      PROVE  OneGap'
  <2>1. UNCHANGED <<evGaps, ev>>
    BY <1>1 DEF Ev!MakeDir, Ev!OpenRecords, Ev!OpenSpill, Ev!OpenAt, Ev!OpenFails,
                Ev!TakeLock, Ev!ReadSeq, Ev!WriteSeq,
                Ev!AppendRecord, Ev!Spill, Ev!Land, Ev!evVars
  <2>2. (fresh => fresh') /\ (fresh' \/ (path' = path /\ seq' = seq))
    <3>1. CASE fresh' = TRUE \/ UNCHANGED <<fresh, path, seq>>
      BY <3>1
    <3>2. CASE Ev!AppendRecord(h) \/ Ev!Spill(h)
      BY <3>2 DEF Ev!AppendRecord, Ev!Spill, Ev!Land
    <3>3. Ev!MakeDir(h) \/ Ev!TakeLock(h) \/ Ev!ReadSeq(h) \/ Ev!WriteSeq(h)
            => fresh' = TRUE \/ UNCHANGED <<fresh, path, seq>>
      BY DEF Ev!MakeDir, Ev!TakeLock, Ev!ReadSeq, Ev!WriteSeq
    <3>4. Ev!OpenRecords(h) \/ Ev!OpenSpill(h) => fresh' = TRUE \/ UNCHANGED <<fresh, path, seq>>
      BY DEF Ev!OpenRecords, Ev!OpenSpill, Ev!OpenAt, Ev!OpenFails
    <3> QED BY <1>1, <3>1, <3>2, <3>3, <3>4
  <2> QED BY <2>1, <2>2, StillOneGap DEF Emptied
<1>2. ASSUME NEW e \in Evictors, Ev!TakeGaps(e) \/ Ev!List(e)
      PROVE  OneGap'
  <2>1. /\ UNCHANGED <<evGaps, fresh, path, seq>>
        /\ \A g \in Evictors \ {e} : ev'[g] = ev[g]
        /\ \/ ev[e] = "wait" /\ ev'[e] = "plan"
           \/ ev[e] = "list" /\ ev'[e] = "unlink"
    BY <1>2 DEF Ev!TakeGaps, Ev!List, Ev!EvGoto, Ev!runVars, Shape
  <2> QED BY <2>1 DEF OneGap, Emptied
<1>3. ASSUME NEW e \in Evictors, Ev!Plan(e) PROVE OneGap'
  <2>1. /\ UNCHANGED <<evGaps, fresh, path, seq>> /\ ev[e] = "plan"
        /\ \A g \in Evictors \ {e} : ev'[g] = ev[g]
        /\ ev'[e] \in {"gap", "nothing"} /\ (ev'[e] = "gap" => Ev!Idle)
    BY <1>3 DEF Ev!Plan, Ev!EvGoto, Ev!runVars, Shape
  <2>2. \A g \in Evictors : ev[g] \notin {"list", "unlink"}
    BY <2>1 DEF Exclusive
  <2>3. Ev!Idle => evGaps = <<>>
    BY <2>2 DEF OneGap, Ev!Idle, Emptied
  <2>4. Emptied => Emptied'
    BY <2>1 DEF Emptied
  <2>5. \A g \in Evictors : ev'[g] \notin {"list", "unlink"}
    BY <2>1, <2>2
  <2>6. evGaps' # <<>> => Emptied'
    BY <2>1, <2>2, <2>4 DEF OneGap
  <2>7. \A g \in Evictors : ev'[g] = "gap" => evGaps' = <<>>
    BY <2>1, <2>3 DEF OneGap
  <2> QED BY <2>1, <2>5, <2>6, <2>7 DEF OneGap
<1>4. ASSUME NEW e \in Evictors, Ev!WriteGap(e) PROVE OneGap'
  <2>1. /\ ev[e] = "gap" /\ ev'[e] = "list" /\ evGaps' = Append(evGaps, read[e])
        /\ \A g \in Evictors \ {e} : ev'[g] = ev[g]
    BY <1>4 DEF Ev!WriteGap, Ev!EvGoto, Shape
  <2>2. evGaps = <<>> /\ Len(evGaps') = 1
    <3>1. evGaps = <<>>
      BY <2>1 DEF OneGap
    <3>2. Len(evGaps') = Len(evGaps) + 1
      BY <2>1, AppendRange DEF Shape
    <3> QED BY <3>1, <3>2
  <2>3. \A g \in Evictors \ {e} : ev'[g] # "gap"
    BY <2>1 DEF Exclusive
  <2> QED BY <2>1, <2>2, <2>3 DEF OneGap
<1>5. ASSUME NEW e \in Evictors, Ev!Unlink(e) PROVE OneGap'
  <2>1. UNCHANGED <<evGaps, ev>> /\ ev[e] = "unlink"
    BY <1>5 DEF Ev!Unlink
  <2> QED BY <2>1 DEF OneGap
<1>6. ASSUME NEW e \in Evictors, Ev!Rmdir(e) PROVE OneGap'
  <2>1. /\ UNCHANGED <<evGaps, fresh, path, seq>>
        /\ \A g \in Evictors \ {e} : ev'[g] = ev[g]
        /\ ev'[e] \in {"removed", "failed"}
        /\ ev'[e] = "removed" => seq = 0 /\ \A n \in Ev!Names : path[n] = 0
    BY <1>6 DEF Ev!Rmdir, Ev!EvGoto, Ev!hookVars, Shape
  <2>2. ev'[e] = "removed"
    BY <2>1 DEF Smooth
  <2>3. Emptied'
    BY <2>1, <2>2 DEF Emptied
  <2> QED BY <2>1, <2>2, <2>3 DEF OneGap
<1>7. ASSUME NEW e \in Evictors, Ev!Kill(e) PROVE OneGap'
  <2>1. ev'[e] = "killed"
    BY <1>7 DEF Ev!Kill, Ev!EvGoto, Shape
  <2> QED BY <2>1 DEF Smooth
<1>8. CASE UNCHANGED evictVars
  BY <1>8, StillOneGap DEF evictVars, Emptied
<1> QED
  BY <1>1, <1>2, <1>3, <1>4, <1>5, <1>6, <1>7, <1>8 DEF Ev!Next, Ev!Over, Ev!vars,
                                                        Ev!hookVars, Ev!evVars, evictVars

\* Evictors that all end well write one gap for the run, whatever its session
\* does beside them: the lock lets one plan at a time, and after a removal every
\* file of the run is one the grace covers (evict.go Evict).
THEOREM RunIsCountedOnce ==
  ASSUME Begun, Nobody \notin Evictors
  PROVE  MCSpec => []EvictedOnce
<1>1. Ev!Init => OnceInv
  <2> SUFFICES ASSUME Ev!Init PROVE OnceInv
    OBVIOUS
  <2>1. evGaps = <<>> /\ \A e \in Evictors : ev[e] = "wait"
    BY DEF Ev!Init
  <2> QED BY <2>1 DEF OnceInv, Exclusive, OneGap
<1>2. Shape /\ OnceInv => EvictedOnce
  <2> SUFFICES ASSUME Shape, OneGap, NEW i \in DOMAIN evGaps, NEW j \in DOMAIN evGaps, i # j
               PROVE  FALSE
    BY DEF OnceInv, EvictedOnce, Ev!CountedOnce, Smooth
  <2>1. DOMAIN evGaps = 1..Len(evGaps)
    BY DEF Shape
  <2>2. Len(evGaps) \in {0, 1}
    BY DEF OneGap
  <2> QED BY <2>1, <2>2
<1>3. MCInit => Shape /\ AdmitInv /\ OnceInv
  BY <1>1, AdmitInit DEF MCInit
<1>4. AdmitInv => GapFirst
  BY DEF AdmitInv
<1>5. Shape /\ AdmitInv /\ OnceInv /\ [MCNext]_allVars => Shape' /\ AdmitInv' /\ OnceInv'
  BY <1>4, ShapeStep, AdmitStep, OnceStep, PartStep
<1> QED BY <1>2, <1>3, <1>5, PTL DEF MCSpec, allVars

-----------------------------------------------------------------------------
(* The types of Eviction: a highest number can be told.                    *)

\* A set of natural numbers below a bound has a greatest member, and Max finds it.
LEMMA GreatestFound ==
  ASSUME NEW S \in SUBSET Nat, S # {}, NEW k \in Nat, \A i \in S : i <= k
  PROVE  Ev!Max(S) \in S
<1> DEFINE Above == {b \in Nat : \A i \in S : i <= b}
<1>1. PICK m \in Above : \A b \in Above : ~(b < m)
  <2>1. Above \in SUBSET Nat /\ k \in Above
    OBVIOUS
  <2>2. \E m \in Above : \A b \in Above : ~(<<b, m>> \in OpToRel(<, Nat))
    BY <2>1, NatLessThanWellFounded, WFMin
  <2>3. PICK m \in Above : \A b \in Above : <<b, m>> \notin OpToRel(<, Nat)
    BY <2>2
  <2>4. \A b \in Above : ~(b < m)
    BY <2>1, <2>3, Zenon DEF OpToRel
  <2> QED BY <2>4
<1>2. m \in S
  <2> SUFFICES ASSUME m \notin S PROVE FALSE
    OBVIOUS
  <2>1. \A i \in S : i <= m - 1
    BY <1>1
  <2>2. m - 1 \in Nat
    <3>1. \E i \in S : i \in Nat /\ i <= m - 1
      BY <2>1
    <3> QED BY <1>1, <3>1
  <2>3. m - 1 \in Above
    BY <2>1, <2>2
  <2> QED BY <1>1, <2>2, <2>3
<1>3. \E x \in S : \A y \in S : x >= y
  BY <1>1, <1>2
<1> QED BY <1>3 DEF Ev!Max

\* No number that was given is above the bound.
Below(k) ==
  /\ seq <= k /\ \A h \in Hooks : num[h] <= k
  /\ \A f \in Ev!Files : \A i \in DOMAIN lines[f] : lines[f][i].seq <= k
EvTypes == Ev!TypeOK /\ Shape /\ \E k \in Nat : Below(k)

\* What a hook numbers its record with is a number, one above the bound at most.
LEMMA NumberFacts ==
  ASSUME Ev!TypeOK, NEW k \in Nat, Below(k), NEW f \in Ev!Files
  PROVE  Ev!Highest(f) \in Nat /\ Ev!Highest(f) <= k
<1> DEFINE S == {0} \cup {line.seq : line \in Ev!Range(lines[f])}
<1>1. lines[f] \in Seq(Ev!Line)
  BY DEF Ev!TypeOK
<1>2. \A line \in Ev!Range(lines[f]) : line.seq \in Nat /\ line.seq <= k
  <2>1. \A i \in DOMAIN lines[f] : lines[f][i] \in Ev!Line /\ lines[f][i].seq <= k
    BY <1>1 DEF Below
  <2> QED BY <2>1 DEF Ev!Range, Ev!Line
<1>3. S \in SUBSET Nat /\ S # {} /\ \A i \in S : i <= k
  BY <1>2
<1>4. Ev!Max(S) \in S
  <2> HIDE DEF S
  <2> QED BY <1>3, GreatestFound
<1>5. Ev!Max(S) \in Nat /\ Ev!Max(S) <= k
  <2> HIDE DEF S
  <2> QED BY <1>3, <1>4
<1> QED BY <1>5 DEF Ev!Highest

\* A record that lands carries such a number.
LEMMA NumberLands ==
  ASSUME Ev!TypeOK, Shape, NEW h \in Hooks, pc[h] \in Working, NEW line \in Ev!Line, Ev!Land(h, line),
         NEW k \in Nat, Below(k), line.seq <= k
  PROVE  lines' \in [Ev!Files -> Seq(Ev!Line)] /\ Below(k)'
<1>1. handle[h] \in Ev!Files /\ lines \in [Ev!Files -> Seq(Ev!Line)]
  BY DEF Shape, Ev!TypeOK
<1>2. lines' = [lines EXCEPT ![handle[h]] = Append(lines[handle[h]], line)] /\ UNCHANGED <<seq, num>>
  BY DEF Ev!Land
<1>3. PICK s \in Seq(Ev!Line) : s = lines[handle[h]]
  BY <1>1
<1>4. /\ Append(s, line) \in Seq(Ev!Line) /\ Len(Append(s, line)) = Len(s) + 1 /\ Len(s) \in Nat
      /\ \A i \in 1..Len(s) : Append(s, line)[i] = s[i]
      /\ Append(s, line)[Len(s) + 1] = line
  BY <1>3
<1>5. \A i \in DOMAIN Append(s, line) : Append(s, line)[i].seq <= k
  <2>1. DOMAIN Append(s, line) = 1..(Len(s) + 1) /\ DOMAIN s = 1..Len(s)
    BY <1>3, <1>4
  <2>2. \A i \in DOMAIN s : s[i].seq <= k
    BY <1>1, <1>3 DEF Below
  <2> QED BY <1>4, <2>1, <2>2
<1>6. Below(k)'
  BY <1>1, <1>2, <1>3, <1>5 DEF Below
<1> QED BY <1>1, <1>2, <1>3, <1>4, <1>6

\* What can be read of the run is records.
LEMMA ReadableFacts ==
  ASSUME Ev!TypeOK
  PROVE  Ev!Readable \in SUBSET Ev!Line
<1>1. \A f \in Ev!Files : Ev!Range(lines[f]) \in SUBSET Ev!Line
  <2> SUFFICES ASSUME NEW f \in Ev!Files PROVE Ev!Range(lines[f]) \in SUBSET Ev!Line
    OBVIOUS
  <2>1. lines[f] \in Seq(Ev!Line)
    BY DEF Ev!TypeOK
  <2> QED BY <2>1 DEF Ev!Range
<1>2. \A n \in Ev!Names : Ev!Under(n) \in SUBSET Ev!Line
  BY <1>1 DEF Ev!TypeOK, Ev!Under
<1> QED BY <1>2 DEF Ev!Readable, Ev!Names

\* Each step keeps the types.
LEMMA TypesStep ==
  ASSUME EvTypes, [Ev!Next]_evictVars
  PROVE  EvTypes'
<1>1. Shape'
  BY ShapeStep DEF EvTypes
<1>2. PICK k \in Nat : Below(k)
  BY DEF EvTypes
<1>3. \A f \in Ev!Files : Ev!Highest(f) \in Nat /\ Ev!Highest(f) <= k
  BY <1>2, NumberFacts DEF EvTypes
<1>4. ASSUME Ev!TypeOK', \E m \in Nat : Below(m)' PROVE EvTypes'
  BY <1>1, <1>4 DEF EvTypes
<1>5. ASSUME NEW h \in Hooks, Ev!MakeDir(h) \/ Ev!OpenRecords(h) \/ Ev!OpenSpill(h) \/ Ev!TakeLock(h)
      PROVE  EvTypes'
  <2>1. UNCHANGED <<seq, lines, num, Ev!evVars, late>> /\ dir' \in BOOLEAN /\ fresh' \in BOOLEAN
    BY <1>5 DEF Ev!MakeDir, Ev!OpenRecords, Ev!OpenSpill, Ev!OpenAt, Ev!OpenFails, Ev!TakeLock,
         EvTypes, Ev!TypeOK
  <2>2. lock' \in [Ev!Files -> Hooks \cup {Nobody}]
    BY <1>5 DEF Ev!MakeDir, Ev!OpenRecords, Ev!OpenSpill, Ev!OpenAt, Ev!OpenFails, Ev!TakeLock,
         EvTypes, Ev!TypeOK
  <2>3. Below(k)'
    BY <1>2, <2>1 DEF Below
  <2>4. Ev!TypeOK'
    BY <1>1, <2>1, <2>2 DEF EvTypes, Ev!TypeOK, Ev!evVars, Shape
  <2> QED BY <1>4, <2>3, <2>4
<1>6. ASSUME NEW h \in Hooks, Ev!ReadSeq(h) PROVE EvTypes'
  <2>1. handle[h] \in Ev!Files
    BY <1>6 DEF EvTypes, Shape, Working, Ev!ReadSeq
  <2>2. PICK n \in Nat : n <= k + 1 /\ num' = [num EXCEPT ![h] = n]
    <3>1. seq \in Nat /\ seq <= k
      BY <1>2 DEF EvTypes, Ev!TypeOK, Below
    <3>2. PICK m \in Nat : m <= k /\ m = IF seq > 0 THEN seq ELSE Ev!Highest(handle[h])
      BY <1>3, <2>1, <3>1
    <3>3. num' = [num EXCEPT ![h] = 1 + m]
      BY <1>6, <3>2 DEF Ev!ReadSeq
    <3>4. 1 + m \in Nat /\ 1 + m <= k + 1
      BY <3>2
    <3> QED BY <3>3, <3>4
  <2>3. UNCHANGED <<dir, path, seq, lines, lock, fresh, handle, Ev!evVars, late>>
    BY <1>6 DEF Ev!ReadSeq
  <2>4. Below(k + 1)'
    <3>1. seq \in Nat /\ num \in [Hooks -> Nat] /\ \A f \in Ev!Files : lines[f] \in Seq(Ev!Line)
      BY DEF EvTypes, Ev!TypeOK
    <3>2. ASSUME NEW f \in Ev!Files, NEW i \in DOMAIN lines[f] PROVE lines[f][i].seq \in Nat
      <4>1. lines[f] \in Seq(Ev!Line)
        BY <3>1
      <4>2. lines[f][i] \in Ev!Line
        BY <4>1
      <4> QED BY <4>2 DEF Ev!Line
    <3> QED BY <1>2, <2>2, <2>3, <3>1, <3>2 DEF Below
  <2>5. Ev!TypeOK'
    BY <1>1, <2>2, <2>3 DEF EvTypes, Ev!TypeOK, Ev!evVars, Shape
  <2> QED BY <1>4, <2>4, <2>5
<1>7. ASSUME NEW h \in Hooks, Ev!WriteSeq(h) PROVE EvTypes'
  <2>1. /\ UNCHANGED <<dir, path, lines, handle, num, Ev!evVars, late>>
        /\ seq' \in {seq, num[h]} /\ fresh' \in BOOLEAN
    BY <1>7 DEF Ev!WriteSeq, EvTypes, Ev!TypeOK
  <2>2. lock' \in [Ev!Files -> Hooks \cup {Nobody}]
    BY <1>7 DEF Ev!WriteSeq, EvTypes, Ev!TypeOK
  <2>3. Below(k)'
    BY <1>2, <2>1 DEF Below
  <2>4. Ev!TypeOK'
    BY <1>1, <2>1, <2>2 DEF EvTypes, Ev!TypeOK, Ev!evVars, Shape
  <2> QED BY <1>4, <2>3, <2>4
<1>8. ASSUME NEW h \in Hooks, Ev!AppendRecord(h) \/ Ev!Spill(h) PROVE EvTypes'
  <2>1. num[h] \in Nat /\ num[h] <= k
    BY <1>2 DEF EvTypes, Ev!TypeOK, Below
  <2>2. PICK line \in Ev!Line : line.seq <= k /\ Ev!Land(h, line) /\ pc[h] \in Working
    BY <1>8, <2>1 DEF Ev!AppendRecord, Ev!Spill, Ev!Rec, Ev!Line, Working
  <2>3. lines' \in [Ev!Files -> Seq(Ev!Line)] /\ Below(k)'
    BY <1>2, <2>2, NumberLands DEF EvTypes
  <2>4. lock' \in [Ev!Files -> Hooks \cup {Nobody}]
    BY <1>8 DEF Ev!AppendRecord, Ev!Spill, EvTypes, Ev!TypeOK
  <2>5. UNCHANGED <<dir, path, seq, handle, num, Ev!evVars>> /\ fresh' \in BOOLEAN
    BY <2>2 DEF Ev!Land, EvTypes, Ev!TypeOK
  <2>6. Ev!TypeOK'
    BY <1>1, <2>3, <2>4, <2>5 DEF EvTypes, Ev!TypeOK, Ev!evVars, Shape
  <2> QED BY <1>4, <2>3, <2>6
<1>9. ASSUME NEW e \in Evictors,
             \/ Ev!TakeGaps(e) \/ Ev!Plan(e) \/ Ev!WriteGap(e) \/ Ev!List(e) \/ Ev!Rmdir(e)
             \/ Ev!Kill(e)
      PROVE  EvTypes'
  <2>1. UNCHANGED <<path, seq, lines, lock, fresh, Ev!hookVars, late>> /\ dir' \in BOOLEAN
    BY <1>9 DEF Ev!TakeGaps, Ev!Plan, Ev!WriteGap, Ev!List, Ev!Rmdir, Ev!Kill, Ev!runVars,
         EvTypes, Ev!TypeOK
  <2>2. gapLock' \in Evictors \cup {Nobody}
    BY <1>9 DEF Ev!TakeGaps, Ev!Plan, Ev!WriteGap, Ev!List, Ev!Rmdir, Ev!Kill, Ev!Release,
         EvTypes, Ev!TypeOK
  <2>3. read' \in [Evictors -> SUBSET Ev!Line] /\ evGaps' \in Seq(SUBSET Ev!Line)
    <3>1. read \in [Evictors -> SUBSET Ev!Line] /\ evGaps \in Seq(SUBSET Ev!Line)
      BY DEF EvTypes, Ev!TypeOK
    <3>2. read' = read \/ read' = [read EXCEPT ![e] = Ev!Readable]
      BY <1>9 DEF Ev!TakeGaps, Ev!Plan, Ev!WriteGap, Ev!List, Ev!Rmdir, Ev!Kill
    <3>3. evGaps' = evGaps \/ evGaps' = Append(evGaps, read[e])
      BY <1>9 DEF Ev!TakeGaps, Ev!Plan, Ev!WriteGap, Ev!List, Ev!Rmdir, Ev!Kill
    <3>4. Ev!Readable \in SUBSET Ev!Line /\ read[e] \in SUBSET Ev!Line
      BY <3>1, ReadableFacts DEF EvTypes
    <3>5. read' \in [Evictors -> SUBSET Ev!Line]
      BY <3>1, <3>2, <3>4
    <3>6. Append(evGaps, read[e]) \in Seq(SUBSET Ev!Line)
      BY <3>1, <3>4
    <3> QED BY <3>1, <3>3, <3>5, <3>6
  <2>4. Below(k)'
    BY <1>2, <2>1 DEF Below, Ev!hookVars
  <2>5. Ev!TypeOK'
    BY <1>1, <2>1, <2>2, <2>3 DEF EvTypes, Ev!TypeOK, Ev!hookVars, Shape
  <2> QED BY <1>4, <2>4, <2>5
<1>10. ASSUME NEW e \in Evictors, Ev!Unlink(e) PROVE EvTypes'
  <2>1. /\ UNCHANGED <<dir, lines, lock, fresh, Ev!hookVars, gapLock, ev, read, evGaps, late>>
        /\ seq' \in {0, seq}
    BY <1>10 DEF Ev!Unlink
  <2>2. Below(k)'
    BY <1>2, <2>1 DEF Below, Ev!hookVars
  <2>3. Ev!TypeOK'
    BY <1>1, <2>1 DEF EvTypes, Ev!TypeOK, Ev!hookVars, Shape
  <2> QED BY <1>4, <2>2, <2>3
<1>11. CASE UNCHANGED evictVars
  BY <1>11 DEF evictVars, EvTypes, Ev!TypeOK, Shape, Below
<1> QED
  BY <1>5, <1>6, <1>7, <1>8, <1>9, <1>10, <1>11
  DEF Ev!Next, Ev!Over, Ev!vars, Ev!hookVars, Ev!evVars, evictVars

LEMMA TypesInit ==
  ASSUME Begun, Ev!Init
  PROVE  EvTypes
<1>1. Shape
  BY AdmitInit
<1>2. \A f \in Ev!Files : lines[f] = <<>> \/ lines[f] = [i \in 1..Old |-> Ev!Rec(Nobody, i)]
  BY DEF Ev!Init
<1>3. [i \in 1..Old |-> Ev!Rec(Nobody, i)] \in Seq(Ev!Line)
  BY DEF Begun, Ev!Rec, Ev!Line
<1>4. lines \in [Ev!Files -> Seq(Ev!Line)]
  <2>1. ASSUME NEW f \in Ev!Files PROVE lines[f] \in Seq(Ev!Line)
    <3>1. CASE lines[f] = <<>>
      BY <3>1
    <3>2. CASE lines[f] = [i \in 1..Old |-> Ev!Rec(Nobody, i)]
      BY <1>3, <3>2, Zenon
    <3> QED BY <1>2, <3>1, <3>2
  <2> QED BY <2>1 DEF Ev!Init
<1>5. Below(Old)
  BY <1>2 DEF Begun, Ev!Init, Below, Ev!Rec
<1>6. Ev!TypeOK
  <2>1. evGaps \in Seq(SUBSET Ev!Line)
    BY DEF Ev!Init
  <2> QED BY <1>1, <1>4, <2>1 DEF Begun, Ev!Init, Ev!TypeOK, Shape
<1> QED BY <1>1, <1>5, <1>6 DEF Begun, EvTypes

-----------------------------------------------------------------------------
(* The spill file.                                                         *)

\* A writer's record is on a line of its own that is over; and two marks are on
\* one line.
Settled(w) ==
  \E i \in 1..(Len(bytes) - 1) :
    /\ bytes[i] = Sp!Whole(w) /\ bytes[i + 1] = Sp!Newline
    /\ i > 1 => bytes[i - 1] = Sp!Newline
Joined == \E i \in 1..(Len(bytes) - 1) : bytes[i] # Sp!Newline /\ bytes[i + 1] # Sp!Newline

\* A locked writer that looked at the last byte saw the end of the file, or a line
\* that is over came after it; and a record that landed is settled, or it is joined
\* to a fragment that no writer saw.
SpillInv ==
  /\ Sp!TypeOK
  /\ \A w \in Writers : writer[w] \in {"locked", "checked"} => bytesLock = w
  /\ \A w \in Writers : writer[w] = "checked" =>
       /\ size[w] <= Len(bytes)
       /\ Sp!Unseen \/ size[w] = Len(bytes) \/ bytes[Len(bytes)] = Sp!Newline
  /\ \A w \in Writers : writer[w] = "done" => Settled(w) \/ (Joined /\ Sp!Unseen)

\* What is on file stays where it is.
Extended ==
  /\ bytes \in Seq(Sp!Marks) /\ bytes' \in Seq(Sp!Marks) /\ Len(bytes) <= Len(bytes')
  /\ \A i \in 1..Len(bytes) : bytes'[i] = bytes[i]

LEMMA SettledStays ==
  ASSUME Extended
  PROVE  (Joined => Joined') /\ \A w : Settled(w) => Settled(w)'
<1>1. Len(bytes) \in Nat /\ Len(bytes') \in Nat
  BY DEF Extended
<1>2. \A i \in 1..(Len(bytes) - 1) :
        /\ i \in 1..(Len(bytes') - 1) /\ bytes'[i] = bytes[i] /\ bytes'[i + 1] = bytes[i + 1]
        /\ i > 1 => bytes'[i - 1] = bytes[i - 1]
  BY <1>1 DEF Extended
<1>3. Joined => Joined'
  BY <1>2 DEF Joined
<1>4. ASSUME NEW w, Settled(w) PROVE Settled(w)'
  <2>1. PICK i \in 1..(Len(bytes) - 1) :
          /\ bytes[i] = Sp!Whole(w) /\ bytes[i + 1] = Sp!Newline
          /\ i > 1 => bytes[i - 1] = Sp!Newline
    BY <1>4 DEF Settled
  <2> QED BY <1>2, <2>1 DEF Settled
<1> QED BY <1>3, <1>4

\* The marks that a write puts at the end of the file.
LEMMA MarksLand ==
  ASSUME bytes \in Seq(Sp!Marks), NEW t \in Seq(Sp!Marks), bytes' = bytes \o t
  PROVE  /\ Extended /\ Len(bytes') = Len(bytes) + Len(t)
         /\ \A i \in 1..Len(t) : bytes'[Len(bytes) + i] = t[i]
BY DEF Extended

LEMMA LeadFacts ==
  ASSUME NEW w \in Writers
  PROVE  /\ Sp!Lead(w) \in {<<>>, <<Sp!Newline>>}
         /\ Sp!Newline \in Sp!Marks /\ Sp!Whole(w) \in Sp!Marks /\ Sp!Half(w) \in Sp!Marks
         /\ \A v : Sp!Whole(v) # Sp!Newline
BY DEF Sp!Lead, Sp!Marks, Sp!Newline, Sp!Whole, Sp!Half

\* A whole write settles its record, or joins it to what was at the end.
LEMMA WriteLands ==
  ASSUME SpillInv, NEW w \in Writers, Sp!Write(w)
  PROVE  /\ Extended /\ bytes'[Len(bytes')] = Sp!Newline
         /\ Settled(w)' \/ (Joined' /\ Sp!Unseen)
<1> DEFINE n == Len(bytes)
           t == Sp!Lead(w) \o <<Sp!Whole(w), Sp!Newline>>
<1>1. bytes \in Seq(Sp!Marks) /\ n \in Nat /\ bytes' = bytes \o t
  BY DEF SpillInv, Sp!TypeOK, Sp!Write
<1>2. CASE Sp!Lead(w) = <<Sp!Newline>>
  <2>1. t \in Seq(Sp!Marks) /\ Len(t) = 3
        /\ t[1] = Sp!Newline /\ t[2] = Sp!Whole(w) /\ t[3] = Sp!Newline
    BY <1>2, LeadFacts
  <2> HIDE DEF t
  <2>2. /\ Extended /\ Len(bytes') = n + 3
        /\ bytes'[n + 1] = Sp!Newline /\ bytes'[n + 2] = Sp!Whole(w) /\ bytes'[n + 3] = Sp!Newline
    <3>1. /\ Extended /\ Len(bytes') = n + Len(t)
          /\ \A i \in 1..Len(t) : bytes'[n + i] = t[i]
      BY <1>1, <2>1, MarksLand
    <3>2. 1 \in 1..Len(t) /\ 2 \in 1..Len(t) /\ 3 \in 1..Len(t)
      BY <2>1
    <3> QED BY <2>1, <3>1, <3>2
  <2>3. n + 2 \in 1..(Len(bytes') - 1) /\ (n + 2) - 1 = n + 1 /\ (n + 2) + 1 = n + 3
    BY <1>1, <2>2
  <2>4. Settled(w)'
    BY <2>2, <2>3 DEF Settled
  <2> QED BY <2>2, <2>4
<1>3. CASE Sp!Lead(w) = <<>>
  <2>1. t \in Seq(Sp!Marks) /\ Len(t) = 2 /\ t[1] = Sp!Whole(w) /\ t[2] = Sp!Newline
    BY <1>3, LeadFacts
  <2> HIDE DEF t
  <2>2. /\ Extended /\ Len(bytes') = n + 2
        /\ bytes'[n + 1] = Sp!Whole(w) /\ bytes'[n + 2] = Sp!Newline
    <3>1. /\ Extended /\ Len(bytes') = n + Len(t)
          /\ \A i \in 1..Len(t) : bytes'[n + i] = t[i]
      BY <1>1, <2>1, MarksLand
    <3>2. 1 \in 1..Len(t) /\ 2 \in 1..Len(t)
      BY <2>1
    <3> QED BY <2>1, <3>1, <3>2
  <2>3. n + 1 \in 1..(Len(bytes') - 1) /\ (n + 1) - 1 = n /\ (n + 1) + 1 = n + 2
    BY <1>1, <2>2
  <2>4. CASE n > 0 => bytes[n] = Sp!Newline
    <3>1. n + 1 > 1 => bytes'[n] = Sp!Newline
      BY <1>1, <2>2, <2>4 DEF Extended
    <3>2. Settled(w)'
      BY <2>2, <2>3, <3>1 DEF Settled
    <3> QED BY <2>2, <3>2
  <2>5. CASE n > 0 /\ bytes[n] # Sp!Newline
    <3>1. bytes'[n] # Sp!Newline /\ bytes'[n + 1] # Sp!Newline /\ n \in 1..(Len(bytes') - 1)
      BY <1>1, <2>2, <2>5, LeadFacts DEF Extended
    <3>2. Joined'
      BY <3>1 DEF Joined
    <3>3. writer[w] = "checked" /\ ~Sp!FoundOpen(w)
      BY <1>3 DEF Sp!Lead, Sp!Write
    <3>4. size[w] # n
      BY <1>1, <2>5, <3>3 DEF Sp!FoundOpen
    <3>5. Sp!Unseen
      BY <2>5, <3>3, <3>4 DEF SpillInv
    <3> QED BY <2>2, <3>2, <3>5
  <2> QED BY <1>1, <2>4, <2>5
<1> QED BY <1>2, <1>3, LeadFacts

\* Each step of a writer keeps the invariant.
LEMMA SpillStep ==
  ASSUME Nobody \notin Writers, SpillInv, [Sp!Next]_spillVars
  PROVE  SpillInv'
<1>t. /\ bytes \in Seq(Sp!Marks) /\ Len(bytes) \in Nat /\ bytesLock \in Writers \cup {Nobody}
      /\ writer \in [Writers -> {"wait", "locked", "checked", "lockless", "done", "torn",
                               "tornLockless"}]
      /\ size \in [Writers -> Nat]
  BY DEF SpillInv, Sp!TypeOK
<1>1. ASSUME NEW w \in Writers, Sp!TakeLock(w) \/ Sp!GiveUp(w) \/ Sp!CheckTail(w) PROVE SpillInv'
  <2>1. /\ bytes' = bytes /\ writer[w] \in {"wait", "locked"}
        /\ \A v \in Writers : writer'[v] = "done" <=> writer[v] = "done"
        /\ Sp!Unseen' = Sp!Unseen
    BY <1>t, <1>1 DEF Sp!TakeLock, Sp!GiveUp, Sp!CheckTail, Sp!Unseen
  <2>2. Sp!TypeOK'
    BY <1>t, <1>1 DEF Sp!TakeLock, Sp!GiveUp, Sp!CheckTail, Sp!TypeOK
  <2>3. \A v \in Writers : writer'[v] \in {"locked", "checked"} => bytesLock' = v
    BY <1>t, <1>1 DEF Sp!TakeLock, Sp!GiveUp, Sp!CheckTail, SpillInv
  <2>4. \A v \in Writers : writer'[v] = "checked" =>
          /\ size'[v] <= Len(bytes)
          /\ Sp!Unseen \/ size'[v] = Len(bytes) \/ bytes[Len(bytes)] = Sp!Newline
    BY <1>t, <1>1 DEF Sp!TakeLock, Sp!GiveUp, Sp!CheckTail, SpillInv
  <2>5. Joined' = Joined /\ \A v : Settled(v)' = Settled(v)
    BY <2>1 DEF Joined, Settled
  <2> QED BY <2>1, <2>2, <2>3, <2>4, <2>5 DEF SpillInv
<1>2. ASSUME NEW w \in Writers, writer[w] \in {"checked", "lockless"}, Extended,
             NEW at, at \in {"done", "torn", "tornLockless"}, writer' = [writer EXCEPT ![w] = at],
             bytesLock' = IF bytesLock = w THEN Nobody ELSE bytesLock, size' = size,
             writer[w] = "lockless" => at = "tornLockless" \/ bytes'[Len(bytes')] = Sp!Newline,
             at = "done" => Settled(w)' \/ (Joined' /\ Sp!Unseen)
      PROVE  SpillInv'
  <2>1. Sp!TypeOK'
    BY <1>t, <1>2 DEF Extended, Sp!TypeOK
  <2>2. (Sp!Unseen => Sp!Unseen') /\ (at = "tornLockless" => Sp!Unseen')
    BY <1>t, <1>2 DEF Sp!Unseen
  <2>3. ASSUME NEW v \in Writers, writer'[v] \in {"locked", "checked"}
        PROVE  v # w /\ writer[v] = writer'[v] /\ bytesLock = v /\ bytesLock' = v
    BY <1>t, <1>2, <2>3 DEF SpillInv
  <2>4. ASSUME NEW v \in Writers, writer'[v] = "checked"
        PROVE  /\ size'[v] <= Len(bytes')
               /\ Sp!Unseen' \/ size'[v] = Len(bytes') \/ bytes'[Len(bytes')] = Sp!Newline
    <3>1. v # w /\ writer[v] = "checked" /\ bytesLock = v
      BY <2>3, <2>4
    <3>2. writer[w] = "lockless"
      BY <1>2, <3>1 DEF SpillInv
    <3>3. size[v] <= Len(bytes) /\ Len(bytes) <= Len(bytes') /\ Len(bytes') \in Nat
      BY <1>2, <3>1 DEF SpillInv, Extended
    <3> QED BY <1>t, <1>2, <2>2, <3>2, <3>3
  <2>5. ASSUME NEW v \in Writers, writer'[v] = "done" PROVE Settled(v)' \/ (Joined' /\ Sp!Unseen')
    <3>1. CASE v = w
      BY <1>t, <1>2, <2>2, <2>5, <3>1
    <3>2. CASE v # w
      <4>1. writer[v] = "done"
        BY <1>t, <1>2, <2>5, <3>2
      <4> QED BY <1>2, <2>2, <4>1, SettledStays DEF SpillInv
    <3> QED BY <3>1, <3>2
  <2> QED BY <2>1, <2>3, <2>4, <2>5 DEF SpillInv
<1>3. ASSUME NEW w \in Writers, Sp!Write(w) PROVE SpillInv'
  <2>1. /\ writer[w] \in {"checked", "lockless"} /\ writer' = [writer EXCEPT ![w] = "done"]
        /\ bytesLock' = IF bytesLock = w THEN Nobody ELSE bytesLock
        /\ size' = size
    BY <1>3 DEF Sp!Write
  <2> QED BY <1>2, <1>3, <2>1, WriteLands
<1>4. ASSUME NEW w \in Writers, Sp!Tear(w) PROVE SpillInv'
  <2>1. PICK at \in {"torn", "tornLockless"} :
          /\ writer[w] \in {"checked", "lockless"} /\ writer' = [writer EXCEPT ![w] = at]
          /\ writer[w] = "lockless" => at = "tornLockless"
    BY <1>t, <1>4 DEF Sp!Tear
  <2>2. bytesLock' = (IF bytesLock = w THEN Nobody ELSE bytesLock) /\ size' = size
    BY <1>4 DEF Sp!Tear
  <2>3. PICK torn \in {<<>>, Sp!Lead(w), Sp!Lead(w) \o <<Sp!Half(w)>>,
                      Sp!Lead(w) \o <<Sp!Whole(w)>>} :
          bytes' = bytes \o torn
    BY <1>4 DEF Sp!Tear
  <2>4. torn \in Seq(Sp!Marks)
    <3>0. \A m \in Sp!Marks : <<m>> \in Seq(Sp!Marks)
      OBVIOUS
    <3>1. /\ Sp!Lead(w) \in Seq(Sp!Marks)
          /\ <<Sp!Half(w)>> \in Seq(Sp!Marks)
          /\ <<Sp!Whole(w)>> \in Seq(Sp!Marks)
      <4>1. <<>> \in Seq(Sp!Marks) /\ <<Sp!Newline>> \in Seq(Sp!Marks)
        BY <3>0, LeadFacts
      <4> QED BY <3>0, <4>1, LeadFacts, Zenon
    <3>2. \A u, v \in Seq(Sp!Marks) : u \o v \in Seq(Sp!Marks)
      BY ConcatProperties
    <3>3. <<>> \in Seq(Sp!Marks)
      OBVIOUS
    <3> QED BY <2>3, <3>1, <3>2, <3>3
  <2>5. Extended
    BY <1>t, <2>3, <2>4, MarksLand
  <2> QED BY <1>2, <2>1, <2>2, <2>5
<1>5. CASE UNCHANGED spillVars
  <2>1. Joined' = Joined /\ Sp!Unseen' = Sp!Unseen /\ \A v : Settled(v)' = Settled(v)
    BY <1>5 DEF spillVars, Joined, Settled, Sp!Unseen
  <2> QED BY <1>5, <2>1 DEF spillVars, SpillInv, Sp!TypeOK
<1> QED BY <1>1, <1>3, <1>4, <1>5 DEF Sp!Next, Sp!Over, Sp!vars, spillVars

LEMMA SpillInit ==
  ASSUME Sp!Init
  PROVE  SpillInv
BY DEF Sp!Init, SpillInv, Sp!TypeOK

\* A settled record reads back, and two marks on one line are a line that does not.
LEMMA SettledReads ==
  ASSUME SpillInv
  PROVE  /\ \A w \in Writers : Settled(w) => Sp!Reads(w)
         /\ Joined => Sp!Skips
<1>1. DOMAIN bytes = 1..Len(bytes) /\ Len(bytes) \in Nat
  BY DEF SpillInv, Sp!TypeOK
<1>2. ASSUME NEW w \in Writers, Settled(w) PROVE Sp!Reads(w)
  <2>1. PICK i \in 1..(Len(bytes) - 1) :
          /\ bytes[i] = Sp!Whole(w) /\ bytes[i + 1] = Sp!Newline
          /\ i > 1 => bytes[i - 1] = Sp!Newline
    BY <1>2 DEF Settled
  <2> QED BY <1>1, <2>1 DEF Sp!Reads, Sp!Alone
<1>3. ASSUME Joined PROVE Sp!Skips
  <2>1. PICK i \in 1..(Len(bytes) - 1) : bytes[i] # Sp!Newline /\ bytes[i + 1] # Sp!Newline
    BY <1>3 DEF Joined
  <2>2. i \in DOMAIN bytes /\ i < Len(bytes)
    BY <1>1, <2>1
  <2> QED BY <2>1, <2>2 DEF Sp!Skips, Sp!Alone
<1> QED BY <1>2, <1>3

\* A record whose append returned without an error reads back on a line of its
\* own, for any writers, locked or not, and any appends cut short, but a lockless
\* one: a writer looks at the last byte, and the only bytes that come between its
\* look and its write are whole (tail.go appendHealed).
THEOREM SpilledRecordsRead ==
  ASSUME Nobody \notin Writers
  PROVE  MCSpec => []SpilledRecordReads
<1>1. MCInit => SpillInv
  BY SpillInit DEF MCInit
<1>2. SpillInv /\ [MCNext]_allVars => SpillInv'
  BY SpillStep, PartStep
<1>3. SpillInv => SpilledRecordReads
  BY SettledReads DEF SpillInv, SpilledRecordReads, Sp!SpilledRecordReads
<1> QED BY <1>1, <1>2, <1>3, PTL DEF MCSpec, allVars

\* A record that does not read back, after an append that returned without an
\* error, shares its line with a fragment, and the reader counts that line,
\* whichever appends were cut short (tail.go, read.go records_unreadable).
THEOREM LossStaysTold ==
  ASSUME Nobody \notin Writers
  PROVE  MCSpec => []LossIsTold
<1>1. MCInit => SpillInv
  BY SpillInit DEF MCInit
<1>2. SpillInv /\ [MCNext]_allVars => SpillInv'
  BY SpillStep, PartStep
<1>3. SpillInv => LossIsTold
  BY SettledReads DEF SpillInv, LossIsTold, Sp!LossIsTold
<1> QED BY <1>1, <1>2, <1>3, PTL DEF MCSpec, allVars

-----------------------------------------------------------------------------
\* The types of both parts stay, for any number of hooks, evictors and writers: a
\* run's numbers are bounded, so that its highest can be told.
THEOREM PartsAreTyped ==
  ASSUME Begun, Nobody \notin Writers
  PROVE  MCSpec => []PartTypes
<1>1. MCInit => EvTypes /\ SpillInv
  BY TypesInit, SpillInit DEF MCInit
<1>2. EvTypes /\ SpillInv /\ [MCNext]_allVars => EvTypes' /\ SpillInv'
  BY TypesStep, SpillStep, PartStep
<1>3. EvTypes /\ SpillInv => PartTypes
  BY DEF EvTypes, SpillInv, PartTypes
<1> QED BY <1>1, <1>2, <1>3, PTL DEF MCSpec, allVars

=============================================================================
