---------------------------- MODULE ForgetProof ----------------------------
(***************************************************************************)
(* Theorems about Forget, for any calls, any number of forget commands and *)
(* any number of copies a killed rewrite left.                             *)
(***************************************************************************)
EXTENDS Forget, TLAPS

\* The counts a step makes are counts.
LEMMA CountFacts ==
  ASSUME TypeOK, NEW f \in Forgets
  PROVE  /\ Counted(f) \in Counts
         /\ [l \in Lines |-> gaps[l] + Counted(f)[l]] \in Counts
         /\ Doomed(f) \subseteq Lines
<1>1. /\ spillSeen[f] \in Counts /\ recSeen[f] \subseteq Lines
      /\ gaps \in Counts
  BY DEF TypeOK
<1>2. Doomed(f) \subseteq Lines
  BY <1>1 DEF Doomed, Seen
<1>3. Counted(f) \in Counts
  BY <1>1 DEF Counted, Counts
<1> QED BY <1>1, <1>2, <1>3 DEF Counts

\* Each step of a hook or of a forget keeps every variable's type.
LEMMA TypeStep == TypeOK /\ [Next]_vars => TypeOK'
<1> SUFFICES ASSUME TypeOK, [Next]_vars PROVE TypeOK'
  OBVIOUS
<1>1. ASSUME NEW l \in Lines, HookLock(l) PROVE TypeOK'
  BY <1>1 DEF HookLock, HookAt, TypeOK, fgVars
<1>2. ASSUME NEW l \in Lines, HookAppend(l) PROVE TypeOK'
  BY <1>2 DEF HookAppend, HookAt, TypeOK, fgVars, Counts
<1>3. ASSUME NEW l \in Lines, HookSpillLock(l) PROVE TypeOK'
  BY <1>3 DEF HookSpillLock, HookAt, TypeOK, fgVars
<1>4. ASSUME NEW l \in Lines, HookSpill(l) PROVE TypeOK'
  BY <1>4 DEF HookSpill, HookAt, TypeOK, fgVars, Counts
<1>5. ASSUME NEW f \in Forgets, LockRecords(f) PROVE TypeOK'
  BY <1>5 DEF LockRecords, Goto, TypeOK
<1>6. ASSUME NEW f \in Forgets, ReadRecords(f) PROVE TypeOK'
  BY <1>6 DEF ReadRecords, Goto, TypeOK, files
<1>7. ASSUME NEW f \in Forgets, ReadSpill(f) PROVE TypeOK'
  BY <1>7 DEF ReadSpill, Goto, TypeOK, files
<1>8. ASSUME NEW f \in Forgets, WriteGap(f) PROVE TypeOK'
  <2>1. [l \in Lines |-> gaps[l] + Counted(f)[l]] \in Counts
    BY CountFacts
  <2> QED BY <1>8, <2>1 DEF WriteGap, Goto, Close, TypeOK
<1>9. ASSUME NEW f \in Forgets, RewriteRecords(f) PROVE TypeOK'
  BY <1>9 DEF RewriteRecords, Goto, Close, TypeOK
<1>10. ASSUME NEW f \in Forgets, LockSpill(f) PROVE TypeOK'
  BY <1>10 DEF LockSpill, Goto, Close, TypeOK
<1>11. ASSUME NEW f \in Forgets, Reread(f) PROVE TypeOK'
  BY <1>11 DEF Reread, Goto, TypeOK, files
<1>12. ASSUME NEW f \in Forgets, RewriteSpill(f) PROVE TypeOK'
  <2>1. spill' \in Counts
    BY <1>12 DEF RewriteSpill, TypeOK, Counts
  <2> QED BY <1>12, <2>1 DEF RewriteSpill, Goto, Close, TypeOK
<1>13. ASSUME NEW f \in Forgets, Kill(f) PROVE TypeOK'
  BY <1>13 DEF Kill, Goto, Close, TypeOK
<1>14. CASE UNCHANGED vars
  BY <1>14 DEF TypeOK, vars, files, fgVars
<1> QED
  BY <1>1, <1>2, <1>3, <1>4, <1>5, <1>6, <1>7, <1>8, <1>9, <1>10, <1>11, <1>12,
     <1>13, <1>14 DEF Next, Over

\* Whatever a hook gives up on and wherever a forget is killed, the files hold
\* only lines, each counted, and every process is at one of its steps
\* (gaps.go forgetRun, store.go appendLine).
THEOREM TypeCorrect == Spec => []TypeOK
<1>1. Init => TypeOK
  <2> SUFFICES ASSUME Init PROVE TypeOK
    OBVIOUS
  <2>1. /\ window \subseteq Lines /\ records \subseteq Lines
        /\ spill \in Counts
    BY ForgetAssumption DEF Init, Counts
  <2>2. landed \in Counts
    BY <2>1 DEF Init, Counts, Copies
  <2>3. None \in Counts
    BY DEF None, Counts
  <2> QED BY <2>1, <2>2, <2>3 DEF Init, TypeOK
<1> QED BY <1>1, TypeStep, PTL DEF Spec

-----------------------------------------------------------------------------
\* A forget that has the records lock, and one whose gap has landed.
Holding(f) ==
  fg[f] \in {"locked", "read", "planned", "counted", "spillWait", "reread", "write"}
InGap(f) == fg[f] \in {"counted", "spillWait", "reread", "write"}

\* What a forget whose gap has landed has still to remove of a line.
Owed(f, l) ==
  IF l \in Doomed(f)
    THEN spillSeen[f][l] + IF fg[f] = "counted" /\ l \in recSeen[f] THEN 1 ELSE 0
    ELSE 0

\* Who is in a critical section has its lock.
LocksHeld ==
  /\ \A f \in Forgets : Holding(f) => recLock = f
  /\ \A f \in Forgets : fg[f] \in {"reread", "write"} => spillLock = f
  /\ \A l \in Lines : hook[l] = "locked" => recLock = l
  /\ \A l \in Lines : hook[l] = "spillLocked" => spillLock = l

\* A line is in the records only when its hook is over, for it writes it once.
WrittenOnce == \A l \in Lines : l \in records => hook[l] = "done"

\* What a forget read under a lock stands until it has rewritten the file, but
\* for what lands in the spill file without the lock.
RecordsStand ==
  \A f \in Forgets : fg[f] \in {"read", "planned", "counted"} => recSeen[f] = records
SpillStands ==
  \A f \in Forgets : fg[f] = "write" => \A l \in Lines \ raced : spill[l] <= reread[f][l]

\* The gaps cover what has left and what is about to.
OwedIsCounted ==
  \A f \in Forgets : InGap(f) =>
    \A l \in Lines \ raced : landed[l] + Owed(f, l) <= Copies(l) + gaps[l]

Standing == WrittenOnce /\ RecordsStand /\ SpillStands
CountInv == LocksHeld /\ Standing /\ OwedIsCounted /\ LossIsCounted

\* Two forgets are never both in their critical section.
LEMMA OneForget ==
  ASSUME LocksHeld, NEW f \in Forgets, NEW g \in Forgets, Holding(f), Holding(g)
  PROVE  f = g
BY DEF LocksHeld

\* A lock's holder is a forget, a line's hook or nobody, and only one of them.
LEMMA HolderFacts ==
  /\ \A f \in Forgets : f \notin Lines /\ f # Nobody
  /\ \A l \in Lines : l # Nobody
BY ForgetAssumption DEF Lines

\* Each step keeps the locks with who is in their critical sections.
LEMMA LockStep == TypeOK /\ LocksHeld /\ [Next]_vars => LocksHeld'
<1> SUFFICES ASSUME TypeOK, LocksHeld, [Next]_vars PROVE LocksHeld'
  OBVIOUS
<1> USE HolderFacts
<1>1. ASSUME NEW l \in Lines, HookLock(l) PROVE LocksHeld'
  BY <1>1 DEF HookLock, HookAt, TypeOK, LocksHeld, Holding, fgVars
<1>2. ASSUME NEW l \in Lines, HookAppend(l) PROVE LocksHeld'
  BY <1>2 DEF HookAppend, HookAt, TypeOK, LocksHeld, Holding, fgVars
<1>3. ASSUME NEW l \in Lines, HookSpillLock(l) PROVE LocksHeld'
  BY <1>3 DEF HookSpillLock, HookAt, TypeOK, LocksHeld, Holding, fgVars
<1>4. ASSUME NEW l \in Lines, HookSpill(l) PROVE LocksHeld'
  BY <1>4 DEF HookSpill, HookAt, TypeOK, LocksHeld, Holding, fgVars
<1>5. ASSUME NEW f \in Forgets, LockRecords(f) PROVE LocksHeld'
  BY <1>5 DEF LockRecords, Goto, TypeOK, LocksHeld, Holding
<1>6. ASSUME NEW f \in Forgets, ReadRecords(f) \/ ReadSpill(f) PROVE LocksHeld'
  BY <1>6 DEF ReadRecords, ReadSpill, Goto, TypeOK, LocksHeld, Holding, files
<1>7. ASSUME NEW f \in Forgets, WriteGap(f) PROVE LocksHeld'
  BY <1>7 DEF WriteGap, Goto, Close, TypeOK, LocksHeld, Holding
<1>8. ASSUME NEW f \in Forgets, RewriteRecords(f) PROVE LocksHeld'
  BY <1>8 DEF RewriteRecords, Goto, Close, TypeOK, LocksHeld, Holding
<1>9. ASSUME NEW f \in Forgets, LockSpill(f) PROVE LocksHeld'
  BY <1>9 DEF LockSpill, Goto, Close, TypeOK, LocksHeld, Holding
<1>10. ASSUME NEW f \in Forgets, Reread(f) PROVE LocksHeld'
  BY <1>10 DEF Reread, Goto, TypeOK, LocksHeld, Holding, files
<1>11. ASSUME NEW f \in Forgets, RewriteSpill(f) PROVE LocksHeld'
  BY <1>11 DEF RewriteSpill, Goto, Close, TypeOK, LocksHeld, Holding
<1>12. ASSUME NEW f \in Forgets, Kill(f) PROVE LocksHeld'
  BY <1>12 DEF Kill, Goto, Close, TypeOK, LocksHeld, Holding
<1>13. CASE UNCHANGED vars
  BY <1>13 DEF vars, files, fgVars, LocksHeld, Holding
<1> QED
  BY <1>1, <1>2, <1>3, <1>4, <1>5, <1>6, <1>7, <1>8, <1>9, <1>10, <1>11, <1>12, <1>13
     DEF Next, Over

\* Each step leaves what a forget has read as the files have it.
LEMMA StandStep == TypeOK /\ LocksHeld /\ Standing /\ [Next]_vars => Standing'
<1> SUFFICES ASSUME TypeOK, LocksHeld, Standing, [Next]_vars PROVE Standing'
  OBVIOUS
<1> USE HolderFacts DEF Standing, WrittenOnce, RecordsStand, SpillStands
<1>1. ASSUME NEW l \in Lines, HookLock(l) PROVE Standing'
  BY <1>1 DEF HookLock, HookAt, TypeOK, fgVars
<1>2. ASSUME NEW l \in Lines, HookAppend(l) PROVE Standing'
  <2>1. \A f \in Forgets : ~Holding(f)
    BY <1>2 DEF HookAppend, LocksHeld
  <2> QED BY <1>2, <2>1 DEF HookAppend, HookAt, TypeOK, Holding, fgVars
<1>3. ASSUME NEW l \in Lines, HookSpillLock(l) PROVE Standing'
  BY <1>3 DEF HookSpillLock, HookAt, TypeOK, fgVars
<1>4. ASSUME NEW l \in Lines, HookSpill(l) PROVE Standing'
  <2>1. WrittenOnce' /\ RecordsStand'
    BY <1>4 DEF HookSpill, HookAt, TypeOK, fgVars
  <2>2. ASSUME NEW f \in Forgets, fg[f] = "write", NEW m \in Lines \ raced'
        PROVE  spill'[m] <= reread[f][m]
    <3>1. hook[l] = "lockless" /\ raced' = raced \cup {l}
      BY <1>4, <2>2 DEF HookSpill, LocksHeld
    <3>2. m # l /\ m \notin raced
      BY <3>1
    <3> QED BY <1>4, <2>2, <3>2 DEF HookSpill, TypeOK, Counts
  <2>3. fg' = fg /\ reread' = reread
    BY <1>4 DEF HookSpill, fgVars
  <2> QED BY <2>1, <2>2, <2>3
<1>5. ASSUME NEW f \in Forgets, LockRecords(f) PROVE Standing'
  BY <1>5 DEF LockRecords, Goto, TypeOK
<1>6. ASSUME NEW f \in Forgets, ReadRecords(f) PROVE Standing'
  BY <1>6 DEF ReadRecords, Goto, TypeOK, files
<1>7. ASSUME NEW f \in Forgets, ReadSpill(f) PROVE Standing'
  BY <1>7 DEF ReadSpill, Goto, TypeOK, files
<1>8. ASSUME NEW f \in Forgets, WriteGap(f) PROVE Standing'
  BY <1>8 DEF WriteGap, Goto, Close, TypeOK
<1>9. ASSUME NEW f \in Forgets, RewriteRecords(f) PROVE Standing'
  <2>1. \A g \in Forgets : Holding(g) => g = f
    BY <1>9, OneForget DEF RewriteRecords, Holding
  <2>2. records' \subseteq records
    BY <1>9 DEF RewriteRecords
  <2> QED BY <1>9, <2>1, <2>2 DEF RewriteRecords, Goto, Close, TypeOK, Holding
<1>10. ASSUME NEW f \in Forgets, LockSpill(f) PROVE Standing'
  BY <1>10 DEF LockSpill, Goto, Close, TypeOK
<1>11. ASSUME NEW f \in Forgets, Reread(f) PROVE Standing'
  <2>1. \A m \in Lines : spill[m] <= spill[m]
    BY DEF TypeOK, Counts
  <2> QED BY <1>11, <2>1 DEF Reread, Goto, TypeOK, files
<1>12. ASSUME NEW f \in Forgets, RewriteSpill(f) PROVE Standing'
  <2>1. \A g \in Forgets : Holding(g) => g = f
    BY <1>12, OneForget DEF RewriteSpill, Holding
  <2> QED BY <1>12, <2>1 DEF RewriteSpill, Goto, Close, TypeOK, Holding
<1>13. ASSUME NEW f \in Forgets, Kill(f) PROVE Standing'
  BY <1>13 DEF Kill, Goto, Close, TypeOK
<1>14. CASE UNCHANGED vars
  BY <1>14 DEF vars, files, fgVars
<1> QED
  BY <1>1, <1>2, <1>3, <1>4, <1>5, <1>6, <1>7, <1>8, <1>9, <1>10, <1>11, <1>12,
     <1>13, <1>14 DEF Next, Over

\* What a forget still owes of a line is a count.
LEMMA OwedFacts ==
  ASSUME TypeOK, NEW f \in Forgets, NEW l \in Lines
  PROVE  /\ Owed(f, l) \in Nat /\ Copies(l) \in Nat
         /\ landed[l] \in Nat /\ gaps[l] \in Nat /\ spill[l] \in Nat
         /\ spillSeen[f][l] \in Nat /\ reread[f][l] \in Nat
BY DEF TypeOK, Counts, Owed, Copies

\* A step that moves no line, and after which no forget owes what it did not
\* owe before, keeps the count.
LEMMA QuietStep ==
  ASSUME OwedIsCounted, LossIsCounted,
         UNCHANGED <<records, spill, gaps, landed, raced>>,
         \A f \in Forgets : InGap(f)' =>
           InGap(f) /\ \A l \in Lines : Owed(f, l)' = Owed(f, l)
  PROVE  OwedIsCounted' /\ LossIsCounted'
<1>1. \A l \in Lines : Copies(l)' = Copies(l)
  BY DEF Copies
<1>2. LossIsCounted'
  BY <1>1 DEF LossIsCounted
<1>3. OwedIsCounted'
  BY <1>1 DEF OwedIsCounted
<1> QED BY <1>2, <1>3

\* Each step keeps every copy that landed in a file or in a gap, and what a
\* forget is about to remove in a gap already.
LEMMA CountStep ==
  TypeOK /\ CountInv /\ [Next]_vars => OwedIsCounted' /\ LossIsCounted'
<1> SUFFICES ASSUME TypeOK, CountInv, [Next]_vars
             PROVE  OwedIsCounted' /\ LossIsCounted'
  OBVIOUS
<1> USE DEF CountInv
<1>t. TypeOK'
  BY TypeStep
<1>1. ASSUME NEW l \in Lines, HookLock(l) \/ HookSpillLock(l)
      PROVE  OwedIsCounted' /\ LossIsCounted'
  <2>1. /\ UNCHANGED <<window, records, spill, gaps, landed, raced>>
        /\ UNCHANGED <<fg, recSeen, spillSeen>>
    BY <1>1 DEF HookLock, HookSpillLock, fgVars
  <2> QED BY <2>1, QuietStep DEF InGap, Owed, Doomed, Seen
<1>2. ASSUME NEW l \in Lines, HookAppend(l) PROVE OwedIsCounted' /\ LossIsCounted'
  <2>1. \A f \in Forgets : ~InGap(f)
    BY <1>2, HolderFacts DEF HookAppend, LocksHeld, Holding, InGap
  <2>2. l \notin records
    BY <1>2 DEF HookAppend, Standing, WrittenOnce
  <2>3. \A m \in Lines : landed'[m] - landed[m] = Copies(m)' - Copies(m)
    BY <1>2, <2>2 DEF HookAppend, Copies, TypeOK, Counts
  <2>4. UNCHANGED <<gaps, raced, fg>>
    BY <1>2 DEF HookAppend, fgVars
  <2>5. LossIsCounted'
    <3>1. \A m \in Lines : /\ Copies(m) \in Nat /\ Copies(m)' \in Nat
                           /\ landed[m] \in Nat /\ landed'[m] \in Nat
                           /\ gaps[m] \in Nat
      BY <1>t DEF Copies, TypeOK, Counts
    <3> QED BY <2>3, <2>4, <3>1 DEF LossIsCounted
  <2>6. OwedIsCounted'
    BY <2>1, <2>4 DEF OwedIsCounted, InGap
  <2> QED BY <2>5, <2>6
<1>3. ASSUME NEW l \in Lines, HookSpill(l) PROVE OwedIsCounted' /\ LossIsCounted'
  <2>1. \A m \in Lines : landed'[m] - landed[m] = Copies(m)' - Copies(m)
    BY <1>3 DEF HookSpill, Copies, TypeOK, Counts
  <2>2. /\ UNCHANGED <<window, gaps, fg, recSeen, spillSeen>>
        /\ raced \subseteq raced'
    BY <1>3 DEF HookSpill, fgVars
  <2>3. \A f \in Forgets, m \in Lines :
          (InGap(f)' <=> InGap(f)) /\ Owed(f, m)' = Owed(f, m)
    BY <2>2 DEF InGap, Owed, Doomed, Seen
  <2>4. \A m \in Lines : /\ Copies(m) \in Nat /\ Copies(m)' \in Nat
                         /\ landed[m] \in Nat /\ landed'[m] \in Nat
                         /\ gaps[m] \in Nat
    BY <1>t DEF Copies, TypeOK, Counts
  <2>5. LossIsCounted'
    BY <2>1, <2>2, <2>4 DEF LossIsCounted
  <2>6. OwedIsCounted'
    BY <2>1, <2>2, <2>3, <2>4, OwedFacts DEF OwedIsCounted
  <2> QED BY <2>5, <2>6
<1>4. ASSUME NEW f \in Forgets,
             LockRecords(f) \/ ReadRecords(f) \/ ReadSpill(f) \/ LockSpill(f)
               \/ Reread(f) \/ Kill(f)
      PROVE  OwedIsCounted' /\ LossIsCounted'
  <2>1. UNCHANGED <<window, records, spill, gaps, landed, raced>>
    BY <1>4 DEF LockRecords, ReadRecords, ReadSpill, LockSpill, Reread, Kill, files
  <2>2. ASSUME NEW g \in Forgets, InGap(g)'
        PROVE  /\ InGap(g) /\ recSeen'[g] = recSeen[g] /\ spillSeen'[g] = spillSeen[g]
               /\ (fg[g] = "counted" <=> fg'[g] = "counted")
    BY <1>4, <2>2 DEF LockRecords, ReadRecords, ReadSpill, LockSpill, Reread, Kill,
                      Goto, InGap, TypeOK
  <2>3. \A g \in Forgets : InGap(g)' => InGap(g) /\ \A l \in Lines : Owed(g, l)' = Owed(g, l)
    BY <2>1, <2>2 DEF Owed, Doomed, Seen
  <2> QED BY <2>1, <2>3, QuietStep
<1>5. ASSUME NEW f \in Forgets, WriteGap(f) PROVE OwedIsCounted' /\ LossIsCounted'
  <2>1. UNCHANGED <<window, records, spill, landed, raced, recSeen, spillSeen>>
    BY <1>5 DEF WriteGap
  <2>2. \A g \in Forgets : ~InGap(g)
    BY <1>5, OneForget DEF WriteGap, Holding, InGap
  <2>3. \A m \in Lines : Copies(m)' = Copies(m)
    BY <2>1 DEF Copies
  <2>4. CASE fg' = [fg EXCEPT ![f] = "counted"]
    <3>1. gaps' = [l \in Lines |-> gaps[l] + Counted(f)[l]]
      BY <1>5, <2>4 DEF WriteGap, Goto, TypeOK
    <3>2. \A m \in Lines : Owed(f, m)' = Counted(f)[m]
      BY <2>1, <2>4 DEF Owed, Counted, Doomed, Seen, TypeOK
    <3>3. \A g \in Forgets : InGap(g)' => g = f
      BY <2>2, <2>4 DEF InGap, TypeOK
    <3>4. \A m \in Lines : /\ Counted(f)[m] \in Nat /\ gaps[m] \in Nat
                           /\ landed[m] \in Nat /\ Copies(m) \in Nat
      BY CountFacts, OwedFacts DEF Counts
    <3>5. LossIsCounted'
      BY <2>1, <2>3, <3>1, <3>4 DEF LossIsCounted
    <3>6. OwedIsCounted'
      BY <2>1, <2>3, <3>1, <3>2, <3>3, <3>4 DEF LossIsCounted, OwedIsCounted
    <3> QED BY <3>5, <3>6
  <2>5. CASE UNCHANGED gaps /\ (Goto(f, "failed") \/ Goto(f, "nothing"))
    BY <2>1, <2>2, <2>5, QuietStep DEF Goto, InGap, TypeOK
  <2> QED BY <1>5, <2>4, <2>5 DEF WriteGap, Goto
<1>6. ASSUME NEW f \in Forgets, RewriteRecords(f) PROVE OwedIsCounted' /\ LossIsCounted'
  <2>1. /\ fg[f] = "counted" /\ records' = records \ Doomed(f) /\ recSeen[f] = records
        /\ UNCHANGED <<window, spill, gaps, landed, raced, recSeen, spillSeen>>
    BY <1>6 DEF RewriteRecords, Standing, RecordsStand
  <2>2. \A g \in Forgets : InGap(g) => g = f
    BY <2>1, OneForget DEF Holding, InGap
  <2>3. fg'[f] # "counted" /\ \A g \in Forgets : InGap(g)' => g = f
    BY <1>6, <2>2 DEF RewriteRecords, Goto, InGap, TypeOK
  <2>4. \A m \in Lines : Owed(f, m)' = IF m \in Doomed(f) THEN spillSeen[f][m] ELSE 0
    BY <2>1, <2>3, OwedFacts DEF Owed, Doomed, Seen
  <2>5. ASSUME NEW m \in Lines \ raced
        PROVE  landed[m] + Owed(f, m)' <= Copies(m)' + gaps[m]
    <3>1. landed[m] + Owed(f, m) <= Copies(m) + gaps[m]
      BY <2>1 DEF OwedIsCounted, InGap
    <3>2. CASE m \in Doomed(f)
      BY <2>1, <2>4, <3>1, <3>2, OwedFacts DEF Owed, Copies
    <3>3. CASE m \notin Doomed(f)
      BY <2>1, <2>4, <3>1, <3>3, OwedFacts DEF Owed, Copies
    <3> QED BY <3>2, <3>3
  <2>6. OwedIsCounted'
    BY <2>1, <2>3, <2>5 DEF OwedIsCounted
  <2>7. LossIsCounted'
    BY <2>1, <2>5, <1>t, OwedFacts, <2>4 DEF LossIsCounted, Copies, TypeOK, Counts
  <2> QED BY <2>6, <2>7
<1>7. ASSUME NEW f \in Forgets, RewriteSpill(f) PROVE OwedIsCounted' /\ LossIsCounted'
  <2>1. /\ fg[f] = "write"
        /\ UNCHANGED <<window, records, gaps, landed, raced>>
    BY <1>7 DEF RewriteSpill
  <2>2. \A g \in Forgets : ~InGap(g)'
    BY <1>7, <2>1, OneForget DEF RewriteSpill, Goto, Holding, InGap, TypeOK
  <2>3. ASSUME NEW m \in Lines \ raced PROVE landed[m] <= Copies(m)' + gaps[m]
    <3>1. landed[m] + Owed(f, m) <= Copies(m) + gaps[m]
      BY <2>1 DEF OwedIsCounted, InGap
    <3>2. spill[m] <= reread[f][m]
      BY <2>1 DEF Standing, SpillStands
    <3>3. Copies(m)' - spill'[m] = Copies(m) - spill[m] /\ spill'[m] \in Nat
      BY <2>1, <1>t DEF Copies, TypeOK, Counts
    <3>4. spill'[m] >= spill[m] - Owed(f, m)
      BY <1>7, <2>1, <3>2, OwedFacts DEF RewriteSpill, Owed
    <3>5. Copies(m)' \in Nat
      BY <1>t DEF Copies, TypeOK, Counts
    <3> QED BY <3>1, <3>3, <3>4, <3>5, OwedFacts
  <2> QED BY <2>1, <2>2, <2>3 DEF LossIsCounted, OwedIsCounted
<1>8. CASE UNCHANGED vars
  BY <1>8, QuietStep DEF vars, files, fgVars, InGap, Owed, Doomed, Seen
<1> QED
  BY <1>1, <1>2, <1>3, <1>4, <1>5, <1>6, <1>7, <1>8 DEF Next, Over

\* No copy of a line leaves a run without a gap that counts it, for any number
\* of forgets beside any number of hooks, killed or not: the gap lands before
\* the first rewrite, and a rewrite takes out of each file at most what the
\* plan read there (gaps.go forgetRun, rewriteSpill).
THEOREM LossStaysCounted == Spec => []LossIsCounted
<1>1. Init => CountInv
  <2> SUFFICES ASSUME Init PROVE CountInv
    OBVIOUS
  <2>1. \A l \in Lines : Copies(l) \in Nat /\ landed[l] = Copies(l) /\ gaps[l] = 0
    BY ForgetAssumption DEF Init, Copies, None
  <2>2. LossIsCounted
    BY <2>1 DEF LossIsCounted
  <2>3. WrittenOnce
    BY ForgetAssumption DEF Init, WrittenOnce, Copies
  <2> QED BY <2>2, <2>3 DEF Init, CountInv, LocksHeld, Holding, InGap, Standing,
                            RecordsStand, SpillStands, OwedIsCounted
<1>2. TypeOK /\ CountInv /\ [Next]_vars => CountInv'
  BY LockStep, StandStep, CountStep DEF CountInv
<1>3. CountInv => LossIsCounted
  BY DEF CountInv
<1> QED BY <1>1, <1>2, <1>3, TypeCorrect, PTL DEF Spec

-----------------------------------------------------------------------------
(* What a forget removes, it removes whole, and counts once.               *)

\* A forget that has read the spill file and not yet rewritten it.
Seeing(f) == fg[f] \in {"planned", "counted", "spillWait", "reread", "write"}

\* A line is nowhere before its hook is over.
LandedOnce == \A l \in Lines : hook[l] # "done" => l \notin records /\ spill[l] = 0

\* The spill file only grows under a forget, and not by a line it has seen,
\* whose one hook is over.
SeenStays(f) ==
  /\ fg[f] # "wait" => \A l \in Seen(f) : hook[l] = "done"
  /\ Seeing(f) => \A l \in Lines : /\ spillSeen[f][l] <= spill[l]
                                   /\ l \in Seen(f) => spill[l] = spillSeen[f][l]
  /\ fg[f] = "write" => \A l \in Lines : spillSeen[f][l] <= reread[f][l] /\ reread[f][l] <= spill[l]

\* A doomed line is out of a file once the forget has rewritten it.
Gone(f) ==
  \A l \in Doomed(f) : /\ fg[f] \in {"spillWait", "reread", "write"} => l \notin records
                       /\ fg[f] = "done" => l \notin records /\ spill[l] = 0

Begun(f) == fg[f] = "wait" => recSeen[f] = {} /\ spillSeen[f] = None
Unread(f) == fg[f] \in {"wait", "locked", "read"} => spillSeen[f] = None

\* What a forget has seen is as the files have it, until it has taken it out.
Whole(f) == SeenStays(f) /\ Gone(f) /\ Begun(f) /\ Unread(f)

WholeInv == LocksHeld /\ Standing /\ LandedOnce /\ \A f \in Forgets : Whole(f)

\* What a forget has read, once both reads are over.
LEMMA SeenFacts ==
  ASSUME TypeOK, NEW f \in Forgets
  PROVE  /\ recSeen[f] \subseteq Lines /\ Seen(f) \subseteq Lines /\ Doomed(f) \subseteq Seen(f)
         /\ \A l \in Lines : /\ spillSeen[f][l] \in Nat /\ reread[f][l] \in Nat
                             /\ spill[l] \in Nat /\ landed[l] \in Nat /\ gaps[l] \in Nat
BY DEF TypeOK, Counts, Seen, Doomed

\* A step that leaves the files to grow only by a line not seen yet, and a
\* forget where it was, leaves that forget's lines as they were.
LEMMA WholeStays ==
  ASSUME TypeOK, TypeOK', NEW f \in Forgets, Whole(f),
         fg'[f] = fg[f], recSeen'[f] = recSeen[f], spillSeen'[f] = spillSeen[f],
         reread'[f] = reread[f], window' = window,
         \A l \in Lines : hook[l] = "done" =>
           /\ hook'[l] = "done" /\ (l \in records' => l \in records)
           /\ spill'[l] <= spill[l],
         Seeing(f) => \A l \in Lines : spill[l] <= spill'[l]
  PROVE  Whole(f)'
<1> USE DEF Whole
<1>1. Seen(f)' = Seen(f) /\ Doomed(f)' = Doomed(f) /\ (Seeing(f)' <=> Seeing(f))
  BY DEF Seen, Doomed, Seeing
<1>2. \A l \in Lines : spill[l] \in Nat /\ spill'[l] \in Nat /\ spillSeen[f][l] \in Nat /\ reread[f][l] \in Nat
  BY DEF TypeOK, Counts
<1>3. SeenStays(f)'
  <2>1. fg[f] # "wait" => \A l \in Seen(f) : hook'[l] = "done"
    BY SeenFacts DEF SeenStays
  <2>2. ASSUME Seeing(f), NEW l \in Lines
        PROVE  spillSeen[f][l] <= spill'[l] /\ (l \in Seen(f) => spill'[l] = spillSeen[f][l])
    <3>1. spillSeen[f][l] <= spill[l] /\ spill[l] <= spill'[l]
      BY <2>2 DEF SeenStays
    <3>2. l \in Seen(f) => hook[l] = "done" /\ spill[l] = spillSeen[f][l]
      BY <2>2 DEF SeenStays, Seeing
    <3> QED BY <1>2, <3>1, <3>2
  <2>3. ASSUME fg[f] = "write", NEW l \in Lines
        PROVE  spillSeen[f][l] <= reread[f][l] /\ reread[f][l] <= spill'[l]
    <3>1. spillSeen[f][l] <= reread[f][l] /\ reread[f][l] <= spill[l] /\ spill[l] <= spill'[l]
      BY <2>3 DEF SeenStays, Seeing
    <3> QED BY <1>2, <3>1
  <2> QED BY <1>1, <2>1, <2>2, <2>3 DEF SeenStays
<1>4. Gone(f)'
  <2>1. ASSUME NEW l \in Doomed(f), fg[f] \in {"spillWait", "reread", "write", "done"}
        PROVE  /\ l \in Lines /\ hook[l] = "done"
               /\ (l \in records' => l \in records) /\ (spill[l] = 0 => spill'[l] = 0)
    <3>1. l \in Lines /\ hook[l] = "done"
      BY <2>1, SeenFacts DEF SeenStays
    <3> QED BY <1>2, <3>1
  <2> QED BY <1>1, <2>1 DEF Gone
<1>5. Begun(f)' /\ Unread(f)'
  BY DEF Begun, Unread
<1> QED BY <1>3, <1>4, <1>5

\* Each step keeps what a forget has seen as the files have it, until the
\* forget has taken it out.
LEMMA WholeStep == TypeOK /\ WholeInv /\ [Next]_vars => WholeInv'
<1> SUFFICES ASSUME TypeOK, WholeInv, [Next]_vars PROVE WholeInv'
  OBVIOUS
<1>t. TypeOK'
  BY TypeStep
<1>s. LocksHeld' /\ Standing'
  BY LockStep, StandStep DEF WholeInv
<1>k. \A g \in Forgets : Whole(g)
  BY DEF WholeInv
<1>n. \A l \in Lines : spill[l] \in Nat /\ spill'[l] \in Nat /\ spill[l] <= spill[l]
  BY <1>t DEF TypeOK, Counts
<1>1. ASSUME NEW l \in Lines,
             HookLock(l) \/ HookAppend(l) \/ HookSpillLock(l) \/ HookSpill(l)
      PROVE  LandedOnce' /\ \A g \in Forgets : Whole(g)'
  <2>1. /\ UNCHANGED <<window, fg, recSeen, spillSeen, reread>>
        /\ hook[l] # "done" /\ \A m \in Lines \ {l} : hook'[m] = hook[m]
    BY <1>1 DEF HookLock, HookAppend, HookSpillLock, HookSpill, HookAt, fgVars, TypeOK
  <2>2. /\ records' \subseteq records \cup {l}
        /\ \A m \in Lines \ {l} : spill'[m] = spill[m]
        /\ spill[l] <= spill'[l]
    BY <1>1, <1>n DEF HookLock, HookAppend, HookSpillLock, HookSpill, TypeOK, Counts
  <2>3. hook'[l] # "done" => records' = records /\ spill' = spill
    BY <1>1 DEF HookLock, HookAppend, HookSpillLock, HookSpill, HookAt, TypeOK
  <2>4. LandedOnce'
    BY <2>1, <2>2, <2>3 DEF WholeInv, LandedOnce
  <2>5. \A g \in Forgets : Whole(g)'
    <3>1. \A m \in Lines : hook[m] = "done" =>
             hook'[m] = "done" /\ (m \in records' => m \in records) /\ spill'[m] <= spill[m]
      BY <2>1, <2>2, <1>n
    <3>2. \A m \in Lines : spill[m] <= spill'[m]
      BY <2>2, <1>n
    <3> QED BY <1>k, <1>t, <2>1, <3>1, <3>2, WholeStays
  <2> QED BY <2>4, <2>5
\* A forget's step, for the others: no other is between its reads and its
\* rewrites, and no file grows.
<1>o. ASSUME NEW f \in Forgets, NEW g \in Forgets \ {f}, UNCHANGED <<window, hook>>,
             fg'[g] = fg[g], recSeen'[g] = recSeen[g], spillSeen'[g] = spillSeen[g],
             reread'[g] = reread[g], records' \subseteq records,
             \A l \in Lines : spill'[l] <= spill[l],
             spill' = spill \/ Holding(f)
      PROVE  Whole(g)'
  <2>1. Seeing(g) => spill' = spill
    BY <1>o, OneForget DEF WholeInv, Seeing, Holding
  <2>2. Seeing(g) => \A l \in Lines : spill[l] <= spill'[l]
    BY <2>1, <1>n
  <2> QED BY <1>k, <1>t, <1>o, <2>2, WholeStays
<1>2. ASSUME NEW f \in Forgets,
             LockRecords(f) \/ ReadRecords(f) \/ ReadSpill(f) \/ WriteGap(f) \/ LockSpill(f)
               \/ Reread(f) \/ Kill(f)
      PROVE  LandedOnce' /\ \A g \in Forgets : Whole(g)'
  <2>1. UNCHANGED <<window, hook, records, spill>>
    BY <1>2 DEF LockRecords, ReadRecords, ReadSpill, WriteGap, LockSpill, Reread, Kill, files
  <2>2. \A g \in Forgets \ {f} : /\ fg'[g] = fg[g] /\ recSeen'[g] = recSeen[g]
                                 /\ spillSeen'[g] = spillSeen[g] /\ reread'[g] = reread[g]
    BY <1>2 DEF LockRecords, ReadRecords, ReadSpill, WriteGap, LockSpill, Reread, Kill, Goto, TypeOK
  <2>3. \A g \in Forgets \ {f} : Whole(g)'
    BY <2>1, <2>2, <1>o, <1>n
  <2>4. ASSUME LockRecords(f) PROVE Whole(f)'
    BY <2>1, <2>4, <1>k DEF LockRecords, Goto, TypeOK, Whole, SeenStays, Gone, Begun, Unread, Seeing, Seen,
                            Doomed, None
  <2>5. ASSUME ReadRecords(f) PROVE Whole(f)'
    <3>1. /\ fg[f] = "locked" /\ fg'[f] = "read" /\ recSeen'[f] = records
          /\ spillSeen' = spillSeen /\ spillSeen[f] = None
      BY <2>5, <1>k DEF ReadRecords, Goto, TypeOK, Whole, Unread
    <3>2. Seen(f)' = records
      BY <3>1, <1>t DEF Seen, None, TypeOK
    <3>3. \A l \in records : hook[l] = "done"
      BY DEF WholeInv, Standing, WrittenOnce, TypeOK
    <3>4. Doomed(f)' \subseteq Seen(f)'
      BY DEF Doomed
    <3> QED BY <2>1, <3>1, <3>2, <3>3 DEF Whole, SeenStays, Gone, Begun, Unread, Seeing
  <2>6. ASSUME ReadSpill(f) PROVE Whole(f)'
    <3>1. /\ fg[f] = "read" /\ fg'[f] = "planned" /\ recSeen' = recSeen
          /\ spillSeen'[f] = spill
      BY <2>6 DEF ReadSpill, Goto, TypeOK
    <3>2. recSeen[f] = records
      BY <3>1 DEF WholeInv, Standing, RecordsStand
    <3>3. Seen(f)' = records \cup {l \in Lines : spill[l] > 0}
      BY <3>1, <3>2 DEF Seen
    <3>4. \A l \in Seen(f)' : hook'[l] = "done"
      BY <3>3, <2>1, <1>n DEF WholeInv, LandedOnce, TypeOK
    <3>5. SeenStays(f)'
      BY <3>1, <3>4, <2>1, <1>n DEF Whole, SeenStays, Seeing
    <3> QED BY <3>1, <3>5 DEF Whole, Gone, Begun, Unread
  <2>7. ASSUME WriteGap(f) PROVE Whole(f)'
    <3>1. /\ fg[f] = "planned" /\ fg'[f] \in {"counted", "failed", "nothing"}
          /\ UNCHANGED <<recSeen, spillSeen, reread>>
      BY <2>7 DEF WriteGap, Goto, TypeOK
    <3> QED BY <2>1, <3>1, <1>k DEF Whole, SeenStays, Gone, Begun, Unread, Seeing, Seen, Doomed
  <2>8. ASSUME LockSpill(f) PROVE Whole(f)'
    <3>1. /\ fg[f] = "spillWait" /\ fg'[f] \in {"reread", "failed"}
          /\ UNCHANGED <<recSeen, spillSeen, reread>>
      BY <2>8 DEF LockSpill, Goto, TypeOK
    <3> QED BY <2>1, <3>1, <1>k DEF Whole, SeenStays, Gone, Begun, Unread, Seeing, Seen, Doomed
  <2>9. ASSUME Reread(f) PROVE Whole(f)'
    <3>1. /\ fg[f] = "reread" /\ fg'[f] = "write" /\ reread'[f] = spill
          /\ UNCHANGED <<recSeen, spillSeen>>
      BY <2>9 DEF Reread, Goto, TypeOK
    <3>2. Seen(f)' = Seen(f) /\ Doomed(f)' = Doomed(f)
      BY <2>1, <3>1 DEF Seen, Doomed
    <3>3. SeenStays(f)'
      BY <2>1, <3>1, <3>2, <1>k, <1>n DEF Whole, SeenStays, Seeing
    <3> QED BY <2>1, <3>1, <3>2, <3>3, <1>k DEF Whole, Gone, Begun, Unread
  <2>10. ASSUME Kill(f) PROVE Whole(f)'
    <3>1. /\ fg[f] # "wait" /\ fg'[f] = "killed" /\ UNCHANGED <<recSeen, spillSeen, reread>>
      BY <2>10 DEF Kill, Goto, TypeOK
    <3> QED BY <2>1, <3>1, <1>k DEF Whole, SeenStays, Gone, Begun, Unread, Seeing, Seen
  <2>11. LandedOnce'
    BY <2>1 DEF WholeInv, LandedOnce
  <2> QED BY <1>2, <2>3, <2>4, <2>5, <2>6, <2>7, <2>8, <2>9, <2>10, <2>11
<1>3. ASSUME NEW f \in Forgets, RewriteRecords(f)
      PROVE  LandedOnce' /\ \A g \in Forgets : Whole(g)'
  <2>1. /\ fg[f] = "counted" /\ UNCHANGED <<window, hook, spill, recSeen, spillSeen, reread>>
        /\ fg'[f] = IF SpillDoomed(f) THEN "spillWait" ELSE "done"
    BY <1>3 DEF RewriteRecords, Goto, TypeOK
  <2>2. records' = records \ Doomed(f)
    BY <1>3, <2>1 DEF RewriteRecords, WholeInv, Standing, RecordsStand
  <2>3. \A g \in Forgets \ {f} : fg'[g] = fg[g]
    BY <1>3 DEF RewriteRecords, Goto, TypeOK
  <2>4. \A g \in Forgets \ {f} : Whole(g)'
    BY <2>1, <2>2, <2>3, <1>o, <1>n
  <2>5. Seen(f)' = Seen(f) /\ Doomed(f)' = Doomed(f)
    BY <2>1 DEF Seen, Doomed
  <2>6. ASSUME ~SpillDoomed(f), NEW l \in Doomed(f) PROVE spill[l] = 0
    <3>1. l \in Seen(f) /\ l \in Lines /\ spillSeen[f][l] \in Nat
      BY SeenFacts
    <3>2. spill[l] = spillSeen[f][l]
      BY <3>1, <2>1, <1>k DEF Whole, SeenStays, Seeing
    <3> QED BY <2>6, <3>1, <3>2 DEF SpillDoomed
  <2>7. Whole(f)'
    BY <2>1, <2>2, <2>5, <2>6, <1>k DEF Whole, SeenStays, Gone, Begun, Unread, Seeing
  <2>8. LandedOnce'
    BY <2>1, <2>2 DEF WholeInv, LandedOnce
  <2> QED BY <2>4, <2>7, <2>8
<1>4. ASSUME NEW f \in Forgets, RewriteSpill(f)
      PROVE  LandedOnce' /\ \A g \in Forgets : Whole(g)'
  <2>1. /\ fg[f] = "write" /\ UNCHANGED <<window, hook, records, recSeen, spillSeen, reread>>
        /\ fg'[f] = "done"
        /\ \A l \in Lines : spill'[l] = IF l \notin Doomed(f) THEN reread[f][l]
             ELSE IF reread[f][l] > spillSeen[f][l] THEN reread[f][l] - spillSeen[f][l] ELSE 0
    BY <1>4 DEF RewriteSpill, Goto, TypeOK
  <2>2. \A l \in Lines : spillSeen[f][l] <= reread[f][l] /\ reread[f][l] <= spill[l]
    BY <2>1, <1>k DEF Whole, SeenStays
  <2>3. \A l \in Lines : spill'[l] <= spill[l]
    BY <2>1, <2>2, SeenFacts
  <2>4. \A g \in Forgets \ {f} : fg'[g] = fg[g]
    BY <1>4 DEF RewriteSpill, Goto, TypeOK
  <2>5. \A g \in Forgets \ {f} : Whole(g)'
    BY <2>1, <2>3, <2>4, <1>o DEF Holding
  <2>6. Seen(f)' = Seen(f) /\ Doomed(f)' = Doomed(f)
    BY <2>1 DEF Seen, Doomed
  <2>7. ASSUME NEW l \in Doomed(f) PROVE l \notin records /\ spill'[l] = 0
    <3>1. l \in Seen(f) /\ l \in Lines
      BY SeenFacts
    <3>2. spill[l] = spillSeen[f][l]
      BY <3>1, <2>1, <1>k DEF Whole, SeenStays, Seeing
    <3>3. l \notin records
      BY <2>1, <1>k DEF Whole, Gone
    <3> QED BY <3>1, <3>2, <3>3, <2>1, <2>2, SeenFacts
  <2>8. Whole(f)'
    BY <2>1, <2>6, <2>7, <1>k DEF Whole, SeenStays, Gone, Begun, Unread, Seeing
  <2>9. LandedOnce'
    BY <2>1, <2>3, <1>n DEF WholeInv, LandedOnce
  <2> QED BY <2>5, <2>8, <2>9
<1>5. ASSUME UNCHANGED vars
      PROVE  LandedOnce' /\ \A g \in Forgets : Whole(g)'
  <2>1. LandedOnce'
    BY <1>5 DEF vars, files, WholeInv, LandedOnce
  <2>2. \A g \in Forgets : Whole(g)'
    BY <1>5, <1>k, <1>n, <1>t, WholeStays DEF vars, files, fgVars
  <2> QED BY <2>1, <2>2
<1>6. LandedOnce' /\ \A g \in Forgets : Whole(g)'
  BY <1>1, <1>2, <1>3, <1>4, <1>5 DEF Next, Over
<1> QED BY <1>6, <1>s DEF WholeInv

\* No forget has read anything when it starts.
LEMMA WholeInit == Init => WholeInv
<1> SUFFICES ASSUME Init PROVE WholeInv
  OBVIOUS
<1>1. \A l \in Lines : Copies(l) \in Nat /\ landed[l] = Copies(l) /\ spill[l] \in Nat
  BY ForgetAssumption DEF Init, Copies
<1>2. LandedOnce
  BY <1>1 DEF Init, LandedOnce, Copies
<1>3. WrittenOnce
  BY ForgetAssumption DEF Init, WrittenOnce, Copies
<1>4. \A f \in Forgets : Whole(f)
  BY DEF Init, Whole, SeenStays, Seeing, Gone, Begun, Unread
<1> QED BY <1>2, <1>3, <1>4 DEF Init, WholeInv, LocksHeld, Holding, Standing, RecordsStand, SpillStands

\* A forget that ends well leaves no line of a call it removed that it had
\* read, in either file, whatever landed beside it: the lock keeps the records
\* as they were read, and a line it saw in the spill file lands once only
\* (gaps.go forgetRun, rewriteSpill).
THEOREM CallsStayWhole == Spec => []CallsLeaveWhole
<1>1. TypeOK /\ WholeInv => CallsLeaveWhole
  <2> SUFFICES ASSUME TypeOK, WholeInv, NEW f \in Forgets, fg[f] = "done", NEW l \in Doomed(f)
               PROVE  Copies(l) = 0
    BY DEF CallsLeaveWhole, Doomed
  <2>1. l \notin records /\ spill[l] = 0
    BY DEF WholeInv, Whole, Gone
  <2> QED BY <2>1 DEF Copies
<1> QED BY <1>1, WholeInit, WholeStep, TypeCorrect, PTL DEF Spec

-----------------------------------------------------------------------------
\* No forget was killed or failed.
Smooth == \A f \in Forgets : fg[f] \notin {"killed", "failed"}

\* A gap counts no copy but those that have left and those about to.
Exact(f) == InGap(f) => \A l \in Lines : gaps[l] + Copies(l) <= landed[l] + Owed(f, l)
Settled == (\A f \in Forgets : ~InGap(f)) => \A l \in Lines : gaps[l] + Copies(l) <= landed[l]

OnceInv == Smooth => Settled /\ \A f \in Forgets : Exact(f)

\* What a forget is about to take out is there.
LEMMA OwedIsThere ==
  ASSUME TypeOK, WholeInv, NEW f \in Forgets, InGap(f), NEW l \in Lines
  PROVE  Owed(f, l) <= Copies(l)
<1>1. spillSeen[f][l] <= spill[l]
  BY DEF WholeInv, Whole, SeenStays, Seeing, InGap
<1>2. fg[f] = "counted" => recSeen[f] = records
  BY DEF WholeInv, Standing, RecordsStand
<1> QED BY <1>1, <1>2, SeenFacts DEF Owed, Copies

\* A forget that has not failed after a step had not before it.
LEMMA SmoothBefore == ASSUME TypeOK, [Next]_vars, Smooth' PROVE Smooth
<1>1. ASSUME NEW f \in Forgets, fg[f] \in {"killed", "failed"} PROVE fg'[f] = fg[f]
  BY <1>1 DEF TypeOK, Next, Over, vars, files, fgVars, HookLock, HookAppend, HookSpillLock, HookSpill,
              LockRecords, ReadRecords, ReadSpill, WriteGap, RewriteRecords, LockSpill, Reread,
              RewriteSpill, Kill, Goto
<1> QED BY <1>1 DEF Smooth

\* A step in which nothing lands, leaves or is counted.
LEMMA StillStep ==
  ASSUME Settled, \A f \in Forgets : Exact(f),
         UNCHANGED <<window, records, spill, gaps, landed, recSeen, spillSeen>>,
         \A f \in Forgets : (InGap(f)' = InGap(f)) /\ (InGap(f) => (fg[f] = "counted" <=> fg'[f] = "counted"))
  PROVE  Settled' /\ \A f \in Forgets : Exact(f)'
<1>1. \A l \in Lines : Copies(l)' = Copies(l)
  BY DEF Copies
<1>2. ASSUME NEW f \in Forgets, InGap(f), NEW l \in Lines
      PROVE  Owed(f, l)' = Owed(f, l)
  <2>1. Doomed(f)' = Doomed(f)
    BY DEF Doomed, Seen
  <2>2. fg[f] = "counted" <=> fg'[f] = "counted"
    BY <1>2
  <2> QED BY <2>1, <2>2 DEF Owed
<1>3. Settled'
  BY <1>1 DEF Settled, InGap
<1>4. \A f \in Forgets : Exact(f)'
  BY <1>1, <1>2 DEF Exact, InGap
<1> QED BY <1>3, <1>4

\* Each step keeps the gaps from counting more than what has left.
LEMMA OnceStep == TypeOK /\ WholeInv /\ OnceInv /\ [Next]_vars => OnceInv'
<1> SUFFICES ASSUME TypeOK, WholeInv, OnceInv, [Next]_vars, Smooth'
             PROVE  Settled' /\ \A g \in Forgets : Exact(g)'
  BY DEF OnceInv
<1>t. TypeOK'
  BY TypeStep
<1>s. Settled /\ \A f \in Forgets : Exact(f)
  BY SmoothBefore DEF OnceInv
<1>n. \A l \in Lines : /\ Copies(l) \in Nat /\ Copies(l)' \in Nat /\ landed[l] \in Nat
                        /\ landed'[l] \in Nat /\ gaps[l] \in Nat /\ gaps'[l] \in Nat
  BY <1>t DEF TypeOK, Counts, Copies
<1>1. ASSUME NEW l \in Lines,
             HookLock(l) \/ HookAppend(l) \/ HookSpillLock(l) \/ HookSpill(l)
      PROVE  Settled' /\ \A g \in Forgets : Exact(g)'
  <2>1. UNCHANGED <<window, gaps, fg, recSeen, spillSeen>>
    BY <1>1 DEF HookLock, HookAppend, HookSpillLock, HookSpill, fgVars, files
  <2>2. \A g \in Forgets, m \in Lines : (InGap(g)' <=> InGap(g)) /\ Owed(g, m)' = Owed(g, m)
    BY <2>1 DEF InGap, Owed, Doomed, Seen
  <2>3. \A m \in Lines : Copies(m)' - Copies(m) = landed'[m] - landed[m]
    <3>1. hook[l] # "done"
      BY <1>1 DEF HookLock, HookAppend, HookSpillLock, HookSpill
    <3>2. l \notin records
      BY <3>1 DEF WholeInv, LandedOnce
    <3> QED BY <1>1, <3>2 DEF HookLock, HookAppend, HookSpillLock, HookSpill, Copies, TypeOK, Counts
  <2>4. \A m \in Lines : gaps'[m] = gaps[m]
    BY <2>1
  <2>5. Settled'
    BY <1>s, <1>n, <2>2, <2>3, <2>4 DEF Settled
  <2>6. ASSUME NEW g \in Forgets, InGap(g), NEW m \in Lines
        PROVE  gaps'[m] + Copies(m)' <= landed'[m] + Owed(g, m)'
    <3>1. gaps[m] + Copies(m) <= landed[m] + Owed(g, m)
      BY <1>s, <2>6 DEF Exact
    <3>2. Owed(g, m) \in Nat /\ Owed(g, m)' = Owed(g, m)
      BY <2>2, OwedFacts
    <3> QED BY <1>n, <2>3, <2>4, <3>1, <3>2
  <2> QED BY <2>2, <2>5, <2>6 DEF Exact
<1>2. ASSUME NEW f \in Forgets, LockRecords(f) \/ LockSpill(f) \/ Reread(f) \/ Kill(f)
      PROVE  Settled' /\ \A g \in Forgets : Exact(g)'
  <2>1. UNCHANGED <<window, records, spill, gaps, landed, recSeen, spillSeen>>
    BY <1>2 DEF LockRecords, LockSpill, Reread, Kill, files
  <2>2. \A g \in Forgets : fg'[g] \notin {"killed", "failed"}
    BY DEF Smooth
  <2>3. \A g \in Forgets \ {f} : fg'[g] = fg[g]
    BY <1>2 DEF LockRecords, LockSpill, Reread, Kill, Goto, TypeOK
  <2>4. \/ fg[f] = "wait" /\ fg'[f] = "locked"
        \/ fg[f] = "spillWait" /\ fg'[f] = "reread"
        \/ fg[f] = "reread" /\ fg'[f] = "write"
    BY <1>2, <2>2 DEF LockRecords, LockSpill, Reread, Kill, Goto, TypeOK
  <2>5. \A g \in Forgets : (InGap(g)' = InGap(g)) /\ (InGap(g) => (fg[g] = "counted" <=> fg'[g] = "counted"))
    BY <2>3, <2>4 DEF InGap
  <2> QED BY <1>s, <2>1, <2>5, StillStep
<1>3. ASSUME NEW f \in Forgets, ReadRecords(f) \/ ReadSpill(f)
      PROVE  Settled' /\ \A g \in Forgets : Exact(g)'
  <2>1. \A g \in Forgets : ~InGap(g) /\ ~InGap(g)'
    <3>1. \A g \in Forgets : ~InGap(g)
      BY <1>3, OneForget DEF ReadRecords, ReadSpill, Holding, InGap, WholeInv
    <3> QED BY <1>3, <3>1 DEF ReadRecords, ReadSpill, Goto, InGap, TypeOK
  <2>2. UNCHANGED <<gaps, landed, records, spill>>
    BY <1>3 DEF ReadRecords, ReadSpill, files
  <2> QED BY <1>s, <2>1, <2>2 DEF Settled, Exact, Copies
<1>4. ASSUME NEW f \in Forgets, WriteGap(f)
      PROVE  Settled' /\ \A g \in Forgets : Exact(g)'
  <2>1. \A g \in Forgets : ~InGap(g)
    BY <1>4, OneForget DEF WriteGap, Holding, InGap, WholeInv
  <2>2. UNCHANGED <<window, records, spill, landed, recSeen, spillSeen>>
    BY <1>4 DEF WriteGap
  <2>3. fg'[f] \in {"counted", "nothing"}
    BY <1>4 DEF WriteGap, Goto, TypeOK, Smooth
  <2>4. CASE fg'[f] = "counted"
    <3>1. gaps' = [l \in Lines |-> gaps[l] + Counted(f)[l]]
      BY <1>4, <2>4 DEF WriteGap, Goto, TypeOK
    <3>2. \A m \in Lines : Owed(f, m)' = Counted(f)[m] /\ Counted(f)[m] \in Nat
      BY <2>2, <2>4, CountFacts DEF Owed, Counted, Doomed, Seen, Counts
    <3>3. InGap(f)' /\ \A g \in Forgets : InGap(g)' => g = f
      BY <1>4, <2>1, <2>4 DEF WriteGap, Goto, InGap, TypeOK
    <3>4. \A m \in Lines : gaps[m] + Copies(m) <= landed[m]
      BY <1>s, <2>1 DEF Settled
    <3>5. \A m \in Lines : Copies(m)' = Copies(m)
      BY <2>2 DEF Copies
    <3>6. \A m \in Lines : gaps'[m] + Copies(m)' <= landed'[m] + Owed(f, m)'
      BY <1>n, <2>2, <3>1, <3>2, <3>4, <3>5
    <3> QED BY <3>3, <3>6 DEF Settled, Exact
  <2>5. CASE fg'[f] = "nothing"
    <3>1. UNCHANGED gaps /\ \A g \in Forgets : ~InGap(g)'
      BY <1>4, <2>1, <2>5 DEF WriteGap, Goto, InGap, TypeOK
    <3> QED BY <1>s, <2>1, <2>2, <3>1 DEF Settled, Exact, Copies
  <2> QED BY <2>3, <2>4, <2>5
<1>5. ASSUME NEW f \in Forgets, RewriteRecords(f)
      PROVE  Settled' /\ \A g \in Forgets : Exact(g)'
  <2>1. /\ fg[f] = "counted" /\ UNCHANGED <<window, spill, gaps, landed, recSeen, spillSeen>>
        /\ fg'[f] = IF SpillDoomed(f) THEN "spillWait" ELSE "done"
    BY <1>5 DEF RewriteRecords, Goto, TypeOK
  <2>2. records' = records \ Doomed(f) /\ recSeen[f] = records
    BY <1>5, <2>1 DEF RewriteRecords, WholeInv, Standing, RecordsStand
  <2>3. \A g \in Forgets : InGap(g)' => g = f
    <3>1. \A g \in Forgets : InGap(g) => g = f
      BY <2>1, OneForget DEF Holding, InGap, WholeInv
    <3> QED BY <1>5, <3>1 DEF RewriteRecords, Goto, InGap, TypeOK
  <2>4. \A m \in Lines : gaps[m] + Copies(m) <= landed[m] + Owed(f, m)
    BY <1>s, <2>1 DEF Exact, InGap
  <2>5. \A m \in Lines : Copies(m) - Copies(m)' = IF m \in Doomed(f) /\ m \in records THEN 1 ELSE 0
    BY <2>1, <2>2, SeenFacts DEF Copies
  <2>6. \A m \in Lines : Owed(f, m)' = IF m \in Doomed(f) THEN spillSeen[f][m] ELSE 0
    BY <2>1, SeenFacts DEF Owed, Doomed, Seen
  <2>7. \A m \in Lines : Owed(f, m) - Owed(f, m)' = Copies(m) - Copies(m)'
    BY <2>1, <2>2, <2>5, <2>6, SeenFacts DEF Owed
  <2>8. ASSUME NEW m \in Lines
        PROVE  gaps'[m] + Copies(m)' <= landed'[m] + Owed(f, m)' /\ Owed(f, m)' \in Nat
    <3>1. Owed(f, m) \in Nat
      BY OwedFacts
    <3>2. Owed(f, m)' \in Nat
      BY <2>6, OwedFacts
    <3>3. gaps'[m] = gaps[m] /\ landed'[m] = landed[m]
      BY <2>1
    <3> QED BY <1>n, <2>4, <2>7, <3>1, <3>2, <3>3
  <2>9. ASSUME ~InGap(f)', NEW m \in Lines
        PROVE  Owed(f, m)' = 0
    <3>1. ~SpillDoomed(f)
      BY <2>1, <2>9 DEF InGap
    <3> QED BY <2>6, <3>1, SeenFacts DEF SpillDoomed
  <2>10. ASSUME ~InGap(f)', NEW m \in Lines
         PROVE  gaps'[m] + Copies(m)' <= landed'[m]
    BY <2>8, <2>9, <2>10, <1>n
  <2>11. Settled'
    BY <2>10 DEF Settled
  <2> QED BY <2>3, <2>8, <2>11 DEF Exact
<1>6. ASSUME NEW f \in Forgets, RewriteSpill(f)
      PROVE  Settled' /\ \A g \in Forgets : Exact(g)'
  <2>1. /\ fg[f] = "write" /\ UNCHANGED <<window, records, gaps, landed, recSeen, spillSeen>>
        /\ \A l \in Lines : spill'[l] = IF l \notin Doomed(f) THEN reread[f][l]
             ELSE IF reread[f][l] > spillSeen[f][l] THEN reread[f][l] - spillSeen[f][l] ELSE 0
    BY <1>6 DEF RewriteSpill
  <2>2. \A g \in Forgets : ~InGap(g)'
    <3>1. \A g \in Forgets : InGap(g) => g = f
      BY <2>1, OneForget DEF Holding, InGap, WholeInv
    <3> QED BY <1>6, <3>1 DEF RewriteSpill, Goto, InGap, TypeOK
  <2>3. \A m \in Lines : gaps[m] + Copies(m) <= landed[m] + Owed(f, m)
    BY <1>s, <2>1 DEF Exact, InGap
  <2>4. \A m \in Lines : spillSeen[f][m] <= reread[f][m] /\ reread[f][m] <= spill[m]
    BY <2>1 DEF WholeInv, Whole, SeenStays
  <2>5. \A m \in Lines : spill'[m] + Owed(f, m) <= spill[m]
    BY <2>1, <2>4, SeenFacts DEF Owed
  <2>6. \A m \in Lines : Copies(m) - Copies(m)' = spill[m] - spill'[m] /\ spill'[m] \in Nat
    BY <2>1, <1>t DEF Copies, TypeOK, Counts
  <2>7. \A m \in Lines : gaps'[m] + Copies(m)' <= landed'[m]
    BY <1>n, <2>1, <2>3, <2>5, <2>6, OwedFacts
  <2> QED BY <2>2, <2>7 DEF Settled, Exact
<1>7. ASSUME UNCHANGED vars
      PROVE  Settled' /\ \A g \in Forgets : Exact(g)'
  BY <1>7, <1>s, StillStep DEF vars, files, fgVars, InGap
<1> QED
  BY <1>1, <1>2, <1>3, <1>4, <1>5, <1>6, <1>7 DEF Next, Over

\* Forgets that all end well count no copy twice, whatever lands beside them:
\* a gap counts what its own rewrites take out, and nothing it counted is left
\* for the next (gaps.go forgetRun, writeForgetGap).
THEOREM LossIsCountedOnce == Spec => []CountedOnce
<1>1. Init => OnceInv
  <2> SUFFICES ASSUME Init PROVE Settled /\ \A f \in Forgets : Exact(f)
    BY DEF OnceInv
  <2>1. \A l \in Lines : Copies(l) \in Nat /\ landed[l] = Copies(l) /\ gaps[l] = 0
    BY ForgetAssumption DEF Init, Copies, None
  <2> QED BY <2>1 DEF Init, Settled, Exact, InGap
<1>2. TypeOK /\ WholeInv /\ OnceInv => CountedOnce
  <2> SUFFICES ASSUME TypeOK, WholeInv, OnceInv, Smooth, NEW l \in Lines
               PROVE  gaps[l] <= landed[l]
    BY DEF CountedOnce, Smooth
  <2>1. gaps[l] \in Nat /\ landed[l] \in Nat /\ Copies(l) \in Nat
    BY DEF TypeOK, Counts, Copies
  <2>2. CASE \A f \in Forgets : ~InGap(f)
    BY <2>1, <2>2 DEF OnceInv, Settled
  <2>3. ASSUME NEW f \in Forgets, InGap(f)
        PROVE  gaps[l] <= landed[l]
    <3>1. gaps[l] + Copies(l) <= landed[l] + Owed(f, l)
      BY <2>3 DEF OnceInv, Exact
    <3> QED BY <2>1, <2>3, <3>1, OwedIsThere, OwedFacts
  <2> QED BY <2>2, <2>3
<1> QED BY <1>1, <1>2, WholeInit, WholeStep, OnceStep, TypeCorrect, PTL DEF Spec
=============================================================================
