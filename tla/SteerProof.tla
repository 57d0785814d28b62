----------------------------- MODULE SteerProof -----------------------------
(***************************************************************************)
(* Theorems about Steer, for any hooks, prompts and versions and any calls *)
(* their judges come up with.                                              *)
(***************************************************************************)
EXTENDS Steer, SequenceTheorems, FiniteSetTheorems, WellFoundedInduction, TLAPS

-----------------------------------------------------------------------------
(* Least members, orders and sequences.                                    *)

\* A set of natural numbers has a least member.
LEMMA LeastExists ==
  ASSUME NEW S \in SUBSET Nat, S # {}
  PROVE  \E x \in S : \A y \in S : x <= y
<1>1. \E x \in S : \A y \in S : ~ (<<y, x>> \in OpToRel(<, Nat))
  BY NatLessThanWellFounded, WFMin
<1>2. PICK x \in S : \A y \in S : <<y, x>> \notin OpToRel(<, Nat)
  BY <1>1
<1>3. \A y \in S : ~(y < x)
  BY <1>2, Zenon DEF OpToRel
<1> QED BY <1>3

\* First and Min find it.
LEMMA LeastFound ==
  ASSUME NEW S \in SUBSET Nat
  PROVE  /\ S # {} => First(S) \in S /\ \A y \in S : First(S) <= y
         /\ S # {} => Min(S) \in S /\ \A y \in S : Min(S) <= y
         /\ S = {} => First(S) = 0
BY LeastExists DEF First, Min

\* A set of natural numbers below a bound has a greatest member, and Max finds it.
LEMMA GreatestFound ==
  ASSUME NEW S \in SUBSET Nat, S # {}, NEW k \in Nat, \A i \in S : i <= k
  PROVE  Max(S) \in S /\ \A y \in S : y <= Max(S)
<1> DEFINE Above == {b \in Nat : \A i \in S : i <= b}
<1>1. PICK m \in Above : \A b \in Above : m <= b
  <2>1. Above \in SUBSET Nat /\ k \in Above
    OBVIOUS
  <2> QED BY <2>1, LeastExists
<1>2. m \in S
  <2> SUFFICES ASSUME m \notin S PROVE FALSE
    OBVIOUS
  <2>1. \A i \in S : i <= m - 1
    BY <1>1
  <2>2. m - 1 \in Nat
    <3>1. \E i \in S : i \in Nat /\ i <= m - 1
      BY <2>1
    <3> QED BY <1>1, <3>1
  <2>3. m - 1 \in Above
    BY <2>1, <2>2
  <2> QED BY <1>1, <2>2, <2>3
<1>3. \E x \in S : \A y \in S : x >= y
  BY <1>1, <1>2
<1> QED BY <1>3 DEF Max

\* A relation that orders S, and the members of S before one of them.
Orders(R, S) ==
  /\ \A i, j \in S : i # j => <<i, j>> \in R \/ <<j, i>> \in R
  /\ \A i, j, k \in S : <<i, j>> \in R /\ <<j, k>> \in R => <<i, k>> \in R
  /\ \A i \in S : <<i, i>> \notin R

Earlier(S, R, i) == {j \in S : <<j, i>> \in R}

\* No two members have the same number before them.
LEMMA PlacesDiffer ==
  ASSUME NEW S, IsFiniteSet(S), NEW R, Orders(R, S)
  PROVE  /\ \A i \in S : Cardinality(Earlier(S, R, i)) \in 0..(Cardinality(S) - 1)
         /\ \A i, j \in S : i # j => Cardinality(Earlier(S, R, i)) # Cardinality(Earlier(S, R, j))
<1>1. \A T \in SUBSET S : IsFiniteSet(T) /\ Cardinality(T) \in Nat
  BY FS_Subset, FS_CardinalityType
<1>2. ASSUME NEW T \in SUBSET S, NEW U \in SUBSET T, U # T
      PROVE  Cardinality(U) < Cardinality(T)
  <2>1. Cardinality(U) <= Cardinality(T) /\ Cardinality(U) # Cardinality(T)
    BY <1>1, <1>2, FS_Subset
  <2>2. Cardinality(U) \in Nat /\ Cardinality(T) \in Nat
    BY <1>1
  <2> QED BY <2>1, <2>2
<1>3. \A i \in S : Earlier(S, R, i) \in SUBSET S /\ Earlier(S, R, i) # S
  BY DEF Earlier, Orders
<1>4. ASSUME NEW i \in S, NEW j \in S, <<i, j>> \in R
      PROVE  Cardinality(Earlier(S, R, i)) < Cardinality(Earlier(S, R, j))
  <2>1. Earlier(S, R, i) \in SUBSET Earlier(S, R, j)
    BY <1>4 DEF Earlier, Orders
  <2>2. i \in Earlier(S, R, j) /\ i \notin Earlier(S, R, i)
    BY <1>4 DEF Earlier, Orders
  <2> QED BY <1>2, <1>3, <2>1, <2>2
<1>5. \A i \in S : Cardinality(Earlier(S, R, i)) \in Nat
  BY <1>1, <1>3
<1>6. \A i \in S : Cardinality(Earlier(S, R, i)) \in 0..(Cardinality(S) - 1)
  <2>1. \A i \in S : Cardinality(Earlier(S, R, i)) < Cardinality(S)
    BY <1>2, <1>3
  <2>2. Cardinality(S) \in Nat
    BY <1>1
  <2> QED BY <1>5, <2>1, <2>2
<1>7. ASSUME NEW i \in S, NEW j \in S, i # j
      PROVE  Cardinality(Earlier(S, R, i)) # Cardinality(Earlier(S, R, j))
  <2>1. <<i, j>> \in R \/ <<j, i>> \in R
    BY <1>7 DEF Orders
  <2>2. /\ Cardinality(Earlier(S, R, i)) \in Nat
        /\ Cardinality(Earlier(S, R, j)) \in Nat
    BY <1>5
  <2> QED BY <1>4, <2>1, <2>2
<1> QED BY <1>6, <1>7

\* An order puts some member at each place.
LEMMA InOrderMember ==
  ASSUME NEW S, IsFiniteSet(S), NEW R, Orders(R, S), NEW n \in 1..Cardinality(S)
  PROVE  InOrder(S, R)[n] \in S
<1> DEFINE places == 0..(Cardinality(S) - 1)
           free == places \ {n - 1}
           place == [i \in S |-> Cardinality(Earlier(S, R, i))]
<1>1. Cardinality(S) \in Nat
  BY FS_CardinalityType
<1>2. \E i \in S : Cardinality(Earlier(S, R, i)) = n - 1
  <2> SUFFICES ASSUME \A i \in S : Cardinality(Earlier(S, R, i)) # n - 1
               PROVE  FALSE
    OBVIOUS
  <2>1. place \in [S -> free]
    BY PlacesDiffer
  <2>2. IsFiniteSet(places) /\ Cardinality(places) = Cardinality(S)
    <3>1. Cardinality(S) - 1 \in Int
      BY <1>1
    <3>2. IsFiniteSet(places) /\ Cardinality(places) = IF 0 > Cardinality(S) - 1 THEN 0 ELSE (Cardinality(S) - 1) - 0 + 1
      BY <3>1, FS_Interval
    <3> QED BY <1>1, <3>2
  <2>3. IsFiniteSet(free) /\ Cardinality(free) = Cardinality(S) - 1
    <3>1. n - 1 \in places
      BY <1>1
    <3> HIDE DEF places
    <3>2. IsFiniteSet(free) /\ Cardinality(free) = IF n - 1 \in places THEN Cardinality(places) - 1 ELSE Cardinality(places)
      BY <2>2, FS_RemoveElement
    <3> QED BY <2>2, <3>1, <3>2
  <2>4. \E x, y \in S : x # y /\ place[x] = place[y]
    <3> HIDE DEF place, free
    <3>1. Cardinality(free) < Cardinality(S)
      BY <1>1, <2>3
    <3> QED BY <2>1, <2>3, <3>1, FS_PigeonHole
  <2> QED BY <2>4, PlacesDiffer
<1>3. InOrder(S, R)[n] = CHOOSE i \in S : Cardinality(Earlier(S, R, i)) = n - 1
  BY DEF InOrder, Earlier
<1> QED BY <1>2, <1>3

\* A finite sequence of whatever it holds.
IsSeq(s) == s \in Seq(Range(s))

\* A function on the first numbers is one.
LEMMA SeqOfFunction ==
  ASSUME NEW s, NEW n \in Nat, s = [i \in 1..n |-> s[i]]
  PROVE  IsSeq(s) /\ Len(s) = n /\ DOMAIN s = 1..n
<1>1. s \in [1..n -> Range(s)]
  BY DEF Range
<1> QED BY <1>1 DEF IsSeq

\* What a sequence is of.
LEMMA SeqFacts ==
  ASSUME NEW s, IsSeq(s)
  PROVE  DOMAIN s = 1..Len(s) /\ Len(s) \in Nat
BY DEF IsSeq

\* The first n of a sequence.
LEMMA CutFacts ==
  ASSUME NEW s, IsSeq(s), NEW n \in 0..Len(s)
  PROVE  /\ IsSeq(SubSeq(s, 1, n)) /\ Len(SubSeq(s, 1, n)) = n
         /\ \A i \in 1..n : SubSeq(s, 1, n)[i] = s[i]
<1> DEFINE t == SubSeq(s, 1, n)
<1>1. DOMAIN s = 1..Len(s) /\ Len(s) \in Nat /\ n \in Nat
  BY SeqFacts
<1>2. \A i \in 1..n : s[i] \in Range(s)
  BY <1>1 DEF Range
<1>3. t \in Seq(Range(s)) /\ Len(t) = n /\ \A i \in 1..n : t[i] = s[i]
  BY <1>1, <1>2, SubSeqProperties
<1> HIDE DEF t
<1>4. t = [i \in 1..n |-> t[i]]
  BY <1>3
<1>5. IsSeq(t)
  BY <1>1, <1>4, SeqOfFunction
<1> QED BY <1>3, <1>5 DEF t

\* Two sequences, one after the other.
LEMMA JoinFacts ==
  ASSUME NEW s, IsSeq(s), NEW t, IsSeq(t)
  PROVE  /\ IsSeq(s \o t) /\ Len(s \o t) = Len(s) + Len(t)
         /\ \A i \in 1..Len(s) : (s \o t)[i] = s[i]
         /\ \A i \in 1..Len(t) : (s \o t)[Len(s) + i] = t[i]
<1> DEFINE E == Range(s) \cup Range(t)
           u == s \o t
           n == Len(s) + Len(t)
<1>1. s \in Seq(E) /\ t \in Seq(E) /\ Len(s) \in Nat /\ Len(t) \in Nat
  BY SeqMonotonic, SeqFacts DEF IsSeq
<1>2. u \in Seq(E) /\ Len(u) = n /\ \A i \in 1..n : u[i] = IF i <= Len(s) THEN s[i] ELSE t[i - Len(s)]
  <2> HIDE DEF E
  <2> QED BY <1>1, ConcatProperties
<1> HIDE DEF u
<1>3. IsSeq(u)
  <2>1. n \in Nat
    BY <1>1
  <2> HIDE DEF n, E
  <2>2. u = [i \in 1..n |-> u[i]]
    BY <1>2
  <2> QED BY <2>1, <2>2, SeqOfFunction
<1>4. Len(u) = Len(s) + Len(t)
  BY <1>2
<1>5. \A i \in 1..Len(s) : u[i] = s[i]
  BY <1>1, <1>2
<1>6. \A i \in 1..Len(t) : u[Len(s) + i] = t[i]
  <2> TAKE i \in 1..Len(t)
  <2>1. Len(s) + i \in 1..n /\ ~(Len(s) + i <= Len(s)) /\ Len(s) + i - Len(s) = i
    BY <1>1
  <2> QED BY <1>2, <2>1
<1> QED BY <1>3, <1>4, <1>5, <1>6 DEF u

-----------------------------------------------------------------------------
(* What a call's lines say.                                                *)

\* The ranked findings are findings of the call.
LEMMA RankedFacts ==
  ASSUME NEW call, IsCall(call)
  PROVE  LET fs == Ranked(call.findings) IN
         /\ IsSeq(fs)
         /\ \A i \in DOMAIN fs : IsFinding(fs[i])
<1> DEFINE all == call.findings
           above == {i \in DOMAIN all : all[i].level # "off"}
           R == {p \in above \X above : Before(all, p[1], p[2])}
           order == InOrder(above, R)
           fs == [n \in DOMAIN order |-> all[order[n]]]
<1>1. DOMAIN all = 1..Len(all) /\ Len(all) \in Nat /\ \A i \in DOMAIN all : IsFinding(all[i])
  BY DEF IsCall, Range
<1>2. IsFiniteSet(above) /\ Cardinality(above) \in Nat
  <2>1. IsFiniteSet(1..Len(all)) /\ above \in SUBSET (1..Len(all))
    BY <1>1, FS_Interval
  <2> QED BY <2>1, FS_Subset, FS_CardinalityType
<1>3. Orders(R, above)
  <2>1. \A i, j \in above : <<i, j>> \in R <=> Before(all, i, j)
    OBVIOUS
  <2>2. \A i \in above : i \in Int /\ IsFinding(all[i])
    BY <1>1
  <2> HIDE DEF above, R, all
  <2>3. \A i, j \in above : i # j => Before(all, i, j) \/ Before(all, j, i)
    BY <2>2 DEF Before, IsFinding
  <2>4. \A i, j, k \in above : Before(all, i, j) /\ Before(all, j, k) => Before(all, i, k)
    BY <2>2 DEF Before, IsFinding
  <2>5. \A i \in above : ~Before(all, i, i)
    BY <2>2 DEF Before, IsFinding
  <2> QED BY <2>1, <2>3, <2>4, <2>5 DEF Orders
<1>4. DOMAIN order = 1..Cardinality(above)
  BY DEF InOrder
<1>5. \A n \in 1..Cardinality(above) : order[n] \in above
  <2> HIDE DEF above, R, order
  <2> QED BY <1>2, <1>3, InOrderMember DEF order
<1>6. Ranked(call.findings) = fs
  BY DEF Ranked
<1>7. \A n \in DOMAIN fs : IsFinding(fs[n])
  <2>1. \A n \in DOMAIN fs : order[n] \in DOMAIN all
    BY <1>4, <1>5
  <2> HIDE DEF order, all
  <2> QED BY <1>1, <2>1 DEF fs
<1>8. IsSeq(fs)
  <2>1. fs = [n \in 1..Cardinality(above) |-> fs[n]]
    BY <1>4
  <2> HIDE DEF fs, above
  <2> QED BY <1>2, <2>1, SeqOfFunction
<1> QED BY <1>6, <1>7, <1>8

\* A line of a decided call: what it says the model was told is what it printed
\* as a note.
IsLine(l) ==
  /\ l.level \in {"nudge", "flag"}
  /\ l.told \in BOOLEAN /\ l.held \in BOOLEAN
  /\ l.told <=> l.level = "nudge" /\ l.state = "delivered" /\ ~l.held

\* A call's lines are as many as its findings above off, and each is a line.
LEMMA LinesFacts ==
  ASSUME NEW call, IsCall(call), NEW have
  PROVE  LET lines == Lines(call, have) IN
         /\ IsSeq(lines)
         /\ \A i \in DOMAIN lines : IsLine(lines[i])
<1> DEFINE fs == Ranked(call.findings)
           lines == Lines(call, have)
<1>1. IsSeq(fs)
  BY RankedFacts
<1>2. DOMAIN lines = DOMAIN fs
  BY DEF Lines
<1>3. \A i \in DOMAIN lines : IsLine(lines[i])
  BY <1>2 DEF Lines, IsLine, LevelOf
<1>4. lines = [i \in DOMAIN fs |-> lines[i]]
  BY DEF Lines
<1>5. IsSeq(lines)
  <2>1. DOMAIN fs = 1..Len(fs) /\ Len(fs) \in Nat
    BY <1>1, SeqFacts
  <2>2. lines = [i \in 1..Len(fs) |-> lines[i]]
    BY <1>4, <2>1
  <2> HIDE DEF fs, lines
  <2> QED BY <2>1, <2>2, SeqOfFunction
<1> QED BY <1>3, <1>5

\* The line that prints, and the one a notice stands in for.
LEMMA PrintingFacts ==
  ASSUME NEW lines, IsSeq(lines)
  PROVE  /\ Printing(lines) # 0 =>
              /\ Printing(lines) \in DOMAIN lines
              /\ lines[Printing(lines)].state = "delivered" /\ ~lines[Printing(lines)].held
         /\ NoticeLine(lines) # 0 => NoticeLine(lines) \in DOMAIN lines /\ Printing(lines) = 0
<1> DEFINE shown1 == {i \in DOMAIN lines : lines[i].state = "delivered" /\ ~lines[i].held}
           asks == {i \in DOMAIN lines : lines[i].by = "unverified_channel" \/ lines[i].held}
<1>1. shown1 \in SUBSET Nat /\ asks \in SUBSET Nat
  BY SeqFacts
<1>2. First(shown1) # 0 => First(shown1) \in shown1
  BY <1>1, LeastFound
<1>3. First(asks) # 0 => First(asks) \in asks
  BY <1>1, LeastFound
<1> QED BY <1>2, <1>3 DEF Printing, NoticeLine

-----------------------------------------------------------------------------
(* The shape of the state.                                                 *)

\* A line of the log: a note's or a Stop's verdict on one.
IsNote(e) ==
  /\ e.type = "note" /\ e.hook \in Hooks /\ Kind[e.hook] # "stop" /\ e.version \in Versions
  /\ IsLine(e)
IsVerdict(e) == e.type = "evidence" /\ e.version \in Versions /\ e.streak \in Nat

\* What a hook has decided to write.
InHand(h) ==
  /\ IsSeq(batch[h])
  /\ \A n \in DOMAIN batch[h] :
       IF Kind[h] = "stop" THEN IsVerdict(batch[h][n])
       ELSE IsNote(batch[h][n]) /\ batch[h][n].hook = h /\ batch[h][n].n = n

\* The log and what the hooks hold are made of lines, and the lock is with the
\* hook that is at it.
Whole ==
  /\ IsSeq(log) /\ \A i \in DOMAIN log : IsNote(log[i]) \/ IsVerdict(log[i])
  /\ DOMAIN batch = Hooks /\ DOMAIN out = Hooks
  /\ \A h \in Hooks : InHand(h)
  /\ \A h \in Hooks : /\ pc[h] = "locked" <=> lock = h
                      /\ pc[h] \in {"take", "route"} => Kind[h] # "stop"

\* The log with the first n lines of a hook's batch at its end, and the log cut
\* after its first n.
Grown(h, n) ==
  /\ IsSeq(log') /\ Len(log') = Len(log) + n
  /\ \A i \in 1..Len(log) : log'[i] = log[i]
  /\ \A i \in 1..n : log'[Len(log) + i] = batch[h][i]

CutAt(n) ==
  /\ IsSeq(log') /\ Len(log') = n
  /\ \A i \in 1..n : log'[i] = log[i]

\* A write of a batch puts a first part of it at the log's end.
LEMMA BatchLands ==
  ASSUME Whole, NEW h \in Hooks, NEW n \in 0..Len(batch[h]),
         log' = log \o SubSeq(batch[h], 1, n)
  PROVE  Grown(h, n)
<1>1. IsSeq(log) /\ IsSeq(batch[h])
  BY DEF Whole, InHand
<1> DEFINE t == SubSeq(batch[h], 1, n)
<1>2. IsSeq(t)
  BY <1>1, CutFacts
<1>3. log' = log \o t /\ Len(t) = n /\ \A i \in 1..n : t[i] = batch[h][i]
  BY <1>1, CutFacts
<1> HIDE DEF t
<1>4. /\ IsSeq(log \o t) /\ Len(log \o t) = Len(log) + Len(t)
      /\ \A i \in 1..Len(log) : (log \o t)[i] = log[i]
      /\ \A i \in 1..Len(t) : (log \o t)[Len(log) + i] = t[i]
  BY <1>1, <1>2, JoinFacts
<1> QED BY <1>3, <1>4 DEF Grown

\* A whole batch is its own first part.
LEMMA WholeBatchLands ==
  ASSUME Whole, NEW h \in Hooks, AppendLines(h)
  PROVE  Grown(h, Len(batch[h]))
<1>1. IsSeq(batch[h])
  BY DEF Whole, InHand
<1>2. Len(batch[h]) \in Nat
  BY <1>1, SeqFacts
<1> DEFINE t == batch[h]
<1>3. IsSeq(log) /\ log' = log \o t
  BY DEF AppendLines, Whole
<1> HIDE DEF t
<1>4. /\ IsSeq(log \o t) /\ Len(log \o t) = Len(log) + Len(t)
      /\ \A i \in 1..Len(log) : (log \o t)[i] = log[i]
      /\ \A i \in 1..Len(t) : (log \o t)[Len(log) + i] = t[i]
  BY <1>1, <1>3, JoinFacts DEF t
<1> QED BY <1>3, <1>4 DEF Grown, t

\* Power loss leaves the log cut above what is synced.
LEMMA PowerLossCuts ==
  ASSUME TypeOK, Whole, PowerLoss
  PROVE  \E n \in synced..Len(log) : CutAt(n) /\ synced' = n
<1>1. PICK n \in synced..Len(log) : log' = SubSeq(log, 1, n) /\ synced' = n
  BY DEF PowerLoss
<1>2. n \in 0..Len(log)
  <2>1. synced \in 0..Len(log)
    BY DEF TypeOK
  <2>2. Len(log) \in Nat
    BY SeqFacts DEF Whole
  <2> QED BY <1>1, <2>1, <2>2
<1> QED BY <1>1, <1>2, CutFacts DEF Whole, CutAt

\* Nothing touches the log but a write of the hook that has the lock, and power
\* loss, which leaves what is synced.
LEMMA LogStep ==
  ASSUME TypeOK, Whole, [Next]_vars
  PROVE  \/ log' = log /\ synced' \in {synced, Len(log)}
         \/ \E h \in Hooks, n \in Nat :
              /\ pc[h] = "locked" /\ pc'[h] # "locked" /\ n \in 0..Len(batch[h]) /\ Grown(h, n)
              /\ batch' = batch /\ synced' = synced
         \/ PowerLoss /\ \E n \in synced..Len(log) : CutAt(n) /\ synced' = n
<1>1. ASSUME NEW h \in Hooks, AppendLines(h)
      PROVE  \E n \in Nat : /\ pc[h] = "locked" /\ pc'[h] # "locked" /\ n \in 0..Len(batch[h])
                            /\ Grown(h, n) /\ batch' = batch /\ synced' = synced
  <2>1. Len(batch[h]) \in Nat
    BY SeqFacts DEF Whole, InHand
  <2>2. pc[h] = "locked" /\ pc'[h] # "locked" /\ batch' = batch /\ synced' = synced
    BY <1>1 DEF AppendLines, Goto, TypeOK
  <2> QED BY <1>1, <2>1, <2>2, WholeBatchLands
<1>2. ASSUME NEW h \in Hooks, AppendFails(h)
      PROVE  \E n \in Nat : /\ pc[h] = "locked" /\ pc'[h] # "locked" /\ n \in 0..Len(batch[h])
                            /\ Grown(h, n) /\ batch' = batch /\ synced' = synced
  <2>1. Len(batch[h]) \in Nat
    BY SeqFacts DEF Whole, InHand
  <2>2. pc[h] = "locked" /\ pc'[h] # "locked" /\ batch' = batch /\ synced' = synced
    BY <1>2 DEF AppendFails, Goto, TypeOK
  <2>3. PICK n \in 0..Len(batch[h]) : log' = log \o SubSeq(batch[h], 1, n)
    BY <1>2 DEF AppendFails
  <2>4. Grown(h, n)
    BY <2>3, BatchLands
  <2> QED BY <2>1, <2>2, <2>4
<1>3. ASSUME NEW h \in Hooks, Kill(h)
      PROVE  \/ log' = log /\ synced' = synced
             \/ \E n \in Nat : /\ pc[h] = "locked" /\ pc'[h] # "locked" /\ n \in 0..Len(batch[h])
                               /\ Grown(h, n) /\ batch' = batch /\ synced' = synced
  <2>1. Len(batch[h]) \in Nat /\ IsSeq(log)
    BY SeqFacts DEF Whole, InHand
  <2>2. pc'[h] # "locked" /\ batch' = batch /\ synced' = synced
    BY <1>3 DEF Kill, Goto, TypeOK
  <2>3. PICK n \in 0..Len(batch[h]) :
          (n > 0 => pc[h] = "locked") /\ log' = log \o SubSeq(batch[h], 1, n)
    BY <1>3 DEF Kill
  <2>4. Grown(h, n)
    BY <2>3, BatchLands
  <2>5. CASE n = 0
    <3>1. log' \in Seq(Range(log')) /\ log \in Seq(Range(log)) /\ Len(log') = Len(log)
          /\ \A i \in 1..Len(log) : log'[i] = log[i]
      BY <2>1, <2>4, <2>5 DEF Grown, IsSeq
    <3> QED BY <2>2, <3>1
  <2>6. CASE n # 0
    BY <2>1, <2>2, <2>3, <2>4, <2>6
  <2> QED BY <2>5, <2>6
<1>4. ASSUME PowerLoss
      PROVE  \E n \in synced..Len(log) : CutAt(n) /\ synced' = n
  BY <1>4, PowerLossCuts
<1>5. ASSUME \/ NextPrompt \/ Upgrade
             \/ \E h \in Hooks :
                  \/ ArmStale(h) \/ StaleArmed(h) \/ TakeStaleArm(h) \/ SessionStart(h) \/ Route(h)
                  \/ RouteNothing(h) \/ ReturnNotice(h) \/ Flush(h) \/ FlushFails(h) \/ PrintOut(h)
                  \/ CheckEvidence(h) \/ LockForEvidence(h) \/ TakeChannelEvidence(h)
             \/ UNCHANGED vars
      PROVE  log' = log /\ synced' \in {synced, Len(log)}
  BY <1>5 DEF NextPrompt, Upgrade, ArmStale, StaleArmed, TakeStaleArm, SessionStart, Route,
              RouteNothing, ReturnNotice, Flush, FlushFails, PrintOut, CheckEvidence,
              LockForEvidence, TakeChannelEvidence, vars
<1> QED BY <1>1, <1>2, <1>3, <1>4, <1>5 DEF Next, Step

\* A line that a hook decides, with what the hook adds to it, is one of its
\* batch.
LEMMA NoteFacts ==
  ASSUME TypeOK, NEW h \in Hooks, Kind[h] # "stop", NEW line, IsLine(line), NEW i, NEW notice
  PROVE  LET l == NoteLine(h, i, line, notice) IN
         /\ IsNote(l) /\ l.hook = h /\ l.n = i /\ l.notice = notice /\ l.prompt = Prompt[h]
         /\ l.level = line.level /\ l.state = line.state /\ l.held = line.held
         /\ NoticeOf(l) = NoticeOf(line)
BY DEF NoteLine, IsNote, IsLine, NoticeOf, TypeOK

\* A line says what was printed of it.
Says(l, what) ==
  IF what = "notice" THEN l.notice
  ELSE l.state = "delivered" /\ l.level = IF what = "note" THEN "nudge" ELSE "flag"

\* What a hook is to print, or has printed, is a line it holds; from its append
\* on the line is in the log, and from its flush on below what is synced.
Recorded(h) ==
  out[h] # Nothing =>
    /\ Kind[h] # "stop" /\ pc[h] \in {"locked", "written", "flushed", "done"}
    /\ out[h].line \in DOMAIN batch[h] /\ Says(batch[h][out[h].line], out[h].what)
    /\ pc[h] # "locked" =>
         \E i \in DOMAIN log : log[i] = batch[h][out[h].line] /\ (pc[h] # "written" => i <= synced)

PrintInv ==
  \A h \in Hooks : Recorded(h) /\ (h \in shown => pc[h] = "done" /\ out[h] # Nothing)

\* What a hook that routes comes out with: a batch of its own, at most one line
\* of it to print, and a notice only if it took its marker.
Comes(h) ==
  /\ \/ out'[h] = Nothing
     \/ /\ out'[h].what \in {"note", "flag", "notice"} /\ out'[h].line \in DOMAIN batch'[h]
        /\ Says(batch'[h][out'[h].line], out'[h].what)
  /\ \/ owes'[h] = "" /\ notices' = notices /\ out'[h].what # "notice"
     \/ /\ owes'[h] \in Notices \ notices /\ notices' = notices \cup {owes'[h]}
        /\ out'[h].what = "notice" /\ NoticeOf(batch'[h][out'[h].line]) = owes'[h]

\* What Route leaves a hook with.
LEMMA RouteFacts ==
  ASSUME TypeOK, Whole, NEW h \in Hooks, Route(h)
  PROVE  InHand(h)' /\ Comes(h)
<1>1. Kind[h] # "stop"
  BY DEF Route, Whole
<1>2. PICK call \in Calls[h] :
       LET lines == Lines(Routed(h, call), Count(log, Prompt[h]))
           prints == Printing(lines)
           at == NoticeLine(lines)
           name == IF at = 0 THEN "" ELSE NoticeOf(lines[at])
           takes == at # 0 /\ name \notin notices
       IN /\ batch' = [batch EXCEPT ![h] =
                        [i \in DOMAIN lines |-> NoteLine(h, i, lines[i], takes /\ i = at)]]
          /\ out' = [out EXCEPT ![h] =
                      IF prints # 0
                      THEN [what |-> IF lines[prints].told THEN "note" ELSE "flag", line |-> prints]
                      ELSE IF takes THEN [what |-> "notice", line |-> at] ELSE Nothing]
          /\ notices' = IF takes THEN notices \cup {name} ELSE notices
          /\ owes' = [owes EXCEPT ![h] = IF takes THEN name ELSE ""]
  BY DEF Route
<1> DEFINE lines == Lines(Routed(h, call), Count(log, Prompt[h]))
           prints == Printing(lines)
           at == NoticeLine(lines)
           name == IF at = 0 THEN "" ELSE NoticeOf(lines[at])
           takes == at # 0 /\ name \notin notices
           b == [i \in DOMAIN lines |-> NoteLine(h, i, lines[i], takes /\ i = at)]
<1>3. IsCall(Routed(h, call))
  BY <1>1, SteerAssumption DEF IsCall, Routed
<1>4. IsSeq(lines) /\ \A i \in DOMAIN lines : IsLine(lines[i])
  BY <1>3, LinesFacts
<1>5. /\ batch' = [batch EXCEPT ![h] = b]
      /\ out' = [out EXCEPT ![h] =
                  IF prints # 0
                  THEN [what |-> IF lines[prints].told THEN "note" ELSE "flag", line |-> prints]
                  ELSE IF takes THEN [what |-> "notice", line |-> at] ELSE Nothing]
      /\ notices' = IF takes THEN notices \cup {name} ELSE notices
      /\ owes' = [owes EXCEPT ![h] = IF takes THEN name ELSE ""]
  BY <1>2
<1> HIDE DEF lines
<1>6. /\ prints # 0 => prints \in DOMAIN lines /\ lines[prints].state = "delivered" /\ ~lines[prints].held
      /\ at # 0 => at \in DOMAIN lines /\ prints = 0
  BY <1>4, PrintingFacts
<1> HIDE DEF prints, at
<1>7. /\ DOMAIN b = DOMAIN lines
      /\ \A i \in DOMAIN lines :
           /\ IsNote(b[i]) /\ b[i].hook = h /\ b[i].n = i /\ b[i].notice = (takes /\ i = at)
           /\ b[i].level = lines[i].level /\ b[i].state = lines[i].state /\ b[i].held = lines[i].held
           /\ NoticeOf(b[i]) = NoticeOf(lines[i])
  <2> HIDE DEF takes
  <2>1. \A i \in DOMAIN lines : b[i] = NoteLine(h, i, lines[i], takes /\ i = at)
    OBVIOUS
  <2> HIDE DEF b
  <2>2. \A i \in DOMAIN lines :
           /\ IsNote(b[i]) /\ b[i].hook = h /\ b[i].n = i /\ b[i].notice = (takes /\ i = at)
           /\ b[i].level = lines[i].level /\ b[i].state = lines[i].state /\ b[i].held = lines[i].held
           /\ NoticeOf(b[i]) = NoticeOf(lines[i])
    BY <1>1, <1>4, <2>1, NoteFacts
  <2> QED BY <2>2 DEF b
<1>8. IsSeq(b)
  <2>1. DOMAIN lines = 1..Len(lines) /\ Len(lines) \in Nat
    BY <1>4, SeqFacts
  <2>2. b = [i \in 1..Len(lines) |-> b[i]]
    BY <2>1
  <2> HIDE DEF b
  <2> QED BY <2>1, <2>2, SeqOfFunction
<1> HIDE DEF b
<1>9. batch'[h] = b
  BY <1>5 DEF Whole
<1>10. InHand(h)'
  BY <1>1, <1>7, <1>8, <1>9 DEF InHand
<1>11. CASE prints # 0
  <2>1. out'[h] = [what |-> IF lines[prints].told THEN "note" ELSE "flag", line |-> prints]
    BY <1>5, <1>11 DEF Whole
  <2>2. owes'[h] = "" /\ notices' = notices
    BY <1>5, <1>6, <1>11 DEF TypeOK
  <2>3. prints \in DOMAIN b /\ b[prints].state = "delivered"
        /\ b[prints].level = IF lines[prints].told THEN "nudge" ELSE "flag"
    BY <1>4, <1>6, <1>7, <1>11 DEF IsLine
  <2>4. out'[h].what = (IF lines[prints].told THEN "note" ELSE "flag") /\ out'[h].line = prints
    BY <2>1
  <2>5. out'[h].what \in {"note", "flag"} /\ Says(b[prints], out'[h].what)
    BY <2>3, <2>4 DEF Says
  <2> QED BY <1>9, <1>10, <2>2, <2>3, <2>4, <2>5 DEF Comes
<1>12. CASE prints = 0 /\ takes
  <2>1. out'[h] = [what |-> "notice", line |-> at]
    BY <1>5, <1>12 DEF Whole
  <2>2. owes'[h] = NoticeOf(lines[at]) /\ notices' = notices \cup {NoticeOf(lines[at])}
    BY <1>5, <1>6, <1>12 DEF TypeOK
  <2>3. at \in DOMAIN b /\ Says(b[at], "notice") /\ NoticeOf(b[at]) = NoticeOf(lines[at])
    BY <1>6, <1>7, <1>12 DEF Says
  <2>4. NoticeOf(lines[at]) \in Notices \ notices
    BY <1>12 DEF NoticeOf, Notices
  <2> HIDE DEF takes
  <2> QED BY <1>9, <1>10, <2>1, <2>2, <2>3, <2>4 DEF Comes
<1>13. CASE prints = 0 /\ ~takes
  <2>1. out'[h] = Nothing /\ owes'[h] = "" /\ notices' = notices
    BY <1>5, <1>13 DEF TypeOK, Whole
  <2>2. Nothing.what # "notice"
    BY DEF Nothing
  <2> QED BY <1>10, <2>1, <2>2 DEF Comes
<1> QED BY <1>11, <1>12, <1>13

\* A verdict of a Stop: a pending note it looked for, and a streak only when it
\* did not find it.
Judges(e) ==
  \E k \in PendingNotes :
    /\ e.hook = log[k].hook /\ e.n = log[k].n /\ e.event = EventOf(log[k].hook)
    /\ e.streak # 0 => ~Reached(log[k]) /\ e.streak = PriorStreak(e.event) + 1

\* A streak is a number.
LEMMA StreakType ==
  ASSUME Whole, NEW event
  PROVE  PriorStreak(event) \in Nat
<1> DEFINE read == {i \in DOMAIN log : log[i].type = "evidence" /\ log[i].event = event
                                        /\ log[i].evidence # "unreadable"}
<1>1. DOMAIN log = 1..Len(log) /\ Len(log) \in Nat
  BY SeqFacts DEF Whole
<1>2. read \in SUBSET Nat /\ \A i \in read : i <= Len(log)
  BY <1>1
<1>3. read # {} => Max(read) \in read
  <2> HIDE DEF read
  <2> QED BY <1>1, <1>2, GreatestFound
<1>4. \A i \in read : log[i].streak \in Nat
  BY DEF Whole, IsNote, IsVerdict
<1>5. PriorStreak(event) = IF read = {} THEN 0 ELSE log[Max(read)].streak
  BY DEF PriorStreak
<1> HIDE DEF read
<1> QED BY <1>3, <1>4, <1>5

\* What a Stop's look at the transcript leaves it with.
LEMMA EvidenceFacts ==
  ASSUME TypeOK, Whole, NEW h \in Hooks, CheckEvidence(h)
  PROVE  InHand(h)' /\ \A n \in DOMAIN batch'[h] : Judges(batch'[h][n])
<1>1. PICK settled \in SUBSET PendingNotes, complete \in BOOLEAN :
       LET notes == InOrder(settled, {p \in settled \X settled : p[1] < p[2]})
           reading(i) == IF Reached(log[i]) /\ complete THEN "seen"
                         ELSE IF complete THEN "absent" ELSE "unreadable"
           seen(event) == \E i \in settled : EventOf(log[i].hook) = event /\ reading(i) = "seen"
           streak(i) == LET event == EventOf(log[i].hook) IN
                        IF reading(i) # "absent" \/ seen(event) THEN 0
                        ELSE PriorStreak(event) + 1
       IN batch' = [batch EXCEPT ![h] =
                         [n \in DOMAIN notes |->
                            Verdict(log[notes[n]], reading(notes[n]), streak(notes[n]))]]
  BY DEF CheckEvidence
<1> DEFINE R == {p \in settled \X settled : p[1] < p[2]}
           notes == InOrder(settled, R)
           reading(i) == IF Reached(log[i]) /\ complete THEN "seen"
                         ELSE IF complete THEN "absent" ELSE "unreadable"
           seen(event) == \E i \in settled : EventOf(log[i].hook) = event /\ reading(i) = "seen"
           streak(i) == LET event == EventOf(log[i].hook) IN
                        IF reading(i) # "absent" \/ seen(event) THEN 0
                        ELSE PriorStreak(event) + 1
           b == [n \in DOMAIN notes |-> Verdict(log[notes[n]], reading(notes[n]), streak(notes[n]))]
<1>2. batch'[h] = b
  <2>1. batch' = [batch EXCEPT ![h] = b]
    BY <1>1
  <2> HIDE DEF b
  <2> QED BY <2>1 DEF Whole
<1>3. DOMAIN log = 1..Len(log) /\ Len(log) \in Nat
  BY SeqFacts DEF Whole
<1>4. settled \in SUBSET (1..Len(log)) /\ \A i \in settled : log[i].type = "note"
  BY <1>3 DEF PendingNotes
<1>5. IsFiniteSet(settled) /\ Cardinality(settled) \in Nat
  <2>1. IsFiniteSet(1..Len(log))
    BY <1>3, FS_Interval
  <2> QED BY <1>4, <2>1, FS_Subset, FS_CardinalityType
<1>6. Orders(R, settled)
  BY <1>4 DEF Orders
<1>7. DOMAIN notes = 1..Cardinality(settled) /\ \A n \in 1..Cardinality(settled) : notes[n] \in settled
  <2>1. DOMAIN notes = 1..Cardinality(settled)
    BY DEF InOrder
  <2> HIDE DEF R
  <2>2. \A n \in 1..Cardinality(settled) : notes[n] \in settled
    BY <1>5, <1>6, InOrderMember
  <2> QED BY <2>1, <2>2
<1> HIDE DEF notes
<1>8. \A n \in DOMAIN notes : b[n] = Verdict(log[notes[n]], reading(notes[n]), streak(notes[n]))
  OBVIOUS
<1>9. DOMAIN b = 1..Cardinality(settled)
  BY <1>7
<1>10. ASSUME NEW k \in settled
       PROVE  /\ streak(k) \in Nat
              /\ streak(k) # 0 => ~Reached(log[k]) /\ streak(k) = PriorStreak(EventOf(log[k].hook)) + 1
  BY StreakType
<1> HIDE DEF b, reading, streak
<1>11. ASSUME NEW n \in DOMAIN b
       PROVE  IsVerdict(b[n]) /\ Judges(b[n])
  <2>1. PICK k \in settled : b[n] = Verdict(log[k], reading(k), streak(k))
    BY <1>7, <1>8, <1>9
  <2>2. k \in DOMAIN log /\ log[k].version \in Versions
    BY <1>3, <1>4 DEF Whole, IsNote, IsVerdict
  <2>3. /\ b[n].type = "evidence" /\ b[n].hook = log[k].hook /\ b[n].n = log[k].n
        /\ b[n].event = EventOf(log[k].hook) /\ b[n].version = log[k].version /\ b[n].streak = streak(k)
    BY <2>1 DEF Verdict
  <2>4. IsVerdict(b[n])
    BY <1>10, <2>2, <2>3 DEF IsVerdict
  <2>5. Judges(b[n])
    BY <1>10, <2>3 DEF Judges
  <2> QED BY <2>4, <2>5
<1>12. IsSeq(b)
  <2>1. b = [n \in 1..Cardinality(settled) |-> b[n]]
    BY <1>9 DEF b
  <2> QED BY <1>5, <2>1, SeqOfFunction
<1>13. Kind[h] = "stop"
  BY DEF CheckEvidence
<1> QED BY <1>2, <1>11, <1>12, <1>13 DEF InHand

-----------------------------------------------------------------------------
(* The type invariant.                                                     *)

\* What TypeOK says of everything but the log.
Typed ==
  /\ prompt \in Prompts /\ version \in Versions /\ carries \subseteq Versions
  /\ draw \in Draws
  /\ lock \in Hooks \cup {Nobody}
  /\ armed \in BOOLEAN
  /\ notices \subseteq Notices
  /\ shadow \in [Events -> Versions \cup {0}]
  /\ pc \in [Hooks -> {"idle", "take", "route", "judged", "locked", "written", "flushed",
                       "failed", "done"}]
  /\ \A h \in Hooks : out[h].what \in {"note", "flag", "notice", "nothing"}
  /\ owes \in [Hooks -> Notices \cup {""}]
  /\ faults \in 0..MaxFaults
  /\ arms \in Nat /\ took \subseteq Hooks
  /\ shown \subseteq Hooks /\ lost \in BOOLEAN

\* What Whole says of everything but the log and the batches.
Held ==
  /\ DOMAIN batch = Hooks /\ DOMAIN out = Hooks
  /\ \A h \in Hooks : /\ pc[h] = "locked" <=> lock = h
                      /\ pc[h] \in {"take", "route"} => Kind[h] # "stop"

\* The log stays made of lines, however much of it a sync covers.
LEMMA LogStaysWhole ==
  ASSUME TypeOK, Whole, [Next]_vars
  PROVE  /\ IsSeq(log') /\ \A i \in DOMAIN log' : IsNote(log'[i]) \/ IsVerdict(log'[i])
         /\ \A i \in DOMAIN log' : log'[i].type \in {"note", "evidence"}
         /\ synced' \in 0..Len(log')
<1>1. /\ IsSeq(log) /\ DOMAIN log = 1..Len(log) /\ Len(log) \in Nat
      /\ \A i \in 1..Len(log) : IsNote(log[i]) \/ IsVerdict(log[i])
  BY SeqFacts DEF Whole
<1>2. synced \in 0..Len(log)
  BY DEF TypeOK
<1>3. \A l : IsNote(l) \/ IsVerdict(l) => l.type \in {"note", "evidence"}
  BY DEF IsNote, IsVerdict
<1>4. IsSeq(log') => DOMAIN log' = 1..Len(log') /\ Len(log') \in Nat
  BY SeqFacts
<1>5. CASE log' = log /\ synced' \in {synced, Len(log)}
  BY <1>1, <1>2, <1>3, <1>5
<1>6. ASSUME NEW h \in Hooks, NEW n \in Nat, n \in 0..Len(batch[h]), Grown(h, n), synced' = synced
      PROVE  /\ IsSeq(log') /\ synced' \in 0..Len(log')
             /\ \A i \in DOMAIN log' : IsNote(log'[i]) \/ IsVerdict(log'[i])
  <2>1. /\ DOMAIN batch[h] = 1..Len(batch[h]) /\ Len(batch[h]) \in Nat
        /\ \A i \in 1..Len(batch[h]) : IsNote(batch[h][i]) \/ IsVerdict(batch[h][i])
    BY SeqFacts DEF Whole, InHand
  <2>2. ASSUME NEW i \in 1..(Len(log) + n) PROVE IsNote(log'[i]) \/ IsVerdict(log'[i])
    <3>1. CASE i \in 1..Len(log)
      BY <1>1, <1>6, <3>1 DEF Grown
    <3>2. CASE i \notin 1..Len(log)
      <4>1. PICK j \in 1..n : i = Len(log) + j
        <5>1. i - Len(log) \in 1..n
          BY <1>1, <3>2
        <5> QED BY <1>1, <5>1
      <4>2. log'[i] = batch[h][j] /\ j \in 1..Len(batch[h])
        BY <1>6, <2>1, <4>1 DEF Grown
      <4> QED BY <2>1, <4>2
    <3> QED BY <3>1, <3>2
  <2>3. synced' \in 0..Len(log')
    BY <1>1, <1>2, <1>6 DEF Grown
  <2> QED BY <1>4, <1>6, <2>2, <2>3 DEF Grown
<1>7. ASSUME NEW n \in synced..Len(log), CutAt(n), synced' = n
      PROVE  /\ IsSeq(log') /\ synced' \in 0..Len(log')
             /\ \A i \in DOMAIN log' : IsNote(log'[i]) \/ IsVerdict(log'[i])
  <2>1. n \in 0..Len(log)
    BY <1>1, <1>2
  <2>2. \A i \in 1..n : IsNote(log'[i]) \/ IsVerdict(log'[i])
    BY <1>1, <1>7, <2>1 DEF CutAt
  <2> QED BY <1>4, <1>7, <2>1, <2>2 DEF CutAt
<1>8. /\ IsSeq(log') /\ synced' \in 0..Len(log')
      /\ \A i \in DOMAIN log' : IsNote(log'[i]) \/ IsVerdict(log'[i])
  BY <1>1, <1>2, <1>5, <1>6, <1>7, LogStep
<1> QED BY <1>3, <1>8

\* A batch that nobody touches stays in hand.
LEMMA InHandStays ==
  ASSUME NEW h \in Hooks, InHand(h), batch'[h] = batch[h]
  PROVE  InHand(h)'
BY DEF InHand

\* Each step of a hook keeps the types, and the lock with the hook that is at it.
LEMMA TypedStep ==
  ASSUME TypeOK, Whole, NEW h \in Hooks, Step(h)
  PROVE  Typed' /\ Held'
<1>1. Kind \in [Hooks -> {"gate", "write", "start", "stop"}] /\ Nobody \notin Hooks /\ MaxFaults \in Nat
  BY SteerAssumption
<1>a. MayBegin(h) => pc[h] = "idle"
  BY DEF MayBegin
<1>b. Fault => faults' \in 0..MaxFaults
  <2>1. faults \in 0..MaxFaults
    BY DEF TypeOK
  <2> QED BY <1>1, <2>1 DEF Fault
<1>c. Nothing.what = "nothing"
  BY DEF Nothing
<1>d. arms + 1 \in Nat
  <2>1. arms \in Nat
    BY DEF TypeOK
  <2> QED BY <2>1
<1>2. CASE ArmStale(h)
  BY <1>1, <1>a, <1>d, <1>2 DEF TypeOK, Whole, Typed, Held, ArmStale, Goto, session, local
<1>3. CASE StaleArmed(h)
  BY <1>1, <1>a, <1>3 DEF TypeOK, Whole, Typed, Held, StaleArmed, Goto, session, markers, history
<1>4. CASE TakeStaleArm(h)
  BY <1>1, <1>4 DEF TypeOK, Whole, Typed, Held, TakeStaleArm, Goto, session
<1>5. CASE SessionStart(h)
  BY <1>1, <1>a, <1>5 DEF TypeOK, Whole, Typed, Held, SessionStart, Goto, session, markers, history
<1>6. CASE RouteNothing(h)
  BY <1>1, <1>6 DEF TypeOK, Whole, Typed, Held, RouteNothing, Goto, session, markers, history
<1>7. CASE AppendLines(h)
  BY <1>1, <1>7 DEF TypeOK, Whole, Typed, Held, AppendLines, Goto, session, markers, history
<1>8. CASE AppendFails(h)
  BY <1>1, <1>b, <1>c, <1>8 DEF TypeOK, Whole, Typed, Held, AppendFails, Goto, session, markers, history
<1>9. CASE ReturnNotice(h)
  BY <1>1, <1>9 DEF TypeOK, Whole, Typed, Held, ReturnNotice, Goto, session, history
<1>10. CASE Flush(h) \/ FlushFails(h)
  <2>1. CASE Flush(h)
    BY <1>1, <2>1 DEF TypeOK, Whole, Typed, Held, Flush, Goto, session, markers, history
  <2>2. CASE FlushFails(h)
    BY <1>1, <1>b, <1>c, <2>2 DEF TypeOK, Whole, Typed, Held, FlushFails, Goto, session, markers, history
  <2> QED BY <1>10, <2>1, <2>2
<1>11. CASE PrintOut(h)
  BY <1>1, <1>11 DEF TypeOK, Whole, Typed, Held, PrintOut, Goto, session, markers
<1>12. CASE LockForEvidence(h)
  BY <1>1, <1>12 DEF TypeOK, Whole, Typed, Held, LockForEvidence, Goto, session, markers, history
<1>13. CASE CheckEvidence(h)
  <2>1. /\ pc[h] = "idle"
        /\ \E w \in {"done", "judged"} : pc' = [pc EXCEPT ![h] = w]
        /\ DOMAIN batch' = DOMAIN batch
        /\ UNCHANGED <<session, lock, markers, out, owes, faults, history>>
    BY <1>a, <1>13 DEF CheckEvidence, Goto
  <2>2. Kind[h] = "stop"
    BY <1>13 DEF CheckEvidence
  <2>3. Held'
    <3>1. \A g \in Hooks : g = h \/ pc'[g] = pc[g]
      BY <2>1 DEF TypeOK
    <3>2. pc'[h] \in {"done", "judged"} /\ pc[h] # "locked" /\ lock # h
      BY <2>1 DEF TypeOK, Whole
    <3> QED BY <2>1, <2>2, <3>1, <3>2 DEF Whole, Held
  <2>4. pc' \in [Hooks -> {"idle", "take", "route", "judged", "locked", "written", "flushed",
                          "failed", "done"}]
    BY <2>1 DEF TypeOK
  <2> QED BY <2>1, <2>3, <2>4 DEF TypeOK, Typed, session, markers, history
<1>14. CASE Kill(h)
  BY <1>1, <1>b, <1>c, <1>14 DEF TypeOK, Whole, Typed, Held, Kill, Live, Goto, session, markers, history
<1>15. CASE Route(h)
  <2>1. Comes(h)
    BY <1>15, RouteFacts
  <2>2. shadow' \in [Events -> Versions \cup {0}]
    BY <1>15 DEF Route, Unshadow, TypeOK
  <2>3. /\ pc' = [pc EXCEPT ![h] = "locked"] /\ lock' = h /\ lock = Nobody /\ pc[h] = "route"
        /\ DOMAIN batch' = DOMAIN batch /\ DOMAIN out' = DOMAIN out
        /\ \E m : owes' = [owes EXCEPT ![h] = m]
        /\ \E m : out' = [out EXCEPT ![h] = m]
        /\ UNCHANGED <<session, armed, faults, history>>
    BY <1>15 DEF Route, Goto
  <2>4. owes'[h] \in Notices \cup {""} /\ notices' \subseteq Notices
        /\ out'[h].what \in {"note", "flag", "notice", "nothing"}
    <3>1. notices \subseteq Notices
      BY DEF TypeOK
    <3> QED BY <1>c, <2>1, <3>1 DEF Comes
  <2>5. Held'
    BY <1>1, <2>3 DEF TypeOK, Whole, Held
  <2>6. owes' \in [Hooks -> Notices \cup {""}]
    BY <2>3, <2>4 DEF TypeOK
  <2>7. \A g \in Hooks : out'[g].what \in {"note", "flag", "notice", "nothing"}
    BY <2>3, <2>4 DEF TypeOK, Whole
  <2>8. pc' \in [Hooks -> {"idle", "take", "route", "judged", "locked", "written", "flushed",
                          "failed", "done"}]
    BY <2>3 DEF TypeOK
  <2>9. UNCHANGED <<prompt, version, carries, draw, armed, faults, arms, took, shown, lost>>
        /\ lock' \in Hooks \cup {Nobody}
    BY <2>3 DEF session, history
  <2> QED BY <2>2, <2>4, <2>5, <2>6, <2>7, <2>8, <2>9 DEF TypeOK, Typed
<1>16. CASE TakeChannelEvidence(h)
  <2>1. shadow' \in [Events -> Versions \cup {0}]
    <3> DEFINE bad(e) == {n \in DOMAIN batch[h] :
                     batch[h][n].event = e /\ batch[h][n].streak >= EvidenceAbsents}
    <3>1. shadow' = [e \in Events |-> IF shadow[e] # 0 \/ bad(e) = {} THEN shadow[e]
                                      ELSE batch[h][Min(bad(e))].version]
      BY <1>16 DEF TakeChannelEvidence
    <3>2. \A e \in Events : bad(e) \in SUBSET Nat /\ bad(e) \subseteq DOMAIN batch[h]
      BY SeqFacts DEF Whole, InHand
    <3> HIDE DEF bad
    <3>3. \A e \in Events : bad(e) # {} => Min(bad(e)) \in DOMAIN batch[h]
      BY <3>2, LeastFound
    <3>4. \A n \in DOMAIN batch[h] : batch[h][n].version \in Versions
      BY DEF Whole, InHand, IsNote, IsVerdict
    <3> QED BY <3>1, <3>3, <3>4 DEF TypeOK
  <2> QED
    BY <1>1, <1>16, <2>1 DEF TypeOK, Whole, Typed, Held, TakeChannelEvidence, Goto, session, history
<1> QED
  BY <1>2, <1>3, <1>4, <1>5, <1>6, <1>7, <1>8, <1>9, <1>10, <1>11, <1>12, <1>13, <1>14, <1>15, <1>16
  DEF Step

\* The same of the steps that are no hook's.
LEMMA TypedElsewhere ==
  ASSUME TypeOK, Whole, NextPrompt \/ Upgrade \/ PowerLoss \/ UNCHANGED vars
  PROVE  Typed' /\ Held' /\ batch' = batch
<1>1. Nobody \notin Hooks /\ MaxFaults \in Nat
  BY SteerAssumption
<1>2. CASE NextPrompt \/ Upgrade \/ UNCHANGED vars
  BY <1>2 DEF TypeOK, Whole, Typed, Held, NextPrompt, Upgrade, vars, session, markers, local, history
<1>3. CASE PowerLoss
  <2>1. faults' \in 0..MaxFaults
    <3>1. faults \in 0..MaxFaults
      BY DEF TypeOK
    <3>2. faults < MaxFaults /\ faults' = faults + 1
      BY <1>3 DEF PowerLoss, Fault
    <3> QED BY <1>1, <3>1, <3>2
  <2>2. /\ batch' = batch /\ UNCHANGED <<prompt, version, carries, draw, shadow, arms, took, shown>>
        /\ lock' = Nobody /\ owes' = [h \in Hooks |-> ""] /\ lost' = TRUE
        /\ notices' \subseteq notices /\ armed' \in {armed, FALSE}
    BY <1>3 DEF PowerLoss, session
  <2>3. /\ pc' = [h \in Hooks |-> IF Live(h) THEN "done" ELSE pc[h]]
        /\ out' = [h \in Hooks |-> IF Live(h) THEN Nothing ELSE out[h]]
    BY <1>3 DEF PowerLoss
  <2>4. \A h \in Hooks : out'[h].what \in {"note", "flag", "notice", "nothing"}
    BY <2>3 DEF Nothing, TypeOK
  <2>5. \A h \in Hooks : pc'[h] \in {"idle", "done"}
    BY <2>3 DEF Live, TypeOK
  <2>6. pc' \in [Hooks -> {"idle", "take", "route", "judged", "locked", "written", "flushed",
                          "failed", "done"}] /\ DOMAIN out' = Hooks
    BY <2>3, <2>5
  <2> QED BY <1>1, <2>1, <2>2, <2>4, <2>5, <2>6 DEF TypeOK, Whole, Typed, Held
<1> QED BY <1>2, <1>3

\* A hook's step leaves the others' batches, and its own is of its kind.
LEMMA BatchStep ==
  ASSUME TypeOK, Whole, NEW h \in Hooks, Step(h)
  PROVE  \A g \in Hooks : InHand(g)'
<1>1. \A g \in Hooks : InHand(g)
  BY DEF Whole
<1>2. CASE Route(h)
  <2>1. \A g \in Hooks \ {h} : batch'[g] = batch[g]
    BY <1>2 DEF Route, Whole
  <2> QED BY <1>1, <1>2, <2>1, RouteFacts, InHandStays
<1>3. CASE CheckEvidence(h)
  <2>1. \A g \in Hooks \ {h} : batch'[g] = batch[g]
    BY <1>3 DEF CheckEvidence, Whole
  <2> QED BY <1>1, <1>3, <2>1, EvidenceFacts, InHandStays
<1>4. CASE TakeChannelEvidence(h)
  <2>1. /\ \A g \in Hooks \ {h} : batch'[g] = batch[g]
        /\ batch'[h] = <<>>
    BY <1>4 DEF TakeChannelEvidence, Whole
  <2>2. InHand(h)'
    <3>1. <<>> \in Seq(Range(<<>>)) /\ DOMAIN <<>> = {}
      OBVIOUS
    <3> QED BY <2>1, <3>1 DEF InHand, IsSeq
  <2> QED BY <1>1, <2>1, <2>2, InHandStays
<1>5. ASSUME ~Route(h), ~CheckEvidence(h), ~TakeChannelEvidence(h)
      PROVE  batch' = batch
  BY <1>5 DEF Step, ArmStale, StaleArmed, TakeStaleArm, SessionStart, RouteNothing, AppendLines,
              AppendFails, ReturnNotice, Flush, FlushFails, PrintOut, LockForEvidence, Kill, local
<1> QED BY <1>1, <1>2, <1>3, <1>4, <1>5, InHandStays

\* Each step keeps the types and the shape of the state.
LEMMA TypeStep ==
  ASSUME TypeOK, Whole, [Next]_vars
  PROVE  TypeOK' /\ Whole'
<1>1. Typed' /\ Held' /\ \A g \in Hooks : InHand(g)'
  <2>1. CASE \E h \in Hooks : Step(h)
    BY <2>1, TypedStep, BatchStep
  <2>2. CASE NextPrompt \/ Upgrade \/ PowerLoss \/ UNCHANGED vars
    BY <2>2, TypedElsewhere, InHandStays DEF Whole
  <2> QED BY <2>1, <2>2 DEF Next
<1>2. TypeOK'
  BY <1>1, LogStaysWhole DEF TypeOK, Typed
<1>3. Whole'
  BY <1>1, LogStaysWhole DEF Whole, Held
<1> QED BY <1>2, <1>3

\* The state starts so.
LEMMA TypeInit ==
  ASSUME Init
  PROVE  TypeOK /\ Whole
<1>1. Min(Prompts) \in Prompts /\ Min(Versions) \in Versions
  BY LeastFound, SteerAssumption
<1>2. Nobody \notin Hooks /\ MaxFaults \in Nat
  BY SteerAssumption
<1>3. <<>> \in Seq(Range(<<>>)) /\ DOMAIN <<>> = {} /\ Len(<<>>) = 0
  OBVIOUS
<1>4. TypeOK
  <2>1. /\ prompt \in Prompts /\ version \in Versions /\ carries \subseteq Versions /\ draw \in Draws
    BY <1>1 DEF Init
  <2>2. synced \in 0..Len(log) /\ \A i \in DOMAIN log : log[i].type \in {"note", "evidence"}
    <3>1. log = <<>> /\ synced = 0
      BY DEF Init
    <3> QED BY <1>3, <3>1
  <2>3. \A h \in Hooks : out[h].what = "nothing"
    BY DEF Init, Nothing
  <2>4. /\ lock \in Hooks \cup {Nobody} /\ armed \in BOOLEAN /\ notices \subseteq Notices
        /\ shadow \in [Events -> Versions \cup {0}]
        /\ pc \in [Hooks -> {"idle", "take", "route", "judged", "locked", "written", "flushed",
                             "failed", "done"}]
        /\ owes \in [Hooks -> Notices \cup {""}]
    BY DEF Init
  <2>5. /\ faults \in 0..MaxFaults /\ arms \in Nat /\ took \subseteq Hooks
        /\ shown \subseteq Hooks /\ lost \in BOOLEAN
    <3>1. faults = 0 /\ arms = 0 /\ took = {} /\ shown = {} /\ lost = FALSE
      BY DEF Init
    <3>2. 0 \in 0..MaxFaults /\ 0 \in Nat
      BY <1>2
    <3> QED BY <3>1, <3>2
  <2> QED BY <2>1, <2>2, <2>3, <2>4, <2>5 DEF TypeOK
<1>5. Whole
  BY <1>2, <1>3 DEF Init, Whole, InHand, IsSeq
<1> QED BY <1>4, <1>5

\* Types stay, for any hooks, calls and versions: no more of the log is synced
\* than there is, and a channel's marker names a version of Claude Code.
THEOREM TypeCorrect == Spec => []TypeOK
<1>1. Init => TypeOK /\ Whole
  BY TypeInit
<1>2. TypeOK /\ Whole /\ [Next]_vars => TypeOK' /\ Whole'
  BY TypeStep
<1> QED BY <1>1, <1>2, PTL DEF Spec

-----------------------------------------------------------------------------
(* The stale trigger.                                                      *)

\* Whoever judged took an arm, and the one that is set has not been taken.
ArmInv ==
  /\ IsFiniteSet(took)
  /\ lost \/ Cardinality(took) + (IF armed THEN 1 ELSE 0) <= arms

\* Arming the trigger makes room for one judge, and the judge that removes the
\* marker takes it.
LEMMA ArmStep ==
  ASSUME TypeOK, ArmInv, [Next]_vars
  PROVE  ArmInv'
<1>1. arms \in Nat /\ armed \in BOOLEAN /\ lost \in BOOLEAN
  BY DEF TypeOK
<1>2. IsFiniteSet(took) /\ Cardinality(took) \in Nat
  BY FS_CardinalityType DEF ArmInv
<1>3. CASE \E h \in Hooks : ArmStale(h)
  <2>1. armed' = TRUE /\ arms' = arms + 1 /\ took' = took /\ lost' = lost
    BY <1>3 DEF ArmStale
  <2> QED BY <1>1, <1>2, <2>1 DEF ArmInv
<1>4. ASSUME NEW h \in Hooks, TakeStaleArm(h) PROVE ArmInv'
  <2>1. /\ armed' = FALSE /\ arms' = arms /\ lost' = lost
        /\ took' = IF armed THEN took \cup {h} ELSE took
    BY <1>4 DEF TakeStaleArm
  <2>2. /\ IsFiniteSet(took \cup {h})
        /\ Cardinality(took \cup {h}) = Cardinality(took)
           \/ Cardinality(took \cup {h}) = Cardinality(took) + 1
    BY <1>2, FS_AddElement
  <2> QED BY <1>1, <1>2, <2>1, <2>2 DEF ArmInv
<1>5. CASE PowerLoss
  <2>1. took' = took /\ lost' = TRUE
    BY <1>5 DEF PowerLoss
  <2> QED BY <1>2, <2>1 DEF ArmInv
<1>6. ASSUME NEW h \in Hooks, Step(h), ~ArmStale(h), ~TakeStaleArm(h)
      PROVE  UNCHANGED <<armed, arms, took, lost>>
  BY <1>6 DEF Step, StaleArmed, SessionStart, Route, RouteNothing, AppendLines, AppendFails,
              ReturnNotice, Flush, FlushFails, PrintOut, CheckEvidence, LockForEvidence,
              TakeChannelEvidence, Kill, markers, history
<1>7. CASE UNCHANGED <<armed, arms, took, lost>>
  BY <1>7 DEF ArmInv
<1>8. CASE NextPrompt \/ Upgrade \/ UNCHANGED vars
  BY <1>8, <1>7 DEF NextPrompt, Upgrade, vars, markers, history
<1> QED BY <1>3, <1>4, <1>5, <1>6, <1>7, <1>8 DEF Next

\* However many writes see the trigger armed at once, and whoever is killed in
\* between, no more of them judge than gate runs armed it.
THEOREM OneJudgeAnArm == Spec => []OneJudgePerArm
<1>1. Init => TypeOK /\ Whole /\ ArmInv
  <2> SUFFICES ASSUME Init PROVE ArmInv
    BY TypeInit
  <2>1. took = {} /\ arms = 0 /\ armed = FALSE
    BY DEF Init
  <2> QED BY <2>1, FS_EmptySet DEF ArmInv
<1>2. TypeOK /\ Whole /\ ArmInv /\ [Next]_vars => TypeOK' /\ Whole' /\ ArmInv'
  BY TypeStep, ArmStep
<1>3. TypeOK /\ ArmInv => OneJudgePerArm
  <2> SUFFICES ASSUME TypeOK, ArmInv, ~lost PROVE Cardinality(took) <= arms
    BY DEF OneJudgePerArm
  <2>1. arms \in Nat /\ Cardinality(took) \in Nat
    BY FS_CardinalityType DEF TypeOK, ArmInv
  <2>2. Cardinality(took) + (IF armed THEN 1 ELSE 0) <= arms
    BY DEF ArmInv
  <2> QED BY <2>1, <2>2
<1> QED BY <1>1, <1>2, <1>3, PTL DEF Spec

-----------------------------------------------------------------------------
(* What is printed is in the log.                                          *)

\* A hook that is done takes no step, and none but PrintOut prints.
LEMMA StepShows ==
  ASSUME NEW h \in Hooks, Step(h)
  PROVE  /\ pc[h] # "done"
         /\ \/ shown' = shown
            \/ PrintOut(h) /\ shown' = shown \cup {h} /\ out[h] # Nothing
         /\ lost' = lost
<1>a. MayBegin(h) => pc[h] # "done"
  BY DEF MayBegin
<1>1. pc[h] # "done"
  BY <1>a DEF Step, ArmStale, StaleArmed, TakeStaleArm, SessionStart, Route, RouteNothing,
              AppendLines, AppendFails, ReturnNotice, Flush, FlushFails, PrintOut, CheckEvidence,
              LockForEvidence, TakeChannelEvidence, Kill, Live
<1>2. /\ \/ shown' = shown
         \/ PrintOut(h) /\ shown' = shown \cup {h} /\ out[h] # Nothing
      /\ lost' = lost
  BY DEF Step, ArmStale, StaleArmed, TakeStaleArm, SessionStart, Route, RouteNothing,
              AppendLines, AppendFails, ReturnNotice, Flush, FlushFails, PrintOut, CheckEvidence,
              LockForEvidence, TakeChannelEvidence, Kill, history
<1> QED BY <1>1, <1>2

\* A hook's step leaves what the others have.
LEMMA OthersStay ==
  ASSUME TypeOK, Whole, NEW h \in Hooks, Step(h), NEW g \in Hooks \ {h}
  PROVE  pc'[g] = pc[g] /\ out'[g] = out[g] /\ batch'[g] = batch[g] /\ owes'[g] = owes[g]
<1>1. pc'[g] = pc[g]
  BY DEF Step, ArmStale, StaleArmed, TakeStaleArm, SessionStart, Route, RouteNothing,
         AppendLines, AppendFails, ReturnNotice, Flush, FlushFails, PrintOut, CheckEvidence,
         LockForEvidence, TakeChannelEvidence, Kill, Goto, TypeOK
<1>2. out'[g] = out[g]
  BY DEF Step, ArmStale, StaleArmed, TakeStaleArm, SessionStart, Route, RouteNothing,
         AppendLines, AppendFails, ReturnNotice, Flush, FlushFails, PrintOut, CheckEvidence,
         LockForEvidence, TakeChannelEvidence, Kill, local, Whole
<1>3. batch'[g] = batch[g]
  BY DEF Step, ArmStale, StaleArmed, TakeStaleArm, SessionStart, Route, RouteNothing,
         AppendLines, AppendFails, ReturnNotice, Flush, FlushFails, PrintOut, CheckEvidence,
         LockForEvidence, TakeChannelEvidence, Kill, local, Whole
<1>4. owes'[g] = owes[g]
  BY DEF Step, ArmStale, StaleArmed, TakeStaleArm, SessionStart, Route, RouteNothing,
         AppendLines, AppendFails, ReturnNotice, Flush, FlushFails, PrintOut, CheckEvidence,
         LockForEvidence, TakeChannelEvidence, Kill, local, TypeOK
<1> QED BY <1>1, <1>2, <1>3, <1>4

\* No step but power loss takes a line out of the log or out of what is synced.
LEMMA LogKept ==
  ASSUME TypeOK, Whole, [Next]_vars, ~PowerLoss
  PROVE  \A i \in DOMAIN log : i \in DOMAIN log' /\ log'[i] = log[i] /\ (i <= synced => i <= synced')
<1>1. DOMAIN log = 1..Len(log) /\ Len(log) \in Nat /\ synced \in 0..Len(log)
  BY SeqFacts DEF Whole, TypeOK
<1>2. ASSUME NEW h \in Hooks, NEW n \in Nat, Grown(h, n), synced' = synced, NEW i \in DOMAIN log
      PROVE  i \in DOMAIN log' /\ log'[i] = log[i] /\ (i <= synced => i <= synced')
  <2>1. DOMAIN log' = 1..Len(log')
    BY <1>2, SeqFacts DEF Grown
  <2> QED BY <1>1, <1>2, <2>1 DEF Grown
<1> QED BY <1>1, <1>2, LogStep

\* A hook that stays where it is has its line still.
LEMMA RecordedStays ==
  ASSUME TypeOK, Whole, [Next]_vars, ~PowerLoss, NEW g \in Hooks, Recorded(g),
         pc'[g] = pc[g], out'[g] = out[g], batch'[g] = batch[g]
  PROVE  Recorded(g)'
BY LogKept DEF Recorded

\* A hook's own step keeps its line, from the decision to the print.
LEMMA RecordedStep ==
  ASSUME TypeOK, Whole, NEW h \in Hooks, Step(h), Recorded(h)
  PROVE  Recorded(h)'
<1>1. DOMAIN log = 1..Len(log) /\ Len(log) \in Nat
  BY SeqFacts DEF Whole
<1>a. MayBegin(h) => pc[h] = "idle"
  BY DEF MayBegin
<1>2. CASE Route(h)
  <2>1. pc'[h] = "locked" /\ Kind[h] # "stop"
    BY <1>2 DEF Route, Goto, Whole, TypeOK
  <2> QED BY <1>2, <2>1, RouteFacts DEF Comes, Recorded
<1>3. CASE AppendLines(h)
  <2>1. /\ pc[h] = "locked" /\ pc'[h] = "written" /\ out' = out /\ batch' = batch
    BY <1>3 DEF AppendLines, Goto, TypeOK
  <2>2. Grown(h, Len(batch[h])) /\ DOMAIN batch[h] = 1..Len(batch[h]) /\ Len(batch[h]) \in Nat
    BY <1>3, WholeBatchLands, SeqFacts DEF Whole, InHand
  <2>3. ASSUME NEW n \in DOMAIN batch[h] PROVE \E i \in DOMAIN log' : log'[i] = batch[h][n]
    <3>1. DOMAIN log' = 1..Len(log') /\ Len(log') = Len(log) + Len(batch[h])
      BY <2>2, SeqFacts DEF Grown
    <3>2. Len(log) + n \in 1..Len(log')
      BY <1>1, <2>2, <3>1
    <3> QED BY <2>2, <3>1, <3>2 DEF Grown
  <2> QED BY <2>1, <2>3 DEF Recorded
<1>4. CASE Flush(h)
  <2>1. /\ pc[h] = "written" /\ pc'[h] = "flushed" /\ out' = out /\ batch' = batch
        /\ log' = log /\ synced' = Len(log)
    BY <1>4 DEF Flush, Goto, TypeOK
  <2> QED BY <1>1, <2>1 DEF Recorded
<1>5. CASE PrintOut(h)
  <2>1. /\ pc[h] = "flushed" /\ pc'[h] = "done" /\ out' = out /\ batch' = batch
        /\ log' = log /\ synced' = synced
    BY <1>5 DEF PrintOut, Goto, TypeOK
  <2> QED BY <2>1 DEF Recorded
<1>6. CASE AppendFails(h) \/ FlushFails(h) \/ Kill(h)
  <2>1. out'[h] = Nothing
    BY <1>6 DEF AppendFails, FlushFails, Kill, Whole
  <2> QED BY <2>1 DEF Recorded
<1>7. CASE \/ ArmStale(h) \/ StaleArmed(h) \/ TakeStaleArm(h) \/ SessionStart(h) \/ RouteNothing(h)
           \/ ReturnNotice(h) \/ CheckEvidence(h) \/ LockForEvidence(h) \/ TakeChannelEvidence(h)
  <2>1. out'[h] = out[h]
    BY <1>7 DEF ArmStale, StaleArmed, TakeStaleArm, SessionStart, RouteNothing, ReturnNotice,
                CheckEvidence, LockForEvidence, TakeChannelEvidence
  <2>2. pc[h] \in {"idle", "take", "route", "failed", "judged"} \/ Kind[h] = "stop"
    BY <1>7, <1>a DEF ArmStale, StaleArmed, TakeStaleArm, SessionStart, RouteNothing, ReturnNotice,
                CheckEvidence, LockForEvidence, TakeChannelEvidence
  <2>3. out'[h] = Nothing
    BY <2>1, <2>2 DEF Recorded
  <2> QED BY <2>3 DEF Recorded
<1> QED BY <1>2, <1>3, <1>4, <1>5, <1>6, <1>7 DEF Step

\* Power loss ends every hook that is at something, and what the others printed
\* is synced.
LEMMA RecordedAtPowerLoss ==
  ASSUME TypeOK, Whole, PrintInv, PowerLoss
  PROVE  PrintInv'
<1>1. PICK n \in synced..Len(log) : CutAt(n) /\ synced' = n
  BY PowerLossCuts
<1>2. DOMAIN log = 1..Len(log) /\ Len(log) \in Nat /\ synced \in 0..Len(log)
  BY SeqFacts DEF Whole, TypeOK
<1>3. DOMAIN log' = 1..n
  BY <1>1, SeqFacts DEF CutAt
<1>4. /\ batch' = batch /\ shown' = shown
      /\ \A h \in Hooks : /\ pc'[h] = IF Live(h) THEN "done" ELSE pc[h]
                          /\ out'[h] = IF Live(h) THEN Nothing ELSE out[h]
  BY DEF PowerLoss
<1>5. ASSUME NEW h \in Hooks
      PROVE  Recorded(h)' /\ (h \in shown' => pc'[h] = "done" /\ out'[h] # Nothing)
  <2>1. CASE Live(h)
    BY <1>4, <2>1 DEF PrintInv, Recorded, Live
  <2>2. CASE ~Live(h)
    <3>1. pc[h] \in {"idle", "done"} /\ pc'[h] = pc[h] /\ out'[h] = out[h] /\ batch'[h] = batch[h]
      BY <1>4, <2>2 DEF Live
    <3>2. \A i \in DOMAIN log : i <= synced => i \in DOMAIN log' /\ log'[i] = log[i] /\ i <= synced'
      BY <1>1, <1>2, <1>3 DEF CutAt
    <3>3. Recorded(h) /\ (h \in shown => pc[h] = "done" /\ out[h] # Nothing)
      BY DEF PrintInv
    <3> QED BY <1>4, <3>1, <3>2, <3>3 DEF Recorded
  <2> QED BY <2>1, <2>2
<1> QED BY <1>5 DEF PrintInv

\* Each step keeps the line of whatever is printed.
LEMMA PrintStep ==
  ASSUME TypeOK, Whole, PrintInv, [Next]_vars
  PROVE  PrintInv'
<1>1. \A g \in Hooks : Recorded(g) /\ (g \in shown => pc[g] = "done" /\ out[g] # Nothing)
  BY DEF PrintInv
<1>2. ASSUME NEW h \in Hooks, Step(h), ~PowerLoss PROVE PrintInv'
  <2>1. ASSUME NEW g \in Hooks \ {h}
        PROVE  Recorded(g)' /\ (g \in shown' => pc'[g] = "done" /\ out'[g] # Nothing)
    <3>1. [Next]_vars
      OBVIOUS
    <3>2. Recorded(g)'
      BY <1>1, <1>2, <3>1, OthersStay, RecordedStays
    <3>3. g \in shown' => g \in shown
      BY <1>2, StepShows
    <3> QED BY <1>1, <1>2, <3>2, <3>3, OthersStay
  <2>2. Recorded(h)'
    BY <1>1, <1>2, RecordedStep
  <2>3. h \in shown' => pc'[h] = "done" /\ out'[h] # Nothing
    <3>1. pc[h] # "done" /\ h \notin shown
      BY <1>1, <1>2, StepShows
    <3>2. CASE PrintOut(h)
      BY <3>1, <3>2 DEF PrintOut, Goto, TypeOK
    <3> QED BY <1>2, <3>1, <3>2, StepShows
  <2> QED BY <2>1, <2>2, <2>3 DEF PrintInv
<1>3. CASE NextPrompt \/ Upgrade \/ UNCHANGED vars
  BY <1>3 DEF NextPrompt, Upgrade, vars, local, history, PrintInv, Recorded
<1> QED BY <1>2, <1>3, RecordedAtPowerLoss DEF Next

\* The invariant starts so.
LEMMA PrintInit ==
  ASSUME Init
  PROVE  PrintInv
BY DEF Init, PrintInv, Recorded

\* Whatever the user or the model saw has its line in the log, with what was
\* printed of it, whichever hook was killed or failed and whenever the power
\* went: a hook prints after its append and its flush.
THEOREM PrintedLinesAreRecorded == Spec => []PrintedIsRecorded
<1>1. Init => TypeOK /\ Whole /\ PrintInv
  BY TypeInit, PrintInit
<1>2. TypeOK /\ Whole /\ PrintInv /\ [Next]_vars => TypeOK' /\ Whole' /\ PrintInv'
  BY TypeStep, PrintStep
<1>3. TypeOK /\ Whole /\ PrintInv => PrintedIsRecorded
  <2> SUFFICES ASSUME TypeOK, Whole, PrintInv, NEW h \in shown
               PROVE  \E i \in At(h) :
                        IF out[h].what = "notice" THEN log[i].notice
                        ELSE /\ log[i].state = "delivered"
                             /\ log[i].level = IF out[h].what = "note" THEN "nudge" ELSE "flag"
    BY DEF PrintedIsRecorded
  <2>1. h \in Hooks
    BY DEF TypeOK
  <2>2. /\ Kind[h] # "stop" /\ out[h].line \in DOMAIN batch[h]
        /\ Says(batch[h][out[h].line], out[h].what)
    BY <2>1 DEF PrintInv, Recorded
  <2>3. PICK i \in DOMAIN log : log[i] = batch[h][out[h].line]
    BY <2>1 DEF PrintInv, Recorded
  <2>4. log[i].type = "note" /\ log[i].hook = h /\ log[i].n = out[h].line
    BY <2>1, <2>2, <2>3 DEF Whole, InHand, IsNote
  <2> QED BY <2>2, <2>3, <2>4 DEF At, Says
<1> QED BY <1>1, <1>2, <1>3, PTL DEF Spec

-----------------------------------------------------------------------------
(* A session has each notice once.                                         *)

\* A hook holds a notice from the moment it takes its marker: it is to print it
\* or has, or owes the marker.
HoldsNotice(h, name) ==
  \/ owes[h] = name
  \/ out[h].what = "notice" /\ NoticeOf(batch[h][out[h].line]) = name

\* One hook at most holds a notice, and its marker stands while one does.
NoticeInv ==
  lost \/ \A name \in Notices : \A h \in Hooks : HoldsNotice(h, name) =>
            name \in notices /\ \A g \in Hooks : HoldsNotice(g, name) => g = h

\* A hook that comes to print nothing new and to owe nothing new holds no notice
\* it did not.
LEMMA HoldsNoMore ==
  ASSUME NEW h \in Hooks, NEW name \in Notices,
         owes'[h] \in {owes[h], ""},
         out'[h] # Nothing => out'[h] = out[h] /\ batch'[h] = batch[h],
         HoldsNotice(h, name)'
  PROVE  HoldsNotice(h, name)
<1>1. out'[h] = Nothing => out'[h].what # "notice"
  <2>1. Nothing.what # "notice"
    BY DEF Nothing
  <2> QED BY <2>1
<1>2. name # ""
  BY DEF Notices
<1> QED BY <1>1, <1>2 DEF HoldsNotice

\* A hook takes on a notice in Route and nowhere else, and a marker is given
\* back by the hook that owes it.
LEMMA NoticeMoves ==
  ASSUME TypeOK, Whole, PrintInv, NEW h \in Hooks, Step(h), ~Route(h)
  PROVE  /\ owes'[h] \in {owes[h], ""}
         /\ out'[h] # Nothing => out'[h] = out[h] /\ batch'[h] = batch[h]
         /\ \/ notices' = notices
            \/ notices' = notices \ {owes[h]} /\ owes'[h] = "" /\ out'[h] = Nothing
<1>1. owes'[h] \in {owes[h], ""}
  BY DEF Step, ArmStale, StaleArmed, TakeStaleArm, SessionStart, RouteNothing,
         AppendLines, AppendFails, ReturnNotice, Flush, FlushFails, PrintOut, CheckEvidence,
         LockForEvidence, TakeChannelEvidence, Kill, local, TypeOK
<1>2. Recorded(h)
  BY DEF PrintInv
<1>3. CASE CheckEvidence(h) \/ TakeChannelEvidence(h)
  <2>1. Kind[h] = "stop" /\ out' = out /\ notices' = notices
    BY <1>3 DEF CheckEvidence, TakeChannelEvidence, markers
  <2> QED BY <1>1, <1>2, <2>1 DEF Recorded
<1>4. CASE ReturnNotice(h)
  <2>1. pc[h] = "failed" /\ out' = out /\ notices' = notices \ {owes[h]} /\ owes'[h] = ""
    BY <1>4 DEF ReturnNotice, TypeOK
  <2> QED BY <1>2, <2>1 DEF Recorded
<1>5. CASE AppendFails(h) \/ FlushFails(h) \/ Kill(h)
  <2>1. out'[h] = Nothing /\ notices' = notices
    BY <1>5 DEF AppendFails, FlushFails, Kill, Whole, markers
  <2> QED BY <1>1, <2>1
<1>6. CASE \/ ArmStale(h) \/ StaleArmed(h) \/ TakeStaleArm(h) \/ SessionStart(h) \/ RouteNothing(h)
           \/ AppendLines(h) \/ Flush(h) \/ PrintOut(h) \/ LockForEvidence(h)
  <2>1. out' = out /\ batch' = batch /\ notices' = notices
    BY <1>6 DEF ArmStale, StaleArmed, TakeStaleArm, SessionStart, RouteNothing, AppendLines,
                Flush, PrintOut, LockForEvidence, markers, local
  <2> QED BY <1>1, <2>1
<1> QED BY <1>3, <1>4, <1>5, <1>6 DEF Step

\* Each step leaves every notice with one hook.
LEMMA NoticeStep ==
  ASSUME TypeOK, Whole, PrintInv, NoticeInv, [Next]_vars
  PROVE  NoticeInv'
<1>1. ASSUME NEW h \in Hooks, Step(h), ~lost, NEW name \in Notices
      PROVE  \A f \in Hooks : HoldsNotice(f, name)' =>
               name \in notices' /\ \A g \in Hooks : HoldsNotice(g, name)' => g = f
  <2>1. \A f \in Hooks : HoldsNotice(f, name) =>
          name \in notices /\ \A g \in Hooks : HoldsNotice(g, name) => g = f
    BY <1>1 DEF NoticeInv
  <2>2. \A g \in Hooks \ {h} : HoldsNotice(g, name)' => HoldsNotice(g, name)
    BY <1>1, OthersStay DEF HoldsNotice
  <2>3. CASE ~Route(h)
    <3>1. HoldsNotice(h, name)' => HoldsNotice(h, name)
      BY <1>1, <2>3, NoticeMoves, HoldsNoMore
    <3>2. CASE notices' = notices
      BY <2>1, <2>2, <3>1, <3>2
    <3>3. CASE notices' = notices \ {owes[h]} /\ owes'[h] = "" /\ out'[h] = Nothing
      <4>1. ~HoldsNotice(h, name)'
        <5>1. Nothing.what # "notice"
          BY DEF Nothing
        <5> QED BY <1>1, <3>3, <5>1 DEF HoldsNotice, Notices
      <4>2. owes[h] = name => HoldsNotice(h, name)
        BY DEF HoldsNotice
      <4> QED BY <2>1, <2>2, <3>3, <4>1, <4>2
    <3> QED BY <1>1, <2>3, <3>2, <3>3, NoticeMoves
  <2>4. CASE Route(h)
    <3>1. Comes(h)
      BY <2>4, RouteFacts
    <3>2. CASE owes'[h] = "" /\ notices' = notices /\ out'[h].what # "notice"
      <4>1. ~HoldsNotice(h, name)'
        BY <1>1, <3>2 DEF HoldsNotice, Notices
      <4> QED BY <2>1, <2>2, <3>2, <4>1
    <3>3. CASE /\ owes'[h] \in Notices \ notices /\ notices' = notices \cup {owes'[h]}
               /\ out'[h].what = "notice" /\ NoticeOf(batch'[h][out'[h].line]) = owes'[h]
      <4>1. HoldsNotice(h, name)' => name = owes'[h]
        BY <3>3 DEF HoldsNotice
      <4> QED BY <2>1, <2>2, <3>3, <4>1
    <3> QED BY <3>1, <3>2, <3>3 DEF Comes
  <2> QED BY <2>3, <2>4
<1>2. ASSUME NEW h \in Hooks, Step(h) PROVE NoticeInv'
  BY <1>1, <1>2, StepShows DEF NoticeInv
<1>3. CASE PowerLoss
  BY <1>3 DEF PowerLoss, NoticeInv
<1>4. CASE NextPrompt \/ Upgrade \/ UNCHANGED vars
  BY <1>4 DEF NextPrompt, Upgrade, vars, local, history, markers, NoticeInv, HoldsNotice
<1> QED BY <1>2, <1>3, <1>4 DEF Next

\* However the hooks of a session race for a notice's marker, fail their append
\* and give it back, the session prints each notice once.
THEOREM NoticesAreOnce == Spec => []NoticeOnce
<1>1. Init => TypeOK /\ Whole /\ PrintInv /\ NoticeInv
  <2>1. ASSUME Init, NEW h \in Hooks, NEW name \in Notices PROVE ~HoldsNotice(h, name)
    <3>1. owes[h] = "" /\ out[h].what = "nothing"
      BY <2>1 DEF Init, Nothing
    <3> QED BY <2>1, <3>1 DEF HoldsNotice, Notices
  <2> QED BY <2>1, TypeInit, PrintInit DEF NoticeInv
<1>2. TypeOK /\ Whole /\ PrintInv /\ NoticeInv /\ [Next]_vars
        => TypeOK' /\ Whole' /\ PrintInv' /\ NoticeInv'
  BY TypeStep, PrintStep, NoticeStep
<1>3. TypeOK /\ NoticeInv => NoticeOnce
  <2> SUFFICES ASSUME TypeOK, NoticeInv, NEW name \in Notices, ~lost
               PROVE  Cardinality({h \in shown : out[h].what = "notice"
                                     /\ NoticeOf(batch[h][out[h].line]) = name}) <= 1
    BY DEF NoticeOnce
  <2> DEFINE S == {h \in shown : out[h].what = "notice" /\ NoticeOf(batch[h][out[h].line]) = name}
  <2>1. \A f, g \in S : f = g
    BY DEF TypeOK, NoticeInv, HoldsNotice
  <2>2. S = {} \/ \E h : S = {h}
    <3> HIDE DEF S
    <3> QED BY <2>1
  <2> HIDE DEF S
  <2>3. Cardinality(S) <= 1
    <3>1. S = {} => Cardinality(S) = 0
      BY FS_EmptySet
    <3>2. (\E h : S = {h}) => Cardinality(S) = 1
      BY FS_Singleton
    <3> QED BY <2>2, <3>1, <3>2
  <2> QED BY <2>3 DEF S
<1> QED BY <1>1, <1>2, <1>3, PTL DEF Spec

-----------------------------------------------------------------------------
(* What a call is charged.                                                 *)

\* What a prompt has had allows a line.
Allows(have, l) ==
  IF l.level = "nudge"
  THEN /\ l.key \notin have.keys
       /\ ~l.own => l.reserve \in Nat /\ have.notes + l.reserve < MaxNotes
  ELSE have.flags < MaxFlags

\* A call charges one note and one flag at most, and each is allowed.
LEMMA ChargeFacts ==
  ASSUME NEW call, IsCall(call), NEW have, have.notes \in Nat, have.flags \in Nat
  PROVE  LET lines == Lines(call, have) IN
         /\ \A i \in DOMAIN lines : Counted(lines[i]) => Allows(have, lines[i])
         /\ \A i, j \in DOMAIN lines :
              Counted(lines[i]) /\ Counted(lines[j]) /\ lines[i].level = lines[j].level => i = j
<1> DEFINE fs == Ranked(call.findings)
           asked(level) == {i \in DOMAIN fs : Refused(call, fs, i) = "" /\ LevelOf(call, fs[i]) = level}
           notes == {i \in asked("nudge") : Unaffordable(fs[i], have) = ""}
           flags == {i \in asked("flag") : First(notes) = 0 /\ have.flags < MaxFlags}
           won == [note |-> First(notes), flag |-> First(flags)]
           lines == Lines(call, have)
<1>1. IsSeq(fs) /\ \A i \in DOMAIN fs : IsFinding(fs[i])
  BY RankedFacts
<1>2. DOMAIN fs \subseteq Nat /\ 0 \notin DOMAIN fs
  BY <1>1, SeqFacts
<1>3. won = Charge(call, fs, have)
  BY DEF Charge
<1>4. First(notes) # 0 => First(notes) \in notes
  <2>1. notes \in SUBSET Nat
    BY <1>2
  <2> HIDE DEF notes
  <2> QED BY <2>1, LeastFound
<1>5. First(flags) # 0 => First(flags) \in flags
  <2>1. flags \in SUBSET Nat
    BY <1>2
  <2> HIDE DEF flags
  <2> QED BY <2>1, LeastFound
<1>6. ASSUME NEW i \in DOMAIN fs
      PROVE  LET o == Outcome(call, fs, have, won, i) IN
             o.state = "delivered" \/ o.by = "arm_off" => i = won.note \/ i = won.flag
  <2>1. Refused(call, fs, i) # "arm_off"
    BY DEF Refused
  <2>2. Unaffordable(fs[i], have) # "arm_off"
    BY DEF Unaffordable
  <2> HIDE DEF won, fs
  <2> QED BY <2>1, <2>2 DEF Outcome
<1>7. ASSUME NEW i \in DOMAIN lines
      PROVE  /\ i \in DOMAIN fs /\ i # 0
             /\ lines[i].level = LevelOf(call, fs[i]) /\ lines[i].key = fs[i].key
             /\ lines[i].own = fs[i].own /\ lines[i].reserve = fs[i].reserve
             /\ Counted(lines[i]) => i = won.note \/ i = won.flag
  <2>1. i \in DOMAIN fs
    BY DEF Lines
  <2>2. /\ lines[i].level = LevelOf(call, fs[i]) /\ lines[i].key = fs[i].key
        /\ lines[i].own = fs[i].own /\ lines[i].reserve = fs[i].reserve
        /\ lines[i].state = Outcome(call, fs, have, won, i).state
        /\ lines[i].by = Outcome(call, fs, have, won, i).by
    <3> HIDE DEF won
    <3> QED BY <1>3, <2>1 DEF Lines
  <2> HIDE DEF lines, won, fs
  <2> QED BY <1>2, <1>6, <2>1, <2>2 DEF Counted
<1>8. /\ won.note # 0 => /\ LevelOf(call, fs[won.note]) = "nudge"
                         /\ Unaffordable(fs[won.note], have) = "" /\ won.note \in DOMAIN fs
      /\ won.flag # 0 => /\ LevelOf(call, fs[won.flag]) = "flag"
                         /\ have.flags < MaxFlags /\ won.flag \in DOMAIN fs
  BY <1>4, <1>5
<1> HIDE DEF won, lines, fs
<1>9. ASSUME NEW i \in DOMAIN lines, Counted(lines[i])
      PROVE  Allows(have, lines[i])
  <2>1. CASE i = won.note
    <3>1. /\ lines[i].level = "nudge" /\ Unaffordable(fs[i], have) = "" /\ IsFinding(fs[i])
          /\ lines[i].key = fs[i].key /\ lines[i].own = fs[i].own
          /\ lines[i].reserve = fs[i].reserve
      BY <1>1, <1>7, <1>8, <2>1
    <3>2. fs[i].key \notin have.keys /\ (fs[i].own \/ ~(have.notes + fs[i].reserve >= MaxNotes))
      BY <3>1 DEF Unaffordable
    <3>3. /\ ~(have.notes + fs[i].reserve >= MaxNotes) => have.notes + fs[i].reserve < MaxNotes
          /\ fs[i].reserve \in Nat
      <4>1. MaxNotes \in Nat /\ fs[i].reserve \in Nat
        BY <3>1, SteerAssumption DEF IsFinding
      <4> HIDE DEF fs
      <4> QED BY <4>1
    <3> QED BY <3>1, <3>2, <3>3 DEF Allows
  <2>2. CASE i = won.flag
    BY <1>7, <1>8, <2>2 DEF Allows
  <2> QED BY <1>7, <1>9, <2>1, <2>2
<1>10. ASSUME NEW i \in DOMAIN lines, NEW j \in DOMAIN lines,
              Counted(lines[i]), Counted(lines[j]), lines[i].level = lines[j].level
       PROVE  i = j
  <2>1. ASSUME NEW k \in DOMAIN lines, Counted(lines[k])
        PROVE  \/ k = won.note /\ lines[k].level = "nudge"
               \/ k = won.flag /\ lines[k].level = "flag"
    <3>1. k = won.note \/ k = won.flag
      BY <1>7, <2>1
    <3>2. k # 0 /\ lines[k].level = LevelOf(call, fs[k])
      BY <1>7
    <3>3. won.note # 0 => LevelOf(call, fs[won.note]) = "nudge"
      BY <1>8
    <3>4. won.flag # 0 => LevelOf(call, fs[won.flag]) = "flag"
      BY <1>8
    <3>5. CASE k = won.note
      BY <3>2, <3>3, <3>5
    <3>6. CASE k = won.flag
      BY <3>2, <3>4, <3>6
    <3> QED BY <3>1, <3>5, <3>6
  <2> QED BY <1>10, <2>1
<1> QED BY <1>9, <1>10 DEF lines

-----------------------------------------------------------------------------
(* A log within the budget.                                                *)

\* A line that counts against a cap: a note that is not on its own channel, or
\* a flag.
IsCharge(line, level) ==
  line.type = "note" /\ Counted(line) /\ line.level = level /\ (level = "nudge" => ~line.own)

\* What the call of a line had to count at a level.
ChargedTo(l, j, level) == {i \in DOMAIN l : IsCharge(l[i], level) /\ Reckoned(l, i, j)}

\* What countBudget finds of a prompt at a level.
Found(l, p, level) == {c \in OwnRun(l, p) : IsCharge(l[c], level)}

\* A line is allowed by what its call had to count.
Afforded(l, j) ==
  IF l[j].level = "nudge"
  THEN /\ ~l[j].own => /\ l[j].reserve \in Nat
                       /\ Cardinality(ChargedTo(l, j, "nudge")) + l[j].reserve < MaxNotes
       /\ \A i \in DOMAIN l :
            /\ l[i].type = "note" /\ Counted(l[i]) /\ l[i].level = "nudge" /\ Reckoned(l, i, j)
            => l[i].key # l[j].key
  ELSE Cardinality(ChargedTo(l, j, "flag")) < MaxFlags

InBudget(l) == \A j \in DOMAIN l : l[j].type = "note" /\ Counted(l[j]) => Afforded(l, j)

\* The lines of a log are numbered, and any set of them is finite.
LEMMA LogNumbers ==
  ASSUME NEW l, IsSeq(l)
  PROVE  /\ DOMAIN l = 1..Len(l) /\ Len(l) \in Nat /\ DOMAIN l \subseteq Nat
         /\ \A S \in SUBSET DOMAIN l : IsFiniteSet(S) /\ Cardinality(S) \in Nat
<1>1. DOMAIN l = 1..Len(l) /\ Len(l) \in Nat /\ DOMAIN l \subseteq Nat
  BY SeqFacts
<1>2. IsFiniteSet(1..Len(l))
  BY <1>1, FS_Interval
<1>3. \A S \in SUBSET DOMAIN l : IsFiniteSet(S) /\ Cardinality(S) \in Nat
  BY <1>1, <1>2, FS_Subset, FS_CardinalityType
<1> QED BY <1>1, <1>3

\* Which line a call had to see depends on nothing after the call's own.
LEMMA ReckonedBefore ==
  ASSUME NEW l, NEW m, IsSeq(l), IsSeq(m), Len(l) <= Len(m), \A i \in 1..Len(l) : m[i] = l[i],
         NEW i, NEW j \in DOMAIN l
  PROVE  i \in DOMAIN l /\ Reckoned(l, i, j) <=> i \in DOMAIN m /\ Reckoned(m, i, j)
<1>1. /\ DOMAIN l = 1..Len(l) /\ Len(l) \in Nat /\ DOMAIN m = 1..Len(m) /\ Len(m) \in Nat
      /\ DOMAIN l \subseteq DOMAIN m /\ \A k \in DOMAIN l : m[k] = l[k]
  BY LogNumbers
<1> DEFINE between(x) == {k \in DOMAIN x : i < k /\ k < j /\ x[k].type = "note"}
           own(x) == {k \in between(x) : x[k].prompt = x[j].prompt}
           foreign(x) == between(x) \ own(x)
<1>2. ASSUME i \in DOMAIN m, i < j
      PROVE  i \in DOMAIN l
  BY <1>1, <1>2
<1>3. between(l) = between(m)
  <2>1. ASSUME NEW k \in DOMAIN m, k < j PROVE k \in DOMAIN l
    BY <1>1, <2>1
  <2> QED BY <1>1, <2>1
<1>4. own(l) = own(m) /\ foreign(l) = foreign(m) /\ between(l) \subseteq DOMAIN l
  BY <1>1, <1>3
<1>5. \A x : Reckoned(x, i, j) <=>
        /\ i < j /\ x[i].prompt = x[j].prompt
        /\ OneBatch(x, foreign(x))
        /\ \A k \in own(x) : (\E f \in foreign(x) : f < k) => x[k].hook = x[j].hook
  BY DEF Reckoned
<1>6. foreign(l) \subseteq DOMAIN l /\ own(l) \subseteq DOMAIN l
  BY <1>4
<1> HIDE DEF own, foreign, between
<1>7. OneBatch(l, foreign(l)) <=> OneBatch(m, foreign(m))
  BY <1>1, <1>4, <1>6 DEF OneBatch
<1> QED BY <1>1, <1>2, <1>4, <1>5, <1>6, <1>7

\* A note of a prompt that one foreign batch at most follows, with no line of
\* the prompt after that, is in the run countBudget takes.
LEMMA RunMember ==
  ASSUME NEW l, IsSeq(l), NEW c \in DOMAIN l, l[c].type = "note",
         NEW foreign,
         foreign = {k \in DOMAIN l : c < k /\ l[k].type = "note" /\ l[k].prompt # l[c].prompt},
         OneBatch(l, foreign),
         \A k \in DOMAIN l : l[k].type = "note" /\ l[k].prompt = l[c].prompt
                               => \A f \in foreign : ~(f < k)
  PROVE  c \in OwnRun(l, l[c].prompt)
<1> DEFINE p == l[c].prompt
           notes == {i \in DOMAIN l : l[i].type = "note"}
           own == {i \in notes : l[i].prompt = p}
           last == Max(own \cup {0})
           tail == {i \in notes : i > last}
<1>1. DOMAIN l = 1..Len(l) /\ Len(l) \in Nat
  BY LogNumbers
<1>2. last \in own \cup {0} /\ \A i \in own : i <= last
  <2>1. own \cup {0} \in SUBSET Nat /\ own \cup {0} # {} /\ \A i \in own \cup {0} : i <= Len(l)
    BY <1>1
  <2> HIDE DEF own
  <2> QED BY <1>1, <2>1, GreatestFound
<1> HIDE DEF last
<1>3. c \in own /\ c <= last /\ last \in Nat /\ last \in own
  <2>1. c \in own /\ c \in Nat /\ c # 0
    BY <1>1
  <2>2. last \in Nat
    BY <1>1, <1>2
  <2>3. c <= last
    BY <1>2, <2>1
  <2>4. last # 0
    BY <2>1, <2>2, <2>3
  <2> QED BY <1>2, <2>1, <2>2, <2>3, <2>4
<1>4. tail \subseteq foreign
  <2> SUFFICES ASSUME NEW i \in tail PROVE i \in foreign
    OBVIOUS
  <2>1. i \in notes /\ i > last /\ i \in Nat /\ c \in Nat
    BY <1>1
  <2>2. i > c
    BY <1>3, <2>1
  <2>3. i \notin own
    <3>1. ~(i <= last)
      BY <1>3, <2>1
    <3> QED BY <1>2, <3>1
  <2> QED BY <2>1, <2>2, <2>3
<1>5. OneBatch(l, tail)
  BY <1>4 DEF OneBatch
<1>6. \A j \in notes : c < j /\ j < last => j \in own
  <2> SUFFICES ASSUME NEW j \in notes, c < j, j < last, j \notin own PROVE FALSE
    OBVIOUS
  <2>1. j \in foreign
    OBVIOUS
  <2> QED BY <1>3, <2>1
<1> HIDE DEF notes, own, tail
<1>7. OwnRun(l, p) = {i \in own : \A j \in notes : i < j /\ j < last => j \in own}
  BY <1>5 DEF OwnRun, notes, own, tail, last
<1> QED BY <1>3, <1>6, <1>7

\* What countBudget finds is numbers.
LEMMA CountFacts ==
  ASSUME NEW l, IsSeq(l), NEW p
  PROVE  /\ Count(l, p).notes \in Nat /\ Count(l, p).flags \in Nat
         /\ OwnRun(l, p) \subseteq DOMAIN l
<1>1. OwnRun(l, p) \subseteq DOMAIN l
  BY DEF OwnRun
<1> DEFINE run == {i \in OwnRun(l, p) : Counted(l[i])}
           notes == {i \in run : l[i].level = "nudge"}
<1>2. {i \in notes : ~l[i].own} \in SUBSET DOMAIN l /\ run \ notes \in SUBSET DOMAIN l
  BY <1>1
<1>3. Count(l, p).notes = Cardinality({i \in notes : ~l[i].own})
      /\ Count(l, p).flags = Cardinality(run \ notes)
  BY DEF Count
<1> HIDE DEF run, notes
<1> QED BY <1>1, <1>2, <1>3, LogNumbers

\* What a batch of lines is, to the budget, after a log l: no notes, or the
\* notes of one prompt and a hook that has none in the log, with one charge a
\* level at most, which the log allows.
Chargeable(l, b, n) ==
  \/ \A i \in 1..n : b[i].type # "note"
  \/ \E p : /\ \A i \in 1..n : /\ b[i].type = "note" /\ b[i].prompt = p
                               /\ \A k \in DOMAIN l : l[k].type = "note" => l[k].hook # b[i].hook
                               /\ Counted(b[i]) => Allows(Count(l, p), b[i])
            /\ \A i, j \in 1..n : Counted(b[i]) /\ Counted(b[j]) /\ b[i].level = b[j].level => i = j

\* A log with the first n lines of a batch at its end.
Extends(m, l, b, n) ==
  /\ IsSeq(l) /\ IsSeq(m) /\ Len(m) = Len(l) + n
  /\ \A i \in 1..Len(l) : m[i] = l[i]
  /\ \A i \in 1..n : m[Len(l) + i] = b[i]

\* An old line that a new line's call had to see is in the run it counted: a
\* foreign batch between the two is the last of the log.
LEMMA OldIsCounted ==
  ASSUME NEW l, NEW m, NEW b, NEW n \in Nat, Extends(m, l, b, n),
         NEW c \in DOMAIN l, l[c].type = "note", NEW j \in 1..n,
         \A k \in DOMAIN l : l[k].type = "note" => l[k].hook # b[j].hook,
         Reckoned(m, c, Len(l) + j)
  PROVE  c \in OwnRun(l, b[j].prompt)
<1> DEFINE x == Len(l) + j
           between == {k \in DOMAIN m : c < k /\ k < x /\ m[k].type = "note"}
           own == {k \in between : m[k].prompt = m[x].prompt}
           foreign == between \ own
           old == {k \in DOMAIN l : c < k /\ l[k].type = "note" /\ l[k].prompt # l[c].prompt}
<1>1. DOMAIN l = 1..Len(l) /\ Len(l) \in Nat /\ DOMAIN m = 1..Len(m) /\ IsSeq(l)
      /\ Len(m) = Len(l) + n
  BY LogNumbers DEF Extends
<1>2. \A k \in DOMAIN l : k \in DOMAIN m /\ m[k] = l[k] /\ k < x
  BY <1>1 DEF Extends
<1>3. m[x] = b[j]
  BY DEF Extends
<1>4. /\ m[c].prompt = m[x].prompt /\ OneBatch(m, foreign)
      /\ \A k \in own : (\E f \in foreign : f < k) => m[k].hook = m[x].hook
  BY DEF Reckoned
<1>5. l[c].prompt = b[j].prompt
  BY <1>2, <1>3, <1>4
<1>6. old \subseteq foreign
  BY <1>2, <1>3, <1>5
<1>7. OneBatch(l, old)
  BY <1>2, <1>4, <1>6 DEF OneBatch
<1>8. ASSUME NEW k \in DOMAIN l, l[k].type = "note", l[k].prompt = l[c].prompt,
             NEW f \in old, f < k
      PROVE  FALSE
  <2>1. c < k
    BY <1>1, <1>8
  <2>2. k \in own
    BY <1>2, <1>3, <1>5, <1>8, <2>1
  <2>3. m[k].hook = m[x].hook
    BY <1>4, <1>6, <1>8, <2>2
  <2> QED BY <1>2, <1>3, <1>8, <2>3
<1> HIDE DEF old
<1>9. c \in OwnRun(l, l[c].prompt)
  BY <1>1, <1>7, <1>8, RunMember DEF old
<1> QED BY <1>5, <1>9

\* What a new line's call had to count, that it counted.
LEMMA ChargesFit ==
  ASSUME NEW l, NEW m, NEW b, NEW n \in Nat, Extends(m, l, b, n), NEW level,
         \A i, k \in 1..n : IsCharge(b[i], level) /\ IsCharge(b[k], level) => i = k,
         NEW j \in 1..n, IsCharge(b[j], level),
         \A k \in DOMAIN l : l[k].type = "note" => l[k].hook # b[j].hook
  PROVE  /\ Cardinality(ChargedTo(m, Len(l) + j, level)) \in Nat
         /\ Cardinality(Found(l, b[j].prompt, level)) \in Nat
         /\ Cardinality(ChargedTo(m, Len(l) + j, level))
              <= Cardinality(Found(l, b[j].prompt, level))
<1> DEFINE S == ChargedTo(m, Len(l) + j, level)
           run == Found(l, b[j].prompt, level)
<1>1. DOMAIN l = 1..Len(l) /\ Len(l) \in Nat /\ DOMAIN m = 1..Len(m) /\ IsSeq(l) /\ IsSeq(m)
      /\ Len(m) = Len(l) + n
  BY LogNumbers DEF Extends
<1>2. S \subseteq run
  <2> SUFFICES ASSUME NEW c \in S PROVE c \in run
    OBVIOUS
  <2>1. c \in DOMAIN m /\ IsCharge(m[c], level) /\ Reckoned(m, c, Len(l) + j)
    BY DEF ChargedTo
  <2>2. c < Len(l) + j
    BY <2>1 DEF Reckoned
  <2>3. c \in DOMAIN l
    <3> SUFFICES ASSUME c \notin DOMAIN l PROVE FALSE
      OBVIOUS
    <3>1. c - Len(l) \in 1..n /\ c = Len(l) + (c - Len(l))
      BY <1>1, <2>1
    <3>2. m[c] = b[c - Len(l)]
      BY <3>1 DEF Extends
    <3>3. c - Len(l) = j
      BY <2>1, <3>1, <3>2
    <3> QED BY <1>1, <2>2, <3>1, <3>3
  <2>4. m[c] = l[c]
    BY <1>1, <2>3 DEF Extends
  <2>5. c \in OwnRun(l, b[j].prompt)
    BY <2>1, <2>3, <2>4, OldIsCounted DEF IsCharge
  <2> QED BY <2>1, <2>4, <2>5 DEF Found
<1>3. S \in SUBSET DOMAIN m /\ run \in SUBSET DOMAIN l
  BY <1>1, CountFacts DEF ChargedTo, Found
<1> HIDE DEF S, run
<1>4. IsFiniteSet(run) /\ Cardinality(run) \in Nat /\ Cardinality(S) \in Nat
  BY <1>1, <1>3, LogNumbers
<1>5. Cardinality(S) <= Cardinality(run)
  BY <1>2, <1>4, FS_Subset
<1> QED BY <1>4, <1>5 DEF S, run

\* What countBudget counts is what the run was charged.
LEMMA CountedCharges ==
  ASSUME NEW l, IsSeq(l), NEW p
  PROVE  /\ Cardinality(Found(l, p, "nudge")) = Count(l, p).notes
         /\ Cardinality(Found(l, p, "flag")) <= Count(l, p).flags
         /\ Cardinality(Found(l, p, "flag")) \in Nat
         /\ \A c \in OwnRun(l, p) :
              Counted(l[c]) /\ l[c].level = "nudge" => l[c].key \in Count(l, p).keys
<1> DEFINE run == {i \in OwnRun(l, p) : Counted(l[i])}
           notes == {i \in run : l[i].level = "nudge"}
           flags == Found(l, p, "flag")
<1>1. \A c \in OwnRun(l, p) : l[c].type = "note" /\ c \in DOMAIN l
  BY DEF OwnRun
<1>2. /\ Count(l, p).notes = Cardinality({i \in notes : ~l[i].own})
      /\ Count(l, p).flags = Cardinality(run \ notes)
      /\ Count(l, p).keys = {l[i].key : i \in notes}
  BY DEF Count
<1>3. Found(l, p, "nudge") = {i \in notes : ~l[i].own}
  BY <1>1 DEF IsCharge, Found
<1>4. flags \subseteq run \ notes
  BY DEF IsCharge, Found
<1>5. run \ notes \in SUBSET DOMAIN l /\ flags \in SUBSET DOMAIN l
  BY <1>1 DEF Found
<1>6. \A c \in OwnRun(l, p) : Counted(l[c]) /\ l[c].level = "nudge" => c \in notes
  OBVIOUS
<1> HIDE DEF run, notes, flags
<1>7. Cardinality(flags) <= Cardinality(run \ notes) /\ Cardinality(flags) \in Nat
  BY <1>4, <1>5, LogNumbers, FS_Subset
<1> QED BY <1>2, <1>3, <1>6, <1>7 DEF flags

\* A line is afforded in a longer log if it was.
LEMMA AffordedStays ==
  ASSUME NEW l, NEW m, IsSeq(l), IsSeq(m), Len(l) <= Len(m), \A i \in 1..Len(l) : m[i] = l[i],
         NEW j \in DOMAIN l
  PROVE  Afforded(l, j) <=> Afforded(m, j)
<1>1. DOMAIN l = 1..Len(l) /\ m[j] = l[j] /\ \A i \in DOMAIN l : m[i] = l[i]
  BY LogNumbers
<1>2. \A i : i \in DOMAIN l /\ Reckoned(l, i, j) <=> i \in DOMAIN m /\ Reckoned(m, i, j)
  BY ReckonedBefore
<1>3. \A level : ChargedTo(l, j, level) = ChargedTo(m, j, level)
  <2> TAKE level
  <2>1. \A i : i \in ChargedTo(l, j, level) <=> i \in ChargedTo(m, j, level)
    BY <1>1, <1>2 DEF ChargedTo
  <2> QED BY <2>1
<1>4. (\A i \in DOMAIN l : /\ l[i].type = "note" /\ Counted(l[i]) /\ l[i].level = "nudge"
                           /\ Reckoned(l, i, j)
                           => l[i].key # l[j].key)
      <=> (\A i \in DOMAIN m : /\ m[i].type = "note" /\ Counted(m[i]) /\ m[i].level = "nudge"
                               /\ Reckoned(m, i, j)
                               => m[i].key # m[j].key)
  BY <1>1, <1>2
<1> QED BY <1>1, <1>3, <1>4 DEF Afforded

\* A batch that the log allows leaves it within the budget.
LEMMA BudgetGrows ==
  ASSUME NEW l, NEW m, NEW b, NEW n \in Nat, Extends(m, l, b, n),
         \A i \in 1..n : b[i].type = "note" => b[i].level \in {"nudge", "flag"},
         InBudget(l), Chargeable(l, b, n)
  PROVE  InBudget(m)
<1>1. DOMAIN l = 1..Len(l) /\ Len(l) \in Nat /\ DOMAIN m = 1..Len(m) /\ IsSeq(l) /\ IsSeq(m)
      /\ Len(m) = Len(l) + n
  BY LogNumbers DEF Extends
<1>2. MaxNotes \in Nat /\ MaxFlags \in Nat
  BY SteerAssumption
<1>3. ASSUME NEW level
      PROVE  \A i, j \in 1..n : IsCharge(b[i], level) /\ IsCharge(b[j], level) => i = j
  BY DEF Chargeable, IsCharge
<1>4. ASSUME NEW j \in DOMAIN l, m[j].type = "note", Counted(m[j])
      PROVE  Afforded(m, j)
  <2>1. m[j] = l[j] /\ Len(l) <= Len(m) /\ \A i \in 1..Len(l) : m[i] = l[i]
    BY <1>1 DEF Extends
  <2>2. Afforded(l, j)
    BY <1>4, <2>1 DEF InBudget
  <2> QED BY <1>1, <2>1, <2>2, AffordedStays
<1>5. ASSUME NEW j \in 1..n, b[j].type = "note", Counted(b[j])
      PROVE  Afforded(m, Len(l) + j)
  <2> DEFINE x == Len(l) + j
             have == Count(l, b[j].prompt)
  <2>1. m[x] = b[j]
    BY DEF Extends
  <2>2. /\ Allows(have, b[j]) /\ b[j].level \in {"nudge", "flag"}
        /\ \A k \in DOMAIN l : l[k].type = "note" => l[k].hook # b[j].hook
    BY <1>5 DEF Chargeable
  <2>3. ASSUME b[j].level = "nudge", ~b[j].own
        PROVE  b[j].reserve \in Nat /\ Cardinality(ChargedTo(m, x, "nudge")) + b[j].reserve < MaxNotes
    <3>1. b[j].reserve \in Nat /\ have.notes + b[j].reserve < MaxNotes /\ have.notes \in Nat
      BY <1>1, <2>2, <2>3, CountFacts DEF Allows
    <3>2. Cardinality(Found(l, b[j].prompt, "nudge")) = have.notes
      BY <1>1, CountedCharges
    <3>3. /\ IsCharge(b[j], "nudge")
          /\ \A i, k \in 1..n : IsCharge(b[i], "nudge") /\ IsCharge(b[k], "nudge") => i = k
      BY <1>3, <1>5, <2>3 DEF IsCharge
    <3>4. /\ Cardinality(ChargedTo(m, x, "nudge")) \in Nat
          /\ Cardinality(ChargedTo(m, x, "nudge")) <= Cardinality(Found(l, b[j].prompt, "nudge"))
      BY <2>2, <3>3, ChargesFit
    <3> HIDE DEF have, x
    <3> QED BY <1>2, <3>1, <3>2, <3>4
  <2>4. ASSUME b[j].level = "nudge", NEW i \in DOMAIN m, m[i].type = "note", Counted(m[i]),
               m[i].level = "nudge", Reckoned(m, i, x)
        PROVE  m[i].key # b[j].key
    <3>1. i < x
      BY <2>4 DEF Reckoned
    <3>2. i \in DOMAIN l
      <4> SUFFICES ASSUME i \notin DOMAIN l PROVE FALSE
        OBVIOUS
      <4>1. i - Len(l) \in 1..n /\ i = Len(l) + (i - Len(l))
        BY <1>1, <2>4
      <4>2. m[i] = b[i - Len(l)]
        BY <4>1 DEF Extends
      <4>3. i - Len(l) = j
        BY <1>5, <2>4, <4>1, <4>2 DEF Chargeable
      <4> QED BY <1>1, <3>1, <4>1, <4>3
    <3>3. m[i] = l[i]
      BY <1>1, <3>2 DEF Extends
    <3>4. i \in OwnRun(l, b[j].prompt)
      BY <2>2, <2>4, <3>2, <3>3, OldIsCounted
    <3>5. l[i].key \in have.keys
      BY <1>1, <2>4, <3>3, <3>4, CountedCharges
    <3>6. b[j].key \notin have.keys
      BY <2>2, <2>4 DEF Allows
    <3> HIDE DEF have
    <3> QED BY <3>3, <3>5, <3>6
  <2>5. ASSUME b[j].level = "flag"
        PROVE  Cardinality(ChargedTo(m, x, "flag")) < MaxFlags
    <3>1. have.flags < MaxFlags /\ have.flags \in Nat
      BY <1>1, <2>2, <2>5, CountFacts DEF Allows
    <3>2. Cardinality(Found(l, b[j].prompt, "flag")) <= have.flags
      BY <1>1, CountedCharges
    <3>3. /\ IsCharge(b[j], "flag")
          /\ \A i, k \in 1..n : IsCharge(b[i], "flag") /\ IsCharge(b[k], "flag") => i = k
      BY <1>3, <1>5, <2>5 DEF IsCharge
    <3>4. /\ Cardinality(ChargedTo(m, x, "flag")) \in Nat
          /\ Cardinality(Found(l, b[j].prompt, "flag")) \in Nat
          /\ Cardinality(ChargedTo(m, x, "flag")) <= Cardinality(Found(l, b[j].prompt, "flag"))
      BY <2>2, <3>3, ChargesFit
    <3> HIDE DEF have, x
    <3> QED BY <1>2, <3>1, <3>2, <3>4
  <2> HIDE DEF x
  <2> QED BY <2>1, <2>2, <2>3, <2>4, <2>5 DEF Afforded, x
<1>6. ASSUME NEW x \in DOMAIN m, x \notin DOMAIN l, m[x].type = "note", Counted(m[x])
      PROVE  Afforded(m, x)
  <2>1. PICK j \in 1..n : x = Len(l) + j
    <3>1. x - Len(l) \in 1..n /\ x = Len(l) + (x - Len(l))
      BY <1>1, <1>6
    <3> QED BY <3>1
  <2>2. m[x] = b[j]
    BY <2>1 DEF Extends
  <2> QED BY <1>5, <1>6, <2>1, <2>2
<1> QED BY <1>4, <1>6 DEF InBudget

\* A log cut short is within the budget still.
LEMMA BudgetCut ==
  ASSUME NEW l, NEW m, IsSeq(l), IsSeq(m), Len(m) <= Len(l), \A i \in 1..Len(m) : m[i] = l[i],
         InBudget(l)
  PROVE  InBudget(m)
<1> SUFFICES ASSUME NEW j \in DOMAIN m, m[j].type = "note", Counted(m[j])
             PROVE  Afforded(m, j)
  BY DEF InBudget
<1>1. j \in DOMAIN l /\ l[j] = m[j] /\ \A i \in 1..Len(m) : l[i] = m[i]
  BY LogNumbers
<1>2. Afforded(l, j)
  BY <1>1 DEF InBudget
<1> QED BY <1>1, <1>2, AffordedStays

-----------------------------------------------------------------------------
(* What the hooks hold, and what of it is in the log.                      *)

Past == {"written", "flushed", "failed", "done"}

\* A note of the log is the line its hook holds, and the hook has written; only
\* a Stop judges.
Kept ==
  /\ \A i \in DOMAIN log : log[i].type = "note" =>
       /\ pc[log[i].hook] \in Past
       /\ log[i].n \in DOMAIN batch[log[i].hook] /\ log[i] = batch[log[i].hook][log[i].n]
  /\ \A h \in Hooks : pc[h] = "judged" => Kind[h] = "stop"

\* Where a hook comes to, and that it decides once.
LEMMA HookMoves ==
  ASSUME TypeOK, Whole, Kept, [Next]_vars, NEW h \in Hooks
  PROVE  /\ pc[h] \in Past => pc'[h] \in Past
         /\ pc[h] = "locked" => pc'[h] \in Past \cup {"locked"}
         /\ pc'[h] = "judged" => Kind[h] = "stop"
         /\ Kind[h] # "stop" => \/ Route(h)
                                \/ batch'[h] = batch[h] /\ (pc'[h] = "locked" => pc[h] = "locked")
<1>1. CASE Step(h)
  <2>a. MayBegin(h) => pc[h] = "idle"
    BY DEF MayBegin
  <2>b. pc[h] = "judged" => Kind[h] = "stop"
    BY DEF Kept
  <2>1. /\ pc[h] \in Past => pc'[h] \in Past
        /\ pc[h] = "locked" => pc'[h] \in Past \cup {"locked"}
    BY <1>1, <2>a DEF Step, ArmStale, StaleArmed, TakeStaleArm, SessionStart, Route, RouteNothing,
         AppendLines, AppendFails, ReturnNotice, Flush, FlushFails, PrintOut, CheckEvidence,
         LockForEvidence, TakeChannelEvidence, Kill, Goto, TypeOK, Past
  <2>2. pc'[h] = "judged" => Kind[h] = "stop"
    BY <1>1 DEF Step, ArmStale, StaleArmed, TakeStaleArm, SessionStart, Route, RouteNothing,
         AppendLines, AppendFails, ReturnNotice, Flush, FlushFails, PrintOut, CheckEvidence,
         LockForEvidence, TakeChannelEvidence, Kill, Goto, TypeOK
  <2>3. Kind[h] # "stop" /\ ~Route(h) => batch' = batch
    BY <1>1 DEF Step, ArmStale, StaleArmed, TakeStaleArm, SessionStart, RouteNothing,
         AppendLines, AppendFails, ReturnNotice, Flush, FlushFails, PrintOut, CheckEvidence,
         LockForEvidence, TakeChannelEvidence, Kill, local
  <2>4. Kind[h] # "stop" /\ ~Route(h) => (pc'[h] = "locked" => pc[h] = "locked")
    BY <1>1, <2>b DEF Step, ArmStale, StaleArmed, TakeStaleArm, SessionStart, RouteNothing,
         AppendLines, AppendFails, ReturnNotice, Flush, FlushFails, PrintOut, CheckEvidence,
         LockForEvidence, TakeChannelEvidence, Kill, Goto, TypeOK
  <2> QED BY <2>1, <2>2, <2>3, <2>4
<1>2. ASSUME pc'[h] = pc[h] \/ pc'[h] = "done", batch'[h] = batch[h]
      PROVE  /\ pc[h] \in Past => pc'[h] \in Past
             /\ pc[h] = "locked" => pc'[h] \in Past \cup {"locked"}
             /\ pc'[h] = "judged" => Kind[h] = "stop"
             /\ batch'[h] = batch[h] /\ (pc'[h] = "locked" => pc[h] = "locked")
  BY <1>2 DEF Past, Kept
<1>3. CASE \E g \in Hooks \ {h} : Step(g)
  BY <1>2, <1>3, OthersStay
<1>4. CASE NextPrompt \/ Upgrade \/ UNCHANGED vars
  BY <1>2, <1>4 DEF NextPrompt, Upgrade, vars, local
<1>5. CASE PowerLoss
  BY <1>2, <1>5 DEF PowerLoss
<1> QED BY <1>1, <1>3, <1>4, <1>5 DEF Next

\* Each step leaves the log's notes as their hooks hold them.
LEMMA KeptStep ==
  ASSUME TypeOK, Whole, Kept, [Next]_vars
  PROVE  Kept'
<1>1. DOMAIN log = 1..Len(log) /\ Len(log) \in Nat
  BY SeqFacts DEF Whole
<1>2. \A i \in DOMAIN log : log[i].type = "note" => log[i].hook \in Hooks /\ Kind[log[i].hook] # "stop"
  BY DEF Whole, IsNote, IsVerdict
<1>3. \A h \in Hooks : pc[h] \in Past => ~Route(h)
  BY DEF Route, Past
<1>4. ASSUME NEW i \in DOMAIN log, log[i].type = "note"
      PROVE  /\ pc'[log[i].hook] \in Past
             /\ log[i].n \in DOMAIN batch'[log[i].hook] /\ log[i] = batch'[log[i].hook][log[i].n]
  BY <1>2, <1>3, <1>4, HookMoves DEF Kept
<1>5. ASSUME NEW h \in Hooks, NEW n \in Nat, pc[h] = "locked", pc'[h] # "locked",
             n \in 0..Len(batch[h]), Grown(h, n), batch' = batch
      PROVE  \A i \in DOMAIN log' : log'[i].type = "note" =>
               /\ pc'[log'[i].hook] \in Past
               /\ log'[i].n \in DOMAIN batch'[log'[i].hook]
               /\ log'[i] = batch'[log'[i].hook][log'[i].n]
  <2>1. DOMAIN log' = 1..Len(log') /\ Len(log') = Len(log) + n
    BY <1>5, SeqFacts DEF Grown
  <2>2. DOMAIN batch[h] = 1..Len(batch[h]) /\ Len(batch[h]) \in Nat
    BY SeqFacts DEF Whole, InHand
  <2>3. pc'[h] \in Past
    BY <1>5, HookMoves
  <2>4. ASSUME NEW i \in DOMAIN log', i \notin DOMAIN log, log'[i].type = "note"
        PROVE  /\ pc'[log'[i].hook] \in Past
               /\ log'[i].n \in DOMAIN batch'[log'[i].hook]
               /\ log'[i] = batch'[log'[i].hook][log'[i].n]
    <3>1. PICK j \in 1..n : i = Len(log) + j
      <4>1. i - Len(log) \in 1..n /\ i = Len(log) + (i - Len(log))
        BY <1>1, <2>1, <2>4
      <4> QED BY <4>1
    <3>2. log'[i] = batch[h][j] /\ j \in DOMAIN batch[h]
      BY <1>5, <2>2, <3>1 DEF Grown
    <3>3. log'[i].hook = h /\ log'[i].n = j
      BY <2>4, <3>2 DEF Whole, InHand, IsVerdict
    <3> QED BY <1>5, <2>3, <3>2, <3>3
  <2>5. \A i \in DOMAIN log : log'[i] = log[i]
    BY <1>1, <1>5 DEF Grown
  <2> QED BY <1>4, <2>4, <2>5
<1>6. ASSUME NEW n \in synced..Len(log), CutAt(n)
      PROVE  \A i \in DOMAIN log' : i \in DOMAIN log /\ log'[i] = log[i]
  <2>1. DOMAIN log' = 1..n
    BY <1>6, SeqFacts DEF CutAt
  <2>2. synced \in 0..Len(log)
    BY DEF TypeOK
  <2> QED BY <1>1, <1>6, <2>1, <2>2 DEF CutAt
<1>7. \A i \in DOMAIN log' : log'[i].type = "note" =>
        /\ pc'[log'[i].hook] \in Past
        /\ log'[i].n \in DOMAIN batch'[log'[i].hook]
        /\ log'[i] = batch'[log'[i].hook][log'[i].n]
  BY <1>4, <1>5, <1>6, LogStep
<1>8. \A h \in Hooks : pc'[h] = "judged" => Kind[h] = "stop"
  BY HookMoves
<1> QED BY <1>7, <1>8 DEF Kept

\* The lines a call decided: its prompt's, and one charge a level at most.
Charges(h) ==
  Kind[h] # "stop" =>
    /\ \A n \in DOMAIN batch[h] : batch[h][n].prompt = Prompt[h]
    /\ \A m, n \in DOMAIN batch[h] :
         Counted(batch[h][m]) /\ Counted(batch[h][n]) /\ batch[h][m].level = batch[h][n].level => m = n

\* A hook that has the lock has decided on what the log says now.
Affords(h) ==
  pc[h] = "locked" /\ Kind[h] # "stop" =>
    \A n \in DOMAIN batch[h] : Counted(batch[h][n]) => Allows(Count(log, Prompt[h]), batch[h][n])

\* A hook's line says what was decided of it.
LEMMA NoteCopies ==
  ASSUME NEW h, NEW i, NEW line, NEW notice
  PROVE  LET l == NoteLine(h, i, line, notice) IN
         /\ l.prompt = Prompt[h] /\ l.level = line.level /\ l.key = line.key
         /\ l.own = line.own /\ l.reserve = line.reserve /\ l.state = line.state /\ l.by = line.by
BY DEF NoteLine

\* Route decides so.
LEMMA RouteCharges ==
  ASSUME TypeOK, Whole, NEW h \in Hooks, Route(h)
  PROVE  Charges(h)' /\ Affords(h)'
<1>1. Kind[h] # "stop" /\ log' = log
  BY DEF Route, Whole
<1>2. PICK call \in Calls[h] :
       LET lines == Lines(Routed(h, call), Count(log, Prompt[h]))
           at == NoticeLine(lines)
           name == IF at = 0 THEN "" ELSE NoticeOf(lines[at])
           takes == at # 0 /\ name \notin notices
       IN batch' = [batch EXCEPT ![h] =
                      [i \in DOMAIN lines |-> NoteLine(h, i, lines[i], takes /\ i = at)]]
  BY DEF Route
<1> DEFINE have == Count(log, Prompt[h])
           lines == Lines(Routed(h, call), have)
           at == NoticeLine(lines)
           name == IF at = 0 THEN "" ELSE NoticeOf(lines[at])
           takes == at # 0 /\ name \notin notices
           b == [i \in DOMAIN lines |-> NoteLine(h, i, lines[i], takes /\ i = at)]
<1>3. IsCall(Routed(h, call))
  BY <1>1, SteerAssumption DEF IsCall, Routed
<1>4. have.notes \in Nat /\ have.flags \in Nat
  BY CountFacts DEF Whole
<1>5. batch'[h] = b
  BY <1>2 DEF Whole
<1> HIDE DEF have
<1>6. /\ \A i \in DOMAIN lines : Counted(lines[i]) => Allows(have, lines[i])
      /\ \A i, j \in DOMAIN lines :
           Counted(lines[i]) /\ Counted(lines[j]) /\ lines[i].level = lines[j].level => i = j
  BY <1>3, <1>4, ChargeFacts
<1> HIDE DEF lines, at, takes
<1>7. \A i \in DOMAIN lines : b[i] = NoteLine(h, i, lines[i], takes /\ i = at)
  OBVIOUS
<1>8. DOMAIN b = DOMAIN lines
  OBVIOUS
<1> HIDE DEF b
<1>9. \A i \in DOMAIN lines :
        /\ b[i].prompt = Prompt[h] /\ b[i].level = lines[i].level /\ b[i].key = lines[i].key
        /\ b[i].own = lines[i].own /\ b[i].reserve = lines[i].reserve
        /\ b[i].state = lines[i].state /\ b[i].by = lines[i].by
  BY <1>7, NoteCopies
<1>10. \A i \in DOMAIN lines : (Counted(b[i]) <=> Counted(lines[i]))
                               /\ (Allows(have, lines[i]) => Allows(have, b[i]))
  BY <1>9 DEF Counted, Allows
<1>11. Charges(h)'
  BY <1>5, <1>6, <1>8, <1>9, <1>10 DEF Charges
<1>12. Affords(h)'
  BY <1>1, <1>5, <1>6, <1>8, <1>10 DEF Affords, have
<1> QED BY <1>11, <1>12

\* The log is within the budget, and whoever has the lock keeps it there.
BudgetInv == Kept /\ (\A h \in Hooks : Charges(h) /\ Affords(h)) /\ InBudget(log)

\* Each step keeps it there.
LEMMA BudgetStep ==
  ASSUME TypeOK, Whole, BudgetInv, [Next]_vars
  PROVE  BudgetInv'
<1>1. Kept /\ (\A h \in Hooks : Charges(h) /\ Affords(h)) /\ InBudget(log)
  BY DEF BudgetInv
<1>2. ASSUME NEW g \in Hooks PROVE Charges(g)'
  <2>1. CASE Route(g)
    BY <2>1, RouteCharges
  <2>2. CASE Kind[g] # "stop" /\ ~Route(g)
    <3>1. batch'[g] = batch[g]
      BY <1>1, <2>2, HookMoves
    <3> QED BY <1>1, <3>1 DEF Charges
  <2> QED BY <2>1, <2>2 DEF Charges
<1>3. ASSUME NEW g \in Hooks PROVE Affords(g)'
  <2>1. CASE Route(g)
    BY <2>1, RouteCharges
  <2>2. CASE pc'[g] = "locked" /\ Kind[g] # "stop" /\ ~Route(g)
    <3>1. batch'[g] = batch[g] /\ pc[g] = "locked"
      BY <1>1, <2>2, HookMoves
    <3>2. ~PowerLoss
      BY <2>2, <3>1 DEF PowerLoss, Live
    <3>3. \A h \in Hooks : pc[h] = "locked" => h = g
      BY <3>1 DEF Whole
    <3>4. log' = log
      BY <2>2, <3>2, <3>3, LogStep
    <3> QED BY <1>1, <3>1, <3>4 DEF Affords
  <2> QED BY <2>1, <2>2 DEF Affords
<1>4. ASSUME NEW h \in Hooks, NEW n \in Nat, pc[h] = "locked", n \in 0..Len(batch[h]), Grown(h, n)
      PROVE  InBudget(log')
  <2>1. \A i \in 1..n : i \in DOMAIN batch[h]
    BY <1>4, SeqFacts DEF Whole, InHand
  <2>2. Extends(log', log, batch[h], n)
    BY <1>4 DEF Extends, Grown, Whole
  <2>3. Chargeable(log, batch[h], n)
    <3>1. CASE Kind[h] = "stop"
      BY <2>1, <3>1 DEF Chargeable, Whole, InHand, IsVerdict
    <3>2. CASE Kind[h] # "stop"
      <4>1. \A i \in 1..n : batch[h][i].type = "note" /\ batch[h][i].prompt = Prompt[h]
        BY <1>1, <2>1, <3>2 DEF Whole, InHand, IsNote, Charges
      <4>2. \A i \in 1..n : Counted(batch[h][i]) => Allows(Count(log, Prompt[h]), batch[h][i])
        BY <1>1, <1>4, <2>1, <3>2 DEF Affords
      <4>3. \A i, j \in 1..n :
              Counted(batch[h][i]) /\ Counted(batch[h][j]) /\ batch[h][i].level = batch[h][j].level
              => i = j
        BY <1>1, <2>1, <3>2 DEF Charges
      <4>4. \A i \in 1..n : \A k \in DOMAIN log : log[k].type = "note" => log[k].hook # batch[h][i].hook
        <5>1. \A k \in DOMAIN log : log[k].type = "note" => log[k].hook # h
          BY <1>1, <1>4 DEF Kept, Past
        <5>2. \A i \in 1..n : batch[h][i].hook = h
          BY <2>1, <3>2 DEF Whole, InHand
        <5> QED BY <5>1, <5>2
      <4> QED BY <4>1, <4>2, <4>3, <4>4 DEF Chargeable
    <3> QED BY <3>1, <3>2
  <2>4. \A i \in 1..n : batch[h][i].type = "note" => batch[h][i].level \in {"nudge", "flag"}
    BY <2>1 DEF Whole, InHand, IsVerdict, IsNote, IsLine
  <2> QED BY <1>1, <2>2, <2>3, <2>4, BudgetGrows
<1>5. ASSUME NEW n \in synced..Len(log), CutAt(n)
      PROVE  InBudget(log')
  <2>1. IsSeq(log) /\ Len(log) \in Nat /\ synced \in 0..Len(log)
    BY SeqFacts DEF Whole, TypeOK
  <2>2. IsSeq(log') /\ Len(log') <= Len(log) /\ \A i \in 1..Len(log') : log'[i] = log[i]
    BY <1>5, <2>1 DEF CutAt
  <2> QED BY <1>1, <2>1, <2>2, BudgetCut
<1>6. InBudget(log')
  BY <1>1, <1>4, <1>5, LogStep
<1>7. InBudget(log)'
  BY <1>6 DEF InBudget, Afforded, ChargedTo, IsCharge, Reckoned, OneBatch, Counted
<1> QED BY <1>1, <1>2, <1>3, <1>7, KeptStep DEF BudgetInv

\* What is printed was counted, at the level it was printed at.
LEMMA PrintedIsCounted ==
  ASSUME TypeOK, Whole, PrintInv, Kept, NEW what, NEW i \in PrintedLines(what)
  PROVE  /\ i \in DOMAIN log /\ log[i].type = "note"
         /\ what = "note" => Counted(log[i]) /\ log[i].level = "nudge"
         /\ what = "flag" => Counted(log[i]) /\ log[i].level = "flag"
<1>1. PICK h \in shown : out[h].what = what /\ i \in At(h)
  BY DEF PrintedLines
<1>2. i \in DOMAIN log /\ log[i].type = "note" /\ log[i].hook = h /\ log[i].n = out[h].line
  BY <1>1 DEF At
<1>3. h \in Hooks /\ out[h] # Nothing
  BY DEF TypeOK, PrintInv
<1>4. Says(batch[h][out[h].line], out[h].what)
  BY <1>3 DEF PrintInv, Recorded
<1>5. log[i] = batch[h][out[h].line]
  BY <1>2 DEF Kept
<1> QED BY <1>1, <1>2, <1>4, <1>5 DEF Says, Counted

\* However a prompt's hooks interleave, fail, are killed or lose power, and
\* although a foreign batch comes among its lines, a call prints a note or a
\* flag only below the cap, less what the note leaves to the others, and no note
\* twice: each call is charged to the log under its lock, and appends before
\* anybody else is.
THEOREM BudgetIsKept == Spec => []BudgetKept
<1>1. Init => TypeOK /\ Whole /\ PrintInv /\ BudgetInv
  <2> SUFFICES ASSUME Init PROVE BudgetInv
    BY TypeInit, PrintInit
  <2>1. log = <<>> /\ \A h \in Hooks : batch[h] = <<>> /\ pc[h] = "idle"
    BY DEF Init
  <2>2. DOMAIN <<>> = {}
    OBVIOUS
  <2> QED BY <2>1, <2>2 DEF BudgetInv, Kept, Charges, Affords, InBudget
<1>2. TypeOK /\ Whole /\ PrintInv /\ BudgetInv /\ [Next]_vars
        => TypeOK' /\ Whole' /\ PrintInv' /\ BudgetInv'
  BY TypeStep, PrintStep, BudgetStep
<1>3. TypeOK /\ Whole /\ PrintInv /\ BudgetInv => BudgetKept
  <2> SUFFICES ASSUME TypeOK, Whole, PrintInv, BudgetInv PROVE BudgetKept
    OBVIOUS
  <2>a. Kept /\ InBudget(log)
    BY DEF BudgetInv
  <2>b. MaxNotes \in Nat /\ MaxFlags \in Nat /\ IsSeq(log)
    BY SteerAssumption DEF Whole
  <2>1. ASSUME NEW what, NEW level, \/ what = "note" /\ level = "nudge"
                                    \/ what = "flag" /\ level = "flag",
               NEW j \in PrintedLines(what)
        PROVE  /\ j \in DOMAIN log /\ log[j].type = "note" /\ Counted(log[j])
               /\ log[j].level = level /\ Afforded(log, j)
               /\ Cardinality(Had(j, what)) \in Nat /\ Cardinality(ChargedTo(log, j, level)) \in Nat
               /\ Cardinality(Had(j, what)) <= Cardinality(ChargedTo(log, j, level))
    <3>1. /\ j \in DOMAIN log /\ log[j].type = "note" /\ Counted(log[j]) /\ log[j].level = level
      BY <2>a, <2>1, PrintedIsCounted
    <3>2. Had(j, what) \subseteq ChargedTo(log, j, level)
      <4> SUFFICES ASSUME NEW i \in Had(j, what) PROVE i \in ChargedTo(log, j, level)
        OBVIOUS
      <4>1. i \in PrintedLines(what) /\ ~log[i].own /\ Reckoned(log, i, j)
        BY DEF Had
      <4>2. i \in DOMAIN log /\ log[i].type = "note" /\ Counted(log[i]) /\ log[i].level = level
        BY <2>a, <2>1, <4>1, PrintedIsCounted
      <4> QED BY <4>1, <4>2 DEF ChargedTo, IsCharge
    <3>3. ChargedTo(log, j, level) \in SUBSET DOMAIN log
      BY DEF ChargedTo
    <3>4. IsFiniteSet(ChargedTo(log, j, level)) /\ Cardinality(ChargedTo(log, j, level)) \in Nat
      BY <2>b, <3>3, LogNumbers
    <3>5. IsFiniteSet(Had(j, what)) /\ Cardinality(Had(j, what)) <= Cardinality(ChargedTo(log, j, level))
      BY <3>2, <3>4, FS_Subset
    <3>6. Cardinality(Had(j, what)) \in Nat
      BY <3>5, FS_CardinalityType
    <3>7. Afforded(log, j)
      BY <2>a, <3>1 DEF InBudget
    <3> QED BY <3>1, <3>4, <3>5, <3>6, <3>7
  <2>2. ASSUME NEW j \in PrintedLines("note"), ~log[j].own
        PROVE  Cardinality(Had(j, "note")) + log[j].reserve < MaxNotes
    <3>1. /\ log[j].reserve \in Nat
          /\ Cardinality(ChargedTo(log, j, "nudge")) + log[j].reserve < MaxNotes
      BY <2>1, <2>2 DEF Afforded
    <3>2. /\ Cardinality(Had(j, "note")) \in Nat /\ Cardinality(ChargedTo(log, j, "nudge")) \in Nat
          /\ Cardinality(Had(j, "note")) <= Cardinality(ChargedTo(log, j, "nudge"))
      BY <2>1
    <3> QED BY <2>b, <3>1, <3>2
  <2>3. ASSUME NEW i \in PrintedLines("note"), NEW j \in PrintedLines("note"), Reckoned(log, i, j)
        PROVE  log[i].key # log[j].key
    BY <2>1, <2>3 DEF Afforded
  <2>4. ASSUME NEW j \in PrintedLines("flag")
        PROVE  Cardinality(Had(j, "flag")) < MaxFlags
    <3>1. Cardinality(ChargedTo(log, j, "flag")) < MaxFlags
      BY <2>1 DEF Afforded
    <3>2. /\ Cardinality(Had(j, "flag")) \in Nat /\ Cardinality(ChargedTo(log, j, "flag")) \in Nat
          /\ Cardinality(Had(j, "flag")) <= Cardinality(ChargedTo(log, j, "flag"))
      BY <2>1
    <3> QED BY <2>b, <3>1, <3>2
  <2> QED BY <2>2, <2>3, <2>4 DEF BudgetKept
<1> QED BY <1>1, <1>2, <1>3, PTL DEF Spec

-----------------------------------------------------------------------------
(* A channel that shows its notes.                                         *)

\* A note that was told and that no transcript will show: its hook is done.
Missed(h, n) ==
  /\ h \in Hooks /\ pc[h] = "done" /\ n \in DOMAIN batch[h]
  /\ batch[h][n].type = "note" /\ batch[h][n].told /\ ~Reached(batch[h][n])

\* Two hooks of an event missed a note each.
TwoMissed(e) ==
  \E f, g \in Hooks : /\ f # g /\ EventOf(f) = e /\ EventOf(g) = e
                      /\ (\E n \in DOMAIN batch[f] : Missed(f, n))
                      /\ (\E n \in DOMAIN batch[g] : Missed(g, n))

\* A verdict with a streak is of a missed note, and a streak of two is of two
\* hooks' notes.
Bears(v) ==
  /\ v.event = EventOf(v.hook)
  /\ v.streak # 0 => Missed(v.hook, v.n)
  /\ v.streak >= 2 => TwoMissed(v.event)

\* The verdicts in the log and in the Stops' hands.
InLog == {log[i] : i \in {j \in DOMAIN log : log[j].type = "evidence"}}
InHands == UNION {{batch[h][n] : n \in DOMAIN batch[h]} : h \in {g \in Hooks : Kind[g] = "stop"}}

\* They bear what they say, and the markers stand on them.
ChannelInv ==
  /\ \A v \in InLog \cup InHands : Bears(v)
  /\ \A e \in Events : shadow[e] \in carries => TwoMissed(e)

\* The hooks that have begun are finitely many, and the others hold nothing.
Begun == {h \in Hooks : pc[h] # "idle"}
BegunInv == IsFiniteSet(Begun) /\ \A h \in Hooks \ Begun : batch[h] = <<>>

\* A hook that is done has what it had, and what it printed.
LEMMA DoneStays ==
  ASSUME TypeOK, Whole, Kept, [Next]_vars, NEW h \in Hooks, pc[h] = "done", Kind[h] # "stop"
  PROVE  /\ pc'[h] = "done" /\ batch'[h] = batch[h] /\ out'[h] = out[h]
         /\ (h \in shown' <=> h \in shown) /\ carries' = carries
<1>1. batch'[h] = batch[h]
  <2>1. ~Route(h)
    BY DEF Route
  <2> QED BY <2>1, HookMoves
<1>2. pc'[h] = "done" /\ out'[h] = out[h] /\ (h \in shown' <=> h \in shown)
  <2>1. ~Step(h)
    BY StepShows
  <2>2. CASE \E g \in Hooks : Step(g)
    <3>1. PICK g \in Hooks : Step(g)
      BY <2>2
    <3>2. g # h
      BY <2>1, <3>1
    <3> QED BY <3>1, <3>2, OthersStay, StepShows
  <2>3. CASE NextPrompt \/ Upgrade \/ UNCHANGED vars
    BY <2>3 DEF NextPrompt, Upgrade, vars, local, history
  <2>4. CASE PowerLoss
    BY <2>4 DEF PowerLoss, Live
  <2> QED BY <2>2, <2>3, <2>4 DEF Next
<1>3. carries' = carries
  BY DEF Next, NextPrompt, Upgrade, PowerLoss, vars, session, Step, ArmStale, StaleArmed,
         TakeStaleArm, SessionStart, Route, RouteNothing, AppendLines, AppendFails, ReturnNotice,
         Flush, FlushFails, PrintOut, CheckEvidence, LockForEvidence, TakeChannelEvidence, Kill
<1> QED BY <1>1, <1>2, <1>3

\* A missed note stays missed.
LEMMA MissedStays ==
  ASSUME TypeOK, Whole, Kept, [Next]_vars, NEW h, NEW n, Missed(h, n)
  PROVE  Missed(h, n)'
<1>1. h \in Hooks /\ pc[h] = "done" /\ n \in DOMAIN batch[h] /\ batch[h][n].type = "note"
  BY DEF Missed
<1>2. Kind[h] # "stop" /\ batch[h][n].hook = h
  BY <1>1 DEF Whole, InHand, IsVerdict
<1>3. /\ pc'[h] = "done" /\ batch'[h] = batch[h] /\ out'[h] = out[h]
      /\ (h \in shown' <=> h \in shown) /\ carries' = carries
  BY <1>1, <1>2, DoneStays
<1> QED BY <1>1, <1>2, <1>3 DEF Missed, Reached

\* And so does what rests on it.
LEMMA TwoStay ==
  ASSUME TypeOK, Whole, Kept, [Next]_vars, NEW e, TwoMissed(e)
  PROVE  TwoMissed(e)'
<1>1. PICK f \in Hooks, g \in Hooks :
        /\ f # g /\ EventOf(f) = e /\ EventOf(g) = e
        /\ (\E n \in DOMAIN batch[f] : Missed(f, n))
        /\ (\E n \in DOMAIN batch[g] : Missed(g, n))
  BY DEF TwoMissed
<1>2. ASSUME NEW h \in Hooks, \E n \in DOMAIN batch[h] : Missed(h, n)
      PROVE  \E n \in DOMAIN batch'[h] : Missed(h, n)'
  <2>1. PICK n \in DOMAIN batch[h] : Missed(h, n)
    BY <1>2
  <2>2. Missed(h, n)'
    BY <2>1, MissedStays
  <2>3. n \in DOMAIN batch'[h]
    BY <2>2 DEF Missed
  <2> QED BY <2>2, <2>3
<1> QED BY <1>1, <1>2 DEF TwoMissed, EventOf

LEMMA BearsStays ==
  ASSUME TypeOK, Whole, Kept, [Next]_vars, NEW v, Bears(v)
  PROVE  Bears(v)'
<1>1. v.streak # 0 => Missed(v.hook, v.n)'
  BY MissedStays DEF Bears
<1>2. v.streak >= 2 => TwoMissed(v.event)'
  BY TwoStay DEF Bears
<1> QED BY <1>1, <1>2 DEF Bears, EventOf

\* A streak is that of a verdict in the log.
LEMMA StreakFound ==
  ASSUME Whole, NEW event, PriorStreak(event) # 0
  PROVE  \E m \in DOMAIN log : /\ log[m].type = "evidence" /\ log[m].event = event
                               /\ log[m].streak = PriorStreak(event)
<1> DEFINE read == {i \in DOMAIN log : log[i].type = "evidence" /\ log[i].event = event
                                        /\ log[i].evidence # "unreadable"}
<1>1. DOMAIN log = 1..Len(log) /\ Len(log) \in Nat
  BY SeqFacts DEF Whole
<1>2. read \in SUBSET Nat /\ \A i \in read : i <= Len(log)
  BY <1>1
<1>3. read # {} => Max(read) \in read
  <2> HIDE DEF read
  <2> QED BY <1>1, <1>2, GreatestFound
<1>4. PriorStreak(event) = IF read = {} THEN 0 ELSE log[Max(read)].streak
  BY DEF PriorStreak
<1>5. \A i \in read : i \in DOMAIN log /\ log[i].type = "evidence" /\ log[i].event = event
  OBVIOUS
<1> HIDE DEF read
<1> QED BY <1>3, <1>4, <1>5

\* A Stop's verdicts bear what they say: it looks when every other hook is done,
\* and a second absent reading is of another hook's note, a call having told one.
LEMMA VerdictsBear ==
  ASSUME TypeOK, Whole, BudgetInv, ChannelInv, NEW h \in Hooks, CheckEvidence(h),
         NEW v, IsVerdict(v), Judges(v)
  PROVE  Bears(v)
<1>1. PICK k \in PendingNotes :
        /\ v.hook = log[k].hook /\ v.n = log[k].n /\ v.event = EventOf(log[k].hook)
        /\ v.streak # 0 => ~Reached(log[k]) /\ v.streak = PriorStreak(v.event) + 1
  BY DEF Judges
<1>2. k \in DOMAIN log /\ log[k].type = "note" /\ log[k].told /\ ~Judged(log[k])
  BY DEF PendingNotes
<1>3. /\ v.hook \in Hooks /\ Kind[v.hook] # "stop"
      /\ v.n \in DOMAIN batch[v.hook] /\ log[k] = batch[v.hook][v.n] /\ pc[v.hook] \in Past
  BY <1>1, <1>2 DEF Whole, IsNote, IsVerdict, BudgetInv, Kept
<1>4. pc[v.hook] = "done"
  <2>1. Quiet
    BY DEF CheckEvidence, MayBegin
  <2> QED BY <1>3, <2>1 DEF Quiet, Live, Past
<1>5. v.streak # 0 => Missed(v.hook, v.n)
  BY <1>1, <1>2, <1>3, <1>4 DEF Missed
<1>6. ASSUME v.streak >= 2 PROVE TwoMissed(v.event)
  <2>1. v.streak # 0 /\ PriorStreak(v.event) # 0
    <3>1. PriorStreak(v.event) \in Nat /\ v.streak \in Nat
      BY StreakType DEF IsVerdict
    <3>2. v.streak # 0
      BY <1>6, <3>1
    <3>3. v.streak = PriorStreak(v.event) + 1
      BY <1>1, <3>2
    <3> QED BY <1>6, <3>1, <3>2, <3>3
  <2>2. PICK m \in DOMAIN log : /\ log[m].type = "evidence" /\ log[m].event = v.event
                                /\ log[m].streak = PriorStreak(v.event)
    BY <2>1, StreakFound
  <2> DEFINE g == log[m].hook
  <2>3. Bears(log[m])
    BY <2>2 DEF ChannelInv, InLog
  <2>4. Missed(g, log[m].n) /\ EventOf(g) = v.event
    BY <2>1, <2>2, <2>3 DEF Bears
  <2>5. g # v.hook
    <3> SUFFICES ASSUME g = v.hook PROVE FALSE
      OBVIOUS
    <3>1. log[m].n # v.n
      BY <1>1, <1>2, <2>2 DEF Judged
    <3>2. \A n \in DOMAIN batch[v.hook] : batch[v.hook][n].type = "note" /\ batch[v.hook][n].told =>
            Counted(batch[v.hook][n]) /\ batch[v.hook][n].level = "nudge"
      BY <1>3 DEF Whole, InHand, IsNote, IsLine, Counted
    <3>3. Charges(v.hook)
      BY <1>3 DEF BudgetInv
    <3>4. Missed(v.hook, v.n)
      BY <1>5, <2>1
    <3>5. Missed(v.hook, log[m].n)
      BY <2>4
    <3> HIDE DEF g
    <3> QED BY <1>3, <3>1, <3>2, <3>3, <3>4, <3>5 DEF Charges, Missed
  <2>6. /\ \E n \in DOMAIN batch[g] : Missed(g, n)
        /\ \E n \in DOMAIN batch[v.hook] : Missed(v.hook, n)
    BY <1>5, <2>1, <2>4 DEF Missed
  <2>7. g \in Hooks
    BY <2>4 DEF Missed
  <2>8. EventOf(v.hook) = v.event
    BY <1>1
  <2> HIDE DEF g
  <2> QED BY <1>3, <2>4, <2>5, <2>6, <2>7, <2>8 DEF TwoMissed
<1> QED BY <1>1, <1>5, <1>6 DEF Bears

\* A verdict in the log after a step was in the log or in a Stop's hand.
LEMMA LogVerdicts ==
  ASSUME TypeOK, Whole, [Next]_vars
  PROVE  InLog' \subseteq InLog \cup InHands
<1>1. DOMAIN log = 1..Len(log) /\ Len(log) \in Nat /\ synced \in 0..Len(log)
  BY SeqFacts DEF Whole, TypeOK
<1>2. ASSUME NEW h \in Hooks, NEW n \in Nat, n \in 0..Len(batch[h]), Grown(h, n)
      PROVE  InLog' \subseteq InLog \cup InHands
  <2>1. DOMAIN log' = 1..Len(log') /\ Len(log') = Len(log) + n
    BY <1>2, SeqFacts DEF Grown
  <2>2. DOMAIN batch[h] = 1..Len(batch[h]) /\ Len(batch[h]) \in Nat
    BY SeqFacts DEF Whole, InHand
  <2>3. ASSUME NEW i \in DOMAIN log', log'[i].type = "evidence"
        PROVE  log'[i] \in InLog \cup InHands
    <3>1. CASE i \in DOMAIN log
      <4>1. log'[i] = log[i]
        BY <1>1, <1>2, <3>1 DEF Grown
      <4> QED BY <2>3, <3>1, <4>1 DEF InLog
    <3>2. CASE i \notin DOMAIN log
      <4>1. i - Len(log) \in 1..n /\ i = Len(log) + (i - Len(log))
        BY <1>1, <2>1, <3>2
      <4>2. PICK j \in 1..n : i = Len(log) + j
        BY <4>1
      <4>3. log'[i] = batch[h][j] /\ j \in DOMAIN batch[h]
        BY <1>2, <2>2, <4>2 DEF Grown
      <4>4. Kind[h] = "stop"
        BY <2>3, <4>3 DEF Whole, InHand, IsNote
      <4> QED BY <4>3, <4>4 DEF InHands
    <3> QED BY <3>1, <3>2
  <2> QED BY <2>3 DEF InLog
<1>3. ASSUME NEW n \in synced..Len(log), CutAt(n)
      PROVE  InLog' \subseteq InLog
  <2>1. \A i \in DOMAIN log' : i \in DOMAIN log /\ log'[i] = log[i]
    <3>1. DOMAIN log' = 1..n
      BY <1>3, SeqFacts DEF CutAt
    <3> QED BY <1>1, <1>3, <3>1 DEF CutAt
  <2> QED BY <2>1 DEF InLog
<1>4. CASE log' = log
  BY <1>4 DEF InLog
<1> QED BY <1>2, <1>3, <1>4, LogStep

\* A verdict in a Stop's hand was in it, or the Stop has just come to it.
LEMMA HandVerdicts ==
  ASSUME TypeOK, Whole, [Next]_vars, NEW h \in Hooks, Kind[h] = "stop", NEW n \in DOMAIN batch'[h]
  PROVE  \/ batch'[h][n] \in InHands
         \/ CheckEvidence(h) /\ IsVerdict(batch'[h][n]) /\ Judges(batch'[h][n])
<1>1. CASE CheckEvidence(h)
  BY <1>1, EvidenceFacts DEF InHand, IsVerdict
<1>2. CASE TakeChannelEvidence(h)
  <2>1. batch'[h] = <<>>
    BY <1>2 DEF TakeChannelEvidence, Whole
  <2>2. DOMAIN <<>> = {}
    OBVIOUS
  <2> QED BY <2>1, <2>2
<1>3. CASE ~CheckEvidence(h) /\ ~TakeChannelEvidence(h)
  <2>1. batch'[h] = batch[h]
    <3>1. ~Route(h)
      BY DEF Route, Whole
    <3>2. CASE Step(h)
      BY <1>3, <3>1, <3>2 DEF Step, ArmStale, StaleArmed, TakeStaleArm, SessionStart,
           RouteNothing, AppendLines, AppendFails, ReturnNotice, Flush, FlushFails, PrintOut,
           LockForEvidence, Kill, local
    <3>3. CASE \E g \in Hooks \ {h} : Step(g)
      BY <3>3, OthersStay
    <3>4. CASE NextPrompt \/ Upgrade \/ PowerLoss \/ UNCHANGED vars
      BY <3>4 DEF NextPrompt, Upgrade, PowerLoss, vars, local
    <3> QED BY <3>2, <3>3, <3>4 DEF Next
  <2> QED BY <2>1 DEF InHands
<1> QED BY <1>1, <1>2, <1>3

\* The verdicts bear what they say after each step.
LEMMA VerdictsStep ==
  ASSUME TypeOK, Whole, BudgetInv, ChannelInv, [Next]_vars
  PROVE  \A v \in InLog' \cup InHands' : Bears(v)'
<1>1. Kept
  BY DEF BudgetInv
<1>2. ASSUME NEW v, v \in InLog \cup InHands PROVE Bears(v)'
  <2>1. Bears(v)
    BY <1>2 DEF ChannelInv
  <2> QED BY <1>1, <2>1, BearsStays
<1>3. ASSUME NEW v, NEW h \in Hooks, CheckEvidence(h), IsVerdict(v), Judges(v) PROVE Bears(v)'
  <2>1. Bears(v)
    BY <1>3, VerdictsBear
  <2> QED BY <1>1, <2>1, BearsStays
<1>4. ASSUME NEW v \in InHands' PROVE Bears(v)'
  <2>a. PICK h \in Hooks : Kind[h] = "stop" /\ \E n \in DOMAIN batch'[h] : v = batch'[h][n]
    BY DEF InHands
  <2>1. PICK n \in DOMAIN batch'[h] : v = batch'[h][n]
    BY <2>a
  <2>2. v \in InHands \/ (CheckEvidence(h) /\ IsVerdict(v) /\ Judges(v))
    BY <2>a, <2>1, HandVerdicts
  <2> QED BY <1>2, <1>3, <2>2
<1>5. ASSUME NEW v \in InLog' PROVE Bears(v)'
  <2>1. v \in InLog \cup InHands
    BY <1>5, LogVerdicts
  <2> QED BY <1>2, <2>1
<1> QED BY <1>4, <1>5

\* A marker is set by the verdicts of a Stop, and taken away by a newer client.
LEMMA ShadowStep ==
  ASSUME TypeOK, Whole, BudgetInv, ChannelInv, [Next]_vars
  PROVE  \A e \in Events : shadow'[e] \in carries' => TwoMissed(e)'
<1>1. Kept
  BY DEF BudgetInv
<1>2. carries' = carries
  BY DEF Next, NextPrompt, Upgrade, PowerLoss, vars, session, Step, ArmStale, StaleArmed,
         TakeStaleArm, SessionStart, Route, RouteNothing, AppendLines, AppendFails, ReturnNotice,
         Flush, FlushFails, PrintOut, CheckEvidence, LockForEvidence, TakeChannelEvidence, Kill
<1>3. 0 \notin carries
  BY SteerAssumption DEF TypeOK
<1>4. ASSUME NEW e \in Events, shadow[e] \in carries PROVE TwoMissed(e)'
  BY <1>1, <1>4, TwoStay DEF ChannelInv
<1>5. ASSUME NEW h \in Hooks, Route(h), NEW e \in Events PROVE shadow'[e] \in {shadow[e], 0}
  BY <1>5 DEF Route, Unshadow, TypeOK
<1>6. ASSUME NEW h \in Hooks, TakeChannelEvidence(h), NEW e \in Events
      PROVE  shadow'[e] = shadow[e] \/ TwoMissed(e)
  <2> DEFINE bad == {n \in DOMAIN batch[h] :
                 batch[h][n].event = e /\ batch[h][n].streak >= EvidenceAbsents}
  <2>1. bad # {} \/ shadow'[e] = shadow[e]
    BY <1>6 DEF TakeChannelEvidence
  <2>2. ASSUME NEW n \in bad PROVE TwoMissed(e)
    <3>1. Bears(batch[h][n])
      BY <1>6, <2>2 DEF ChannelInv, InHands, TakeChannelEvidence
    <3> QED BY <2>2, <3>1 DEF Bears, EvidenceAbsents
  <2> QED BY <2>1, <2>2
<1>7. ASSUME ~\E h \in Hooks : Route(h) \/ TakeChannelEvidence(h)
      PROVE  shadow' = shadow
  BY <1>7 DEF Next, NextPrompt, Upgrade, PowerLoss, vars, markers, Step, ArmStale, StaleArmed,
         TakeStaleArm, SessionStart, RouteNothing, AppendLines, AppendFails, ReturnNotice,
         Flush, FlushFails, PrintOut, CheckEvidence, LockForEvidence, Kill
<1>8. ASSUME NEW e \in Events, shadow'[e] \in carries PROVE TwoMissed(e)'
  <2>1. CASE \E h \in Hooks : Route(h)
    BY <1>3, <1>4, <1>5, <1>8, <2>1
  <2>2. CASE \E h \in Hooks : TakeChannelEvidence(h)
    <3>1. shadow'[e] = shadow[e] \/ TwoMissed(e)
      BY <1>6, <2>2
    <3> QED BY <1>1, <1>4, <1>8, <3>1, TwoStay
  <2> QED BY <1>4, <1>7, <1>8, <2>1, <2>2
<1> QED BY <1>2, <1>8

LEMMA ChannelStep ==
  ASSUME TypeOK, Whole, BudgetInv, ChannelInv, [Next]_vars
  PROVE  ChannelInv'
BY VerdictsStep, ShadowStep DEF ChannelInv

\* A step begins one hook at most, and only a hook that has begun decides.
LEMMA BegunStep ==
  ASSUME TypeOK, Whole, BegunInv, [Next]_vars
  PROVE  BegunInv'
<1>1. ASSUME NEW h \in Hooks, Step(h) PROVE BegunInv'
  <2>1. Begun' \subseteq Begun \cup {h}
    BY <1>1, OthersStay DEF Begun
  <2>2. IsFiniteSet(Begun \cup {h})
    BY FS_AddElement DEF BegunInv
  <2>3. IsFiniteSet(Begun')
    BY <2>1, <2>2, FS_Subset
  <2>4. pc'[h] # "idle"
    BY <1>1 DEF Step, ArmStale, StaleArmed, TakeStaleArm, SessionStart, Route, RouteNothing,
         AppendLines, AppendFails, ReturnNotice, Flush, FlushFails, PrintOut, CheckEvidence,
         LockForEvidence, TakeChannelEvidence, Kill, Goto, TypeOK
  <2>5. \A g \in Hooks : pc'[g] = "idle" => batch'[g] = <<>>
    BY <1>1, <2>4, OthersStay DEF BegunInv, Begun
  <2> QED BY <2>3, <2>5 DEF BegunInv, Begun
<1>2. CASE NextPrompt \/ Upgrade \/ PowerLoss \/ UNCHANGED vars
  <2>1. batch' = batch /\ \A g \in Hooks : pc'[g] = "idle" <=> pc[g] = "idle"
    BY <1>2 DEF NextPrompt, Upgrade, PowerLoss, Live, vars, local
  <2> QED BY <2>1 DEF BegunInv, Begun
<1> QED BY <1>1, <1>2 DEF Next

\* A channel on which notes are seen is not shut by one note that a kill, a
\* failed flush or lost power kept from the transcript: by the time its marker
\* is set, two hooks of the event have a note each that no transcript shows.
THEOREM ChannelStaysOpen == Spec => []WorkingChannelStaysOpen
<1>1. Init => TypeOK /\ Whole /\ BudgetInv /\ ChannelInv /\ BegunInv
  <2> SUFFICES ASSUME Init PROVE BudgetInv /\ ChannelInv /\ BegunInv
    BY TypeInit
  <2>1. /\ log = <<>> /\ \A h \in Hooks : batch[h] = <<>> /\ pc[h] = "idle"
        /\ \A e \in Events : shadow[e] = 0
    BY DEF Init
  <2>2. DOMAIN <<>> = {}
    OBVIOUS
  <2>3. BudgetInv
    BY <2>1, <2>2 DEF BudgetInv, Kept, Charges, Affords, InBudget
  <2>4. 0 \notin carries
    BY SteerAssumption DEF Init
  <2>5. ChannelInv
    BY <2>1, <2>2, <2>4 DEF ChannelInv, InLog, InHands
  <2>6. Begun = {}
    BY <2>1 DEF Begun
  <2> QED BY <2>1, <2>3, <2>5, <2>6, FS_EmptySet DEF BegunInv
<1>2. TypeOK /\ Whole /\ BudgetInv /\ ChannelInv /\ BegunInv /\ [Next]_vars
        => TypeOK' /\ Whole' /\ BudgetInv' /\ ChannelInv' /\ BegunInv'
  BY TypeStep, BudgetStep, ChannelStep, BegunStep
<1>3. ChannelInv /\ BegunInv => WorkingChannelStaysOpen
  <2> SUFFICES ASSUME ChannelInv, BegunInv, NEW e \in Events, shadow[e] \in carries
               PROVE  Cardinality({h \in Hooks : EventOf(h) = e /\ Unseen(h)}) >= 2
    BY DEF WorkingChannelStaysOpen
  <2> DEFINE S == {h \in Hooks : EventOf(h) = e /\ Unseen(h)}
  <2>1. PICK f \in Hooks, g \in Hooks :
          /\ f # g /\ EventOf(f) = e /\ EventOf(g) = e
          /\ (\E n \in DOMAIN batch[f] : Missed(f, n))
          /\ (\E n \in DOMAIN batch[g] : Missed(g, n))
    BY DEF ChannelInv, TwoMissed
  <2>2. f \in S /\ g \in S
    BY <2>1 DEF Missed, Unseen
  <2>3. S \subseteq Begun
    <3>1. DOMAIN <<>> = {}
      OBVIOUS
    <3> QED BY <3>1 DEF BegunInv, Unseen
  <2> HIDE DEF S
  <2>4. IsFiniteSet(S) /\ Cardinality(S) \in Nat
    BY <2>3, FS_Subset, FS_CardinalityType DEF BegunInv
  <2>5. IsFiniteSet({f, g}) /\ Cardinality({f, g}) = 2
    <3>1. IsFiniteSet({f}) /\ Cardinality({f}) = 1
      BY FS_Singleton
    <3>2. IsFiniteSet({f} \cup {g}) /\ Cardinality({f} \cup {g}) = Cardinality({f}) + 1
      BY <2>1, <3>1, FS_AddElement
    <3>3. {f} \cup {g} = {f, g}
      OBVIOUS
    <3> QED BY <3>1, <3>2, <3>3
  <2>6. Cardinality({f, g}) <= Cardinality(S)
    BY <2>2, <2>4, FS_Subset
  <2>7. Cardinality(S) >= 2
    BY <2>4, <2>5, <2>6
  <2> QED BY <2>7 DEF S
<1> QED BY <1>1, <1>2, <1>3, PTL DEF Spec
=============================================================================
