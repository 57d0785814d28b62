---------------------------- MODULE RewriteProof ----------------------------
(***************************************************************************)
(* Theorems about the compaction in place (Rewrite), for any records, any  *)
(* choice of them to forget, and forgets killed anywhere; and the types of *)
(* the five parts of MCFiles together.                                     *)
(***************************************************************************)
EXTENDS FilesProof, StoreRootProof, FiniteSetTheorems, WellFoundedInduction

\* The operators of Rewrite, which a proof expands when it needs them.
Newline == Rw!Newline
LinesOf(bytes) == Rw!LinesOf(bytes)
Size(s) == Rw!Size(s)
Text(bytes, s) == Rw!Text(bytes, s)
Files == Seq(Rw!Bytes)

-----------------------------------------------------------------------------
\* Lines of bytes.
LEMMA LineFacts ==
  ASSUME NEW b \in Files, NEW s \in LinesOf(b)
  PROVE  /\ s[1] \in 1..Len(b) /\ s[2] \in s[1]..Len(b) /\ s = <<s[1], s[2]>>
         /\ Size(s) = s[2] - s[1] + 1 /\ Size(s) \in Nat \ {0}
         /\ s[1] > 1 => b[s[1] - 1] = Newline
         /\ s[2] < Len(b) => b[s[2] + 1] = Newline
         /\ \A i \in s[1]..s[2] : b[i] # Newline
         /\ Text(b, s) = [i \in 1..Size(s) |-> b[s[1] + i - 1]]
BY DEF Files, LinesOf, Newline, Size, Text, Rw!LinesOf, Rw!Starts, Rw!Ends, Rw!Size, Rw!Text

\* A run of bytes between two newlines, or an end, is a line.
LEMMA LineIs ==
  ASSUME NEW b \in Files, NEW a \in 1..Len(b), NEW z \in a..Len(b),
         a > 1 => b[a - 1] = Newline, z < Len(b) => b[z + 1] = Newline,
         \A i \in a..z : b[i] # Newline
  PROVE  <<a, z>> \in LinesOf(b)
BY DEF Files, LinesOf, Newline, Rw!LinesOf, Rw!Starts, Rw!Ends

\* Two lines of some bytes are the same, or one ends before the other starts.
LEMMA LinesApart ==
  ASSUME NEW b \in Files, NEW s \in LinesOf(b), NEW t \in LinesOf(b), s[1] <= t[1]
  PROVE  s = t \/ s[2] + 1 < t[1]
<1>1. /\ s[1] \in 1..Len(b) /\ s[2] \in s[1]..Len(b) /\ s = <<s[1], s[2]>>
      /\ s[2] < Len(b) => b[s[2] + 1] = Newline
      /\ \A i \in s[1]..s[2] : b[i] # Newline
  BY LineFacts
<1>2. /\ t[1] \in 1..Len(b) /\ t[2] \in t[1]..Len(b) /\ t = <<t[1], t[2]>>
      /\ t[1] > 1 => b[t[1] - 1] = Newline
      /\ t[2] < Len(b) => b[t[2] + 1] = Newline
      /\ \A i \in t[1]..t[2] : b[i] # Newline
  BY LineFacts
<1>0. Len(b) \in Nat
  BY DEF Files
<1>3. CASE s[1] = t[1]
  <2>1. ~(s[2] < t[2])
    BY <1>0, <1>1, <1>2, <1>3
  <2>2. ~(t[2] < s[2])
    BY <1>0, <1>1, <1>2, <1>3
  <2> QED BY <1>1, <1>2, <1>3, <2>1, <2>2
<1>4. CASE s[1] < t[1]
  <2>1. ~(t[1] - 1 <= s[2])
    BY <1>0, <1>1, <1>2, <1>4
  <2> QED BY <1>1, <1>2, <2>1
<1> QED BY <1>1, <1>2, <1>3, <1>4

\* Two sequences that agree where a line lies, and on what is beside it.
LEMMA LineSame ==
  ASSUME NEW b \in Files, NEW r \in Files, NEW s \in LinesOf(r),
         s[2] <= Len(b), \A i \in s[1]..s[2] : b[i] = r[i],
         s[1] > 1 => b[s[1] - 1] = Newline, s[2] < Len(b) => b[s[2] + 1] = Newline
  PROVE  s \in LinesOf(b) /\ Text(b, s) = Text(r, s)
<1>1. /\ s[1] \in 1..Len(r) /\ s[2] \in s[1]..Len(r) /\ s = <<s[1], s[2]>>
      /\ Size(s) = s[2] - s[1] + 1
      /\ \A i \in s[1]..s[2] : r[i] # Newline
      /\ Text(r, s) = [i \in 1..Size(s) |-> r[s[1] + i - 1]]
  BY LineFacts
<1>0. Len(b) \in Nat /\ Len(r) \in Nat
  BY DEF Files
<1>2. s \in LinesOf(b)
  <2>1. s[1] \in 1..Len(b) /\ s[2] \in s[1]..Len(b)
    BY <1>0, <1>1
  <2>2. \A i \in s[1]..s[2] : b[i] # Newline
    BY <1>1
  <2>3. <<s[1], s[2]>> \in LinesOf(b)
    BY <2>1, <2>2, LineIs
  <2> QED BY <1>1, <2>3
<1>3. Text(b, s) = [i \in 1..Size(s) |-> b[s[1] + i - 1]]
  BY <1>2, LineFacts
<1>4. \A i \in 1..Size(s) : b[s[1] + i - 1] = r[s[1] + i - 1]
  BY <1>0, <1>1
<1> QED BY <1>1, <1>2, <1>3, <1>4

\* A file has finitely many lines.
LEMMA LinesFinite ==
  ASSUME NEW b \in Files
  PROVE  IsFiniteSet(LinesOf(b))
<1>1. Len(b) \in Nat
  BY DEF Files
<1>2. IsFiniteSet(1..Len(b))
  BY <1>1, FS_Interval
<1>3. IsFiniteSet((1..Len(b)) \X (1..Len(b)))
  BY <1>2, FS_Product
<1>4. LinesOf(b) \subseteq (1..Len(b)) \X (1..Len(b))
  BY LineFacts
<1> QED BY <1>3, <1>4, FS_Subset

-----------------------------------------------------------------------------
\* The lines of a file that stay, and those of them that were written again.
Staying(bytes) == {s \in LinesOf(bytes) : Rw!Stays(Text(bytes, s))}
Moved(r, p) == Staying(r) \ p
Damaged(bytes) == Rw!Damaged(bytes)

\* A forget that read r wrote b up to n: one after the other, in their order,
\* the lines of r that stay and are not in its plan p; line u from at[u] on.
Laid(at, b, r, p, n) ==
  /\ \A u \in Moved(r, p) :
       /\ at[u] + Size(u) + 1 <= n
       /\ \A i \in 1..Size(u) : b[at[u] + i] = r[u[1] + i - 1]
       /\ b[at[u] + Size(u) + 1] = Newline
  /\ \A u, v \in Moved(r, p) : u[1] < v[1] => at[u] + Size(u) + 1 <= at[v]
  /\ \A i \in 1..n : \E u \in Moved(r, p) : i \in (at[u] + 1)..(at[u] + Size(u) + 1)

\* Past k the bytes are those that were read.
Rest(b, r, k) ==
  \A i \in Nat : i > k => (i <= Len(b) <=> i <= Len(r)) /\ (i <= Len(b) => b[i] = r[i])

\* The lines of the plan are later ones, and lie past what is written.
Ahead(r, p, n) ==
  /\ p \subseteq Staying(r)
  /\ \A s \in p : n < s[1] /\ \A u \in Moved(r, p) : u[1] < s[1]

\* The lines of the plan that no other comes before: the next one.
Earliest(p) == {s \in p : \A t \in p : s[1] <= t[1]}

\* A damaged line is not moved, and nothing before it is.
Fixed(at, b, r, p, n) ==
  \A d \in Damaged(r) :
    /\ d \in p \/ at[d] = d[1] - 1
    /\ \A i \in 1..d[2] : b[i] = r[i]
    /\ \A s \in Earliest(p) : s[1] <= d[1] => n = s[1] - 1

\* For that, no line before a damaged one goes, and none is empty.
Untouched(bytes, k) == \A i \in Rw!Starts(bytes) : i < k => \E s \in Staying(bytes) : s[1] = i
Firm(bytes) == \A d \in Damaged(bytes) : Untouched(bytes, d[1])

\* Where line u is now.
Place(at, u) == <<at[u] + 1, at[u] + Size(u)>>

\* The lines that stay are lines, and so are those that do not parse, which all stay.
LEMMA StayingFacts ==
  ASSUME NEW b \in Files, doomed \subseteq 1..Lines
  PROVE  /\ Staying(b) \subseteq LinesOf(b) /\ Damaged(b) \subseteq Staying(b)
         /\ \A s \in Staying(b) : Rw!Stays(Text(b, s))
         /\ \A s \in LinesOf(b) :
              /\ Rw!Stays(Text(b, s)) => s \in Staying(b)
              /\ s \in Damaged(b) <=> ~Rw!Parses(Text(b, s))
<1>1. /\ Staying(b) \subseteq LinesOf(b)
      /\ \A s \in Staying(b) : Rw!Stays(Text(b, s))
      /\ \A s \in LinesOf(b) : Rw!Stays(Text(b, s)) => s \in Staying(b)
  BY DEF Staying
<1>2. Damaged(b) \subseteq LinesOf(b)
      /\ \A s \in LinesOf(b) : s \in Damaged(b) <=> ~Rw!Parses(Text(b, s))
  BY DEF Damaged, LinesOf, Text, Rw!Damaged
<1>3. \A x : Rw!Stays(x) \/ Rw!Parses(x)
  BY DEF Rw!Stays, Rw!Parses
<1> QED BY <1>1, <1>2, <1>3

\* What is written is made of whole lines, and each is where it was laid.
LEMMA LaidLines ==
  ASSUME NEW b \in Files, NEW r \in Files, doomed \subseteq 1..Lines, NEW p,
         NEW at \in [Moved(r, p) -> Nat], NEW n \in 0..Len(b), Laid(at, b, r, p, n)
  PROVE  /\ \A u \in Moved(r, p) : Place(at, u) \in LinesOf(b) /\ Text(b, Place(at, u)) = Text(r, u)
         /\ n > 0 => b[n] = Newline
<1>0. Len(b) \in Nat /\ n \in Nat
  BY DEF Files
<1>1. /\ \A u \in Moved(r, p) :
           /\ at[u] + Size(u) + 1 <= n
           /\ \A i \in 1..Size(u) : b[at[u] + i] = r[u[1] + i - 1]
           /\ b[at[u] + Size(u) + 1] = Newline
      /\ \A u, v \in Moved(r, p) : u[1] < v[1] => at[u] + Size(u) + 1 <= at[v]
      /\ \A i \in 1..n : \E u \in Moved(r, p) : i \in (at[u] + 1)..(at[u] + Size(u) + 1)
  BY DEF Laid
<1>2. \A u \in Moved(r, p) : u \in LinesOf(r) /\ at[u] \in Nat
  BY StayingFacts DEF Moved
<1>3. ASSUME NEW u \in Moved(r, p)
      PROVE  Place(at, u) \in LinesOf(b) /\ Text(b, Place(at, u)) = Text(r, u)
  <2>1. /\ u[1] \in Nat /\ u[2] \in Nat /\ Size(u) \in Nat \ {0} /\ Size(u) = u[2] - u[1] + 1
        /\ \A i \in u[1]..u[2] : r[i] # Newline
        /\ Text(r, u) = [i \in 1..Size(u) |-> r[u[1] + i - 1]]
    BY <1>2, LineFacts
  <2>2. PICK a \in Nat : a = at[u]
    BY <1>2
  <2>3. PICK z \in Nat : z = a + Size(u)
    BY <2>1, <2>2
  <2>4. /\ z + 1 <= n /\ b[z + 1] = Newline
        /\ \A i \in 1..Size(u) : b[a + i] = r[u[1] + i - 1]
    BY <1>1, <2>2, <2>3
  <2>5. a > 0 => b[a] = Newline
    <3> SUFFICES ASSUME a > 0 PROVE b[a] = Newline
      OBVIOUS
    <3>1. PICK v \in Moved(r, p) : a \in (at[v] + 1)..(at[v] + Size(v) + 1)
      BY <1>0, <1>1, <2>1, <2>2, <2>3, <2>4
    <3>2. v # u
      BY <2>2, <3>1
    <3>3. /\ at[v] \in Nat /\ v[1] \in Nat /\ Size(v) \in Nat
      BY <1>2, LineFacts
    <3>4. v[1] < u[1] \/ u[1] < v[1]
      <4>1. u \in LinesOf(r) /\ v \in LinesOf(r)
        BY <1>2
      <4>2. u[1] \in Nat /\ u[2] \in Nat /\ v[1] \in Nat /\ v[2] \in Nat /\ v[1] <= v[2]
        BY <4>1, LineFacts
      <4> QED BY <3>2, <4>1, <4>2, LinesApart
    <3>5. CASE v[1] < u[1]
      <4>1. at[v] + Size(v) + 1 <= a
        BY <1>1, <2>2, <3>5
      <4>2. a = at[v] + Size(v) + 1
        BY <3>1, <3>3, <4>1
      <4>3. b[at[v] + Size(v) + 1] = Newline
        BY <1>1
      <4> QED BY <4>2, <4>3
    <3>6. CASE u[1] < v[1]
      BY <1>1, <2>1, <2>2, <3>1, <3>3, <3>6
    <3> QED BY <3>4, <3>5, <3>6
  <2>6. \A i \in (a + 1)..z : b[i] # Newline /\ b[i] = r[u[1] + (i - a) - 1]
    <3> SUFFICES ASSUME NEW i \in (a + 1)..z
                 PROVE  b[i] # Newline /\ b[i] = r[u[1] + (i - a) - 1]
      OBVIOUS
    <3>0. Size(u) \in Nat
      BY <2>1
    <3>1. i - a \in 1..Size(u) /\ a + (i - a) = i
      BY <2>3, <3>0
    <3>2. u[1] + (i - a) - 1 \in u[1]..u[2]
      BY <2>1, <3>1
    <3> QED BY <2>1, <2>4, <3>1, <3>2
  <2>7. a + 1 \in 1..Len(b) /\ z \in (a + 1)..Len(b)
    BY <1>0, <2>1, <2>3, <2>4
  <2>8. <<a + 1, z>> \in LinesOf(b)
    BY <2>4, <2>5, <2>6, <2>7, LineIs
  <2>9. Place(at, u) = <<a + 1, z>>
    BY <2>2, <2>3 DEF Place
  <2>10. Size(<<a + 1, z>>) = Size(u)
    BY <2>1, <2>3 DEF Size, Rw!Size
  <2>11. Text(b, <<a + 1, z>>) = [i \in 1..Size(u) |-> b[a + i]]
    <3>1. Text(b, <<a + 1, z>>) = [i \in 1..Size(u) |-> b[(a + 1) + i - 1]]
      BY <2>8, <2>10, LineFacts, SMTT(20)
    <3>2. \A i \in 1..Size(u) : (a + 1) + i - 1 = a + i
      BY <2>1
    <3> QED BY <3>1, <3>2
  <2> QED BY <2>1, <2>4, <2>8, <2>9, <2>11
<1>4. n > 0 => b[n] = Newline
  <2> SUFFICES ASSUME n > 0 PROVE b[n] = Newline
    OBVIOUS
  <2>1. PICK u \in Moved(r, p) : n \in (at[u] + 1)..(at[u] + Size(u) + 1)
    BY <1>0, <1>1
  <2>2. at[u] \in Nat /\ Size(u) \in Nat
    BY <1>2, LineFacts
  <2> QED BY <1>0, <1>1, <2>1, <2>2
<1> QED BY <1>3, <1>4

\* Nothing else in it starts a line.
LEMMA OnlyLaid ==
  ASSUME NEW b \in Files, NEW r \in Files, doomed \subseteq 1..Lines, NEW p,
         NEW at \in [Moved(r, p) -> Nat], NEW n \in 0..Len(b), Laid(at, b, r, p, n)
  PROVE  /\ \A i \in Rw!Starts(b) : i <= n => \E u \in Moved(r, p) : i = at[u] + 1
         /\ \A s \in LinesOf(b) : s[1] <= n => \E u \in Moved(r, p) : s = Place(at, u)
<1>1. ASSUME NEW i \in Rw!Starts(b), i <= n PROVE \E u \in Moved(r, p) : i = at[u] + 1
  <2>1. i \in 1..n /\ (i > 1 => b[i - 1] = Newline)
    BY <1>1 DEF Rw!Starts, Files, Newline
  <2>2. PICK u \in Moved(r, p) : i \in (at[u] + 1)..(at[u] + Size(u) + 1)
    BY <2>1 DEF Laid
  <2>3. /\ Place(at, u) \in LinesOf(b) /\ at[u] \in Nat
        /\ u \in LinesOf(r)
    BY LaidLines, StayingFacts DEF Moved
  <2>4. \A j \in (at[u] + 1)..(at[u] + Size(u)) : b[j] # Newline
    BY <2>3, LineFacts DEF Place
  <2>5. Size(u) \in Nat
    BY <2>3, LineFacts
  <2>6. i = at[u] + 1
    BY <2>1, <2>2, <2>3, <2>4, <2>5
  <2> QED BY <2>6
<1>2. ASSUME NEW s \in LinesOf(b), s[1] <= n
      PROVE  \E u \in Moved(r, p) : s = Place(at, u)
  <2>1. s[1] \in Rw!Starts(b)
    BY LineFacts DEF Files, Newline, Rw!Starts
  <2>2. PICK u \in Moved(r, p) : s[1] = at[u] + 1
    BY <1>1, <1>2, <2>1
  <2>3. Place(at, u) \in LinesOf(b) /\ Place(at, u)[1] = s[1]
    BY <2>2, LaidLines DEF Place
  <2>4. s[1] \in Nat /\ s[2] \in Nat /\ s[1] <= s[2] /\ Place(at, u)[2] \in Nat
        /\ Place(at, u)[1] <= Place(at, u)[2]
    BY <2>3, LineFacts
  <2>5. s = Place(at, u)
    BY <2>3, <2>4, LinesApart
  <2> QED BY <2>5
<1> QED BY <1>1, <1>2

\* The kept lines that are not yet written again are where they were.
LEMMA RestLines ==
  ASSUME NEW b \in Files, NEW r \in Files, NEW k \in Nat, Rest(b, r, k), NEW s, k < s[1],
         s[1] = 1 \/ (b[s[1] - 1] = Newline /\ r[s[1] - 1] = Newline)
  PROVE  /\ s \in LinesOf(r) => s \in LinesOf(b) /\ Text(b, s) = Text(r, s)
         /\ s \in LinesOf(b) => s \in LinesOf(r) /\ Text(b, s) = Text(r, s)
<1>0. Len(b) \in Nat /\ Len(r) \in Nat
  BY DEF Files
<1>1. ASSUME s \in LinesOf(r)
      PROVE  s \in LinesOf(b) /\ Text(b, s) = Text(r, s)
  <2>1. /\ s[1] \in Nat /\ s[2] \in Nat /\ s[1] <= s[2] /\ s[2] <= Len(r)
        /\ s[2] < Len(r) => r[s[2] + 1] = Newline
    BY <1>0, <1>1, LineFacts
  <2>2. s[2] <= Len(b) /\ \A i \in s[1]..s[2] : b[i] = r[i]
    BY <1>0, <2>1 DEF Rest
  <2>3. s[2] < Len(b) => b[s[2] + 1] = Newline
    BY <1>0, <2>1 DEF Rest
  <2> QED BY <1>1, <2>1, <2>2, <2>3, LineSame
<1>2. ASSUME s \in LinesOf(b)
      PROVE  s \in LinesOf(r) /\ Text(b, s) = Text(r, s)
  <2>1. /\ s[1] \in Nat /\ s[2] \in Nat /\ s[1] <= s[2] /\ s[2] <= Len(b)
        /\ s[2] < Len(b) => b[s[2] + 1] = Newline
    BY <1>0, <1>2, LineFacts
  <2>2. s[2] <= Len(r) /\ \A i \in s[1]..s[2] : b[i] = r[i]
    BY <1>0, <2>1 DEF Rest
  <2>3. s[2] < Len(r) => r[s[2] + 1] = Newline
    BY <1>0, <2>1 DEF Rest
  <2> QED BY <1>2, <2>1, <2>2, <2>3, LineSame
<1> QED BY <1>1, <1>2
-----------------------------------------------------------------------------
\* Where the written part and the old bytes meet is one line at most that may be
\* new: what is written has the damaged lines of r that it holds in their places,
\* and past k, which no newline comes before, lines are those of r.
Meets(at, b, r, p, n, k) ==
  /\ Laid(at, b, r, p, n)
  /\ \A i \in (n + 1)..k : b[i] # Newline
  /\ Len(b) = n \/ Rest(b, r, k)
  /\ \A d \in Damaged(r) : (d \in p \/ at[d] = d[1] - 1) /\ \A i \in 1..d[2] : b[i] = r[i]

\* Where what was written meets the old bytes is the one line that may be damaged anew.
LEMMA MeetingDamage ==
  ASSUME NEW b \in Files, NEW r \in Files, doomed \subseteq 1..Lines, NEW p,
         NEW at \in [Moved(r, p) -> Nat], NEW n \in 0..Len(b), NEW k \in Nat, n <= k,
         Meets(at, b, r, p, n, k), NEW s \in Damaged(b)
  PROVE  s \in Damaged(r) \/ s[1] = n + 1
<1>0. Len(b) \in Nat /\ Len(r) \in Nat
  BY DEF Files
<1>1. /\ s \in LinesOf(b) /\ s[1] \in 1..Len(b) /\ s[2] \in 1..Len(b)
      /\ ~Rw!Parses(Text(b, s))
      /\ s[1] > 1 => b[s[1] - 1] = Newline
  BY StayingFacts, LineFacts
<1>2. CASE s[1] <= n
  <2>1. PICK u \in Moved(r, p) : s = Place(at, u)
    BY <1>1, <1>2, OnlyLaid DEF Meets
  <2>2. Text(b, s) = Text(r, u) /\ u \in LinesOf(r) /\ u \notin p
    <3>1. Laid(at, b, r, p, n)
      BY DEF Meets
    <3>2. Text(b, s) = Text(r, u)
      BY <2>1, <3>1, LaidLines
    <3>3. u \in Staying(r) /\ u \notin p
      BY DEF Moved
    <3> QED BY <3>2, <3>3, StayingFacts
  <2>3. u \in Damaged(r)
    BY <1>1, <2>2, StayingFacts
  <2>4. at[u] = u[1] - 1
    BY <2>2, <2>3 DEF Meets
  <2>5. u[1] \in Nat /\ u[2] \in Nat /\ u = <<u[1], u[2]>> /\ Size(u) = u[2] - u[1] + 1
    BY <2>2, LineFacts
  <2>6. s = u
    BY <2>1, <2>4, <2>5 DEF Place
  <2> QED BY <1>0, <1>1, <1>2, <2>3, <2>6
<1>3. CASE n + 1 < s[1]
  <2>1. s[1] - 1 > k
    BY <1>0, <1>1, <1>3 DEF Meets
  <2>2. Rest(b, r, k)
    BY <1>0, <1>1, <1>3 DEF Meets
  <2>3. r[s[1] - 1] = Newline
    BY <1>0, <1>1, <2>1, <2>2 DEF Rest
  <2>4. s \in LinesOf(r) /\ Text(b, s) = Text(r, s)
    <3>1. k < s[1]
      BY <1>1, <2>1
    <3> QED BY <1>1, <2>2, <2>3, <2>1, <3>1, RestLines
  <2> QED BY <1>1, <2>4, StayingFacts
<1> QED BY <1>0, <1>1, <1>2, <1>3

\* So there is one damaged line more at most, and none if the file ends there.
LEMMA MeetingCount ==
  ASSUME NEW b \in Files, NEW r \in Files, doomed \subseteq 1..Lines, NEW p,
         NEW at \in [Moved(r, p) -> Nat], NEW n \in 0..Len(b), NEW k \in Nat, n <= k,
         Meets(at, b, r, p, n, k)
  PROVE  /\ Cardinality(Damaged(b)) <= Cardinality(Damaged(r)) + 1
         /\ Len(b) = n => Cardinality(Damaged(b)) <= Cardinality(Damaged(r))
<1>0. n \in Nat /\ Len(b) \in Nat
  BY DEF Files
<1>1. IsFiniteSet(Damaged(r))
  BY LinesFinite, StayingFacts, FS_Subset
<1>2. Cardinality(Damaged(r)) \in Nat
  BY <1>1, FS_CardinalityType
<1>3. CASE \E s \in Damaged(b) : s[1] = n + 1
  <2>1. PICK s \in Damaged(b) : s[1] = n + 1
    BY <1>3
  <2>2. \A t \in Damaged(b) : t \in LinesOf(b) /\ t[1] \in Nat /\ t[2] \in Nat /\ t[1] <= t[2]
    BY StayingFacts, LineFacts
  <2>3. \A t \in Damaged(b) : t[1] = n + 1 => t = s
    BY <2>1, <2>2, LinesApart
  <2>4. Damaged(b) \subseteq Damaged(r) \cup {s}
    BY <2>3, MeetingDamage
  <2>5. /\ IsFiniteSet(Damaged(r) \cup {s})
        /\ Cardinality(Damaged(r) \cup {s}) <= Cardinality(Damaged(r)) + 1
    <3>1. /\ IsFiniteSet(Damaged(r) \cup {s})
          /\ \/ Cardinality(Damaged(r) \cup {s}) = Cardinality(Damaged(r))
             \/ Cardinality(Damaged(r) \cup {s}) = Cardinality(Damaged(r)) + 1
      BY <1>1, FS_AddElement
    <3> QED BY <1>2, <3>1
  <2>6. Cardinality(Damaged(b)) <= Cardinality(Damaged(r) \cup {s})
    BY <2>4, <2>5, FS_Subset
  <2>7. Cardinality(Damaged(b)) \in Nat /\ Cardinality(Damaged(r) \cup {s}) \in Nat
    BY <2>4, <2>5, FS_Subset, FS_CardinalityType
  <2>8. Len(b) # n
    BY <1>0, <2>1, StayingFacts, LineFacts
  <2> QED BY <1>2, <2>5, <2>6, <2>7, <2>8
<1>4. CASE \A s \in Damaged(b) : s[1] # n + 1
  <2>1. Damaged(b) \subseteq Damaged(r)
    BY <1>4, MeetingDamage
  <2>2. Cardinality(Damaged(b)) <= Cardinality(Damaged(r)) /\ Cardinality(Damaged(b)) \in Nat
    BY <1>1, <2>1, FS_Subset, FS_CardinalityType
  <2> QED BY <1>2, <2>2
<1> QED BY <1>3, <1>4

\* And the lines before a damaged one stay again in the next forget.
LEMMA MeetingFirm ==
  ASSUME NEW b \in Files, NEW r \in Files, doomed \subseteq 1..Lines, NEW p,
         NEW at \in [Moved(r, p) -> Nat], NEW n \in 0..Len(b), NEW k \in Nat, n <= k,
         Meets(at, b, r, p, n, k), Firm(r)
  PROVE  Firm(b)
<1>0. Len(b) \in Nat /\ Len(r) \in Nat
  BY DEF Files
<1> SUFFICES ASSUME NEW d \in Damaged(b), NEW i \in Rw!Starts(b), i < d[1]
             PROVE  \E s \in Staying(b) : s[1] = i
  BY DEF Firm, Untouched
<1>1. i \in 1..Len(b) /\ (i > 1 => b[i - 1] = Newline)
  BY DEF Rw!Starts, Files, Newline
<1>2. d \in LinesOf(b) /\ d[1] \in 1..Len(b) /\ d[2] \in d[1]..Len(b)
  BY StayingFacts, LineFacts
<1>3. CASE i <= n
  <2>1. PICK u \in Moved(r, p) : i = at[u] + 1
    BY <1>3, OnlyLaid DEF Meets
  <2>2. Place(at, u) \in LinesOf(b) /\ Text(b, Place(at, u)) = Text(r, u) /\ u \in Staying(r)
    <3>1. Laid(at, b, r, p, n)
      BY DEF Meets
    <3>2. Place(at, u) \in LinesOf(b) /\ Text(b, Place(at, u)) = Text(r, u)
      BY <3>1, LaidLines
    <3> QED BY <3>2 DEF Moved
  <2>3. Place(at, u) \in Staying(b)
    BY <2>2, StayingFacts
  <2> QED BY <2>1, <2>3 DEF Place
<1>4. CASE n < i
  <2>1. d \in Damaged(r)
    BY <1>0, <1>1, <1>2, <1>4, MeetingDamage
  <2>2. d[1] \in 1..Len(r) /\ d[2] \in d[1]..Len(r) /\ d \in LinesOf(r)
    BY <2>1, StayingFacts, LineFacts
  <2>3. \A j \in 1..d[2] : b[j] = r[j]
    BY <2>1 DEF Meets
  <2>4. i \in Rw!Starts(r)
    <3>1. i \in 1..Len(r) /\ (i > 1 => i - 1 \in 1..d[2])
      BY <1>0, <1>1, <1>2, <2>2
    <3>2. i > 1 => r[i - 1] = Newline
      BY <1>1, <2>3, <3>1
    <3> QED BY <3>1, <3>2 DEF Rw!Starts, Files, Newline
  <2>5. PICK s \in Staying(r) : s[1] = i
    BY <2>1, <2>4 DEF Firm, Untouched
  <2>6. /\ s \in LinesOf(r) /\ s[1] \in Nat /\ s[2] \in Nat /\ s[1] <= s[2]
        /\ s[2] < Len(r) => r[s[2] + 1] = Newline
    BY <2>5, StayingFacts, LineFacts
  <2>7. s[2] + 1 < d[1]
    BY <1>2, <2>2, <2>5, <2>6, LinesApart
  <2>8. /\ s[2] <= Len(b) /\ \A j \in s[1]..s[2] : b[j] = r[j]
        /\ s[1] > 1 => b[s[1] - 1] = Newline
        /\ b[s[2] + 1] = Newline
    <3>1. s[2] + 1 <= d[2] /\ s[2] + 1 > 0 /\ s[2] <= Len(b) /\ s[2] < Len(r)
      BY <1>0, <1>2, <2>2, <2>6, <2>7
    <3>2. \A j \in s[1]..s[2] : b[j] = r[j]
      <4>1. i \in Nat /\ i > 0 /\ s[1] = i /\ d[2] \in Nat /\ s[2] \in Nat
        BY <1>0, <1>1, <1>2, <2>5, <2>6
      <4>2. \A j \in s[1]..s[2] : j \in 1..d[2]
        BY <3>1, <4>1
      <4> QED BY <2>3, <4>2
    <3>3. b[s[2] + 1] = Newline
      BY <1>2, <2>3, <2>6, <3>1
    <3> QED BY <1>1, <2>5, <3>1, <3>2, <3>3
  <2>9. s \in LinesOf(b) /\ Text(b, s) = Text(r, s)
    BY <2>6, <2>8, LineSame
  <2>10. s \in Staying(b)
    BY <2>5, <2>9, StayingFacts
  <2> QED BY <2>5, <2>10
<1> QED BY <1>0, <1>1, <1>3, <1>4
-----------------------------------------------------------------------------
\* The records that are to stay read back.
Held(bytes) ==
  \A l \in (1..Lines) \ doomed : \E s \in LinesOf(bytes) : Text(bytes, s) = Rw!Record(l)

\* No two records are the same bytes, and none is empty.
LEMMA RecordFacts ==
  ASSUME MaxLen \in Nat, len \in [1..Lines -> 1..MaxLen], NEW l \in 1..Lines
  PROVE  /\ \A m \in 1..Lines : Rw!Record(m) = Rw!Record(l) => m = l
         /\ Rw!Record(l) # <<>>
<1>1. \A m \in 1..Lines : 1 \in DOMAIN Rw!Record(m) /\ Rw!Record(m)[1] = <<m, 1>>
  BY DEF Rw!Record
<1> QED BY <1>1

\* A record that stays is in what was written, or where it was.
LEMMA StillHeld ==
  ASSUME MaxLen \in Nat, len \in [1..Lines -> 1..MaxLen], doomed \subseteq 1..Lines,
         NEW b \in Files, NEW r \in Files, NEW p,
         NEW at \in [Moved(r, p) -> Nat], NEW n \in 0..Len(b), Laid(at, b, r, p, n),
         p = {} \/ (Rest(b, r, n) /\ \A s \in p : n < s[1]), Held(r)
  PROVE  Held(b)
<1>0. n \in Nat /\ Len(b) \in Nat
  BY DEF Files
<1> SUFFICES ASSUME NEW l \in (1..Lines) \ doomed
             PROVE  \E s \in LinesOf(b) : Text(b, s) = Rw!Record(l)
  BY DEF Held
<1>1. PICK s \in LinesOf(r) : Text(r, s) = Rw!Record(l)
  BY DEF Held
<1>2. Rw!Stays(Text(r, s))
  BY <1>1, RecordFacts DEF Rw!Stays
<1>3. s \in Staying(r)
  BY <1>2, StayingFacts
<1>4. CASE s \in p
  <2>1. Rest(b, r, n) /\ n < s[1]
    BY <1>4
  <2>2. s[1] \in 1..Len(r) /\ (s[1] > 1 => r[s[1] - 1] = Newline)
    BY LineFacts
  <2>3. n > 0 => b[n] = Newline
    BY LaidLines
  <2>4. s[1] > 1 => b[s[1] - 1] = Newline
    <3>1. CASE s[1] - 1 = n
      BY <1>0, <2>2, <2>3, <3>1
    <3>2. CASE s[1] - 1 # n /\ s[1] > 1
      <4>1. s[1] - 1 \in Nat /\ s[1] - 1 > n /\ s[1] - 1 <= Len(r)
        BY <1>0, <2>1, <2>2, <3>2
      <4> QED BY <2>1, <2>2, <3>2, <4>1 DEF Rest
    <3> QED BY <3>1, <3>2
  <2>5. s \in LinesOf(b) /\ Text(b, s) = Text(r, s)
    <3>1. s[1] = 1 \/ (b[s[1] - 1] = Newline /\ r[s[1] - 1] = Newline)
      BY <2>2, <2>4
    <3> QED BY <1>0, <2>1, <3>1, RestLines
  <2> QED BY <1>1, <2>5
<1>5. CASE s \notin p
  <2>1. s \in Moved(r, p)
    BY <1>3, <1>5 DEF Moved
  <2>2. Place(at, s) \in LinesOf(b) /\ Text(b, Place(at, s)) = Text(r, s)
    BY <2>1, LaidLines
  <2> QED BY <1>1, <2>2
<1> QED BY <1>4, <1>5

\* What a file is after line s of r is written over its bytes b, at n.
WrittenOver(c, b, r, s, n) ==
  /\ c \in Files
  /\ Len(c) = IF n + Size(s) + 1 > Len(b) THEN n + Size(s) + 1 ELSE Len(b)
  /\ \A i \in 1..n : c[i] = b[i]
  /\ \A i \in 1..Size(s) : c[n + i] = r[s[1] + i - 1]
  /\ c[n + Size(s) + 1] = Newline
  /\ \A i \in 1..Len(b) : i > n + Size(s) + 1 => c[i] = b[i]

LaidNext(at, r, p, s, n) == [u \in Moved(r, p \ {s}) |-> IF u = s THEN n ELSE at[u]]

\* The next line goes right behind the last one, and lies where it was or before.
LEMMA NextLaid ==
  ASSUME NEW b \in Files, NEW r \in Files, doomed \subseteq 1..Lines, NEW p,
         NEW at \in [Moved(r, p) -> Nat], NEW n \in 0..Len(b), Laid(at, b, r, p, n),
         Ahead(r, p, n), NEW s \in Earliest(p), NEW c, WrittenOver(c, b, r, s, n)
  PROVE  /\ LaidNext(at, r, p, s, n) \in [Moved(r, p \ {s}) -> Nat]
         /\ n + Size(s) + 1 \in 0..Len(c)
         /\ Laid(LaidNext(at, r, p, s, n), c, r, p \ {s}, n + Size(s) + 1)
         /\ Ahead(r, p \ {s}, n + Size(s) + 1)
<1>0. Len(b) \in Nat /\ n \in Nat /\ Len(c) \in Nat
  BY DEF Files, WrittenOver
<1>1. s \in Staying(r) /\ s \in p /\ n < s[1] /\ \A u \in Moved(r, p) : u[1] < s[1]
  BY DEF Earliest, Ahead
<1>2. s \in LinesOf(r) /\ s[1] \in Nat /\ s[2] \in Nat /\ Size(s) \in Nat \ {0}
      /\ Size(s) = s[2] - s[1] + 1
  BY <1>1, StayingFacts, LineFacts
<1>3. Moved(r, p \ {s}) = Moved(r, p) \cup {s} /\ s \notin Moved(r, p)
  BY <1>1 DEF Moved
<1> DEFINE a == LaidNext(at, r, p, s, n)
<1>4. a \in [Moved(r, p \ {s}) -> Nat] /\ a[s] = n /\ \A u \in Moved(r, p) : a[u] = at[u]
  BY <1>0, <1>3 DEF LaidNext
<1> HIDE DEF a
<1>5. n + Size(s) + 1 \in 0..Len(c)
  BY <1>0, <1>2 DEF WrittenOver
<1>6. ASSUME NEW u \in Moved(r, p \ {s})
      PROVE  /\ a[u] + Size(u) + 1 <= n + Size(s) + 1
             /\ \A i \in 1..Size(u) : c[a[u] + i] = r[u[1] + i - 1]
             /\ c[a[u] + Size(u) + 1] = Newline
  <2>1. CASE u = s
    BY <1>0, <1>2, <1>4, <2>1 DEF WrittenOver
  <2>2. CASE u # s
    <3>1. u \in Moved(r, p) /\ a[u] = at[u]
      BY <1>3, <1>4, <2>2
    <3>2. at[u] \in Nat /\ Size(u) \in Nat
      BY <3>1, StayingFacts, LineFacts DEF Moved
    <3>3. /\ at[u] + Size(u) + 1 <= n /\ b[at[u] + Size(u) + 1] = Newline
          /\ \A i \in 1..Size(u) : b[at[u] + i] = r[u[1] + i - 1]
      BY <3>1 DEF Laid
    <3>4. \A i \in 1..(Size(u) + 1) : c[at[u] + i] = b[at[u] + i]
      <4> SUFFICES ASSUME NEW i \in 1..(Size(u) + 1) PROVE c[at[u] + i] = b[at[u] + i]
        OBVIOUS
      <4>1. at[u] + i \in 1..n
        BY <1>0, <3>2, <3>3
      <4> QED BY <4>1 DEF WrittenOver
    <3>5. c[at[u] + Size(u) + 1] = Newline
      <4>1. Size(u) + 1 \in 1..(Size(u) + 1) /\ at[u] + (Size(u) + 1) = at[u] + Size(u) + 1
        BY <3>2
      <4>2. c[at[u] + (Size(u) + 1)] = b[at[u] + (Size(u) + 1)]
        BY <3>4, <4>1
      <4> QED BY <3>3, <4>1, <4>2
    <3>6. at[u] + Size(u) + 1 <= n + Size(s) + 1
      BY <1>0, <1>2, <3>2, <3>3
    <3> QED BY <3>1, <3>2, <3>3, <3>4, <3>5, <3>6
  <2> QED BY <2>1, <2>2
<1>7. ASSUME NEW u \in Moved(r, p \ {s}), NEW v \in Moved(r, p \ {s}), u[1] < v[1]
      PROVE  a[u] + Size(u) + 1 <= a[v]
  <2>0. \A w \in Moved(r, p) : w[1] \in Nat
    BY StayingFacts, LineFacts DEF Moved
  <2>1. u \in Moved(r, p)
    <3> SUFFICES ASSUME u = s PROVE FALSE
      BY <1>3
    <3>0. v # s
      BY <1>2, <1>7
    <3>1. v \in Moved(r, p)
      BY <1>3, <3>0
    <3>2. v[1] < s[1] /\ v[1] \in Nat
      BY <1>1, <2>0, <3>1
    <3> QED BY <1>2, <1>7, <3>2
  <2>2. CASE v = s
    BY <1>4, <2>1, <2>2 DEF Laid
  <2>3. CASE v # s
    BY <1>3, <1>4, <1>7, <2>1, <2>3 DEF Laid
  <2> QED BY <2>2, <2>3
<1>8. ASSUME NEW i \in 1..(n + Size(s) + 1)
      PROVE  \E u \in Moved(r, p \ {s}) : i \in (a[u] + 1)..(a[u] + Size(u) + 1)
  <2>1. CASE i <= n
    <3>1. PICK u \in Moved(r, p) : i \in (at[u] + 1)..(at[u] + Size(u) + 1)
      BY <1>0, <2>1 DEF Laid
    <3>2. u \in Moved(r, p \ {s}) /\ a[u] = at[u]
      BY <1>3, <1>4
    <3> QED BY <3>1, <3>2
  <2>2. CASE n < i
    <3>1. i \in (a[s] + 1)..(a[s] + Size(s) + 1)
      BY <1>0, <1>2, <1>4, <2>2
    <3> QED BY <1>3, <3>1
  <2>3. i <= n \/ n < i
    BY <1>0, <1>2
  <2> QED BY <2>1, <2>2, <2>3
<1>9. Laid(a, c, r, p \ {s}, n + Size(s) + 1)
  BY <1>6, <1>7, <1>8 DEF Laid
<1>10. Ahead(r, p \ {s}, n + Size(s) + 1)
  <2> SUFFICES ASSUME NEW t \in p \ {s}
               PROVE  n + Size(s) + 1 < t[1] /\ \A u \in Moved(r, p) \cup {s} : u[1] < t[1]
    BY <1>3 DEF Ahead
  <2>1. t \in LinesOf(r) /\ t[1] \in Nat /\ s[1] <= t[1]
    BY StayingFacts, LineFacts DEF Ahead, Earliest
  <2>2. s[2] + 1 < t[1]
    BY <1>2, <2>1, LinesApart
  <2>3. \A u \in Moved(r, p) : u[1] < t[1]
    BY DEF Ahead
  <2>4. s[1] < t[1]
    BY <1>2, <2>1, <2>2, LineFacts
  <2>5. n + Size(s) + 1 < t[1]
    BY <1>0, <1>1, <1>2, <2>1, <2>2
  <2> QED BY <2>3, <2>4, <2>5
<1> QED BY <1>4, <1>5, <1>9, <1>10 DEF a

\* It covers nothing past its own end.
LEMMA NextRest ==
  ASSUME NEW b \in Files, NEW r \in Files, NEW n \in 0..Len(b), NEW s \in LinesOf(r),
         Rest(b, r, n), NEW c, WrittenOver(c, b, r, s, n)
  PROVE  Rest(c, r, n + Size(s) + 1)
<1>0. Len(b) \in Nat /\ n \in Nat /\ Size(s) \in Nat /\ Len(r) \in Nat
  BY LineFacts DEF Files
<1>1. PICK k \in Nat : k = n + Size(s) + 1
  BY <1>0
<1>2. k > n /\ Len(c) = IF k > Len(b) THEN k ELSE Len(b)
  BY <1>0, <1>1 DEF WrittenOver
<1>3. \A i \in 1..Len(b) : i > k => c[i] = b[i]
  BY <1>1 DEF WrittenOver
<1>4. ASSUME NEW i \in Nat, i > k
      PROVE  (i <= Len(c) <=> i <= Len(r)) /\ (i <= Len(c) => c[i] = r[i])
  <2>1. i > n /\ i \in Nat /\ (i <= Len(c) <=> i <= Len(b))
    BY <1>0, <1>2, <1>4
  <2>2. (i <= Len(b) <=> i <= Len(r)) /\ (i <= Len(b) => b[i] = r[i])
    BY <2>1 DEF Rest
  <2>3. i <= Len(b) => c[i] = b[i]
    BY <1>0, <1>2, <1>3, <1>4
  <2> QED BY <2>1, <2>2, <2>3
<1> QED BY <1>1, <1>4 DEF Rest

\* A line that is written again before a damaged one lands where it was.
LEMMA NextFixed ==
  ASSUME NEW b \in Files, NEW r \in Files, doomed \subseteq 1..Lines, NEW p,
         NEW at \in [Moved(r, p) -> Nat], NEW n \in 0..Len(b), Laid(at, b, r, p, n),
         Ahead(r, p, n), NEW s \in Earliest(p), NEW c, WrittenOver(c, b, r, s, n),
         Rest(b, r, n), Fixed(at, b, r, p, n), Firm(r)
  PROVE  Fixed(LaidNext(at, r, p, s, n), c, r, p \ {s}, n + Size(s) + 1)
<1>0. Len(b) \in Nat /\ n \in Nat /\ Len(c) \in Nat /\ Len(r) \in Nat
  BY DEF Files, WrittenOver
<1>1. s \in Staying(r) /\ s \in p /\ \A t \in p : t \in Staying(r) /\ s[1] <= t[1]
  BY DEF Earliest, Ahead
<1>2. /\ s \in LinesOf(r) /\ s[1] \in Nat /\ s[2] \in Nat /\ Size(s) \in Nat \ {0}
      /\ s[1] > 0 /\ s[1] <= s[2] /\ Size(s) = s[2] - s[1] + 1
      /\ s[2] < Len(r) => r[s[2] + 1] = Newline
  BY <1>1, StayingFacts, LineFacts
<1>a. PICK a \in Nat, z \in Nat : s[1] = a /\ s[2] = z
  BY <1>2
<1>b. a > 0 /\ a <= z /\ Size(s) = z - a + 1
  BY <1>2, <1>a
<1> SUFFICES ASSUME NEW d \in Damaged(r)
             PROVE  /\ d \in p \ {s} \/ LaidNext(at, r, p, s, n)[d] = d[1] - 1
                    /\ \A i \in 1..d[2] : c[i] = r[i]
                    /\ \A t \in Earliest(p \ {s}) : t[1] <= d[1] => n + Size(s) + 1 = t[1] - 1
  BY DEF Fixed
<1>3. /\ d \in p \/ at[d] = d[1] - 1
      /\ \A i \in 1..d[2] : b[i] = r[i]
      /\ s[1] <= d[1] => n = s[1] - 1
  BY DEF Fixed
<1>4. /\ d \in LinesOf(r) /\ d \in Staying(r)
      /\ d[1] \in Nat /\ d[2] \in Nat /\ d[1] <= d[2] /\ d[2] <= Len(r)
      /\ Size(d) = d[2] - d[1] + 1
  BY <1>0, StayingFacts, LineFacts
<1>5. d \in p \ {s} \/ LaidNext(at, r, p, s, n)[d] = d[1] - 1
  <2>1. CASE d = s
    <3>1. s \in Moved(r, p \ {s})
      BY <1>1 DEF Moved
    <3> QED BY <1>3, <1>4, <2>1, <3>1 DEF LaidNext
  <2>2. CASE d # s /\ d \notin p
    <3>1. d \in Moved(r, p \ {s})
      BY <1>4, <2>2 DEF Moved
    <3> QED BY <1>3, <2>2, <3>1 DEF LaidNext
  <2> QED BY <2>1, <2>2
<1>6. ASSUME NEW i \in 1..d[2] PROVE c[i] = r[i]
  <2>0. n \in Nat /\ i \in Nat /\ i > 0 /\ i <= Len(r) /\ Len(r) \in Nat
    BY <1>0, <1>4
  <2>1. CASE i <= n
    BY <1>0, <1>3, <1>4, <2>1 DEF WrittenOver
  <2>2. CASE n < i
    <3>1. d \in p
      <4> SUFFICES ASSUME d \notin p PROVE FALSE
        OBVIOUS
      <4>1. at[d] = d[1] - 1 /\ d \in Moved(r, p)
        BY <1>3, <1>4 DEF Moved
      <4>2. at[d] + Size(d) + 1 <= n
        BY <4>1 DEF Laid
      <4> QED BY <1>0, <1>4, <2>2, <4>1, <4>2
    <3>2. n = s[1] - 1
      BY <1>1, <1>3, <3>1
    <3>3. CASE i <= n + Size(s)
      <4>1. i - n \in 1..Size(s) /\ n + (i - n) = i /\ s[1] + (i - n) - 1 = i
        BY <1>a, <1>b, <2>0, <2>2, <3>2, <3>3
      <4>2. c[n + (i - n)] = r[s[1] + (i - n) - 1]
        BY <4>1 DEF WrittenOver
      <4> QED BY <4>1, <4>2
    <3>4. CASE i = n + Size(s) + 1
      <4>1. i = s[2] + 1 /\ s[2] < Len(r)
        BY <1>a, <1>b, <2>0, <3>2, <3>4
      <4>2. c[i] = Newline
        BY <3>4 DEF WrittenOver
      <4> QED BY <1>2, <4>1, <4>2
    <3>5. CASE n + Size(s) + 1 < i
      <4>1. d[2] <= Len(b)
        <5>1. d[1] > n
          BY <3>1 DEF Ahead
        <5>2. d[2] > n
          BY <1>0, <1>4, <5>1
        <5> QED BY <1>4, <5>2 DEF Rest
      <4>2. i \in 1..Len(b) /\ i \in 1..d[2]
        BY <1>0, <1>4, <4>1
      <4> QED BY <1>3, <3>5, <4>2 DEF WrittenOver
    <3>6. i <= n + Size(s) \/ i = n + Size(s) + 1 \/ n + Size(s) + 1 < i
      BY <1>a, <1>b, <2>0
    <3> QED BY <3>3, <3>4, <3>5, <3>6
  <2> QED BY <1>0, <1>4, <2>1, <2>2
<1>7. ASSUME NEW t \in Earliest(p \ {s}), t[1] <= d[1]
      PROVE  n + Size(s) + 1 = t[1] - 1
  <2>1. /\ t \in p /\ t # s /\ t \in Staying(r) /\ s[1] <= t[1]
        /\ \A u \in p : u # s => t[1] <= u[1]
    BY <1>1 DEF Earliest
  <2>2. t \in LinesOf(r) /\ t[1] \in Nat
    BY <2>1, StayingFacts, LineFacts
  <2>3. s[2] + 1 < t[1]
    BY <1>2, <2>1, <2>2, LinesApart
  <2>4. n + Size(s) + 1 = s[2] + 1
    <3>1. n = a - 1
      BY <1>3, <1>4, <1>7, <1>a, <2>1, <2>2
    <3> QED BY <1>a, <1>b, <3>1
  <2>5. s[2] + 2 \in Rw!Starts(r)
    <3>1. z + 2 \in 1..Len(r) /\ (z + 2) - 1 = z + 1 /\ z < Len(r)
      <4>1. z \in Nat /\ z + 1 < t[1]
        BY <1>a, <2>3
      <4>2. t[1] <= Len(r) /\ Len(r) \in Nat
        BY <1>0, <2>2, LineFacts
      <4> QED BY <2>2, <4>1, <4>2
    <3>2. r[z + 1] = Newline
      BY <1>2, <1>a, <3>1
    <3> QED BY <1>a, <3>1, <3>2 DEF Rw!Starts, Files, Newline
  <2>6. CASE s[2] + 2 < d[1]
    <3>1. PICK u \in Staying(r) : u[1] = s[2] + 2
      BY <2>5, <2>6 DEF Firm, Untouched
    <3>2. u \in p
      <4> SUFFICES ASSUME u \notin p PROVE FALSE
        OBVIOUS
      <4>1. u[1] < s[1]
        BY <1>1 DEF Ahead, Moved
      <4> QED BY <1>2, <3>1, <4>1
    <3>3. u # s
      BY <1>2, <3>1
    <3>4. t[1] <= z + 2
      BY <1>a, <2>1, <3>1, <3>2, <3>3
    <3> QED BY <1>a, <2>2, <2>3, <2>4, <3>4
  <2>7. CASE d[1] <= s[2] + 2
    <3>1. t[1] <= z + 2
      BY <1>a, <1>4, <1>7, <2>2, <2>7
    <3> QED BY <1>a, <2>2, <2>3, <2>4, <3>1
  <2> QED BY <1>a, <1>4, <2>6, <2>7
<1> QED BY <1>5, <1>6, <1>7
-----------------------------------------------------------------------------
\* A forget in the middle of its work, and what each of its ends leaves.
Midway(at, b, r, p, n) ==
  Laid(at, b, r, p, n) /\ Ahead(r, p, n) /\ Rest(b, r, n) /\ Fixed(at, b, r, p, n)

\* Between two writes nothing lies between what was written and the old bytes.
LEMMA MidwayMeets ==
  ASSUME NEW at, NEW b, NEW r, NEW p, NEW n \in Nat, Midway(at, b, r, p, n)
  PROVE  Meets(at, b, r, p, n, n)
BY DEF Midway, Meets, Fixed

\* A forget that has written nothing has every line that stays in its plan.
LEMMA Started ==
  ASSUME NEW r \in Files, doomed \subseteq 1..Lines, Firm(r),
         NEW at \in [Moved(r, Staying(r)) -> Nat]
  PROVE  Midway(at, r, r, Staying(r), 0)
<1>0. Moved(r, Staying(r)) = {} /\ Len(r) \in Nat
  BY DEF Moved, Files
<1>1. \A s \in Staying(r) : s \in LinesOf(r) /\ s[1] \in 1..Len(r)
  BY StayingFacts, LineFacts
<1>2. Laid(at, r, r, Staying(r), 0)
  BY <1>0 DEF Laid
<1>3. Ahead(r, Staying(r), 0)
  BY <1>0, <1>1 DEF Ahead
<1>4. Rest(r, r, 0)
  BY DEF Rest
<1>5. ASSUME NEW d \in Damaged(r), NEW s \in Earliest(Staying(r)), s[1] <= d[1]
      PROVE  0 = s[1] - 1
  <2>1. d \in LinesOf(r) /\ d[1] \in 1..Len(r) /\ s[1] \in 1..Len(r)
    BY <1>1, StayingFacts, LineFacts DEF Earliest
  <2>2. CASE d[1] = 1
    BY <1>5, <2>1, <2>2
  <2>3. CASE 1 < d[1]
    <3>1. 1 \in Rw!Starts(r)
      BY <1>0, <2>1 DEF Rw!Starts, Files
    <3>2. PICK t \in Staying(r) : t[1] = 1
      BY <2>3, <3>1 DEF Firm, Untouched
    <3> QED BY <2>1, <3>2 DEF Earliest
  <2> QED BY <2>1, <2>2, <2>3
<1>6. Fixed(at, r, r, Staying(r), 0)
  BY <1>5, StayingFacts DEF Fixed
<1> QED BY <1>2, <1>3, <1>4, <1>6 DEF Midway

\* What a file is after the first m bytes of line s of r are written over b.
TornOver(c, b, r, s, n, m) ==
  /\ c \in Files
  /\ Len(c) = IF n + m > Len(b) THEN n + m ELSE Len(b)
  /\ \A i \in 1..n : c[i] = b[i]
  /\ \A i \in 1..m : c[n + i] = r[s[1] + i - 1]
  /\ \A i \in 1..Len(b) : i > n + m => c[i] = b[i]

\* Those bytes end before the line did, and hold no newline.
LEMMA TornMeets ==
  ASSUME NEW b \in Files, NEW r \in Files, doomed \subseteq 1..Lines, NEW p,
         NEW at \in [Moved(r, p) -> Nat], NEW n \in 0..Len(b), Midway(at, b, r, p, n),
         NEW s \in Earliest(p), NEW m \in 1..Size(s), NEW c, TornOver(c, b, r, s, n, m)
  PROVE  Meets(at, c, r, p, n, n + m) /\ n \in 0..Len(c)
<1>0. Len(b) \in Nat /\ n \in Nat /\ Len(c) \in Nat /\ Len(r) \in Nat /\ c \in Files
  BY DEF Files, TornOver
<1>1. s \in p /\ s \in Staying(r) /\ n < s[1]
  BY DEF Earliest, Midway, Ahead
<1>2. /\ s \in LinesOf(r) /\ s[1] \in Nat /\ s[2] \in Nat /\ s[2] <= Len(r)
      /\ Size(s) = s[2] - s[1] + 1 /\ \A i \in s[1]..s[2] : r[i] # Newline
  BY <1>0, <1>1, StayingFacts, LineFacts
<1>a. PICK a \in Nat, z \in Nat : s[1] = a /\ s[2] = z
  BY <1>2
<1>b. z <= Len(r) /\ m \in Nat /\ m > 0 /\ m <= z - a + 1 /\ n < a
  BY <1>0, <1>1, <1>2, <1>a
<1>3. Rest(b, r, n)
  BY DEF Midway
<1>c. PICK k \in Nat : k = n + m
  BY <1>0, <1>b
<1>4. k > n /\ k <= z
  BY <1>0, <1>b, <1>c
<1>5. k <= Len(b)
  <2>1. k <= Len(r)
    BY <1>0, <1>4, <1>b
  <2> QED BY <1>3, <1>4, <2>1 DEF Rest
<1>6. Len(c) = Len(b) /\ \A i \in 1..n : c[i] = b[i]
  BY <1>0, <1>5, <1>c DEF TornOver
<1>7. ASSUME NEW i \in (n + 1)..k
      PROVE  c[i] = r[a + (i - n) - 1] /\ a + (i - n) - 1 \in a..z
  <2>1. i - n \in 1..m /\ n + (i - n) = i
    BY <1>0, <1>b, <1>c
  <2>2. c[n + (i - n)] = r[s[1] + (i - n) - 1]
    BY <2>1 DEF TornOver
  <2>3. a + (i - n) - 1 \in a..z
    BY <1>b, <2>1
  <2> QED BY <1>a, <2>1, <2>2, <2>3
<1>8. \A i \in (n + 1)..k : c[i] # Newline
  BY <1>2, <1>7, <1>a
<1>9. Rest(c, r, k)
  <2> SUFFICES ASSUME NEW i \in Nat, i > k
               PROVE  (i <= Len(c) <=> i <= Len(r)) /\ (i <= Len(c) => c[i] = r[i])
    BY DEF Rest
  <2>1. i > n
    BY <1>0, <1>4
  <2>2. (i <= Len(b) <=> i <= Len(r)) /\ (i <= Len(b) => b[i] = r[i])
    BY <1>3, <2>1 DEF Rest
  <2>3. i <= Len(b) => c[i] = b[i]
    BY <1>0, <1>c DEF TornOver
  <2> QED BY <1>6, <2>2, <2>3
<1>10. Laid(at, c, r, p, n)
  <2>1. Laid(at, b, r, p, n)
    BY DEF Midway
  <2>2. ASSUME NEW u \in Moved(r, p)
        PROVE  /\ \A i \in 1..Size(u) : c[at[u] + i] = r[u[1] + i - 1]
               /\ c[at[u] + Size(u) + 1] = Newline
    <3>1. at[u] \in Nat /\ Size(u) \in Nat
      BY StayingFacts, LineFacts DEF Moved
    <3>2. /\ at[u] + Size(u) + 1 <= n /\ b[at[u] + Size(u) + 1] = Newline
          /\ \A i \in 1..Size(u) : b[at[u] + i] = r[u[1] + i - 1]
      BY <2>1 DEF Laid
    <3>3. \A i \in 1..Size(u) : at[u] + i \in 1..n
      BY <1>0, <3>1, <3>2
    <3>4. at[u] + Size(u) + 1 \in 1..n
      BY <1>0, <3>1, <3>2
    <3> QED BY <1>6, <3>2, <3>3, <3>4
  <2> QED BY <2>1, <2>2 DEF Laid
<1>11. ASSUME NEW d \in Damaged(r)
       PROVE  (d \in p \/ at[d] = d[1] - 1) /\ \A i \in 1..d[2] : c[i] = r[i]
  <2>1. /\ d \in p \/ at[d] = d[1] - 1
        /\ \A i \in 1..d[2] : b[i] = r[i]
        /\ s[1] <= d[1] => n = s[1] - 1
    BY DEF Midway, Fixed
  <2>2. d \in LinesOf(r) /\ d \in Staying(r) /\ d[1] \in Nat /\ d[2] \in Nat
        /\ d[2] <= Len(r) /\ Size(d) = d[2] - d[1] + 1
    BY <1>0, StayingFacts, LineFacts
  <2>3. ASSUME NEW i \in 1..d[2] PROVE c[i] = r[i]
    <3>0. i \in Nat /\ i > 0 /\ i <= d[2]
      BY <2>2
    <3>1. CASE i <= n
      BY <1>0, <1>6, <2>1, <3>0, <3>1
    <3>2. CASE n < i /\ i <= k
      <4>1. d \in p
        <5> SUFFICES ASSUME d \notin p PROVE FALSE
          OBVIOUS
        <5>1. d \in Moved(r, p) /\ at[d] = d[1] - 1
          BY <2>1, <2>2 DEF Moved
        <5>2. at[d] + Size(d) + 1 <= n
          BY <5>1 DEF Midway, Laid
        <5> QED BY <1>0, <2>2, <3>0, <3>2, <5>1, <5>2, SMTT(20)
      <4>2. n = a - 1
        BY <1>a, <2>1, <4>1 DEF Earliest
      <4>3. i \in (n + 1)..k /\ a + (i - n) - 1 = i
        BY <1>0, <1>c, <3>0, <3>2, <4>2
      <4> QED BY <1>7, <4>3
    <3>3. CASE k < i
      BY <1>9, <1>0, <1>6, <2>2, <3>0, <3>3 DEF Rest
    <3> QED BY <1>0, <1>c, <3>0, <3>1, <3>2, <3>3
  <2> QED BY <2>1, <2>3
<1> QED BY <1>0, <1>5, <1>6, <1>8, <1>9, <1>10, <1>11, <1>4, <1>c DEF Meets

\* Once it is cut, the file is what was written.
LEMMA CutMeets ==
  ASSUME NEW b \in Files, NEW r \in Files, doomed \subseteq 1..Lines,
         NEW at \in [Moved(r, {}) -> Nat], NEW n \in 0..Len(b), Midway(at, b, r, {}, n),
         NEW c \in Files, Len(c) = n, \A i \in 1..n : c[i] = b[i]
  PROVE  Meets(at, c, r, {}, n, n)
<1>0. Len(b) \in Nat /\ n \in Nat
  BY DEF Files
<1>1. Len(c) = n /\ \A i \in 1..n : c[i] = b[i]
  OBVIOUS
<1>2. Laid(at, b, r, {}, n)
  BY DEF Midway
<1>3. \A u \in Moved(r, {}) : at[u] \in Nat /\ Size(u) \in Nat
  BY StayingFacts, LineFacts DEF Moved
<1>4. ASSUME NEW u \in Moved(r, {})
      PROVE  /\ \A i \in 1..Size(u) : c[at[u] + i] = r[u[1] + i - 1]
             /\ c[at[u] + Size(u) + 1] = Newline
  <2>1. at[u] \in Nat /\ Size(u) \in Nat
    BY <1>3
  <2>2. /\ at[u] + Size(u) + 1 <= n /\ b[at[u] + Size(u) + 1] = Newline
        /\ \A i \in 1..Size(u) : b[at[u] + i] = r[u[1] + i - 1]
    BY <1>2 DEF Laid
  <2>3. \A i \in 1..Size(u) : at[u] + i \in 1..n
    BY <1>0, <2>1, <2>2
  <2>4. at[u] + Size(u) + 1 \in 1..n
    BY <1>0, <2>1, <2>2
  <2> QED BY <1>1, <2>2, <2>3, <2>4
<1>5. Laid(at, c, r, {}, n)
  BY <1>2, <1>4 DEF Laid
<1>6. ASSUME NEW d \in Damaged(r)
      PROVE  at[d] = d[1] - 1 /\ \A i \in 1..d[2] : c[i] = r[i]
  <2>1. at[d] = d[1] - 1 /\ \A i \in 1..d[2] : b[i] = r[i]
    BY DEF Midway, Fixed
  <2>2. d \in LinesOf(r) /\ d \in Moved(r, {}) /\ d[1] \in Nat /\ d[2] \in Nat
        /\ Size(d) = d[2] - d[1] + 1
    BY StayingFacts, LineFacts DEF Moved
  <2>3. at[d] + Size(d) + 1 <= n
    BY <1>2, <2>2 DEF Laid
  <2>4. d[2] <= n
    BY <1>0, <2>1, <2>2, <2>3
  <2>5. \A i \in 1..d[2] : i \in 1..n
    BY <1>0, <2>2, <2>4
  <2> QED BY <1>1, <2>1, <2>5
<1>7. (n + 1)..n = {}
  BY <1>0
<1> QED BY <1>1, <1>5, <1>6, <1>7 DEF Meets

\* Once the file is cut, its lines are those that stay, and in the order they had.
LEMMA CutStays ==
  ASSUME NEW c \in Files, NEW r \in Files, doomed \subseteq 1..Lines,
         NEW at \in [Moved(r, {}) -> Nat], Laid(at, c, r, {}, Len(c))
  PROVE  /\ \A s \in LinesOf(c) : Rw!Stays(Text(c, s))
         /\ Rw!Ordered(r) => Rw!Ordered(c)
<1>0. Len(c) \in 0..Len(c) /\ Len(c) \in Nat
  BY DEF Files
<1>1. ASSUME NEW s \in LinesOf(c)
      PROVE  \E u \in Moved(r, {}) : s = Place(at, u)
  <2>1. s[1] <= Len(c)
    BY <1>0, LineFacts
  <2> QED BY <1>0, <2>1, OnlyLaid
<1>2. \A u \in Moved(r, {}) : Text(c, Place(at, u)) = Text(r, u)
  BY <1>0, LaidLines
<1>3. \A u \in Moved(r, {}) : u \in LinesOf(r) /\ Rw!Stays(Text(r, u))
  BY StayingFacts DEF Moved
<1>4. ASSUME NEW s \in LinesOf(c) PROVE Rw!Stays(Text(c, s))
  BY <1>1, <1>2, <1>3
<1>5. ASSUME Rw!Ordered(r), NEW s \in LinesOf(c), NEW t \in LinesOf(c)
      PROVE  \E l, m \in 1..Lines :
               Text(c, s) = Rw!Record(l) /\ Text(c, t) = Rw!Record(m) /\ (s[1] < t[1] => l < m)
  <2>1. PICK u \in Moved(r, {}) : s = Place(at, u)
    BY <1>1
  <2>2. PICK v \in Moved(r, {}) : t = Place(at, v)
    BY <1>1
  <2>3. u \in LinesOf(r) /\ v \in LinesOf(r)
    BY <1>3
  <2>4. PICK l \in 1..Lines, m \in 1..Lines :
          Text(r, u) = Rw!Record(l) /\ Text(r, v) = Rw!Record(m) /\ (u[1] < v[1] => l < m)
    BY <1>5, <2>3 DEF Rw!Ordered, LinesOf, Text
  <2>5. s[1] < t[1] => u[1] < v[1]
    <3> SUFFICES ASSUME s[1] < t[1], ~(u[1] < v[1]) PROVE FALSE
      OBVIOUS
    <3>1. at[u] \in Nat /\ at[v] \in Nat /\ at[u] < at[v] /\ Size(v) \in Nat
      BY <2>1, <2>2, <2>3, LineFacts DEF Place
    <3>2. \A w \in LinesOf(r) : w[1] \in Nat
      BY LineFacts
    <3>3. u # v
      BY <3>1
    <3>4. v[1] < u[1]
      <4>1. u[1] \in Nat /\ v[1] \in Nat
        BY <2>3, <3>2
      <4>2. u[2] + 1 < v[1] \/ v[1] < u[1]
        BY <2>3, <3>3, <4>1, LinesApart
      <4>3. u[2] \in Nat /\ u[1] <= u[2]
        BY <2>3, LineFacts, SMTT(20)
      <4>4. ~(u[2] + 1 < v[1])
        BY <4>1, <4>3
      <4> QED BY <4>2, <4>4
    <3>5. at[v] + Size(v) + 1 <= at[u]
      BY <3>4 DEF Laid
    <3> QED BY <3>1, <3>5
  <2> QED BY <1>2, <2>1, <2>2, <2>4, <2>5
<1> QED BY <1>4, <1>5 DEF Rw!Ordered, LinesOf, Text

-----------------------------------------------------------------------------
\* A set of numbers has a least one.
LEMMA LeastNumber ==
  ASSUME NEW S \in SUBSET Nat, S # {}
  PROVE  \E a \in S : \A c \in S : a <= c
<1>1. \E a : a \in S
  OBVIOUS
<1>2. \E a \in S : \A c \in S : ~(<<c, a>> \in OpToRel(<, Nat))
  BY <1>1, NatLessThanWellFounded, WFMin
<1>3. PICK a \in S : \A c \in S : <<c, a>> \notin OpToRel(<, Nat)
  BY <1>2
<1>4. \A c \in S : ~(c < a)
  BY <1>3, Zenon DEF OpToRel
<1>5. \A c \in S : a <= c
  BY <1>4
<1> QED BY <1>5

\* A set of lines that is not empty has a first.
LEMMA FirstLine ==
  ASSUME NEW b \in Files, NEW p \in SUBSET LinesOf(b), p # {}
  PROVE  \E s \in p : \A t \in p : s[1] <= t[1]
<1> DEFINE P == {s[1] : s \in p}
<1>1. \A s \in p : s[1] \in Nat
  BY LineFacts
<1>2. P \in SUBSET Nat /\ P # {}
  BY <1>1
<1>3. \E a \in P : \A c \in P : a <= c
  BY <1>2, LeastNumber
<1> QED BY <1>3

\* What Overlay leaves of the file.
LEMMA OverlayFacts ==
  ASSUME file \in Files, NEW x \in Files, NEW n \in 0..Len(file)
  PROVE  /\ Rw!Overlay(x, n) \in Files
         /\ Len(Rw!Overlay(x, n)) = IF n + Len(x) > Len(file) THEN n + Len(x) ELSE Len(file)
         /\ \A i \in 1..n : Rw!Overlay(x, n)[i] = file[i]
         /\ \A i \in 1..Len(x) : Rw!Overlay(x, n)[n + i] = x[i]
         /\ \A i \in 1..Len(file) : i > n + Len(x) => Rw!Overlay(x, n)[i] = file[i]
<1>0. Len(file) \in Nat /\ n \in Nat /\ Len(x) \in Nat
  BY DEF Files
<1>1. PICK m \in Nat : m = IF n + Len(x) > Len(file) THEN n + Len(x) ELSE Len(file)
  BY <1>0
<1>2. Rw!Overlay(x, n) =
        [i \in 1..m |-> IF i \in (n + 1)..(n + Len(x)) THEN x[i - n] ELSE file[i]]
  BY <1>1 DEF Rw!Overlay
<1>3. n <= m /\ n + Len(x) <= m /\ Len(file) <= m /\ (m = Len(file) \/ m = n + Len(x))
  BY <1>0, <1>1
<1>4. ASSUME NEW i \in 1..m
      PROVE  (IF i \in (n + 1)..(n + Len(x)) THEN x[i - n] ELSE file[i]) \in Rw!Bytes
  <2>1. CASE i \in (n + 1)..(n + Len(x))
    <3>1. i - n \in 1..Len(x)
      BY <1>0, <2>1
    <3> QED BY <2>1, <3>1 DEF Files
  <2>2. CASE i \notin (n + 1)..(n + Len(x))
    <3>1. i \in 1..Len(file)
      BY <1>0, <1>3, <2>2
    <3> QED BY <2>2, <3>1 DEF Files
  <2> QED BY <2>1, <2>2
<1>5. Rw!Overlay(x, n) \in [1..m -> Rw!Bytes]
  BY <1>2, <1>4
<1>6. Rw!Overlay(x, n) \in Files /\ Len(Rw!Overlay(x, n)) = m
  BY <1>5 DEF Files
<1>7. \A i \in 1..n : Rw!Overlay(x, n)[i] = file[i]
  BY <1>0, <1>2, <1>3
<1>8. ASSUME NEW i \in 1..Len(x) PROVE Rw!Overlay(x, n)[n + i] = x[i]
  <2>1. n + i \in 1..m /\ n + i \in (n + 1)..(n + Len(x)) /\ (n + i) - n = i
    BY <1>0, <1>3
  <2> QED BY <1>2, <2>1
<1>9. ASSUME NEW i \in 1..Len(file), i > n + Len(x) PROVE Rw!Overlay(x, n)[i] = file[i]
  BY <1>0, <1>2, <1>3, <1>9
<1> QED BY <1>1, <1>6, <1>7, <1>8, <1>9

-----------------------------------------------------------------------------
\* What the constants stand for.
Bounds == Lines \in Nat /\ MaxLen \in Nat /\ MaxForgets \in Nat

\* A file with n damaged lines at most, where no forget has moved one.
Settled(bytes, n) == bytes \in Files /\ Cardinality(Damaged(bytes)) <= n /\ Firm(bytes)

\* A forget at work, and the bytes that its plan, or the next one's, is made of.
Working == {"writing", "cutting"}
Source == IF pc \in Working THEN read ELSE file

\* The file is what was read with a part of the plan written over it, record after
\* record, and has a damaged line at most for each forget that was killed.
RewriteInv ==
  /\ Rw!TypeOK
  /\ Settled(Source, IF pc \in Working THEN forgets - 1 ELSE forgets)
  /\ torn \/ Held(Source)
  /\ IF pc \in Working
       THEN \E at \in [Moved(read, plan) -> Nat] : Midway(at, file, read, plan, off)
       ELSE plan = {} /\ off = 0
  /\ pc = "cutting" => plan = {}
  /\ pc = "done" => \A s \in LinesOf(file) : Rw!Stays(Text(file, s))
  /\ forgets = 0 => pc = "ready"
  /\ forgets = 0 \/ (forgets = 1 /\ pc # "ready") => ~torn /\ Rw!Ordered(Source)

\* The records, and those to forget, stay the same.
LEMMA SameRecords ==
  ASSUME UNCHANGED <<len, doomed>>
  PROVE  /\ \A x : Rw!Stays(x)' <=> Rw!Stays(x)
         /\ \A b, n : Settled(b, n)' <=> Settled(b, n)
         /\ \A b : Held(b)' <=> Held(b)
         /\ \A b : Rw!Ordered(b)' <=> Rw!Ordered(b)
         /\ \A r, p : Moved(r, p)' = Moved(r, p)
         /\ \A at, b, r, p, n : Midway(at, b, r, p, n)' <=> Midway(at, b, r, p, n)
<1>1. \A l : Rw!Record(l)' = Rw!Record(l)
  BY DEF Rw!Record
<1>2. \A x : (Rw!Stays(x)' <=> Rw!Stays(x)) /\ (Rw!Parses(x)' <=> Rw!Parses(x))
  BY <1>1 DEF Rw!Stays, Rw!Parses
<1>3. \A b : Staying(b)' = Staying(b) /\ Damaged(b)' = Damaged(b)
  BY <1>2 DEF Staying, Damaged, Rw!Damaged
<1>4. \A b : Held(b)' <=> Held(b)
  BY <1>1 DEF Held
<1>5. \A b : Rw!Ordered(b)' <=> Rw!Ordered(b)
  BY <1>1 DEF Rw!Ordered
<1>6. \A r, p : Moved(r, p)' = Moved(r, p)
  BY <1>3 DEF Moved
<1>7. \A b : Firm(b)' <=> Firm(b)
  BY <1>3 DEF Firm, Untouched
<1>8. \A b, n : Settled(b, n)' <=> Settled(b, n)
  BY <1>3, <1>7 DEF Settled
<1>9. ASSUME NEW at, NEW b, NEW r, NEW p, NEW n
      PROVE  Midway(at, b, r, p, n)' <=> Midway(at, b, r, p, n)
  <2>1. Laid(at, b, r, p, n)' <=> Laid(at, b, r, p, n)
    BY <1>6 DEF Laid
  <2>2. Ahead(r, p, n)' <=> Ahead(r, p, n)
    BY <1>3, <1>6 DEF Ahead
  <2>3. Fixed(at, b, r, p, n)' <=> Fixed(at, b, r, p, n)
    BY <1>3 DEF Fixed
  <2> QED BY <2>1, <2>2, <2>3 DEF Midway
<1> QED BY <1>2, <1>4, <1>5, <1>6, <1>8, <1>9

\* A step after which the forget is still at work.
LEMMA WorkGoesOn ==
  ASSUME UNCHANGED <<len, doomed>>, Rw!TypeOK,
         file' \in Files, read' \in Files, off' \in 0..Len(file'), torn' = torn,
         pc' \in Working, pc' = "cutting" => plan' = {},
         forgets' \in 1..MaxForgets, Settled(read', forgets' - 1), torn \/ Held(read'),
         forgets' = 1 => ~torn /\ Rw!Ordered(read'), plan' \subseteq LinesOf(read'),
         NEW at \in [Moved(read', plan') -> Nat], Midway(at, file', read', plan', off')
  PROVE  RewriteInv'
<1>1. Source' = read' /\ pc' \notin {"ready", "done"} /\ pc' \in {"writing", "cutting"}
  BY DEF Source, Working
<1>2. Rw!TypeOK'
  BY <1>1 DEF Rw!TypeOK, Files, LinesOf, Rw!Bytes
<1>3. at \in [Moved(read, plan)' -> Nat] /\ Midway(at, file, read, plan, off)'
  BY SameRecords
<1>4. Settled(read, forgets - 1)' /\ (torn' \/ Held(read)')
  BY SameRecords
<1>5. forgets' = 1 => ~torn' /\ Rw!Ordered(read)'
  BY SameRecords
<1> QED BY <1>1, <1>2, <1>3, <1>4, <1>5 DEF RewriteInv

\* A step after which it is not.
LEMMA WorkEnds ==
  ASSUME UNCHANGED <<len, doomed, forgets>>, Rw!TypeOK, file' \in Files,
         read' = <<>>, plan' = {}, off' = 0, torn' \in BOOLEAN, pc' \in {"ready", "done"},
         forgets \in 1..MaxForgets, Settled(file', forgets), torn' \/ Held(file'),
         pc' = "done" => /\ \A s \in LinesOf(file') : Rw!Stays(Text(file', s))
                         /\ forgets = 1 => ~torn' /\ Rw!Ordered(file')
  PROVE  RewriteInv'
<1>1. Source' = file' /\ pc' \notin Working
  BY DEF Source, Working
<1>2. Rw!TypeOK'
  <2>1. Len(file') \in Nat /\ <<>> \in Files
    BY DEF Files
  <2> QED BY <2>1 DEF Rw!TypeOK, Files, Rw!Bytes
<1>3. Settled(file, forgets)' /\ (torn' \/ Held(file)')
  BY SameRecords
<1>4. pc' = "done" => (\A s \in LinesOf(file) : Rw!Stays(Text(file, s)))'
  BY SameRecords
<1>5. pc' = "done" /\ forgets' = 1 => ~torn' /\ Rw!Ordered(file)'
  BY SameRecords
<1> QED BY <1>1, <1>2, <1>3, <1>4, <1>5 DEF RewriteInv

\* The types, as the proofs of the steps use them.
LEMMA TypeFacts ==
  ASSUME Bounds, RewriteInv
  PROVE  /\ file \in Files /\ read \in Files /\ off \in 0..Len(file) /\ plan \subseteq LinesOf(read)
         /\ doomed \subseteq 1..Lines /\ len \in [1..Lines -> 1..MaxLen] /\ MaxLen \in Nat
         /\ MaxForgets \in Nat /\ forgets \in 0..MaxForgets /\ torn \in BOOLEAN
         /\ Rw!TypeOK
BY DEF RewriteInv, Rw!TypeOK, Bounds, Files, LinesOf

\* A forget reads the file and plans.
LEMMA ForgetStep ==
  ASSUME Bounds, RewriteInv, Rw!Forget
  PROVE  RewriteInv'
<1>1. /\ pc \in {"ready", "done"} /\ pc \notin Working /\ forgets < MaxForgets
      /\ read' = file /\ plan' = Staying(file) /\ file' = file /\ pc' = "writing" /\ off' = off
      /\ forgets' = forgets + 1 /\ torn' = torn /\ UNCHANGED <<len, doomed>>
  BY DEF Rw!Forget, Rw!Kept, Staying, LinesOf, Text, Working
<1>2. /\ Settled(file, forgets) /\ off = 0 /\ (torn \/ Held(file))
      /\ forgets = 0 => ~torn /\ Rw!Ordered(file)
  BY <1>1 DEF RewriteInv, Source
<1>3. forgets' \in 1..MaxForgets /\ forgets' - 1 = forgets
  BY <1>1, TypeFacts
<1>4. PICK at : at = [u \in Moved(file, Staying(file)) |-> 0]
  OBVIOUS
<1>5. at \in [Moved(read', plan') -> Nat]
  BY <1>1, <1>4
<1>6. Midway(at, file, file, Staying(file), 0)
  BY <1>1, <1>2, <1>5, Started, TypeFacts DEF Settled
<1>7. Staying(file) \subseteq LinesOf(file)
  BY TypeFacts, StayingFacts
<1>8. off' \in 0..Len(file') /\ file' \in Files /\ read' \in Files
  BY <1>1, TypeFacts
<1>9. forgets' = 1 => ~torn /\ Rw!Ordered(read')
  BY <1>1, <1>2, <1>3, TypeFacts
<1>10. Midway(at, file', read', plan', off')
  BY <1>1, <1>2, <1>6
<1>11. Settled(read', forgets' - 1) /\ (torn \/ Held(read'))
  BY <1>1, <1>2, <1>3
<1>12. pc' \in Working /\ pc' # "cutting" /\ plan' \subseteq LinesOf(read')
  BY <1>1, <1>7 DEF Working
<1> QED BY <1>1, <1>3, <1>5, <1>8, <1>9, <1>10, <1>11, <1>12, TypeFacts, WorkGoesOn

\* What a forget at work knows.
LEMMA WorkFacts ==
  ASSUME Bounds, RewriteInv, pc \in Working
  PROVE  /\ Settled(read, forgets - 1) /\ (torn \/ Held(read))
         /\ \E at \in [Moved(read, plan) -> Nat] : Midway(at, file, read, plan, off)
         /\ pc = "cutting" => plan = {}
         /\ forgets \in 1..MaxForgets
         /\ forgets = 1 => ~torn /\ Rw!Ordered(read)
<1>1. pc # "ready"
  BY DEF Working
<1>2. forgets # 0
  BY <1>1 DEF RewriteInv
<1>3. forgets \in 1..MaxForgets
  BY <1>2, TypeFacts
<1>4. Source = read
  BY DEF Source
<1> QED BY <1>1, <1>3, <1>4 DEF RewriteInv

\* The first line of the plan, and what it is written as.
LEMMA FirstFacts ==
  ASSUME Bounds, RewriteInv, pc \in Working, plan # {}
  PROVE  /\ Rw!Foremost \in Earliest(plan) /\ Rw!Foremost \in LinesOf(read)
         /\ Text(read, Rw!Foremost) \in Files /\ Len(Text(read, Rw!Foremost)) = Size(Rw!Foremost)
         /\ Size(Rw!Foremost) \in Nat \ {0}
         /\ \A i \in 1..Size(Rw!Foremost) : Text(read, Rw!Foremost)[i] = read[Rw!Foremost[1] + i - 1]
<1>1. \E s \in plan : \A t \in plan : s[1] <= t[1]
  BY TypeFacts, FirstLine
<1>2. PICK s : s = Rw!Foremost
  OBVIOUS
<1>3. s \in plan /\ \A t \in plan : s[1] <= t[1]
  BY <1>1, <1>2 DEF Rw!Foremost
<1>4. s \in LinesOf(read) /\ read \in Files
  BY <1>3, TypeFacts
<1>5. /\ s[1] \in 1..Len(read) /\ s[2] \in s[1]..Len(read) /\ Size(s) = s[2] - s[1] + 1
      /\ Size(s) \in Nat \ {0} /\ Text(read, s) = [i \in 1..Size(s) |-> read[s[1] + i - 1]]
  BY <1>4, LineFacts
<1>6. \A i \in 1..Size(s) : s[1] + i - 1 \in 1..Len(read)
  BY <1>4, <1>5 DEF Files
<1>7. Text(read, s) \in [1..Size(s) -> Rw!Bytes]
  BY <1>4, <1>5, <1>6 DEF Files
<1>8. Text(read, s) \in Files /\ Len(Text(read, s)) = Size(s)
  <2>1. Size(s) \in Nat
    BY <1>5
  <2> QED BY <1>7, <2>1 DEF Files
<1>9. s \in Earliest(plan)
  BY <1>3 DEF Earliest
<1> QED BY <1>2, <1>4, <1>5, <1>8, <1>9

\* Each kept line is written over what was before it.
LEMMA WriteLineStep ==
  ASSUME Bounds, RewriteInv, Rw!WriteLine
  PROVE  RewriteInv'
<1>1. PICK s : s = Rw!Foremost
  OBVIOUS
<1>2. /\ pc = "writing" /\ pc \in Working /\ plan # {}
      /\ file' = Rw!Overlay(Rw!Terminated(Text(read, s)), off)
      /\ plan' = plan \ {s} /\ off' = off + Size(s) + 1
      /\ UNCHANGED <<len, doomed>> /\ pc' = pc /\ read' = read /\ forgets' = forgets /\ torn' = torn
  BY <1>1 DEF Rw!WriteLine, Text, Size, Working
<1>3. PICK x : x = Text(read, s)
  OBVIOUS
<1>4. /\ s \in Earliest(plan) /\ s \in LinesOf(read) /\ x \in Files /\ Len(x) = Size(s)
      /\ Size(s) \in Nat \ {0} /\ \A i \in 1..Size(s) : x[i] = read[s[1] + i - 1]
  BY <1>1, <1>2, <1>3, FirstFacts
<1>5. PICK y : y = Rw!Terminated(x)
  OBVIOUS
<1>6. /\ y \in Files /\ Len(y) = Size(s) + 1 /\ y[Size(s) + 1] = Newline
      /\ \A i \in 1..Size(s) : y[i] = read[s[1] + i - 1]
  <2>1. Newline \in Rw!Bytes
    BY DEF Newline, Rw!Newline, Rw!Bytes, Bounds
  <2> QED BY <1>4, <1>5, <2>1 DEF Files, Rw!Terminated, Newline
<1>7. PICK n \in 0..Len(file) : n = off
  BY TypeFacts
<1>8. WrittenOver(file', file, read, s, n)
  <2>0. n \in Nat /\ n + (Size(s) + 1) = n + Size(s) + 1
    BY <1>4, <1>7
  <2>1. /\ file' \in Files
        /\ Len(file') = IF n + Len(y) > Len(file) THEN n + Len(y) ELSE Len(file)
        /\ \A i \in 1..n : file'[i] = file[i]
        /\ \A i \in 1..Len(y) : file'[n + i] = y[i]
        /\ \A i \in 1..Len(file) : i > n + Len(y) => file'[i] = file[i]
    <3>1. file \in Files
      BY TypeFacts
    <3>2. file' = Rw!Overlay(y, n)
      BY <1>2, <1>3, <1>5, <1>7
    <3> QED BY <1>6, <1>7, <3>1, <3>2, OverlayFacts
  <2>2. n + Len(y) = n + Size(s) + 1
    BY <1>6, <2>0
  <2>3. file'[n + Size(s) + 1] = Newline
    <3>1. Size(s) + 1 \in 1..Len(y)
      BY <1>4, <1>6
    <3>2. file'[n + (Size(s) + 1)] = Newline
      BY <1>6, <2>1, <3>1
    <3> QED BY <2>0, <3>2
  <2>4. \A i \in 1..Size(s) : file'[n + i] = read[s[1] + i - 1]
    <3>1. \A i \in 1..Size(s) : i \in 1..Len(y)
      BY <1>4, <1>6
    <3> QED BY <1>6, <2>1, <3>1
  <2> QED BY <2>1, <2>2, <2>3, <2>4 DEF WrittenOver
<1>9. PICK at \in [Moved(read, plan) -> Nat] : Midway(at, file, read, plan, n)
  BY <1>2, <1>7, WorkFacts
<1>10. Settled(read, forgets - 1) /\ Firm(read)
  BY <1>2, WorkFacts DEF Settled
<1>11. PICK c : c = LaidNext(at, read, plan, s, n)
  OBVIOUS
<1>12. /\ c \in [Moved(read, plan \ {s}) -> Nat] /\ n + Size(s) + 1 \in 0..Len(file')
       /\ Laid(c, file', read, plan \ {s}, n + Size(s) + 1)
       /\ Ahead(read, plan \ {s}, n + Size(s) + 1)
  BY <1>4, <1>8, <1>9, <1>11, NextLaid, TypeFacts DEF Midway
<1>13. Rest(file', read, n + Size(s) + 1)
  BY <1>4, <1>8, <1>9, NextRest, TypeFacts DEF Midway
<1>14. Fixed(c, file', read, plan \ {s}, n + Size(s) + 1)
  BY <1>4, <1>8, <1>9, <1>10, <1>11, NextFixed, TypeFacts DEF Midway
<1>15. Midway(c, file', read', plan', off')
  BY <1>2, <1>7, <1>12, <1>13, <1>14 DEF Midway
<1>16. c \in [Moved(read', plan') -> Nat] /\ off' \in 0..Len(file')
  BY <1>2, <1>7, <1>12
<1>17. file' \in Files /\ read' \in Files /\ plan' \subseteq LinesOf(read')
  BY <1>2, <1>8, TypeFacts DEF WrittenOver
<1>18. /\ pc' \in Working /\ pc' # "cutting" /\ forgets' \in 1..MaxForgets
       /\ Settled(read', forgets' - 1) /\ (torn \/ Held(read'))
       /\ forgets' = 1 => ~torn /\ Rw!Ordered(read')
  BY <1>2, WorkFacts
<1> QED BY <1>2, <1>15, <1>16, <1>17, <1>18, TypeFacts, WorkGoesOn

\* The file is as long as what was written, and no longer.
LEMMA CutStep ==
  ASSUME Bounds, RewriteInv, Rw!Cut
  PROVE  RewriteInv'
<1>1. /\ pc = "cutting" /\ pc \in Working /\ file' = SubSeq(file, 1, off) /\ pc' = "done"
      /\ read' = <<>> /\ off' = 0 /\ UNCHANGED <<len, doomed, plan, forgets, torn>>
  BY DEF Rw!Cut, Working
<1>2. /\ plan = {} /\ Settled(read, forgets - 1) /\ (torn \/ Held(read))
      /\ forgets \in 1..MaxForgets /\ (forgets = 1 => ~torn /\ Rw!Ordered(read))
  BY <1>1, WorkFacts
<1>3. PICK at \in [Moved(read, {}) -> Nat] : Midway(at, file, read, {}, off)
  BY <1>1, <1>2, WorkFacts
<1>4. PICK n \in 0..Len(file) : n = off
  BY TypeFacts
<1>5. file' \in Files /\ Len(file') = n /\ Meets(at, file', read, {}, n, n)
  <2>1. file \in Files /\ read \in Files /\ doomed \subseteq 1..Lines
    BY TypeFacts
  <2>2. file' = SubSeq(file, 1, n) /\ Midway(at, file, read, {}, n)
    BY <1>1, <1>3, <1>4
  <2>3. file' \in Files /\ Len(file') = n /\ \A i \in 1..n : file'[i] = file[i]
    BY <1>4, <2>1, <2>2 DEF Files
  <2>4. Meets(at, file', read, {}, n, n)
    BY <1>3, <1>4, <2>1, <2>2, <2>3, CutMeets, ZenonT(30)
  <2> QED BY <2>3, <2>4
<1>6. n \in Nat /\ n \in 0..Len(file') /\ n <= n
  BY <1>4, <1>5, TypeFacts DEF Files
<1>7. Laid(at, file', read, {}, n)
  BY <1>5 DEF Meets
<1>8. Settled(file', forgets)
  <2>1. Cardinality(Damaged(file')) <= Cardinality(Damaged(read))
    BY <1>5, <1>6, MeetingCount, TypeFacts
  <2>2. /\ Cardinality(Damaged(file')) \in Nat /\ Cardinality(Damaged(read)) \in Nat
        /\ Cardinality(Damaged(read)) <= forgets - 1
    <3>1. \A b \in Files : Damaged(b) \subseteq LinesOf(b) /\ IsFiniteSet(LinesOf(b))
      BY StayingFacts, LinesFinite, TypeFacts
    <3>2. \A b \in Files : Cardinality(Damaged(b)) \in Nat
      BY <3>1, FS_Subset, FS_CardinalityType
    <3> QED BY <1>2, <1>5, <3>2, TypeFacts DEF Settled
  <2>3. Firm(file')
    BY <1>2, <1>5, <1>6, MeetingFirm, TypeFacts DEF Settled
  <2> QED BY <1>2, <1>5, <2>1, <2>2, <2>3 DEF Settled
<1>9. torn \/ Held(file')
  BY <1>2, <1>5, <1>6, <1>7, StillHeld, TypeFacts
<1>10. /\ \A s \in LinesOf(file') : Rw!Stays(Text(file', s))
       /\ Rw!Ordered(read) => Rw!Ordered(file')
  BY <1>5, <1>7, CutStays, TypeFacts
<1>11. UNCHANGED <<len, doomed, forgets>> /\ plan' = {} /\ torn' = torn /\ torn \in BOOLEAN
  BY <1>1, <1>2, TypeFacts
<1> QED BY <1>1, <1>2, <1>5, <1>8, <1>9, <1>10, <1>11, TypeFacts, WorkEnds

\* What a forget that dies leaves is what another can start from.
LEMMA DieStep ==
  ASSUME Bounds, RewriteInv, NEW at \in [Moved(read, plan) -> Nat],
         Settled(read, forgets - 1), forgets \in 1..MaxForgets, NEW k \in Nat, off <= k,
         NEW b \in Files, off \in 0..Len(b), Meets(at, b, read, plan, off, k),
         torn' \in BOOLEAN, torn' \/ Held(b), Rw!Die(b)
  PROVE  RewriteInv'
<1>1. /\ file' = b /\ pc' = "ready" /\ read' = <<>> /\ plan' = {} /\ off' = 0
      /\ UNCHANGED <<len, doomed, forgets>>
  BY DEF Rw!Die
<1>2. PICK n \in 0..Len(b) : n = off
  OBVIOUS
<1>3. Settled(b, forgets)
  <2>1. Cardinality(Damaged(b)) <= Cardinality(Damaged(read)) + 1
    BY <1>2, MeetingCount, TypeFacts
  <2>2. /\ Cardinality(Damaged(b)) \in Nat /\ Cardinality(Damaged(read)) \in Nat
        /\ Cardinality(Damaged(read)) <= forgets - 1
    <3>1. \A c \in Files : Damaged(c) \subseteq LinesOf(c) /\ IsFiniteSet(LinesOf(c))
      BY StayingFacts, LinesFinite, TypeFacts
    <3>2. \A c \in Files : Cardinality(Damaged(c)) \in Nat
      BY <3>1, FS_Subset, FS_CardinalityType
    <3> QED BY <3>2, TypeFacts DEF Settled
  <2>3. Firm(b)
    BY <1>2, MeetingFirm, TypeFacts DEF Settled
  <2>4. Cardinality(Damaged(b)) <= forgets
    BY <2>1, <2>2
  <2> QED BY <2>3, <2>4 DEF Settled
<1> QED BY <1>1, <1>3, TypeFacts, WorkEnds

\* A kill between two writes.
LEMMA DieBetweenStep ==
  ASSUME Bounds, RewriteInv, Rw!DieBetween
  PROVE  RewriteInv'
<1>1. pc \in Working /\ Rw!Die(file) /\ torn' = torn
  BY DEF Rw!DieBetween, Rw!Die, Working
<1>2. /\ Settled(read, forgets - 1) /\ (torn \/ Held(read)) /\ forgets \in 1..MaxForgets
      /\ \E at \in [Moved(read, plan) -> Nat] : Midway(at, file, read, plan, off)
  BY <1>1, WorkFacts
<1>3. PICK at \in [Moved(read, plan) -> Nat] : Midway(at, file, read, plan, off)
  BY <1>2
<1>4. PICK n \in 0..Len(file) : n = off
  BY TypeFacts
<1>5. n \in Nat /\ n <= n
  BY <1>4, TypeFacts DEF Files
<1>6. Meets(at, file, read, plan, n, n)
  BY <1>3, <1>4, <1>5, MidwayMeets
<1>7. torn \/ Held(file)
  BY <1>2, <1>3, <1>4, StillHeld, TypeFacts DEF Midway, Ahead
<1> QED BY <1>1, <1>2, <1>4, <1>5, <1>6, <1>7, TypeFacts, DieStep

\* A kill inside a write: a first part of the line lies over the old bytes.
LEMMA DieWithinStep ==
  ASSUME Bounds, RewriteInv, Rw!DieWithin
  PROVE  RewriteInv'
<1>1. PICK s : s = Rw!Foremost
  OBVIOUS
<1>2. PICK x : x = Text(read, s)
  OBVIOUS
<1>3. PICK m \in 1..Size(s) : Rw!Die(Rw!Overlay(SubSeq(x, 1, m), off))
  BY <1>1, <1>2 DEF Rw!DieWithin, Text, Size
<1>4. pc \in Working /\ plan # {} /\ torn' = TRUE
  BY <1>3 DEF Rw!DieWithin, Rw!Die, Working
<1>5. /\ s \in Earliest(plan) /\ s \in LinesOf(read) /\ x \in Files /\ Len(x) = Size(s)
      /\ Size(s) \in Nat \ {0} /\ \A i \in 1..Size(s) : x[i] = read[s[1] + i - 1]
  BY <1>1, <1>2, <1>4, FirstFacts
<1>6. PICK y : y = SubSeq(x, 1, m)
  OBVIOUS
<1>7. y \in Files /\ Len(y) = m /\ \A i \in 1..m : y[i] = read[s[1] + i - 1]
  BY <1>5, <1>6 DEF Files
<1>8. PICK n \in 0..Len(file) : n = off
  BY TypeFacts
<1>9. PICK b : b = Rw!Overlay(y, n)
  OBVIOUS
<1>10. TornOver(b, file, read, s, n, m)
  <2>1. /\ b \in Files
        /\ Len(b) = IF n + Len(y) > Len(file) THEN n + Len(y) ELSE Len(file)
        /\ \A i \in 1..n : b[i] = file[i]
        /\ \A i \in 1..Len(y) : b[n + i] = y[i]
        /\ \A i \in 1..Len(file) : i > n + Len(y) => b[i] = file[i]
    BY <1>7, <1>9, OverlayFacts, TypeFacts
  <2> QED BY <1>7, <2>1 DEF TornOver
<1>11. /\ Settled(read, forgets - 1) /\ forgets \in 1..MaxForgets
       /\ \E at \in [Moved(read, plan) -> Nat] : Midway(at, file, read, plan, off)
  BY <1>4, WorkFacts
<1>12. PICK at \in [Moved(read, plan) -> Nat] : Midway(at, file, read, plan, n)
  BY <1>8, <1>11
<1>13. Meets(at, b, read, plan, n, n + m) /\ n \in 0..Len(b)
  BY <1>5, <1>10, <1>12, TornMeets, TypeFacts
<1>14. n + m \in Nat /\ n <= n + m /\ b \in Files
  BY <1>5, <1>8, <1>10 DEF TornOver, Files
<1>15. Rw!Die(b)
  BY <1>3, <1>6, <1>8, <1>9
<1> QED BY <1>4, <1>8, <1>11, <1>13, <1>14, <1>15, DieStep

\* Each step of a forget keeps the invariant.
LEMMA RewriteStep ==
  ASSUME Bounds, RewriteInv, [Rw!Next]_rewriteVars
  PROVE  RewriteInv'
<1>1. ASSUME Rw!Written PROVE RewriteInv'
  <2>1. /\ pc = "writing" /\ plan = {} /\ pc' = "cutting"
        /\ UNCHANGED <<file, len, doomed, read, plan, off, forgets, torn>>
    BY <1>1 DEF Rw!Written
  <2>2. pc \in Working /\ pc' \in Working
    BY <2>1 DEF Working
  <2>3. /\ Settled(read, forgets - 1) /\ (torn \/ Held(read)) /\ forgets \in 1..MaxForgets
        /\ \E at \in [Moved(read, plan) -> Nat] : Midway(at, file, read, plan, off)
        /\ forgets = 1 => ~torn /\ Rw!Ordered(read)
    BY <2>2, WorkFacts
  <2>4. PICK at \in [Moved(read', plan') -> Nat] : Midway(at, file', read', plan', off')
    BY <2>1, <2>3
  <2> QED BY <2>1, <2>2, <2>3, <2>4, TypeFacts, WorkGoesOn
<1>2. ASSUME UNCHANGED rewriteVars PROVE RewriteInv'
  <2>1. /\ UNCHANGED <<len, doomed>> /\ file' = file /\ pc' = pc /\ read' = read /\ plan' = plan
        /\ off' = off /\ forgets' = forgets /\ torn' = torn
    BY <1>2 DEF rewriteVars
  <2>2. Rw!TypeOK' /\ Source' = Source
    BY <2>1 DEF RewriteInv, Rw!TypeOK, Source
  <2>3. /\ Settled(Source, IF pc \in Working THEN forgets - 1 ELSE forgets)'
        /\ torn' \/ Held(Source)'
    BY <2>1, <2>2, SameRecords DEF RewriteInv
  <2>4. IF pc' \in Working
          THEN \E at \in [Moved(read, plan)' -> Nat] : Midway(at, file, read, plan, off)'
          ELSE plan' = {} /\ off' = 0
    BY <2>1, SameRecords DEF RewriteInv
  <2>5. /\ pc' = "done" => (\A s \in LinesOf(file) : Rw!Stays(Text(file, s)))'
        /\ forgets' = 0 \/ (forgets' = 1 /\ pc' # "ready") => ~torn' /\ Rw!Ordered(Source)'
    BY <2>1, <2>2, SameRecords DEF RewriteInv
  <2> QED BY <2>1, <2>2, <2>3, <2>4, <2>5 DEF RewriteInv
<1> QED BY <1>1, <1>2, ForgetStep, WriteLineStep, CutStep, DieBetweenStep, DieWithinStep DEF Rw!Next
-----------------------------------------------------------------------------
\* The file as its records were appended: where they end.
Laying(end) ==
  /\ end \in [0..Lines -> Nat] /\ end[0] = 0
  /\ \A l \in 1..Lines : end[l] - end[l - 1] \in 2..(MaxLen + 1)

\* The records end one after the other.
LEMMA EndsRise ==
  ASSUME Bounds, NEW end, Laying(end), NEW l \in 0..Lines, NEW m \in 0..Lines, l < m
  PROVE  end[l] < end[m]
<1>0. Lines \in Nat /\ \A k \in 0..Lines : end[k] \in Nat
  BY DEF Bounds, Laying
<1> DEFINE Bad == {k \in 0..Lines : l < k /\ ~(end[l] < end[k])}
<1> SUFFICES ASSUME Bad # {} PROVE FALSE
  OBVIOUS
<1>1. Bad \in SUBSET Nat
  BY <1>0
<1>2. PICK k \in Bad : \A j \in Bad : k <= j
  BY <1>1, LeastNumber
<1>3. k \in 1..Lines /\ k - 1 \in 0..Lines /\ l <= k - 1 /\ ~(end[l] < end[k])
  BY <1>0, <1>2
<1>4. k - 1 \notin Bad
  BY <1>0, <1>2, <1>3
<1>5. end[l] <= end[k - 1]
  <2>1. CASE l = k - 1
    BY <1>0, <2>1
  <2>2. CASE l < k - 1
    BY <1>0, <1>3, <1>4, <2>2
  <2> QED BY <1>0, <1>3, <2>1, <2>2
<1>6. end[k] - end[k - 1] >= 2
  BY <1>0, <1>3 DEF Laying, Bounds
<1>7. end[l] \in Nat /\ end[k] \in Nat /\ end[k - 1] \in Nat
  BY <1>0, <1>3
<1> QED BY <1>3, <1>5, <1>6, <1>7

\* A record that starts before another ends is that one or an earlier one.
LEMMA EndsOrder ==
  ASSUME Bounds, NEW end, Laying(end), NEW l \in 1..Lines, NEW m \in 1..Lines,
         end[l - 1] < end[m]
  PROVE  l <= m
<1>1. Lines \in Nat /\ \A k \in 0..Lines : end[k] \in Nat
  BY DEF Bounds, Laying
<1>2. l - 1 \in 0..Lines /\ m \in 0..Lines /\ l - 1 \in Nat /\ m \in Nat
  BY <1>1
<1>3. ~(m < l - 1)
  BY <1>1, <1>2, EndsRise
<1>4. l - 1 # m
  BY <1>1, <1>2
<1> QED BY <1>1, <1>2, <1>3, <1>4

\* Every byte is one of one record, or its newline.
LEMMA ByteOf ==
  ASSUME Bounds, NEW end, Laying(end), NEW i \in 1..end[Lines]
  PROVE  \E l \in 1..Lines : i \in (end[l - 1] + 1)..end[l]
<1>0. Lines \in Nat /\ end[0] = 0 /\ \A k \in 0..Lines : end[k] \in Nat
  BY DEF Bounds, Laying
<1> DEFINE After == {k \in 0..Lines : i <= end[k]}
<1>1. After \in SUBSET Nat /\ Lines \in After
  BY <1>0
<1>2. PICK l \in After : \A k \in After : l <= k
  BY <1>1, LeastNumber
<1>3. l \in 1..Lines /\ l - 1 \in 0..Lines
  BY <1>0, <1>2
<1>4. l - 1 \notin After
  BY <1>0, <1>2, <1>3
<1>5. end[l - 1] < i /\ i <= end[l]
  BY <1>0, <1>2, <1>3, <1>4
<1> QED BY <1>0, <1>3, <1>5

\* The bytes of the records one after the other.
LEMMA WholeFacts ==
  ASSUME Bounds, NEW end, Laying(end)
  PROVE  /\ Rw!Whole(end) \in Files /\ Len(Rw!Whole(end)) = end[Lines]
         /\ \A l \in 1..Lines : \A i \in (end[l - 1] + 1)..end[l] :
              Rw!Whole(end)[i] = IF i = end[l] THEN Newline ELSE <<l, i - end[l - 1]>>
<1>0. Lines \in Nat /\ MaxLen \in Nat /\ \A k \in 0..Lines : end[k] \in Nat
  BY DEF Bounds, Laying
<1> DEFINE of(i) == CHOOSE l \in 1..Lines : i \in (end[l - 1] + 1)..end[l]
           byte(i) == IF i = end[of(i)] THEN Newline ELSE <<of(i), i - end[of(i) - 1]>>
<1>1. Rw!Whole(end) = [i \in 1..end[Lines] |-> byte(i)]
  BY DEF Rw!Whole, Newline
<1>2. ASSUME NEW i \in 1..end[Lines] PROVE of(i) \in 1..Lines /\ i \in (end[of(i) - 1] + 1)..end[of(i)]
  BY ByteOf
<1>3. ASSUME NEW i \in 1..end[Lines], NEW l \in 1..Lines, i \in (end[l - 1] + 1)..end[l]
      PROVE  of(i) = l
  <2>1. PICK m : m = of(i)
    OBVIOUS
  <2>2. m \in 1..Lines /\ i \in (end[m - 1] + 1)..end[m]
    BY <1>2, <2>1
  <2>3. l - 1 \in 0..Lines /\ m - 1 \in 0..Lines /\ l \in 0..Lines /\ m \in 0..Lines
    BY <1>0, <2>2
  <2>4. end[l - 1] < end[m] /\ end[m - 1] < end[l]
    BY <1>0, <1>3, <2>2, <2>3
  <2>5. l <= m /\ m <= l
    BY <2>2, <2>4, EndsOrder
  <2> QED BY <1>0, <2>1, <2>2, <2>5
<1>4. ASSUME NEW i \in 1..end[Lines] PROVE byte(i) \in Rw!Bytes
  <2>1. PICK m : m = of(i)
    OBVIOUS
  <2>2. m \in 1..Lines /\ i \in (end[m - 1] + 1)..end[m]
    BY <1>2, <2>1
  <2>3. end[m] - end[m - 1] \in 2..(MaxLen + 1) /\ end[m] \in Nat /\ end[m - 1] \in Nat
    BY <1>0, <2>2 DEF Laying
  <2>4. i # end[m] => i - end[m - 1] \in 0..MaxLen
    BY <1>0, <2>2, <2>3
  <2>5. Newline \in Rw!Bytes
    BY <1>0 DEF Newline, Rw!Newline, Rw!Bytes
  <2>6. i # end[m] => <<m, i - end[m - 1]>> \in Rw!Bytes
    BY <1>0, <2>2, <2>4 DEF Rw!Bytes
  <2> QED BY <2>1, <2>5, <2>6
<1>5. end[Lines] \in Nat
  BY <1>0
<1> HIDE DEF byte
<1>6. Rw!Whole(end) \in [1..end[Lines] -> Rw!Bytes]
  BY <1>1, <1>4
<1>7. Rw!Whole(end) \in Files /\ Len(Rw!Whole(end)) = end[Lines]
  BY <1>5, <1>6 DEF Files
<1>8. ASSUME NEW l \in 1..Lines, NEW i \in (end[l - 1] + 1)..end[l]
      PROVE  Rw!Whole(end)[i] = IF i = end[l] THEN Newline ELSE <<l, i - end[l - 1]>>
  <2>1. l - 1 \in 0..Lines /\ l \in 0..Lines /\ Lines \in 0..Lines
    BY <1>0
  <2>2. end[l] <= end[Lines]
    <3>1. CASE l = Lines
      BY <1>5, <3>1
    <3>2. CASE l < Lines
      BY <1>0, <2>1, <3>2, EndsRise
    <3> QED BY <1>0, <3>1, <3>2
  <2>3. i \in 1..end[Lines]
    BY <1>0, <2>1, <2>2
  <2>4. of(i) = l
    BY <1>3, <2>3
  <2> QED BY <1>1, <2>3, <2>4 DEF byte
<1> QED BY <1>7, <1>8

\* Where the l-th record lies, whether the last newline is there or torn off.
Span(end, l) == <<end[l - 1] + 1, end[l] - 1>>

\* The first n bytes of a file.
LEMMA PrefixFacts ==
  ASSUME NEW w \in Files, NEW n \in 0..Len(w)
  PROVE  /\ SubSeq(w, 1, n) \in Files /\ Len(SubSeq(w, 1, n)) = n
         /\ \A i \in 1..n : SubSeq(w, 1, n)[i] = w[i]
BY DEF Files

\* A file of the records in order, the last newline there or torn off.
Appended(b, end) ==
  /\ b \in Files /\ Len(b) \in Nat /\ Len(b) <= end[Lines] /\ end[Lines] - 1 <= Len(b)
  /\ \A l \in 1..Lines : \A i \in 1..Len(b) : i \in (end[l - 1] + 1)..end[l] =>
       b[i] = IF i = end[l] THEN Newline ELSE <<l, i - end[l - 1]>>

\* What a forget starts from is such a file.
LEMMA FirstBytes ==
  ASSUME Bounds, NEW end, Laying(end), NEW cut \in {0, 1}
  PROVE  Appended(SubSeq(Rw!Whole(end), 1, end[Lines] - cut), end)
<1>1. PICK w : w = Rw!Whole(end)
  OBVIOUS
<1>2. /\ w \in Files /\ Len(w) = end[Lines]
      /\ \A l \in 1..Lines : \A i \in (end[l - 1] + 1)..end[l] :
           w[i] = IF i = end[l] THEN Newline ELSE <<l, i - end[l - 1]>>
  BY <1>1, WholeFacts
<1>3. PICK e \in Nat : e = end[Lines]
  BY DEF Laying, Bounds
<1>4. PICK n \in 0..e : SubSeq(w, 1, e - cut) = SubSeq(w, 1, n) /\ e - 1 <= n
  <2>1. CASE e - cut \in 0..e
    BY <2>1
  <2>2. CASE e - cut \notin 0..e
    <3>1. e - cut = -1 /\ e = 0
      BY <2>2
    <3>2. SubSeq(w, 1, -1) = <<>> /\ SubSeq(w, 1, 0) = <<>>
      BY DEF Files
    <3> QED BY <3>1, <3>2
  <2> QED BY <2>1, <2>2
<1>5. PICK b : b = SubSeq(w, 1, n)
  OBVIOUS
<1>6. b \in Files /\ Len(b) = n /\ \A i \in 1..n : b[i] = w[i]
  BY <1>2, <1>3, <1>5, PrefixFacts
<1>7. Appended(b, end)
  <2>1. n \in Nat /\ Len(b) <= end[Lines] /\ end[Lines] - 1 <= Len(b)
    BY <1>3, <1>4, <1>6
  <2>2. ASSUME NEW l \in 1..Lines, NEW i \in 1..Len(b), i \in (end[l - 1] + 1)..end[l]
        PROVE  b[i] = IF i = end[l] THEN Newline ELSE <<l, i - end[l - 1]>>
    <3>1. b[i] = w[i]
      BY <1>6
    <3>2. w[i] = IF i = end[l] THEN Newline ELSE <<l, i - end[l - 1]>>
      BY <1>2, <2>2
    <3> QED BY <3>1, <3>2
  <2> QED BY <1>6, <2>1, <2>2 DEF Appended
<1> QED BY <1>1, <1>3, <1>4, <1>5, <1>7

\* A record fills the bytes up to its newline.
RecordsFill(end) ==
  \A l \in 1..Lines : Rw!Record(l) = [i \in 1..(end[l] - end[l - 1] - 1) |-> <<l, i>>]

\* The lines of such a file are the records, each where it was appended.
LEMMA FirstLines ==
  ASSUME Bounds, NEW end, Laying(end), NEW b, Appended(b, end), RecordsFill(end)
  PROVE  /\ \A l \in 1..Lines : Span(end, l) \in LinesOf(b) /\ Text(b, Span(end, l)) = Rw!Record(l)
         /\ \A s \in LinesOf(b) : \E l \in 1..Lines : s = Span(end, l)
<1>0. Lines \in Nat /\ MaxLen \in Nat /\ end[0] = 0 /\ \A k \in 0..Lines : end[k] \in Nat
  BY DEF Bounds, Laying
<1>1. PICK n \in Nat : n = Len(b)
  BY DEF Appended
<1>2. PICK e \in Nat : e = end[Lines]
  BY <1>0
<1>3. b \in Files /\ n <= e /\ e - 1 <= n
  BY <1>1, <1>2 DEF Appended
<1>4. ASSUME NEW l \in 1..Lines
      PROVE  /\ l - 1 \in 0..Lines /\ end[l - 1] \in Nat /\ end[l] \in Nat
             /\ end[l - 1] + 2 <= end[l] /\ end[l] - 1 <= n
  <2>1. l - 1 \in 0..Lines /\ l \in 0..Lines /\ Lines \in 0..Lines
    BY <1>0
  <2>2. PICK p \in Nat, q \in Nat : p = end[l - 1] /\ q = end[l]
    BY <1>0, <2>1
  <2>3. q - p \in 2..(MaxLen + 1)
    BY <2>2 DEF Laying
  <2>4. p + 2 <= q
    BY <1>0, <2>3
  <2>5. q <= e
    <3>1. CASE l = Lines
      BY <1>2, <2>2, <3>1
    <3>2. CASE l < Lines
      BY <1>2, <2>1, <2>2, <3>2, EndsRise
    <3> QED BY <1>0, <3>1, <3>2
  <2>6. q - 1 <= n
    BY <1>3, <2>5
  <2> QED BY <2>1, <2>2, <2>4, <2>6
<1>5. ASSUME NEW l \in 1..Lines, NEW i \in 1..n, i \in (end[l - 1] + 1)..end[l]
      PROVE  /\ b[i] = IF i = end[l] THEN Newline ELSE <<l, i - end[l - 1]>>
             /\ i # end[l] => b[i] # Newline
  <2>1. b[i] = IF i = end[l] THEN Newline ELSE <<l, i - end[l - 1]>>
    BY <1>1, <1>5 DEF Appended
  <2>2. <<l, i - end[l - 1]>> # Newline
    BY <1>0 DEF Newline, Rw!Newline
  <2> QED BY <2>1, <2>2
<1>6. ASSUME NEW l \in 1..Lines
      PROVE  Span(end, l) \in LinesOf(b) /\ Text(b, Span(end, l)) = Rw!Record(l)
  <2>1. PICK a \in Nat, z \in Nat : a = end[l - 1] + 1 /\ z = end[l] - 1
    BY <1>4
  <2>2. a > 0 /\ a <= z /\ z <= n /\ end[l - 1] = a - 1 /\ end[l] = z + 1
    <3>1. PICK p \in Nat, q \in Nat : p = end[l - 1] /\ q = end[l] /\ p + 2 <= q /\ q - 1 <= n
      BY <1>4
    <3>2. a = p + 1 /\ z = q - 1
      BY <2>1, <3>1
    <3>3. a > 0 /\ a <= z /\ z <= n /\ p = a - 1 /\ q = z + 1
      BY <3>1, <3>2
    <3> QED BY <3>1, <3>3
  <2>3. ASSUME NEW i \in a..z
        PROVE  b[i] # Newline /\ b[i] = <<l, i - (a - 1)>>
    <3>1. i \in 1..n /\ i \in (a - 1 + 1)..(z + 1) /\ i # z + 1
      BY <2>2
    <3> QED BY <1>5, <2>2, <3>1
  <2>4. a > 1 => b[a - 1] = Newline
    <3> SUFFICES ASSUME a > 1 PROVE b[a - 1] = Newline
      OBVIOUS
    <3>1. l - 1 # 0
      BY <1>0, <2>2
    <3>2. PICK k \in 1..Lines : k = l - 1
      BY <1>0, <3>1
    <3>3. end[k] = a - 1 /\ a - 1 \in 1..n /\ end[k - 1] \in Nat /\ end[k - 1] + 2 <= a - 1
      <4>1. end[k] = a - 1
        BY <2>2, <3>2
      <4>2. end[k - 1] \in Nat /\ end[k - 1] + 2 <= end[k]
        BY <1>4
      <4> QED BY <2>2, <4>1, <4>2
    <3>4. a - 1 \in (end[k - 1] + 1)..end[k]
      BY <3>3
    <3> QED BY <1>5, <3>3, <3>4
  <2>5. z < n => b[z + 1] = Newline
    <3> SUFFICES ASSUME z < n PROVE b[z + 1] = Newline
      OBVIOUS
    <3>1. z + 1 \in 1..n /\ z + 1 = end[l] /\ z + 1 \in (a - 1 + 1)..(z + 1)
      BY <2>2
    <3> QED BY <1>5, <2>2, <3>1
  <2>6. <<a, z>> \in LinesOf(b)
    <3>1. a \in 1..Len(b) /\ z \in a..Len(b)
      BY <1>1, <2>2
    <3> QED BY <1>1, <1>3, <2>3, <2>4, <2>5, <3>1, LineIs
  <2>7. Text(b, <<a, z>>) = [i \in 1..(z - a + 1) |-> b[a + i - 1]]
    <3>1. Size(<<a, z>>) = z - a + 1
      BY DEF Size, Rw!Size
    <3>2. Text(b, <<a, z>>) = [i \in 1..Size(<<a, z>>) |-> b[<<a, z>>[1] + i - 1]]
      BY <1>3, <2>6, LineFacts
    <3> QED BY <3>1, <3>2
  <2>8. ASSUME NEW i \in 1..(z - a + 1) PROVE b[a + i - 1] = <<l, i>>
    <3>1. a + i - 1 \in a..z /\ (a + i - 1) - (a - 1) = i
      BY <2>2
    <3> QED BY <2>3, <3>1
  <2>9. Rw!Record(l) = [i \in 1..(z - a + 1) |-> <<l, i>>]
    <3>1. end[l] - end[l - 1] - 1 = z - a + 1
      BY <2>2
    <3> QED BY <3>1 DEF RecordsFill
  <2> QED BY <2>1, <2>6, <2>7, <2>8, <2>9 DEF Span
<1>7. ASSUME NEW s \in LinesOf(b)
      PROVE  \E l \in 1..Lines : s = Span(end, l)
  <2>1. /\ s[1] \in 1..n /\ s[2] \in s[1]..n
        /\ \A i \in s[1]..s[2] : b[i] # Newline
        /\ s[1] > 1 => b[s[1] - 1] = Newline
    BY <1>1, <1>3, LineFacts
  <2>2. PICK a \in 1..n : a = s[1] /\ b[a] # Newline /\ (a > 1 => b[a - 1] = Newline)
    BY <2>1
  <2>3. a \in 1..end[Lines]
    BY <1>2, <1>3
  <2>4. PICK l \in 1..Lines : a \in (end[l - 1] + 1)..end[l]
    BY <2>3, ByteOf
  <2>5. PICK p \in Nat, q \in Nat : p = end[l - 1] /\ q = end[l]
    BY <1>4
  <2>6. a # q
    BY <1>5, <2>2, <2>4, <2>5
  <2>7. a = p + 1
    <3> SUFFICES ASSUME a # p + 1 PROVE FALSE
      OBVIOUS
    <3>1. a - 1 \in 1..n /\ a - 1 \in (p + 1)..q /\ a - 1 # q /\ a > 1
      BY <2>4, <2>5
    <3> QED BY <1>5, <2>2, <2>5, <3>1
  <2>8. Span(end, l) \in LinesOf(b) /\ Span(end, l)[1] = s[1]
    BY <1>6, <2>2, <2>5, <2>7 DEF Span
  <2>9. Span(end, l)[2] \in Nat /\ Span(end, l)[1] <= Span(end, l)[2] /\ s[1] \in Nat
    <3>1. ASSUME NEW u \in LinesOf(b) PROVE u[1] \in Nat /\ u[2] \in Nat /\ u[1] <= u[2]
      <4>1. u[1] \in 1..Len(b) /\ u[2] \in u[1]..Len(b) /\ Len(b) \in Nat
        BY <1>3, LineFacts, SMTT(20)
      <4> QED BY <4>1
    <3> QED BY <2>8, <3>1
  <2> QED BY <1>3, <2>8, <2>9, LinesApart
<1> QED BY <1>6, <1>7

\* The invariant holds before the first forget.
LEMMA RewriteInit ==
  ASSUME Bounds, Rw!Init
  PROVE  RewriteInv
<1>1. PICK end \in [0..Lines -> 0..(Lines * (MaxLen + 1))] :
        /\ end[0] = 0 /\ \A l \in 1..Lines : end[l] - end[l - 1] \in 2..(MaxLen + 1)
        /\ len = [l \in 1..Lines |-> end[l] - end[l - 1] - 1]
        /\ \E cut \in {0, 1} : file = SubSeq(Rw!Whole(end), 1, end[Lines] - cut)
  BY DEF Rw!Init
<1>2. Laying(end)
  <2>1. \A l \in 0..Lines : end[l] \in Nat
    OBVIOUS
  <2> QED BY <1>1, <2>1 DEF Laying
<1>3. PICK cut \in {0, 1} : file = SubSeq(Rw!Whole(end), 1, end[Lines] - cut)
  BY <1>1
<1>a. Appended(file, end)
  BY <1>2, <1>3, FirstBytes
<1>b. \A l \in 1..Lines : len[l] = end[l] - end[l - 1] - 1
  BY <1>1
<1>c. RecordsFill(end)
  BY <1>b DEF RecordsFill, Rw!Record
<1>4. /\ file \in Files
      /\ \A l \in 1..Lines : Span(end, l) \in LinesOf(file) /\ Text(file, Span(end, l)) = Rw!Record(l)
      /\ \A s \in LinesOf(file) : \E l \in 1..Lines : s = Span(end, l)
  BY <1>2, <1>a, <1>c, FirstLines DEF Appended
<1>5. /\ doomed \subseteq 1..Lines /\ pc = "ready" /\ read = <<>> /\ plan = {} /\ off = 0
      /\ forgets = 0 /\ torn = FALSE
  BY DEF Rw!Init
<1>6. Damaged(file) = {}
  BY <1>4 DEF Damaged, LinesOf, Text, Rw!Damaged, Rw!Parses
<1>7. Settled(file, 0)
  BY <1>4, <1>6, FS_EmptySet DEF Settled, Firm
<1>8. Held(file)
  BY <1>4 DEF Held
<1>9. Rw!Ordered(file)
  <2> SUFFICES ASSUME NEW s \in LinesOf(file), NEW t \in LinesOf(file)
               PROVE  \E l, m \in 1..Lines :
                        /\ Text(file, s) = Rw!Record(l) /\ Text(file, t) = Rw!Record(m)
                        /\ s[1] < t[1] => l < m
    BY DEF Rw!Ordered, LinesOf, Text
  <2>1. PICK l \in 1..Lines : s = Span(end, l)
    BY <1>4
  <2>2. PICK m \in 1..Lines : t = Span(end, m)
    BY <1>4
  <2>3. s[1] < t[1] => l < m
    <3> SUFFICES ASSUME s[1] < t[1], ~(l < m) PROVE FALSE
      OBVIOUS
    <3>0. Lines \in Nat
      BY DEF Bounds
    <3>1. PICK i \in 0..Lines, k \in 0..Lines : i = l - 1 /\ k = m - 1
      BY <3>0
    <3>2. end[i] + 1 < end[k] + 1 /\ end[i] \in Nat /\ end[k] \in Nat
      BY <2>1, <2>2, <3>1 DEF Span
    <3>3. k < i \/ k = i
      BY <3>0, <3>1
    <3>4. ~(k < i)
      <4> SUFFICES ASSUME k < i PROVE FALSE
        OBVIOUS
      <4>1. end[k] < end[i]
        BY <1>2, EndsRise
      <4> QED BY <3>2, <4>1
    <3> QED BY <3>2, <3>3, <3>4
  <2> QED BY <1>4, <2>1, <2>2, <2>3
<1>10. len \in [1..Lines -> 1..MaxLen]
  <2>1. ASSUME NEW l \in 1..Lines PROVE len[l] \in 1..MaxLen
    <3>1. end[l] - end[l - 1] \in 2..(MaxLen + 1) /\ len[l] = end[l] - end[l - 1] - 1
      BY <1>1, <1>b
    <3>2. PICK d \in 2..(MaxLen + 1) : d = end[l] - end[l - 1]
      BY <3>1
    <3>3. d - 1 \in 1..MaxLen /\ len[l] = d - 1
      BY <3>1, <3>2 DEF Bounds
    <3> QED BY <3>3
  <2> QED BY <1>1, <2>1
<1>11. Rw!TypeOK
  <2>1. <<>> \in Files /\ Len(file) \in Nat /\ 0 \in 0..Len(file) /\ 0 \in 0..MaxForgets
    BY <1>4 DEF Files, Bounds
  <2>2. file \in Seq(Rw!Bytes) /\ read \in Seq(Rw!Bytes)
    BY <1>4, <1>5, <2>1 DEF Files
  <2> QED BY <1>5, <1>10, <2>1, <2>2 DEF Rw!TypeOK
<1>12. pc \notin Working /\ Source = file
  BY <1>5 DEF Source, Working
<1> QED BY <1>5, <1>7, <1>8, <1>9, <1>11, <1>12 DEF RewriteInv
-----------------------------------------------------------------------------
\* A step of the machine is one of the compaction, or leaves its file alone.
LEMMA RewritePart ==
  ASSUME [MCNext]_allVars
  PROVE  [Rw!Next]_rewriteVars
BY DEF MCNext, allVars, InRewrite, InLedger, InStoreRoot, InPause, InSettingsFile, Rw!Next

\* What each forget keeps, in every state of it: its type, what it has written
\* and the file it read (gaps.go rewrite).
LEMMA RewriteInvariant ==
  ASSUME Bounds
  PROVE  MCSpec => []RewriteInv
<1>1. MCInit => RewriteInv
  BY RewriteInit DEF MCInit
<1>2. RewriteInv /\ [MCNext]_allVars => RewriteInv'
  BY RewritePart, RewriteStep
<1> QED BY <1>1, <1>2, PTL DEF MCSpec, allVars

\* A record that nobody asked to forget reads back at every point of a forget,
\* of a killed one and of the forgets run after it, wherever they are killed
\* but inside a write: for any records, any choice of them, any number of
\* forgets (gaps.go rewrite).
THEOREM KeptLinesStayRead ==
  ASSUME Bounds
  PROVE  MCSpec => []KeptLinesRead
<1>1. ASSUME RewriteInv PROVE Rw!KeptLinesRead
  <2>1. torn \/ Held(file)
    <3>1. CASE pc \notin Working
      BY <1>1, <3>1 DEF RewriteInv, Source
    <3>2. CASE pc \in Working
      <4>1. PICK at \in [Moved(read, plan) -> Nat] : Midway(at, file, read, plan, off)
        BY <1>1, <3>2, WorkFacts
      <4>2. torn \/ Held(read)
        BY <1>1, <3>2, WorkFacts
      <4> QED BY <1>1, <4>1, <4>2, StillHeld, TypeFacts DEF Midway, Ahead
    <3> QED BY <3>1, <3>2
  <2> QED BY <2>1 DEF Held, LinesOf, Text, Rw!KeptLinesRead, Rw!Reads
<1> QED BY <1>1, RewriteInvariant, PTL DEF KeptLinesRead

\* Cardinality is the same function wherever FiniteSets is instantiated.
LEMMA SameCardinality ==
  ASSUME NEW S
  PROVE  Rw!Cardinality(S) = Cardinality(S)
BY DEF Cardinality, Rw!Cardinality

\* A forget adds one damaged line at most, where its part of the file meets the
\* old bytes, wherever it is killed, inside a write too (gaps.go rewrite,
\* read.go records_unreadable).
THEOREM OneLineStaysDamagedEach ==
  ASSUME Bounds
  PROVE  MCSpec => []OneLineDamagedEach
<1>1. ASSUME RewriteInv PROVE Rw!OneLineDamagedEach
  <2>1. CASE pc \notin Working
    <3>1. Settled(file, forgets)
      BY <1>1, <2>1 DEF RewriteInv, Source
    <3> QED BY <3>1, SameCardinality DEF Settled, Damaged, Rw!OneLineDamagedEach
  <2>2. CASE pc \in Working
    <3>1. PICK at \in [Moved(read, plan) -> Nat] : Midway(at, file, read, plan, off)
      BY <1>1, <2>2, WorkFacts
    <3>2. Settled(read, forgets - 1) /\ forgets \in 1..MaxForgets
      BY <1>1, <2>2, WorkFacts
    <3>3. PICK n \in 0..Len(file) : n = off
      BY <1>1, TypeFacts
    <3>4. n \in Nat /\ n <= n /\ Meets(at, file, read, plan, n, n)
      <4>1. n \in Nat
        BY <1>1, TypeFacts DEF Files
      <4> QED BY <3>1, <3>3, <4>1, MidwayMeets
    <3>5. Cardinality(Damaged(file)) <= Cardinality(Damaged(read)) + 1
      BY <1>1, <3>3, <3>4, MeetingCount, TypeFacts
    <3>6. Cardinality(Damaged(file)) \in Nat /\ Cardinality(Damaged(read)) \in Nat
      <4>1. \A c \in Files : Damaged(c) \subseteq LinesOf(c) /\ IsFiniteSet(LinesOf(c))
        BY <1>1, StayingFacts, LinesFinite, TypeFacts
      <4> QED BY <1>1, <4>1, FS_Subset, FS_CardinalityType, TypeFacts
    <3>7. Cardinality(Damaged(file)) <= forgets
      BY <3>2, <3>5, <3>6 DEF Settled
    <3> QED BY <3>7, SameCardinality DEF Damaged, Rw!OneLineDamagedEach
  <2> QED BY <2>1, <2>2
<1> QED BY <1>1, RewriteInvariant, PTL DEF OneLineDamagedEach

\* A forget that ends leaves nothing it was asked to remove, and one that was
\* never killed leaves the rest as it was and in its order (gaps.go forgetRun).
THEOREM ForgottenLinesStayGone ==
  ASSUME Bounds
  PROVE  MCSpec => []ForgottenLinesGo
<1>1. ASSUME RewriteInv PROVE Rw!ForgottenLinesGo
  <2> SUFFICES ASSUME pc = "done"
               PROVE  /\ \A l \in doomed : ~Rw!Reads(l)
                      /\ forgets = 1 => /\ Rw!Ordered(file)
                                        /\ \A l \in (1..Lines) \ doomed : Rw!Reads(l)
    BY DEF Rw!ForgottenLinesGo
  <2>1. Source = file /\ pc # "ready"
    BY DEF Source, Working
  <2>2. \A s \in LinesOf(file) : Rw!Stays(Text(file, s))
    BY <1>1 DEF RewriteInv
  <2>3. \A l \in doomed : ~Rw!Reads(l)
    BY <2>2 DEF LinesOf, Text, Rw!Stays, Rw!Reads
  <2>4. forgets = 1 => ~torn /\ Rw!Ordered(file) /\ Held(file)
    BY <1>1, <2>1 DEF RewriteInv
  <2> QED BY <2>3, <2>4 DEF Held, LinesOf, Text, Rw!Reads
<1> QED BY <1>1, RewriteInvariant, PTL DEF ForgottenLinesGo

-----------------------------------------------------------------------------
\* The types of the five parts. The invariants above hold most of them; left are
\* the pause's, which its invariant has for commands that do not overlap, and what
\* the parts count.
Limits ==
  /\ MaxKills \in Nat /\ MaxForeign \in Nat
  /\ Attempts \in Nat /\ MaxEdits \in Nat /\ MaxFaults \in Nat

PauseCounted == PauseType /\ faults \in 0..MaxFaults
LedgerCounted ==
  killedLearn \in 0..MaxKills /\ foreign \in 0..MaxForeign /\ withdrawn \subseteq Lessons
Tried == \A c \in Editors : editor[c].tries \in 0..Attempts
EditsCounted == edits \in 0..MaxEdits /\ editFaults \in 0..MaxFaults /\ Tried

\* Pauses and resumes, overlapping or not, keep instants apart from what is none.
LEMMA PauseTypeStep ==
  ASSUME Instants, Limits, PauseCounted, [Ps!Next]_pauseVars
  PROVE  PauseCounted'
<1>t. PauseType /\ faults \in Int /\ MaxFaults \in Nat /\ faults \in 0..MaxFaults
  BY DEF PauseCounted, Limits
<1>1. ASSUME NEW k \in Pausers, NEW e \in Commanded
      PROVE  [cmd EXCEPT ![k] = e] \in [Pausers -> Commanded]
  BY <1>t DEF PauseType
<1>2. ASSUME NEW k \in Pausers, NEW place \in Underway \cup {"paused", "killed"}, Ps!Goto(k, place)
      PROVE  cmd' \in [Pausers -> Commanded]
  <2>1. [cmd[k] EXCEPT !.at = place] \in Commanded
    BY <1>t DEF PauseType, Commanded
  <2>2. cmd' = [cmd EXCEPT ![k] = [cmd[k] EXCEPT !.at = place]]
    BY <1>2 DEF Ps!Goto
  <2> QED BY <1>1, <2>1, <2>2
<1>3. ASSUME NEW from \in Times, NEW to \in Times
      PROVE  Append(gaps, Ps!Gap(from, to)) \in Seq([from : Times, to : Times])
  <2>1. Ps!Gap(from, to) \in [from : Times, to : Times]
    BY DEF Ps!Gap
  <2> QED BY <1>t, <2>1, AppendProperties DEF PauseType
<1>4. ASSUME NEW k \in Pausers, Ps!StartPause(k) PROVE PauseCounted'
  <2> DEFINE e == [cmd[k] EXCEPT !.now = clock, !.at = IF marker = Absent THEN "mark" ELSE "nothing"]
  <2>1. e \in Commanded
    BY <1>t DEF PauseType, Commanded, Underway
  <2>2. cmd' = [cmd EXCEPT ![k] = e]
    BY <1>4 DEF Ps!StartPause
  <2> HIDE DEF e
  <2>3. cmd' \in [Pausers -> Commanded]
    BY <1>1, <2>1, <2>2
  <2> QED BY <1>4, <1>t, <2>3 DEF PauseCounted, PauseType, Ps!StartPause
<1>5. ASSUME NEW k \in Pausers, Ps!StartResume(k) PROVE PauseCounted'
  <2> DEFINE e == [cmd[k] EXCEPT !.now = clock, !.since = IF marker \in Times THEN marker ELSE clock,
                                 !.blind = marker = Unreadable /\ ~opened,
                                 !.at = IF marker = Absent THEN "nothing" ELSE "remove"]
  <2>1. e \in Commanded
    <3>1. PICK b \in BOOLEAN : b = (marker = Unreadable /\ ~opened)
      OBVIOUS
    <3>2. e = [cmd[k] EXCEPT !.now = clock, !.since = IF marker \in Times THEN marker ELSE clock,
                             !.blind = b, !.at = IF marker = Absent THEN "nothing" ELSE "remove"]
      BY <3>1
    <3> HIDE DEF e
    <3> QED BY <1>t, <3>2 DEF PauseType, Commanded, Underway
  <2>2. cmd' = [cmd EXCEPT ![k] = e]
    BY <1>5 DEF Ps!StartResume
  <2> HIDE DEF e
  <2>3. cmd' \in [Pausers -> Commanded]
    BY <1>1, <2>1, <2>2
  <2> QED BY <1>5, <1>t, <2>3 DEF PauseCounted, PauseType, Ps!StartResume
<1>6. ASSUME NEW k \in Pausers, Ps!EmptyMarker(k) PROVE PauseCounted'
  <2>1. cmd' \in [Pausers -> Commanded]
    BY <1>2, <1>6 DEF Ps!EmptyMarker, Underway
  <2> QED BY <1>6, <1>t, <2>1 DEF PauseCounted, PauseType, Ps!EmptyMarker
<1>7. ASSUME NEW k \in Pausers, Ps!WriteMarker(k) PROVE PauseCounted'
  <2>1. cmd' \in [Pausers -> Commanded] /\ cmd[k].now \in Times
    BY <1>2, <1>7, <1>t DEF Ps!WriteMarker, Underway, PauseType, Commanded
  <2> QED BY <1>7, <1>t, <2>1 DEF PauseCounted, PauseType, Ps!WriteMarker
<1>8. ASSUME NEW k \in Pausers, Ps!OpenGap(k) PROVE PauseCounted'
  <2>1. cmd' \in [Pausers -> Commanded] /\ cmd[k].now \in Times
    BY <1>2, <1>8, <1>t DEF Ps!OpenGap, PauseType, Commanded
  <2>2. gaps' \in Seq([from : Times, to : Times])
    BY <1>3, <1>8, <1>t, <2>1 DEF Ps!OpenGap, PauseType
  <2>3. opened' \in BOOLEAN
    BY <1>8 DEF Ps!OpenGap
  <2> QED BY <1>8, <1>t, <2>1, <2>2, <2>3 DEF PauseCounted, PauseType, Ps!OpenGap
<1>9. ASSUME NEW k \in Pausers, Ps!RemoveMarker(k) PROVE PauseCounted'
  <2> DEFINE e == [cmd[k] EXCEPT !.at = "close", !.owes = {t \in hidden : t <= cmd[k].now}]
  <2>1. e \in Commanded
    BY <1>t DEF PauseType, Commanded, Underway
  <2>2. cmd' = [cmd EXCEPT ![k] = e]
    BY <1>9 DEF Ps!RemoveMarker
  <2> HIDE DEF e
  <2>3. cmd' \in [Pausers -> Commanded]
    BY <1>1, <2>1, <2>2
  <2> QED BY <1>9, <1>t, <2>3 DEF PauseCounted, PauseType, Ps!RemoveMarker
<1>10. ASSUME NEW k \in Pausers, Ps!CloseGap(k) PROVE PauseCounted'
  <2> DEFINE e == [cmd[k] EXCEPT !.at = "resumed", !.owes = IF store THEN cmd[k].owes ELSE {}]
  <2>1. e \in Commanded
    BY <1>t DEF PauseType, Commanded
  <2>2. cmd' = [cmd EXCEPT ![k] = e]
    BY <1>10 DEF Ps!CloseGap
  <2> HIDE DEF e
  <2>3. cmd' \in [Pausers -> Commanded]
    BY <1>1, <2>1, <2>2
  <2>4. cmd[k].now \in Times /\ Ps!EarlierPauseStart(cmd[k].since) \in Times
    BY <1>t, PauseFacts DEF Commanded
  <2>5. gaps' \in Seq([from : Times, to : Times])
    BY <1>3, <1>10, <1>t, <2>4 DEF Ps!CloseGap, PauseType
  <2> QED BY <1>10, <1>t, <2>3, <2>5 DEF PauseCounted, PauseType, Ps!CloseGap
<1>11. ASSUME NEW k \in Pausers, Ps!Kill(k) PROVE PauseCounted'
  <2>1. cmd' \in [Pausers -> Commanded]
    BY <1>2, <1>11 DEF Ps!Kill
  <2>2. faults' \in 0..MaxFaults
    BY <1>11, <1>t DEF Ps!Kill, Ps!Fault
  <2> QED BY <1>11, <1>t, <2>1, <2>2 DEF PauseCounted, PauseType, Ps!Kill
<1>12. ASSUME Ps!Spoil PROVE PauseCounted'
  <2>1. faults' \in 0..MaxFaults
    BY <1>12, <1>t DEF Ps!Spoil, Ps!Fault
  <2> QED BY <1>12, <1>t, <2>1 DEF PauseCounted, PauseType, Ps!Spoil
<1>13. CASE Ps!Tick
  BY <1>13, <1>t DEF PauseCounted, PauseType, Ps!Tick
<1>14. CASE Ps!MakeStore
  BY <1>14, <1>t DEF PauseCounted, PauseType, Ps!MakeStore
<1>15. CASE Ps!Call
  BY <1>15, <1>t DEF PauseCounted, PauseType, Ps!Call
<1>16. CASE UNCHANGED pauseVars
  BY <1>16, <1>t DEF PauseCounted, PauseType, pauseVars
<1> QED
  BY <1>4, <1>5, <1>6, <1>7, <1>8, <1>9, <1>10, <1>11, <1>12, <1>13, <1>14, <1>15, <1>16 DEF Ps!Next

\* No more verbs are killed and no more files replaced than the bounds allow, and
\* a lesson withdrawn is a lesson.
LEMMA LedgerCountStep ==
  ASSUME Limits, LedgerType, LedgerCounted, [Ln!Next]_learnVars
  PROVE  LedgerCounted'
<1> USE DEF LedgerCounted
<1>1. CASE UNCHANGED <<killedLearn, foreign, withdrawn>>
  BY <1>1
<1>2. ASSUME NEW v \in Verbs, Ln!Kill(v) PROVE LedgerCounted'
  BY <1>2 DEF Ln!Kill, Ln!history, Limits
<1>3. CASE Ln!ReplaceElsewhere
  BY <1>3 DEF Ln!ReplaceElsewhere, Limits
<1>4. ASSUME NEW v \in Verbs, NEW l \in Lessons, Ln!Approve(v, l) PROVE LedgerCounted'
  BY <1>4 DEF Ln!Approve
<1>5. ASSUME NEW v \in Verbs, Ln!SignState(v) PROVE LedgerCounted'
  <2>1. verb[v].drops \subseteq Lessons
    BY DEF LedgerType, Runs
  <2> QED BY <1>5, <2>1 DEF Ln!SignState
<1>6. ASSUME NEW v \in Verbs,
             \/ Ln!Start(v) \/ Ln!ReadFile(v) \/ Ln!Check(v) \/ Ln!EndUnsaved(v)
             \/ \E l \in Lessons : Ln!Withdraw(v, l) \/ Ln!Import(v, l)
             \/ Ln!EnsureKey(v) \/ Ln!NewKey(v) \/ Ln!Replace(v)
      PROVE  UNCHANGED <<killedLearn, foreign, withdrawn>>
  BY <1>6 DEF Ln!Start, Ln!ReadFile, Ln!Check, Ln!EndUnsaved, Ln!Withdraw, Ln!Import, Ln!EnsureKey,
       Ln!NewKey, Ln!Replace, Ln!history
<1>7. ASSUME NEW r \in Readers, Ln!Prompt(r) \/ Ln!ReadForPrompt(r) \/ Ln!Match(r)
      PROVE  UNCHANGED <<killedLearn, foreign, withdrawn>>
  BY <1>7 DEF Ln!Prompt, Ln!ReadForPrompt, Ln!Match, Ln!history
<1>8. CASE UNCHANGED learnVars
  BY <1>8 DEF learnVars
<1> QED BY <1>1, <1>2, <1>3, <1>4, <1>5, <1>6, <1>7, <1>8 DEF Ln!Next

\* A command starts over at most as often as it may, whoever edits beside it.
LEMMA TriesStep ==
  ASSUME Limits, SettingsType, EditsCounted, [St!Next]_settingsVars
  PROVE  EditsCounted'
<1>t. /\ Attempts \in Nat /\ editor \in [Editors -> Edit] /\ edits \in 0..MaxEdits
      /\ editFaults \in 0..MaxFaults /\ MaxEdits \in Nat /\ MaxFaults \in Nat
      /\ \A c \in Editors : editor[c].tries \in 0..Attempts
  BY DEF EditsCounted, Tried, SettingsType, Limits
<1>e. ASSUME NEW where PROVE St!Ended(where).tries = 0
  BY DEF St!Ended, St!Idle
<1>o. ASSUME NEW e PROVE St!Told(e).tries = 0
  BY <1>e DEF St!Told, St!Ended, St!Idle
<1>1. ASSUME NEW c \in Editors, NEW e, editor' = [editor EXCEPT ![c] = e], e.tries \in 0..Attempts
      PROVE  Tried'
  BY <1>t, <1>1 DEF Tried
<1>2. ASSUME NEW body, NEW d \in Editors PROVE St!Beside(body)[d].tries = editor[d].tries
  BY <1>t DEF St!Beside, Edit
<1>3. ASSUME NEW c \in Editors, NEW f, NEW e, St!Put(c, f, e), e.tries \in 0..Attempts
      PROVE  Tried'
  <2> DEFINE E == St!Beside(St!BodyOf(f))
  <2>1. editor' = [E EXCEPT ![c] = e] /\ E = [d \in Editors |-> E[d]]
    BY <1>3 DEF St!Put, St!Beside
  <2>2. \A d \in Editors : E[d].tries \in 0..Attempts
    BY <1>t, <1>2
  <2> HIDE DEF E
  <2> QED BY <1>3, <2>1, <2>2 DEF Tried
<1>4. ASSUME NEW c \in Editors
      PROVE  editor[c] \in Edit /\ editor[c].tries \in 0..Attempts /\ 0 \in 0..Attempts
  BY <1>t
<1>5. ASSUME NEW c \in Editors, St!Begin(c) PROVE Tried'
  <2>1. PICK kind : editor' = [editor EXCEPT ![c] =
                      [editor[c] EXCEPT !.at = "read", !.kind = kind, !.seen = rec]]
    BY <1>5 DEF St!Begin
  <2>2. [editor[c] EXCEPT !.at = "read", !.kind = kind, !.seen = rec].tries = editor[c].tries
    BY <1>4 DEF Edit
  <2> QED BY <1>1, <1>4, <2>1, <2>2
<1>6. ASSUME NEW c \in Editors, St!Read(c) PROVE Tried'
  <2> DEFINE me == editor[c]
             n == [St!Ended("done") EXCEPT !.said = "nothing"]
             g == [me EXCEPT !.at = "compare", !.before = settings,
                             !.after = St!Edited(me.kind, me.seen, settings),
                             !.had = St!OursOf(settings) # 0]
  <2>1. n.tries = 0
    BY DEF St!Ended, St!Idle
  <2>2. g.tries = me.tries
    BY <1>4 DEF Edit
  <2>3. \E e \in {n, g} : editor' = [editor EXCEPT ![c] = e]
    BY <1>6 DEF St!Read
  <2> HIDE DEF n, g
  <2> QED BY <1>1, <1>4, <2>1, <2>2, <2>3
<1>7. ASSUME NEW c \in Editors, St!Compare(c) PROVE Tried'
  <2> DEFINE me == editor[c]
             g == [me EXCEPT !.at = "rename", !.beside = FALSE]
             again == [me EXCEPT !.at = "read", !.tries = me.tries + 1]
  <2>1. g.tries = me.tries /\ again.tries = me.tries + 1
    BY <1>4 DEF Edit
  <2>2. \/ editor' = [editor EXCEPT ![c] = g]
        \/ editor' = [editor EXCEPT ![c] = St!Told(me)]
        \/ editor' = [editor EXCEPT ![c] = again] /\ me.tries + 1 < Attempts
        \/ editor' = [editor EXCEPT ![c] = St!Ended("failed")]
    BY <1>7 DEF St!Compare
  <2>3. me.tries + 1 < Attempts => me.tries + 1 \in 0..Attempts
    BY <1>t, <1>4
  <2> HIDE DEF g, again
  <2> QED BY <1>1, <1>4, <1>e, <1>o, <2>1, <2>2, <2>3
<1>8. ASSUME NEW c \in Editors, St!Rename(c) PROVE Tried'
  <2> DEFINE me == editor[c]
             g == [me EXCEPT !.at = "record"]
  <2>1. g.tries = me.tries
    BY <1>4 DEF Edit
  <2>2. St!Put(c, me.after, IF me.kind # 0 THEN g ELSE St!Told(me))
    BY <1>8 DEF St!Rename
  <2>3. (IF me.kind # 0 THEN g ELSE St!Told(me)).tries \in 0..Attempts
    <3> HIDE DEF g
    <3> QED BY <1>4, <1>o, <2>1
  <2> HIDE DEF g
  <2> QED BY <1>3, <2>2, <2>3
<1>9. ASSUME NEW c \in Editors, NEW at, NEW seen,
             editor' = [editor EXCEPT ![c] = [editor[c] EXCEPT !.at = at, !.seen = seen]]
      PROVE  Tried'
  <2>1. [editor[c] EXCEPT !.at = at, !.seen = seen].tries = editor[c].tries
    BY <1>4 DEF Edit
  <2> QED BY <1>1, <1>4, <1>9, <2>1
<1>10. ASSUME NEW c \in Editors, NEW at,
              editor' = [editor EXCEPT ![c] = [editor[c] EXCEPT !.at = at]]
       PROVE  Tried'
  <2>1. [editor[c] EXCEPT !.at = at].tries = editor[c].tries
    BY <1>4 DEF Edit
  <2> QED BY <1>1, <1>4, <1>10, <2>1
<1>11. ASSUME NEW c \in Editors, St!ReadRecord(c) \/ St!ReplaceRecord(c) \/ St!WriteFails(c)
       PROVE  Tried'
  <2>1. CASE St!ReadRecord(c)
    BY <1>9, <2>1 DEF St!ReadRecord
  <2>2. CASE St!ReplaceRecord(c)
    BY <1>10, <2>2 DEF St!ReplaceRecord
  <2>3. CASE St!WriteFails(c)
    BY <1>10, <2>3 DEF St!WriteFails
  <2> QED BY <1>11, <2>1, <2>2, <2>3
<1>12. ASSUME NEW c \in Editors, St!Consent(c) \/ St!Kill(c) PROVE Tried'
  <2>1. \E where \in {"done", "killed"} : editor' = [editor EXCEPT ![c] = St!Ended(where)]
    BY <1>12 DEF St!Consent, St!Kill
  <2> QED BY <1>1, <1>4, <1>e, <2>1
<1>13. ASSUME NEW c \in Editors, St!Undo(c) PROVE Tried'
  <2> DEFINE g == [editor[c] EXCEPT !.at = "undoRename", !.beside = FALSE]
  <2>1. g.tries = editor[c].tries
    BY <1>4 DEF Edit
  <2>2. \/ editor' = [editor EXCEPT ![c] = g]
        \/ \E where \in {"undone", "stuck"} : editor' = [editor EXCEPT ![c] = St!Ended(where)]
    BY <1>13 DEF St!Undo
  <2> HIDE DEF g
  <2> QED BY <1>1, <1>4, <1>e, <2>1, <2>2
<1>14. ASSUME NEW c \in Editors, St!UndoRename(c) PROVE Tried'
  BY <1>3, <1>4, <1>e, <1>14 DEF St!UndoRename
<1>15. ASSUME St!EditElsewhere PROVE Tried'
  <2>1. PICK body : editor' = St!Beside(body)
    BY <1>15 DEF St!EditElsewhere
  <2> QED BY <1>t, <1>2, <2>1 DEF Tried
<1>16. ASSUME UNCHANGED settingsVars PROVE Tried'
  <2>1. editor' = editor
    BY <1>16 DEF settingsVars
  <2> QED BY <1>t, <2>1 DEF Tried
<1>17. Tried'
  <2>1. ASSUME St!Next PROVE Tried'
    BY <1>5, <1>6, <1>7, <1>8, <1>11, <1>12, <1>13, <1>14, <1>15, <2>1 DEF St!Next
  <2> QED BY <1>16, <2>1
<1>18. edits' \in 0..MaxEdits
  <2>1. ASSUME NEW c \in Editors,
               \/ St!Begin(c) \/ St!Read(c) \/ St!Compare(c) \/ St!Rename(c) \/ St!ReadRecord(c)
               \/ St!ReplaceRecord(c) \/ St!Consent(c) \/ St!WriteFails(c) \/ St!Undo(c)
               \/ St!UndoRename(c) \/ St!Kill(c)
        PROVE  edits' = edits
    BY <2>1 DEF St!Begin, St!Read, St!Compare, St!Rename, St!ReadRecord, St!ReplaceRecord, St!Consent,
         St!WriteFails, St!Undo, St!UndoRename, St!Kill
  <2>2. CASE St!EditElsewhere
    BY <1>t, <2>2 DEF St!EditElsewhere
  <2> QED BY <1>t, <2>1, <2>2 DEF St!Next, settingsVars
<1>19. editFaults' \in 0..MaxFaults
  <2>1. ASSUME NEW c \in Editors,
               \/ St!Begin(c) \/ St!Read(c) \/ St!Compare(c) \/ St!Rename(c) \/ St!ReadRecord(c)
               \/ St!ReplaceRecord(c) \/ St!Consent(c) \/ St!Undo(c) \/ St!UndoRename(c)
        PROVE  editFaults' = editFaults
    BY <2>1 DEF St!Begin, St!Read, St!Compare, St!Rename, St!ReadRecord, St!ReplaceRecord, St!Consent,
         St!Undo, St!UndoRename
  <2>2. ASSUME NEW c \in Editors, St!WriteFails(c) \/ St!Kill(c)
        PROVE  editFaults < MaxFaults /\ editFaults' = editFaults + 1
    BY <2>2 DEF St!WriteFails, St!Kill, St!Fault
  <2>3. CASE St!EditElsewhere
    BY <1>t, <2>3 DEF St!EditElsewhere
  <2> QED BY <1>t, <2>1, <2>2, <2>3 DEF St!Next, settingsVars
<1> QED BY <1>17, <1>18, <1>19 DEF EditsCounted

\* A step of the machine is one of the store's root, or leaves it alone.
LEMMA RootPart ==
  ASSUME [MCNext]_allVars
  PROVE  [Next]_vars
BY DEF MCNext, allVars, InRewrite, InLedger, InStoreRoot, InPause, InSettingsFile, Next, Anchors

\* Whatever the five parts do, and whatever is killed, replaced or spoiled, their
\* files and what each process has in memory stay of their types, and no counter
\* passes its bound; for any number of processes, overlapping or not.
THEOREM PartTypesStay ==
  ASSUME Bounds, Limits, Distinct, Instants, Hashes, LedgerFiles
  PROVE  MCSpec => []PartTypes
<1> DEFINE TypeInv == /\ TypeOK /\ PauseCounted /\ LedgerInv /\ LedgerCounted
                      /\ PlanInv /\ EditsCounted
<1>1. MCInit => TypeInv
  <2> SUFFICES ASSUME MCInit PROVE TypeInv
    OBVIOUS
  <2>1. Init /\ Ps!Init /\ Ln!Init /\ St!Init
    BY DEF MCInit
  <2>2. PauseCounted
    <3>1. PauseType
      BY <2>1, PauseInit DEF PauseInv
    <3>2. faults = 0
      BY <2>1 DEF Ps!Init
    <3> QED BY <3>1, <3>2 DEF PauseCounted, Limits
  <2>3. LedgerInv /\ LedgerCounted
    <3>1. killedLearn = 0 /\ foreign = 0 /\ withdrawn = {}
      BY <2>1 DEF Ln!Init
    <3>2. LedgerInv
      BY <2>1, LedgerInit
    <3> QED BY <3>1, <3>2 DEF LedgerCounted, Limits
  <2>4. PlanInv /\ EditsCounted
    <3>1. edits = 0 /\ editFaults = 0 /\ editor = [c \in Editors |-> St!Idle]
      BY <2>1 DEF St!Init
    <3>2. St!Idle.tries = 0
      BY DEF St!Idle
    <3>3. PlanInv
      BY <2>1, PlanInit
    <3> QED BY <3>1, <3>2, <3>3 DEF EditsCounted, Tried, Limits
  <2> QED BY <2>1, <2>2, <2>3, <2>4, InitType
<1>2. TypeInv /\ [MCNext]_allVars => TypeInv'
  BY PartStep, RootPart, TypeStep, PauseTypeStep, LedgerStep, LedgerCountStep, PlanStep, TriesStep
     DEF LedgerInv, PlanInv
<1>3. RewriteInv /\ TypeInv => PartTypes
  <2> SUFFICES ASSUME RewriteInv, TypeInv PROVE PartTypes
    OBVIOUS
  <2>1. Rw!TypeOK
    BY TypeFacts
  <2>2. Ln!TypeOK
    BY DEF LedgerInv, LedgerType, LedgerCounted, Shelf, Keys, Runs, Stopped, Prompts, Actives, Ln!TypeOK
  <2>3. Ps!TypeOK
    <3>1. PauseType /\ faults \in 0..MaxFaults
      BY DEF PauseCounted
    <3>2. ASSUME NEW i \in DOMAIN gaps PROVE gaps[i].from \in Times /\ gaps[i].to \in Times
      <4>1. gaps \in Seq([from : Times, to : Times])
        BY <3>1 DEF PauseType
      <4>2. i \in 1..Len(gaps)
        BY <4>1, LenProperties
      <4>3. gaps[i] \in [from : Times, to : Times]
        BY <4>1, <4>2, ElementOfSeq
      <4> QED BY <4>3
    <3>3. ASSUME NEW k \in Pausers
          PROVE  cmd[k].at \in Underway \cup {"idle", "paused", "resumed", "nothing", "killed"}
      BY <3>1 DEF PauseType, Commanded
    <3> QED BY <3>1, <3>2, <3>3 DEF PauseType, Underway, Ps!TypeOK
  <2>4. St!TypeOK
    BY DEF PlanInv, SettingsType, EditsCounted, Tried, Edit, Recs, Settings, Written, St!TypeOK
  <2> QED BY <2>1, <2>2, <2>3, <2>4 DEF PartTypes
<1> QED BY <1>1, <1>2, <1>3, RewriteInvariant, PTL DEF MCSpec, allVars
=============================================================================
