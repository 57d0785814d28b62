----------------------------- MODULE GatesProof -----------------------------
(***************************************************************************)
(* Theorems about Gates, for any agents, calls, gates and prompts and any  *)
(* number of faults: what the record says of a gate, of a turn and of a    *)
(* watched red against what the runs read, and that what it says of a      *)
(* point stands.                                                           *)
(***************************************************************************)
EXTENDS Gates, SequenceTheorems, WellFoundedInduction, TLAPS

\* The place of a call's entry of a type, 0 for none.
At(type, c) == Place(rec, type, c)

Logged == log \in Seq({log[i] : i \in DOMAIN log})

\* Where a call is, by what the record has of it and by what it did.
Phases ==
  \A c \in Calls :
    /\ phase[c] = "idle" => At("decl", c) = 0
    /\ At("exec", c) # 0 \/ (\E e \in spilled : e.call = c) =>
         phase[c] \in {"launched", "ended", "done"}
    /\ At("join", c) # 0 => phase[c] = "done"
    /\ phase[c] \in {"launched", "ended"} => c \in Runs
    /\ c \in done <=> c \notin Runs /\ phase[c] \in {"acted", "done"}

\* What the record says a run came to is what it came to; a run in the
\* background has only that it was launched, until its end is joined.
ToldOf(c) ==
  /\ phase[c] \notin {"idle", "declared"} => reading[c] \in Readings[c]
  /\ phase[c] \in {"launched", "ended"} => reading[c].background
  /\ phase[c] = "acted" => ~reading[c].background
  /\ At("exec", c) # 0 =>
       log[At("exec", c)].end = IF reading[c].background THEN Launched(reading[c]) ELSE reading[c]
  /\ At("join", c) # 0 =>
       /\ reading[c].background
       /\ log[At("join", c)].outcome = Joined(reading[c])
Told == \A c \in Runs : ToldOf(c)

\* A run that has read the files.
HasRead(r) == phase[r] \in {"acted", "ended", "done"}

\* A run saw every write that was answered before the run was declared,
SeenBefore ==
  \A r \in Runs, w \in Calls \ Runs :
    HasRead(r) /\ At("exec", w) # 0 /\ At("exec", w) < At("decl", r) => w \in saw[r].writes

\* and none that was declared after the run was answered.
SeenAfter ==
  \A r \in Runs : \A w \in saw[r].writes :
    At("exec", r) # 0 /\ ~reading[r].background => At("decl", w) < At("exec", r)

\* A call gives a file a content that no file ever had.
Fresh ==
  /\ \A p \in Paths : content[p] \in done \cup {"", "another"}
  /\ \A w \in Calls \ Runs : At("exec", w) # 0 /\ CallKind[w] = "tool" =>
       log[At("exec", w)].sha \in done \cup {"", "another"}

\* A file that reads as a write's post found it read so to the runs in between.
Unmoved ==
  \A r \in Runs, w \in Calls :
    /\ HasRead(r) /\ CallKind[w] = "tool"
    /\ At("exec", w) # 0 /\ At("exec", w) < At("decl", r)
    /\ log[At("exec", w)].sha # "another"
    /\ log[At("exec", w)].sha = content[Path[w]]
    => saw[r].content[Path[w]] = content[Path[w]]

Shape ==
  /\ Logged
  /\ DOMAIN reading = Runs /\ DOMAIN saw = Runs /\ DOMAIN content = Paths

GatesInv ==
  /\ TypeOK /\ Shape /\ Phases /\ Told /\ SeenBefore /\ SeenAfter /\ Fresh /\ Unmoved

-----------------------------------------------------------------------------
(* A record that grows.                                                    *)

LEMMA SeqFacts ==
  ASSUME Logged
  PROVE  Len(log) \in Nat /\ DOMAIN log = 1..Len(log)
BY DEF Logged

\* The places of a call's entries of a type.
Places(q, type, c) == {i \in DOMAIN q.log : q.log[i].call = c /\ q.log[i].type = type}

AnyOf(S) == IF S = {} THEN 0 ELSE CHOOSE i \in S : TRUE

LEMMA PlaceIs ==
  ASSUME NEW q, NEW type, NEW c
  PROVE  Place(q, type, c) = AnyOf(Places(q, type, c))
BY Zenon DEF Place, Places, AnyOf

\* A place is of an entry, or the record has none.
LEMMA PlaceOf ==
  ASSUME NEW q, NEW n \in Nat, DOMAIN q.log = 1..n, NEW type, NEW c
  PROVE  /\ Place(q, type, c) \in 0..n
         /\ Place(q, type, c) # 0 =>
              q.log[Place(q, type, c)].type = type /\ q.log[Place(q, type, c)].call = c
         /\ Place(q, type, c) = 0 =>
              \A i \in DOMAIN q.log : ~(q.log[i].type = type /\ q.log[i].call = c)
<1> DEFINE S == Places(q, type, c)
<1>1. Place(q, type, c) = IF S = {} THEN 0 ELSE CHOOSE i \in S : TRUE
  BY PlaceIs DEF AnyOf
<1>2. S # {} => (CHOOSE i \in S : TRUE) \in S
  OBVIOUS
<1>3. \A i : i \in S <=> i \in 1..n /\ q.log[i].call = c /\ q.log[i].type = type
  BY DEF Places
<1> HIDE DEF S
<1>4. CASE S = {}
  BY <1>1, <1>3, <1>4
<1>5. CASE S # {}
  <2>1. Place(q, type, c) \in S
    BY <1>1, <1>2, <1>5
  <2> QED BY <1>3, <2>1
<1> QED BY <1>4, <1>5

LEMMA PlaceFacts ==
  ASSUME Logged, NEW type, NEW c
  PROVE  /\ At(type, c) \in 0..Len(log)
         /\ At(type, c) # 0 => log[At(type, c)].type = type /\ log[At(type, c)].call = c
         /\ At(type, c) = 0 => \A i \in DOMAIN log : ~(log[i].type = type /\ log[i].call = c)
<1>1. DOMAIN rec.log = 1..Len(log) /\ rec.log = log /\ Len(log) \in Nat
  BY SeqFacts DEF rec
<1> QED BY <1>1, PlaceOf DEF At

\* Places stand while the record does.
LEMMA SameLog ==
  ASSUME log' = log
  PROVE  \A type, c : At(type, c)' = At(type, c)
BY DEF At, Place, rec

\* An entry put at the end takes the place after the last, and the others keep
\* theirs.
Grown(e) ==
  /\ Logged' /\ Len(log') = Len(log) + 1 /\ log'[Len(log) + 1] = e
  /\ \A i \in 1..Len(log) : log'[i] = log[i]
  /\ \A type, c : type # e.type \/ c # e.call =>
       /\ At(type, c)' = At(type, c)
       /\ At(type, c) # 0 => log'[At(type, c)] = log[At(type, c)]
  /\ At(e.type, e.call) = 0 => At(e.type, e.call)' = Len(log) + 1

LEMMA Grows ==
  ASSUME Logged, NEW e, log' = Append(log, e)
  PROVE  Grown(e)
<1> DEFINE R == {log[i] : i \in DOMAIN log} \cup {e}
<1>1. log \in Seq(R)
  BY DEF Logged
<1>2. /\ Append(log, e) \in Seq(R) /\ Len(Append(log, e)) = Len(log) + 1 /\ Len(log) \in Nat
      /\ \A i \in 1..Len(log) : Append(log, e)[i] = log[i]
      /\ Append(log, e)[Len(log) + 1] = e
  BY <1>1
<1>3. DOMAIN log = 1..Len(log) /\ DOMAIN log' = 1..(Len(log) + 1)
  BY <1>1, <1>2
<1>4. {log'[i] : i \in DOMAIN log'} = R
  BY <1>2, <1>3
<1>5. Logged'
  BY <1>2, <1>4 DEF Logged
<1>6. PICK q, r : q = rec /\ r = rec'
  OBVIOUS
<1>q. q.log = log /\ r.log = log'
  BY <1>6 DEF rec
<1>7. ASSUME NEW type, NEW c, type # e.type \/ c # e.call
      PROVE  /\ At(type, c)' = At(type, c)
             /\ At(type, c) # 0 => log'[At(type, c)] = log[At(type, c)]
  <2>1. Places(r, type, c) = Places(q, type, c)
    BY <1>2, <1>3, <1>6, <1>q, <1>7 DEF Places
  <2>2. Place(r, type, c) = Place(q, type, c)
    BY <2>1, PlaceIs
  <2>3. At(type, c)' = At(type, c)
    BY <1>6, <1>q, <2>2 DEF At
  <2> QED BY <1>2, <2>3, PlaceFacts
<1>8. ASSUME At(e.type, e.call) = 0 PROVE At(e.type, e.call)' = Len(log) + 1
  <2>1. \A i \in DOMAIN log' : log'[i].type = e.type /\ log'[i].call = e.call => i = Len(log) + 1
    BY <1>2, <1>3, <1>8, PlaceFacts
  <2>2. Len(log) + 1 \in DOMAIN log'
    BY <1>2, <1>3
  <2> DEFINE i == Place(r, e.type, e.call)
  <2>3. /\ i \in 0..(Len(log) + 1)
        /\ i # 0 => log'[i].type = e.type /\ log'[i].call = e.call
        /\ i = 0 => \A j \in DOMAIN log' : ~(log'[j].type = e.type /\ log'[j].call = e.call)
    <3>1. PICK n \in Nat : n = Len(log) + 1
      BY <1>2
    <3>2. DOMAIN r.log = 1..n
      BY <1>3, <1>q, <3>1
    <3>3. /\ i \in 0..n
          /\ i # 0 => r.log[i].type = e.type /\ r.log[i].call = e.call
          /\ i = 0 => \A j \in DOMAIN r.log : ~(r.log[j].type = e.type /\ r.log[j].call = e.call)
      BY <3>2, PlaceOf
    <3> QED BY <1>q, <3>1, <3>3
  <2>4. i = Len(log) + 1
    <3> HIDE DEF i
    <3> QED BY <1>2, <1>3, <2>1, <2>2, <2>3
  <2> QED BY <1>6, <2>4 DEF At
<1> QED BY <1>2, <1>5, <1>7, <1>8 DEF Grown

-----------------------------------------------------------------------------
(* The types, and where calls are.                                         *)

\* The entries of the record, one of a type for each call.
Entries ==
  /\ \A i \in DOMAIN log : log[i].type \in {"decl", "exec", "join"} /\ log[i].call \in Calls
  /\ \A i, j \in DOMAIN log : log[i].type = log[j].type /\ log[i].call = log[j].call => i = j

LEMMA EntryLands ==
  ASSUME Logged, Entries, NEW e, log' = Append(log, e),
         e.type \in {"decl", "exec", "join"}, e.call \in Calls, At(e.type, e.call) = 0
  PROVE  Entries'
<1>1. /\ Len(log') = Len(log) + 1 /\ log'[Len(log) + 1] = e
      /\ \A i \in 1..Len(log) : log'[i] = log[i]
      /\ DOMAIN log' = 1..(Len(log) + 1) /\ DOMAIN log = 1..Len(log) /\ Len(log) \in Nat
  <2>1. Grown(e)
    BY Grows
  <2>2. DOMAIN log' = 1..Len(log')
    BY <2>1 DEF Grown, Logged
  <2> QED BY <2>1, <2>2, SeqFacts DEF Grown
<1>2. \A i \in DOMAIN log : ~(log[i].type = e.type /\ log[i].call = e.call)
  BY PlaceFacts
<1>3. \A i \in DOMAIN log' : i \in DOMAIN log \/ i = Len(log) + 1
  BY <1>1
<1> QED BY <1>1, <1>2, <1>3 DEF Entries

\* What a call's own step does to where the others are.
LEMMA KindFacts ==
  ASSUME NEW c \in Calls
  PROVE  /\ c \in Runs <=> CallKind[c] = "run"
         /\ c \in Runs <=> c \notin Named \cup Unnamed
         /\ c \in Named => CallKind[c] \in {"tool", "shell"}
BY GatesAssumption DEF Runs, Named, Unnamed

\* A step that puts an entry of a call at the end of the record; and one that
\* leaves the record as it is.
Puts(type, c, e) ==
  /\ At(type, c) = 0 /\ At(type, c)' = Len(log) + 1 /\ log'[Len(log) + 1] = e
  /\ \A t, x : At(t, x) \in Nat /\ At(t, x) <= Len(log)
  /\ \A t, x : t # type \/ x # c =>
       At(t, x)' = At(t, x) /\ (At(t, x) # 0 => log'[At(t, x)] = log[At(t, x)])
  /\ Entries' /\ Logged' /\ Len(log) \in Nat

Stands ==
  /\ log' = log /\ \A t, x : At(t, x)' = At(t, x)
  /\ Entries' /\ Logged'

LEMMA PutsEntry ==
  ASSUME Logged, Entries, NEW type \in {"decl", "exec", "join"}, NEW c \in Calls,
         At(type, c) = 0, NEW e, e.type = type, e.call = c, log' = Append(log, e)
  PROVE  Puts(type, c, e)
<1>1. Entries'
  BY EntryLands
<1>2. /\ Logged' /\ Len(log') = Len(log) + 1 /\ log'[Len(log) + 1] = e
      /\ \A t, x : t # type \/ x # c =>
           At(t, x)' = At(t, x) /\ (At(t, x) # 0 => log'[At(t, x)] = log[At(t, x)])
      /\ At(type, c)' = Len(log) + 1
  <2>1. Grown(e)
    BY Grows
  <2> QED BY <2>1 DEF Grown
<1>3. \A t, x : At(t, x) \in 0..Len(log)
  BY PlaceFacts
<1> QED BY <1>1, <1>2, <1>3, SeqFacts DEF Puts

\* Where the two records are put.
Kept == TypeOK /\ Shape /\ Phases

LEMMA TypesAre ==
  TypeOK <=>
    /\ Entries
    /\ \A e \in spilled : e.type = "exec" /\ At("exec", e.call) = 0
    /\ signs \subseteq {"verified", "unknown", "skipped"}
    /\ phase \in [Calls -> {"idle", "declared", "acted", "launched", "ended", "done"}]
    /\ content \in [Paths -> Calls \cup {"", "another"}]
    /\ done \subseteq Calls
    /\ \A r \in Runs : reading[r] \in Readings[r] \cup {Unread}
    /\ \A r \in Runs : saw[r].writes \subseteq done
    /\ faults \in 0..MaxFaults
BY Zenon DEF TypeOK, Entries, At

LEMMA DeclarePuts ==
  ASSUME Kept, NEW c \in Calls, Declare(c)
  PROVE  Puts("decl", c, [type |-> "decl", call |-> c])
<1>1. Logged /\ Entries /\ At("decl", c) = 0
  BY TypesAre DEF Kept, Shape, Declare, Free, Phases
<1>2. log' = Append(log, [type |-> "decl", call |-> c])
  BY DEF Declare
<1> QED BY <1>1, <1>2, PutsEntry

LaunchedEntry(c, r) ==
  [type |-> "exec", call |-> c, sha |-> "none", end |-> Launched(r)]

LEMMA LaunchPuts ==
  ASSUME Kept, NEW c \in Calls, Launch(c)
  PROVE  \E r \in Readings[c] :
           /\ r.background /\ reading' = [reading EXCEPT ![c] = r]
           /\ Puts("exec", c, LaunchedEntry(c, r))
<1>1. Logged /\ Entries /\ At("exec", c) = 0
  BY TypesAre DEF Kept, Shape, Launch, Phases
<1>2. PICK r \in Readings[c] : /\ r.background /\ reading' = [reading EXCEPT ![c] = r]
                               /\ log' = Append(log, LaunchedEntry(c, r))
  BY DEF Launch, LaunchedEntry
<1>3. LaunchedEntry(c, r).type = "exec" /\ LaunchedEntry(c, r).call = c
  BY DEF LaunchedEntry
<1>4. Puts("exec", c, LaunchedEntry(c, r))
  BY <1>1, <1>2, <1>3, PutsEntry
<1> QED BY <1>2, <1>4

JoinedEntry(c) ==
  [type |-> "join", call |-> c, outcome |-> Joined(reading[c])]

LEMMA JoinPuts ==
  ASSUME Kept, NEW c \in Calls, Join(c)
  PROVE  Puts("join", c, JoinedEntry(c))
<1>1. Logged /\ Entries /\ At("join", c) = 0
  BY TypesAre DEF Kept, Shape, Join, Phases
<1>2. log' = Append(log, JoinedEntry(c))
  BY DEF Join, JoinedEntry
<1>3. JoinedEntry(c).type = "join" /\ JoinedEntry(c).call = c
  BY DEF JoinedEntry
<1> QED BY <1>1, <1>2, <1>3, PutsEntry

LEMMA PostPuts ==
  ASSUME Kept, NEW c \in Calls, Post(c)
  PROVE  Puts("exec", c, Answer(c))
<1>1. Logged /\ Entries /\ At("exec", c) = 0
  BY TypesAre DEF Kept, Shape, Post, Phases
<1>2. log' = Append(log, Answer(c))
  BY DEF Post
<1>3. Answer(c).type = "exec" /\ Answer(c).call = c
  BY DEF Answer
<1> QED BY <1>1, <1>2, <1>3, PutsEntry

LEMMA StandsStill ==
  ASSUME Kept, log' = log
  PROVE  Stands
<1>1. Logged /\ Entries
  BY TypesAre DEF Kept, Shape
<1> QED BY <1>1, SameLog DEF Stands, Entries, Logged

LEMMA TypesStep ==
  ASSUME Kept, [Next]_vars
  PROVE  TypeOK' /\ Shape'
<1>a. ASSUME /\ Entries' /\ Logged'
             /\ \A e \in spilled' : e.type = "exec" /\ At("exec", e.call)' = 0
             /\ signs' \subseteq {"verified", "unknown", "skipped"}
             /\ phase' \in [Calls -> {"idle", "declared", "acted", "launched", "ended", "done"}]
             /\ content' \in [Paths -> Calls \cup {"", "another"}]
             /\ done' \subseteq Calls
             /\ DOMAIN reading' = Runs
             /\ \A r \in Runs : reading'[r] \in Readings[r] \cup {Unread}
             /\ DOMAIN saw' = Runs /\ \A r \in Runs : saw'[r].writes \subseteq done'
             /\ faults' \in 0..MaxFaults
      PROVE  TypeOK' /\ Shape'
  <2>1. TypeOK'
    BY <1>a, Zenon DEF TypeOK, Entries, At
  <2>2. DOMAIN content' = Paths
    BY <1>a
  <2> QED BY <1>a, <2>1, <2>2, Zenon DEF Shape
<1>b. /\ Entries /\ Logged
      /\ \A e \in spilled : e.type = "exec" /\ At("exec", e.call) = 0
      /\ signs \subseteq {"verified", "unknown", "skipped"}
      /\ phase \in [Calls -> {"idle", "declared", "acted", "launched", "ended", "done"}]
      /\ content \in [Paths -> Calls \cup {"", "another"}]
      /\ done \subseteq Calls
      /\ DOMAIN reading = Runs /\ \A r \in Runs : reading[r] \in Readings[r] \cup {Unread}
      /\ DOMAIN saw = Runs /\ \A r \in Runs : saw[r].writes \subseteq done
      /\ faults \in 0..MaxFaults
  BY TypesAre DEF Kept, Shape
<1>f. ASSUME Fault PROVE faults' \in 0..MaxFaults
  <2>1. MaxFaults \in Nat /\ faults \in 0..MaxFaults
    BY <1>b, GatesAssumption
  <2> QED BY <1>f, <2>1 DEF Fault
<1>c. ASSUME Covered
      PROVE  faults' \in 0..MaxFaults /\ signs' \subseteq {"verified", "unknown", "skipped"}
  <2>1. CASE signs' = signs \cup {"verified"} /\ UNCHANGED faults
    BY <1>b, <2>1
  <2>2. CASE signs' = signs \cup {"unknown"} /\ Fault
    BY <1>b, <1>f, <2>2
  <2> QED BY <1>c, <2>1, <2>2 DEF Covered
<1>1. ASSUME NEW c \in Calls, Declare(c) PROVE TypeOK' /\ Shape'
  <2>1. Puts("decl", c, [type |-> "decl", call |-> c])
    BY <1>1, DeclarePuts
  <2>2. Entries' /\ Logged' /\ \A x : At("exec", x)' = At("exec", x)
    BY <2>1 DEF Puts
  <2>3. /\ UNCHANGED <<spilled, signs, content, done, reading, saw, faults>>
        /\ phase' = [phase EXCEPT ![c] = "declared"]
    BY <1>1 DEF Declare, Goto
  <2> QED BY <1>a, <1>b, <2>2, <2>3
<1>2. ASSUME NEW c \in Calls, Launch(c) PROVE TypeOK' /\ Shape'
  <2>1. PICK r \in Readings[c] : /\ reading' = [reading EXCEPT ![c] = r]
                                 /\ Puts("exec", c, LaunchedEntry(c, r))
    BY <1>2, LaunchPuts
  <2>2. \A e \in spilled : e.call # c
    BY <1>2 DEF Kept, Phases, Launch
  <2>3. Entries' /\ Logged' /\ \A x : x # c => At("exec", x)' = At("exec", x)
    BY <2>1 DEF Puts
  <2>4. /\ UNCHANGED <<spilled, content, done, saw>> /\ Covered
        /\ phase' = [phase EXCEPT ![c] = "launched"]
    BY <1>2 DEF Launch, Goto
  <2>5. faults' \in 0..MaxFaults /\ signs' \subseteq {"verified", "unknown", "skipped"}
    BY <1>c, <2>4
  <2>6. DOMAIN reading' = Runs /\ \A x \in Runs : reading'[x] \in Readings[x] \cup {Unread}
    BY <1>b, <2>1
  <2> QED BY <1>a, <1>b, <2>2, <2>3, <2>4, <2>5, <2>6
<1>3. ASSUME NEW c \in Calls, Join(c) PROVE TypeOK' /\ Shape'
  <2>1. Puts("join", c, JoinedEntry(c))
    BY <1>3, JoinPuts
  <2>2. Entries' /\ Logged' /\ \A x : At("exec", x)' = At("exec", x)
    BY <2>1 DEF Puts
  <2>3. /\ UNCHANGED <<spilled, signs, content, done, reading, saw, faults>>
        /\ phase' = [phase EXCEPT ![c] = "done"]
    BY <1>3 DEF Join, Goto
  <2> QED BY <1>a, <1>b, <2>2, <2>3
<1>4. ASSUME NEW c \in Calls, Post(c) PROVE TypeOK' /\ Shape'
  <2>1. Puts("exec", c, Answer(c))
    BY <1>4, PostPuts
  <2>2. \A e \in spilled : e.call # c
    BY <1>4 DEF Kept, Phases, Post
  <2>3. Entries' /\ Logged' /\ \A x : x # c => At("exec", x)' = At("exec", x)
    BY <2>1 DEF Puts
  <2>4. /\ UNCHANGED <<spilled, content, done, reading, saw>> /\ Covered
        /\ phase' = [phase EXCEPT ![c] = "done"]
    BY <1>4 DEF Post, Goto
  <2>5. faults' \in 0..MaxFaults /\ signs' \subseteq {"verified", "unknown", "skipped"}
    BY <1>c, <2>4
  <2> QED BY <1>a, <1>b, <2>2, <2>3, <2>4, <2>5
<1>s. ASSUME log' = log PROVE Entries' /\ Logged' /\ \A x : At("exec", x)' = At("exec", x)
  BY <1>s, StandsStill DEF Stands
<1>5. ASSUME NEW c \in Calls, DeclareLost(c) \/ PostLost(c) PROVE TypeOK' /\ Shape'
  <2>1. UNCHANGED <<log, spilled, content, done, reading, saw>> /\ faults' \in 0..MaxFaults
    BY <1>5, <1>f DEF DeclareLost, PostLost
  <2>2. phase' = [phase EXCEPT ![c] = "declared"] \/ phase' = [phase EXCEPT ![c] = "done"]
    BY <1>5 DEF DeclareLost, PostLost, Goto
  <2>3. signs' \subseteq {"verified", "unknown", "skipped"}
    BY <1>5, <1>b DEF DeclareLost, PostLost, TornOrLost
  <2> QED BY <1>a, <1>b, <1>s, <2>1, <2>2, <2>3
<1>6. ASSUME NEW c \in Calls, WriteFile(c) PROVE TypeOK' /\ Shape'
  <2>1. UNCHANGED <<log, spilled, signs, reading, saw, faults>> /\ done' = done \cup {c}
    BY <1>6 DEF WriteFile
  <2>2. phase' = [phase EXCEPT ![c] = "acted"]
    BY <1>6 DEF WriteFile, Goto
  <2>3. PICK p \in Paths : content' = [content EXCEPT ![p] = c]
    BY <1>6 DEF WriteFile
  <2>4. content' \in [Paths -> Calls \cup {"", "another"}]
    BY <1>b, <2>3
  <2> QED BY <1>a, <1>b, <1>s, <2>1, <2>2, <2>4
<1>7. ASSUME NEW c \in Calls, RunGate(c) \/ EndLaunched(c) PROVE TypeOK' /\ Shape'
  <2>1. UNCHANGED <<log, spilled, signs, content, done, faults>>
    BY <1>7 DEF RunGate, EndLaunched
  <2>2. phase' = [phase EXCEPT ![c] = "acted"] \/ phase' = [phase EXCEPT ![c] = "ended"]
    BY <1>7 DEF RunGate, EndLaunched, Goto
  <2>3. saw' = [saw EXCEPT ![c] = [writes |-> done, content |-> content]]
    BY <1>7 DEF RunGate, EndLaunched, Sees
  <2>4. DOMAIN saw' = Runs /\ \A r \in Runs : saw'[r].writes \subseteq done'
    BY <1>b, <2>1, <2>3
  <2>5. DOMAIN reading' = Runs /\ \A x \in Runs : reading'[x] \in Readings[x] \cup {Unread}
    <3>1. CASE reading' = reading
      BY <1>b, <3>1
    <3>2. CASE \E r \in Readings[c] : reading' = [reading EXCEPT ![c] = r]
      <4>1. PICK r \in Readings[c] : reading' = [reading EXCEPT ![c] = r]
        BY <3>2
      <4> QED BY <1>b, <4>1
    <3> QED BY <1>7, <3>1, <3>2 DEF RunGate, EndLaunched
  <2> QED BY <1>a, <1>b, <1>s, <2>1, <2>2, <2>4, <2>5
<1>8. ASSUME NEW c \in Calls, PostSpilled(c) PROVE TypeOK' /\ Shape'
  <2>1. UNCHANGED <<log, content, done, reading, saw>> /\ faults' \in 0..MaxFaults
    BY <1>8, <1>f DEF PostSpilled
  <2>2. phase' = [phase EXCEPT ![c] = "done"] /\ spilled' = spilled \cup {Answer(c)}
    BY <1>8 DEF PostSpilled, Goto
  <2>3. At("exec", c) = 0
    BY <1>8 DEF Kept, Phases, PostSpilled
  <2>4. Answer(c).type = "exec" /\ Answer(c).call = c
    BY DEF Answer
  <2>5. \A e \in spilled' : e.type = "exec" /\ At("exec", e.call)' = 0
    BY <1>b, <1>s, <2>1, <2>2, <2>3, <2>4
  <2>6. signs' \subseteq {"verified", "unknown", "skipped"}
    BY <1>8, <1>b DEF PostSpilled
  <2> QED BY <1>a, <1>b, <1>s, <2>1, <2>2, <2>5, <2>6
<1>9. ASSUME NEW p \in Paths, EditElsewhere(p) PROVE TypeOK' /\ Shape'
  <2>1. UNCHANGED <<log, spilled, signs, phase, done, reading, saw>> /\ faults' \in 0..MaxFaults
    BY <1>9, <1>f DEF EditElsewhere
  <2>2. content' \in [Paths -> Calls \cup {"", "another"}]
    BY <1>9, <1>b DEF EditElsewhere
  <2> QED BY <1>a, <1>b, <1>s, <2>1, <2>2
<1>10. CASE UNCHANGED vars
  <2>1. UNCHANGED <<log, spilled, signs, phase, content, done, reading, saw, faults>>
    BY <1>10 DEF vars
  <2> QED BY <1>a, <1>b, <1>s, <2>1
<1> QED
  BY <1>1, <1>2, <1>3, <1>4, <1>5, <1>6, <1>7, <1>8, <1>9, <1>10 DEF Next

LEMMA PhasesStep ==
  ASSUME Kept, [Next]_vars
  PROVE  Phases'
<1> DEFINE In(c) == phase[c] \in {"launched", "ended", "done"}
           Of(c) == \E e \in spilled : e.call = c
<1>0. phase \in [Calls -> {"idle", "declared", "acted", "launched", "ended", "done"}]
  BY TypesAre DEF Kept
<1>1. ASSUME NEW c \in Calls, Declare(c) PROVE Phases'
  <2>1. Puts("decl", c, [type |-> "decl", call |-> c])
    BY <1>1, DeclarePuts
  <2>2. /\ UNCHANGED <<spilled, done>> /\ phase[c] = "idle"
        /\ phase' = [phase EXCEPT ![c] = "declared"]
    BY <1>1 DEF Declare, Goto, Free
  <2>3. /\ \A x : x # c => At("decl", x)' = At("decl", x)
        /\ \A x : At("exec", x)' = At("exec", x) /\ At("join", x)' = At("join", x)
    BY <2>1 DEF Puts
  <2> QED BY <1>0, <2>2, <2>3 DEF Kept, Phases
<1>2. ASSUME NEW c \in Calls, Launch(c) \/ Post(c) PROVE Phases'
  <2>1. \E e : Puts("exec", c, e)
    BY <1>2, LaunchPuts, PostPuts
  <2>2. /\ UNCHANGED <<spilled, done>>
        /\ \/ phase[c] = "declared" /\ c \in Runs /\ phase' = [phase EXCEPT ![c] = "launched"]
           \/ phase[c] = "acted" /\ phase' = [phase EXCEPT ![c] = "done"]
    BY <1>2 DEF Launch, Post, Goto, Runs
  <2>3. /\ \A x : x # c => At("exec", x)' = At("exec", x)
        /\ \A x : At("decl", x)' = At("decl", x) /\ At("join", x)' = At("join", x)
    BY <2>1 DEF Puts
  <2> QED BY <1>0, <2>2, <2>3 DEF Kept, Phases
<1>3. ASSUME NEW c \in Calls, Join(c) PROVE Phases'
  <2>1. Puts("join", c, JoinedEntry(c))
    BY <1>3, JoinPuts
  <2>2. /\ UNCHANGED <<spilled, done>> /\ phase[c] = "ended"
        /\ phase' = [phase EXCEPT ![c] = "done"]
    BY <1>3 DEF Join, Goto
  <2>3. /\ \A x : x # c => At("join", x)' = At("join", x)
        /\ \A x : At("decl", x)' = At("decl", x) /\ At("exec", x)' = At("exec", x)
    BY <2>1 DEF Puts
  <2> QED BY <1>0, <2>2, <2>3 DEF Kept, Phases
<1>s. ASSUME log' = log PROVE \A t, x : At(t, x)' = At(t, x)
  BY <1>s, StandsStill DEF Stands
<1>4. ASSUME NEW c \in Calls, DeclareLost(c) PROVE Phases'
  BY <1>0, <1>4, <1>s DEF DeclareLost, Goto, Free, Kept, Phases
<1>5. ASSUME NEW c \in Calls, PostLost(c) PROVE Phases'
  BY <1>0, <1>5, <1>s DEF PostLost, Goto, Kept, Phases
<1>6. ASSUME NEW c \in Calls, WriteFile(c) PROVE Phases'
  <2>1. /\ UNCHANGED <<log, spilled>> /\ done' = done \cup {c} /\ c \notin Runs
        /\ phase[c] = "declared" /\ phase' = [phase EXCEPT ![c] = "acted"]
    BY <1>6 DEF WriteFile, Goto, Runs
  <2> QED BY <1>0, <1>s, <2>1 DEF Kept, Phases
<1>7. ASSUME NEW c \in Calls, RunGate(c) \/ EndLaunched(c) PROVE Phases'
  <2>1. /\ UNCHANGED <<log, spilled, done>> /\ c \in Runs
        /\ \/ phase[c] = "declared" /\ phase' = [phase EXCEPT ![c] = "acted"]
           \/ phase[c] = "launched" /\ phase' = [phase EXCEPT ![c] = "ended"]
    BY <1>7 DEF RunGate, EndLaunched, Goto, Runs, Kept, Phases
  <2> QED BY <1>0, <1>s, <2>1 DEF Kept, Phases
<1>8. ASSUME NEW c \in Calls, PostSpilled(c) PROVE Phases'
  <2>1. /\ UNCHANGED <<log, done>> /\ spilled' = spilled \cup {Answer(c)}
        /\ phase[c] = "acted" /\ phase' = [phase EXCEPT ![c] = "done"]
    BY <1>8 DEF PostSpilled, Goto
  <2>2. Answer(c).call = c
    BY DEF Answer
  <2> QED BY <1>0, <1>s, <2>1, <2>2 DEF Kept, Phases
<1>9. ASSUME UNCHANGED <<log, spilled, phase, done>> PROVE Phases'
  BY <1>9, <1>s DEF Kept, Phases
<1> QED
  BY <1>1, <1>2, <1>3, <1>4, <1>5, <1>6, <1>7, <1>8, <1>9 DEF Next, EditElsewhere, vars

-----------------------------------------------------------------------------
(* What the record tells of the runs.                                      *)

LEMMA ToldStays ==
  ASSUME NEW c, ToldOf(c), phase'[c] = phase[c], reading'[c] = reading[c],
         \A t \in {"exec", "join"} : /\ At(t, c)' = At(t, c)
                                     /\ At(t, c) # 0 => log'[At(t, c)] = log[At(t, c)]
  PROVE  ToldOf(c)'
BY DEF ToldOf

LEMMA ToldStep ==
  ASSUME Kept, Told, [Next]_vars
  PROVE  Told'
<1>0. /\ phase \in [Calls -> {"idle", "declared", "acted", "launched", "ended", "done"}]
      /\ DOMAIN reading = Runs
  BY TypesAre DEF Kept, Shape
<1>r. \A x \in Runs : x \in Calls
  BY DEF Runs
<1>a. ASSUME NEW c \in Calls,
             \A x \in Runs : x # c =>
               /\ phase'[x] = phase[x] /\ reading'[x] = reading[x]
               /\ \A t \in {"exec", "join"} :
                    /\ At(t, x)' = At(t, x)
                    /\ At(t, x) # 0 => log'[At(t, x)] = log[At(t, x)],
             c \in Runs => ToldOf(c)'
      PROVE  Told'
  BY <1>a, ToldStays DEF Told
<1>t. \A x \in Runs : ToldOf(x)
  BY DEF Told
<1>s. ASSUME log' = log PROVE \A t, x : At(t, x)' = At(t, x)
  BY <1>s, StandsStill DEF Stands
<1>b. ASSUME log' = log, NEW c \in Calls,
             \A x \in Runs : x # c => phase'[x] = phase[x] /\ reading'[x] = reading[x],
             c \in Runs => ToldOf(c)'
      PROVE  Told'
  BY <1>a, <1>b, <1>s
<1>1. ASSUME NEW c \in Calls, Declare(c) PROVE Told'
  <2>1. Puts("decl", c, [type |-> "decl", call |-> c])
    BY <1>1, DeclarePuts
  <2>2. phase' = [phase EXCEPT ![c] = "declared"] /\ reading' = reading /\ phase[c] = "idle"
    BY <1>1 DEF Declare, Goto, Free
  <2>3. \A t \in {"exec", "join"} : \A x : x # c =>
          At(t, x)' = At(t, x) /\ (At(t, x) # 0 => log'[At(t, x)] = log[At(t, x)])
    BY <2>1 DEF Puts
  <2>4. At("exec", c)' = 0 /\ At("join", c)' = 0
    <3>1. At("exec", c) = 0 /\ At("join", c) = 0
      BY <2>2 DEF Kept, Phases
    <3> QED BY <2>1, <3>1 DEF Puts
  <2>5. c \in Runs => ToldOf(c)'
    BY <1>0, <2>2, <2>4 DEF ToldOf
  <2> QED BY <1>0, <1>a, <1>r, <2>2, <2>3, <2>5
<1>2. ASSUME NEW c \in Calls, Launch(c) PROVE Told'
  <2>1. PICK r \in Readings[c] : /\ r.background /\ reading' = [reading EXCEPT ![c] = r]
                                 /\ Puts("exec", c, LaunchedEntry(c, r))
    BY <1>2, LaunchPuts
  <2>2. /\ phase' = [phase EXCEPT ![c] = "launched"] /\ phase[c] = "declared"
        /\ c \in Runs
    BY <1>2 DEF Launch, Goto, Runs
  <2>4. \A t \in {"exec", "join"} : \A x : x # c =>
          At(t, x)' = At(t, x) /\ (At(t, x) # 0 => log'[At(t, x)] = log[At(t, x)])
    BY <2>1 DEF Puts
  <2>5. At("join", c)' = 0
    <3>1. At("join", c) = 0
      BY <2>2 DEF Kept, Phases
    <3> QED BY <2>1, <3>1 DEF Puts
  <2>6. log'[At("exec", c)'].end = Launched(r)
    BY <2>1 DEF Puts, LaunchedEntry
  <2>7. reading'[c] = r
    BY <1>0, <2>1, <2>2
  <2>8. ToldOf(c)'
    BY <1>0, <2>1, <2>2, <2>5, <2>6, <2>7 DEF ToldOf
  <2> QED BY <1>0, <1>a, <1>r, <2>1, <2>2, <2>4, <2>8
<1>3. ASSUME NEW c \in Calls, Join(c) PROVE Told'
  <2>1. Puts("join", c, JoinedEntry(c))
    BY <1>3, JoinPuts
  <2>2. phase' = [phase EXCEPT ![c] = "done"] /\ reading' = reading /\ phase[c] = "ended"
    BY <1>3 DEF Join, Goto
  <2>3. \A t \in {"exec", "join"} : \A x : x # c =>
          At(t, x)' = At(t, x) /\ (At(t, x) # 0 => log'[At(t, x)] = log[At(t, x)])
    BY <2>1 DEF Puts
  <2>4. /\ At("exec", c)' = At("exec", c)
        /\ At("exec", c) # 0 => log'[At("exec", c)] = log[At("exec", c)]
    BY <2>1 DEF Puts
  <2>5. log'[At("join", c)'].outcome = Joined(reading[c])
    BY <2>1 DEF Puts, JoinedEntry
  <2>6. ASSUME c \in Runs PROVE ToldOf(c)'
    BY <1>0, <1>t, <2>2, <2>4, <2>5, <2>6 DEF ToldOf
  <2> QED BY <1>0, <1>a, <1>r, <2>2, <2>3, <2>6
<1>4. ASSUME NEW c \in Calls, Post(c) PROVE Told'
  <2>1. Puts("exec", c, Answer(c))
    BY <1>4, PostPuts
  <2>2. phase' = [phase EXCEPT ![c] = "done"] /\ reading' = reading /\ phase[c] = "acted"
    BY <1>4 DEF Post, Goto
  <2>3. \A t \in {"exec", "join"} : \A x : x # c =>
          At(t, x)' = At(t, x) /\ (At(t, x) # 0 => log'[At(t, x)] = log[At(t, x)])
    BY <2>1 DEF Puts
  <2>4. At("join", c)' = 0
    <3>1. At("join", c) = 0
      BY <2>2 DEF Kept, Phases
    <3> QED BY <2>1, <3>1 DEF Puts
  <2>5. ASSUME c \in Runs PROVE ToldOf(c)'
    <3>1. log'[At("exec", c)'].end = reading[c]
      BY <2>1, <2>5 DEF Puts, Answer, Runs
    <3> QED BY <1>0, <1>t, <2>2, <2>4, <2>5, <3>1 DEF ToldOf
  <2> QED BY <1>0, <1>a, <1>r, <2>2, <2>3, <2>5
<1>5. ASSUME NEW c \in Calls, DeclareLost(c) \/ PostLost(c) \/ PostSpilled(c) PROVE Told'
  <2>1. /\ log' = log /\ reading' = reading
        /\ \/ phase[c] = "idle" /\ phase' = [phase EXCEPT ![c] = "declared"]
           \/ phase[c] = "acted" /\ phase' = [phase EXCEPT ![c] = "done"]
    BY <1>5 DEF DeclareLost, PostLost, PostSpilled, Goto, Free
  <2>2. ASSUME c \in Runs PROVE ToldOf(c)'
    BY <1>0, <1>s, <1>t, <2>1, <2>2 DEF ToldOf
  <2> QED BY <1>0, <1>b, <1>r, <2>1, <2>2
<1>6. ASSUME NEW c \in Calls, WriteFile(c) PROVE Told'
  <2>1. /\ log' = log /\ reading' = reading /\ c \notin Runs
        /\ phase' = [phase EXCEPT ![c] = "acted"]
    BY <1>6 DEF WriteFile, Goto, Runs
  <2> QED BY <1>0, <1>b, <1>r, <2>1
<1>7. ASSUME NEW c \in Calls, RunGate(c) PROVE Told'
  <2>1. /\ log' = log /\ c \in Runs /\ phase[c] = "declared"
        /\ phase' = [phase EXCEPT ![c] = "acted"]
    BY <1>7 DEF RunGate, Goto, Runs
  <2>2. PICK r \in Readings[c] : ~r.background /\ reading' = [reading EXCEPT ![c] = r]
    BY <1>7 DEF RunGate
  <2>3. At("exec", c) = 0 /\ At("join", c) = 0
    BY <2>1 DEF Kept, Phases
  <2>4. ToldOf(c)'
    BY <1>0, <1>s, <2>1, <2>2, <2>3 DEF ToldOf
  <2> QED BY <1>0, <1>b, <1>r, <2>1, <2>2, <2>4
<1>8. ASSUME NEW c \in Calls, EndLaunched(c) PROVE Told'
  <2>1. /\ log' = log /\ reading' = reading /\ phase[c] = "launched"
        /\ phase' = [phase EXCEPT ![c] = "ended"]
    BY <1>8 DEF EndLaunched, Goto
  <2>2. ASSUME c \in Runs PROVE ToldOf(c)'
    BY <1>0, <1>s, <1>t, <2>1, <2>2 DEF ToldOf
  <2> QED BY <1>0, <1>b, <1>r, <2>1, <2>2
<1>9. ASSUME UNCHANGED <<log, phase, reading>> PROVE Told'
  BY <1>9, <1>s DEF Told, ToldOf
<1> QED
  BY <1>1, <1>2, <1>3, <1>4, <1>5, <1>6, <1>7, <1>8, <1>9 DEF Next, EditElsewhere, vars

-----------------------------------------------------------------------------
(* What the runs saw.                                                      *)

SawEarlier(r, w) ==
  HasRead(r) /\ At("exec", w) # 0 /\ At("exec", w) < At("decl", r) => w \in saw[r].writes

LEMMA SeenBeforeStep ==
  ASSUME Kept, SeenBefore, [Next]_vars
  PROVE  SeenBefore'
<1>0. /\ phase \in [Calls -> {"idle", "declared", "acted", "launched", "ended", "done"}]
      /\ DOMAIN saw = Runs
  BY TypesAre DEF Kept, Shape
<1>r. \A x \in Runs : x \in Calls
  BY DEF Runs
<1>t. \A r \in Runs, w \in Calls \ Runs : SawEarlier(r, w)
  BY DEF SeenBefore, SawEarlier
<1>n. \A t, x : At(t, x) \in Nat
  BY PlaceFacts DEF Kept, Shape
<1> SUFFICES ASSUME NEW r \in Runs, NEW w \in Calls \ Runs PROVE SawEarlier(r, w)'
  BY DEF SeenBefore, SawEarlier
<1>u. SawEarlier(r, w)
  BY <1>t
<1>s. ASSUME log' = log PROVE \A t, x : At(t, x)' = At(t, x)
  BY <1>s, StandsStill DEF Stands
<1>1. ASSUME NEW c \in Calls, Declare(c) PROVE SawEarlier(r, w)'
  <2>1. Puts("decl", c, [type |-> "decl", call |-> c])
    BY <1>1, DeclarePuts
  <2>2. phase' = [phase EXCEPT ![c] = "declared"] /\ saw' = saw
    BY <1>1 DEF Declare, Goto
  <2>3. At("exec", w)' = At("exec", w) /\ (r # c => At("decl", r)' = At("decl", r))
    BY <2>1 DEF Puts
  <2> QED BY <1>0, <1>r, <1>u, <2>2, <2>3 DEF SawEarlier, HasRead
<1>2. ASSUME NEW c \in Calls, Launch(c) \/ Post(c) PROVE SawEarlier(r, w)'
  <2>1. \E e : Puts("exec", c, e)
    BY <1>2, LaunchPuts, PostPuts
  <2>2. /\ saw' = saw
        /\ \/ phase' = [phase EXCEPT ![c] = "launched"]
           \/ phase[c] = "acted" /\ phase' = [phase EXCEPT ![c] = "done"]
    BY <1>2 DEF Launch, Post, Goto
  <2>3. /\ w # c => At("exec", w)' = At("exec", w)
        /\ At("exec", c)' = Len(log) + 1 /\ Len(log) \in Nat
        /\ At("decl", r)' = At("decl", r) /\ At("decl", r) \in Nat /\ At("decl", r) <= Len(log)
    BY <2>1 DEF Puts
  <2>4. HasRead(r)' => HasRead(r)
    BY <1>0, <1>r, <2>2 DEF HasRead
  <2>5. CASE w = c
    BY <2>3, <2>5 DEF SawEarlier
  <2>6. CASE w # c
    BY <1>u, <2>2, <2>3, <2>4, <2>6 DEF SawEarlier
  <2> QED BY <2>5, <2>6
<1>3. ASSUME NEW c \in Calls, Join(c) PROVE SawEarlier(r, w)'
  <2>1. Puts("join", c, JoinedEntry(c))
    BY <1>3, JoinPuts
  <2>2. saw' = saw /\ phase[c] = "ended" /\ phase' = [phase EXCEPT ![c] = "done"]
    BY <1>3 DEF Join, Goto
  <2>3. At("exec", w)' = At("exec", w) /\ At("decl", r)' = At("decl", r)
    BY <2>1 DEF Puts
  <2> QED BY <1>0, <1>r, <1>u, <2>2, <2>3 DEF SawEarlier, HasRead
<1>4. ASSUME NEW c \in Calls, RunGate(c) \/ EndLaunched(c) PROVE SawEarlier(r, w)'
  <2>1. /\ log' = log /\ phase' = [phase EXCEPT ![c] = phase'[c]]
        /\ saw' = [saw EXCEPT ![c] = [writes |-> done, content |-> content]]
    BY <1>0, <1>4 DEF RunGate, EndLaunched, Sees, Goto
  <2>2. CASE r = c
    <3>1. At("exec", w) # 0 => w \in done
      BY DEF Kept, Phases
    <3>2. saw'[r].writes = done
      BY <1>0, <2>1, <2>2
    <3> QED BY <1>s, <2>1, <3>1, <3>2 DEF SawEarlier
  <2>3. CASE r # c
    <3>1. phase'[r] = phase[r] /\ saw'[r] = saw[r]
      BY <1>0, <1>r, <2>1, <2>3
    <3> QED BY <1>s, <1>u, <2>1, <3>1 DEF SawEarlier, HasRead
  <2> QED BY <2>2, <2>3
<1>5. ASSUME NEW c \in Calls,
             DeclareLost(c) \/ WriteFile(c) \/ PostSpilled(c) \/ PostLost(c)
      PROVE  SawEarlier(r, w)'
  <2>1. /\ log' = log /\ saw' = saw
        /\ \/ phase' = [phase EXCEPT ![c] = "declared"]
           \/ c \notin Runs /\ phase' = [phase EXCEPT ![c] = "acted"]
           \/ phase[c] = "acted" /\ phase' = [phase EXCEPT ![c] = "done"]
    BY <1>5 DEF DeclareLost, WriteFile, PostSpilled, PostLost, Goto, Runs
  <2>2. HasRead(r)' => HasRead(r)
    BY <1>0, <1>r, <2>1 DEF HasRead
  <2> QED BY <1>s, <1>u, <2>1, <2>2 DEF SawEarlier
<1>6. ASSUME UNCHANGED <<log, phase, saw>> PROVE SawEarlier(r, w)'
  BY <1>6, <1>s, <1>u DEF SawEarlier, HasRead
<1> QED
  BY <1>1, <1>2, <1>3, <1>4, <1>5, <1>6 DEF Next, EditElsewhere, vars

SawNoLater(r, w) ==
  w \in saw[r].writes =>
    (At("exec", r) # 0 /\ ~reading[r].background => At("decl", w) < At("exec", r))

LEMMA SeenAfterStep ==
  ASSUME Kept, Told, SeenAfter, [Next]_vars
  PROVE  SeenAfter'
<1>0. /\ phase \in [Calls -> {"idle", "declared", "acted", "launched", "ended", "done"}]
      /\ DOMAIN saw = Runs /\ DOMAIN reading = Runs
      /\ \A r \in Runs : saw[r].writes \subseteq done
  BY TypesAre DEF Kept, Shape
<1>r. \A x \in Runs : x \in Calls
  BY DEF Runs
<1>t. \A r \in Runs : \A w : SawNoLater(r, w)
  BY DEF SeenAfter, SawNoLater
<1>n. \A t, x : At(t, x) \in Nat
  BY PlaceFacts DEF Kept, Shape
<1> SUFFICES ASSUME NEW r \in Runs, NEW w PROVE SawNoLater(r, w)'
  BY DEF SeenAfter, SawNoLater
<1>u. SawNoLater(r, w)
  BY <1>t
<1>s. ASSUME log' = log PROVE \A t, x : At(t, x)' = At(t, x)
  BY <1>s, StandsStill DEF Stands
<1>1. ASSUME NEW c \in Calls, Declare(c) PROVE SawNoLater(r, w)'
  <2>1. Puts("decl", c, [type |-> "decl", call |-> c])
    BY <1>1, DeclarePuts
  <2>2. saw' = saw /\ reading' = reading /\ phase[c] = "idle"
    BY <1>1 DEF Declare, Free
  <2>3. At("exec", r)' = At("exec", r) /\ (w # c => At("decl", w)' = At("decl", w))
    BY <2>1 DEF Puts
  <2>4. c \notin saw[r].writes
    BY <1>0, <2>2 DEF Kept, Phases
  <2> QED BY <1>u, <2>2, <2>3, <2>4 DEF SawNoLater
<1>2. ASSUME NEW c \in Calls, Launch(c) PROVE SawNoLater(r, w)'
  <2>1. \E e : Puts("exec", c, e)
    BY <1>2, LaunchPuts
  <2>2. saw' = saw /\ \E x \in Readings[c] : x.background /\ reading' = [reading EXCEPT ![c] = x]
    BY <1>2 DEF Launch
  <2>3. At("decl", w)' = At("decl", w) /\ (r # c => At("exec", r)' = At("exec", r))
    BY <2>1 DEF Puts
  <2>4. CASE r = c
    BY <1>0, <2>2, <2>4 DEF SawNoLater
  <2>5. CASE r # c
    BY <1>0, <1>u, <2>2, <2>3, <2>5 DEF SawNoLater
  <2> QED BY <2>4, <2>5
<1>3. ASSUME NEW c \in Calls, Post(c) PROVE SawNoLater(r, w)'
  <2>1. Puts("exec", c, Answer(c))
    BY <1>3, PostPuts
  <2>2. saw' = saw /\ reading' = reading
    BY <1>3 DEF Post
  <2>3. /\ At("decl", w)' = At("decl", w) /\ (r # c => At("exec", r)' = At("exec", r))
        /\ At("exec", c)' = Len(log) + 1 /\ Len(log) \in Nat
        /\ At("decl", w) \in Nat /\ At("decl", w) <= Len(log)
    BY <2>1 DEF Puts
  <2>4. CASE r = c
    BY <2>3, <2>4 DEF SawNoLater
  <2>5. CASE r # c
    BY <1>u, <2>2, <2>3, <2>5 DEF SawNoLater
  <2> QED BY <2>4, <2>5
<1>4. ASSUME NEW c \in Calls, Join(c) PROVE SawNoLater(r, w)'
  <2>1. Puts("join", c, JoinedEntry(c))
    BY <1>4, JoinPuts
  <2>2. saw' = saw /\ reading' = reading
    BY <1>4 DEF Join
  <2>3. At("decl", w)' = At("decl", w) /\ At("exec", r)' = At("exec", r)
    BY <2>1 DEF Puts
  <2> QED BY <1>u, <2>2, <2>3 DEF SawNoLater
<1>5. ASSUME NEW c \in Calls, RunGate(c) \/ EndLaunched(c) PROVE SawNoLater(r, w)'
  <2>1. /\ log' = log /\ saw' = [saw EXCEPT ![c] = [writes |-> done, content |-> content]]
        /\ reading' = reading \/ \E x \in Readings[c] : reading' = [reading EXCEPT ![c] = x]
    BY <1>5 DEF RunGate, EndLaunched, Sees
  <2>2. CASE r = c
    <3>1. CASE RunGate(c)
      <4>1. At("exec", c) = 0
        BY <3>1 DEF RunGate, Kept, Phases
      <4> QED BY <1>s, <2>1, <2>2, <4>1 DEF SawNoLater
    <3>2. CASE EndLaunched(c)
      <4>1. reading' = reading /\ ToldOf(c) /\ phase[c] = "launched"
        BY <2>2, <3>2 DEF EndLaunched, Told
      <4>2. reading'[r].background
        BY <2>2, <4>1 DEF ToldOf
      <4> QED BY <4>2 DEF SawNoLater
    <3> QED BY <1>5, <3>1, <3>2
  <2>3. CASE r # c
    <3>1. reading'[r] = reading[r] /\ saw'[r] = saw[r]
      BY <1>0, <2>1, <2>3
    <3> QED BY <1>s, <1>u, <2>1, <3>1 DEF SawNoLater
  <2> QED BY <2>2, <2>3
<1>6. ASSUME UNCHANGED <<log, saw, reading>> PROVE SawNoLater(r, w)'
  BY <1>6, <1>s, <1>u DEF SawNoLater
<1> QED
  BY <1>1, <1>2, <1>3, <1>4, <1>5, <1>6
     DEF Next, DeclareLost, WriteFile, PostSpilled, PostLost, EditElsewhere, vars

-----------------------------------------------------------------------------
(* What the files hold.                                                    *)

FreshSha(w) ==
  At("exec", w) # 0 /\ CallKind[w] = "tool" =>
    log[At("exec", w)].sha \in done \cup {"", "another"}

LEMMA FreshStep ==
  ASSUME Kept, Fresh, [Next]_vars
  PROVE  Fresh'
<1>0. content \in [Paths -> Calls \cup {"", "another"}]
  BY TypesAre DEF Kept
<1>t. /\ \A p \in Paths : content[p] \in done \cup {"", "another"}
      /\ \A w \in Calls \ Runs : FreshSha(w)
  BY DEF Fresh, FreshSha
<1>a. ASSUME \A p \in Paths : content'[p] \in done' \cup {"", "another"},
             \A w \in Calls \ Runs : FreshSha(w)'
      PROVE  Fresh'
  BY <1>a DEF Fresh, FreshSha
<1>s. ASSUME log' = log PROVE \A t, x : At(t, x)' = At(t, x)
  BY <1>s, StandsStill DEF Stands
<1>b. ASSUME log' = log, done \subseteq done' PROVE \A w \in Calls \ Runs : FreshSha(w)'
  BY <1>b, <1>s, <1>t DEF FreshSha
<1>1. ASSUME NEW c \in Calls, Declare(c) \/ Join(c) PROVE Fresh'
  <2>1. Puts("decl", c, [type |-> "decl", call |-> c]) \/ Puts("join", c, JoinedEntry(c))
    BY <1>1, DeclarePuts, JoinPuts
  <2>2. content' = content /\ done' = done
    BY <1>1 DEF Declare, Join
  <2>3. \A w : /\ At("exec", w)' = At("exec", w)
               /\ At("exec", w) # 0 => log'[At("exec", w)] = log[At("exec", w)]
    BY <2>1 DEF Puts
  <2> QED BY <1>a, <1>t, <2>2, <2>3 DEF FreshSha
<1>2. ASSUME NEW c \in Calls, Launch(c) \/ Post(c) PROVE Fresh'
  <2>1. \E e : Puts("exec", c, e)
    BY <1>2, LaunchPuts, PostPuts
  <2>2. content' = content /\ done' = done
    BY <1>2 DEF Launch, Post
  <2>3. \A w : w # c => /\ At("exec", w)' = At("exec", w)
                        /\ At("exec", w) # 0 => log'[At("exec", w)] = log[At("exec", w)]
    BY <2>1 DEF Puts
  <2>4. ASSUME c \notin Runs PROVE FreshSha(c)'
    <3>1. Puts("exec", c, Answer(c))
      BY <1>2, <2>4, PostPuts DEF Launch, Runs
    <3>2. CallKind[c] = "tool" => log'[At("exec", c)'].sha = content[Path[c]] /\ Path[c] \in Paths
      <4>1. CallKind[c] = "tool" => c \in Named
        BY DEF Named
      <4>2. c \in Named => Path[c] \in Paths
        BY GatesAssumption
      <4> QED BY <3>1, <4>1, <4>2 DEF Puts, Answer
    <3> QED BY <1>t, <2>2, <3>2 DEF FreshSha
  <2>5. \A w \in Calls \ Runs : FreshSha(w)'
    BY <1>t, <2>2, <2>3, <2>4 DEF FreshSha
  <2> QED BY <1>a, <1>t, <2>2, <2>5
<1>3. ASSUME NEW c \in Calls, WriteFile(c) PROVE Fresh'
  <2>1. log' = log /\ done' = done \cup {c}
    BY <1>3 DEF WriteFile
  <2>2. PICK p \in Paths : content' = [content EXCEPT ![p] = c]
    BY <1>3 DEF WriteFile
  <2>3. \A q \in Paths : content'[q] = c \/ content'[q] = content[q]
    BY <1>0, <2>2
  <2> QED BY <1>a, <1>b, <1>t, <2>1, <2>3
<1>4. ASSUME NEW p \in Paths, EditElsewhere(p) PROVE Fresh'
  <2>1. log' = log /\ done' = done /\ content' = [content EXCEPT ![p] = "another"]
    BY <1>4 DEF EditElsewhere
  <2>2. \A q \in Paths : content'[q] = "another" \/ content'[q] = content[q]
    BY <1>0, <2>1
  <2> QED BY <1>a, <1>b, <1>t, <2>1, <2>2
<1>5. ASSUME UNCHANGED <<log, content, done>> PROVE Fresh'
  BY <1>5, <1>a, <1>b, <1>t
<1> QED
  BY <1>1, <1>2, <1>3, <1>4, <1>5
     DEF Next, DeclareLost, RunGate, EndLaunched, PostSpilled, PostLost, vars

SawUnmoved(r, w) ==
  /\ HasRead(r) /\ CallKind[w] = "tool"
  /\ At("exec", w) # 0 /\ At("exec", w) < At("decl", r)
  /\ log[At("exec", w)].sha # "another"
  /\ log[At("exec", w)].sha = content[Path[w]]
  => saw[r].content[Path[w]] = content[Path[w]]

LEMMA UnmovedStep ==
  ASSUME Kept, Fresh, Unmoved, [Next]_vars
  PROVE  Unmoved'
<1>0. /\ phase \in [Calls -> {"idle", "declared", "acted", "launched", "ended", "done"}]
      /\ DOMAIN saw = Runs
      /\ content \in [Paths -> Calls \cup {"", "another"}]
  BY TypesAre DEF Kept, Shape
<1>r. \A x \in Runs : x \in Calls
  BY DEF Runs
<1>t. \A r \in Runs, w \in Calls : SawUnmoved(r, w)
  BY DEF Unmoved, SawUnmoved
<1> SUFFICES ASSUME NEW r \in Runs, NEW w \in Calls, CallKind[w] = "tool"
             PROVE  SawUnmoved(r, w)'
  BY DEF Unmoved, SawUnmoved
<1>u. SawUnmoved(r, w)
  BY <1>t
<1>w. w \notin Runs /\ Path[w] \in Paths
  <2>1. w \in Named /\ w \notin Runs
    BY DEF Named, Runs
  <2> QED BY <2>1, GatesAssumption
<1>s. ASSUME log' = log PROVE \A t, x : At(t, x)' = At(t, x)
  BY <1>s, StandsStill DEF Stands
<1>1. ASSUME NEW c \in Calls, Declare(c) PROVE SawUnmoved(r, w)'
  <2>1. Puts("decl", c, [type |-> "decl", call |-> c])
    BY <1>1, DeclarePuts
  <2>2. phase' = [phase EXCEPT ![c] = "declared"] /\ saw' = saw /\ content' = content
    BY <1>1 DEF Declare, Goto
  <2>3. /\ At("exec", w)' = At("exec", w) /\ (r # c => At("decl", r)' = At("decl", r))
        /\ At("exec", w) # 0 => log'[At("exec", w)] = log[At("exec", w)]
    BY <2>1 DEF Puts
  <2>4. CASE r = c
    BY <1>0, <1>r, <2>2, <2>4 DEF SawUnmoved, HasRead
  <2>5. CASE r # c
    <3>1. HasRead(r)' <=> HasRead(r)
      BY <1>0, <1>r, <2>2, <2>5 DEF HasRead
    <3> QED BY <1>u, <2>2, <2>3, <2>5, <3>1 DEF SawUnmoved
  <2> QED BY <2>4, <2>5
<1>2. ASSUME NEW c \in Calls, Launch(c) \/ Post(c) PROVE SawUnmoved(r, w)'
  <2>1. \E e : Puts("exec", c, e)
    BY <1>2, LaunchPuts, PostPuts
  <2>2. /\ saw' = saw /\ content' = content
        /\ \/ phase' = [phase EXCEPT ![c] = "launched"]
           \/ phase[c] = "acted" /\ phase' = [phase EXCEPT ![c] = "done"]
    BY <1>2 DEF Launch, Post, Goto
  <2>3. /\ w # c => /\ At("exec", w)' = At("exec", w)
                    /\ At("exec", w) # 0 => log'[At("exec", w)] = log[At("exec", w)]
        /\ At("exec", c)' = Len(log) + 1 /\ Len(log) \in Nat
        /\ At("decl", r)' = At("decl", r) /\ At("decl", r) \in Nat /\ At("decl", r) <= Len(log)
    BY <2>1 DEF Puts
  <2>4. HasRead(r)' => HasRead(r)
    BY <1>0, <1>r, <2>2 DEF HasRead
  <2>5. CASE w = c
    BY <2>3, <2>5 DEF SawUnmoved
  <2>6. CASE w # c
    BY <1>u, <2>2, <2>3, <2>4, <2>6 DEF SawUnmoved
  <2> QED BY <2>5, <2>6
<1>3. ASSUME NEW c \in Calls, Join(c) PROVE SawUnmoved(r, w)'
  <2>1. Puts("join", c, JoinedEntry(c))
    BY <1>3, JoinPuts
  <2>2. /\ saw' = saw /\ content' = content
        /\ phase[c] = "ended" /\ phase' = [phase EXCEPT ![c] = "done"]
    BY <1>3 DEF Join, Goto
  <2>3. /\ At("exec", w)' = At("exec", w) /\ At("decl", r)' = At("decl", r)
        /\ At("exec", w) # 0 => log'[At("exec", w)] = log[At("exec", w)]
    BY <2>1 DEF Puts
  <2>4. HasRead(r)' => HasRead(r)
    BY <1>0, <1>r, <2>2 DEF HasRead
  <2> QED BY <1>u, <2>2, <2>3, <2>4 DEF SawUnmoved
<1>4. ASSUME NEW c \in Calls, RunGate(c) \/ EndLaunched(c) PROVE SawUnmoved(r, w)'
  <2>1. /\ log' = log /\ content' = content /\ phase' = [phase EXCEPT ![c] = phase'[c]]
        /\ saw' = [saw EXCEPT ![c] = [writes |-> done, content |-> content]]
    BY <1>0, <1>4 DEF RunGate, EndLaunched, Sees, Goto
  <2>2. CASE r = c
    <3>1. saw'[r].content = content
      BY <1>0, <2>1, <2>2
    <3> QED BY <2>1, <3>1 DEF SawUnmoved
  <2>3. CASE r # c
    <3>1. phase'[r] = phase[r] /\ saw'[r] = saw[r]
      BY <1>0, <1>r, <2>1, <2>3
    <3> QED BY <1>s, <1>u, <2>1, <3>1 DEF SawUnmoved, HasRead
  <2> QED BY <2>2, <2>3
<1>5. ASSUME NEW c \in Calls, WriteFile(c) PROVE SawUnmoved(r, w)'
  <2>1. /\ log' = log /\ saw' = saw /\ c \notin Runs
        /\ phase' = [phase EXCEPT ![c] = "acted"]
    BY <1>5 DEF WriteFile, Goto, Runs
  <2>2. PICK p \in Paths : content' = [content EXCEPT ![p] = c]
    BY <1>5 DEF WriteFile
  <2>3. HasRead(r)' => HasRead(r)
    BY <1>0, <1>r, <2>1 DEF HasRead
  <2>4. CASE p = Path[w]
    <3>1. content'[Path[w]] = c
      BY <1>0, <1>w, <2>2, <2>4
    <3>2. At("exec", w) # 0 => log[At("exec", w)].sha # c
      <4>1. c \notin done
        BY <1>5 DEF WriteFile, Kept, Phases
      <4>2. c \notin {"", "another"}
        BY GatesAssumption
      <4> QED BY <1>w, <4>1, <4>2 DEF Fresh
    <3> QED BY <1>s, <2>1, <3>1, <3>2 DEF SawUnmoved
  <2>5. CASE p # Path[w]
    <3>1. content'[Path[w]] = content[Path[w]]
      BY <1>0, <1>w, <2>2, <2>5
    <3> QED BY <1>s, <1>u, <2>1, <2>3, <3>1 DEF SawUnmoved
  <2> QED BY <2>4, <2>5
<1>6. ASSUME NEW p \in Paths, EditElsewhere(p) PROVE SawUnmoved(r, w)'
  <2>1. /\ log' = log /\ saw' = saw /\ phase' = phase
        /\ content' = [content EXCEPT ![p] = "another"]
    BY <1>6 DEF EditElsewhere
  <2>2. content'[Path[w]] = "another" \/ content'[Path[w]] = content[Path[w]]
    BY <1>0, <1>w, <2>1
  <2> QED BY <1>s, <1>u, <2>1, <2>2 DEF SawUnmoved, HasRead
<1>7. ASSUME NEW c \in Calls, DeclareLost(c) \/ PostSpilled(c) \/ PostLost(c)
      PROVE  SawUnmoved(r, w)'
  <2>1. /\ log' = log /\ saw' = saw /\ content' = content
        /\ \/ phase' = [phase EXCEPT ![c] = "declared"]
           \/ phase[c] = "acted" /\ phase' = [phase EXCEPT ![c] = "done"]
    BY <1>7 DEF DeclareLost, PostSpilled, PostLost, Goto
  <2>2. HasRead(r)' => HasRead(r)
    BY <1>0, <1>r, <2>1 DEF HasRead
  <2> QED BY <1>s, <1>u, <2>1, <2>2 DEF SawUnmoved
<1>8. ASSUME UNCHANGED <<log, phase, saw, content>> PROVE SawUnmoved(r, w)'
  BY <1>8, <1>s, <1>u DEF SawUnmoved, HasRead
<1> QED
  BY <1>1, <1>2, <1>3, <1>4, <1>5, <1>6, <1>7, <1>8 DEF Next, vars

-----------------------------------------------------------------------------
LEMMA GatesInit == Init => GatesInv
<1> SUFFICES ASSUME Init PROVE GatesInv
  OBVIOUS
<1>1. Logged /\ DOMAIN log = {} /\ Len(log) = 0 /\ spilled = {}
  <2>1. log = <<>> /\ spilled = {}
    BY DEF Init
  <2>2. \A S : <<>> \in Seq(S)
    OBVIOUS
  <2>3. DOMAIN log = {} /\ Len(log) = 0
    BY <2>1
  <2> QED BY <2>1, <2>2, <2>3 DEF Logged
<1>2. \A t, x : At(t, x) = 0
  <2>1. \A t, x : At(t, x) \in 0..Len(log)
    BY <1>1, PlaceFacts
  <2> QED BY <1>1, <2>1
<1>3. /\ \A c \in Calls : phase[c] = "idle"
      /\ \A p \in Paths : content[p] = ""
      /\ done = {} /\ faults = 0 /\ MaxFaults \in Nat
      /\ \A r \in Runs : saw[r].writes = {} /\ reading[r] = Unread
      /\ DOMAIN reading = Runs /\ DOMAIN saw = Runs /\ DOMAIN content = Paths
  BY GatesAssumption DEF Init, NotRun
<1>r. \A x \in Runs : x \in Calls
  BY DEF Runs
<1>4. TypeOK
  <2>1. Entries
    BY <1>1 DEF Entries
  <2>2. phase \in [Calls -> {"idle", "declared", "acted", "launched", "ended", "done"}]
    BY DEF Init
  <2>3. content \in [Paths -> Calls \cup {"", "another"}]
    BY DEF Init
  <2>4. /\ done \subseteq Calls /\ faults \in 0..MaxFaults
        /\ signs \subseteq {"verified", "unknown", "skipped"}
    <3>1. \A n \in Nat : 0 \in 0..n
      OBVIOUS
    <3>2. signs = {}
      BY DEF Init
    <3> QED BY <1>3, <3>1, <3>2
  <2>5. \A e \in spilled : e.type = "exec" /\ At("exec", e.call) = 0
    BY <1>1
  <2>6. \A r \in Runs : reading[r] \in Readings[r] \cup {Unread} /\ saw[r].writes \subseteq done
    BY <1>3
  <2> QED BY <2>1, <2>2, <2>3, <2>4, <2>5, <2>6, TypesAre
<1>5. Phases
  BY <1>1, <1>2, <1>3 DEF Phases
<1>6. Told
  BY <1>2, <1>3, <1>r DEF Told, ToldOf
<1>7. SeenBefore /\ SeenAfter
  BY <1>2, <1>3 DEF SeenBefore, SeenAfter
<1>8. Fresh
  BY <1>2, <1>3 DEF Fresh
<1>9. Unmoved
  BY <1>2 DEF Unmoved
<1> QED BY <1>1, <1>3, <1>4, <1>5, <1>6, <1>7, <1>8, <1>9 DEF GatesInv, Shape

LEMMA GatesStep == GatesInv /\ [Next]_vars => GatesInv'
BY TypesStep, PhasesStep, ToldStep, SeenBeforeStep, SeenAfterStep, FreshStep, UnmovedStep
   DEF GatesInv, Kept

\* Every variable keeps its type, and no call has two entries of one type in
\* order, or an execution both in order and without a seq (LandExecution).
THEOREM TypeCorrect == Spec => []TypeOK
<1>1. GatesInv => TypeOK
  BY DEF GatesInv
<1> QED BY <1>1, GatesInit, GatesStep, PTL DEF Spec

-----------------------------------------------------------------------------
(* What a record says.                                                     *)

\* A set of naturals has a least one, and a greatest one if it has a bound.
LEMMA MinFound ==
  ASSUME NEW S \in SUBSET Nat, S # {}
  PROVE  Min(S) \in S /\ \A y \in S : Min(S) <= y
<1>1. \E m \in S : \A b \in S : ~(<<b, m>> \in OpToRel(<, Nat))
  <2>1. \E b : b \in S
    OBVIOUS
  <2> QED BY <2>1, NatLessThanWellFounded, WFMin
<1>2. PICK m \in S : \A b \in S : <<b, m>> \notin OpToRel(<, Nat)
  BY <1>1
<1>3. \A b \in S : ~(b < m)
  BY <1>2, Zenon DEF OpToRel
<1>4. \A b \in S : m <= b
  BY <1>3
<1> QED BY <1>4 DEF Min

LEMMA MaxFound ==
  ASSUME NEW n \in Nat, NEW S \in SUBSET (0..n), S # {}
  PROVE  Max(S) \in S /\ \A y \in S : y <= Max(S)
<1> DEFINE Above == {b \in Nat : \A y \in S : y <= b}
<1>1. Above \in SUBSET Nat /\ n \in Above
  OBVIOUS
<1>2. Min(Above) \in Above /\ \A b \in Above : Min(Above) <= b
  BY <1>1, MinFound
<1>3. PICK m : m = Min(Above)
  OBVIOUS
<1>4. m \in Nat /\ \A y \in S : y \in Nat /\ y <= m
  BY <1>2, <1>3
<1>5. m \in S
  <2> SUFFICES ASSUME m \notin S PROVE FALSE
    OBVIOUS
  <2>1. \A y \in S : y <= m - 1
    BY <1>4
  <2>2. m - 1 \in Nat
    <3>1. PICK y \in S : TRUE
      OBVIOUS
    <3> QED BY <1>4, <2>1, <3>1
  <2>3. m - 1 \in Above
    BY <2>1, <2>2
  <2>4. m <= m - 1
    BY <1>2, <1>3, <2>3
  <2> QED BY <1>4, <2>4
<1> QED BY <1>4, <1>5 DEF Max

\* Of a set of runs with places in the record there is a latest, and a first.
LEMMA LatestFound ==
  ASSUME NEW S, S # {}, NEW n \in Nat, \A r \in S : r.seq \in 0..n
  PROVE  Latest(S) \in S /\ \A r \in S : r.seq <= Latest(S).seq
<1> DEFINE Seqs == {r.seq : r \in S}
<1>1. Seqs \in SUBSET (0..n) /\ Seqs # {}
  OBVIOUS
<1>2. Max(Seqs) \in Seqs /\ \A y \in Seqs : y <= Max(Seqs)
  BY <1>1, MaxFound
<1>3. \E r \in S : \A s \in S : s.seq <= r.seq
  BY <1>2
<1> QED BY <1>3 DEF Latest

LEMMA FirstFound ==
  ASSUME NEW S, S # {}, \A r \in S : r.seq \in Nat
  PROVE  \E r \in S : \A s \in S : r.seq <= s.seq
<1> DEFINE Seqs == {r.seq : r \in S}
<1>1. Seqs \in SUBSET Nat /\ Seqs # {}
  OBVIOUS
<1>2. Min(Seqs) \in Seqs /\ \A y \in Seqs : Min(Seqs) <= y
  BY <1>1, MinFound
<1> QED BY <1>2

\* The table: a green gate has a last run that is green, and no write after it;
\* a red one has a last run that is red.
LEMMA StateFacts ==
  ASSUME NEW q, NEW f, NEW at, NEW tree, NEW g, g = StateOf(q, f, at, tree)
  PROVE  /\ g.gate = f /\ g.last = Latest(RunsAt(q, f, at))
         /\ g.greens = {r \in RunsAt(q, f, at) : IsGreen(r)}
         /\ g.counted =
              Counted(q, f, IF g.greens = {} THEN g.last ELSE Latest(g.greens), at)
         /\ g.bound = IF g.last \in g.greens THEN Bind(q, f, g.last, at, tree) ELSE "unknown"
         /\ g.state = "green" => IsGreen(g.last) /\ g.counted = {}
         /\ g.state = "red" => IsRed(g.last)
BY DEF StateOf, IsGreen, IsRed

\* A record that is complete has no execution without a seq, and none without
\* its declaration.
LEMMA CompleteFacts ==
  ASSUME GatesInv, Complete(rec, Now)
  PROVE  /\ spilled = {}
         /\ \A c : At("exec", c) # 0 => At("decl", c) # 0
         /\ \A c : Executions(rec, c) = IF At("exec", c) = 0 THEN {} ELSE {log[At("exec", c)]}
<1>1. Logged /\ rec.log = log /\ rec.spilled = spilled
  BY DEF GatesInv, Shape, rec
<1>2. \A t, c : At(t, c) \in 0..Len(log)
  BY <1>1, PlaceFacts
<1>3. spilled = {}
  <2>1. \A e \in spilled : At("decl", e.call) > Len(log)
    BY <1>1 DEF Complete, At, Now
  <2>2. Len(log) \in Nat
    BY <1>1, SeqFacts
  <2> QED BY <1>2, <2>1, <2>2
<1>4. ASSUME NEW c, At("exec", c) # 0 PROVE At("decl", c) # 0
  <2>1. /\ At("exec", c) \in 1..Len(log) /\ log[At("exec", c)].type = "exec"
        /\ log[At("exec", c)].call = c
    BY <1>1, <1>2, <1>4, PlaceFacts, SeqFacts
  <2>2. \A i \in 1..Len(log) : log[i].type = "exec" => At("decl", log[i].call) # 0
    BY <1>1 DEF Complete, Declared, At, Now
  <2> QED BY <2>1, <2>2
<1>5. \A c : Executions(rec, c) = IF At("exec", c) = 0 THEN {} ELSE {log[At("exec", c)]}
  BY <1>1, <1>3 DEF Executions, At
<1> QED BY <1>3, <1>4, <1>5

\* What the record says of a run in order: where it is, and that a green run
\* passed and a red one did not, once it had read the files.
RunIs(r) ==
  /\ r.call \in Runs /\ r.seq = At("decl", r.call) /\ r.exec = At("exec", r.call)
  /\ r.seq # 0 /\ r.exec # 0 /\ Landed(r) = r.exec
  /\ IsGreen(r) => reading[r.call].passed /\ HasRead(r.call)
  /\ IsRed(r) => ~reading[r.call].passed /\ HasRead(r.call)

LEMMA RunFacts ==
  ASSUME GatesInv, Complete(rec, Now), NEW c \in Runs, At("exec", c) # 0
  PROVE  RunIs(RunOf(rec, c)) /\ RunOf(rec, c).call = c
<1> DEFINE r == RunOf(rec, c)
           end == log[At("exec", c)].end
           join == At("join", c)
           ended == end.background /\ join # 0
<1>1. /\ spilled = {} /\ At("decl", c) # 0 /\ Executions(rec, c) = {log[At("exec", c)]}
      /\ rec.log = log
  BY CompleteFacts DEF rec
<1>2. (CHOOSE x \in Executions(rec, c) : TRUE) = log[At("exec", c)]
  BY <1>1
<1>3. /\ r.call = c /\ r.seq = At("decl", c) /\ r.exec = At("exec", c)
      /\ r.outcome = (IF ended THEN log[join].outcome ELSE end.outcome)
      /\ r.background = (end.background /\ ~ended)
      /\ r.hidden = end.hidden /\ r.keeps = end.keeps /\ r.delegate = end.delegate
      /\ r.bare = end.bare /\ r.output = end.output /\ r.coded = (end.coded \/ ended)
  BY <1>1, <1>2 DEF RunOf, At
<1>4. ToldOf(c) /\ c \in Calls
  BY DEF GatesInv, Told, Runs
<1>5. phase[c] \in {"launched", "ended", "done"} /\ (join # 0 => phase[c] = "done")
  BY <1>4 DEF GatesInv, Phases
<1>6. CASE reading[c].background /\ join = 0
  <2>1. end = Launched(reading[c])
    BY <1>4, <1>6 DEF ToldOf
  <2>2. r.background
    <3>1. end.background /\ ~ended
      BY <1>6, <2>1 DEF Launched
    <3>2. r.background = (end.background /\ ~ended)
      BY <1>3
    <3> HIDE DEF r, end, ended
    <3> QED BY <3>1, <3>2
  <2>3. ~IsGreen(r) /\ ~IsRed(r)
    BY <2>2, Zenon DEF IsGreen, IsRed
  <2>4. RunIs(r) /\ r.call = c
    <3> HIDE DEF r
    <3> QED BY <1>1, <1>3, <2>3 DEF RunIs, Landed
  <2> QED BY <2>4
<1>7. CASE ~reading[c].background \/ join # 0
  <2>1. PICK x : x = Ended(reading[c])
    OBVIOUS
  <2>2. phase[c] = "done" /\ reading[c] \in Readings[c]
    BY <1>4, <1>5, <1>7 DEF ToldOf
  <2>3. (IsGreen(x) => reading[c].passed) /\ (IsRed(x) => ~reading[c].passed)
    BY <2>1, <2>2, GatesAssumption
  <2>4. /\ x.outcome = r.outcome /\ x.hidden = r.hidden /\ x.keeps = r.keeps
        /\ x.delegate = r.delegate /\ x.bare = r.bare /\ x.output = r.output /\ x.exec # 0
        /\ (x.coded <=> r.coded) /\ ~x.background /\ ~r.background
    <3>1. CASE reading[c].background
      <4>1. end = Launched(reading[c]) /\ join # 0 /\ log[join].outcome = Joined(reading[c])
        BY <1>4, <1>7, <3>1 DEF ToldOf
      <4>2. /\ end.background /\ end.hidden = reading[c].hidden /\ end.keeps = reading[c].keeps
            /\ end.delegate = reading[c].delegate /\ end.bare = reading[c].bare
            /\ end.output = reading[c].output
        BY <4>1 DEF Launched
      <4>3. x.outcome = Joined(reading[c])
        BY <2>1, <3>1 DEF Ended
      <4>4. x.coded = (reading[c].coded \/ reading[c].background)
        BY <2>1 DEF Ended
      <4>5. x.coded /\ ~x.background
        BY <2>1, <3>1, <4>4 DEF Ended
      <4>6. /\ x.hidden = reading[c].hidden /\ x.keeps = reading[c].keeps
            /\ x.delegate = reading[c].delegate /\ x.bare = reading[c].bare
            /\ x.output = reading[c].output /\ x.exec # 0
        BY <2>1 DEF Ended
      <4>7. r.coded /\ ~r.background
        BY <1>3, <4>1, <4>2
      <4> HIDE DEF r, end, join
      <4> QED BY <1>3, <4>1, <4>2, <4>3, <4>5, <4>6, <4>7
    <3>2. CASE ~reading[c].background
      <4>1. end = reading[c] /\ ~ended
        BY <1>4, <3>2 DEF ToldOf
      <4>2. x.outcome = reading[c].outcome
        BY <2>1, <3>2 DEF Ended
      <4>3. x.coded = (reading[c].coded \/ reading[c].background)
        BY <2>1 DEF Ended
      <4>4. (x.coded <=> reading[c].coded) /\ ~x.background
        BY <2>1, <3>2, <4>3 DEF Ended
      <4>5. /\ x.hidden = reading[c].hidden /\ x.keeps = reading[c].keeps
            /\ x.delegate = reading[c].delegate /\ x.bare = reading[c].bare
            /\ x.output = reading[c].output /\ x.exec # 0
        BY <2>1 DEF Ended
      <4> HIDE DEF r, end, join, ended
      <4> QED BY <1>3, <3>2, <4>1, <4>2, <4>4, <4>5
    <3> QED BY <3>1, <3>2
  <2> HIDE DEF r, end, join, ended
  <2>5. IsRed(r) => IsRed(x)
    BY <2>4 DEF IsRed, Masked, ReadsOutput, ReadsPrinted, EmptyRun, Failed, FailedByExit
  <2>6. IsGreen(r) => IsGreen(x)
    BY <2>4
       DEF IsGreen, Masked, ReadsOutput, ReadsPrinted, EmptyRun, Failed, FailedByExit,
           OutcomeNotKnown, OrderNotKnown
  <2>7. RunIs(r) /\ r.call = c
    BY <1>1, <1>3, <2>2, <2>3, <2>5, <2>6 DEF RunIs, Landed, HasRead
  <2> QED BY <2>7 DEF r
<1> QED BY <1>6, <1>7

\* The runs of a gate that the record has at the moment.
LEMMA RunsAtFacts ==
  ASSUME GatesInv, Complete(rec, Now), NEW f
  PROVE  \A r \in RunsAt(rec, f, Now) : RunIs(r) /\ Family[r.call] = f
<1> SUFFICES ASSUME NEW r \in RunsAt(rec, f, Now) PROVE RunIs(r) /\ Family[r.call] = f
  OBVIOUS
<1>1. PICK c \in Runs : Family[c] = f /\ Executions(rec, c) # {} /\ r = RunOf(rec, c)
  BY Zenon DEF RunsAt
<1>2. At("exec", c) # 0
  BY <1>1, CompleteFacts
<1> QED BY <1>1, <1>2, RunFacts

\* A call that was declared before a run was answered before it was declared too,
\* or was still under way then.
LEMMA AnsweredOrUnderWay ==
  ASSUME GatesInv, Complete(rec, Now), NEW r, RunIs(r), NEW w, At("decl", w) \in 1..r.seq
  PROVE  (At("exec", w) # 0 /\ At("exec", w) < At("decl", r.call)) \/ Overlaps(w, r)
<1>1. At("exec", w) \in Nat /\ r.seq \in Nat
  <2>1. Logged
    BY DEF GatesInv, Shape
  <2>2. At("exec", w) \in Nat /\ At("decl", r.call) \in Nat
    BY <2>1, PlaceFacts, SeqFacts
  <2> QED BY <2>2 DEF RunIs
<1>2. CASE At("exec", w) = 0
  <2>1. Executions(rec, w) = {}
    BY <1>2, CompleteFacts
  <2> QED BY <2>1 DEF Overlaps, At
<1>3. CASE At("exec", w) > r.seq
  BY <1>3 DEF Overlaps, At
<1>4. CASE At("exec", w) # 0 /\ At("exec", w) <= r.seq
  <2>1. At("exec", w) # r.seq
    <3>1. Logged /\ r.seq = At("decl", r.call)
      BY DEF GatesInv, Shape, RunIs
    <3>2. log[At("exec", w)].type = "exec" /\ log[r.seq].type = "decl"
      BY <1>4, <3>1, PlaceFacts DEF RunIs
    <3> QED BY <3>2
  <2> QED BY <1>1, <1>4, <2>1 DEF RunIs
<1> QED BY <1>1, <1>2, <1>3, <1>4

\* A write that was over before a run was declared is one that the run saw.
LEMMA SeenOrUnderWay ==
  ASSUME GatesInv, Complete(rec, Now), NEW r, RunIs(r), HasRead(r.call),
         NEW w \in Calls \ Runs, At("decl", w) \in 1..r.seq
  PROVE  w \in Seen(r) \/ Overlaps(w, r)
<1>1. At("exec", w) # 0 /\ At("exec", w) < At("decl", r.call) => w \in saw[r.call].writes
  BY DEF GatesInv, SeenBefore, RunIs
<1> QED BY <1>1, AnsweredOrUnderWay DEF Seen

\* A gate that is shown has a last run.
LEMMA ShownFacts ==
  ASSUME GatesInv, NEW g \in Shown
  PROVE  /\ Complete(rec, Now) /\ g = Gate(g.gate) /\ RunsAt(rec, g.gate, Now) # {}
         /\ g.last \in RunsAt(rec, g.gate, Now) /\ RunIs(g.last)
         /\ \A r \in RunsAt(rec, g.gate, Now) : r.seq <= g.last.seq
<1>1. Complete(rec, Now) /\ \E f \in Families : RunsAt(rec, f, Now) # {} /\ g = Gate(f)
  BY Zenon DEF Shown, GateStates, Gate
<1>2. PICK f \in Families : RunsAt(rec, f, Now) # {} /\ g = Gate(f)
  BY <1>1
<1>3. g.gate = f /\ g.last = Latest(RunsAt(rec, f, Now))
  BY <1>2, StateFacts DEF Gate
<1>4. Len(log) \in Nat /\ \A r \in RunsAt(rec, f, Now) : r.seq \in 0..Len(log)
  <2>1. Logged
    BY DEF GatesInv, Shape
  <2>2. \A r \in RunsAt(rec, f, Now) : r.seq = At("decl", r.call)
    BY <1>1, RunsAtFacts DEF RunIs
  <2> QED BY <2>1, <2>2, PlaceFacts, SeqFacts
<1>5. /\ Latest(RunsAt(rec, f, Now)) \in RunsAt(rec, f, Now)
      /\ \A r \in RunsAt(rec, f, Now) : r.seq <= Latest(RunsAt(rec, f, Now)).seq
  BY <1>2, <1>4, LatestFound
<1> QED BY <1>1, <1>2, <1>3, <1>5, RunsAtFacts

\* The latest of a gate's green runs is its last run, where that is green.
LEMMA GreenLast ==
  ASSUME GatesInv, NEW g \in Shown, IsGreen(g.last)
  PROVE  /\ g.last \in g.greens /\ Latest(g.greens).seq = g.last.seq
<1> DEFINE runs == RunsAt(rec, g.gate, Now)
<1>1. /\ Complete(rec, Now) /\ g = Gate(g.gate) /\ g.last \in runs
      /\ \A r \in runs : r.seq <= g.last.seq
  BY ShownFacts
<1>2. g.greens = {r \in runs : IsGreen(r)}
  BY <1>1, StateFacts DEF Gate
<1>3. g.last \in g.greens
  BY <1>1, <1>2
<1>4. Len(log) \in Nat /\ \A r \in runs : r.seq \in 0..Len(log)
  <2>1. Logged
    BY DEF GatesInv, Shape
  <2>2. \A r \in runs : r.seq = At("decl", r.call)
    BY <1>1, RunsAtFacts DEF RunIs
  <2> QED BY <2>1, <2>2, PlaceFacts, SeqFacts
<1>5. /\ Latest(g.greens) \in g.greens
      /\ \A r \in g.greens : r.seq <= Latest(g.greens).seq
  <2>1. \A r \in g.greens : r.seq \in 0..Len(log)
    BY <1>2, <1>4
  <2> QED BY <1>3, <1>4, <2>1, LatestFound
<1>6. Latest(g.greens).seq <= g.last.seq /\ g.last.seq <= Latest(g.greens).seq
  BY <1>1, <1>2, <1>3, <1>5
<1>7. Latest(g.greens).seq \in Nat /\ g.last.seq \in Nat
  BY <1>1, <1>2, <1>4, <1>5
<1> QED BY <1>3, <1>6, <1>7

-----------------------------------------------------------------------------
LEMMA TrueNow == GatesInv => GatesAreTrue
<1> SUFFICES ASSUME GatesInv, NEW g \in Shown
             PROVE  /\ GateAfterWrite(g) = "met" =>
                         /\ reading[g.last.call].passed
                         /\ \A w \in Known(Named) :
                              Path[w] \in Covers[g.gate] =>
                                w \in Seen(g.last) \/ Overlaps(w, g.last)
                    /\ g.state = "red" => ~reading[g.last.call].passed
  BY DEF GatesAreTrue
<1>1. /\ Complete(rec, Now) /\ g = Gate(g.gate) /\ RunIs(g.last)
  BY ShownFacts
<1>2. /\ g.state = "green" => IsGreen(g.last) /\ g.counted = {}
      /\ g.state = "red" => IsRed(g.last)
      /\ g.counted =
           Counted(rec, g.gate, IF g.greens = {} THEN g.last ELSE Latest(g.greens), Now)
  BY <1>1, StateFacts DEF Gate
<1>3. ASSUME GateAfterWrite(g) = "met" PROVE g.state = "green"
  BY <1>3 DEF GateAfterWrite
<1>4. ASSUME g.state = "green", NEW w \in Known(Named), Path[w] \in Covers[g.gate]
      PROVE  w \in Seen(g.last) \/ Overlaps(w, g.last)
  <2>1. IsGreen(g.last) /\ g.greens # {} /\ Latest(g.greens).seq = g.last.seq
    BY <1>2, <1>4, GreenLast
  <2>2. WritesIn(rec, g.gate, g.last.seq, Now) = {}
    BY <1>2, <1>4, <2>1 DEF Counted
  <2>3. w \in Named /\ At("decl", w) # 0
    BY <1>1, CompleteFacts DEF Known, Declared, At
  <2>4. w \in Calls \ Runs
    BY <2>3 DEF Named, Runs
  <2>5. Logged /\ Len(log) \in Nat
    BY SeqFacts DEF GatesInv, Shape
  <2>6. At("decl", w) \in 0..Len(log) /\ At("decl", g.last.call) \in 0..Len(log)
    BY <2>5, PlaceFacts
  <2>7. At("decl", w) \in 1..Len(log) /\ g.last.seq \in Nat
    BY <1>1, <2>3, <2>5, <2>6 DEF RunIs
  <2>8. ~(At("decl", w) > g.last.seq)
    BY <1>4, <2>2, <2>3, <2>7 DEF WritesIn, DeclaredAt, At, Now
  <2>9. At("decl", w) \in 1..g.last.seq
    BY <2>5, <2>7, <2>8
  <2> QED BY <1>1, <2>1, <2>4, <2>9, SeenOrUnderWay DEF RunIs
<1> QED BY <1>1, <1>2, <1>3, <1>4 DEF RunIs

\* A gate that the ledger says ran green after the last write did: its last run
\* passed and saw every write it covers that was over before it began; for any
\* agents side by side and any records lost (gates.go gateStates, D31).
THEOREM GatesStayTrue == Spec => []GatesAreTrue
BY TrueNow, GatesInit, GatesStep, PTL DEF Spec

LEMMA BoundNow == GatesInv => BoundIsWhatRan
<1> SUFFICES ASSUME GatesInv, NEW g \in Shown, EvidenceBound(g) = "met",
                    NEW w \in Bound(rec, g.gate, g.last), ~Overlaps(w, g.last),
                    Sha(rec, w) # "another"
             PROVE  saw[g.last.call].content[Path[w]] = content[Path[w]]
  BY DEF BoundIsWhatRan
<1>1. Complete(rec, Now) /\ g = Gate(g.gate) /\ RunIs(g.last)
  BY ShownFacts
<1>2. g.state = "green" /\ g.bound = "met"
  BY DEF EvidenceBound
<1>3. IsGreen(g.last) /\ Bind(rec, g.gate, g.last, Now, Tree) = "met"
  <2>1. /\ g.state = "green" => IsGreen(g.last)
        /\ g.bound = IF g.last \in g.greens THEN Bind(rec, g.gate, g.last, Now, Tree)
                     ELSE "unknown"
    BY <1>1, StateFacts DEF Gate
  <2> QED BY <1>2, <2>1
<1>4. Sha(rec, w) # "none" /\ Sha(rec, w) = content[Path[w]]
  BY <1>3 DEF Bind, Tree
<1>5. w \in Named /\ At("decl", w) \in 1..(g.last.seq - 1)
  BY DEF Bound, WritesIn, DeclaredAt, At
<1>6. At("decl", w) \in 1..g.last.seq
  <2>1. Logged
    BY DEF GatesInv, Shape
  <2>2. g.last.seq \in Nat
    BY <1>1, <2>1, PlaceFacts, SeqFacts DEF RunIs
  <2> QED BY <1>5, <2>2
<1>7. At("exec", w) # 0 /\ At("exec", w) < At("decl", g.last.call)
  BY <1>1, <1>6, AnsweredOrUnderWay
<1>8. CallKind[w] = "tool" /\ Sha(rec, w) = log[At("exec", w)].sha
  <2>1. Executions(rec, w) = {log[At("exec", w)]}
    BY <1>1, <1>7, CompleteFacts
  <2>2. (CHOOSE e \in Executions(rec, w) : TRUE) = log[At("exec", w)]
    BY <2>1
  <2> QED BY <1>4, <2>2 DEF Sha
<1>9. HasRead(g.last.call) /\ g.last.call \in Runs /\ w \in Calls
  BY <1>1, <1>3, <1>5 DEF RunIs, Named
<1> QED BY <1>4, <1>7, <1>8, <1>9 DEF GatesInv, Unmoved

\* A green whose evidence the ledger calls bound is of a run that read the files
\* as they are now: a content that a write's post found and that is there now was
\* there for every run between them (tree.go bind).
THEOREM BoundStaysWhatRan == Spec => []BoundIsWhatRan
BY BoundNow, GatesInit, GatesStep, PTL DEF Spec

LEMMA WatchedNow == GatesInv => WatchedFixCameAfter
<1> SUFFICES ASSUME GatesInv, NEW g \in Shown, NEW f, f = g.gate, Watched(rec, f, Now) = "met",
                    NEW red, red = Latest(Reds(rec, f, Now)),
                    NEW green, green = FirstGreen(rec, f, Now, red),
                    ~reading[red.call].background
             PROVE  /\ reading[green.call].passed
                    /\ \E w \in Fixes(rec, f, red, green) : Answers(red, green, w)
  BY Zenon DEF WatchedFixCameAfter
<1>1. Complete(rec, Now)
  BY ShownFacts
<1>2. /\ Reds(rec, f, Now) # {} /\ GreensAfter(rec, f, Now, red) # {}
      /\ Fixes(rec, f, red, green) # {}
  BY DEF Watched
<1>3. Logged /\ Len(log) \in Nat
  BY SeqFacts DEF GatesInv, Shape
<1>4. \A r \in RunsAt(rec, f, Now) : RunIs(r) /\ r.seq \in 0..Len(log)
  BY <1>1, <1>3, RunsAtFacts, PlaceFacts DEF RunIs
<1>5. red \in RunsAt(rec, f, Now) /\ IsRed(red)
  <2>1. \A r \in Reds(rec, f, Now) : r \in RunsAt(rec, f, Now) /\ IsRed(r)
    BY DEF Reds
  <2>2. \A r \in Reds(rec, f, Now) : r.seq \in 0..Len(log)
    BY <1>4, <2>1
  <2>3. red \in Reds(rec, f, Now)
    BY <1>2, <1>3, <2>2, LatestFound
  <2> QED BY <2>1, <2>3
<1>6. green \in RunsAt(rec, f, Now) /\ IsGreen(green)
  <2>1. \A r \in GreensAfter(rec, f, Now, red) : r \in RunsAt(rec, f, Now) /\ IsGreen(r)
    BY DEF GreensAfter
  <2>2. \A r \in GreensAfter(rec, f, Now, red) : r.seq \in Nat
    BY <1>4, <2>1
  <2>3. green \in GreensAfter(rec, f, Now, red)
    BY <1>2, <2>2, FirstFound DEF FirstGreen
  <2> QED BY <2>1, <2>3
<1>7. PICK w \in Fixes(rec, f, red, green) : TRUE
  BY <1>2
<1>8. /\ w \in Named /\ At("decl", w) \in 1..(green.seq - 1)
      /\ At("decl", w) > At("exec", red.call)
  BY <1>4, <1>5, <1>7 DEF Fixes, WritesIn, DeclaredAt, At, RunIs
<1>9. w \notin Seen(red)
  <2>1. w \in saw[red.call].writes => At("decl", w) < At("exec", red.call)
    BY <1>4, <1>5 DEF GatesInv, SeenAfter, RunIs
  <2>2. At("exec", red.call) \in Nat /\ At("decl", w) \in Nat
    BY <1>3, PlaceFacts
  <2> QED BY <1>8, <2>1, <2>2 DEF Seen
<1>10. w \in Seen(green) \/ Overlaps(w, green)
  <2>1. RunIs(green) /\ HasRead(green.call) /\ green.seq \in Nat
    BY <1>3, <1>4, <1>6 DEF RunIs
  <2>2. w \in Calls \ Runs /\ At("decl", w) \in 1..green.seq
    BY <1>8, <2>1 DEF Named, Runs
  <2> QED BY <1>1, <2>1, <2>2, SeenOrUnderWay
<1>11. reading[green.call].passed
  BY <1>4, <1>6 DEF RunIs
<1> QED BY <1>7, <1>9, <1>10, <1>11 DEF Answers

\* A watched red that is met was answered by a write that its run had not seen,
\* and a later run passed over it, but for a red moved to the background
\* (obligations.go watchedRow, Q4).
THEOREM WatchedFixesComeAfter == Spec => []WatchedFixCameAfter
BY WatchedNow, GatesInit, GatesStep, PTL DEF Spec

\* A turn that reads verified: what its row says of the gates shown.
LEMMA RowFacts ==
  ASSUME TurnSummary(rec, Now, Tree) = "verified"
  PROVE  /\ TurnGates(Shown) = {g \in Shown : g.gate \in Required}
         /\ ~Invalidated(rec, Now, TurnGates(Shown))
         /\ \A g \in Shown : g.gate \in Required => g.state = "green"
<1>1. \E wrote : RowOf(rec, Now, Shown, wrote) = "verified"
  BY Zenon DEF TurnSummary, Shown
<1>2. PICK wrote : RowOf(rec, Now, Shown, wrote) = "verified"
  BY <1>1
<1>3. \A state : RowFor(state) # "verified"
  BY DEF RowFor
<1>4. /\ ~Advisory(Shown) /\ ~Invalidated(rec, Now, TurnGates(Shown)) /\ RecordGreen(Shown)
  BY <1>2, <1>3 DEF RowOf
<1> QED BY <1>4, Zenon DEF TurnGates, RecordGreen

LEMMA EarnedNow == GatesInv => VerifiedIsEarned
<1> SUFFICES ASSUME GatesInv, TurnSummary(rec, Now, Tree) = "verified",
                    NEW g \in Shown, g.gate \in Required
             PROVE  /\ g.state = "green" /\ g = Gate(g.gate)
                    /\ \A w \in OfTurn(rec, Now, Unnamed) \cap done :
                         w \in Seen(g.last) \/ Overlaps(w, g.last)
  BY Zenon DEF VerifiedIsEarned
<1> DEFINE of == TurnGates(Shown)
           greens == {GreenSeq(h) : h \in of}
           unnamed == {Place(rec, "decl", c) : c \in OfTurn(rec, Now, Unnamed)}
<1>1. /\ of = {h \in Shown : h.gate \in Required}
      /\ ~(LastUnnamed(rec, Now) > Min(greens))
      /\ \A h \in Shown : h.gate \in Required => h.state = "green"
  BY RowFacts DEF Invalidated
<1>2. \A h \in of : h.state = "green" /\ h \in Shown
  BY <1>1
<1>3. Logged /\ Len(log) \in Nat
  BY SeqFacts DEF GatesInv, Shape
<1>4. ASSUME NEW h \in of
      PROVE  /\ Complete(rec, Now) /\ h = Gate(h.gate) /\ RunIs(h.last) /\ IsGreen(h.last)
             /\ GreenSeq(h) = h.last.seq /\ GreenSeq(h) \in Nat
  <2>1. h \in Shown /\ h.state = "green"
    BY <1>2
  <2>2. Complete(rec, Now) /\ h = Gate(h.gate) /\ RunIs(h.last)
    BY <2>1, ShownFacts
  <2>3. IsGreen(h.last)
    BY <2>1, <2>2, StateFacts DEF Gate
  <2>4. h.last \in h.greens /\ Latest(h.greens).seq = h.last.seq
    BY <2>1, <2>3, GreenLast
  <2>5. h.last.seq \in Nat
    BY <1>3, <2>2, PlaceFacts DEF RunIs
  <2> QED BY <2>2, <2>3, <2>4, <2>5 DEF GreenSeq
<1>5. g \in of
  BY <1>1
<1>6. Min(greens) <= g.last.seq /\ Min(greens) \in Nat
  <2>1. greens \in SUBSET Nat /\ GreenSeq(g) \in greens
    BY <1>4, <1>5
  <2>2. Min(greens) \in greens /\ \A y \in greens : Min(greens) <= y
    BY <2>1, MinFound
  <2> QED BY <1>4, <1>5, <2>1, <2>2
<1>7. ASSUME NEW w \in OfTurn(rec, Now, Unnamed)
      PROVE  w \in Seen(g.last) \/ Overlaps(w, g.last)
  <2>1. /\ {0} \cup unnamed \in SUBSET (0..Len(log))
        /\ At("decl", w) \in {0} \cup unnamed
    BY <1>3, PlaceFacts DEF At
  <2>2. /\ LastUnnamed(rec, Now) \in 0..Len(log)
        /\ At("decl", w) <= LastUnnamed(rec, Now)
    BY <1>3, <2>1, MaxFound DEF LastUnnamed
  <2>3. w \in Unnamed /\ At("decl", w) \in 1..Now
    BY DEF OfTurn, DeclaredAt, At
  <2>4. g.last.seq \in Nat
    BY <1>4, <1>5
  <2>5. At("decl", w) \in 1..g.last.seq
    BY <1>1, <1>3, <1>6, <2>2, <2>3, <2>4 DEF Now
  <2>6. w \in Calls \ Runs
    BY <2>3 DEF Unnamed, Runs
  <2>7. RunIs(g.last) /\ HasRead(g.last.call) /\ Complete(rec, Now)
    BY <1>4, <1>5 DEF RunIs
  <2> QED BY <2>5, <2>6, <2>7, SeenOrUnderWay
<1> QED BY <1>2, <1>4, <1>5, <1>7

\* A turn that reads verified earned it: each of its required gates is green, and
\* the last run of each saw every unnamed write of the turn that was over before
\* it began (gates.go TurnSummary, D30).
THEOREM VerifiedTurnsAreEarned == Spec => []VerifiedIsEarned
BY EarnedNow, GatesInit, GatesStep, PTL DEF Spec

-----------------------------------------------------------------------------
(* A point of the record that later entries leave as it was.               *)

\* Two records that say the same of a point.
SameAt(q, p, at) ==
  /\ \A f : RunsAt(p, f, at) = RunsAt(q, f, at)
  /\ \A S : DeclaredAt(p, at, S) = DeclaredAt(q, at, S)
  /\ \A c : Place(q, "decl", c) \in 1..at => Place(p, "decl", c) = Place(q, "decl", c)

LEMMA StateSame ==
  ASSUME NEW q, NEW p, NEW at, SameAt(q, p, at), NEW f
  PROVE  StateOf(p, f, at, <<>>).state = StateOf(q, f, at, <<>>).state
<1>1. \A after : WritesIn(p, f, after, at) = WritesIn(q, f, after, at)
  BY DEF SameAt, WritesIn, DeclaredAt
<1>2. \A ref : Counted(p, f, ref, at) = Counted(q, f, ref, at)
  BY <1>1 DEF Counted
<1>3. \A ref, x : {c \in Counted(p, f, ref, at) : Place(p, "decl", c) > x}
                = {c \in Counted(q, f, ref, at) : Place(q, "decl", c) > x}
  BY <1>2 DEF SameAt, Counted, WritesIn, DeclaredAt
<1>4. \A x : Bind(p, f, x, at, <<>>) = "unknown" /\ Bind(q, f, x, at, <<>>) = "unknown"
  BY DEF Bind
<1>5. RunsAt(p, f, at) = RunsAt(q, f, at)
  BY DEF SameAt
<1> DEFINE last == Latest(RunsAt(q, f, at))
           greens == {r \in RunsAt(q, f, at) : IsGreen(r)}
           ref == IF greens = {} THEN last ELSE Latest(greens)
<1>6. /\ Counted(p, f, ref, at) = Counted(q, f, ref, at)
      /\ {c \in Counted(p, f, ref, at) : Place(p, "decl", c) > last.seq}
         = {c \in Counted(q, f, ref, at) : Place(q, "decl", c) > last.seq}
      /\ Bind(p, f, last, at, <<>>) = Bind(q, f, last, at, <<>>)
  BY <1>2, <1>3, <1>4
<1>7. StateOf(p, f, at, <<>>) = StateOf(q, f, at, <<>>)
  BY <1>5, <1>6 DEF StateOf
<1> QED BY <1>7

\* An entry of a call with no execution: what the record says of the others.
OthersStand(q, p, c) ==
  \A x : x # c => /\ Executions(p, x) = Executions(q, x) /\ RunOf(p, x) = RunOf(q, x)
                  /\ Place(p, "decl", x) = Place(q, "decl", x)

LEMMA EntryLeaves ==
  ASSUME NEW type \in {"decl", "exec"}, NEW c, NEW e, Puts(type, c, e), spilled' = spilled,
         Executions(rec, c) = {}, NEW at \in 1..Now
  PROVE  SameAt(rec, rec', at)
<1>1. PICK q, p : q = rec /\ p = rec'
  OBVIOUS
<1>2. q.log = log /\ p.log = log' /\ q.spilled = spilled /\ p.spilled = spilled
  BY <1>1 DEF rec
<1>3. /\ \A t, x : Place(q, t, x) \in Nat /\ Place(q, t, x) <= Len(log)
      /\ \A t, x : t # type \/ x # c =>
           /\ Place(p, t, x) = Place(q, t, x)
           /\ Place(q, t, x) # 0 => p.log[Place(q, t, x)] = q.log[Place(q, t, x)]
      /\ Place(q, type, c) = 0 /\ Place(p, type, c) = Len(log) + 1
      /\ Len(log) \in Nat
  BY <1>1, <1>2 DEF Puts, At
<1>4. Executions(q, c) = {}
  BY <1>1
<1>5. \A x : Place(p, "exec", x) = Place(q, "exec", x) => Executions(p, x) = Executions(q, x)
  <2>1. \A t, x : Place(p, t, x) = Place(q, t, x) /\ Place(q, t, x) # 0 =>
          p.log[Place(q, t, x)] = q.log[Place(q, t, x)]
    BY <1>3
  <2> QED BY <1>2, <2>1 DEF Executions
<1>6. OthersStand(q, p, c)
  <2> SUFFICES ASSUME NEW x, x # c
               PROVE  /\ Executions(p, x) = Executions(q, x) /\ RunOf(p, x) = RunOf(q, x)
                      /\ Place(p, "decl", x) = Place(q, "decl", x)
    BY DEF OthersStand
  <2>1. /\ \A t : Place(p, t, x) = Place(q, t, x)
        /\ \A t : Place(q, t, x) # 0 => p.log[Place(q, t, x)] = q.log[Place(q, t, x)]
    BY <1>3
  <2>2. Executions(p, x) = Executions(q, x)
    BY <1>5, <2>1
  <2> QED BY <2>1, <2>2 DEF RunOf
<1>7. ASSUME NEW f PROVE RunsAt(p, f, at) = RunsAt(q, f, at)
  <2> DEFINE Ran(u) == {x \in Runs : Family[x] = f /\ Declared(u, x) /\ Executions(u, x) # {}}
  <2>1. /\ RunsAt(p, f, at) = {r \in {RunOf(p, x) : x \in Ran(p)} : Landed(r) <= at}
        /\ RunsAt(q, f, at) = {r \in {RunOf(q, x) : x \in Ran(q)} : Landed(r) <= at}
    BY DEF RunsAt
  <2>2. \A x : x # c => (x \in Ran(p) <=> x \in Ran(q)) /\ RunOf(p, x) = RunOf(q, x)
    BY <1>6 DEF OthersStand, Declared
  <2>3. c \notin Ran(q)
    BY <1>4
  <2>4. c \in Ran(p) => ~(Landed(RunOf(p, c)) <= at)
    <3>1. CASE type = "decl"
      <4>1. Place(p, "exec", c) = Place(q, "exec", c)
        BY <1>3, <3>1
      <4> QED BY <1>4, <1>5, <4>1
    <3>2. CASE type = "exec"
      <4>1. RunOf(p, c).exec = Len(log) + 1
        BY <1>3, <3>2 DEF RunOf
      <4>2. Landed(RunOf(p, c)) = Len(log) + 1
        BY <1>3, <4>1 DEF Landed
      <4> QED BY <1>3, <4>2 DEF Now
    <3> QED BY <3>1, <3>2
  <2> HIDE DEF Ran
  <2> QED BY <2>1, <2>2, <2>3, <2>4
<1>8. ASSUME NEW x PROVE Place(p, "decl", x) \in 1..at <=> Place(q, "decl", x) \in 1..at
  BY <1>3 DEF Now
<1>9. \A S : DeclaredAt(p, at, S) = DeclaredAt(q, at, S)
  BY <1>8 DEF DeclaredAt
<1>10. \A x : Place(q, "decl", x) \in 1..at => Place(p, "decl", x) = Place(q, "decl", x)
  BY <1>3
<1>11. SameAt(q, p, at)
  BY <1>7, <1>9, <1>10 DEF SameAt
<1> QED BY <1>1, <1>11

LEMMA PointsStandStep ==
  ASSUME GatesInv, Next, Len(log') > Now, log'[Len(log')].type # "join",
         NEW f \in Families, NEW at \in 1..Now, RunsAt(rec, f, at) # {}
  PROVE  /\ RunsAt(rec', f, at) # {}
         /\ StateOf(rec', f, at, <<>>).state = StateOf(rec, f, at, <<>>).state
<1>1. Kept /\ Logged /\ Len(log) \in Nat
  BY SeqFacts DEF GatesInv, Shape, Kept
<1>2. ASSUME NEW c, phase[c] \in {"idle", "declared", "acted"}, c \in Calls
      PROVE  Executions(rec, c) = {}
  BY <1>2 DEF GatesInv, Phases, Executions, At, rec
<1>3. SameAt(rec, rec', at)
  <2>1. ASSUME NEW c \in Calls, Declare(c) PROVE SameAt(rec, rec', at)
    BY <1>1, <1>2, <2>1, DeclarePuts, EntryLeaves DEF Declare, Free
  <2>2. ASSUME NEW c \in Calls, Launch(c) PROVE SameAt(rec, rec', at)
    <3>1. phase[c] = "declared" /\ spilled' = spilled
      BY <2>2 DEF Launch
    <3>2. PICK r : Puts("exec", c, LaunchedEntry(c, r))
      BY <1>1, <2>2, LaunchPuts
    <3> QED BY <1>2, <3>1, <3>2, EntryLeaves
  <2>3. ASSUME NEW c \in Calls, Post(c) PROVE SameAt(rec, rec', at)
    BY <1>1, <1>2, <2>3, PostPuts, EntryLeaves DEF Post
  <2>4. ASSUME NEW c \in Calls, Join(c) PROVE FALSE
    <3>1. log' = Append(log, JoinedEntry(c)) /\ JoinedEntry(c).type = "join"
      BY <2>4 DEF Join, JoinedEntry
    <3>2. Len(log') = Len(log) + 1 /\ log'[Len(log) + 1] = JoinedEntry(c)
      BY <1>1, <3>1, Grows DEF Grown
    <3> QED BY <3>1, <3>2
  <2>5. log' # log
    BY <1>1 DEF Now
  <2> QED BY <2>1, <2>2, <2>3, <2>4, <2>5
          DEF Next, DeclareLost, WriteFile, RunGate, EndLaunched, PostSpilled, PostLost,
              EditElsewhere
<1>4. PICK q, p : q = rec /\ p = rec'
  OBVIOUS
<1>5. SameAt(q, p, at)
  BY <1>3, <1>4
<1>6. RunsAt(p, f, at) = RunsAt(q, f, at)
  BY <1>5 DEF SameAt
<1>7. StateOf(p, f, at, <<>>).state = StateOf(q, f, at, <<>>).state
  BY <1>5, StateSame
<1> QED BY <1>4, <1>6, <1>7

\* What the record says of a gate at a point stands whatever calls come and are
\* answered later, an execution without a seq and a background command's end aside
\* (evaluate.go Evaluate, INV-11).
THEOREM EarlierPointsStay == Spec => EarlierPointsStand
<1>1. GatesInv /\ [Next]_vars =>
        [Len(log') > Now /\ log'[Len(log')].type # "join" =>
           \A f \in Families : \A at \in 1..Now :
             LET was == RunsAt(rec, f, at) IN
             was # {} => /\ RunsAt(rec', f, at) # {}
                         /\ StateOf(rec', f, at, <<>>).state = StateOf(rec, f, at, <<>>).state]_vars
  BY PointsStandStep
<1> QED BY <1>1, GatesInit, GatesStep, PTL DEF Spec, EarlierPointsStand

=============================================================================
