----------------------------- MODULE GateStates -----------------------------
(***************************************************************************)
(* What the record of one session says of its gates at a point             *)
(* (internal/verify gates.go, classify.go, tree.go, recording.go,          *)
(* obligations.go, evaluate.go): a pure fold, no clock and no file.        *)
(*                                                                         *)
(* The record is [log, spilled, signs].  An entry of the log is a          *)
(* declaration [type "decl", call], an execution [type "exec", call, sha,  *)
(* end] or the end of a background command [type "join", call, outcome];   *)
(* an entry's place is its seq.  Spilled are the executions that have      *)
(* none.  Signs are what the record says of itself: a post's coverage that *)
(* is verified or has its hook entry or probe unknown, a line the reader   *)
(* skipped.  The end of a gate run is [outcome, coded, background, hidden, keeps, delegate,  *)
(* bare, output]: its line hid its status (hidden) behind a stage that     *)
(* keeps its summary (keeps); its program is a delegate or one with no     *)
(* summary of its own (bare); output is what the post read.                *)
(***************************************************************************)
EXTENDS Integers, Sequences, FiniteSets, FiniteSetsExt

CONSTANTS
  Calls,      \* the session's calls
  CallKind,   \* "run", "tool" (a hashed write), "shell", or "unnamed"
  Family,     \* the gate a run is of
  Path,       \* the path a write names
  Covers,     \* per gate, the paths it covers (root)
  Required,   \* the gates the index requires, or every one (D38)
  PromptOf    \* the prompt a call belongs to

Families == DOMAIN Covers
Runs == {c \in Calls : CallKind[c] = "run"}
Named == {c \in Calls : CallKind[c] \in {"tool", "shell"}}
Unnamed == {c \in Calls : CallKind[c] = "unnamed"}

-----------------------------------------------------------------------------
\* The place of a call's entry of a type, 0 for none, and its execution.
Place(rec, type, c) ==
  LET lines == rec.log
      at == {i \in DOMAIN lines : lines[i].call = c /\ lines[i].type = type}
  IN IF at = {} THEN 0 ELSE CHOOSE i \in at : TRUE
Declared(rec, c) == Place(rec, "decl", c) # 0
Executions(rec, c) ==
  {rec.log[i] : i \in {Place(rec, "exec", c)} \ {0}} \cup {e \in rec.spilled : e.call = c}
DeclaredAt(rec, at, S) == {c \in S : Place(rec, "decl", c) \in 1..at}

\* recording: complete up to the point. A terminal answers each declaration;
\* what can be seen missing is the declaration of an execution, or its seq, a
\* line the reader skipped, and a post's coverage that is verified.
Complete(rec, at) ==
  /\ rec.signs = {"verified"}
  /\ \A i \in 1..at : rec.log[i].type = "exec" => Declared(rec, rec.log[i].call)
  /\ \A e \in rec.spilled : Declared(rec, e.call) /\ Place(rec, "decl", e.call) > at

\* newRun, with endedBy where a background command's end is known.
RunOf(rec, c) ==
  LET end == (CHOOSE x \in Executions(rec, c) : TRUE).end
      join == Place(rec, "join", c)
      ended == end.background /\ join # 0
  IN [call |-> c, seq |-> Place(rec, "decl", c), exec |-> Place(rec, "exec", c),
      outcome |-> IF ended THEN rec.log[join].outcome ELSE end.outcome,
      coded |-> end.coded \/ ended, background |-> end.background /\ ~ended,
      hidden |-> end.hidden, keeps |-> end.keeps, delegate |-> end.delegate, bare |-> end.bare,
      output |-> end.output]

-----------------------------------------------------------------------------
\* readsOutput and readsPrinted: a hidden status that the output tells.
ReadsOutput(r) ==
  /\ r.hidden /\ r.outcome = "ok" /\ ~r.background /\ r.keeps
  /\ \/ r.output = "summary_pass" /\ ~r.delegate
     \/ r.output \in {"summary_fail", "empty_run"}
     \/ r.output = "fail_line" /\ r.bare
ReadsPrinted(r) ==
  r.hidden /\ r.outcome = "ok" /\ ~r.background /\ r.output \in {"printed_pass", "printed_fail"}

Masked(r) == r.hidden /\ ~ReadsOutput(r) /\ ~ReadsPrinted(r)
EmptyRun(r) == r.output = "empty_run"
FailedByExit(r) ==
  \/ r.outcome = "failed"
  \/ ReadsPrinted(r) /\ r.output = "printed_fail"
  \/ r.outcome = "interrupted" /\ r.coded
Failed(r) == FailedByExit(r) \/ r.output \in {"summary_fail", "fail_line"}
OutcomeNotKnown(r) == r.outcome # "ok" \/ r.output = "unread"
OrderNotKnown(r) == r.exec = 0
IsGreen(r) ==
  ~r.background /\ ~Masked(r) /\ ~EmptyRun(r) /\ ~Failed(r) /\ ~OutcomeNotKnown(r) /\ ~OrderNotKnown(r)
IsRed(r) == ~r.background /\ ~Masked(r) /\ ~EmptyRun(r) /\ Failed(r)

\* Where a run's outcome entered the record, or its declaration (landed).
Landed(r) == IF r.exec # 0 THEN r.exec ELSE r.seq

RunsAt(rec, f, at) ==
  LET ran == {c \in Runs : Family[c] = f /\ Declared(rec, c) /\ Executions(rec, c) # {}}
  IN {r \in {RunOf(rec, c) : c \in ran} : Landed(r) <= at}
Latest(runs) == CHOOSE r \in runs : \A s \in runs : s.seq <= r.seq

\* The covered named writes declared in (after, at].
WritesIn(rec, f, after, at) ==
  {c \in DeclaredAt(rec, at, Named) : Path[c] \in Covers[f] /\ Place(rec, "decl", c) > after}

\* (broken: writes count from the run's outcome, not its declaration)
CountedFromOutcome(rec, f, ref, at) == WritesIn(rec, f, Landed(ref), at)
\* (broken: writes past the point count)
CountedBeyond(rec, f, ref, at) == WritesIn(rec, f, ref.seq, Len(rec.log))

\* The writes that count against a gate: those declared after its reference
\* run was, as one declared while it ran may be one it never saw (D31).
Counted(rec, f, ref, at) == WritesIn(rec, f, ref.seq, at)

-----------------------------------------------------------------------------
\* The last write of each path that a run's tree binds.
Bound(rec, f, ref) ==
  LET before == WritesIn(rec, f, 0, ref.seq - 1)
  IN {c \in before : \A d \in before :
        Path[d] = Path[c] => Place(rec, "decl", d) <= Place(rec, "decl", c)}
\* The sha a write's post recorded; "none" of a shell's, or with no post.
Sha(rec, c) ==
  IF CallKind[c] # "tool" \/ Executions(rec, c) = {} THEN "none"
  ELSE (CHOOSE e \in Executions(rec, c) : TRUE).sha

\* (broken: the tree is read only where the session wrote unnamed)
BindOwnOnly(rec, f, ref, at, tree) ==
  LET own == {c \in DeclaredAt(rec, at, Unnamed) : Place(rec, "decl", c) > ref.seq}
  IN IF tree = <<>> THEN "unknown" ELSE IF own # {} THEN "own"
     ELSE IF \E c \in Bound(rec, f, ref) : Sha(rec, c) = "none" THEN "unknown" ELSE "met"

\* bind: the green run's tree against the one read at the point.
Bind(rec, f, ref, at, tree) ==
  LET bound == Bound(rec, f, ref)
      moved == {c \in bound : Sha(rec, c) # "none" /\ Sha(rec, c) # tree[Path[c]]}
      own == {c \in DeclaredAt(rec, at, Unnamed) : Place(rec, "decl", c) > ref.seq}
  IN IF tree = <<>> THEN "unknown"
     ELSE IF moved # {} THEN IF own # {} THEN "own" ELSE "foreign"
     ELSE IF \E c \in bound : Sha(rec, c) = "none" THEN "unknown" ELSE "met"

\* stateOf: the table, first match wins, of a family that has a run.
StateOf(rec, f, at, tree) ==
  LET runs == RunsAt(rec, f, at)
      last == Latest(runs)
      greens == {r \in runs : IsGreen(r)}
      ref == IF greens = {} THEN last ELSE Latest(greens)
      counted == Counted(rec, f, ref, at)
      after == {c \in counted : Place(rec, "decl", c) > last.seq}
      bound == IF last \in greens THEN Bind(rec, f, last, at, tree) ELSE "unknown"
      is(state, reason) ==
        [gate |-> f, state |-> state, reason |-> reason, last |-> last, greens |-> greens,
         counted |-> counted, bound |-> bound]
  IN CASE last.background -> is("backgrounded", "background_launch")
       [] ~last.background /\ Masked(last) ->
            IF after # {} THEN is("stale", "masked_then_writes") ELSE is("masked", "masked")
       [] ~last.background /\ ~Masked(last) /\ EmptyRun(last) -> is("absent", "empty_run")
       [] IsRed(last) -> is("red", IF after # {} THEN "red_then_writes" ELSE "failed")
       [] OTHER ->
            IF OutcomeNotKnown(last) THEN is("unknown", "outcome_unknown")
            ELSE IF OrderNotKnown(last) THEN is("unknown", "order_unknown")
            ELSE IF counted # {} \/ bound = "own" THEN is("stale", "writes_after_green")
            ELSE IF bound = "foreign" THEN is("stale", "stale_foreign")
            ELSE is("green", "ok")

GateStates(rec, at, tree) ==
  IF ~Complete(rec, at) THEN {}
  ELSE {StateOf(rec, f, at, tree) : f \in {g \in Families : RunsAt(rec, g, at) # {}}}

-----------------------------------------------------------------------------
\* The one order over states, the worst first.
Order == <<"red", "masked", "backgrounded", "stale", "absent", "unknown", "green">>
Rank(state) == CHOOSE i \in DOMAIN Order : Order[i] = state
Worst(states) == CHOOSE s \in states : \A t \in states : Rank(s) <= Rank(t)

\* recordGreen: with no finding, every required gate green and one at least.
RecordGreen(gates) ==
  LET required == {g \in gates : g.gate \in Required}
  IN required # {} /\ \A g \in required : g.state = "green"

\* TurnSummary, of the prompt whose first declaration is the latest.
Turn(rec, at) ==
  LET lines == rec.log
      decls == {i \in 1..at : lines[i].type = "decl"}
      opens == {i \in decls : \A j \in decls : j < i => PromptOf[lines[j].call] # PromptOf[lines[i].call]}
  IN PromptOf[lines[Max(opens)].call]
OfTurn(rec, at, S) ==
  LET turn == Turn(rec, at)
  IN {c \in DeclaredAt(rec, at, S) : PromptOf[c] = turn}

\* (broken: a green run stands from its outcome)
GreenLanded(g) == IF g.greens = {} THEN 0 ELSE Landed(Latest(g.greens))
GreenSeq(g) == IF g.greens = {} THEN 0 ELSE Latest(g.greens).seq
LastUnnamed(rec, at) == Max({0} \cup {Place(rec, "decl", c) : c \in OfTurn(rec, at, Unnamed)})

RowFor(state) ==
  CASE state \in {"red", "masked", "backgrounded"} -> state
    [] state \in {"stale", "absent"} -> "unverified"
    [] OTHER -> "unknown"

Advisory(gates) == \A g \in gates : g.gate \notin Required
TurnGates(gates) == IF Advisory(gates) THEN gates ELSE {g \in gates : g.gate \in Required}

\* With several gates the earliest last green is the one a later unnamed
\* write can invalidate.
Invalidated(rec, at, gates) == LastUnnamed(rec, at) > Min({GreenSeq(g) : g \in gates})

RowOf(rec, at, gates, wrote) ==
  LET of == TurnGates(gates)
      worst == Worst({g.state : g \in of})
  IN IF of = {} THEN IF wrote THEN "no_gate" ELSE "none"
     ELSE IF worst # "green" THEN RowFor(worst)
     ELSE IF ~wrote THEN "ran_only"
     ELSE IF Advisory(gates) THEN "unverified"
     ELSE IF Invalidated(rec, at, of) THEN "unnamed_write"
     ELSE IF RecordGreen(gates) THEN "verified" ELSE "findings"

TurnSummary(rec, at, tree) ==
  LET turn == OfTurn(rec, at, Calls)
      wrote == turn \cap Named # {}
      ran == {c \in turn \cap Runs : Executions(rec, c) # {}}
  IN IF DeclaredAt(rec, at, Calls) = {} \/ (~wrote /\ ran = {}) THEN "none"
     ELSE IF ~Complete(rec, at) THEN "unknown"
     ELSE RowOf(rec, at, GateStates(rec, at, tree), wrote)

-----------------------------------------------------------------------------
\* The ledger: what each required gate owes, and whether it is met.
Owed(g) == g.state # "absent" \/ g.counted # {}
GateAfterWrite(g) ==
  CASE g.state = "green" -> "met"
    [] g.state = "red" \/ (g.state = "stale" /\ g.counted # {}) -> "unmet"
    [] g.state = "backgrounded" \/ (g.state = "absent" /\ g.counted # {}) -> "open"
    [] OTHER -> "unknown"
ExitUnmasked(g) ==
  CASE g.state = "masked" \/ g.reason = "masked_then_writes" -> "unmet"
    [] g.state \in {"green", "red", "stale", "absent"} /\ g.reason # "masked_then_writes" -> "met"
    [] OTHER -> "unknown"
EvidenceBound(g) ==
  CASE g.state = "green" /\ g.bound = "met" -> "met"
    [] g.reason = "writes_after_green" -> "unmet"
    [] OTHER -> "unknown"

\* watches: the last red run and the first green run after it.
Reds(rec, f, at) == {r \in RunsAt(rec, f, at) : r.exec # 0 /\ IsRed(r)}
GreensAfter(rec, f, at, red) == {r \in RunsAt(rec, f, at) : IsGreen(r) /\ r.seq > red.seq}
FirstGreen(rec, f, at, red) ==
  CHOOSE r \in GreensAfter(rec, f, at, red) : \A s \in GreensAfter(rec, f, at, red) : r.seq <= s.seq

\* (broken: a write made while the red run was in flight answers it)
FixesFromDeclaration(rec, f, red, green) == WritesIn(rec, f, red.seq, green.seq - 1)

\* watchedRow: the writes that lie between where the red landed and the green.
Fixes(rec, f, red, green) == WritesIn(rec, f, Landed(red), green.seq - 1)
Watched(rec, f, at) ==
  IF Reds(rec, f, at) = {} THEN "none"
  ELSE LET red == Latest(Reds(rec, f, at))
       IN IF GreensAfter(rec, f, at, red) = {} THEN "open"
          ELSE IF Fixes(rec, f, red, FirstGreen(rec, f, at, red)) # {} THEN "met" ELSE "unmet"

=============================================================================
