---------------------------- MODULE SteerDecide -----------------------------
(***************************************************************************)
(* What one routed call may print, and what it writes of what it did not   *)
(* (internal/steer decide.go, budget.go, notice.go): the findings are      *)
(* ranked, clamped, checked against their channel and charged to what the  *)
(* prompt's lines in the log say was already delivered.                    *)
(*                                                                         *)
(* A finding is [key, level, prio, seq, own, reserve, text]: own is a      *)
(* pattern on its own channel (the briefing), reserve the notes its        *)
(* pattern leaves to the others, text what it says ("both", "aside": the   *)
(* user only, "none").  A call is [findings, rule, verified, attended,     *)
(* clamped, prompted, armOff, held]; a line is a finding's outcome.        *)
(***************************************************************************)
EXTENDS Integers, Sequences, FiniteSets, FiniteSetsExt, Functions

CONSTANTS
  MaxNotes,   \* notes a prompt may print
  MaxFlags    \* flags a prompt may print

\* What a judge hands to the router: findings with a place in the order and a
\* reserve each.
IsFinding(f) == f.own \in BOOLEAN /\ f.prio \in Int /\ f.seq \in Int /\ f.reserve \in Nat
IsCall(call) ==
  call.findings \in Seq(Range(call.findings)) /\ \A f \in Range(call.findings) : IsFinding(f)

-----------------------------------------------------------------------------
\* Own channel first, then priority, then the lower seq, then input order.
Before(fs, i, j) ==
  LET a == fs[i]
      b == fs[j]
      tie == a.own = b.own
  IN \/ a.own /\ ~b.own
     \/ tie /\ a.prio > b.prio
     \/ tie /\ a.prio = b.prio /\ a.seq < b.seq
     \/ tie /\ a.prio = b.prio /\ a.seq = b.seq /\ i < j

\* A stable sort: the members of S as the relation R puts them, which is total
\* on S; a member's place is the number of those before it.
InOrder(S, R) ==
  [n \in 1..Cardinality(S) |-> CHOOSE i \in S : Cardinality({j \in S : <<j, i>> \in R}) = n - 1]

\* The findings above off, in the order they are decided.
Ranked(fs) ==
  LET above == {i \in DOMAIN fs : fs[i].level # "off"}
      order == InOrder(above, {p \in above \X above : Before(fs, p[1], p[2])})
  IN [n \in DOMAIN order |-> fs[order[n]]]

\* Steering off, config or consent not read, an active Stop hook, or no
\* prompt to charge.
Clamped(call, f) == call.clamped \/ (~call.prompted /\ ~f.own)

LevelOf(call, f) ==
  IF /\ f.level \in {"nudge", "stop"} /\ ~Clamped(call, f)
     /\ call.rule # "flag" /\ f.text = "both"
  THEN "nudge" ELSE "flag"

\* Why the i-th finding is suppressed before the budget is asked, or "".
Refused(call, fs, i) ==
  CASE call.rule = "none" -> "no_channel"
    [] call.rule # "none" /\ \E j \in 1..(i - 1) : fs[j].key = fs[i].key -> "budget_pattern"
    [] OTHER ->
       IF fs[i].text = "none" THEN "render_refused"
       ELSE IF LevelOf(call, fs[i]) = "flag" THEN ""
       ELSE IF ~call.verified THEN "unverified_channel"
       ELSE IF ~call.attended THEN "no_mirror" ELSE ""

First(S) == IF S = {} THEN 0 ELSE CHOOSE i \in S : \A j \in S : i <= j

\* Why a note the prompt would pay for is not affordable, or "".
Unaffordable(f, have) ==
  IF f.key \in have.keys THEN "budget_pattern"
  ELSE IF ~f.own /\ have.notes + f.reserve >= MaxNotes THEN "budget_prompt" ELSE ""

\* charge: the index of the call's note and of its flag, 0 for none.
Charge(call, fs, have) ==
  LET asked(level) == {i \in DOMAIN fs : Refused(call, fs, i) = "" /\ LevelOf(call, fs[i]) = level}
      note == First({i \in asked("nudge") : Unaffordable(fs[i], have) = ""})
      flag == First({i \in asked("flag") : note = 0 /\ have.flags < MaxFlags})
  IN [note |-> note, flag |-> flag]

\* The state of the i-th line and the reason it carries.
Outcome(call, fs, have, won, i) ==
  LET f == fs[i]
      level == LevelOf(call, f)
      out(state, by) == [state |-> state, by |-> by]
      delivered == IF call.armOff THEN out("suppressed", "arm_off") ELSE out("delivered", "")
  IN IF Refused(call, fs, i) # "" THEN out("suppressed", Refused(call, fs, i))
     ELSE IF i = won.note \/ i = won.flag THEN delivered
     ELSE IF level = "flag" THEN out("candidate", "")
     ELSE IF f.key \in have.keys THEN out("suppressed", "budget_pattern")
     ELSE IF won.note # 0 /\ i > won.note THEN out("superseded", "budget_batch")
     ELSE out("suppressed", Unaffordable(f, have))

\* decide: the lines of a call, in decision order. A held-out note keeps its
\* line and its charge, and neither side gets its text. (A line names its pattern,
\* which is what own and reserve are read off.)
Lines(call, have) ==
  LET fs == Ranked(call.findings)
      won == Charge(call, fs, have)
  IN [i \in DOMAIN fs |->
        LET o == Outcome(call, fs, have, won, i)
            note == LevelOf(call, fs[i]) = "nudge"
            held == call.held /\ note /\ o.state = "delivered"
        IN [key |-> fs[i].key, level |-> LevelOf(call, fs[i]), own |-> fs[i].own,
            reserve |-> fs[i].reserve, state |-> o.state, by |-> o.by, held |-> held,
            told |-> note /\ o.state = "delivered" /\ ~held]]

\* The line that prints, 0 for none: a call has one systemMessage.
Printing(lines) ==
  First({i \in DOMAIN lines : lines[i].state = "delivered" /\ ~lines[i].held})

\* noticeFor: the line a once-per-session notice would stand in for, and its
\* marker; only a call that prints nothing else asks.
Notices == {"channel", "holdout"}
NoticeLine(lines) ==
  IF Printing(lines) # 0 THEN 0
  ELSE First({i \in DOMAIN lines : lines[i].by = "unverified_channel" \/ lines[i].held})
NoticeOf(line) == IF line.held THEN "holdout" ELSE "channel"

-----------------------------------------------------------------------------
\* countBudget: what the log says of a prompt. Evidence lines are no note's;
\* one foreign batch at the tail, lines of one prompt and one time, is passed
\* over, and the prompt's lines are then taken as far back as they are
\* contiguous.
Counted(line) == line.state = "delivered" \/ line.by = "arm_off"

\* Whether the lines at S may be of one append.
OneBatch(log, S) ==
  \A i, j \in S : log[i].at = log[j].at /\ log[i].prompt = log[j].prompt

\* (broken: a foreign line at the tail is the prompt's start)
OwnTail(log, prompt) ==
  LET notes == {i \in DOMAIN log : log[i].type = "note"}
      own == {i \in notes : log[i].prompt = prompt}
  IN {i \in own : \A j \in notes : i < j => j \in own}

OwnRun(log, prompt) ==
  LET notes == {i \in DOMAIN log : log[i].type = "note"}
      own == {i \in notes : log[i].prompt = prompt}
      last == Max(own \cup {0})
      tail == {i \in notes : i > last}
  IN IF ~OneBatch(log, tail) THEN {}
     ELSE {i \in own : \A j \in notes : i < j /\ j < last => j \in own}

Count(log, prompt) ==
  LET run == {i \in OwnRun(log, prompt) : Counted(log[i])}
      notes == {i \in run : log[i].level = "nudge"}
  IN [notes |-> Cardinality({i \in notes : ~log[i].own}),
      flags |-> Cardinality(run \ notes),
      keys |-> {log[i].key : i \in notes}]

=============================================================================
