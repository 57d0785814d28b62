------------------------------ MODULE MCGates -------------------------------
(***************************************************************************)
(* The instance of Gates: one agent runs a gate twice, the second time at  *)
(* the next prompt, and another makes a named and an unnamed write.        *)
(***************************************************************************)
EXTENDS Gates

CONSTANTS r1, r2, w1, w2, f, p

Ran(passed) == [Unread EXCEPT !.passed = passed, !.outcome = IF passed THEN "ok" ELSE "failed", !.coded = TRUE]
NotItsOwn(output) ==
  [Unread EXCEPT !.hidden = TRUE, !.keeps = TRUE, !.delegate = TRUE, !.output = output]

Launches(x) == [x EXCEPT !.background = TRUE]

\* A plain run of either end, one in the background, or one whose pipe hid its
\* status and kept a summary that is not its own, in the background too; and
\* then a run that passes.
MCReadings ==
  [c \in {r1} |-> {Ran(TRUE), Ran(FALSE), Launches(Ran(FALSE)),
                   NotItsOwn("summary_pass"), Launches(NotItsOwn("summary_pass"))}]
  @@ [c \in {r2} |-> {Ran(TRUE)}]

MCCalls == {r1, r2, w1, w2}
MCKind == [c \in {r1, r2} |-> "run"] @@ [c \in {w1} |-> "tool"] @@ [c \in {w2} |-> "unnamed"]
MCFamily == [c \in {r1, r2} |-> f]
MCPath == [c \in {w1} |-> p]
MCCovers == [g \in {f} |-> {p}]
MCRequired == {f}
MCAgent == [c \in {r1, r2} |-> 1] @@ [c \in {w1, w2} |-> 2]
MCPrompt == [c \in {r1} |-> 1] @@ [c \in {w1, w2, r2} |-> 2]
MCPaths == {p}

\* Bound: a record that has told of itself that it is not complete says nothing
\* more of any gate, and is followed no further.
StillTells == signs \subseteq {"verified"}

=============================================================================
