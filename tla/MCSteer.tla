------------------------------ MODULE MCSteer -------------------------------
(***************************************************************************)
(* Instances of Steer: a session of two prompts, with their hooks and the  *)
(* calls their judges come up with.                                        *)
(***************************************************************************)
EXTENDS Steer, TLC

CONSTANTS g1, w1, w2, s1, s2, c1

MCHooks == {g1, w1, w2, s1, s2, c1}
MCKind == [h \in {g1} |-> "gate"] @@ [h \in {w1, w2} |-> "write"]
          @@ [h \in {s1, s2} |-> "stop"] @@ [h \in {c1} |-> "start"]
MCPrompt == [h \in {g1, w1, w2, s1} |-> 1] @@ [h \in {s2} |-> 2] @@ [h \in {c1} |-> 0]

\* The writes come in the same millisecond, every other hook in its own.
MCClock == [h \in {w1, w2} |-> 3] @@ (c1 :> 2) @@ (g1 :> 1) @@ (s1 :> 4) @@ (s2 :> 5)

Finding(key, level) ==
  [key |-> key, level |-> level, prio |-> 1, seq |-> 0, own |-> FALSE, reserve |-> 0, text |-> "both"]
Briefing == [key |-> "brief", level |-> "nudge", prio |-> 0, seq |-> 0, own |-> TRUE,
             reserve |-> 0, text |-> "both"]
Call(findings) == [findings |-> findings, attended |-> TRUE, clamped |-> FALSE, verified |-> TRUE]

\* A gate run's regression, with an aside for the user. A write that makes the
\* gate stale has the same regression to tell, then what its edit reaches, a
\* note that leaves one to the others, then that the gate is stale.
Regression == Call(<<Finding("red", "nudge"), Finding("aside", "flag")>>)
Stale == Call(<<[Finding("red", "nudge") EXCEPT !.prio = 2],
                [Finding("reach", "nudge") EXCEPT !.reserve = 1],
                Finding("stale", "nudge"), Finding("aside", "flag")>>)

MCCalls == [h \in {g1} |-> {Regression}] @@ [h \in {w1, w2} |-> {Stale}]
           @@ [h \in {c1} |-> {Call(<<Briefing>>)}]

\* A session whose notes are given, one held out, and one under CI, where the
\* posts have a flag only.
Treated == [armOff |-> FALSE, held |-> FALSE, ci |-> FALSE]
MCDraws == {Treated, [Treated EXCEPT !.held = TRUE], [Treated EXCEPT !.ci = TRUE]}

\* Bound: the sessions whose later version shows its notes. Where it does not,
\* the channel is one that there is no reason to keep open.
LaterShows == Max(Versions) \in carries

\* The posts of three gate runs of one prompt, each with the same regression,
\* and an automatic compaction.
GateHooks == {g1, w1, w2, c1}
GateKind == [h \in {g1, w1, w2} |-> "gate"] @@ [h \in {c1} |-> "start"]
GatePrompt == [h \in {g1, w1, w2} |-> 1] @@ [h \in {c1} |-> 0]
GateCalls == [h \in {g1, w1, w2} |-> {Regression}] @@ [h \in {c1} |-> {Call(<<Briefing>>)}]
GateClock == [h \in GateHooks |-> MCClock[h]]
GateDraws == {Treated}

Symmetry == Permutations({w1, w2})

=============================================================================
