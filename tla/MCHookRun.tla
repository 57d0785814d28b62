----------------------------- MODULE MCHookRun -----------------------------
(***************************************************************************)
(* Small instances of HookRun.                                             *)
(***************************************************************************)
EXTENDS HookRun, TLC

CONSTANTS c1, c2

\* Two calls are interchangeable where neither is stalled and both ran, or
\* neither did.
Symmetric == Permutations(Calls)

OneStalled == {<<c2, "call">>}

=============================================================================
