\* Whole sessions of two calls, one of which ran, with kills and failed syncs:
\* what the report makes of them.
CONSTANTS
  c1 = c1
  c2 = c2
  Calls = {c1, c2}
  Ran = {c1}
  NoCall = NoCall
  Faults = {"kill", "sync"}
  Resolved = {"none"}
  Stalled = {}
SPECIFICATION Spec
INVARIANTS
  VerifiedSessionIsWhole
