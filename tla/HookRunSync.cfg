\* Two concurrent PreToolUse processes whose syncs, spill writes and coverage
\* records may fail, and whose Close may panic.
CONSTANTS
  c1 = c1
  c2 = c2
  Calls = {c1, c2}
  Ran = {}
  NoCall = NoCall
  Faults = {"write", "sync", "coverage", "panic_in_close"}
  Resolved = {"none"}
  Stalled = {}
SPECIFICATION Spec
SYMMETRY Symmetric
INVARIANTS
  FailedSyncIsMarked
