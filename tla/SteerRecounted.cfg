\* The posts of three gate runs, and a compaction between the first two.
CONSTANTS
  g1 = g1
  w1 = w1
  w2 = w2
  s1 = s1
  s2 = s2
  c1 = c1
  Hooks <- GateHooks
  Kind <- GateKind
  Prompt <- GatePrompt
  Clock <- GateClock
  Calls <- GateCalls
  Draws <- GateDraws
  Prompts = {1}
  Versions = {1}
  MaxNotes = 3
  MaxFlags = 1
  MaxFaults = 0
  AutoCompact = TRUE
  Nobody = Nobody
SPECIFICATION Spec
SYMMETRY Symmetry
INVARIANT
  OneBudgetPerPrompt
CHECK_DEADLOCK FALSE
