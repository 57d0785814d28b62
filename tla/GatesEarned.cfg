\* One agent runs a gate twice; another edits its file, and runs a command that
\* may write any file.
CONSTANTS
  r1 = r1
  r2 = r2
  w1 = w1
  w2 = w2
  f = f
  p = p
  Calls <- MCCalls
  CallKind <- MCKind
  Family <- MCFamily
  Path <- MCPath
  Covers <- MCCovers
  Required <- MCRequired
  PromptOf <- MCPrompt
  AgentOf <- MCAgent
  Paths <- MCPaths
  Readings <- MCReadings
  MaxFaults = 1
SPECIFICATION Spec
CONSTRAINT StillTells
INVARIANTS
  TypeOK
  GatesAreTrue
  VerifiedIsEarned
  BoundIsWhatRan
  WatchedFixCameAfter
PROPERTY EarlierPointsStand
CHECK_DEADLOCK FALSE
