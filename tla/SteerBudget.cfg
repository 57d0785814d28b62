\* Two prompts, each with its Stop: a gate run and two writes that race for its
\* arm in the first, and a briefing before, among or after its hooks. Two notes a
\* prompt, of which one of the write's leaves one to the others, and one flag:
\* each refuses something of the second post.
CONSTANTS
  g1 = g1
  w1 = w1
  w2 = w2
  s1 = s1
  s2 = s2
  c1 = c1
  Hooks <- MCHooks
  Kind <- MCKind
  Prompt <- MCPrompt
  Clock <- MCClock
  Calls <- MCCalls
  Draws <- MCDraws
  Prompts = {1, 2}
  Versions = {1, 2}
  MaxNotes = 2
  MaxFlags = 1
  MaxFaults = 1
  AutoCompact = TRUE
  Nobody = Nobody
SPECIFICATION Spec
SYMMETRY Symmetry
INVARIANTS
  TypeOK
  PrintedIsRecorded
  BudgetKept
  NoticeOnce
  OneJudgePerArm
  WorkingChannelStaysOpen
CONSTRAINT
  LaterShows
CHECK_DEADLOCK FALSE
