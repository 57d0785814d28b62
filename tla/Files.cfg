\* Three records of up to three bytes, forgotten twice; a lesson, two learn
\* commands one after the other and a prompt; two first hooks and two purges;
\* three pause or resume commands; three watch or detach commands, two of them
\* at once, beside another editor. In each, a process may be killed or a write
\* fail.
CONSTANTS
  Absent = Absent
  Unreadable = Unreadable
  Unknown = Unknown
  MaxKills = 1
  Lines = 3
  MaxLen = 3
  MaxForgets = 2
  Kills = {"between", "within"}
  Lessons = {x}
  Verbs = {v1, v2}
  Readers = {r1}
  MaxForeign = 1
  Hooks = {h1, h2}
  Purges = {p1, p2}
  First = First
  Pausers = {k1, k2, k3}
  Times = {1, 2, 3}
  Editors = {e1, e2, e3}
  Versions = {1, 2}
  Bodies = {b1, b2}
  Attempts = 3
  AtOnce = 2
  MaxEdits = 1
  MaxFaults = 1
  Overlap = FALSE
SPECIFICATION MCSpec
SYMMETRY Symmetry
INVARIANTS
  PartTypes
  KeptLinesRead
  OneLineDamagedEach
  ForgottenLinesGo
  OnlyApprovedArrives
  AlarmIsReal
  OneIdentity
  RerunAccepts
  HiddenCallsAreTold
  TheirsIsKept
  RestoredIsOriginal
CHECK_DEADLOCK FALSE
