\* Two learn commands of one project at two terminals, free to overlap. Nothing
\* is killed and nothing else writes the ledger's files.
CONSTANTS
  Lessons = {x, y}
  Verbs = {v1, v2}
  Readers = {}
  Absent = Absent
  MaxKills = 0
  MaxForeign = 0
  Overlap = TRUE
SPECIFICATION Spec
INVARIANT WithdrawnStaysOut
CHECK_DEADLOCK FALSE
