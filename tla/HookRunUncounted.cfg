\* A coverage record that could not be written, against what handle.go says of
\* it.
CONSTANTS
  c1 = c1
  c2 = c2
  Calls = {c1}
  Ran = {}
  NoCall = NoCall
  Faults = {"coverage"}
  Resolved = {"none"}
  Stalled = {}
SPECIFICATION Spec
INVARIANTS
  CallWithoutCoverageIsTold
