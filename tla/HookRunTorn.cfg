\* Two calls, one of which ran: any process may be killed in the middle of a
\* write, and any write may fail part way.
CONSTANTS
  c1 = c1
  c2 = c2
  Calls = {c1, c2}
  Ran = {c1}
  NoCall = NoCall
  Faults = {"kill", "write"}
  Resolved = {"none"}
  Stalled = {}
SPECIFICATION Spec
INVARIANTS
  SeqOrdered
  CleanCoverageIsBacked
PROPERTIES
  ImplementsEvidenceLog
