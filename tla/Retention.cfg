\* Two calls of two lines each and two forgets of one window; two hooks of an
\* idle session and two evictors; three writers of one spill file. Forgets and
\* evictors may be killed, and any append to the spill file cut short.
CONSTANTS
  Calls = {c1, c2}
  Forgets = {f1, f2}
  Nobody = Nobody
  MaxCopies = 1
  Kills = TRUE
  Hooks = {h1, h2}
  Evictors = {e1, e2}
  Old = 1
  MaxFiles = 5
  Writers = {w1, w2, w3}
  Tearable = {"locked", "lockless"}
SPECIFICATION MCSpec
SYMMETRY Symmetry
INVARIANTS
  TypeOK
  LossIsCounted
  CallsLeaveWhole
  CountedOnce
  PartTypes
  LossIsAdmitted
  EvictedOnce
  SpilledRecordReads
  LossIsTold
