SPECIFICATION Spec
CONSTANTS
  Session = {s1, s2}
  Worker = {w1, w2}
  t1 = t1
  t2 = t2
  t3 = t3
  Text = {t1, t2, t3}
  SetId = {b1, b2}
  Similar <- MCSimilar
  Length <- MCLength
  Limits = {0, 1}
  DefaultLimit = 1
  RateLimit = 2
  MaxNow = 2
  MaxRequests = 3
  MaxAdmin = 2
  MaxBatch = 2
  None = None
SYMMETRY Symmetry
CHECK_DEADLOCK FALSE
INVARIANTS TypeOK BurstBounded TwinsBounded TotalCounted ClosedSetSettles
