SPECIFICATION Spec
CONSTANTS
  Req = {r1, r2}
  Scorer = {s1, s2}
  Base = 1
  Half = 4
  Wrap = 8
  MaxNow = 3
  MaxRequests = 3
  MaxOffences = 3
  MaxResets = 1
  None = None
CHECK_DEADLOCK FALSE
INVARIANTS TypeOK WorkerAtHand NeverOverPunished
