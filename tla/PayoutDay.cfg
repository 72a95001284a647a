SPECIFICATION Spec
CONSTANTS
  Question = {q1, q2}
  Worker = {w1, w2, w3}
  Required = 2
  TotalReward = 100
  MinTasks = 2
  BenchmarkMinScore = 6
  DayParts = 2
  None = None
  Answer = {ref, other}
  Reference = ref
  Invalid = Invalid
CHECK_DEADLOCK FALSE
INVARIANTS PoolNotOverspent TimeoutNeverPays EstimateMirrorsSettlement
  BenchmarkNeedsBothRoles AnyListSettles
