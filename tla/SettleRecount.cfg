SPECIFICATION Spec
CONSTANTS
  q1 = q1
  q2 = q2
  w1 = w1
  w2 = w2
  w3 = w3
  Question = {q1, q2}
  Worker = {w1, w2, w3}
  Recipient = {r1, r2}
  Settler = {s1}
  Final <- MCFinal
  Benchmark <- MCBenchmark
  BatchSizes = {2}
  MaxCalls = 2
  None = None
CHECK_DEADLOCK FALSE
INVARIANT QualifiedCounted
