SPECIFICATION Spec
CONSTANTS
  Worker = {w1, w2}
  Questioner = {w1, w2}
  Question = {q1}
  Session = {s1}
  Job = {j1}
  Least = 1
  Most = 1
  MaxChanges = 0
  MaxAssign = 2
  MaxTimers = 1
  MaxCrash = 0
  MaxFault = 0
  None = None
  Answer = {ref}
  Reference = ref
  Invalid = Invalid
PROPERTY RefusedOnlyWithoutClaim
