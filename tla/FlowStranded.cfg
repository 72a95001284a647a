SPECIFICATION FairSpec
CONSTANTS
  Worker = {w1, w2, w3}
  Questioner = {w1, w2, w3}
  Question = {q1}
  Session = {s1}
  Job = {j1}
  Least = 2
  Most = 2
  MaxChanges = 0
  MaxAssign = 2
  MaxTimers = 1
  MaxCrash = 1
  MaxFault = 0
  None = None
  Answer = {ref}
  Reference = ref
  Invalid = Invalid
PROPERTY RepliesOfScoredAreScored
