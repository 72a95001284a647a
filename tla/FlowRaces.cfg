SPECIFICATION Spec
CONSTANTS
  Worker = {w1, w2, w3}
  Questioner = {w1, w2, w3}
  Question = {q1}
  Session = {s1, s2}
  Job = {j1, j2}
  Least = 1
  Most = 1
  MaxChanges = 0
  MaxAssign = 2
  MaxTimers = 2
  MaxCrash = 0
  MaxFault = 1
  None = None
  Answer = {ref}
  Reference = ref
  Invalid = Invalid
SYMMETRY Symmetry
INVARIANTS TypeOK NoOverAssignment ClaimWatched ScoringPending
PROPERTIES AssignmentsMoveForward ImplementsLife
