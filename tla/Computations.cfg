SPECIFICATION BothSpec
CONSTANTS
  Answer = {ref, other, third}
  Reference = ref
  Invalid = Invalid
  MaxReplies = 5
  MaxLeaves = 9
INVARIANTS TruthDominates HardButSolvable PoolPaidOnce
  AcceptsExactlyItsLeaf PositionInLevel
CHECK_DEADLOCK FALSE
