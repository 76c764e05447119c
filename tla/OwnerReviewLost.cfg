SPECIFICATION Spec
CONSTANTS
  Sessions = {1, 2}
  MaxLen = 2
  Texts = {1}
  Context = 1
  Results = {1}
  MaxChanges = 2
  MaxResets = 1
  MaxBatches = 2
  Blank = 0
PROPERTY EveryMessageIsReviewable
CHECK_DEADLOCK FALSE
