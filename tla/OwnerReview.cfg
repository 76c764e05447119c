SPECIFICATION Spec
CONSTANTS
  Sessions = {1, 2}
  MaxLen = 2
  Texts = {1}
  Context = 1
  Results = {1, 2}
  MaxChanges = 1
  MaxResets = 1
  MaxBatches = 2
  Blank = 0
INVARIANTS
  SealedWithItsBatch
  EvidenceStands
  IInv
PROPERTY NothingIsSkipped
CHECK_DEADLOCK FALSE
