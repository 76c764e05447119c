SPECIFICATION LockFairSpec
CONSTANTS
  Conn = {c1, c2}
  Nobody = Nobody
INVARIANTS
  LockInv
  TransactionHoldsLock
  NoLeak
PROPERTY HolderLetsGo
