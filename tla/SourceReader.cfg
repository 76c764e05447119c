CONSTANTS
  Thread = {t1, t2}
  Plain = {f, db}
  Databases = {db}
  Targeted = {u}
  t1 = t1
  t2 = t2
  f = f
  db = db
  u = u
  MaxEntries = 1
  Capacity = 1
  MaxTries = 2
  MaxCalls = 3
  MaxWrites = 1
  MaxEvictions = 1
SPECIFICATION Spec
SYMMETRY Threads
INVARIANTS FreshRead WaitersHaveAFlight
PROPERTY VerifiedIsCurrent
CHECK_DEADLOCK FALSE
