SPECIFICATION Spec
CONSTANTS
  Harness = {h1}
  File = {f1, f2}
  Noise = {x}
  Noter = {observer}
  Worker = {w1, w2}
  Deriver = {d1, d2}
  None = None
  MaxRetries = 1
  MaxChanges = 1
  MaxFaults = 2
  ResolveRaises = TRUE
  MayStop = TRUE
SYMMETRY Symmetry
INVARIANTS
  OneIngestPerHarness
  IInv
  NoLostWakeup
  NotedAccounted
  RequestHasWorker
  WindowsAccounted
  DeriveAttended
  QuietAfterStop
CHECK_DEADLOCK FALSE
