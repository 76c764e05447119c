SPECIFICATION FairSpec
CONSTANTS
  Harness = {h1}
  File = {f1}
  Noise = {}
  Noter = {observer}
  Worker = {w1, w2}
  Deriver = {d1}
  None = None
  MaxRetries = 1
  MaxChanges = 1
  MaxFaults = 1
  ResolveRaises = FALSE
  MayStop = TRUE
PROPERTIES
  NotedIsIngested
  CommittedIsDerived
  StopCompletes
  Coalesces
CHECK_DEADLOCK FALSE
