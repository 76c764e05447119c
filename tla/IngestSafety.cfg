SPECIFICATION Spec
CONSTANTS
  Ingester = {daemon, cli}
  Msg = {a, b}
  Late = {b}
  Fork = fork
  Boundary = boundary
  Adapter = {FALSE}
  Legacy = TRUE
  Kind = {"claim"}
  MayRetract = TRUE
  Attempts = 2
  None = None
  MaxLen = 2
  MaxWrites = 2
  MaxFaults = 0
SYMMETRY Symmetry
INVARIANTS
  NothingSkipped
  IInv
  SkipIsHonest
  WindowsFollow
PROPERTY KeepsItsWord
CHECK_DEADLOCK FALSE
