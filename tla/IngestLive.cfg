SPECIFICATION FairSpec
CONSTANTS
  Ingester = {daemon}
  Msg = {a, b}
  Late = {b}
  Fork = fork
  Boundary = boundary
  Adapter = {TRUE, FALSE}
  Legacy = TRUE
  Kind = {"claim"}
  MayRetract = FALSE
  Attempts = 2
  None = None
  MaxLen = 2
  MaxWrites = 3
  MaxFaults = 1
PROPERTY Converges
CHECK_DEADLOCK FALSE
