\* Two daemons, one change in the life of each, a clock with two readings.
CONSTANTS
    None = None
    MaxEpoch = 2
    MaxGeneration = 1
    MaxClock = 1
    MaxMoves = 1
SPECIFICATION FairSpec
CHECK_DEADLOCK FALSE
INVARIANTS
    TimerArmed
PROPERTIES
    EpochsDoNotReturn
    Converges
