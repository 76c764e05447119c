\* Two sessions, three activities, two starts of the daemon.
CONSTANTS
    Sessions = {s1, s2}
    MaxNotes = 3
    MaxEpoch = 2
SPECIFICATION FairSpec
CHECK_DEADLOCK FALSE
INVARIANTS
    NumberMeansContent
PROPERTIES
    LabelsAreRight
    FileSettles
