SPECIFICATION FairSpec
CONSTANTS
    Readings <- MCReadings
    MaxLog = 3
    BatchMax = 2
    MaxFaults = 1
    MaxChanges = 2
    Width = 2
    Lateness = 1
INVARIANTS NothingDropped WindowsWhole
PROPERTIES FirstWriteWins SuspendedSettles AckedEndsUp
