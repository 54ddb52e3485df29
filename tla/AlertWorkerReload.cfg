SPECIFICATION ReloadSpec
CONSTANTS
    None = None
    Workers = {w1}
    Rules <- MCRules
    Readings <- MCReadings
    LogLength = 2
    BatchMax = 2
    MaxRetries = 2
    Window = 2
    CacheMax = 1
    MaxAge = 1
    RetrainWindow = 3
    Lookback = 3
    MinDrift = 2
    MinLabels = 1
    Floor = 60
    MaxNow = 3
    MaxLabels = 1
    MaxRounds = 0
    MaxFaults = 1
INVARIANTS NothingSkipped
