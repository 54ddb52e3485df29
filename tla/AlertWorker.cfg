SPECIFICATION MCSpec
CONSTANTS
    None = None
    Workers = {w1, w2}
    Rules <- MCRules
    Readings <- MCReadings
    LogLength = 3
    BatchMax = 2
    MaxRetries = 2
    Window = 2
    CacheMax = 1
    MaxAge = 1
    RetrainWindow = 3
    Lookback = 2
    MinDrift = 2
    MinLabels = 1
    Floor = 60
    MaxNow = 3
    MaxLabels = 1
    MaxRounds = 3
    MaxFaults = 2
INVARIANTS CooldownHolds RuledNotSkipped RecommendedOnEvidence
PROPERTIES AllCommitted
