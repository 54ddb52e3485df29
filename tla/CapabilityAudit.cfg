SPECIFICATION Spec
CONSTANTS
    Consumers <- MCConsumers
    MaxEvents = 2
    MaxStream = 1
    Batch = 2
    MaxRepeats = 3
    MaxFaults = 1
    RepeatWindow = 2
    CountTTL = 2
INVARIANTS
    RecordedExactly
PROPERTIES
    Drained
