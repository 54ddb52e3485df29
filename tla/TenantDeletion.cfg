SPECIFICATION FairSpec
CONSTANTS
    Jobs = {j1, j2}
    NoJob = NoJob
    OldDays = 2
    MaxFaults = 2
INVARIANTS RecordedEmpty
PROPERTIES Completes
