SPECIFICATION Spec
CONSTANTS
    Jobs = {j1}
    NoJob = NoJob
    OldDays = 1
    MaxFaults = 0
INVARIANTS NothingLeft
