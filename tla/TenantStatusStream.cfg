SPECIFICATION FairSpec
CONSTANTS
    Publishers = {p1, p2}
    Followers = {f1}
    Interval = 1
    Stale = 3
    SendLag = 3
    MaxChanges = 2
    MaxFaults = 2
INVARIANTS ReachesIngestion
PROPERTIES NotStranded
