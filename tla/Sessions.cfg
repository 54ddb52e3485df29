SPECIFICATION Spec
CONSTANTS
    c1 = c1
    c2 = c2
    ad = ad
    Clients <- MCClients
    Admin = ad
    MaxTokens = 3
    MaxSessions = 2
    MaxChanges = 1
    Horizon = 5
    MaxEvents = 4
    Grace = 1
    Skew = 0
    AccessTTL = 2
    Margin = 1
    Recheck = 1
SYMMETRY ClientSymmetry
INVARIANTS
    EndedStaysEnded
    OneLiveToken
    OldCredentialFades
    SocketFollowsSession
CHECK_DEADLOCK FALSE
