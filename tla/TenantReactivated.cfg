SPECIFICATION Spec
CONSTANTS
    Requests = {q1, q2}
    Gateways = {g1}
    Null = Null
    Wait = 2
    CacheTTL = 2
    MaxOpen = 1
    MaxFaults = 0
SYMMETRY Symmetry
PROPERTIES NeverReactivated
