SPECIFICATION Spec
CONSTANTS
    MaxHandles = 2
    TTL = 2
    Revalidate = 1
INVARIANT StopAlwaysNamesItsCompany
