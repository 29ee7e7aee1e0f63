SPECIFICATION FairSession
CONSTANTS
    N = 4
    Deps <- MCDeps
    Offers <- MCOffers
    Uses <- MCUses
    Orders <- MCOrders
INVARIANTS
    GameGoesClean
    FailureKeepsSession
    FailureStaysLocal
PROPERTY
    SessionEnds
