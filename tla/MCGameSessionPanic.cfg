SPECIFICATION PanicSpec
CONSTANTS
    N = 4
    Deps <- MCDeps
    Offers <- MCOffers
    Uses <- MCUses
    Orders <- MCOrders
INVARIANT
    GameGoesClean
