SPECIFICATION Spec
CONSTANTS
    N = 3
    Deps <- MCDeps
    Offers <- MCOffers
    Uses <- MCUses
    Orders <- MCOrders
INVARIANTS
    HalfPreparedHidden
    NoOrphanHooks
    IInv
    NativeCodeKeepsMods
PROPERTY
    Implements
