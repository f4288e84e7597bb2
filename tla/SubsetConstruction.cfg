SPECIFICATION FairSpec
CONSTANTS
    NfaState = {0, 1, 2, 3, 4, 5}
    N = 3
    Nfas <- AllNfas
INVARIANTS
    ClosureExact
    SetsDistinct
    RowsExact
PROPERTIES
    FollowsNfa
    Returns
