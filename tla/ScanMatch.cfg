SPECIFICATION Spec
CONSTANTS
    NRules = 3
    MaxLength = 2
    Walks <- AllWalks
CHECK_DEADLOCK FALSE
INVARIANTS
    FirstIsBest
    RejectsInOrder
    TextEndsHead
