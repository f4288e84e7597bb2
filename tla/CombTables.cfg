SPECIFICATION Spec
CONSTANTS
    NStates = 4
    NClasses = 3
    Tables <- AllTables
CHECK_DEADLOCK FALSE
INVARIANTS
    LookupsInside
    LookupsAgree
