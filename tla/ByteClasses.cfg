SPECIFICATION Spec
CONSTANTS
    N = 4
    EdgeLists <- AllEdgeLists
    MaxEdges = 3
CHECK_DEADLOCK FALSE
INVARIANTS
    ClassesSeparate
    EveryClassUsed
    SplitsFit
