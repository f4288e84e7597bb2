SPECIFICATION Spec
CONSTANTS
    Buffer = {b1, b2, b3}
    NoBuf = NoBuf
    Outside = Outside
    File = {stdin, inc}
    Stdin = stdin
    NoFile = NoFile
    FirstStates = 1
    MaxDepth <- Depths
    Careful = TRUE
SYMMETRY BufferSymmetry
INVARIANTS
    TypeOK
    FreedOnce
    StackedLive
    OnlyTopEmpty
    BuffersIntact
    RestartReadsOwnFile
PROPERTIES
    DestroyFreesStack
    StatesAllocated
