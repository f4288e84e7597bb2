SPECIFICATION Spec
CONSTANTS
    Radix = 4
    Magic = 177
    Scanners <- AllScanners
    Cuts <- SomeCuts
    MaxRuns = 2
    MaxLoads = 2
CHECK_DEADLOCK FALSE
INVARIANTS
    SuccessInStep
    OwnFileLoads
    LoadedWhole
    LookupsStayInside
