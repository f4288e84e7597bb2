SPECIFICATION FairSpec
CONSTANTS
    Letter = {a}
    NL = NL
    NUL = NUL
    NoText = NoText
    Inputs <- AllInputs
    Cap = 5
    MaxInput = 5
    MaxOpened = 1
    MaxLine = 1
    Calls = {"yymore", "yyless"}
    FileBacked = FALSE
    Nodefault = TRUE
    Yylineno = FALSE
    EmptyHead = FALSE
CHECK_DEADLOCK FALSE
INVARIANT
    BolMatchesText
PROPERTIES
    MorePrependsPrevious
    ReachesEnd
