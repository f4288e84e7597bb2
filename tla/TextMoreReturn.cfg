SPECIFICATION Spec
CONSTANTS
    Letter = {a}
    NL = NL
    NUL = NUL
    NoText = NoText
    Inputs <- AllInputs
    Cap = 3
    MaxInput = 3
    MaxOpened = 1
    MaxLine = 1
    Calls = {"yymore", "return"}
    FileBacked = FALSE
    Nodefault = TRUE
    Yylineno = FALSE
    EmptyHead = FALSE
CHECK_DEADLOCK FALSE
PROPERTY
    MorePrependsPrevious
