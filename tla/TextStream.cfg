SPECIFICATION Spec
CONSTANTS
    Letter = {a}
    NL = NL
    NUL = NUL
    NoText = NoText
    Inputs <- AllInputs
    Cap = 4
    MaxInput = 3
    MaxOpened = 2
    MaxLine = 8
    Calls = {"input", "unput", "yyless", "REJECT", "yyrestart", "return"}
    FileBacked = TRUE
    Nodefault = FALSE
    Yylineno = TRUE
    EmptyHead = TRUE
INVARIANTS
    TypeOK
    TextEndsAtCursor
    NoStrayNul
PROPERTIES
    ImplementsStream
    
