SPECIFICATION Spec
CONSTANTS
    Byte = {10, 97}
    Newline = 10
    MaxLength = 3
    Jobs <- AllJobs
INVARIANTS
    WrongRefused
    ReadAsWritten
    AcceptsExactly
    BoundariesExact
    TrailGivesBack
    ActionsAsWritten
PROPERTY
    AlwaysFurther
