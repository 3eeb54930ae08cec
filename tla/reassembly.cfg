\* An exact server and one that sends what it likes.
SPECIFICATION FairSpec
CONSTANTS
    Size <- MCSize
    Totals = {2, 3}
    BareEmpties = FALSE
    None = None
INVARIANTS
    RightOrError
PROPERTIES
    ExactCompletes
CHECK_DEADLOCK FALSE
