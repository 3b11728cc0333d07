\* Destructors that use the property being overwritten.
CONSTANTS
    Objects = {a, b}
    Root = root
    None = none
    MaxFields = 1
    Meddling = TRUE
SPECIFICATION Spec
INVARIANT
    CountsAreExact
CHECK_DEADLOCK FALSE
