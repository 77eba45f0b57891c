SPECIFICATION Spec
CONSTANTS
    A = A
    B = B
    C = C
    p = p
    q = q
    r = r
    none = none
    Declared <- MCDeclared
    Anonymous = {p, q, r}
    None = none
    Corpus <- MCModels
INVARIANTS
    FlaggedAreWhole
    FlattenedOutsideCycles
    ReportedOnce
    WalkEnds
    MarkersCloseCycles
PROPERTIES
    Terminates
CHECK_DEADLOCK FALSE
