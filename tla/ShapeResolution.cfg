SPECIFICATION Spec
CONSTANTS
    a = a
    b = b
    c = c
    d = d
    k = k
    Shapes <- MCShapes
    Unknown = Unknown
    Missing = Missing
    Corpus <- MCModels
INVARIANTS
    KindsByDefinition
    MarkedIffUnsound
    WalkedOnce
PROPERTIES
    Terminates
CHECK_DEADLOCK FALSE
