SPECIFICATION Spec
CONSTANTS
    a = a
    b = b
    lib = lib
    t = t
    Files <- MCFiles
    Written <- MCWritten
    Typed <- MCTyped
    Removable = {t}
INVARIANTS
    ShownAsItIs
PROPERTIES
    Settles
