SPECIFICATION Spec
CONSTANTS
    api = api
    lib = lib
    over = over
    out = out
    Unknown = Unknown
    Files <- MCFiles
    Inside <- MCInside
    Listed = {api, lib}
    Volatile = {lib}
    Path <- MCPath
    Written <- MCWritten
    Typed <- MCTyped
INVARIANTS
    SnapshotsFresh
    RootsAsDiscovered
