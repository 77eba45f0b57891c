SPECIFICATION Spec
CONSTANTS
    api = api
    lib = lib
    flat = flat
    deep = deep
    None = None
    Files = {api, lib}
    Roots = {api}
    Texts = {flat, deep}
    Depths = {1, 2}
    Fits <- MCFits
    Reads <- MCReads
    Synthetic = {}
    Written <- MCWritten
    MaxHeld = 1
    MaxGeneration = 3
INVARIANTS
    EntriesCurrent
    ComposedOnce
PROPERTIES
    StoreSpec
