SPECIFICATION Spec
CONSTANTS
    api = api
    near = near
    far = far
    lib = lib
    l1 = l1
    l2 = l2
    Null = Null
    None = None
    Paths = {"/r"}
    Annotations = {"(note)"}
    Media = {"text/xml"}
    UsedAs = {"p"}
    Entry0 = far
    Corpus <- MCCorpus
    Written <- MCWritten
INVARIANTS
    OverlayChangesNothing
    AuthorsKnown
    SeenAlongTheChain
    RestatedUnchanged
CHECK_DEADLOCK FALSE
