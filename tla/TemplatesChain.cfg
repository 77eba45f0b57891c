SPECIFICATION Spec
CONSTANTS
    None = None
    r1 = r1
    r2 = r2
    A = A
    B = B
    paged = paged
    secured = secured
    get = get
    put = put
    p = p
    body = body
    auth = auth
    Resources = {r1, r2}
    Root = r1
    Children <- MCChildren
    Methods = {get, put}
    Facets = {body, auth}
    Params = {p}
    Types = {A, B}
    Traits = {paged, secured}
    Names = {"A", "B", "x.paged", "y.secured", "paged", "secured", "gone"}
    Finds <- MCFinds
    Corpus <- MCCorpus
INVARIANT
    ChainTraitsKept
