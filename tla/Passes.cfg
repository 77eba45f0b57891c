SPECIFICATION Spec
CONSTANTS
    r1 = r1
    r2 = r2
    r3 = r3
    r4 = r4
    r5 = r5
    o1 = o1
    o2 = o2
    o3 = o3
    p1 = p1
    oauth = oauth
    basic = basic
    API = API
    Null = Null
    None = None
    Top <- MCTop
    OperationsOf <- MCOperationsOf
    Nested <- MCNested
    ResponsesOf <- MCResponsesOf
    Resources = {r1, r2, r3, r4, r5}
    Operations = {o1, o2, o3}
    Responses = {p1}
    Definitions = {oauth, basic}
    Variable = {"v", "w", "x"}
    Malformed = {"{"}
    Corpus <- MCCorpus
INVARIANTS
    ReportedAsRun
    MarkedAsFound
    UriParametersByPath
    BoundOrMarked
CHECK_DEADLOCK FALSE
