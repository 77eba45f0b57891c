SPECIFICATION Spec
CONSTANTS
    api = api
    l1 = l1
    l2 = l2
    t = t
    Files <- MCFiles
    Entry = api
    Corpus <- MCCorpus
INVARIANTS
    TypeOK
    DecodedOnce
    MarkedIffFailed
    LinkedAsItStands
    EveryProblemReportedOnce
PROPERTIES
    Terminates
