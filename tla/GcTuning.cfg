SPECIFICATION TuningSpec
CONSTANTS
    s1 = s1
    s2 = s2
    s3 = s3
    nobody = nobody
    none = none
    Spans <- MCSpans
    Young = {1, 2}
    Fulls = {1, 3, 4}
    FullCollectionThreshold = 3
    Nobody = nobody
    None = none
SYMMETRY MCSymmetry
INVARIANTS
    TypeOK
    HostThresholdsBack
    OnlyRaises
PROPERTIES
    NoRestoreUnderAnother
