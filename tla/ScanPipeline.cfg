SPECIFICATION FairSpec

CONSTANTS
    N = 7
    Workers = {w1, w2}

INVARIANTS
    NoSendOnClosedChannel
    ProgressIsExact
    NoDuplicateResult
    PipelineInv

PROPERTIES
    ImplementsContract
    StepsRunOut
    ScanEnds
