SPECIFICATION Spec

CONSTANTS
    Bits = 5
    Sizes <- Powers
    MinPrefix = 1
    tuiMaxPrefix = 2
    tuiWarnPrefix = 3
    ChunkSize = 3
    MaxPort = 4
    TargetLists <- Lists
    PortSpecs <- Specs

INVARIANTS
    TargetsInv
    JobsDistinct
    ScansWhatWasAsked
    OnlyScannedAreAdded
    TurnsAreFair
