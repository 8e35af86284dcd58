SPECIFICATION Spec
CONSTANTS
    Hosts <- Both
    CanOpen <- One
    ARPHosts <- Two
    MACHosts <- Two
    Discoverable <- Two
    CanMiss <- One
    CanLeave <- None
    Near <- None
    UserKeys = {"r", "a"}
    DeadAfter = 2
    DiscoverWorkers = 1
    ARPDead = TRUE
    MaxRescans = 1
INVARIANTS
    WatchInv
    OneRowPerHost
    MissesBounded
    StatsHaveRows
PROPERTIES
    EvidenceStays
    RowsKeepTheirOrder
