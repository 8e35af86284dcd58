SPECIFICATION FairSpec
CONSTANTS
    Hosts <- Both
    CanOpen <- None
    ARPHosts <- One
    MACHosts <- One
    Discoverable <- None
    CanMiss <- One
    CanLeave <- One
    Near <- One
    UserKeys = {"r", "s", "p"}
    DeadAfter = 2
    DiscoverWorkers = 1
    ARPDead = TRUE
    MaxRescans = 1
PROPERTIES
    RescanEnds
    VerdictsCome
    GoneHostGoesDead
