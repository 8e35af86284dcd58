SPECIFICATION Spec
CONSTANTS
    Hosts <- One
    CanOpen <- One
    ARPHosts <- None
    MACHosts <- None
    Discoverable <- None
    CanMiss <- One
    CanLeave <- None
    Near <- None
    UserKeys = {"r", "a"}
    DeadAfter = 2
    DiscoverWorkers = 1
    ARPDead = FALSE
    MaxRescans = 1
INVARIANTS
    ARPToggleTakesEffect
