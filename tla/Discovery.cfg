SPECIFICATION FairSpec
CONSTANTS
    Addresses = {1, 2, 3}
    Enabled = {"ssdp", "mdns"}
    Scope <- Nested
    Eligible = {1, 3}
    Datagrams <- Some
    Describes = {1}
    FetchSlots = 1
INVARIANTS
    DiscoveryInv
    HeardIsReported
PROPERTIES
    ImplementsLAN
    DiscoveryEnds
