SPECIFICATION Spec
CONSTANTS
    Addresses = {1, 2}
    Enabled = {"ssdp", "mdns", "llmnr", "wsd"}
    Scope <- Single
    Eligible = {1}
    Datagrams <- Described
    Describes = {1, 2}
    FetchSlots = 8
INVARIANTS
    DescriptionsArrive
