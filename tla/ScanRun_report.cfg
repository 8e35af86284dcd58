SPECIFICATION FairSpec

CONSTANTS
    Hosts = {1, 2}
    Ports = {80, 443}
    WebPorts = {80, 443}
    CanOpen <- FirstHost
    Discoverable = {2}
    ARPHosts = {1}
    CommandLines <- AllKinds
    ProbeWorkers = 1
    PostEvery = 3
    MaxTicks = 1

INVARIANTS
    RunInv
    ReportComplete
    StreamCoversReport
    HostDiscoveredOnce
    EnrichmentCountsUp

PROPERTIES
    RunEnds
