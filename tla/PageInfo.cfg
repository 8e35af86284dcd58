SPECIFICATION FairSpec

CONSTANTS
    Hosts = {1, 2}
    Ports = {80}
    ProbeWorkers = 1
    MaxScans = 2
    MaxExports = 1

INVARIANTS
    PageInv
    PageKept
    ExportOnlyGains

PROPERTIES
    NeverClobbered
    SecondPassEnds
