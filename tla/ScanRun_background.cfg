SPECIFICATION Spec

CONSTANTS
    Hosts = {1}
    Ports = {80}
    WebPorts = {80}
    CanOpen <- FirstHost
    Discoverable = {}
    ARPHosts = {}
    CommandLines <- OnlyWebhook
    ProbeWorkers = 1
    PostEvery = 2
    MaxTicks = 0

INVARIANTS
    SecondPassInReport
