CONSTANTS
    web = web
    dns = dns
    Flow = {web, dns}
    Tcp = {web}
    Timeout <- Timeouts
    SweepEvery = 1
    MaxDelay = 1
    LastTick = 6
SPECIFICATION Spec
INVARIANT EstablishedIsMutual
PROPERTIES
    NoForgedReply
    RevivalBound
    IsFlowTable
