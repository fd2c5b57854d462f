CONSTANTS
    gateway = gateway
    host1 = host1
    host2 = host2
    reader = reader
    web = web
    sweep = sweep
    Ip = {gateway, host1, host2}
    Protected = {gateway}
    Callers = {reader, web}
    Sweeper = sweep
    Seconds <- Timed
    Start = 2
    LastTick = 4
    MayStick = {host2}
SPECIFICATION FairSpec
INVARIANTS
    NeverBlocksProtected
    KernelHasRecord
    NoKernelOverstay
    LogBalanced
PROPERTIES
    TimedBlocksLift
    IsBlockSet
