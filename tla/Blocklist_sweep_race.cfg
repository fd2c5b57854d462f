CONSTANTS
    gateway = gateway
    host1 = host1
    host2 = host2
    reader = reader
    web = web
    sweep = sweep
    Ip = {host1}
    Protected = {}
    Callers = {reader, web}
    Sweeper = sweep
    Seconds <- JustTimed
    Start = 2
    LastTick = 6
    MayStick = {}
SPECIFICATION Spec
PROPERTY SweepLiftsOnlyExpired
