CONSTANTS
    Source = {"s", "t"}
    Port = {"ssh", "http"}
    LoginPort = {"ssh"}
    Kind <- Suite
    Limit <- Limits
    Window <- Windows
    Traffic <- Mix
    MaxTime = 3
    MaxPackets = 4
SPECIFICATION DetectorSpec
INVARIANTS
    BurstIsAlerted
    AlertIsJustified
