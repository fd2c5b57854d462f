SPECIFICATION PacketSpec
CONSTANTS
    NoPacket = NoPacket
    NoAddress = 0
    Address <- Hosts
    Port <- Ports
    Raw <- Delivered
    Choice <- Editable
INVARIANTS
    MatchesAsWritten
    UnreadIsUnmatched
    OneFlowBothWays
