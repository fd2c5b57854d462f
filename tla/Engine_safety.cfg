CONSTANTS
    host = host
    self = self
    ssh = ssh
    Peer = {host}
    Self = self
    Safe = {self}
    MayStick = {host}
    Flow = {ssh}
    PeerOf <- Peers
    RuleAction = {"allow", "deny", "reject"}
    MaxAlerts = 1
    ReaderDies = TRUE
SPECIFICATION FairSpec
INVARIANTS
    BlockedSourceStopped
    AlertStopsPacket
    RepliesAnswerUs
PROPERTIES
    MonitorBlocksNobody
    IsInlineFilter
