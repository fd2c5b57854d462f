CONSTANTS
    host = host
    self = self
    ssh = ssh
    Peer = {host}
    Self = self
    Safe = {}
    MayStick = {}
    Flow = {ssh}
    PeerOf <- Peers
    RuleAction = {"allow", "deny", "reject"}
    MaxAlerts = 1
    ReaderDies = FALSE
SPECIFICATION Spec
INVARIANT RejectStopsPacket
