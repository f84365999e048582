SPECIFICATION Spec
CONSTANTS
    c1 = c1
    c2 = c2
    bcast = bcast
    none = none
    Cids = {c1, c2}
    Broadcast = bcast
    NoChannel = none
    NoBody = "-"
    PresenceBodies = {}
    MAX_CHANNELS = 1
    MaxPackets = 1
    UsedCommands = {"Init", "Wink", "Lock", "Undefined"}
    CborBodies = {}
    MsgBodies = {}
    MaxPending = 2
    Stops = FALSE
    Quiets = FALSE
SYMMETRY ChannelSymmetry
INVARIANTS LeaseExcludesOthers
