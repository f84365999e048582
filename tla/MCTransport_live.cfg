SPECIFICATION FairSpec
CONSTANTS
    c1 = c1
    c2 = c2
    bcast = bcast
    none = none
    Cids = {c1}
    Broadcast = bcast
    NoChannel = none
    NoBody = "-"
    PresenceBodies = {"p"}
    MAX_CHANNELS = 1
    MaxPackets = 1
    UsedCommands = {"Init", "Cbor", "Msg", "Cancel"}
    CborBodies = {"x"}
    MsgBodies = {"p"}
    MaxPending = 1
    Stops = TRUE
    Quiets = TRUE
CHECK_DEADLOCK FALSE
PROPERTIES  ShutdownReturns
