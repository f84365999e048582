SPECIFICATION FairSpec
CONSTANTS
    Events <- MCEvents
    MaxQueue = 1
    Seats = {"seat0", "seat1"}
    DefaultSeat = "seat0"
    NoSeat = "-"
    FileNames = {"seat0", "seat1"}
    Watches = {"notified", "polled"}
    MaxMoves = 2
CHECK_DEADLOCK FALSE
 
PROPERTIES WriterReleased PluggedWhenFree
