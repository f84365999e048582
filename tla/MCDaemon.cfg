SPECIFICATION FairSpec
CONSTANTS
    MaxInstance = 2
    MaxId = 1
    Pids = {"p1", "p2"}
    NoPid = "-"
    Commands = {"c1"}
    Args = {"default", "other"}
    DefaultArgs = "default"
    UsesService = TRUE
    MaxKills = 1
    MaxRuns = 1
CHECK_DEADLOCK FALSE
INVARIANTS PidFileOfHolder  OwnServerOnly
 
