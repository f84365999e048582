CONSTANTS
    a1 = a1
    a2 = a2
    A = A
    NoAccount = NoAccount
    Unavailable = Unavailable
    Ids = {a1, a2}
    Account <- MCAccount
    MaxRev = 0
    MaxCredentials = 2
    MaxKey = 3
    FlushSupported = TRUE
    MaxDamage = 1
    MaxImages = 2
    Faults = {"write", "flush", "crash", "power"}
SPECIFICATION RepairSpec
CONSTRAINT FewImages
INVARIANTS NothingLost ServesWhole RepairHeals
