CONSTANTS
    a1 = a1
    a2 = a2
    n = n
    A = A
    NoAccount = NoAccount
    Unavailable = Unavailable
    Ids = {a1, a2, n}
    Account <- MCAccount
    MaxRev = 1
    MaxCredentials = 2
    MaxKey = 2
    FlushSupported = TRUE
    MaxImages = 2
    Faults = {"write", "flush", "crash", "power"}
SPECIFICATION Spec
CONSTRAINT FewImages
SYMMETRY AccountSymmetry
INVARIANTS FlushedIsDurable
PROPERTIES AtomicSet
