CONSTANTS
    d = d
    s = s
    t = t
    Stored = {d}
    Sealed = {s, t}
    Discoverable = {d}
    MaxCount = 2
    MaxKey = 2
    MaxImages = 2
    Faults = {"io", "write", "flush", "crash", "power"}
SPECIFICATION Spec
SYMMETRY SealedSymmetry
CONSTRAINT FewImages
INVARIANTS CountsGrow AnsweredIsSaved ResetIsFinal
