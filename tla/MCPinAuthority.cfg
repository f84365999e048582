SPECIFICATION Spec
CONSTANTS
    short = short
    long = long
    other = other
    Pins = {short, long}
    PinLength <- MCPinLength
    ComplexPins = {long}
    NoPin = NoPin
    UnknownPin = UnknownPin
    MAX_PIN_RETRIES = 2
    MAX_CONSECUTIVE_PIN_MISMATCHES = 1
    DEFAULT_MIN_PIN_LENGTH = 4
    MinLengths = {4, 6}
    Protocols = {1}
    PermissionSets = {{"acfg", "mc"}}
    MaxKey = 2
    MaxImages = 2
    Faults = {"io", "write", "flush", "crash", "power"}
CONSTRAINT FewImages
INVARIANTS
    GuessesBounded
    LiveMatchesStored
    ProtectionPersists
    TokensBoundToPin
    PolicyHonoured
PROPERTIES
    ChangeNeedsProof
