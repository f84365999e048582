SPECIFICATION Spec
CONSTANTS
    Lines <- MCLines
    PinLength <- MCPinLength
    NotText = {}
    TooLong = {}
    CAUGHT_SIGNALS <- MCSignals
    Cases <- MCCases
    ComplexPins = {"q6"}
    Passkeys = {1, 2, 3}
    RpOf <- MCRpOf
    MAX_PIN_RETRIES = 2
    LOCK_AFTER = 2
    MaxStarts = 3
    PIN_ATTEMPTS = 2
INVARIANTS
    
    PinHidden
    SignalsKept
    LeftAsFound
    SetupReady
CHECK_DEADLOCK FALSE
