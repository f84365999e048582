CONSTANTS
    PINS <- MCPINS
    RpOrder <- MCRpOrder
    Plans <- MCPlans
    MaxCredentials = 3
    PlainPin = "1234"
    MixedPin = "abc123"
SPECIFICATION Spec
INVARIANTS
    FaultsContained
    PinAudited
    AnswersKnown
    ManagementGranted
    StoreAsPublished
CHECK_DEADLOCK FALSE
