SPECIFICATION Spec
CONSTANTS
    Registered <- MCRegistered
    Sanctions <- MCSanctions
    ScreeningThreshold = 85
    CapByLevel <- MCCapByLevel
    Syncs = {1, 2}
    MaxReviews = 2
    InitialRates <- MCInitialRates
    RateChanges <- MCRateChanges
    MaxPresses = 3
    MaxVisits = 2
    MaxRateChanges = 1
    Environments <- MCEnvironments
INVARIANTS
    TypeOK
    SendsAreAsAsked
    AmountsAgree
PROPERTIES
    RejectionDropsTheTier
CHECK_DEADLOCK FALSE
