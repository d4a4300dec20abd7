SPECIFICATION FairSpec
CONSTANTS
    None = None
    Live <- MCLive
    Pool <- MCPool
    NItems <- MCNItems
    Habit <- MCHabit
    Scripts <- MCScripts
    Priced = {"a", "b", "c", "e", "f"}
    MaxNow = 2
    Setup <- MCSetup
    Ids <- MCIds
    NpmWire <- MCNpmWire
    Able <- MCAble
    Needs <- MCNeeds
    ValidFor = 2
    Tries <- MCTries
    Budgeted = {"text", "reasoning", "stress", "tools"}
    Survival = {"code", "tools"}
    Kind <- MCKind
    MaxTurns = 3
    Attempts = 2
    Sandbox = TRUE
    MaxRequests = 4
    AbortRate = 25
    Band <- MCBand
    Ranked <- MCRanked
    Rounds = 2
    TokenCap = 8
    FreshFor = 1
    Deployable = {"a", "b"}
    SeatWeights <- MCSeatWeights
    SeatPenalty <- MCSeatPenalty
    TruncationMax = 8
    CompletionMin = 70
    Canon <- MCCanon
    RowOrder <- MCRowOrder
    Task <- MCTask
    MaxAge = 1
    Anchors <- MCAnchors
    Tier <- MCTier
    Banked = {"deep"}
    AcceptanceBands <- MCAcceptanceBands
INVARIANTS
    MarkerEarned
    SweepAfterFreshPass
    ProvenBeforeScored
    
    SeparationFromRows
    EligibleIsFresh
    SeparatedLoserNotPrimary
    PassIsComplete
PROPERTY
    CommandEnds
CHECK_DEADLOCK FALSE
