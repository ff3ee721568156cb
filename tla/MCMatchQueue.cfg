SPECIFICATION Spec
CONSTANTS
    Users = {1, 2}
    Offers = {1}
    Kinds = {k1}
    Ready = {}
    Workers = {w1, w2}
    NoKey = NoKey
    Token = {1,2,3,4,5}
    NoToken = NoToken
    MaxAttempts = 2
    BatchSize = 1
    Producers = {"new", "change", "activate", "toggle", "purge"}
    PreClaimErrors = FALSE
    LeaseOutlived = FALSE
    MaxEdits = 3
    MaxFaults = 1
VIEW TokenView
SYMMETRY WorkerSymmetry
INVARIANT EveryMatchCovered
INVARIANT AttemptsAreSound
INVARIANT OneGenerationRuns
PROPERTY MatchedWhileActive
PROPERTY BackoffChargedToOwner
CHECK_DEADLOCK FALSE
