SPECIFICATION Spec
CONSTANTS
    Users = {1}
    Offers = {1, 2}
    Kinds = {k1}
    Ready = {}
    Workers = {w1}
    NoKey = NoKey
    Token = {1,2,3,4,5}
    NoToken = NoToken
    MaxAttempts = 2
    BatchSize = 1
    Producers = {"new", "activate", "toggle"}
    PreClaimErrors = FALSE
    LeaseOutlived = FALSE
    MaxEdits = 7
    MaxFaults = 0
SYMMETRY WorkerSymmetry
INVARIANT ResumesUnsent
CHECK_DEADLOCK FALSE
