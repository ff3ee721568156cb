SPECIFICATION FairSpec
CONSTANTS
    Users = {1}
    Offers = {1}
    Kinds = {k1}
    Ready = {1}
    Workers = {w1, w2}
    NoKey = NoKey
    Token = {1, 2, 3, 4, 5}
    NoToken = NoToken
    MaxAttempts = 2
    BatchSize = 1
    Producers = {"new", "change", "activate", "notion", "disconnect"}
    PreClaimErrors = TRUE
    LeaseOutlived = FALSE
    MaxEdits = 2
    MaxFaults = 2
INVARIANT UpdateReachesNotion
PROPERTY Drains
CHECK_DEADLOCK FALSE
