SPECIFICATION FairSpec
CONSTANTS
    Offers = {o1, o2}
    Workers = {w1}
    Nobody = Nobody
    MaxAttempts = 2
    BatchSize = 1
    Producers = {"offers", "toggle", "retry"}
    MaxEdits = 2
    MaxFaults = 2
PROPERTY ImmediateSettles
CHECK_DEADLOCK FALSE
