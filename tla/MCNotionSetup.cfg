SPECIFICATION FairSpec
CONSTANTS
    Workspaces = {s1, s2}
    Workers = {w1, w2}
    Nobody = Nobody
    MaxAttempts = 2
    MaxConnections = 2
    MaxEdits = 5
    MaxFaults = 2
INVARIANT TypeOK
INVARIANT CreatedOnce
INVARIANT NoneForgotten
PROPERTY DisabledGetsNone
PROPERTY SetupSettles
CHECK_DEADLOCK FALSE
