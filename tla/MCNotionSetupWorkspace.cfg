SPECIFICATION Spec
CONSTANTS
    Workspaces = {s1, s2}
    Workers = {w1, w2}
    Nobody = Nobody
    MaxAttempts = 2
    MaxConnections = 2
    MaxEdits = 4
    MaxFaults = 1
INVARIANT DestinationInWorkspace
CHECK_DEADLOCK FALSE
