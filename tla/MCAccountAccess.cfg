SPECIFICATION Spec
CONSTANTS
    Jobs = {j1}
    Links = {l1, l2}
    Workers = {w1, w2}
    Visitors = {v1, v2}
    Nobody = Nobody
    NoJob = NoJob
    NoLink = NoLink
    MaxAttempts = 2
    Requests = {"magic", "password"}
    MaxEdits = 3
    MaxFaults = 1
SYMMETRY Interchangeable
INVARIANT TypeOK
INVARIANT AccessIsCurrent
INVARIANT LinkUsedOnce
PROPERTY NoRevokedLinkSent
PROPERTY PasswordByCurrentAccess
PROPERTY OutboxSpec
CHECK_DEADLOCK FALSE
