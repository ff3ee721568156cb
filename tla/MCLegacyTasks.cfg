SPECIFICATION FirstSpec
CONSTANTS
    Offers = {o1}
    Versions = {v1, v2, v3}
    Selected = {v1, v2}
    Runs = {r1, r2}
    Archive = {}
    HasArchive = FALSE
    Settings <- SomeSettings
    Now = Now
    Later = Later
    Nothing = Nothing
    MaxAttempts = 2
    MaxEdits = 1
    MaxFaults = 2
INVARIANT PageIsCurrent
INVARIANT EmailedOnce
INVARIANT NothingDropped
PROPERTY OutboxSpec
PROPERTY TasksSettle
CHECK_DEADLOCK FALSE
