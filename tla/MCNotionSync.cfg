SPECIFICATION FairSpec
CONSTANTS
    Offers = {o1}
    Workers = {w1, w2}
    Now = Now
    Later = Later
    MaxAttempts = 2
    MaxSources = 2
    MaxEdits = 4
    MaxFaults = 2
INVARIANT OnePage
INVARIANT SyncedIsCurrent
INVARIANT DisabledHasNoPages
PROPERTY OutboxSpec
PROPERTY PagesSettle
CHECK_DEADLOCK FALSE
