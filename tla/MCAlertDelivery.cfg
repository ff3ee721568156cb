SPECIFICATION Spec
CONSTANTS
    Offers = {o1}
    Workers = {w1, w2}
    Nobody = Nobody
    MaxAttempts = 2
    BatchSize = 2
    Producers = {"activate", "toggle", "purge", "notion", "retry"}
    MaxEdits = 3
    MaxFaults = 2
SYMMETRY Interchangeable
INVARIANT DisabledHasNoWork
INVARIANT DeliveredHasNoWork
INVARIANT Resumed
PROPERTY OutboxSpec
CHECK_DEADLOCK FALSE
