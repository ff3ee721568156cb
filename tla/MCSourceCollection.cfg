SPECIFICATION Spec
CONSTANTS
    Trackers = {t1, t2}
    Offers = {o1}
    Versions = {v1, v2}
    Collectors = {c1, c2}
    NoTracker = NoTracker
    NoRevision = NoRevision
    MaxRuns = 3
    MaxFaults = 1
SYMMETRY Interchangeable
VIEW OrderView
INVARIANT ClosedAfterTwoMisses
INVARIANT OpenWhileListed
INVARIANT MatchedAsPublished
PROPERTY SupersededIsSilent
CHECK_DEADLOCK FALSE
