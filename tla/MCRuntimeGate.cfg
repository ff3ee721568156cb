SPECIFICATION FairSpec
CONSTANTS
    old = old
    new = new
    admin = admin
    m1 = m1
    m2 = m2
    Workers <- AllWorkers
    Migrators <- AllMigrators
    NoOne = NoOne
    Unbounded = {admin}
    Accepts <- Reviewed
    Target <- Revisions
    MaxFaults = 2
INVARIANT GateHeld
PROPERTY LockSpec
PROPERTY GateReopens
CHECK_DEADLOCK FALSE
