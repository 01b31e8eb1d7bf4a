SPECIFICATION FairSpec
CONSTANTS
    Callers = {c1, c2, c3}
    Threshold = 2
    Cooldown = 3
    Timeout = 2
    HalfOpenMax = 2
    Workers = 2
    Attempts = 2
    MaxTasks = 4
INVARIANTS
    ClosedBelowThreshold
    ProbesBounded
PROPERTIES
    CallsReturn
    Recovers
