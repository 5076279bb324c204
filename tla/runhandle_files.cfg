\* Two attempts to open a run over one map, quitting at any moment.
SPECIFICATION HFairSpec
CONSTANTS
    p = p
    none = none
    Paths = {p}
    NoPath = none
    Requests <- SomeRequests
    Faults <- SomeFaults
    MaxOpens = 2
    MaxSent = 2
INVARIANTS
    SettledWhenFinished
    ReplaysUnlessReopened
PROPERTIES
    RunsEnd
CHECK_DEADLOCK FALSE
