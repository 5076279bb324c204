\* A crawl refused over the recording of another.
SPECIFICATION HSpec
CONSTANTS
    p = p
    none = none
    Paths = {p}
    NoPath = none
    Requests <- SomeRequests
    Faults <- SomeFaults
    MaxOpens = 2
    MaxSent = 2
INVARIANTS
    EveryCrawlReplays
CHECK_DEADLOCK FALSE
