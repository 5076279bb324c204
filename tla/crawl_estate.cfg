\* Two sites under an allow list and an exclude pattern, crawled to the end,
\* stopped at any moment or not.
SPECIFICATION RFairSpec
CONSTANTS
    Labels <- SomeLabels
    AddrLabels <- SomeAddrs
    Domains <- SomeDomains
    Resolvable <- MixedResolvable
    PTR <- MixedPTR
    Seeds <- MixedSeeds
    Methods <- SomeMethods
    Timed <- SomeTimed
    MaxDepth = 3
    Concurrency = 2
    AllowDomains <- MixedAllow
    IPFallback = TRUE
    Reports <- MixedReports
    Replies <- MixedReplies
INVARIANTS
    VisitsOnce
    NothingLost
    ReturnedByLevel
    PolicyIsKept
    TableIsTrue
PROPERTIES
    NoDialAfterStop
    EndedStaysEnded
    EndsUnlessHeld
