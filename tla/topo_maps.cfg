\* Two crawls of two sites, folded into one map by name and address.
SPECIFICATION TopoSpec
CONSTANTS
    Labels <- SomeLabels
    AddrLabels <- SomeAddrs
    Domains <- SomeDomains
    Resolvable = {}
    PTR <- NoPTR
    Debris <- SomeDebris
    Ports <- SomePorts
    TrustUnidirectional = FALSE
    MatchShortName = FALSE
    MatchIP = TRUE
    Precedes <- Before
    Reports <- SomeReports
    MaxDevices = 3
    MaxMaps = 2
    BoxOf <- SomeBoxOf
    Cables <- SomeCables
INVARIANTS
    LinksAreTrue
    FailedIsShownUnlessNamesake
    MergeIsLossless
CHECK_DEADLOCK FALSE
