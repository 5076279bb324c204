\* Two goroutines, four walks and one reset.
SPECIFICATION FairSpec
CONSTANTS
    key = key
    stale = stale
    broken = broken
    spine = spine
    leaf = leaf
    leafAddr = leafAddr
    spineAddr = spineAddr
    boxSpine = boxSpine
    boxLeaf = boxLeaf
    w1 = w1
    w2 = w2
    NoCred = NoCred
    Creds <- SomeCreds
    Idents <- SomeIdents
    Walkers = {w1, w2}
    Records <- SomeRecords
    RecordOf <- TwoNamesOfOneBox
    InScope <- SomeScopes
    Rank <- StaleFirst
    StoredPins <- StalePinned
    CallerPin <- LeafNamesKey
    Answers <- SomeAnswers
    Untimed <- BehindBastion
    BreakerThreshold = 2
    MaxPerHost = 2
    Promotion = TRUE
    MaxWalks = 4
    MaxResets = 1
INVARIANTS
    RefusalsBounded
    PinNotRefused
    GoodLoginIsFound
PROPERTIES
    WalkEnds
