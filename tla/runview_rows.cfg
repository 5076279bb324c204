\* Any three events, of which a burst may outrun the one decision kept.
SPECIFICATION FairSpec
CONSTANTS
    a = a
    b = b
    none = none
    w1 = w1
    main = main
    Keys = {a, b}
    NoKey = none
    Text <- SomeText
    MaxNotes = 1
    Workers = {w1}
    Main = main
    Events <- SomeEvents
    MaxEvents = 3
INVARIANTS
    ViewIsExact
    FinishedIsComplete
    ReplayRebuilds
    NoWakeAfterClose
PROPERTIES
    ViewFinishes
