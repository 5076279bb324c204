\* A viewer over a map crawled again and a map written in place.
SPECIFICATION Spec
CONSTANTS
    lab = lab
    site = site
    old = old
    again = again
    cli = cli
    leaf = leaf
    core = core
    Nothing = Nothing
    Crawls = {old, again, cli}
    PathOf <- SomePaths
    DevicesOf <- SomeDevices
    LeavesOf <- SomeLeaves
    InPlace = {cli}
    Viewers = {v1}
    Threads = {t1}
    Pages = {g1}
    MaxLoads = 2
INVARIANTS
    LastDoneIsThere
    LayoutsStayWithTheirMap
    ViewersKeepToTheirMap
CHECK_DEADLOCK FALSE
