\* A plan that goes on after a command was given up.
SPECIFICATION Spec
CONSTANTS
    term = term
    clip = clip
    version = version
    lldp = lldp
    pager = pager
    detail = detail
    cdp = cdp
    stdout = stdout
    stderr = stderr
    NoCommand = NoCommand
    Commands = {term, clip, pager, version, lldp, detail, cdp}
    Readers = {stdout, stderr}
    Stdout = stdout
    Banner <- SomeBanner
    Reply <- SomeReply
    Quiets = {clip}
    PageLen = 1
    OpenPaging = NoCommand
    Probes <- SomeProbes
    Steps <- SomeSteps
    Bound <- SomeBound
    BaseLimit = 4
    TailKeep = 2
INVARIANT AnswersAreOwn
CHECK_DEADLOCK FALSE
