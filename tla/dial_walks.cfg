\* Two walks through a bastion, with any agent.
SPECIFICATION Spec
CONSTANTS
    name = name
    addr = addr
    oldName = oldName
    midName = midName
    modern = modern
    old = old
    mid = mid
    gate = gate
    k1 = k1
    k2 = k2
    missing = missing
    sso = sso
    deploy = deploy
    admin = admin
    Nothing = Nothing
    Walks = {w1, w2}
    Creds = {missing, sso, deploy, admin}
    Hosts = {name, addr, oldName, midName}
    DeviceAt <- SomeDeviceAt
    Bastion = gate
    BastionLogins = {"taken", "refused", "unreadable", "unparsable", "none"}
    Keys = {k1, k2}
    FirstKey <- SomeFirstKey
    MaxRekeys = 1
    Insecure = FALSE
    Method <- SomeMethod
    Holds <- SomeHolds
    Broken = {missing}
    AgentStates = {"unset", "dead", "faulty", "live"}
    Offers <- SomeOffers
    Takes <- SomeTakes
    Ladder <- SomeLadder
CONSTRAINT OneOrShort
SYMMETRY AnyWalk
INVARIANTS
    NoConnectionLeft
    CredentialsAreSpared
    GoodLoginIsReached
    HostKeysHold
CHECK_DEADLOCK FALSE
