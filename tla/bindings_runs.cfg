\* Two successes and one restart, from no file or an old one.
SPECIFICATION Spec
CONSTANTS
    addr1 = addr1
    addr2 = addr2
    cgnat = cgnat
    usaName = usaName
    engName = engName
    spine = spine
    oob = oob
    usa = usa
    eng = eng
    cred1 = cred1
    NoSlot = NoSlot
    NoRecord = NoRecord
    NoName = NoName
    NoPin = NoPin
    Unsure = Unsure
    s1 = s1
    s2 = s2
    s3 = s3
    s4 = s4
    Strings <- SomeStrings
    Shape <- SomeShapes
    Short <- FirstLabels
    Refused = {cgnat}
    Alpha <- Alphabet
    Boxes = {usa, eng}
    Owner <- SomeOwners
    Creds = {cred1}
    Targets <- SomeTargets
    Folds <- SomeFolds
    FilesAtStart <- SomeFiles
    Slots = {s1, s2, s3, s4}
    MaxTime = 2
    MaxRestarts = 1
INVARIANTS
    StoreIsSound
    PinIsOwn
PROPERTIES
    NamesStayTogether
    RestartKeepsDevices
CHECK_DEADLOCK FALSE
