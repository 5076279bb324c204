\* Two processes over one file: two writes, two keys.
SPECIFICATION Spec
CONSTANTS
    gui = gui
    shell = shell
    window = window
    worker = worker
    omvault = omvault
    oldPass = oldPass
    newPass = newPass
    lab = lab
    LAB = LAB
    core = core
    NoFile = NoFile
    NoKey = NoKey
    Idle = Idle
    Vaults = {gui, shell}
    Callers = {window, worker, omvault}
    Commands = {omvault}
    Workers = {worker, omvault}
    VaultOf <- SomeVaultOf
    Masters = {oldPass, newPass}
    Ids = {1, 2}
    Names = {lab, LAB, core}
    Fold <- FoldCase
    Inputs <- SomeInputs
    FilesAtStart <- SomeFiles
    MaxSalts = 1
    MaxWrites = 2
SYMMETRY AnyMaster
INVARIANTS
    FileIsSound
    HeldIsStored
PROPERTIES
    KeptUnlessStale
