CONSTANTS
    w1 = w1
    w2 = w2
    w3 = w3
    f1 = f1
    f2 = f2
    f3 = f3
    FolderWriters = {f1, f2, f3}
    Overwriting = {f3}
    Interruptible = {f1, f2}
    FolderStops = 3
    BundleFiles <- SomeFiles
    BundleStops = 2
    FileWriters = {f1, f2}
    FileHands = 1
    FileStops = 1
    TrinoCalls = {"c1", "c2"}
    TrinoTools <- SomeTools
    TrinoSlots = 1
    TrinoLimits <- SomeLimits
    TrinoRows = 1
    TrinoScan = 1
    TrinoConfigs <- SomeConfigs
    TrinoTables <- SomeTables
    TopCategories = 2
    Old = Old
    Mine = Mine
    Vacant = Vacant
    data = data
    spec = spec
    manifest = manifest
    report = report
    None = None
    Worker = {w1, w2, w3}
    Lengths = {2, 3}
    MaxRecord = 4
    MaxBytes = 12
SYMMETRY Symmetric
SPECIFICATION StorageSpec
INVARIANTS
    ChainVerifies
    CallsArePaired
    ServedIsRecorded
    InvocationsAreBounded
    
    FoldersAreKept
    FilesAreKept
PROPERTIES
    TornIsFinal
    FailureRollsBack
