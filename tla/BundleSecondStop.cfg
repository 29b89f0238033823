CONSTANTS
    data = data
    spec = spec
    manifest = manifest
    report = report
    ByName <- Files
    Manifest = manifest
    Primary = data
    MaxStops = 2
SPECIFICATION Spec
CHECK_DEADLOCK FALSE
INVARIANTS
    RollbackLosesNothing
