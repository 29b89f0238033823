CONSTANTS
    w1 = w1
    w2 = w2
    w3 = w3
    None = None
    Old = Old
    Vacant = Vacant
    Writer = {w3}
    Overwrite = {w3}
    Cancelled = {w3}
    MaxStops = 1
SPECIFICATION Spec
CHECK_DEADLOCK FALSE
INVARIANTS
    PurgeKeepsOutput
