CONSTANTS
    Field <- Fields
    Number <- Numbers
    Suspect = {}
    Sensitive = {7}
    Null = Null
    Shift = 10
    Process = {p}
    Parent = "parent"
    Child = "child"
    Text <- Texts
    Initial <- Starts
    Alternatives <- Edited
    Receipt = {r}
    Destination = {d}
    Single = {"child"}
    MaxShown = 2
    MaxCommands = 3
    MaxEdits = 1
    None = None
    CaptureAdapters = {"postgres", "trino"}
    RefusedColumns = {"secret"}
    CaptureRows = 2
    CaptureBytes = 2
    CaptureBatch = 2
    CaptureDeadline = 8
    CaptureSlack = 1
    CaptureTables <- StoredTables
SPECIFICATION TransformationSpec
INVARIANTS
    OriginalsAreApproved
    OutputIsReviewed
    RowsAreTransformed
    LinksSurvive
    CaptureIsWhole
    CapturesEnd
PROPERTIES
    FoldersStay
CHECK_DEADLOCK FALSE
