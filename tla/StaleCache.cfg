SPECIFICATION Spec
CONSTANTS
    None = None
    Blank = Blank
    Reading <- MCReading
    Names <- MCNames
    Caps <- MCCaps
    Limits <- MCLimits
    Files = {"customers", "orders", "shops"}
    Contents <- MCContents
    Drafts <- MCDrafts
    Tasks <- MCTasks
    Totals <- MCTotals
    CategoryLabels = {"category_1", "category_2", "category_1_1", "category_2_1"}
    MaxEdits = 1
PROPERTIES
    CachedProfileFits
CHECK_DEADLOCK FALSE
