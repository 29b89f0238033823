\* A child listed before its parent, in mixed mode.
CONSTANTS
    Null = Null
    bad1 = bad1
    bad2 = bad2
    pii = pii
    Text = {bad1, bad2}
    Personal = {pii}
    Broken = Broken
    Unit = 10
    Rewrites <- MCRewrites
    Spec0 <- Reversed
SPECIFICATION BundleSpec
INVARIANTS
    SelectedOrphansRemain
CHECK_DEADLOCK FALSE
