SPECIFICATION MCSpec
CONSTANTS
    Versions = {"held", "settled"}
    Cells <- MCCells
    Null = Null
    Principals = {"usr_1", "usr_2"}
    Posters = {"usr_2"}
    Planners = {"usr_1"}
    StagedWith = {"held"}
    Resolvers = {TRUE}
    MaxStagings = 2
    MaxBatches = 1
    MaxFaults = 1
INVARIANTS
    ShippedLinesCountOnce
    AppliedItemsArePosted
    CorrectionsReachTheReading
CHECK_DEADLOCK FALSE
