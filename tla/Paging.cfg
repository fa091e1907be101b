SPECIFICATION Spec
CONSTANTS
    Comms = {1}
    ExitCodes = {1}
    AskedPages = {0}
    AskedSizes = {9}
    DefaultSize = 2
    MaxPageSize = 2
    MaxShown = 3
    Queries <- Filters
    Tests <- FiltersSelect
    Wide = 1024
    MaxRows = 3
    MaxSeconds = 1
INVARIANTS ScrollIsExact NothingJumped EndMeansAll
CHECK_DEADLOCK FALSE
