SPECIFICATION Spec
CONSTANTS
    PROFILE_COUNT = 2
    HOG_QUEUE = 1
    TOTAL_MOD = 3
    TIMING_CAP = 2
    DROPPED_MAX = 2
    Exchanges = {1, 2}
    Loads <- MCLoads
INVARIANTS
    CountsReported
    ReportsAccounted
    AllUpAccounted
    InboxIsQueue
    NothingVanishes
    InboxServed
PROPERTY CausalTrace
CHECK_DEADLOCK FALSE
