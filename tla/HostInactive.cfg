SPECIFICATION Spec
CONSTANTS
    Profiles = {0, 1}
    Builds = {"exclusive", "lazy"}
    InitBonded = {0, 1}
    MaxSwitches = 1
    MaxPlugs = 0
    MaxDark = 1
    MaxFails = 1
    IGNORE = 1
    WINDOW = 2
    EVICT_CAP = 2
    THRASH_RING = 3
    WATCH = FALSE
    ON_ACTIVE_DOWN = TRUE
    QUIET = FALSE
INVARIANTS
    NoMissedScan
    RateLimited
    ParamsFollowProfile
PROPERTY KeepsSelectedHost
