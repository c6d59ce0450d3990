SPECIFICATION FairSpec
CONSTANTS
    Profiles = {0, 1}
    Builds = {"exclusive"}
    InitBonded = {0, 1}
    MaxSwitches = 0
    MaxPlugs = 0
    MaxDark = 0
    MaxFails = 0
    IGNORE = 1
    WINDOW = 1
    EVICT_CAP = 1
    THRASH_RING = 1
    WATCH = FALSE
    ON_ACTIVE_DOWN = TRUE
    QUIET = FALSE
PROPERTY OnlySelectedRemains
