SPECIFICATION RecoverySpec
CONSTANTS
    Profiles = {0, 1}
    Builds = {"stock"}
    InitBonded = {0, 1}
    MaxSwitches = 1
    MaxPlugs = 1
    MaxDark = 0
    MaxFails = 0
    IGNORE = 1
    WINDOW = 1
    EVICT_CAP = 1
    THRASH_RING = 1
    WATCH = TRUE
    ON_ACTIVE_DOWN = TRUE
    QUIET = TRUE
INVARIANT NoStuckLadder
PROPERTIES
    KeepsSelectedHost
    LadderEnds
    QuietOnUsb
