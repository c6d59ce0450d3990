SPECIFICATION FairSpec
CONSTANTS
    MaxBlocks = 1
    MaxEvents = 1
    TX_CAP = 2
    MaxDumps = 2
    MaxAborts = 1
    MaxLost = 1
    STUDIO_TRIES = 2
    MaxCable = 1
    MaxSwitches = 1
INVARIANT CompleteMeansWhole
PROPERTIES
    ReaderSucceeds
    StudioListens
CHECK_DEADLOCK FALSE
