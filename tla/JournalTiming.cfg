SPECIFICATION FairSpec
CONSTANTS
    Recorders = {bt}
    Main = main
    Sys = sys
    RING_CAP = 3
    BLOCK_EVENTS = 2
    JOURNAL_SLOTS = 2
    PERSIST_EVERY = 1
    PERSIST_MIN = 1
    BOOT_EVENTS = 1
    TIMING_CAP = 1
    MaxInputs = 1
    MaxCrashes = 0
    MaxFails = 1
    MaxWrites = 8
PROPERTIES
    FallsSilent
    EventuallySaved
