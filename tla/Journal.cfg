SPECIFICATION Spec
CONSTANTS
    Recorders = {bt}
    Main = main
    Sys = sys
    RING_CAP = 2
    BLOCK_EVENTS = 2
    JOURNAL_SLOTS = 3
    PERSIST_EVERY = 2
    PERSIST_MIN = 1
    BOOT_EVENTS = 2
    TIMING_CAP = 0
    MaxInputs = 1
    MaxCrashes = 1
    MaxFails = 1
    MaxWrites = 4
INVARIANTS
    TypeOK
    JournalOrdered
    DumpOldestFirst
    CounterCoversJournal
    NoLostWakeup
    SavedInRecordingOrder
PROPERTIES
    NewestSurvives
    PreviousIsNewest
    ImplementsLog
