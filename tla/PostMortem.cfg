SPECIFICATION Spec
CONSTANTS
    WDT_TIMEOUT = 4
    MaxFaults = 2
    MaxResets = 2
INVARIANT ReportedOnce
PROPERTIES
    ReportsLatestFault
    CauseIsOwn
    HangIsReal
CHECK_DEADLOCK FALSE
