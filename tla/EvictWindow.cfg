SPECIFICATION Spec
CONSTANTS
    RING_SIZE = 3
    WINDOW = 1
    FAIL_WINDOW = 2
    THRESHOLD = 3
    MaxTime = 4
    MaxEvents = 5
INVARIANT WinCountExact
PROPERTY SuspectExact
