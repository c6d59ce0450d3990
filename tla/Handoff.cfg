SPECIFICATION Spec
CONSTANTS
    Handles = {0, 1}
    Encrypted = {1}
    COUNT_MAX = 2
    MaxLinks = 2
    MaxFails = 1
INVARIANTS
    TxAccounted
    OnlyRealEnds
    ArmedOnlyInHandoff
    SummaryComes
