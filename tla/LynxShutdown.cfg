SPECIFICATION FairSpec
CONSTANTS
    Byte <- MCByte
    MaxBytes = 3
    MaxQueue = 2
    MaxSignals = 2
CHECK_DEADLOCK FALSE
INVARIANTS
    TypeOK
    ThreadEndsBeforeContext
    TerminalRestored
    JoinFindsInputEnabled
PROPERTIES
    SignalEndsOrEscapePends
    ImplementsProgramLife
