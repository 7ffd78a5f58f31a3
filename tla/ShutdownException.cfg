SPECIFICATION FairSpec
CONSTANTS
    Byte <- MCByte
    MaxBytes = 0
    MaxQueue = 1
    MaxSignals = 0
CHECK_DEADLOCK FALSE
PROPERTY ExceptionEndsProgram
