SPECIFICATION FairSpec
CONSTANTS
    FirstCount = 5
    SecondCount = 4
    MaxLag = 4
CHECK_DEADLOCK FALSE
INVARIANTS
    OneCountdown
    LinesNotEarly
PROPERTY CountdownEnds
