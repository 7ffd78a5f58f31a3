SPECIFICATION FairSpec
CONSTANTS
    Session = {s1, s2}
    MaxRecent = 1
    MaxLines = 2
CHECK_DEADLOCK FALSE
INVARIANTS
    TypeOK
    NoLostWakeup
    NoHalfSession
    InOrderDelivery
    LinesPostedOnceInOrder
PROPERTIES
    ImplementsChatSpec
    ClosedSessionsUnwind
