SPECIFICATION FairSpec
CONSTANTS
    Conn = {c1, c2}
    Command = {"monitor", "nomonitor", "exit", "eof"}
    HasLocal = TRUE
    HasFile = TRUE
    MaxKeys = 3
CHECK_DEADLOCK FALSE
INVARIANTS
    HandlersFindTheirSession
    CoutListsLiveSessions
PROPERTY ClosedSessionsAreDestroyed
