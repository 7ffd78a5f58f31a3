SPECIFICATION Spec
CONSTANTS
    Conn = {c1, c2}
    Command = {"eof", "other"}
    HasLocal = TRUE
    HasFile = FALSE
    MaxKeys = 3
CHECK_DEADLOCK FALSE
INVARIANT TelnetExitOnlyDisconnects
