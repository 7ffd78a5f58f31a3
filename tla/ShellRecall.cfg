SPECIFICATION Spec
CONSTANTS
    Session = {"s1", "s2"}
    HistorySize <- MCSize
    Drafts <- MCDrafts
    StorageSize = 3
    Lines <- MCLines
    MaxKeys = 5
    MaxRecalls = 4
INVARIANT LookedUpEntryExists
CHECK_DEADLOCK FALSE
