SPECIFICATION Spec
CONSTANTS
    Session = {"s1", "s2"}
    HistorySize <- MCSize
    Drafts <- MCDrafts
    StorageSize = 3
    Lines <- MCLines
    MaxKeys = 5
    MaxRecalls = 4
INVARIANTS
    BrowsedEntryExists
    OwnCommandsAreStored
    CompletionsMatchDispatch
PROPERTIES
    HistoriesAreNumberedLists
    RecallRunsListedLine
CHECK_DEADLOCK FALSE
