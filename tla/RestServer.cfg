SPECIFICATION FairSpec
CONSTANTS
    Client = {"c1", "c2"}
    Patient = {"c1"}
    Kind <- MCKind
    MaxOpen = 1
    MaxRequests = 2
INVARIANTS
    MapIsExact
    AnswersAreInOrder
    WaitingClientsGetTheirAnswer
PROPERTIES
    WaitingClientsAreAnswered
    FullServerRecovers
CHECK_DEADLOCK FALSE
