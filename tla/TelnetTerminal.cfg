SPECIFICATION FairSpec
CONSTANTS
    Char <- MCChar
    Suggestions <- MCSuggestions
    MaxKeys = 4
    MaxQueue = 2
    MaxTalk = 1
INVARIANTS
    NegotiationIsTransparent
    ScreenShowsLine
PROPERTY
    KeysAreHandled
CHECK_DEADLOCK FALSE
