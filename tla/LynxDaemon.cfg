SPECIFICATION DaemonFairSpec
CONSTANT MaxRaised = 2
CHECK_DEADLOCK FALSE
INVARIANTS
    StandardStreams
    ResourcesSurvive
    DetachedFromTerminal
    FailureLeavesNoServer
PROPERTY DaemonSettles
