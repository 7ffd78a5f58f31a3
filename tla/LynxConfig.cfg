SPECIFICATION Spec
CONSTANTS
    PortValue <- MCPort
    PiValue <- MCPi
    EnvValue <- MCEnv
    MaxFile = 1
INVARIANTS
    SavedFilesAgree
    SavingIsStable
    OnlyTheDefaultPortIsRefused
