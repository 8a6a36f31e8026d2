SPECIFICATION FairSpec
CONSTANTS
    Procs <- MCOne
    Threads <- MCLiveThreads
    Home <- MCLiveHome
    Roles <- MCLiveRoles
    Faults <- MCLiveFaults
    MaxTokens = 2
    MaxEpoch = 1
INVARIANTS
    RejectedIsRefused
PROPERTIES
    ReadsMoveOn
    OperationsReturn
    EngineConverges
