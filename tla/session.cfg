SPECIFICATION Spec
CONSTANTS
    Procs <- MCOne
    Threads <- MCThreads
    Home <- MCHome
    Roles <- MCRoles
    Faults <- MCFaults
    MaxTokens = 3
    MaxEpoch = 1
INVARIANTS
    EndedSessionsStayEnded
    RefreshesWhatStands
PROPERTIES
    SignOutHonoured
