SPECIFICATION Spec
CONSTANTS
    Procs <- MCProcs
    Cli <- MCCli
    Faults <- MCFaults
    Calls <- MCCalls
    MaxGone = 2
INVARIANTS
    NoOrphanedInterception
    LaunchHeals
    ShutdownEnds
