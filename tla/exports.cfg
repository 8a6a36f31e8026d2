SPECIFICATION FairSpec
CONSTANTS
    t1 = t1
    t2 = t2
    GW1 = GW1
    GW2 = GW2
    Threads <- MCOneThread
    Ops <- MCAllOps
    Faults <- MCExportFaults
    UserProxies <- MCOneProxy
    UserEnvs <- MCEnvs
    FwdPorts <- MCForwarders
    EnginePort = "engine"
    OptedIn = TRUE
    Gateways <- MCOneGateway
PROPERTIES
    OperationsEnd
    CrashReverted
    PacFollows
