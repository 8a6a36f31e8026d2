SPECIFICATION Spec
CONSTANTS
    t1 = t1
    t2 = t2
    GW1 = GW1
    GW2 = GW2
    Threads <- MCThreads
    Ops <- MCAllOps
    Faults <- MCCustodyFaults
    UserProxies <- MCProxies
    UserEnvs <- MCOneEnv
    FwdPorts <- MCOneForwarder
    EnginePort = "engine"
    OptedIn = FALSE
    Gateways <- MCOneGateway
SYMMETRY MCSymmetry
INVARIANTS
    Restorable
    NotStranded
    ExitIsFinal
    NothingRoutesUntrusted
    OneEngine
PROPERTIES
    CustodySpec
