SPECIFICATION FairSpec
CONSTANTS
    Ports <- MCPorts
    NoPort = NoPort
    Calls <- MCCalls
    Faults <- MCFaults
INVARIANTS
    LetGo
    Drained
    OneForwarder
PROPERTIES
    PortKept
    Revives
