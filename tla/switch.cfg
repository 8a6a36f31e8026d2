SPECIFICATION Spec
CONSTANTS
    Families <- MCFamilies
    Tools <- MCTools
    Domains <- MCDomains
    ToolsOf <- MCToolsOf
    DomainsOf <- MCDomainsOf
    RequiresEngine <- MCRequiresEngine
    Faults <- MCNoFaults
INVARIANTS NothingForgotten ExitStands
PROPERTY NothingUnasked
