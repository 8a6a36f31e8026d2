SPECIFICATION FairSpec
CONSTANTS
    MaxUnclean = 3
    Faults <- MCFaults
INVARIANTS
    Netted
    ChoiceStands
    LoopStops
PROPERTIES
    StrandedHeals
