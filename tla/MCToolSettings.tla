--------------------------- MODULE MCToolSettings ---------------------------
EXTENDS ToolSettings, TLC

CONSTANTS g1, g2

MCSets == {<<g1>>, <<g1, g2>>}
MCSymmetry == Permutations(Ports) \cup Permutations(UserModels)
=============================================================================
