SPECIFICATION Spec
CONSTANTS
    None = None
    Ports = {p1, p2}
    g1 = g1
    g2 = g2
    Ids = {g1, g2}
    UserModels = {m1, m2}
    UserRoutes = {u1, l1}
    Local = {l1}
    Tools = {"claude", "codex", "opencode", "hermes", "openclaw"}
    Sets <- MCSets
    Faults = {}
SYMMETRY MCSymmetry
INVARIANTS GivesBack NeverDangling Repairs
PROPERTY ChoiceHeld
