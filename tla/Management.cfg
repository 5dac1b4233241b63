SPECIFICATION Spec
CONSTANTS
    Workers = {w1, w2}
    NoReq = NoReq
    MaxId = 2
    Scenes <- Overlaps
    MaxBinds = 1
    Configs = {k1, k2}
    NoTest = NoTest
    Dirs = {d1, d2}
SYMMETRY Symmetry
INVARIANTS
    OneRowPerDirectory
PROPERTIES
    ExactlyOneDefault
    ReferencesResolve
    VerdictIsCurrent
