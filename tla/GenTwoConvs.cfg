SPECIFICATION Spec
CONSTANTS
    Convs = {c1, c2}
    NumMsgs = 2
    Tasks = {t1, t2}
    NoTask = NoTask
    Subs = {}
    Switchers = {w1}
    MaxDeltas = 1
    MaxRestarts = 1
    MaxFaults = 1
    EarlyStop = TRUE
SYMMETRY Symmetry
INVARIANTS
    OneGeneration
CHECK_DEADLOCK FALSE
