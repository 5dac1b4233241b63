SPECIFICATION Spec
CONSTANTS
    Runs = {r1}
    Loops = {l1, l2}
    NoLoop = NoLoop
    NoRun = NoRun
    NumCases = 1
    MaxRows = 2
    MaxRestarts = 0
    MaxFaults = 0
    MaxLives = 1
    GracefulStop = FALSE
INVARIANTS
    RunningNeverStuck
CHECK_DEADLOCK FALSE
