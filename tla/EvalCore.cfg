SPECIFICATION FairSpec
CONSTANTS
    Runs = {r1}
    Loops = {l1, l2}
    NoLoop = NoLoop
    NoRun = NoRun
    NumCases = 2
    MaxRows = 3
    MaxRestarts = 1
    MaxFaults = 1
    MaxLives = 2
    GracefulStop = TRUE
INVARIANTS
    TypeOK
    OneLoopPerRun
    TotalsCurrent
    RunningRowHasWorker
    RunningRunHasLoop
PROPERTIES
    LegalRunTransitions
    RunningEnds
    ImplementsLedger
    CancelDrains
CHECK_DEADLOCK FALSE
