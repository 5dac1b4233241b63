SPECIFICATION Spec
CONSTANTS
    MaxGroups = 5
    MaxRegenerations = 1
    Sizes = {1, 3}
    Fixed = 1
    SummarySize = 2
    Available = 8
    Trigger = 6
    Keeps = {1, 2}
    BatchBudget = 4
    MaxBatches = 2
    MaxAttempts = 2
    MaxRounds = 2
INVARIANTS
    ContextIsRecentPart
    OnlyUncheckedRequestsOverflow
PROPERTIES
    CompactionMovesForward
CHECK_DEADLOCK FALSE
