SPECIFICATION Spec
CONSTANTS
    MaxStarts <- BothStarts
    MaxChecks = 2
    MaxFaults = 1
    MaxRestarts = 1
    Reported = {0}
    Uses = {"chat", "evaluation"}
    Threshold = 80
    Scores <- EdgeScores
INVARIANTS
    RecordIsHonest
    CountsAreOfTheStream
    LossIsBounded
    EventHasItsPayloads
    ReplayIsTheStream
    RunningRowIsExplained
    CaseAgreesWithRecord
    ScoresAreEarned
PROPERTIES
    EndedRecordIsFinal
CHECK_DEADLOCK FALSE
