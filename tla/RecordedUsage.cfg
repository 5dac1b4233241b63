SPECIFICATION Spec
CONSTANTS
    MaxStarts <- ShortStarts
    MaxChecks = 2
    MaxFaults = 0
    MaxRestarts = 0
    Reported = {0, 1}
    Uses = {"chat"}
    Threshold = 80
    Scores <- EdgeScores
INVARIANT UsageIsOfTheRequests
CHECK_DEADLOCK FALSE
