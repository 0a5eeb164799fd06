SPECIFICATION FairSpec
CONSTANTS
    NumTasks = 1
    Empty = {}
    MaxStarts = 1
    MaxAttempts = 1
    MaxFaults = 0
    MaxRuns = 1
    Requests = {"close"}
PROPERTIES EveryCommandEnds
CHECK_DEADLOCK FALSE
