SPECIFICATION FairSpec
CONSTANTS
    NumTasks = 2
    Empty = {1}
    MaxStarts = 2
    MaxAttempts = 2
    MaxFaults = 1
    MaxRuns = 1
    Requests = {}
INVARIANTS TypeOK AgentAfterPlaceholder OneCommentPerCommand CommandsInOrder
PROPERTIES OutcomeIsNotRerun EveryCommandEnds
CHECK_DEADLOCK FALSE
