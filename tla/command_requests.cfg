SPECIFICATION Spec
CONSTANTS
    NumTasks = 1
    Empty = {}
    MaxStarts = 1
    MaxAttempts = 1
    MaxFaults = 0
    MaxRuns = 2
    Requests = {"cancel", "close", "retry", "reschedule"}
INVARIANTS AgentAfterPlaceholder
PROPERTIES OutcomeIsNotRerun
CHECK_DEADLOCK FALSE
