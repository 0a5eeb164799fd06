SPECIFICATION FairSpec
CONSTANTS
    DeliveryWorkers = {d1}
    ExecutionWorkers = {e1}
    NoOwner = NoOwner
    MaxDeliveries = 5
    MaxAttempts = 2
    MaxStartRetries = 1
    LineComments = TRUE
    ApiRequests = {}
INVARIANTS TypeOK AgentWaitsForPlaceholder OneComment FinalizedShowsOutcome
PROPERTIES CommentNeverGoesBack SessionNotRestarted PlaceholderDelivered ResultDelivered
CHECK_DEADLOCK FALSE
