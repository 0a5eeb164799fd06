SPECIFICATION Spec
CONSTANTS
    DeliveryWorkers = {d1}
    ExecutionWorkers = {e1}
    NoOwner = NoOwner
    MaxDeliveries = 3
    MaxAttempts = 2
    MaxStartRetries = 1
    LineComments = FALSE
    ApiRequests = {"cancelled", "superseded"}
INVARIANTS BindingInv OneComment
PROPERTIES SessionNotRestarted
CHECK_DEADLOCK FALSE
