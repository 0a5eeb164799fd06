SPECIFICATION FairSpec
CONSTANTS
    DeliveryWorkers = {d1}
    ExecutionWorkers = {e1}
    NoOwner = NoOwner
    MaxDeliveries = 3
    MaxAttempts = 2
    MaxStartRetries = 1
    LineComments = FALSE
    ApiRequests = {"cancelled"}
PROPERTIES ResultDelivered
CHECK_DEADLOCK FALSE
