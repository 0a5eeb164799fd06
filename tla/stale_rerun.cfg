SPECIFICATION Spec
CONSTANTS
    Clients = {c1, c2}
    NoClient = NoClient
    MaxHead = 2
    MaxBase = 2
    MaxWebhooks = 3
    MaxRuns = 3
    Histories <- Stories
    Requests <- ThreeRequests
SYMMETRY ClientSymmetry
INVARIANTS RerunIsCurrent
CHECK_DEADLOCK FALSE
