SPECIFICATION FairSpec
CONSTANTS
    Workers = {w1, w2}
    NumTasks = 2
    Kind <- CommandAndReview
    Priority <- SamePriority
    MaxPriority = 0
    Repo = Repo
    Pr1 = Pr1
    Pr2 = Pr2
    Keys <- AllKeys
    Units <- TwoUnits
    Capacity <- Capacities
    AdminCapacity <- Reconfigured
    LockSeconds = 1
    PollInterval = 0
    TaskTimeout = 0
    ScanLimit = 2
INVARIANTS TypeOK OneWorkerPerTask
PROPERTIES LeasesWithinCapacity OpenTaskIsOfferedAgain
