CONSTANTS
    r1 = r1
    r2 = r2
    q1 = q1
    q2 = q2
    q3 = q3
    w1 = w1
    w2 = w2
    Sweeper = sweeper
    NoRun = NoRun
    NoJob = NoJob
    Runs = {r1}
    Resumable = {r1}
    Requests = {q1, q2}
    Watchers = {}
    NameOf <- OwnNames
    Mode = "poll"
    ClusterErrors = TRUE
    StorageErrors = TRUE
    MaxCrashes = 1
    LaunchWithinGrace = FALSE
SPECIFICATION Spec
INVARIANTS LifecycleInv
PROPERTIES OrphanedOnlyOld LedgerImplemented
SYMMETRY TaskSymmetry
CHECK_DEADLOCK FALSE
