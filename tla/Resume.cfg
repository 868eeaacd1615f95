CONSTANTS
    r1 = r1
    r2 = r2
    q1 = q1
    q2 = q2
    q3 = q3
    w1 = w1
    w2 = w2
    Sweeper = sweeper
    NoRun = NoRun
    NoJob = NoJob
    Runs = {r1}
    Resumable = {r1}
    Requests = {q1, q2}
    Watchers = {w1}
    NameOf <- OwnNames
    Mode = "primary"
    ClusterErrors = FALSE
    StorageErrors = FALSE
    MaxCrashes = 0
    LaunchWithinGrace = TRUE
SPECIFICATION Spec
PROPERTIES BackgroundBacksOff OrphanedOnlyOld
INVARIANTS OneVerdictPerOpening PodDeathVerdict
SYMMETRY TaskSymmetry
CHECK_DEADLOCK FALSE
