SPECIFICATION QueuedFairSpec
CONSTANTS
    r1 = r1
    r2 = r2
    m1 = m1
    s1 = s1
    NoKey = NoKey
    NoChild = NoChild
    NoSource = NoSource
    Keys = {r1}
    Models = {m1}
    Sources = {s1}
    ModelOf <- OneModel
    SourceOf <- OneSource
    TriggerOf <- Revisions
    StepsOf <- AllSteps
    MaxChildren = 2
    Ticks = {t1, t2}
    Callers = {c1}
    MaxFaults = 1
INVARIANTS AutomationTypeOK PassedMeansChecked AnnouncedOnce NoForgottenChild
PROPERTIES EveryRunEnds
CHECK_DEADLOCK FALSE
