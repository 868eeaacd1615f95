SPECIFICATION QueuedSpec
CONSTANTS
    r1 = r1
    r2 = r2
    m1 = m1
    s1 = s1
    NoKey = NoKey
    NoChild = NoChild
    NoSource = NoSource
    Keys = {r1, r2}
    Models = {m1}
    Sources = {s1}
    ModelOf <- OneModel
    SourceOf <- OneSource
    TriggerOf <- Revisions
    StepsOf <- GateOnly
    MaxChildren = 2
    Ticks = {t1}
    Callers = {c1}
    MaxFaults = 0
INVARIANTS CancelledStopsChildren
CHECK_DEADLOCK FALSE
