SPECIFICATION ServicesSpec
CONSTANTS
    FocusSet = {"gate"}
    Evals = {e1}
    Samples = {s1, s2}
    GateConfig <- Thresholds
    SampleConcurrency = 2
    MaxGateFaults = 2
    NoModel = NoModel
    Models = {m1}
    Revs = {v1, v2}
    Replicas = {p1, p2}
    MaxEvents = 2
    Editors = {c1, c2}
    MaxLoops = 4
    MaxEdits = 2
    MaxBreaks = 1
    Tabs = {i1, i2}
    WebLocks = FALSE
    MaxTokens = 4
    MaxRequests = 3
    MaxAuthFaults = 1
    Channels = {h1, h2}
    Events = {n1}
    Ticks = {k1, k2}
    MaxAttempts = 2
    BatchSize = 1
    Undecryptable = {}
    MaxOutboxFaults = 1
    Alerts = {a1, a2}
    Webhooks = {w1, w2}
    MaxLlmFailures = 1
    call1 = call1
    call2 = call2
    call3 = call3
    Calls = {call1, call2, call3}
    Kind <- KindOfCall
    MaxRuns = 2
    MaxSteps = 2
    MaxPods = 1
    MaxConsecutive = 1
    Streamers = {y1}
    LogHandlers = {g1}
    MaxLogFaults = 0
    Pages = {b1}
    Loads = {l1}
INVARIANT
    RegressionsCounted
CHECK_DEADLOCK FALSE
