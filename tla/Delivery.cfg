SPECIFICATION DeliverySpec
CONSTANTS
    Planners = {p1}
    Drivers = {d1}
    Requests = {}
    Finishers = {f1, f2}
    Items = {i1, i2, i3}
    Clicks = {"generate"}
    Faults = {"planner", "hand"}
    MaxVersions = 1
    MaxAsks = 2
    MaxMoves = 0
    MaxCrashes = 1
    GateDrivers = {d1}
    Evidence = {"pass", "fail", "none"}
    MaxRetries = 1
    MaxAttempts = 4
    MaxReviews = 4
    MaxQas = 4
    MaxFeedback = 1
INVARIANTS CompletedHasNoOpenWork
PROPERTIES PlanApplied DeliveryConcludes ReviewAdvances
CHECK_DEADLOCK FALSE
