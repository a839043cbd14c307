SPECIFICATION Spec
CONSTANTS
    Planners = {p1, p2}
    Drivers = {d1}
    Requests = {r1}
    Finishers = {f1}
    Items = {i1}
    Clicks = {"generate", "followUp", "approve", "reject", "apply", "release", "move"}
    Faults = {"planner", "hand", "finisher"}
    MaxVersions = 2
    MaxAsks = 2
    MaxMoves = 1
    MaxCrashes = 1
INVARIANTS WorkIsApproved NextVersionAfterRejection
CHECK_DEADLOCK FALSE
