SPECIFICATION Spec
CONSTANTS
    Parts = {"pulls"}
    SupRoles = {"worker", "driver"}
    MaxBackoff = 2
    MaxStrays = 2
    NoOne = NoOne
    MaxPreviews = 2
    MaxConcurrent = 1
    MaxRestarts = 1
    Jobs = {1, 2}
    MaxEdits = 1
    MaxEvents = 4
    Cap = 3
    PageSize = 2
    MaxReads = 2
    MaxFaults = 2
    MaxNotifications = 3
    Limit = 2
    MaxDrops = 1
    MaxAttempts = 2
    MaxMoves = 1
    MaxPollFaults = 0
INVARIANTS MergedIsGreen
CHECK_DEADLOCK FALSE
