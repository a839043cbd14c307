SPECIFICATION LiveSpec
CONSTANTS
    NoTask = NoTask
    NoItem = NoItem
    NoSession = NoSession
    Rows <- MCRows
    Drafts <- MCDrafts
    Slots = {w1, w2}
    Requests = {r1}
    Limit = 1
    MaxRetries = 1
    Ceiling = 2
    Costs = {2}
    MaxCost = 2
    PlanningCost = 2
    MaxSessions = 4
    MaxEvents = 1
INVARIANTS SpendBounded DriverKeepsLimit
PROPERTIES EveryTaskGetsItsTurn
CHECK_DEADLOCK FALSE
