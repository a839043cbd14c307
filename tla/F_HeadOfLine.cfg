SPECIFICATION LiveSpec
CONSTANTS
    NoTask = NoTask
    NoItem = NoItem
    NoSession = NoSession
    Rows <- MCFreshRows
    Drafts <- MCDrafts
    Slots = {w1}
    Requests = {}
    Limit = 2
    MaxRetries = 0
    Ceiling = 4
    Costs = {1}
    MaxCost = 2
    PlanningCost = 1
    MaxSessions = 3
    MaxEvents = 0
PROPERTIES SlotsFilled
CHECK_DEADLOCK FALSE
