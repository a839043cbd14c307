SPECIFICATION FairSpec
CONSTANTS
    Tasks = {t1}
    MaxSessions = 1
    Drivers = {d1}
    Requests = {r1}
    Workers = {w1, w2}
    Forms = {f1}
    Cancelers = {c1}
    Faults = {"workerCrash", "db"}
    MaxCrashes = 1
    NoTask = NoTask
    NoSession = NoSession
INVARIANTS AgentRunsOnce
PROPERTIES PreparedSessionEnds
CHECK_DEADLOCK FALSE
