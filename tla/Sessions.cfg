SPECIFICATION Spec
CONSTANTS
    Tasks = {t1}
    MaxSessions = 3
    Drivers = {d1}
    Requests = {r1}
    Workers = {w1, w2}
    Forms = {}
    Cancelers = {}
    Faults = {"workerCrash", "preparerCrash", "db", "overrun"}
    MaxCrashes = 1
    NoTask = NoTask
    NoSession = NoSession
INVARIANTS AtMostOneLiveSession ResultStands
PROPERTIES ContractKept
SYMMETRY Symmetry
CHECK_DEADLOCK FALSE
