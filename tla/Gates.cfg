SPECIFICATION MCSpec
CONSTANTS
    Drivers = {d1}
    Requests = {}
    Clicks = {}
    AutoLevels = {TRUE, FALSE}
    Evidence = {"pass", "fail", "none"}
    MaxRetries = 1
    MaxAttempts = 5
    MaxReviews = 5
    MaxQas = 5
    MaxFeedback = 2
    MaxCrashes = 1
    DeskRequests = {c1}
    DeskClicks = {"review", "qa", "checkpoint", "createReview", "createQa", "checklist", "menu", "steer", "prepare"}
    DeskAttempts = 1
    DeskReviews = 1
    DeskQas = 2
    DeskCrashes = 0
INVARIANTS DriverVerifies DriverSendsBack DriverGivesUp DeskHasEvidence
PROPERTIES DriverLeavesDone DriverAddresses DeskKeepsVerdicts
CHECK_DEADLOCK FALSE
