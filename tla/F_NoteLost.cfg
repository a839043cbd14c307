SPECIFICATION Spec
CONSTANTS
    Parts = {"chat"}
    Nobody = Nobody
    NoTask = NoTask
    NoItem = NoItem
    RelTasks = {ta}
    Tabs = {s1, s2}
    MaxReleases = 1
    MaxNews = 2
    RepoRuns = {a1, a2}
    MaxCommits = 1
    MaxSnapshots = 2
    MaxUpsets = 1
    ChatTabs = {w1}
    NoTab = NoTab
    Provider = "ai"
    MaxTurns = 3
    MaxVersions = 1
    ReviewDays = 1
    ExecutionDays = 1
    FailureDays = 0
    MaxRetries = 1
    MaxDays = 1
    Measured = {m1}
    Ticks = {d1, d2}
    DayLength = 2
    WindowDays = 1
    MaxMoments = 3
    MaxVerdicts = 1
    Founders = {fa, fb}
    FoundingTabs = {o1, o2, o3}
    MaxClicks = 3
    NoCompany = NoCompany
    Browsing = {b1, b2}
    RepoNames = {g1, g2}
    Hosted = {g1}
    MaxTokens = 2
    MaxRounds = 2
    MaxAdded = 2
    MaxHours = 2
    MaxVisits = 2
    Linked = TRUE
    Reviews = {v1, v2}
    QaResults = {q1}
    Shipments = {l1}
    Threshold = 3
    MaxNotes = 1
    MaxFaults = 1
    Repositories = {r1, r2}
    Nowhere = Nowhere
    MaxAttempts = 2
    MaxReviews = 2
    MaxDeskMoments = 2
    MaxDeskVisits = 1
INVARIANTS SteersAbsorbed
CHECK_DEADLOCK FALSE
