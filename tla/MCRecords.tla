----------------------------- MODULE MCRecords -----------------------------
(***************************************************************************)
(* What the services record, for model checking: each behaviour is one of  *)
(* one service, chosen in the initial state; the others stay as they are.  *)
(***************************************************************************)
EXTENDS Naturals, FiniteSets

CONSTANTS
    Parts,       (* the services a run looks at, of PartNames               *)
    Nobody, NoTask, NoItem,                               (* PlanGeneration *)
    RelTasks, Tabs, MaxReleases, MaxNews,                 (* Releases       *)
    RepoRuns, MaxCommits, MaxSnapshots, MaxUpsets,        (* Repositories   *)
    ChatTabs, NoTab, Provider, MaxTurns, MaxVersions,     (* Conversation   *)
    ReviewDays, ExecutionDays, FailureDays, MaxRetries,   (* Overview       *)
    MaxDays,
    Measured, Ticks, DayLength, WindowDays, MaxMoments,   (* CompanyHealth  *)
    MaxVerdicts,
    Founders, FoundingTabs, MaxClicks, NoCompany,         (* Founding       *)
    Browsing, RepoNames, Hosted, MaxTokens, MaxRounds,    (* Connections    *)
    MaxAdded, MaxHours, MaxVisits, Linked,
    Reviews, QaResults, Shipments, Threshold, MaxNotes,   (* CompanyMemory  *)
    MaxFaults,
    Repositories, Nowhere, MaxAttempts, MaxReviews,       (* TaskDesk       *)
    MaxDeskMoments, MaxDeskVisits

VARIABLES
    part,        (* the service of this behaviour                           *)
    planRequest, planStage, planResult, planRows,
    relRecords, relReleases, relOutcome, relTab, relTicked, relNews,
    repoTree, repoRow, repoRuns, repoSnapshots, repoCommits, repoUpsets,
    chatThread, chatDeleted, chatRequests, chatSends, chatLock, chatJobs,
    chatSent, chatAdvances, chatLosses,
    homeDay, homeMoved, homePlan, homeTask, homeSession, homeFailed, homeReview, homeQa,
    homeReworked, homeAsked, homeReady, homeNotice, homeWorker, homeDecides, homeListed,
    healthNow, healthDone, healthVerdicts, healthTicks, healthKept,
    fndUsers, fndRoles, fndCompanies, fndTab, fndChosen, fndClicks,
    connHour, connTokens, connRows, connRounds, connCookie, connHosted, connWorkspace,
    connRecords, connPage, connVisits,
    memReviews, memQa, memShipped, memBanks, memRecords, memTick, memFaults,
    deskLink, deskRecent, deskClock, deskTask, deskSessions, deskWorked, deskReviews,
    deskQas, deskAsked, deskPage, deskVisits, deskCalls

planVars == <<planRequest, planStage, planResult, planRows>>
relVars  == <<relRecords, relReleases, relOutcome, relTab, relTicked, relNews>>
repoVars == <<repoTree, repoRow, repoRuns, repoSnapshots, repoCommits, repoUpsets>>
chatVars == <<chatThread, chatDeleted, chatRequests, chatSends, chatLock, chatJobs,
              chatSent, chatAdvances, chatLosses>>
homeVars == <<homeDay, homeMoved, homePlan, homeTask, homeSession, homeFailed, homeReview,
              homeQa, homeReworked, homeAsked, homeReady, homeNotice, homeWorker,
              homeDecides, homeListed>>
healthVars == <<healthNow, healthDone, healthVerdicts, healthTicks, healthKept>>
fndVars == <<fndUsers, fndRoles, fndCompanies, fndTab, fndChosen, fndClicks>>
connVars == <<connHour, connTokens, connRows, connRounds, connCookie, connHosted,
              connWorkspace, connRecords, connPage, connVisits>>
memVars == <<memReviews, memQa, memShipped, memBanks, memRecords, memTick, memFaults>>
deskVars == <<deskLink, deskRecent, deskClock, deskTask, deskSessions, deskWorked,
              deskReviews, deskQas, deskAsked, deskPage, deskVisits, deskCalls>>

vars == <<part, planVars, relVars, repoVars, chatVars, homeVars, healthVars, fndVars,
          connVars, memVars, deskVars>>

PartNames == {"plan", "releases", "repos", "chat", "home", "health", "founding",
              "connect", "memory", "desk"}

ASSUME PartsAssumption == Parts \subseteq PartNames

(* NoTab is not a tab.                                                     *)
ASSUME ChatAssumption == NoTab \notin ChatTabs

(* The thresholds of what counts as stuck are spans of time.               *)
ASSUME OverviewAssumption == ReviewDays \in Nat /\ ExecutionDays \in Nat

(* A company has finitely many tasks, and a day has a length.              *)
ASSUME HealthAssumption ==
    IsFiniteSet(Measured) /\ DayLength \in Nat \ {0} /\ WindowDays \in Nat

---------------------------------------------------------------------------
Rel == INSTANCE Releases WITH
    Tasks <- RelTasks,
    records <- relRecords, releases <- relReleases, outcome <- relOutcome,
    tab <- relTab, ticked <- relTicked, news <- relNews

Chat == INSTANCE Conversation WITH
    thread <- chatThread, deleted <- chatDeleted, requests <- chatRequests,
    sends <- chatSends, lock <- chatLock, jobs <- chatJobs, sent <- chatSent,
    advances <- chatAdvances, losses <- chatLosses

Home == INSTANCE Overview WITH
    day <- homeDay, moved <- homeMoved, plan <- homePlan, task <- homeTask,
    session <- homeSession, failed <- homeFailed, review <- homeReview, qa <- homeQa,
    reworked <- homeReworked, asked <- homeAsked, ready <- homeReady,
    notice <- homeNotice, worker <- homeWorker, decides <- homeDecides,
    listed <- homeListed

Health == INSTANCE CompanyHealth WITH
    now <- healthNow, doneAt <- healthDone, verdicts <- healthVerdicts,
    ticks <- healthTicks, kept <- healthKept

(* All but one tab are those of the first founder.                         *)
FirstFounder == CHOOSE f \in Founders : TRUE

LastTab == CHOOSE t \in FoundingTabs : TRUE

LastFounder == CHOOSE f \in Founders : f # FirstFounder

FounderOf == [t \in FoundingTabs |-> IF t = LastTab THEN LastFounder ELSE FirstFounder]

Fnd == INSTANCE Founding WITH
    Whose <- FounderOf,
    Mailless <- {LastFounder},
    users <- fndUsers, roles <- fndRoles, companies <- fndCompanies, tab <- fndTab,
    chosen <- fndChosen, clicks <- fndClicks

ASSUME FoundersAssumption ==
    FounderOf \in [FoundingTabs -> Founders] /\ NoCompany \notin Fnd!Companies

Conn == INSTANCE Connections WITH
    hour <- connHour, tokens <- connTokens, conns <- connRows, rounds <- connRounds,
    cookie <- connCookie, hosted <- connHosted, workspace <- connWorkspace,
    records <- connRecords, page <- connPage, visits <- connVisits

(* Two remarks that differ in their punctuation alone.                     *)
MemRemarks == {"fix it.", "fix it!"}

(* Two remarks that become one slug.                                       *)
Verdict(verdict, notes, dot, bang) ==
    [verdict |-> verdict, notes |-> notes,
     found |-> [k \in MemRemarks |-> IF k = "fix it." THEN dot ELSE bang]]

MemDecisions ==
    {Verdict("approved", FALSE, 0, 0), Verdict("approved", TRUE, 2, 0),
     Verdict("changes_requested", FALSE, 1, 3)}

MemOutcomes == {[status |-> "failed", checked |-> TRUE, notes |-> FALSE]}

(* The CEO's own standard, which names the source of one of the driver's.  *)
MemByHand ==
    {[category |-> "standards", source |-> <<"learning", "fix-it">>, confidence |-> 100,
      by |-> "hand"]}

Mem == INSTANCE CompanyMemory WITH
    Remarks <- MemRemarks,
    Slug <- [k \in MemRemarks |-> "fix-it"],
    Blocking <- {"fix it!"},
    Decisions <- MemDecisions, Outcomes <- MemOutcomes, ByHand <- MemByHand,
    reviews <- memReviews, qa <- memQa, shipped <- memShipped, banks <- memBanks,
    records <- memRecords, tick <- memTick, faults <- memFaults

Desk == INSTANCE TaskDesk WITH
    MaxMoments <- MaxDeskMoments, MaxVisits <- MaxDeskVisits,
    Planned <- FALSE, Described <- TRUE, Analysed <- {},
    link <- deskLink, recent <- deskRecent, clock <- deskClock, task <- deskTask,
    sessions <- deskSessions, worked <- deskWorked, reviews <- deskReviews, qas <- deskQas,
    asked <- deskAsked, page <- deskPage, visits <- deskVisits, calls <- deskCalls

---------------------------------------------------------------------------
(* The requests, and what a model answers.                                 *)

Everybody ==
    {"Product Manager", "Tech Lead", "Backend Engineer",
     "Frontend Engineer", "Reviewer", "QA Engineer", "Release Manager"}

PlanRequest(flaws, words, hired, repositories, provider) ==
    [flaws |-> flaws, words |-> words, hired |-> hired, repositories |-> repositories,
     files |-> 3, memory |-> 1, constrained |-> TRUE, provider |-> provider]

PlanRequests ==
    {PlanRequest({}, words, hired, n, p) :
        words \in {{}, {"repository-intelligence"}},
        hired \in {{}, {"Backend Engineer", "Tech Lead"}, Everybody},
        n \in 0 .. 1, p \in {"ai", "deterministic"}}
    \cup {PlanRequest(flaws, {}, Everybody, 1, p) :
            flaws \in {{"short"}, {"vague", "unsupported"}}, p \in {"ai", "deterministic"}}

AiTask(role, deps, order) ==
    [feature |-> "f", role |-> role, kind |-> "none", employee |-> role, deps |-> deps,
     criteria |-> 2, definitionOfDone |-> 1, context |-> 1, order |-> order,
     points |-> 5, described |-> TRUE]

SoundPlan ==
    [projects |-> <<[owner |-> Nobody, milestones |-> <<[order |-> 1, criteria |-> 1]>>]>>,
     features |-> <<[id |-> "f", owner |-> "Tech Lead", employee |-> "Tech Lead",
                     order |-> 1, criteria |-> 1, deps |-> {}]>>,
     tasks |-> [look |-> AiTask("Reviewer", {}, 1), write |-> AiTask("Backend Engineer", {"look"}, 2)],
     assignments  |-> {[role |-> "Backend Engineer", employee |-> "Backend Engineer",
                        tasks |-> {"write"}]},
     dependencies |-> {[id |-> "approval", blocks |-> {"f"}, before |-> 1]},
     assumptions |-> 1, risks |-> 1, questions |-> 1, review |-> 1, qa |-> 1, release |-> 1]

PlansOfModel ==
    {SoundPlan, [SoundPlan EXCEPT !.qa = 0], [SoundPlan EXCEPT !.features[1].criteria = 0],
     [SoundPlan EXCEPT !.tasks["write"].kind = "analysis"],
     [SoundPlan EXCEPT !.tasks["look"].kind = "design"]}

Plan == INSTANCE PlanGeneration WITH
    Requests <- PlanRequests, AiPlans <- PlansOfModel,
    request <- planRequest, stage <- planStage, result <- planResult, rows <- planRows

(* "No task" is not the number of one, nor "no item" an item of a plan.    *)
ASSUME PlanAssumption ==
    NoTask \notin Nat /\ \A r \in PlanRequests : NoItem \notin DOMAIN Plan!Tasks(r)

---------------------------------------------------------------------------
(* A repository: what its paths say, and what its files may hold.          *)

AFile(kind, ext, rank) ==
    [kind |-> kind, ext |-> ext, rank |-> rank, url |-> "", ignored |-> FALSE,
     known |-> FALSE, depth |-> 1, large |-> FALSE, auth |-> {}, class |-> "none"]

RepoAbout ==
    [action     |-> [AFile("action", "ts", 1) EXCEPT !.auth = {"action"}],
     admin      |-> [AFile("page", "ts", 2) EXCEPT !.auth = {"admin"}],
     grouped    |-> [AFile("api", "ts", 3) EXCEPT !.url = "/api/x"],
     moved      |-> [AFile("api", "ts", 4) EXCEPT !.url = "/api/x"],
     guide      |-> AFile("other", "md", 5),
     library    |-> [AFile("other", "ts", 6) EXCEPT !.ignored = TRUE],
     source     |-> AFile("other", "ts", 7),
     check      |-> AFile("test", "ts", 8),
     middleware |-> [AFile("middleware", "ts", 9) EXCEPT
                        !.known = TRUE, !.class = "middleware", !.depth = 0],
     manifest   |-> [AFile("manifest", "json", 10) EXCEPT
                        !.known = TRUE, !.class = "package", !.depth = 0],
     schema     |-> AFile("schema", "prisma", 11),
     authfile   |-> [AFile("other", "ts", 12) EXCEPT !.class = "middleware"]]

APackage(deps, scripts) ==
    [readable |-> TRUE, manager |-> "none", deps |-> deps, devDeps |-> {"vitest"},
     scripts |-> scripts]

RepoContents ==
    [p \in DOMAIN RepoAbout |->
        CASE p = "schema"   -> {{"User"}, {"User", "Task"}}
          [] p = "manifest" -> {APackage({"next"}, [build |-> 1]),
                                APackage({"next", "next-auth"}, [build |-> 2])}
          [] OTHER          -> {1, 2}]

RepoTree ==
    [p \in DOMAIN RepoAbout \ {"moved"} |->
        CASE p = "schema"   -> {"User", "Task"}
          [] p = "manifest" -> APackage({"next", "next-auth"}, [build |-> 1])
          [] OTHER          -> 1]

Repo == INSTANCE Repositories WITH
    Paths <- DOMAIN RepoAbout, About <- RepoAbout, AuthDeps <- {"next-auth"},
    MaxWalk <- 10, MaxDepth <- 6, SourcesPerTest <- 10,
    FirstTree <- RepoTree, Contents <- RepoContents, Runs <- RepoRuns,
    tree <- repoTree, row <- repoRow, runs <- repoRuns, snapshots <- repoSnapshots,
    commits <- repoCommits, upsets <- repoUpsets

---------------------------------------------------------------------------
(* A service that is not looked at.                                        *)

PlanAtRest ==
    /\ planRequest = PlanRequest({"short"}, {}, {}, 0, "deterministic")
    /\ planStage = "failed" /\ planResult = Plan!Failure /\ planRows = {}

RelAtRest == Rel!Init

RepoAtRest == Repo!Init

ChatAtRest == Chat!Init

HomeAtRest ==
    /\ Home!Init /\ homePlan = "draft" /\ homeReady /\ ~homeDecides

HealthAtRest == Health!Init

FndAtRest == Fnd!Init

ConnAtRest ==
    /\ connHour = 0 /\ connTokens = <<>> /\ connRows = <<>> /\ connRounds = <<>>
    /\ connCookie = <<>> /\ connHosted = {} /\ connWorkspace = FALSE /\ connRecords = <<>>
    /\ connPage = <<>> /\ connVisits = 0

MemAtRest ==
    /\ memReviews = <<>> /\ memQa = <<>> /\ memShipped = {} /\ memBanks = {}
    /\ memRecords = <<>> /\ memTick = <<>> /\ memFaults = 0

DeskAtRest ==
    /\ deskLink = Nowhere /\ deskRecent = Nowhere /\ deskClock = 1 /\ deskTask = "todo"
    /\ deskSessions = <<>> /\ deskWorked = 0 /\ deskReviews = <<>> /\ deskQas = <<>>
    /\ deskAsked = FALSE /\ deskPage = Desk!NoPage /\ deskVisits = 0
    /\ deskCalls = [caller \in Desk!Callers |-> Desk!NoCall]

Init ==
    /\ part \in Parts
    /\ IF part = "plan" THEN Plan!Init ELSE PlanAtRest
    /\ IF part = "releases" THEN Rel!Init ELSE RelAtRest
    /\ IF part = "repos" THEN Repo!Init ELSE RepoAtRest
    /\ IF part = "chat" THEN Chat!Init ELSE ChatAtRest
    /\ IF part = "home" THEN Home!Init ELSE HomeAtRest
    /\ IF part = "health" THEN Health!Init ELSE HealthAtRest
    /\ IF part = "founding" THEN Fnd!Init ELSE FndAtRest
    /\ IF part = "connect" THEN Conn!Init ELSE ConnAtRest
    /\ IF part = "memory" THEN Mem!Init ELSE MemAtRest
    /\ IF part = "desk" THEN Desk!Init ELSE DeskAtRest

Next ==
    \/ /\ part = "plan" /\ Plan!Next
       /\ UNCHANGED <<part, relVars, repoVars, chatVars, homeVars, healthVars,
                      fndVars, connVars, memVars, deskVars>>
    \/ /\ part = "releases" /\ Rel!Next
       /\ UNCHANGED <<part, planVars, repoVars, chatVars, homeVars, healthVars,
                      fndVars, connVars, memVars, deskVars>>
    \/ /\ part = "repos" /\ Repo!Next
       /\ UNCHANGED <<part, planVars, relVars, chatVars, homeVars, healthVars,
                      fndVars, connVars, memVars, deskVars>>
    \/ /\ part = "chat" /\ Chat!Next
       /\ UNCHANGED <<part, planVars, relVars, repoVars, homeVars, healthVars,
                      fndVars, connVars, memVars, deskVars>>
    \/ /\ part = "home" /\ Home!Next
       /\ UNCHANGED <<part, planVars, relVars, repoVars, chatVars, healthVars,
                      fndVars, connVars, memVars, deskVars>>
    \/ /\ part = "health" /\ Health!Next
       /\ UNCHANGED <<part, planVars, relVars, repoVars, chatVars, homeVars, fndVars,
                      connVars, memVars, deskVars>>
    \/ /\ part = "founding" /\ Fnd!Next
       /\ UNCHANGED <<part, planVars, relVars, repoVars, chatVars, homeVars,
                      healthVars, connVars, memVars, deskVars>>
    \/ /\ part = "connect" /\ Conn!Next
       /\ UNCHANGED <<part, planVars, relVars, repoVars, chatVars, homeVars,
                      healthVars, fndVars, memVars, deskVars>>
    \/ /\ part = "memory" /\ Mem!Next
       /\ UNCHANGED <<part, planVars, relVars, repoVars, chatVars, homeVars,
                      healthVars, fndVars, connVars, deskVars>>
    \/ /\ part = "desk" /\ Desk!Next
       /\ UNCHANGED <<part, planVars, relVars, repoVars, chatVars, homeVars,
                      healthVars, fndVars, connVars, memVars>>

Spec == Init /\ [][Next]_vars

---------------------------------------------------------------------------
(* The types of the state of the service that is looked at.                *)
TypeOK ==
    CASE part = "plan"        -> Plan!TypeOK
      [] part = "releases"    -> Rel!TypeOK
      [] part = "repos"       -> Repo!TypeOK
      [] part = "chat"        -> Chat!TypeOK
      [] part = "home"        -> Home!TypeOK
      [] part = "health"      -> Health!TypeOK
      [] part = "founding"    -> Fnd!TypeOK
      [] part = "connect"     -> Conn!TypeOK
      [] part = "memory"      -> Mem!TypeOK
      [] part = "desk"        -> Desk!TypeOK

(* The generator's plans are worked off in the order of their dependencies *)
(* and come to their end (planning-generator.ts, task-selection.ts).       *)
PlanRunsThrough == part = "plan" => Plan!PlanRunsThrough

(* A deployed release has had a checklist with every item ticked, and an   *)
(* outcome is released behind one of its own (app/actions/releases.ts).    *)
ShippedByTheBook == part = "releases" => Rel!ShippedByTheBook

(* The comparison of the last two snapshots tells what has changed, and a  *)
(* grave change has the highest impact (repository-snapshot-comparison.ts, *)
(* repository-impact-analysis.ts).                                         *)
ChangesReported == part = "repos" => Repo!ChangesReported

(* A grave change is raised also when a document came with it              *)
(* (repository-impact-analysis.ts, isDocumentationOnlyChange).             *)
NothingHidden == part = "repos" => Repo!NothingHidden

(* Nothing the CEO says is lost from the brief of its request, no answer   *)
(* claims, in a wording its guard knows, what no row says, and nothing     *)
(* shows as being planned for ever (chat-followup-service.ts,              *)
(* chat-reply-grounding.ts, chat-activity.ts).                             *)
ThreadKept == part = "chat" => Chat!ThreadKept

(* A session tells the agent of the notes routed to its task               *)
(* (mid-flight-steering.ts, steerActiveTaskFromFollowUp).                  *)
SteersAbsorbed == part = "chat" => Chat!SteersAbsorbed

(* What the company cannot go on with by itself shows on the home page or  *)
(* its board, but for a worker that is missing and for failed planning     *)
(* that ten other requests pushed off the page (stuck-work-detector.ts,    *)
(* next-action-recommendation.ts, control-center/page.tsx).                *)
StandstillSeen == part = "home" => Home!StandstillSeen

(* A day has one snapshot, with numbers that fit one another               *)
(* (company-health-snapshot-service.ts).                                   *)
HealthHonest == part = "health" => Health!HealthHonest

(* A founder has one company, with its whole staff, whatever happens while *)
(* it is founded (onboarding/page.tsx, company-seed.ts).                   *)
FoundedOnce == part = "founding" => Fnd!FoundedOnce

(* What the pages say of connections and repositories is so, whichever tab *)
(* connects, disconnects or imports (provider-connection-service.ts,       *)
(* integration-resources.ts).                                              *)
ConnectionsHonest == part = "connect" => Conn!ConnectionsHonest

(* Every tick of the driver learns what is new, once, whatever fails       *)
(* (memory-ingestion-service.ts, memory-learning-service.ts).              *)
LessonsKept == part = "memory" => Mem!LessonsKept

(* The time on task the page shows is the time worked, whatever the driver *)
(* and the desk's own forms do to the attempts while it is read            *)
(* (app/(app)/work/tasks/[id]/page.tsx, createExecutionSession).           *)
DeskTruthful == part = "desk" => Desk!DeskTruthful
============================================================================
