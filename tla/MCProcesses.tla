----------------------------- MODULE MCProcesses -----------------------------
(***************************************************************************)
(* The processes around the core, for model checking: each behaviour is    *)
(* one of one process, chosen in the initial state; the others rest in a   *)
(* state in which nothing of theirs is due.                                *)
(***************************************************************************)
EXTENDS Naturals, FiniteSets

CONSTANTS
    Parts,       (* the services a run looks at, of PartNames               *)
    SupRoles, MaxBackoff, MaxStrays, NoOne,                 (* Supervision  *)
    MaxPreviews, MaxConcurrent, MaxRestarts,                (* Preview      *)
    Jobs, MaxEdits,                                         (* AgentJob     *)
    MaxEvents, Cap, PageSize, MaxReads, MaxFaults,          (* LogStream    *)
    MaxNotifications, Limit, MaxDrops,                      (* LiveChannel  *)
    MaxAttempts, MaxMoves, MaxPollFaults                    (* PullRequests *)

VARIABLES
    part,        (* the service of this behaviour                           *)
    supRole, supState, supProc, supBackoff, supBeat, supStruck, supLock, supStrays,
    preRows, preClicks, preEngine, preFound, preRun, preActive, preChild, preRestarts,
    jobSetup, jobJobs, jobChild, jobRemote,
    logAgent, logPrinted, logSeq, logTruncated, logBuffer, logBatches,
    logStored, logSession, logLink, logClient, logSeen, logFaults,
    liveKinds, liveUnread, liveHidden, liveLink, liveBadge, liveSeen, liveToasted, liveDrops,
    prSetup, prTask, prFeedback, prWorker, prHead, prChecks, prPulls, prSessions,
    prPoll, prMerges, prMoves, prFaults

supVars  == <<supRole, supState, supProc, supBackoff, supBeat, supStruck, supLock, supStrays>>
preVars  == <<preRows, preClicks, preEngine, preFound, preRun, preActive, preChild, preRestarts>>
jobVars  == <<jobSetup, jobJobs, jobChild, jobRemote>>
logVars  == <<logAgent, logPrinted, logSeq, logTruncated, logBuffer, logBatches,
              logStored, logSession, logLink, logClient, logSeen, logFaults>>
liveVars == <<liveKinds, liveUnread, liveHidden, liveLink, liveBadge, liveSeen,
              liveToasted, liveDrops>>
prVars   == <<prSetup, prTask, prFeedback, prWorker, prHead, prChecks, prPulls, prSessions,
              prPoll, prMerges, prMoves, prFaults>>

vars == <<part, supVars, preVars, jobVars, logVars, liveVars, prVars>>

PartNames == {"supervision", "preview", "job", "logs", "live", "pulls"}

ASSUME PartsAssumption == Parts \subseteq PartNames

ASSUME PageAssumption == PageSize \in Nat \ {0}

ASSUME HolderAssumption == NoOne \notin {"child", "stray"}

ASSUME PreviewAssumption == MaxPreviews \in Nat /\ MaxConcurrent \in Nat

---------------------------------------------------------------------------
Sup == INSTANCE Supervision WITH
    Roles <- SupRoles,
    role <- supRole, sup <- supState, proc <- supProc, backoff <- supBackoff,
    beat <- supBeat, struck <- supStruck, lock <- supLock, strays <- supStrays

Pre == INSTANCE Preview WITH
    MaxRows <- MaxPreviews,
    rows <- preRows, clicks <- preClicks, engine <- preEngine, found <- preFound,
    run <- preRun, active <- preActive, child <- preChild, restarts <- preRestarts

JobSetup(level, sandbox, lockfile, stack, branch, jobs) ==
    [level |-> level, sandbox |-> sandbox, lockfile |-> lockfile, stack |-> stack,
     branch |-> branch, jobs |-> jobs]

(* A task nobody prepares.                                                 *)
NoJobs == JobSetup("manual", "none", "none", {}, "task", 0)

JobSetups ==
    {NoJobs,
     JobSetup("autonomous", "docker", "npm", {"node"}, "task", 1),
     JobSetup("delegate", "docker", "none", {"python"}, "task", 1),
     JobSetup("assist", "none", "pnpm", {}, "task", 2),
     JobSetup("suggest", "none", "no manifest", {}, "task", 1),
     JobSetup("autonomous", "docker", "no manifest", {}, "main", 1)}

Job == INSTANCE AgentJob WITH
    Setups <- JobSetups,
    setup <- jobSetup, job <- jobJobs, child <- jobChild, remote <- jobRemote

Log == INSTANCE LogStream WITH
    agent <- logAgent, printed <- logPrinted, seq <- logSeq, truncated <- logTruncated,
    buffer <- logBuffer, batches <- logBatches, stored <- logStored,
    session <- logSession, link <- logLink, client <- logClient, seen <- logSeen,
    faults <- logFaults

LiveN == INSTANCE LiveChannel WITH
    MaxRows <- MaxNotifications,
    kinds <- liveKinds, unread <- liveUnread, hidden <- liveHidden, link <- liveLink,
    badge <- liveBadge, seen <- liveSeen, toasted <- liveToasted, drops <- liveDrops

PRs == INSTANCE PullRequests WITH
    setup <- prSetup, task <- prTask, feedback <- prFeedback, worker <- prWorker,
    head <- prHead, checks <- prChecks, prs <- prPulls, sessions <- prSessions,
    poll <- prPoll, merges <- prMerges, moves <- prMoves,
    faults <- prFaults

---------------------------------------------------------------------------
(* A service that is not looked at.                                        *)

SupAtRest ==
    /\ supRole = CHOOSE r \in SupRoles : TRUE
    /\ supState = "gone" /\ supProc = [p \in Sup!Procs |-> "down"]
    /\ supBackoff = 0 /\ supBeat = "missing" /\ supStruck = FALSE
    /\ supLock = NoOne /\ supStrays = 0

PreAtRest == Pre!Init

JobAtRest == Job!Init /\ jobSetup = NoJobs

LogAtRest ==
    /\ logAgent = "lost" /\ logPrinted = 0 /\ logSeq = 0 /\ logTruncated = FALSE
    /\ logBuffer = {} /\ logBatches = {} /\ logStored = {}
    /\ logSession = "terminal" /\ logLink = Log!Closed /\ logClient = "finished"
    /\ logSeen = {} /\ logFaults = 0

LiveAtRest ==
    /\ liveKinds = [i \in LiveN!Ids |-> "none"] /\ liveUnread = {}
    /\ liveHidden = TRUE /\ liveLink = LiveN!Closed /\ liveBadge = 0
    /\ liveSeen = {} /\ liveToasted = [i \in LiveN!Ids |-> 0] /\ liveDrops = 0

(* Without an attempt there is nothing to poll.                            *)
PrAtRest == PRs!Init /\ prSetup = [autonomous |-> FALSE, ci |-> FALSE]

Init ==
    /\ part \in Parts
    /\ IF part = "supervision" THEN Sup!Init ELSE SupAtRest
    /\ IF part = "preview" THEN Pre!Init ELSE PreAtRest
    /\ IF part = "job" THEN Job!Init ELSE JobAtRest
    /\ IF part = "logs" THEN Log!Init ELSE LogAtRest
    /\ IF part = "live" THEN LiveN!Init ELSE LiveAtRest
    /\ IF part = "pulls" THEN PRs!Init ELSE PrAtRest

Next ==
    \/ /\ part = "supervision" /\ Sup!Next
       /\ UNCHANGED <<part, preVars, jobVars, logVars, liveVars, prVars>>
    \/ /\ part = "preview" /\ Pre!Next
       /\ UNCHANGED <<part, supVars, jobVars, logVars, liveVars, prVars>>
    \/ /\ part = "job" /\ Job!Next
       /\ UNCHANGED <<part, supVars, preVars, logVars, liveVars, prVars>>
    \/ /\ part = "logs" /\ Log!Next
       /\ UNCHANGED <<part, supVars, preVars, jobVars, liveVars, prVars>>
    \/ /\ part = "live" /\ LiveN!Next
       /\ UNCHANGED <<part, supVars, preVars, jobVars, logVars, prVars>>
    \/ /\ part = "pulls" /\ PRs!Next
       /\ UNCHANGED <<part, supVars, preVars, jobVars, logVars, liveVars>>

Spec == Init /\ [][Next]_vars

LiveSpec ==
    /\ Spec
    /\ Sup!Fairness /\ Pre!Fairness /\ Job!Fairness /\ Log!Fairness /\ LiveN!Fairness /\ PRs!Fairness

---------------------------------------------------------------------------
(* The types of the state of the service that is looked at.                *)
TypeOK ==
    CASE part = "supervision" -> Sup!TypeOK
      [] part = "preview"     -> Pre!TypeOK
      [] part = "job"         -> Job!TypeOK
      [] part = "logs"        -> Log!TypeOK
      [] part = "live"        -> LiveN!TypeOK
      [] part = "pulls"       -> PRs!TypeOK

(* Never two drivers tick, and never two workers claim, at once            *)
(* (worker/single-instance-lock.ts).                                       *)
OneAtWork == part = "supervision" => Sup!OneAtWork

(* A process that hangs in its loop is replaced by one that beats          *)
(* (scripts/supervise.mjs, checkHeartbeats).                               *)
HungReplaced == Sup!HungReplaced

(* No more dev servers run than PREVIEW_MAX_CONCURRENT, also after the     *)
(* engine has died and come back (preview-service-db.ts).                  *)
CapacityKept == part = "preview" => Pre!CapacityKept

(* A preview the engine has taken ends when its user wants it stopped      *)
(* (preview-runner.ts, reconcileActivePreviews).                           *)
StopHonoured == Pre!StopHonoured

(* What a job has pushed stays, no protected change is pushed that git     *)
(* lists by its own path, a session is complete only with its pull         *)
(* request, and its trail claims no push that did not happen               *)
(* (worker/index.ts, processSession; repo-manager.ts, getChangedFiles).    *)
DeliveredSoundly == part = "job" => Job!DeliveredSoundly

(* A job that has begun comes to an end (worker/index.ts, processSession). *)
JobEnds == Job!JobEnds

(* The cursor never passes an event that is stored behind it               *)
(* (session-log-streamer.ts, session-log-store.ts).                        *)
NothingSkipped == part = "logs" => Log!NothingSkipped

(* A tab that stays in view ends up with the true count of the unread      *)
(* notifications (live-pipeline-data.ts).                                  *)
BadgeCatchesUp == LiveN!BadgeCatchesUp

(* Every row of a merged pull request gets to know of the merge            *)
(* (pr-feedback-ingestion-service.ts).                                     *)
MergeObserved == PRs!MergeObserved

(* What the poll merges by itself has passed its checks                    *)
(* (pr-feedback-ingestion-service.ts, the auto-merge).                     *)
MergedIsGreen == part = "pulls" => PRs!MergedIsGreen
============================================================================
