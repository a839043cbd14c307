------------------------- MODULE ExecutionSession -------------------------
(***************************************************************************)
(* The life of the ExecutionSession rows and of the tasks they implement   *)
(* (apps/web/src/lib/execution-session-service.ts), with every process     *)
(* that writes them: the driver and the web server's "Prepare execution"   *)
(* action (prepareExecutionSessionForTask), the worker's claim and         *)
(* processSession, the manual result form (ingestExecutionResult), the     *)
(* stale-session reaper and cancelExecutionSession.  A database call is    *)
(* one step; what a caller read before an await is kept in its record and  *)
(* used after it.  A Prisma $transaction is one step.                      *)
(***************************************************************************)
EXTENDS Naturals, FiniteSets

CONSTANTS
    Tasks,        (* the tasks of one company                               *)
    MaxSessions,  (* bound: how many sessions are ever created              *)
    Drivers,      (* processes running autoPrepareNextExecutionSession      *)
    Requests,     (* web requests running the manual prepare action         *)
    Workers,      (* claim loops: the pool slots of every worker process    *)
    Forms,        (* web requests running the manual ingest action          *)
    Cancelers,    (* callers of cancelExecutionSession                      *)
    Faults,       (* which faults may occur, see FaultKinds                 *)
    MaxCrashes,   (* bound: how many process crashes                        *)
    NoTask,       (* model value: "no task"                                 *)
    NoSession     (* model value: "no session"                              *)

(* A process dies and its locals are lost ("workerCrash": also the form's  *)
(* web process; "preparerCrash").  "db": the database call that updates    *)
(* the task throws.  "overrun": a worker outlives the reaper's grace,      *)
(* which counts the validation phase as one session timeout although it    *)
(* is the sum of the commands' own timeouts.                               *)
FaultKinds == {"workerCrash", "preparerCrash", "db", "overrun"}

Sessions  == 1..MaxSessions          (* numbered in order of createdAt     *)
Preparers == Drivers \cup Requests
Ingesters == Workers \cup Forms

ASSUME ConstantsAssumption ==
    /\ MaxSessions \in Nat
    /\ MaxCrashes \in Nat
    /\ Faults \subseteq FaultKinds
    /\ NoTask \notin Tasks
    /\ NoSession \notin Nat
    /\ Drivers \cap Requests = {}
    /\ Workers \cap Forms = {}

VARIABLES
    created,     (* number of ExecutionSession rows                         *)
    status,      (* ExecutionSession.status, "absent" before creation       *)
    taskOf,      (* ExecutionSession.taskId                                 *)
    taskStatus,  (* Task.status                                             *)
    prepAt,      (* per preparer: where it is                               *)
    prepTask,    (* ... the task it prepares                                *)
    prepSess,    (* ... the session it has created                          *)
    jobAt,       (* per worker slot and form: where it is                   *)
    jobSess,     (* ... its session                                         *)
    jobSeen,     (* ... the status its ingestion has read                   *)
    jobVerdict,  (* ... the result it ingests                               *)
    cancel,      (* per canceler: the session it has read                   *)
    runs,        (* history: how often an agent was launched on a session   *)
    crashes      (* crashes so far                                          *)

rows == <<created, status, taskOf>>
prep == <<prepAt, prepTask, prepSess>>
job  == <<jobAt, jobSess, jobSeen, jobVerdict>>
vars == <<rows, taskStatus, prep, job, cancel, runs, crashes>>

---------------------------------------------------------------------------
(* Statuses.                                                               *)

Live     == {"queued", "prepared", "running"}
Terminal == {"completed", "failed", "canceled"}
Verdicts == {"completed", "failed", "needs_clarification"}
SessionStatuses == Live \cup Terminal \cup {"needs_clarification"}

TaskStatuses == {"todo", "in-progress", "in-review", "blocked", "done", "cancelled"}

(* Statuses the task selection hands out; an in-progress task qualifies    *)
(* through its open change requests, which DeliveryGates models.           *)
Executable == {"todo", "in-progress"}

LiveOn(t) == {s \in Sessions : taskOf[s] = t /\ status[s] \in Live}

Init ==
    /\ created = 0
    /\ status = [s \in Sessions |-> "absent"]
    /\ taskOf = [s \in Sessions |-> NoTask]
    /\ taskStatus = [t \in Tasks |-> "todo"]
    /\ prepAt = [p \in Preparers |-> "idle"]
    /\ prepTask = [p \in Preparers |-> NoTask]
    /\ prepSess = [p \in Preparers |-> NoSession]
    /\ jobAt = [a \in Ingesters |-> "idle"]
    /\ jobSess = [a \in Ingesters |-> NoSession]
    /\ jobSeen = [a \in Ingesters |-> "none"]
    /\ jobVerdict = [a \in Ingesters |-> "none"]
    /\ cancel = [c \in Cancelers |-> NoSession]
    /\ runs = [s \in Sessions |-> 0]
    /\ crashes = 0

---------------------------------------------------------------------------
(* Preparing: prepareExecutionSessionForTask, called by the driver after   *)
(* autoPrepareNextExecutionSession's reads or by the CEO for any task.     *)

GotoPrep(p, at) ==
    /\ prepAt' = [prepAt EXCEPT ![p] = at]
    /\ UNCHANGED <<prepTask, prepSess>>

EndPrep(p) ==
    /\ prepAt' = [prepAt EXCEPT ![p] = "idle"]
    /\ prepTask' = [prepTask EXCEPT ![p] = NoTask]
    /\ prepSess' = [prepSess EXCEPT ![p] = NoSession]

(* selectNextExecutableTaskForCompany has read an executable task.         *)
SelectTask(d, t) ==
    /\ prepAt[d] = "idle"
    /\ taskStatus[t] \in Executable
    /\ prepAt' = [prepAt EXCEPT ![d] = "selected"]
    /\ prepTask' = [prepTask EXCEPT ![d] = t]
    /\ UNCHANGED <<rows, taskStatus, prepSess, job, cancel, runs, crashes>>

(* findLiveSessionForTask: a live session ends the attempt.                *)
FindLiveSession(d) ==
    /\ prepAt[d] = "selected"
    /\ IF LiveOn(prepTask[d]) = {} THEN GotoPrep(d, "assess") ELSE EndPrep(d)
    /\ UNCHANGED <<rows, taskStatus, job, cancel, runs, crashes>>

(* The retry budget and the repository's readiness let the attempt go on,  *)
(* or end it: in backoff or not ready it just stops, with the budget       *)
(* exhausted it blocks the task.                                           *)
AssessAttempt(d) ==
    /\ prepAt[d] = "assess"
    /\ \/ GotoPrep(d, "create") /\ UNCHANGED taskStatus
       \/ EndPrep(d) /\ UNCHANGED taskStatus
       \/ /\ EndPrep(d)
          /\ taskStatus' = [taskStatus EXCEPT ![prepTask[d]] =
                IF @ \in {"done", "cancelled"} THEN @ ELSE "blocked"]
    /\ UNCHANGED <<rows, job, cancel, runs, crashes>>

(* The CEO's action reads the task and goes straight to the creation.      *)
RequestExecution(r, t) ==
    /\ prepAt[r] = "idle"
    /\ prepAt' = [prepAt EXCEPT ![r] = "create"]
    /\ prepTask' = [prepTask EXCEPT ![r] = t]
    /\ UNCHANGED <<rows, taskStatus, prepSess, job, cancel, runs, crashes>>

(* Mutated form: the check that MUS-294 moved inside the transaction.      *)
MayCreateUnlocked(t) == TRUE

MayCreate(t) == LiveOn(t) = {}

(* The transaction of createExecutionSession: lock the task row, look for  *)
(* a live session again, insert.  The loser gets LiveSessionExistsError.   *)
CreateExecutionSession(p) ==
    /\ prepAt[p] = "create"
    /\ IF MayCreate(prepTask[p])
       THEN /\ created < MaxSessions
            /\ created' = created + 1
            /\ status' = [status EXCEPT ![created + 1] = "queued"]
            /\ taskOf' = [taskOf EXCEPT ![created + 1] = prepTask[p]]
            /\ prepAt' = [prepAt EXCEPT ![p] = "created"]
            /\ prepSess' = [prepSess EXCEPT ![p] = created + 1]
            /\ UNCHANGED prepTask
       ELSE EndPrep(p) /\ UNCHANGED rows
    /\ UNCHANGED <<taskStatus, job, cancel, runs, crashes>>

AwaitsBrief(s) == status[s] = "queued"

(* prepareExecutionSession's read: anything but "queued" throws.           *)
PrepareRead(p) ==
    /\ prepAt[p] = "created"
    /\ IF AwaitsBrief(prepSess[p]) THEN GotoPrep(p, "brief") ELSE EndPrep(p)
    /\ UNCHANGED <<rows, taskStatus, job, cancel, runs, crashes>>

(* ... and its write, which does not look at the status again.             *)
PrepareWrite(p) ==
    /\ prepAt[p] = "brief"
    /\ status' = [status EXCEPT ![prepSess[p]] = "prepared"]
    /\ EndPrep(p)
    /\ UNCHANGED <<created, taskOf, taskStatus, job, cancel, runs, crashes>>

---------------------------------------------------------------------------
(* The worker: claimNextSession, then processSession.                      *)

GotoJob(a, at) ==
    /\ jobAt' = [jobAt EXCEPT ![a] = at]
    /\ UNCHANGED <<jobSess, jobSeen, jobVerdict>>

EndJob(a) ==
    /\ jobAt' = [jobAt EXCEPT ![a] = "idle"]
    /\ jobSess' = [jobSess EXCEPT ![a] = NoSession]
    /\ jobSeen' = [jobSeen EXCEPT ![a] = "none"]
    /\ jobVerdict' = [jobVerdict EXCEPT ![a] = "none"]

Prepared == {s \in Sessions : status[s] = "prepared"}

(* findFirst: the oldest prepared session.                                 *)
FindPrepared(w) ==
    /\ jobAt[w] = "idle"
    /\ \E s \in Prepared :
        /\ \A r \in Prepared : s <= r
        /\ jobSess' = [jobSess EXCEPT ![w] = s]
    /\ jobAt' = [jobAt EXCEPT ![w] = "found"]
    /\ UNCHANGED <<rows, taskStatus, prep, jobSeen, jobVerdict, cancel, runs, crashes>>

(* Mutated form: the claim as an update by id.                             *)
ClaimableUnchecked(s) == TRUE

Claimable(s) == status[s] = "prepared"

(* updateMany where status = "prepared": no row, no claim.                 *)
ClaimNextSession(w) ==
    LET s == jobSess[w] IN
    /\ jobAt[w] = "found"
    /\ IF Claimable(s)
       THEN /\ status' = [status EXCEPT ![s] = "running"]
            /\ GotoJob(w, "claimed")
       ELSE EndJob(w) /\ UNCHANGED status
    /\ UNCHANGED <<created, taskOf, taskStatus, prep, cancel, runs, crashes>>

(* No repository, no brief, unknown adapter, the spend ceiling cannot be   *)
(* read, or the checkout throws: the session is released.                  *)
FailPreflight(w) ==
    /\ jobAt[w] = "claimed"
    /\ GotoJob(w, "release")
    /\ UNCHANGED <<rows, taskStatus, prep, cancel, runs, crashes>>

(* The outcome has spent its ceiling: the task is blocked, whatever its    *)
(* status, and the session released (Dispatch has the accounting).         *)
HaltForSpend(w) ==
    /\ jobAt[w] = "claimed"
    /\ taskStatus' = [taskStatus EXCEPT ![taskOf[jobSess[w]]] = "blocked"]
    /\ GotoJob(w, "release")
    /\ UNCHANGED <<rows, prep, cancel, runs, crashes>>

LaunchAgent(w) ==
    /\ jobAt[w] = "claimed"
    /\ runs' = [runs EXCEPT ![jobSess[w]] = @ + 1]
    /\ GotoJob(w, "agent")
    /\ UNCHANGED <<rows, taskStatus, prep, cancel, crashes>>

(* The agent, the validation, the push and the pull request are over, and  *)
(* classifyAgentRunForIngestion calls a run "completed" only when the      *)
(* agent succeeded, there is a commit and its pull request is open.        *)
ClassifyAgentRun(success, commit, prOpened) ==
    IF success /\ commit /\ prOpened THEN "completed" ELSE "failed"

FinishAgent(w) ==
    /\ jobAt[w] = "agent"
    /\ \E success, commit, prOpened \in BOOLEAN :
        jobVerdict' = [jobVerdict EXCEPT ![w] =
                          ClassifyAgentRun(success, commit, prOpened)]
    /\ jobAt' = [jobAt EXCEPT ![w] = "ingest"]
    /\ UNCHANGED <<rows, taskStatus, prep, jobSess, jobSeen, cancel, runs, crashes>>

(* The pre-push guardrails block the run, or a step of it throws.          *)
AbortAgent(w) ==
    /\ jobAt[w] = "agent"
    /\ GotoJob(w, "release")
    /\ UNCHANGED <<rows, taskStatus, prep, cancel, runs, crashes>>

(* releaseSession: an unconditional update of the row.                     *)
ReleaseSession(w) ==
    /\ jobAt[w] = "release"
    /\ status' = [status EXCEPT ![jobSess[w]] = "failed"]
    /\ EndJob(w)
    /\ UNCHANGED <<created, taskOf, taskStatus, prep, cancel, runs, crashes>>

---------------------------------------------------------------------------
(* ingestAgentExecutionResult, by a worker or through the manual form.     *)

(* The form names any session of the company and any verdict.              *)
SubmitForm(f, s, v) ==
    /\ jobAt[f] = "idle"
    /\ status[s] # "absent"
    /\ jobAt' = [jobAt EXCEPT ![f] = "ingest"]
    /\ jobSess' = [jobSess EXCEPT ![f] = s]
    /\ jobVerdict' = [jobVerdict EXCEPT ![f] = v]
    /\ UNCHANGED <<rows, taskStatus, prep, jobSeen, cancel, runs, crashes>>

(* An error thrown by the ingestion: processSession's catch releases the   *)
(* session; the form reports it.                                           *)
Throw(a) == IF a \in Workers THEN GotoJob(a, "release") ELSE EndJob(a)

(* The read of the session: a terminal one is refused.                     *)
IngestRead(a) ==
    LET s == jobSess[a] IN
    /\ jobAt[a] = "ingest"
    /\ IF status[s] \in Terminal
       THEN Throw(a)
       ELSE /\ jobAt' = [jobAt EXCEPT ![a] = "commit"]
            /\ jobSeen' = [jobSeen EXCEPT ![a] = status[s]]
            /\ UNCHANGED <<jobSess, jobVerdict>>
    /\ UNCHANGED <<rows, taskStatus, prep, cancel, runs, crashes>>

(* The transaction.  A session read as "prepared" is first set to          *)
(* "running" whatever its status is by now, so that the conditional write  *)
(* of the result finds it running; one read as "running" must still be so. *)
ResultWritten(s, seen) ==
    \/ seen = "prepared"
    \/ seen = "running" /\ status[s] = "running"

IngestCommit(a) ==
    LET s == jobSess[a] IN
    /\ jobAt[a] = "commit"
    /\ IF ResultWritten(s, jobSeen[a])
       THEN status' = [status EXCEPT ![s] = jobVerdict[a]] /\ GotoJob(a, "mark")
       ELSE Throw(a) /\ UNCHANGED status
    /\ UNCHANGED <<created, taskOf, taskStatus, prep, cancel, runs, crashes>>

(* The task follows, in a write of its own that skips settled tasks.       *)
MarkTask(a) ==
    LET t == taskOf[jobSess[a]] IN
    /\ jobAt[a] = "mark"
    /\ taskStatus' = [taskStatus EXCEPT ![t] =
          IF @ \in {"done", "cancelled", "in-review"} THEN @
          ELSE IF jobVerdict[a] = "completed" THEN "in-review" ELSE "todo"]
    /\ EndJob(a)
    /\ UNCHANGED <<rows, prep, cancel, runs, crashes>>

(* That write throws after the result was committed.                       *)
MarkTaskFails(a) ==
    /\ "db" \in Faults
    /\ jobAt[a] = "mark"
    /\ Throw(a)
    /\ UNCHANGED <<rows, taskStatus, prep, cancel, runs, crashes>>

---------------------------------------------------------------------------
(* The reaper, crashes, cancellation, and the task's other writers.        *)

Holding == {"claimed", "agent", "ingest", "commit", "mark", "release"}

(* The session is in the hands of a worker slot that is still alive.       *)
HeldBy(s) == {w \in Workers : jobAt[w] \in Holding /\ jobSess[w] = s}

(* Mutated forms: a where clause without the status; a reaper that is      *)
(* never called.                                                           *)
StaleInAnyStatus(s) ==
    /\ status[s] \notin {"absent", "queued", "prepared"}
    /\ HeldBy(s) = {} \/ "overrun" \in Faults
StaleNever(s) == FALSE

(* A running session outlives the grace only if its worker died, or        *)
(* overran it.                                                             *)
Stale(s) ==
    /\ status[s] = "running"
    /\ HeldBy(s) = {} \/ "overrun" \in Faults

(* reapStaleRunningSessions: one conditional update.                       *)
ReapStaleSession(s) ==
    /\ Stale(s)
    /\ status' = [status EXCEPT ![s] = "failed"]
    /\ UNCHANGED <<created, taskOf, taskStatus, prep, job, cancel, runs, crashes>>

CrashPreparer(p) ==
    /\ "preparerCrash" \in Faults /\ crashes < MaxCrashes
    /\ prepAt[p] # "idle"
    /\ EndPrep(p)
    /\ crashes' = crashes + 1
    /\ UNCHANGED <<rows, taskStatus, job, cancel, runs>>

(* Also the worker's SIGTERM handler, which exits without waiting for the  *)
(* sessions in flight.                                                     *)
CrashIngester(a) ==
    /\ "workerCrash" \in Faults /\ crashes < MaxCrashes
    /\ jobAt[a] # "idle"
    /\ EndJob(a)
    /\ crashes' = crashes + 1
    /\ UNCHANGED <<rows, taskStatus, prep, cancel, runs>>

(* cancelExecutionSession: a read that refuses terminal sessions ...       *)
CancelRead(c, s) ==
    /\ cancel[c] = NoSession
    /\ status[s] \notin Terminal \cup {"absent"}
    /\ cancel' = [cancel EXCEPT ![c] = s]
    /\ UNCHANGED <<rows, taskStatus, prep, job, runs, crashes>>

(* ... and an unconditional write.                                         *)
CancelWrite(c) ==
    /\ cancel[c] # NoSession
    /\ status' = [status EXCEPT ![cancel[c]] = "canceled"]
    /\ cancel' = [cancel EXCEPT ![c] = NoSession]
    /\ UNCHANGED <<created, taskOf, taskStatus, prep, job, runs, crashes>>

(* The CEO's status menu takes any status but "done" without a condition.  *)
UpdateTaskStatus(t) ==
    /\ \E new \in TaskStatuses \ {"done", taskStatus[t]} :
        taskStatus' = [taskStatus EXCEPT ![t] = new]
    /\ UNCHANGED <<rows, prep, job, cancel, runs, crashes>>

(* The review and QA gates move a task on (DeliveryGates has their steps). *)
PassGate(t) ==
    /\ taskStatus[t] = "in-review"
    /\ \E new \in {"done", "in-progress", "blocked"} :
        taskStatus' = [taskStatus EXCEPT ![t] = new]
    /\ UNCHANGED <<rows, prep, job, cancel, runs, crashes>>

---------------------------------------------------------------------------

PreparerStep(p) ==
    \/ FindLiveSession(p) \/ AssessAttempt(p) \/ CreateExecutionSession(p)
    \/ PrepareRead(p) \/ PrepareWrite(p)

IngestStep(a) ==
    \/ IngestRead(a) \/ IngestCommit(a) \/ MarkTask(a)

WorkerStep(w) ==
    \/ FindPrepared(w) \/ ClaimNextSession(w) \/ FailPreflight(w)
    \/ HaltForSpend(w) \/ LaunchAgent(w) \/ FinishAgent(w) \/ AbortAgent(w)
    \/ ReleaseSession(w)

Next ==
    \/ \E d \in Drivers, t \in Tasks : SelectTask(d, t)
    \/ \E r \in Requests, t \in Tasks : RequestExecution(r, t)
    \/ \E p \in Preparers : PreparerStep(p) \/ CrashPreparer(p)
    \/ \E w \in Workers : WorkerStep(w)
    \/ \E f \in Forms, s \in Sessions, v \in Verdicts : SubmitForm(f, s, v)
    \/ \E a \in Ingesters : IngestStep(a) \/ MarkTaskFails(a) \/ CrashIngester(a)
    \/ \E s \in Sessions : ReapStaleSession(s)
    \/ \E c \in Cancelers : CancelWrite(c) \/ \E s \in Sessions : CancelRead(c, s)
    \/ \E t \in Tasks : UpdateTaskStatus(t) \/ PassGate(t)

Spec == Init /\ [][Next]_vars

(* The loops of worker and driver run for as long as their processes do    *)
(* and every await in them is bounded (the agent and each command by a     *)
(* timeout), a supervisor restarts a dead process, and the reaper runs at  *)
(* the start of every cycle.  Nobody owes the system a form or a click.    *)
Fairness ==
    /\ \A p \in Preparers : WF_vars(PreparerStep(p))
    /\ \A w \in Workers : WF_vars(WorkerStep(w) \/ IngestStep(w))
    /\ \A s \in Sessions : WF_vars(ReapStaleSession(s))

FairSpec == Spec /\ Fairness

---------------------------------------------------------------------------
(* Properties.                                                             *)

(* The variables hold the rows and locals the code gives them: a preparer  *)
(* under way has its task, a job its session, an ingestion its verdict.    *)
TypeOK ==
    /\ created \in 0..MaxSessions
    /\ status \in [Sessions -> SessionStatuses \cup {"absent"}]
    /\ taskOf \in [Sessions -> Tasks \cup {NoTask}]
    /\ taskStatus \in [Tasks -> TaskStatuses]
    /\ prepAt \in [Preparers ->
          {"idle", "selected", "assess", "create", "created", "brief"}]
    /\ prepTask \in [Preparers -> Tasks \cup {NoTask}]
    /\ prepSess \in [Preparers -> Sessions \cup {NoSession}]
    /\ jobAt \in [Ingesters -> Holding \cup {"idle", "found"}]
    /\ jobSess \in [Ingesters -> Sessions \cup {NoSession}]
    /\ jobSeen \in [Ingesters -> SessionStatuses \cup {"absent", "none"}]
    /\ jobVerdict \in [Ingesters -> Verdicts \cup {"none"}]
    /\ \A p \in Preparers :
          /\ prepAt[p] # "idle" => prepTask[p] \in Tasks
          /\ prepAt[p] \in {"created", "brief"} => prepSess[p] \in Sessions
    /\ \A a \in Ingesters :
          /\ jobAt[a] # "idle" => jobSess[a] \in Sessions
          /\ jobAt[a] \in {"ingest", "commit", "mark"} => jobVerdict[a] \in Verdicts
    /\ cancel \in [Cancelers -> Sessions \cup {NoSession}]
    /\ runs \in [Sessions -> Nat]
    /\ crashes \in 0..MaxCrashes

(* createExecutionSession: however many drivers and requests prepare one   *)
(* task at once, at most one of its sessions is queued, prepared or        *)
(* running.                                                                *)
AtMostOneLiveSession ==
    \A s1, s2 \in Sessions :
        status[s1] \in Live /\ status[s2] \in Live /\ taskOf[s1] = taskOf[s2]
            => s1 = s2

(* claimNextSession: however many workers poll, crash and restart, the     *)
(* agent is launched at most once on a session.                            *)
AgentRunsOnce == \A s \in Sessions : runs[s] <= 1

(* No two agents work on one task, hence on one branch, at a time.         *)
OneAgentPerTask ==
    \A v, w \in Workers :
        /\ jobAt[v] = "agent" /\ jobAt[w] = "agent"
        /\ taskOf[jobSess[v]] = taskOf[jobSess[w]]
        => v = w

(* ingestAgentExecutionResult: between the commit of a result and the      *)
(* write that makes the task follow it, nobody overwrites the result, so   *)
(* a task never moves to review on a result that was discarded.            *)
ResultStands ==
    \A a \in Ingesters :
        jobAt[a] = "mark" => status[jobSess[a]] = jobVerdict[a]

(* A session once failed, by its worker or by the reaper, stays failed: a  *)
(* late result is not recorded over it.                                    *)
FailedIsFinal ==
    [][\A s \in Sessions : status[s] = "failed" => status'[s] = "failed"]_vars

(* A prepared session is picked up and comes to an end, whichever worker   *)
(* crashes on the way: the polling loops and the reaper see to it.         *)
PreparedSessionEnds ==
    \A s \in Sessions :
        status[s] \in {"prepared", "running"} ~> status[s] \notin Live
===========================================================================
