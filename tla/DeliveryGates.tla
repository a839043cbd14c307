--------------------------- MODULE DeliveryGates ---------------------------
(***************************************************************************)
(* The review and QA gates of one task: advanceTaskGates, run by the       *)
(* driver over its in-review tasks (gate-advancement-service.ts),          *)
(* recordReviewResult (review-service.ts), recordQaResult (qa-service.ts), *)
(* the change requests that pull the task back into implementation from a  *)
(* red pull request (pr-feedback-ingestion-service.ts) or a chat message   *)
(* (mid-flight-steering.ts), the CEO's clicks (quality.ts, approvals.ts,   *)
(* work.ts) and the retry budget (auto-execution-service.ts).  None of     *)
(* this code uses a transaction: a database call is one step.  The         *)
(* implementation itself is an environment that runs one session at a      *)
(* time; ExecutionSession has its steps.                                   *)
(***************************************************************************)
EXTENDS Integers, FiniteSets

CONSTANTS
    Drivers,      (* processes that run driver ticks                        *)
    Requests,     (* web requests of the CEO                                *)
    Clicks,       (* which actions the CEO takes, see ClickKinds            *)
    AutoLevels,   (* whether the autonomy level may permit automated gates  *)
    Evidence,     (* what the validation of an implementation may show      *)
    MaxRetries,   (* WORKER_MAX_RETRIES                                     *)
    MaxAttempts,  (* bound: how many sessions are started                   *)
    MaxReviews,   (* bound: how many reviews are created                    *)
    MaxQas,       (* bound: how many QA results are created                 *)
    MaxFeedback,  (* bound: how often the pull request is found red         *)
    MaxCrashes    (* bound: how many process crashes                        *)

ClickKinds == {"review", "qa", "checkpoint", "createReview", "createQa",
               "checklist", "menu", "steer", "prepare"}

(* "none": no command detected, or it could not run, so no checks marker.  *)
EvidenceKinds == {"pass", "fail", "none"}

Reviews  == 1..MaxReviews      (* in order of createdAt                    *)
Qas      == 1..MaxQas          (* in order of createdAt                    *)
Attempts == 1..MaxAttempts
Procs    == Drivers \cup Requests

None == -1                     (* no open change request; no failure       *)

ASSUME GatesAssumption ==
    /\ Drivers \cap Requests = {}
    /\ Clicks \subseteq ClickKinds
    /\ AutoLevels \subseteq BOOLEAN
    /\ Evidence \subseteq EvidenceKinds
    /\ {MaxRetries, MaxAttempts, MaxReviews, MaxQas, MaxFeedback, MaxCrashes}
          \subseteq Nat

VARIABLES
    task,          (* Task.status                                           *)
    work,          (* the task's session: idle, running, completed, failed  *)
    attempts,      (* sessions started so far                               *)
    failedAt,      (* per session: how many QAs existed when it failed      *)
    impls,         (* sessions completed so far: the implementations        *)
    evidence,      (* per implementation: its validation checks             *)
    lastReview,    (* number of Review rows                                 *)
    reviewStatus,  (* Review.status                                         *)
    reviewAt,      (* Review.updatedAt: implementations completed by then   *)
    reviewBy,      (* who opened it: the prefix of Review.title             *)
    openCR,        (* per review: an unresolved ChangeRequest, dated alike, *)
                   (* by the verdict it comes from                          *)
    lastQa,        (* number of QAResult rows                               *)
    qaStatus,      (* QAResult.status                                       *)
    qaChecks,      (* QAResult.checks                                       *)
    at,            (* per process: where it is                              *)
    auto,          (* ... whether the level it read permits automated gates *)
    seen,          (* ... the implementation whose session it read          *)
    onReview,      (* ... the review it works on                            *)
    onQa,          (* ... the QA result it works on                         *)
    verdict,       (* ... the verdict it records                            *)
    reason,        (* ... whether the verdict comes with notes or findings  *)
    feedbacks,     (* red pull requests so far                              *)
    crashes        (* crashes so far                                        *)

session == <<work, attempts, failedAt, impls, evidence>>
review  == <<lastReview, reviewStatus, reviewAt, reviewBy>>
quality == <<lastQa, qaStatus, qaChecks>>
local   == <<at, auto, seen, onReview, onQa, verdict, reason>>
bounds  == <<feedbacks, crashes>>
vars    == <<task, session, review, openCR, quality, local, bounds>>

---------------------------------------------------------------------------

TaskStatuses   == {"todo", "in-progress", "in-review", "blocked", "done", "cancelled"}
ReviewVerdicts == {"approved", "changes_requested", "blocked", "needs_clarification"}
QaVerdicts     == {"passed", "failed", "blocked", "needs_clarification"}
TerminalQa     == {"passed", "failed", "blocked"}

(* "failing": some item of the checklist has not passed, or is not ticked. *)
CheckStates == {"none", "failing", "passed"}

Init ==
    /\ task = "todo"
    /\ work = "idle" /\ attempts = 0 /\ impls = 0
    /\ failedAt = [i \in Attempts |-> None]
    /\ evidence = [i \in Attempts |-> "none"]
    /\ lastReview = 0
    /\ reviewStatus = [r \in Reviews |-> "absent"]
    /\ reviewAt = [r \in Reviews |-> 0]
    /\ reviewBy = [r \in Reviews |-> "nobody"]
    /\ openCR = [r \in Reviews |-> None]
    /\ lastQa = 0
    /\ qaStatus = [q \in Qas |-> "absent"]
    /\ qaChecks = [q \in Qas |-> "none"]
    /\ at = [p \in Procs |-> "idle"]
    /\ auto = [p \in Procs |-> FALSE]
    /\ seen = [p \in Procs |-> 0]
    /\ onReview = [p \in Procs |-> 0]
    /\ onQa = [p \in Procs |-> 0]
    /\ verdict = [p \in Procs |-> "none"]
    /\ reason = [p \in Procs |-> FALSE]
    /\ feedbacks = 0 /\ crashes = 0

Goto(p, l) ==
    /\ at' = [at EXCEPT ![p] = l]
    /\ UNCHANGED <<auto, seen, onReview, onQa, verdict, reason>>

(* The call returns or throws: its locals are gone.                        *)
End(p) ==
    /\ at' = [at EXCEPT ![p] = "idle"]
    /\ auto' = [auto EXCEPT ![p] = FALSE]
    /\ seen' = [seen EXCEPT ![p] = 0]
    /\ onReview' = [onReview EXCEPT ![p] = 0]
    /\ onQa' = [onQa EXCEPT ![p] = 0]
    /\ verdict' = [verdict EXCEPT ![p] = "none"]
    /\ reason' = [reason EXCEPT ![p] = FALSE]

(* Call recordReviewResult, or recordQaResult, with a verdict.             *)
RecordReview(p, r, v, why) ==
    /\ at' = [at EXCEPT ![p] = "readReview"]
    /\ onReview' = [onReview EXCEPT ![p] = r]
    /\ verdict' = [verdict EXCEPT ![p] = v]
    /\ reason' = [reason EXCEPT ![p] = why]
    /\ UNCHANGED <<auto, seen, onQa>>

RecordQa(p, q, v, why) ==
    /\ at' = [at EXCEPT ![p] = "readQa"]
    /\ onQa' = [onQa EXCEPT ![p] = q]
    /\ verdict' = [verdict EXCEPT ![p] = v]
    /\ reason' = [reason EXCEPT ![p] = why]
    /\ UNCHANGED <<auto, seen, onReview>>

(* review.create, with status "pending".                                   *)
CreateReview(by) ==
    /\ lastReview < MaxReviews
    /\ lastReview' = lastReview + 1
    /\ reviewStatus' = [reviewStatus EXCEPT ![lastReview + 1] = "pending"]
    /\ reviewAt' = [reviewAt EXCEPT ![lastReview + 1] = impls]
    /\ reviewBy' = [reviewBy EXCEPT ![lastReview + 1] = by]

(* qAResult.create.                                                        *)
CreateQa(s, checks) ==
    /\ lastQa < MaxQas
    /\ lastQa' = lastQa + 1
    /\ qaStatus' = [qaStatus EXCEPT ![lastQa + 1] = s]
    /\ qaChecks' = [qaChecks EXCEPT ![lastQa + 1] = checks]

Approved == {r \in Reviews : reviewStatus[r] = "approved"}

(* task.updateMany where status notIn (done, cancelled).                   *)
MoveUnlessSettled(new) == task' = IF task \in {"done", "cancelled"} THEN task ELSE new

---------------------------------------------------------------------------
(* recordReviewResult.                                                     *)

ReadReview(p) ==
    /\ at[p] = "readReview"
    /\ IF reviewStatus[onReview[p]] = "approved" THEN End(p) ELSE Goto(p, "writeReview")
    /\ UNCHANGED <<task, session, review, openCR, quality, bounds>>

WriteReview(p) ==
    /\ at[p] = "writeReview"
    /\ reviewStatus' = [reviewStatus EXCEPT ![onReview[p]] = verdict[p]]
    /\ reviewAt' = [reviewAt EXCEPT ![onReview[p]] = impls]
    /\ CASE verdict[p] = "approved"            -> Goto(p, "resolve")
         [] verdict[p] = "changes_requested"   -> Goto(p, "request")
         [] verdict[p] = "blocked"             -> Goto(p, "block")
         [] verdict[p] = "needs_clarification" -> End(p)
    /\ UNCHANGED <<task, session, lastReview, reviewBy, openCR, quality, bounds>>

(* Approved: every open change request of the task is resolved ...         *)
ResolveChangeRequests(p) ==
    /\ at[p] = "resolve"
    /\ openCR' = [r \in Reviews |-> None]
    /\ Goto(p, "hold")
    /\ UNCHANGED <<task, session, review, quality, bounds>>

(* ... the task waits for QA ...                                           *)
HoldInReview(p) ==
    /\ at[p] = "hold"
    /\ MoveUnlessSettled("in-review")
    /\ Goto(p, "openQa")
    /\ UNCHANGED <<session, review, openCR, quality, bounds>>

(* ... and a pending QA result is opened; the gate runner goes on with it. *)
OpenQa(p) ==
    /\ at[p] = "openQa"
    /\ CreateQa("pending", "none")
    /\ IF p \in Drivers THEN Goto(p, "findQa") ELSE End(p)
    /\ UNCHANGED <<task, session, review, openCR, bounds>>

(* Changes requested: a change request for the blockers or the notes, none *)
(* when there are neither.                                                 *)
RequestChanges(p) ==
    /\ at[p] = "request"
    /\ openCR' = IF reason[p]
                 THEN [openCR EXCEPT ![onReview[p]] = reviewAt[onReview[p]]]
                 ELSE openCR
    /\ Goto(p, "sendBack")
    /\ UNCHANGED <<task, session, review, quality, bounds>>

(* Mutated form: before MUS-287.                                           *)
SendBackAnyTask(p) ==
    /\ at[p] = "sendBack"
    /\ task' = "in-progress"
    /\ End(p)
    /\ UNCHANGED <<session, review, openCR, quality, bounds>>

SendBack(p) ==
    /\ at[p] = "sendBack"
    /\ MoveUnlessSettled("in-progress")
    /\ End(p)
    /\ UNCHANGED <<session, review, openCR, quality, bounds>>

(* A "blocked" verdict of either gate moves the task whatever its status.  *)
BlockTask(p) ==
    /\ at[p] = "block"
    /\ task' = "blocked"
    /\ End(p)
    /\ UNCHANGED <<session, review, openCR, quality, bounds>>

---------------------------------------------------------------------------
(* recordQaResult.                                                         *)

(* Mutated form: without the check of a terminal status.                   *)
RecordableAnyStatus(q, v) == v = "passed" => qaChecks[q] # "failing"

(* A terminal result is refused, and a pass while a check is unticked.     *)
Recordable(q, v) ==
    /\ qaStatus[q] \notin TerminalQa
    /\ v = "passed" => qaChecks[q] # "failing"

ReadQa(p) ==
    /\ at[p] = "readQa"
    /\ IF ~Recordable(onQa[p], verdict[p]) THEN End(p)
       ELSE IF verdict[p] = "passed" THEN Goto(p, "approval")
       ELSE Goto(p, "writeQa")
    /\ UNCHANGED <<task, session, review, openCR, quality, bounds>>

(* Mutated form: a review of any status will do.                           *)
ReviewGateMetByAny == lastReview > 0

ReviewGateMet == Approved # {}

FindApproval(p) ==
    /\ at[p] = "approval"
    /\ IF ReviewGateMet THEN Goto(p, "writeQa") ELSE End(p)
    /\ UNCHANGED <<task, session, review, openCR, quality, bounds>>

WriteQa(p) ==
    /\ at[p] = "writeQa"
    /\ qaStatus' = [qaStatus EXCEPT ![onQa[p]] = verdict[p]]
    /\ CASE verdict[p] = "passed"              -> Goto(p, "finish")
         [] verdict[p] = "failed"              -> Goto(p, "findReview")
         [] verdict[p] = "blocked"             -> Goto(p, "block")
         [] verdict[p] = "needs_clarification" -> End(p)
    /\ UNCHANGED <<task, session, review, openCR, lastQa, qaChecks, bounds>>

(* Passed: the task is done ...                                            *)
FinishTask(p) ==
    /\ at[p] = "finish"
    /\ MoveUnlessSettled("done")
    /\ Goto(p, "close")
    /\ UNCHANGED <<session, review, openCR, quality, bounds>>

(* ... and whatever change request was open is resolved.                   *)
CloseRework(p) ==
    /\ at[p] = "close"
    /\ openCR' = [r \in Reviews |-> None]
    /\ End(p)
    /\ UNCHANGED <<task, session, review, quality, bounds>>

(* Failed: any approved review takes the change requests ...               *)
FindReviewed(p) ==
    /\ at[p] = "findReview"
    /\ \/ Approved = {} /\ Goto(p, "reopen")
       \/ \E r \in Approved :
            /\ at' = [at EXCEPT ![p] = "rework"]
            /\ onReview' = [onReview EXCEPT ![p] = r]
            /\ UNCHANGED <<auto, seen, onQa, verdict, reason>>
    /\ UNCHANGED <<task, session, review, openCR, quality, bounds>>

(* Mutated form: change requests for the checks of a checklist only.       *)
ChecklistFailed(p) == ~reason[p] /\ qaChecks[onQa[p]] = "failing"

(* ... for the findings, the notes, or else the checks that failed ...     *)
NeedsRework(p) == reason[p] \/ qaChecks[onQa[p]] = "failing"

OpenRework(p) ==
    /\ at[p] = "rework"
    /\ openCR' = IF NeedsRework(p) THEN [openCR EXCEPT ![onReview[p]] = impls]
                 ELSE openCR
    /\ Goto(p, "reopen")
    /\ UNCHANGED <<task, session, review, quality, bounds>>

(* ... and the task goes back whatever its status.                         *)
ReopenTask(p) ==
    /\ at[p] = "reopen"
    /\ task' = "in-progress"
    /\ End(p)
    /\ UNCHANGED <<session, review, openCR, quality, bounds>>

---------------------------------------------------------------------------
(* advanceTaskGates.                                                       *)

BeginGates(d) ==
    /\ at[d] = "idle" /\ task = "in-review"
    /\ \E allowed \in AutoLevels : auto' = [auto EXCEPT ![d] = allowed]
    /\ at' = [at EXCEPT ![d] = "session"]
    /\ UNCHANGED <<task, session, review, openCR, quality, bounds,
                   seen, onReview, onQa, verdict, reason>>

(* The latest completed session: its checks marker and completedAt.        *)
ReadSession(d) ==
    /\ at[d] = "session"
    /\ seen' = [seen EXCEPT ![d] = impls]
    /\ at' = [at EXCEPT ![d] = "latestReview"]
    /\ UNCHANGED <<task, session, review, openCR, quality, bounds,
                   auto, onReview, onQa, verdict, reason>>

(* Mutated forms: a verdict is never superseded; it is, by no newer        *)
(* implementation.                                                         *)
SupersededNever(r, i) == FALSE
SupersededAtOnce(r, i) ==
    reviewStatus[r] \in {"changes_requested", "needs_clarification"}

(* A newer implementation than the verdict needs a review of its own.      *)
Superseded(r, i) ==
    /\ reviewStatus[r] \in {"changes_requested", "needs_clarification"}
    /\ i > reviewAt[r]

ReadLatestReview(d) ==
    LET r == lastReview IN
    /\ at[d] = "latestReview"
    /\ IF r = 0 THEN Goto(d, "newReview")
       ELSE IF Superseded(r, seen[d]) THEN Goto(d, "newReview")
       ELSE IF reviewStatus[r] = "pending" /\ auto[d]
            THEN RecordReview(d, r, "approved", TRUE)
       ELSE IF reviewStatus[r] = "approved" THEN Goto(d, "findQa")
       ELSE End(d)
    /\ UNCHANGED <<task, session, review, openCR, quality, bounds>>

OpenReview(d) ==
    /\ at[d] = "newReview"
    /\ CreateReview("gate")
    /\ IF auto[d] THEN RecordReview(d, lastReview + 1, "approved", TRUE) ELSE End(d)
    /\ UNCHANGED <<task, session, openCR, quality, bounds>>

(* Mutated form: unverified work passes (before MUS-292).                  *)
MustHoldUnlessAuto(d) == ~auto[d]

(* Without permission, or without checks that ran, QA is the CEO's.        *)
MustHold(d) == ~auto[d] \/ seen[d] = 0 \/ evidence[seen[d]] = "none"

Gate(d, q) ==
    /\ onQa' = [onQa EXCEPT ![d] = q]
    /\ at' = [at EXCEPT ![d] = IF MustHold(d) THEN "checklist" ELSE "checks"]
    /\ UNCHANGED <<auto, seen, onReview, verdict, reason>>

OpenQas == {q \in Qas : qaStatus[q] \notin {"absent", "failed", "blocked"}}

(* The latest QA result that has not failed; one that passed ends the run. *)
FindQa(d) ==
    /\ at[d] = "findQa"
    /\ IF OpenQas = {} THEN Goto(d, "newQa")
       ELSE \E q \in OpenQas :
              /\ \A other \in OpenQas : other <= q
              /\ IF qaStatus[q] = "passed" THEN End(d) ELSE Gate(d, q)
    /\ UNCHANGED <<task, session, review, openCR, quality, bounds>>

OpenMissingQa(d) ==
    /\ at[d] = "newQa"
    /\ CreateQa("pending", "none")
    /\ Gate(d, lastQa + 1)
    /\ UNCHANGED <<task, session, review, openCR, bounds>>

(* holdForCeoQa, and the same write of the CEO's checklist request.        *)
AttachChecklist(p) ==
    /\ at[p] = "checklist"
    /\ qaChecks' = [qaChecks EXCEPT ![onQa[p]] = "failing"]
    /\ End(p)
    /\ UNCHANGED <<task, session, review, openCR, lastQa, qaStatus, bounds>>

VerdictOf(e) == IF e = "fail" THEN "failed" ELSE "passed"

(* The recorded checks become the QA result's, and decide its verdict.     *)
RecordChecks(d) ==
    LET v == VerdictOf(IF seen[d] = 0 THEN "none" ELSE evidence[seen[d]]) IN
    /\ at[d] = "checks"
    /\ qaChecks' = [qaChecks EXCEPT ![onQa[d]] =
                        IF v = "failed" THEN "failing" ELSE "passed"]
    /\ RecordQa(d, onQa[d], v, TRUE)
    /\ UNCHANGED <<task, session, review, openCR, lastQa, qaStatus, bounds>>

---------------------------------------------------------------------------
(* Change requests from outside the gates.                                 *)

NoOpenFeedback ==
    \A r \in Reviews :
        reviewBy[r] = "feedback" /\ reviewStatus[r] = "changes_requested"
            => openCR[r] = None

(* ingestPullRequestFeedbackForCompany: the pull request is red, and no    *)
(* change request for it is open.                                          *)
PollFeedback(d) ==
    /\ at[d] = "idle" /\ impls > 0 /\ feedbacks < MaxFeedback
    /\ NoOpenFeedback
    /\ feedbacks' = feedbacks + 1
    /\ Goto(d, "outside")
    /\ UNCHANGED <<task, session, review, openCR, quality, crashes>>

(* routeSteeringToInFlightWork: the CEO's chat message is about this task. *)
Steer(r) ==
    /\ "steer" \in Clicks /\ at[r] = "idle"
    /\ task \in {"todo", "in-progress", "in-review"}
    /\ \A v \in Reviews : reviewBy[v] = "steer" => openCR[v] = None
    /\ Goto(r, "outside")
    /\ UNCHANGED <<task, session, review, openCR, quality, bounds>>

OpenOutsideReview(p) ==
    /\ at[p] = "outside"
    /\ CreateReview(IF p \in Drivers THEN "feedback" ELSE "steer")
    /\ RecordReview(p, lastReview + 1, "changes_requested", TRUE)
    /\ UNCHANGED <<task, session, openCR, quality, bounds>>

---------------------------------------------------------------------------
(* The CEO's clicks.                                                       *)

(* submitReviewVerdict, approve- and rejectReviewCheckpoint.               *)
SubmitReviewVerdict(c) ==
    /\ "review" \in Clicks /\ at[c] = "idle"
    /\ \E r \in 1..lastReview, v \in ReviewVerdicts, why \in BOOLEAN :
         RecordReview(c, r, v, why)
    /\ UNCHANGED <<task, session, review, openCR, quality, bounds>>

SubmitQaVerdict(c) ==
    /\ "qa" \in Clicks /\ at[c] = "idle"
    /\ \E q \in 1..lastQa, v \in QaVerdicts, why \in BOOLEAN : RecordQa(c, q, v, why)
    /\ UNCHANGED <<task, session, review, openCR, quality, bounds>>

(* approveQaCheckpoint reads the checks ...                                *)
ApproveQaCheckpoint(c) ==
    /\ "checkpoint" \in Clicks /\ at[c] = "idle"
    /\ \E q \in 1..lastQa :
         /\ onQa' = [onQa EXCEPT ![c] = q]
         /\ reason' = [reason EXCEPT ![c] = qaChecks[q] # "none"]
    /\ at' = [at EXCEPT ![c] = "tick"]
    /\ UNCHANGED <<task, session, review, openCR, quality, bounds,
                   auto, seen, onReview, verdict>>

(* ... writes them back all ticked, if there were any, and passes.         *)
TickChecks(c) ==
    /\ at[c] = "tick"
    /\ qaChecks' = [qaChecks EXCEPT ![onQa[c]] = IF reason[c] THEN "passed" ELSE "none"]
    /\ RecordQa(c, onQa[c], "passed", TRUE)
    /\ UNCHANGED <<task, session, review, openCR, lastQa, qaStatus, bounds>>

RequestReview(c) ==
    /\ "createReview" \in Clicks /\ at[c] = "idle"
    /\ CreateReview("ceo")
    /\ UNCHANGED <<task, session, openCR, quality, local, bounds>>

(* createQAResult: the status is derived from the submitted checks, the    *)
(* task is not touched.                                                    *)
SubmitChecks(c) ==
    /\ "createQa" \in Clicks /\ at[c] = "idle"
    /\ \/ CreateQa("passed", "passed")
       \/ CreateQa("failed", "failing")
       \/ CreateQa("pending", "none")
    /\ UNCHANGED <<task, session, review, openCR, local, bounds>>

(* generateQaChecklistForTask: with an approved review ...                 *)
GenerateChecklist(c) ==
    /\ "checklist" \in Clicks /\ at[c] = "idle"
    /\ Approved # {}
    /\ Goto(c, "findPending")
    /\ UNCHANGED <<task, session, review, openCR, quality, bounds>>

PendingQas == {q \in Qas : qaStatus[q] = "pending"}

(* ... the latest pending QA result takes the checklist, or a new one.     *)
FindPendingQa(c) ==
    /\ at[c] = "findPending"
    /\ IF PendingQas = {} THEN Goto(c, "newChecklist")
       ELSE \E q \in PendingQas :
              /\ \A other \in PendingQas : other <= q
              /\ onQa' = [onQa EXCEPT ![c] = q]
              /\ at' = [at EXCEPT ![c] = "checklist"]
              /\ UNCHANGED <<auto, seen, onReview, verdict, reason>>
    /\ UNCHANGED <<task, session, review, openCR, quality, bounds>>

OpenChecklist(c) ==
    /\ at[c] = "newChecklist"
    /\ CreateQa("pending", "failing")
    /\ End(c)
    /\ UNCHANGED <<task, session, review, openCR, bounds>>

(* The status menu: any status but "done" is written as it comes ...       *)
UpdateTaskStatus(c) ==
    /\ "menu" \in Clicks /\ at[c] = "idle"
    /\ \E new \in TaskStatuses \ {"done"} : task' = new
    /\ UNCHANGED <<session, review, openCR, quality, local, bounds>>

(* evaluateTaskStatusChange.                                               *)
DoneAllowed == Approved # {} /\ \E q \in Qas : qaStatus[q] = "passed"

(* ... "done" after a look at the evidence.                                *)
AskDone(c) ==
    /\ "menu" \in Clicks /\ at[c] = "idle"
    /\ DoneAllowed
    /\ Goto(c, "done")
    /\ UNCHANGED <<task, session, review, openCR, quality, bounds>>

WriteDone(c) ==
    /\ at[c] = "done"
    /\ task' = "done"
    /\ End(c)
    /\ UNCHANGED <<session, review, openCR, quality, bounds>>

---------------------------------------------------------------------------
(* The implementation: one session at a time.                              *)

(* The last QA result that passed starts a new count.                      *)
LastPassed ==
    CHOOSE n \in 0..MaxQas :
        /\ n = 0 \/ qaStatus[n] = "passed"
        /\ \A q \in Qas : q > n => qaStatus[q] # "passed"

(* Mutated form: before MUS-279 failed QA gates were not counted.          *)
FailedSessionsOnly ==
    Cardinality({i \in Attempts : failedAt[i] # None /\ failedAt[i] >= LastPassed})

(* assessTaskRetryState: failed sessions and failed QA gates.              *)
ConsecutiveFailures ==
    Cardinality({i \in Attempts : failedAt[i] # None /\ failedAt[i] >= LastPassed})
  + Cardinality({q \in Qas : q > LastPassed /\ qaStatus[q] = "failed"})

Exhausted == ConsecutiveFailures > MaxRetries

(* isExecutableCandidate: a new task, or one with work to redo.            *)
Executable ==
    \/ task = "todo"
    \/ task = "in-progress" /\ \E r \in Reviews : openCR[r] # None

BeginSession ==
    /\ work = "idle" /\ attempts < MaxAttempts
    /\ attempts' = attempts + 1
    /\ work' = "running"
    /\ UNCHANGED <<task, failedAt, impls, evidence, review, openCR, quality,
                   local, bounds>>

(* The driver prepares a session ...                                       *)
StartWork == Executable /\ ~Exhausted /\ BeginSession

(* ... or gives the task up.                                               *)
BlockExhaustedTask ==
    /\ work = "idle" /\ Executable /\ Exhausted
    /\ MoveUnlessSettled("blocked")
    /\ UNCHANGED <<session, review, openCR, quality, local, bounds>>

(* The CEO's "Prepare execution" asks for no status and no budget.         *)
PrepareExecution(c) ==
    /\ "prepare" \in Clicks /\ at[c] = "idle"
    /\ BeginSession

CompleteSession ==
    /\ work = "running"
    /\ work' = "completed"
    /\ impls' = impls + 1
    /\ \E e \in Evidence : evidence' = [evidence EXCEPT ![impls + 1] = e]
    /\ UNCHANGED <<task, attempts, failedAt, review, openCR, quality,
                   local, bounds>>

(* Ingested as failed, released by its worker, or reaped.                  *)
FailSession ==
    /\ work = "running"
    /\ work' \in {"failed", "idle"}
    /\ failedAt' = [failedAt EXCEPT ![attempts] = lastQa]
    /\ UNCHANGED <<task, attempts, impls, evidence, review, openCR, quality,
                   local, bounds>>

(* The task follows an ingested result.                                    *)
MarkTask ==
    /\ work \in {"completed", "failed"}
    /\ work' = "idle"
    /\ task' = IF task \in {"done", "cancelled", "in-review"} THEN task
               ELSE IF work = "completed" THEN "in-review" ELSE "todo"
    /\ UNCHANGED <<attempts, failedAt, impls, evidence, review, openCR, quality,
                   local, bounds>>

Crash(p) ==
    /\ crashes < MaxCrashes
    /\ at[p] # "idle"
    /\ End(p)
    /\ crashes' = crashes + 1
    /\ UNCHANGED <<task, session, review, openCR, quality, feedbacks>>

---------------------------------------------------------------------------

RecorderStep(p) ==
    \/ ReadReview(p) \/ WriteReview(p) \/ ResolveChangeRequests(p)
    \/ HoldInReview(p) \/ OpenQa(p) \/ RequestChanges(p) \/ SendBack(p)
    \/ BlockTask(p) \/ ReadQa(p) \/ FindApproval(p) \/ WriteQa(p)
    \/ FinishTask(p) \/ CloseRework(p) \/ FindReviewed(p) \/ OpenRework(p)
    \/ ReopenTask(p) \/ AttachChecklist(p) \/ OpenOutsideReview(p)

DriverStep(d) ==
    \/ BeginGates(d) \/ ReadSession(d) \/ ReadLatestReview(d)
    \/ OpenReview(d) \/ FindQa(d) \/ OpenMissingQa(d) \/ RecordChecks(d)
    \/ RecorderStep(d)

RequestStep(c) ==
    \/ TickChecks(c) \/ FindPendingQa(c) \/ OpenChecklist(c) \/ WriteDone(c)
    \/ RecorderStep(c)

Click(c) ==
    \/ SubmitReviewVerdict(c) \/ SubmitQaVerdict(c) \/ ApproveQaCheckpoint(c)
    \/ RequestReview(c) \/ SubmitChecks(c) \/ GenerateChecklist(c)
    \/ UpdateTaskStatus(c) \/ AskDone(c) \/ Steer(c) \/ PrepareExecution(c)

WorkStep ==
    \/ StartWork \/ BlockExhaustedTask \/ CompleteSession \/ FailSession
    \/ MarkTask

Next ==
    \/ \E d \in Drivers : DriverStep(d) \/ PollFeedback(d)
    \/ \E c \in Requests : RequestStep(c) \/ Click(c)
    \/ \E p \in Procs : Crash(p)
    \/ WorkStep

Spec == Init /\ [][Next]_vars

(* The driver ticks for as long as it lives and is restarted when it dies, *)
(* and so are the workers.  GitHub owes nobody a red pull request and the  *)
(* CEO owes nobody a click.                                                *)
Fairness ==
    /\ \A d \in Drivers : WF_vars(DriverStep(d))
    /\ WF_vars(WorkStep)

---------------------------------------------------------------------------
(* Properties.                                                             *)

Places == {"idle", "readReview", "writeReview", "resolve", "hold", "openQa",
           "request", "sendBack", "block", "readQa", "approval", "writeQa",
           "finish", "close", "findReview", "rework", "reopen", "session",
           "latestReview", "newReview", "findQa", "newQa", "checklist",
           "checks", "outside", "tick", "findPending", "newChecklist", "done"}

(* Rows and locals have their types: a recorder has the review or the QA   *)
(* result it is to write and a verdict of the right kind, and exactly the  *)
(* rows created so far exist.                                              *)
TypeOK ==
    /\ task \in TaskStatuses
    /\ work \in {"idle", "running", "completed", "failed"}
    /\ attempts \in 0..MaxAttempts
    /\ failedAt \in [Attempts -> 0..MaxQas \cup {None}]
    /\ impls \in 0..attempts
    /\ work = "running" => impls < attempts
    /\ evidence \in [Attempts -> EvidenceKinds]
    /\ lastReview \in 0..MaxReviews
    /\ reviewStatus \in [Reviews -> ReviewVerdicts \cup {"absent", "pending"}]
    /\ reviewAt \in [Reviews -> 0..MaxAttempts]
    /\ reviewBy \in [Reviews -> {"nobody", "gate", "feedback", "steer", "ceo"}]
    /\ openCR \in [Reviews -> 0..MaxAttempts \cup {None}]
    /\ lastQa \in 0..MaxQas
    /\ qaStatus \in [Qas -> QaVerdicts \cup {"absent", "pending"}]
    /\ qaChecks \in [Qas -> CheckStates]
    /\ \A r \in Reviews : reviewStatus[r] = "absent" <=> r > lastReview
    /\ \A q \in Qas : qaStatus[q] = "absent" <=> q > lastQa
    /\ at \in [Procs -> Places]
    /\ auto \in [Procs -> BOOLEAN]
    /\ seen \in [Procs -> 0..MaxAttempts]
    /\ onReview \in [Procs -> 0..MaxReviews]
    /\ onQa \in [Procs -> 0..MaxQas]
    /\ verdict \in [Procs -> ReviewVerdicts \cup QaVerdicts \cup {"none"}]
    /\ reason \in [Procs -> BOOLEAN]
    /\ \A p \in Procs :
         /\ at[p] \in {"readReview", "writeReview"} =>
               onReview[p] \in 1..lastReview /\ verdict[p] \in ReviewVerdicts
         /\ at[p] \in {"request", "rework"} => onReview[p] \in 1..lastReview
         /\ at[p] \in {"readQa", "approval", "writeQa"} =>
               onQa[p] \in 1..lastQa /\ verdict[p] \in QaVerdicts
         /\ at[p] \in {"rework", "findReview", "checklist", "checks", "tick"} =>
               onQa[p] \in 1..lastQa
    /\ feedbacks \in 0..MaxFeedback
    /\ crashes \in 0..MaxCrashes

(* The core invariant of the product, in task-status-gate.ts:4: a done     *)
(* task has an approved review and a passing QA result.                    *)
DoneHasEvidence ==
    task = "done" => Approved # {} /\ \E q \in Qas : qaStatus[q] = "passed"

(* Left to the driver, a task is done only when the checks of its latest   *)
(* implementation ran and passed (MUS-292), whatever failed before.        *)
DoneIsVerified ==
    task = "done" => DoneHasEvidence /\ impls > 0 /\ evidence[impls] = "pass"

(* "done" is terminal: nothing pulls a finished task back, not even a red  *)
(* pull request at every tick (MUS-287).                                   *)
DoneIsFinal == task = "done" => task' = "done"

(* A task sent back to implementation carries a change request, without    *)
(* which the selection would never hand it out again.                      *)
ReworkSelectable ==
    task = "in-progress" => \E r \in Reviews : openCR[r] # None

(* A change request is resolved by an approval or a passing QA only after  *)
(* an implementation newer than the request.                               *)
ReworkAddressed ==
    \A r \in Reviews : openCR[r] # None /\ openCR'[r] = None => impls > openCR[r]

(* However sessions and QA gates fail, a task is attempted at most once    *)
(* and MaxRetries times again, once more for each red pull request, and    *)
(* afresh after a QA result that passed.                                   *)
AttemptsBounded ==
    LET passes == Cardinality({q \in Qas : qaStatus[q] = "passed"}) IN
    attempts <= (MaxRetries + 1) * (passes + 1) + feedbacks

(* A QA result that passed, failed or was blocked is never rewritten.      *)
QaVerdictFinal ==
    \A q \in Qas : qaStatus[q] \in TerminalQa => qaStatus'[q] = qaStatus[q]

(* Waiting for the CEO's decision on QA: the checklist is attached and the *)
(* implementation under review has no evidence of its own.                 *)
AwaitsCeo ==
    /\ impls > 0 /\ evidence[impls] = "none"
    /\ \E q \in Qas : qaStatus[q] = "pending" /\ qaChecks[q] = "failing"

(* The latest review asks for changes to the latest implementation.  Its   *)
(* verdict sends the task back, unless it comes between the commit of that *)
(* implementation and the write that puts the task in review.              *)
Disputed ==
    /\ lastReview > 0
    /\ reviewStatus[lastReview] = "changes_requested"
    /\ reviewAt[lastReview] = impls

(* A task in review moves on, or waits for the CEO with a checklist, or is *)
(* in dispute; a rework that has landed always gets its review, and a task *)
(* whose QA has passed while it was in review gets done.                   *)
ReviewAdvances ==
    /\ task = "in-review" ~> (task # "in-review" \/ AwaitsCeo \/ Disputed)
    /\ (task = "in-review" /\ \E q \in Qas : qaStatus[q] = "passed") ~> task # "in-review"
===========================================================================
