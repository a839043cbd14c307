------------------------------- MODULE Overview -------------------------------
(***************************************************************************)
(* What the CEO's home page says of a request while the company works on   *)
(* it: the recommended actions (next-action-recommendation.ts), the list   *)
(* of what needs attention (control-center-view-model.ts, from             *)
(* approval-checkpoints.ts and stuck-work-detector.ts) and the cards of    *)
(* the board (work-lifecycle.ts, live-pipeline-data.ts).  The company is   *)
(* one request with one plan and one task; driver, worker and gates are    *)
(* coarse (Dispatch, ExecutionSession and DeliveryGates are about them),   *)
(* time passes in days.                                                    *)
(***************************************************************************)
EXTENDS Naturals, Sequences

CONSTANTS
    ReviewDays,      (* DEFAULT_REVIEW_THRESHOLD_HOURS, 24 h                *)
    ExecutionDays,   (* DEFAULT_EXECUTION_THRESHOLD_HOURS, 48 h             *)
    FailureDays,     (* how long a failed session is listed, 7 days         *)
    MaxRetries,      (* WORKER_MAX_RETRIES                                  *)
    MaxDays          (* bound: days that pass                               *)

VARIABLES
    day,         (* today                                                   *)
    moved,       (* the last day anybody did anything                       *)
    plan,        (* the status of the PlanningDraft row, made on day 0      *)
    task,        (* the Task row: its status, and its updatedAt             *)
    session,     (* the latest ExecutionSession: its status and createdAt,  *)
                 (* whether it has evidence for QA, and whether whoever     *)
                 (* prepares it is still at it                              *)
    failed,      (* failed cycles, and the day of the latest failed session *)
    review, qa,  (* the latest Review and QAResult rows of the task         *)
    reworked,    (* a session has completed since the review's verdict      *)
    asked,       (* a change request is open                                *)
    ready,       (* the repository may be run against                       *)
    notice,      (* the notification that it may not be                     *)
    worker,      (* a worker polls for sessions                             *)
    decides,     (* the autonomy level lets the gates decide by themselves  *)
    listed       (* the request is one of the ten open ones updated last    *)

vars == <<day, moved, plan, task, session, failed, review, qa, reworked, asked, ready,
          notice, worker, decides, listed>>

(* What the company's other work asks for, which may push an action of     *)
(* this request down the list.                                             *)
OtherWork == {"plan", "failed", "request", "task"}

PlanStatuses    == {"draft", "approved", "rejected", "applied", "failed"}
TaskStatuses    == {"none", "todo", "in-progress", "in-review", "blocked", "done", "cancelled"}
SessionStatuses == {"none", "queued", "prepared", "running", "completed", "failed",
                    "needs_clarification"}
ReviewVerdicts  == {"approved", "changes_requested", "blocked", "needs_clarification"}
ReviewStatuses  == {"none", "pending"} \cup ReviewVerdicts
QaVerdicts      == {"passed", "failed", "blocked"}
QaStatuses      == {"none", "pending"} \cup QaVerdicts

NoSession == [status |-> "none", at |-> 0, evidence |-> FALSE, preparing |-> FALSE]

Init ==
    /\ day = 0 /\ moved = 0
    /\ plan \in {"draft", "failed"}
    /\ task = [status |-> "none", at |-> 0] /\ session = NoSession
    /\ failed = [cycles |-> 0, at |-> 0]
    /\ review = "none" /\ qa = "none" /\ reworked = FALSE /\ asked = FALSE
    /\ ready \in BOOLEAN /\ notice = "none" /\ worker = TRUE
    /\ decides \in BOOLEAN /\ listed = TRUE

Set(row, status) == [row EXCEPT !.status = status, !.at = day]

---------------------------------------------------------------------------
(* The driver.                                                             *)

ApplyPlan ==
    /\ plan = "approved"
    /\ plan' = "applied" /\ task' = Set(task, "todo")
    /\ UNCHANGED <<session, failed, review, qa, reworked, asked, ready, notice, worker>>

Live == session.status \in {"queued", "prepared", "running"}

Selected ==
    /\ ~Live
    /\ \/ task.status = "todo"
       \/ task.status = "in-progress" /\ asked

Exhausted == failed.cycles > MaxRetries

CreateSession ==
    /\ Selected /\ ready /\ ~Exhausted
    /\ session' = [status |-> "queued", at |-> day, evidence |-> FALSE, preparing |-> TRUE]
    /\ UNCHANGED <<plan, task, failed, review, qa, reworked, asked, ready, notice, worker>>

BriefDue == session.status = "queued" /\ session.preparing

WriteBrief ==
    /\ BriefDue
    /\ session' = [session EXCEPT !.status = "prepared", !.preparing = FALSE]
    /\ UNCHANGED <<plan, task, failed, review, qa, reworked, asked, ready, notice, worker>>

Block ==
    /\ Selected /\ ready /\ Exhausted
    /\ task' = Set(task, "blocked")
    /\ UNCHANGED <<plan, session, failed, review, qa, reworked, asked, ready, notice, worker>>

(* Surfaced while the CEO has not cleared it.                              *)
Surfaced == notice = "unread"

NotifyRepositoryBlockedOnce ==
    /\ Selected /\ ~ready /\ ~Surfaced
    /\ notice' = "unread"
    /\ UNCHANGED <<plan, task, session, failed, review, qa, reworked, asked, ready, worker>>

(* A failed attempt puts the task back, unless it is past that.            *)
SessionFails ==
    /\ session' = [session EXCEPT !.status = "failed"]
    /\ failed' = [cycles |-> IF Exhausted THEN failed.cycles ELSE failed.cycles + 1, at |-> day]

Abandoned == session.status = "running" /\ ~worker

Reap ==
    /\ Abandoned
    /\ SessionFails
    /\ UNCHANGED <<plan, task, review, qa, reworked, asked, ready, notice, worker>>

(* A review is opened for work that has none to decide on: it has never    *)
(* been reviewed, or it has been reworked since.                           *)
ReviewDue ==
    /\ task.status = "in-review"
    /\ \/ review = "none"
       \/ review \in {"changes_requested", "needs_clarification"} /\ reworked

OpenReview ==
    /\ ReviewDue
    /\ review' = "pending"
    /\ UNCHANGED <<plan, task, session, failed, qa, reworked, asked, ready, notice, worker>>

QaDue ==
    /\ task.status = "in-review" /\ review = "approved"
    /\ qa \in {"none", "failed", "blocked"}

OpenQa ==
    /\ QaDue
    /\ qa' = "pending"
    /\ UNCHANGED <<plan, task, session, failed, review, reworked, asked, ready, notice, worker>>

ReviewPending == task.status = "in-review" /\ review = "pending"

QaPending == task.status = "in-review" /\ qa = "pending"

(* Without comments there is nothing to open a change request for.         *)
ReviewVerdict(verdict, comments) ==
    /\ ReviewPending
    /\ review' = verdict /\ reworked' = FALSE
    /\ qa' = IF verdict = "approved" THEN "pending" ELSE qa
    /\ asked' = (verdict # "approved" /\ (asked \/ (verdict = "changes_requested" /\ comments)))
    /\ task' = CASE verdict = "changes_requested" -> Set(task, "in-progress")
                 [] verdict = "blocked"           -> Set(task, "blocked")
                 [] OTHER                         -> task
    /\ UNCHANGED <<plan, session, failed, ready, notice, worker>>

QaVerdict(verdict, comments) ==
    /\ QaPending
    /\ qa' = verdict
    /\ task' = Set(task, CASE verdict = "passed" -> "done"
                            [] verdict = "failed" -> "in-progress"
                            [] OTHER              -> "blocked")
    /\ asked' = (verdict # "passed" /\ (asked \/ (verdict = "failed" /\ comments)))
    /\ failed' = IF verdict = "failed" /\ ~Exhausted
                 THEN [failed EXCEPT !.cycles = @ + 1] ELSE failed
    /\ UNCHANGED <<plan, session, review, reworked, ready, notice, worker>>

(* The gates approve by themselves, at a level that permits it, and judge  *)
(* the quality only on evidence.                                           *)
GateStep ==
    /\ decides
    /\ \/ ReviewVerdict("approved", FALSE)
       \/ /\ review = "approved" /\ session.evidence
          /\ \E v \in {"passed", "failed"} : QaVerdict(v, TRUE)

DriverStep ==
    \/ ApplyPlan \/ CreateSession \/ WriteBrief \/ Block
    \/ NotifyRepositoryBlockedOnce \/ Reap \/ OpenReview \/ OpenQa
    \/ GateStep

---------------------------------------------------------------------------
(* The worker.                                                             *)

Claim ==
    /\ worker /\ session.status = "prepared"
    /\ session' = [session EXCEPT !.status = "running"]
    /\ UNCHANGED <<plan, task, failed, review, qa, reworked, asked, ready, notice, worker>>

Settled == {"done", "cancelled", "in-review"}

Finish ==
    /\ worker /\ session.status = "running"
    /\ \/ \E e \in BOOLEAN :
             /\ session' = [session EXCEPT !.status = "completed", !.evidence = e]
             /\ task' = IF task.status \in Settled THEN task ELSE Set(task, "in-review")
             /\ reworked' = TRUE /\ UNCHANGED failed
       \/ /\ SessionFails
          /\ task' = IF task.status \in Settled THEN task ELSE Set(task, "todo")
          /\ UNCHANGED reworked
    /\ UNCHANGED <<plan, review, qa, asked, ready, notice, worker>>

WorkerStep == Claim \/ Finish

---------------------------------------------------------------------------
(* The CEO, and what happens to the machine.                               *)

DecidePlan ==
    /\ plan = "draft"
    /\ plan' \in {"approved", "rejected"}
    /\ UNCHANGED <<task, session, failed, review, qa, reworked, asked, ready, notice, worker>>

(* A result recorded by hand may say that the agent needs to ask.          *)
AskByHand ==
    /\ session.status \in {"prepared", "running"}
    /\ session' = [session EXCEPT !.status = "needs_clarification"]
    /\ task' = IF task.status \in Settled THEN task ELSE Set(task, "todo")
    /\ UNCHANGED <<plan, failed, review, qa, reworked, asked, ready, notice, worker>>

SetTaskStatus ==
    /\ \/ task.status = "blocked" /\ task' = Set(task, "todo")
       \/ task.status \in {"todo", "blocked"} /\ task' = Set(task, "cancelled")
    /\ UNCHANGED <<plan, session, failed, review, qa, reworked, asked, ready, notice, worker>>

ReadNotice ==
    /\ notice = "unread" /\ notice' = "read"
    /\ UNCHANGED <<plan, task, session, failed, review, qa, reworked, asked, ready, worker>>

RepositoryChanges ==
    /\ ready' = ~ready
    /\ UNCHANGED <<plan, task, session, failed, review, qa, reworked, asked, notice, worker>>

WorkerChanges ==
    /\ worker' = ~worker
    /\ UNCHANGED <<plan, task, session, failed, review, qa, reworked, asked, ready, notice>>

(* Whoever prepares the session dies before the brief is written.          *)
PreparerDies ==
    /\ session.preparing
    /\ session' = [session EXCEPT !.preparing = FALSE]
    /\ UNCHANGED <<plan, task, failed, review, qa, reworked, asked, ready, notice, worker>>

(* What somebody asks for on GitHub, with the next poll.                   *)
FeedbackArrives ==
    /\ task.status = "in-review"
    /\ review' = "changes_requested" /\ reworked' = FALSE /\ asked' = TRUE
    /\ task' = Set(task, "in-progress")
    /\ UNCHANGED <<plan, session, failed, qa, ready, notice, worker>>

CeoStep ==
    \/ DecidePlan \/ AskByHand \/ SetTaskStatus \/ ReadNotice
    \/ \E c \in BOOLEAN :
          \/ \E v \in ReviewVerdicts : ReviewVerdict(v, c)
          \/ \E v \in QaVerdicts : QaVerdict(v, c)

Upset == RepositoryChanges \/ WorkerChanges \/ PreparerDies \/ FeedbackArrives

Step ==
    /\ DriverStep \/ WorkerStep \/ CeoStep \/ Upset
    /\ moved' = day
    /\ UNCHANGED <<day, decides, listed>>

(* Ten other requests are worked on, or enough of them are closed again;   *)
(* what is listed matters only of a request whose planning has failed.     *)
OthersMove ==
    /\ plan = "failed"
    /\ listed' = ~listed
    /\ UNCHANGED <<day, moved, plan, task, session, failed, review, qa, reworked, asked, ready,
                   notice, worker, decides>>

DayPasses ==
    /\ day < MaxDays
    /\ day' = day + 1
    /\ UNCHANGED <<moved, plan, task, session, failed, review, qa, reworked, asked, ready,
                   notice, worker, decides, listed>>

Next == Step \/ OthersMove \/ DayPasses

Spec == Init /\ [][Next]_vars

---------------------------------------------------------------------------
(* The page.  What it lists is named by what it is about.                  *)

Since(at, days) == day - at >= days

(* Paused decisions of a task that is in review.                           *)
Checkpoints ==
    {k \in {"review", "qa"} : IF k = "review" THEN ReviewPending ELSE QaPending}

(* Mutated form: a session that was never prepared does not count.         *)
StuckSessionsRunning == {"running"}

StuckSessions == {"queued", "running"}

StuckWork ==
    {c \in {"review", "blocked", "execution", "plan", "failure", "repository"} :
        CASE c = "review"     -> task.status = "in-review" /\ Since(task.at, ReviewDays)
          [] c = "blocked"    -> task.status = "blocked" /\ Since(task.at, ReviewDays)
          [] c = "execution"  -> session.status \in StuckSessions /\ Since(session.at, ExecutionDays)
          [] c = "plan"       -> plan = "draft" /\ Since(0, ReviewDays)
          [] c = "failure"    -> session.status = "failed" /\ ~Since(failed.at, FailureDays + 1)
          [] c = "repository" -> notice = "unread"}

(* A request is blocked once its planning has failed; the page looks for   *)
(* blocked ones among the ten it reads.                                    *)
RequestBlocked == plan = "failed" /\ listed

Attention ==
    Checkpoints \cup StuckWork \cup (IF RequestBlocked THEN {"request"} ELSE {})

(* What the recommendations count, of this request and of the others.      *)
Counted(kind) ==
    CASE kind = "plan"    -> plan = "draft"
      [] kind = "failed"  -> session.status = "failed"
      [] kind = "clarify" -> session.status = "needs_clarification"
      [] kind = "request" -> RequestBlocked
      [] kind = "task"    -> task.status = "blocked"
      [] kind = "ready"   -> session.status \in {"queued", "prepared"}

(* By priority, then by confidence.                                        *)
Candidates ==
    SelectSeq(<<"plan", "failed", "clarify", "request", "task", "ready">>,
              LAMBDA kind : Counted(kind) \/ kind \in OtherWork)

(* One primary action and up to three more.                                *)
NextActions == {Candidates[i] : i \in DOMAIN Candidates \cap 1 .. 4}

(* The column of the task's card; a later stage wins.                      *)
Stage ==
    CASE task.status = "done"                                       -> "done"
      [] review = "approved" \/ qa \in QaVerdicts                   -> "qa"
      [] task.status = "in-review" \/ review \in {"changes_requested", "pending"} -> "review"
      [] session.status \in {"running", "completed"} \/ task.status = "in-progress" -> "building"
      [] OTHER                                                      -> "queued"

IsWorkItemBlocked ==
    \/ session.status \in {"failed", "needs_clarification"}
    \/ task.status = "blocked"
    \/ review = "changes_requested"
    \/ qa \in {"failed", "blocked"}

IsAwaitingApproval ==
    \/ plan = "draft"
    \/ Stage = "review" /\ task.status = "in-review"

(* Cards of the board that are amber or red; a cancelled task has none.    *)
NeedsAttention ==
    \/ plan = "draft"
    \/ task.status \notin {"none", "cancelled"} /\ (IsWorkItemBlocked \/ IsAwaitingApproval)

---------------------------------------------------------------------------
TypeOK ==
    /\ day \in 0 .. MaxDays /\ moved \in 0 .. day
    /\ plan \in PlanStatuses
    /\ task \in [status : TaskStatuses, at : 0 .. day]
    /\ session \in [status : SessionStatuses, at : 0 .. day, evidence : BOOLEAN,
                    preparing : BOOLEAN]
    /\ failed \in [cycles : 0 .. MaxRetries + 1, at : 0 .. day]
    /\ review \in ReviewStatuses /\ qa \in QaStatuses
    /\ reworked \in BOOLEAN /\ asked \in BOOLEAN
    /\ ready \in BOOLEAN /\ notice \in {"none", "unread", "read"}
    /\ worker \in BOOLEAN /\ decides \in BOOLEAN /\ listed \in BOOLEAN

Over ==
    \/ plan = "rejected"
    \/ task.status \in {"done", "cancelled"}

Longest(a, b) == IF a > b THEN a ELSE b

(* What the driver may do next, and a worker: the guards of their steps.   *)
DriverMay ==
    \/ plan = "approved"
    \/ Selected /\ (ready \/ ~Surfaced)
    \/ BriefDue \/ Abandoned \/ ReviewDue \/ QaDue
    \/ decides /\ (ReviewPending \/ (review = "approved" /\ session.evidence /\ QaPending))

WorkerMay == worker /\ session.status \in {"prepared", "running"}

Standstill ==
    /\ ~Over /\ ~DriverMay /\ ~WorkerMay
    /\ Since(moved, Longest(ReviewDays, ExecutionDays))

(* When neither the driver nor a worker can do anything more for a request *)
(* that is not over, the home page, or the board it shows four cards of,   *)
(* says within two days that something about it needs the CEO.  Two        *)
(* standstills need not show: a prepared session that only misses a        *)
(* worker, and planning that failed once ten other requests were updated   *)
(* (stuck-work-detector.ts, detectStuckWork; next-action-recommendation.ts,*)
(* computeNextActions; work-lifecycle.ts, isWorkItemBlocked).              *)
StandstillSeen ==
    Standstill =>
        \/ Attention # {}
        \/ NeedsAttention
        \/ \E kind \in NextActions : Counted(kind)
        \/ session.status = "prepared" /\ ~worker
        \/ plan = "failed" /\ ~listed
=============================================================================
