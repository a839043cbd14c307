-------------------------- MODULE OutcomeLifecycle --------------------------
(***************************************************************************)
(* One outcome from the CEO's request to its completion: the planning      *)
(* drafts generated for it (planning-draft-service.ts), their approval,    *)
(* rejection and application by the CEO and by the driver's sweep          *)
(* (plan-application-service.ts), and the bookkeeping that completes,      *)
(* blocks or releases the outcome (outcome-completion-service.ts).  Each   *)
(* service reads, decides and then writes in a transaction that checks     *)
(* nothing again, so the read and the write are two steps.                 *)
(***************************************************************************)
EXTENDS Integers, FiniteSets, FiniteSetsExt

CONSTANTS
    Planners,     (* generations that may run at once                       *)
    Drivers,      (* driver processes, which sweep the pending plans        *)
    Requests,     (* web requests of the CEO                                *)
    Finishers,    (* processes that settle a task and evaluate its outcome  *)
    Items,        (* plan items that are executable tasks                   *)
    Clicks,       (* which actions the CEO takes, see ClickKinds            *)
    Faults,       (* which processes may crash, see FaultKinds              *)
    MaxVersions,  (* bound: how many draft versions there are               *)
    MaxAsks,      (* bound: how often a generation is asked for             *)
    MaxMoves,     (* bound: how often the CEO moves a task by hand          *)
    MaxCrashes    (* bound: how many processes crash                        *)

ClickKinds == {"generate", "followUp", "approve", "reject", "apply",
               "release", "move"}

FaultKinds == {"planner", "hand", "finisher"}

Versions == 1..MaxVersions
Hands    == Drivers \cup Requests

ASSUME OutcomeAssumption ==
    /\ Clicks \subseteq ClickKinds
    /\ Faults \subseteq FaultKinds
    /\ Drivers \cap Requests = {}
    /\ {MaxVersions, MaxAsks, MaxMoves, MaxCrashes} \subseteq Nat

VARIABLES
    outcome,     (* Outcome.status                                          *)
    draft,       (* PlanningDraft.status per version, "none": no row        *)
    plan,        (* its generated tasks                                     *)
    approvedAt,  (* whether PlanningDraft.approvedAt is set                 *)
    rejectedAt,  (* whether PlanningDraft.rejectedAt is set                 *)
    task,        (* Task.status per version and plan item                   *)
    planner,     (* where a generation is                                   *)
    hand,        (* where an approval, rejection, application or release is *)
    finisher,    (* where an evaluation of the outcome is                   *)
    asks, moves, crashes

drafts == <<draft, plan, approvedAt, rejectedAt>>
vars == <<outcome, drafts, task, planner, hand, finisher, asks, moves, crashes>>

OutcomeStatuses == {"proposed", "planning", "planned", "needs_clarification",
                    "approved", "rejected", "in_delivery", "blocked",
                    "completed", "released"}
DraftStatuses   == {"draft", "approved", "rejected", "applied", "failed"}
TaskStatuses    == {"open", "blocked", "done", "cancelled"}

(* TERMINAL_OUTCOME_STATUSES, of those that some code writes.              *)
TerminalOutcome == {"released", "completed", "rejected"}

(* Mutant: a blocked task counts as settled.                               *)
SettledOrBlocked(t) == t \in {"done", "cancelled", "blocked"}

(* todo, in-progress and in-review are all "open": how a task gets from    *)
(* one to the next is ExecutionSession and DeliveryGates.                  *)
Settled(t) == t \in {"done", "cancelled"}

Idle == [pc |-> "idle"]

Init ==
    /\ outcome = "proposed"
    /\ draft = [v \in Versions |-> "none"]
    /\ plan = [v \in Versions |-> {}]
    /\ approvedAt = [v \in Versions |-> FALSE]
    /\ rejectedAt = [v \in Versions |-> FALSE]
    /\ task = [r \in Versions \X Items |-> "none"]
    /\ planner = [p \in Planners |-> Idle]
    /\ hand = [h \in Hands |-> Idle]
    /\ finisher = [f \in Finishers |-> Idle]
    /\ asks = 0 /\ moves = 0 /\ crashes = 0

Latest == Max({v \in Versions : draft[v] # "none"} \cup {0})

LatestStatus == IF Latest = 0 THEN "none" ELSE draft[Latest]

---------------------------------------------------------------------------
(* Generation.  A draft is replaced when it failed or was rejected, and    *)
(* for a follow-up of the CEO also while it is pending.                    *)
MayGenerate(s, regenerate) ==
    \/ s \in {"none", "failed", "rejected"}
    \/ regenerate /\ s = "draft"

(* Mutant: a failed draft is not retried in place.                         *)
NextVersionAfterFailure ==
    IF LatestStatus \in {"none", "rejected", "failed"} THEN Latest + 1 ELSE Latest

(* A rejected draft keeps its row: the next plan is a new version.         *)
NextVersion ==
    IF LatestStatus \in {"none", "rejected"} THEN Latest + 1 ELSE Latest

(* The page's button, and the first message of a conversation.             *)
AskForPlan(p) ==
    /\ "generate" \in Clicks /\ asks < MaxAsks
    /\ planner[p] = Idle
    /\ MayGenerate(LatestStatus, FALSE)
    /\ planner' = [planner EXCEPT ![p] = [pc |-> "mark"]]
    /\ asks' = asks + 1
    /\ UNCHANGED <<outcome, drafts, task, hand, finisher, moves, crashes>>

(* The outcome is shown as being planned; generation starts after that.    *)
MarkPlanning(p) ==
    /\ planner[p].pc = "mark"
    /\ outcome' = "planning"
    /\ planner' = [planner EXCEPT ![p] = [pc |-> "read", regenerate |-> FALSE]]
    /\ UNCHANGED <<drafts, task, hand, finisher, asks, moves, crashes>>

(* A later message of the conversation, unless the outcome is terminal or  *)
(* its plan approved: then it steers the work instead.                     *)
FollowUp(p) ==
    /\ "followUp" \in Clicks /\ asks < MaxAsks
    /\ planner[p] = Idle
    /\ outcome \notin TerminalOutcome
    /\ LatestStatus \notin {"approved", "applied"}
    /\ planner' = [planner EXCEPT ![p] = [pc |-> "read", regenerate |-> TRUE]]
    /\ asks' = asks + 1
    /\ UNCHANGED <<outcome, drafts, task, hand, finisher, moves, crashes>>

(* The one look at the drafts before a generation of up to two minutes.    *)
ReadLatestDraft(p) ==
    /\ planner[p].pc = "read"
    /\ planner' = [planner EXCEPT ![p] =
          IF MayGenerate(LatestStatus, planner[p].regenerate)
             /\ NextVersion \in Versions
          THEN [pc |-> "generate", version |-> NextVersion]
          ELSE Idle]
    /\ UNCHANGED <<outcome, drafts, task, hand, finisher, asks, moves, crashes>>

(* persistSuccessfulGeneration upserts the version the planner chose: it   *)
(* replaces plan and status, whatever they are by now, and keeps the       *)
(* approval and rejection dates.                                           *)
PersistPlan(p, items) ==
    /\ planner[p].pc = "generate"
    /\ draft' = [draft EXCEPT ![planner[p].version] = "draft"]
    /\ plan' = [plan EXCEPT ![planner[p].version] = items]
    /\ outcome' = "planned"
    /\ planner' = [planner EXCEPT ![p] = Idle]
    /\ UNCHANGED <<approvedAt, rejectedAt, task, hand, finisher, asks, moves,
                   crashes>>

(* persistFailedGeneration keeps the plan of the row it updates.           *)
PersistFailure(p) ==
    /\ planner[p].pc = "generate"
    /\ draft' = [draft EXCEPT ![planner[p].version] = "failed"]
    /\ outcome' = "needs_clarification"
    /\ planner' = [planner EXCEPT ![p] = Idle]
    /\ UNCHANGED <<plan, approvedAt, rejectedAt, task, hand, finisher, asks,
                   moves, crashes>>

(* An unexpected throw is swallowed, and a restart loses what after() owes. *)
LosePlanner(p) ==
    /\ "planner" \in Faults /\ crashes < MaxCrashes
    /\ planner[p] # Idle
    /\ planner' = [planner EXCEPT ![p] = Idle]
    /\ crashes' = crashes + 1
    /\ UNCHANGED <<outcome, drafts, task, hand, finisher, asks, moves>>

PlannerStep(p) ==
    \/ AskForPlan(p)
    \/ MarkPlanning(p)
    \/ FollowUp(p)
    \/ ReadLatestDraft(p)
    \/ \E items \in SUBSET Items \ {{}} : PersistPlan(p, items)
    \/ PersistFailure(p)
    \/ LosePlanner(p)

---------------------------------------------------------------------------
(* Approval, rejection, application, release.  A hand works on one version *)
(* at a time; the driver's sweep has a list of versions to go on with.     *)
At(pc, v, rest) == [pc |-> pc, version |-> v, rest |-> rest]

(* Mutant: the sweep forgets the plans that are approved but not applied.  *)
SweptPending == {v \in Versions : draft[v] = "draft"}

(* The sweep lists what is pending or approved, and approves what was      *)
(* pending when listed before it applies it.                               *)
Swept == {v \in Versions : draft[v] \in {"draft", "approved"}}

Listed == {<<v, draft[v]>> : v \in Swept}

Proceed(rest) ==
    IF rest = {} THEN Idle
    ELSE LET e == CHOOSE e \in rest : \A f \in rest : e[1] <= f[1]
         IN At(IF e[2] = "draft" THEN "readApprove" ELSE "readApply",
               e[1], rest \ {e})

Click(r, v) ==
    /\ hand[r] = Idle
    /\ draft[v] # "none"
    /\ \E c \in Clicks \cap {"approve", "reject", "apply"} :
          hand' = [hand EXCEPT ![r] =
             At(CASE c = "approve" -> "readApprove"
                  [] c = "reject" -> "readReject"
                  [] c = "apply" -> "readApply", v, {})]
    /\ UNCHANGED <<outcome, drafts, task, planner, finisher, asks, moves, crashes>>

(* autoApplyPendingPlansForCompany, at each tick while autonomy permits.   *)
SweepPlans(d) ==
    /\ hand[d] = Idle
    /\ Listed # {}
    /\ hand' = [hand EXCEPT ![d] = Proceed(Listed)]
    /\ UNCHANGED <<outcome, drafts, task, planner, finisher, asks, moves, crashes>>

(* An approved or applied draft is left as it is; one that was rejected or *)
(* failed makes approval throw, which ends the sweep's work on it.         *)
ReadForApproval(h) ==
    LET v == hand[h].version
        rest == hand[h].rest
        next == CASE draft[v] = "draft" -> At("approve", v, rest)
                  [] draft[v] \in {"approved", "applied"} /\ h \in Drivers
                       -> At("readApply", v, rest)
                  [] OTHER -> Proceed(rest)
    IN /\ hand[h].pc = "readApprove"
       /\ hand' = [hand EXCEPT ![h] = next]
       /\ UNCHANGED <<outcome, drafts, task, planner, finisher, asks, moves,
                      crashes>>

WriteApproval(h) ==
    LET v == hand[h].version
        next == IF h \in Drivers THEN At("readApply", v, hand[h].rest) ELSE Idle
    IN /\ hand[h].pc = "approve"
       /\ draft' = [draft EXCEPT ![v] = "approved"]
       /\ approvedAt' = [approvedAt EXCEPT ![v] = TRUE]
       /\ outcome' = "approved"
       /\ hand' = [hand EXCEPT ![h] = next]
       /\ UNCHANGED <<plan, rejectedAt, task, planner, finisher, asks, moves,
                      crashes>>

(* Mutant: only a rejected or failed draft creates no work.                *)
MayCreateWorkUnlessRejected(v) == draft[v] # "failed" /\ ~rejectedAt[v]

(* assertPlanningDraftCanCreateWork.                                       *)
MayCreateWork(v) ==
    draft[v] \in {"approved", "applied"} /\ approvedAt[v] /\ ~rejectedAt[v]

(* The plan that is applied is the one read here.                          *)
ReadForWork(h) ==
    LET v == hand[h].version
        rest == hand[h].rest
    IN /\ hand[h].pc = "readApply"
       /\ hand' = [hand EXCEPT ![h] =
             IF MayCreateWork(v)
             THEN [pc |-> "apply", version |-> v, rest |-> rest, items |-> plan[v]]
             ELSE Proceed(rest)]
       /\ UNCHANGED <<outcome, drafts, task, planner, finisher, asks, moves,
                      crashes>>

(* One transaction: a task is created for each item that has none yet.     *)
CreateWork(h) ==
    LET v == hand[h].version
    IN /\ hand[h].pc = "apply"
       /\ task' = [r \in DOMAIN task |->
             IF r[1] = v /\ r[2] \in hand[h].items /\ task[r] = "none"
             THEN "open" ELSE task[r]]
       /\ draft' = [draft EXCEPT ![v] = "applied"]
       /\ outcome' = "in_delivery"
       /\ hand' = [hand EXCEPT ![h] = Proceed(hand[h].rest)]
       /\ UNCHANGED <<plan, approvedAt, rejectedAt, planner, finisher, asks,
                      moves, crashes>>

(* A failed draft can be rejected; an approved or applied one cannot.      *)
ReadForRejection(r) ==
    LET v == hand[r].version
    IN /\ hand[r].pc = "readReject"
       /\ hand' = [hand EXCEPT ![r] =
             IF draft[v] \in {"draft", "failed"} THEN At("reject", v, {})
             ELSE Idle]
       /\ UNCHANGED <<outcome, drafts, task, planner, finisher, asks, moves,
                      crashes>>

WriteRejection(r) ==
    LET v == hand[r].version
    IN /\ hand[r].pc = "reject"
       /\ draft' = [draft EXCEPT ![v] = "rejected"]
       /\ rejectedAt' = [rejectedAt EXCEPT ![v] = TRUE]
       /\ outcome' = "rejected"
       /\ hand' = [hand EXCEPT ![r] = Idle]
       /\ UNCHANGED <<plan, approvedAt, task, planner, finisher, asks, moves,
                      crashes>>

(* markOutcomeReleased: a release linked to the outcome has shipped.       *)
ReadForRelease(r) ==
    /\ "release" \in Clicks
    /\ hand[r] = Idle
    /\ outcome # "released"
    /\ hand' = [hand EXCEPT ![r] = [pc |-> "release"]]
    /\ UNCHANGED <<outcome, drafts, task, planner, finisher, asks, moves, crashes>>

WriteRelease(r) ==
    /\ hand[r].pc = "release"
    /\ outcome' = "released"
    /\ hand' = [hand EXCEPT ![r] = Idle]
    /\ UNCHANGED <<drafts, task, planner, finisher, asks, moves, crashes>>

CrashHand(h) ==
    /\ "hand" \in Faults /\ crashes < MaxCrashes
    /\ hand[h] # Idle
    /\ hand' = [hand EXCEPT ![h] = Idle]
    /\ crashes' = crashes + 1
    /\ UNCHANGED <<outcome, drafts, task, planner, finisher, asks, moves>>

(* A step of the sweep, or of an approval, application or rejection.       *)
HandStep(h) ==
    \/ ReadForApproval(h)
    \/ WriteApproval(h)
    \/ ReadForWork(h)
    \/ CreateWork(h)

RequestStep(r) ==
    \/ \E v \in Versions : Click(r, v)
    \/ ReadForRejection(r)
    \/ WriteRejection(r)
    \/ ReadForRelease(r)
    \/ WriteRelease(r)

---------------------------------------------------------------------------
(* Completion.  The process that settles a task evaluates its outcome: it  *)
(* reads the outcome, then all its tasks, then writes.                     *)
Rows == {r \in DOMAIN task : task[r] # "none"}

(* Mutated form: the task is settled, but its outcome is not evaluated.    *)
FinishTaskOnly(f, r) ==
    /\ finisher[f] = Idle
    /\ task[r] = "open"
    /\ task' = [task EXCEPT ![r] = "done"]
    /\ UNCHANGED <<outcome, drafts, planner, hand, finisher, asks, moves, crashes>>

(* recordQaResult, updateTaskStatus("done"): the gates have passed.  Only  *)
(* the CEO reaches a blocked task, with the QA form or the status menu.    *)
FinishTask(f, r) ==
    /\ finisher[f] = Idle
    /\ \/ task[r] = "open"
       \/ "move" \in Clicks /\ task[r] = "blocked"
    /\ task' = [task EXCEPT ![r] = "done"]
    /\ finisher' = [finisher EXCEPT ![f] = [pc |-> "outcome"]]
    /\ UNCHANGED <<outcome, drafts, planner, hand, asks, moves, crashes>>

(* blockTaskAfterExhaustedRetries.                                         *)
BlockTask(f, r) ==
    /\ finisher[f] = Idle
    /\ task[r] = "open"
    /\ task' = [task EXCEPT ![r] = "blocked"]
    /\ finisher' = [finisher EXCEPT ![f] = [pc |-> "outcome"]]
    /\ UNCHANGED <<outcome, drafts, planner, hand, asks, moves, crashes>>

(* The status menu evaluates the outcome for "done" only.                  *)
MoveTask(r, s) ==
    /\ "move" \in Clicks /\ moves < MaxMoves
    /\ task[r] \notin {"none", s}
    /\ task' = [task EXCEPT ![r] = s]
    /\ moves' = moves + 1
    /\ UNCHANGED <<outcome, drafts, planner, hand, finisher, asks, crashes>>

ReadOutcome(f) ==
    /\ finisher[f].pc = "outcome"
    /\ finisher' = [finisher EXCEPT ![f] =
          IF outcome \in TerminalOutcome THEN Idle
          ELSE [pc |-> "tasks", blocked |-> outcome = "blocked"]]
    /\ UNCHANGED <<outcome, drafts, task, planner, hand, asks, moves, crashes>>

(* Complete: every task is settled and one is done.                        *)
Complete ==
    /\ \A r \in Rows : Settled(task[r])
    /\ \E r \in Rows : task[r] = "done"

(* Blocked: nothing is left to run, and a blocked task prevents completion. *)
Stuck ==
    /\ \A r \in Rows : Settled(task[r]) \/ task[r] = "blocked"
    /\ \E r \in Rows : task[r] = "blocked"

ReadTasks(f) ==
    /\ finisher[f].pc = "tasks"
    /\ finisher' = [finisher EXCEPT ![f] =
          CASE Complete -> [pc |-> "write", status |-> "completed"]
            [] Stuck /\ ~finisher[f].blocked
                 -> [pc |-> "write", status |-> "blocked"]
            [] OTHER -> Idle]
    /\ UNCHANGED <<outcome, drafts, task, planner, hand, asks, moves, crashes>>

WriteOutcome(f) ==
    /\ finisher[f].pc = "write"
    /\ outcome' = finisher[f].status
    /\ finisher' = [finisher EXCEPT ![f] = Idle]
    /\ UNCHANGED <<drafts, task, planner, hand, asks, moves, crashes>>

(* The evaluation is best-effort: nobody repeats it.                       *)
LoseEvaluation(f) ==
    /\ "finisher" \in Faults /\ crashes < MaxCrashes
    /\ finisher[f] # Idle
    /\ finisher' = [finisher EXCEPT ![f] = Idle]
    /\ crashes' = crashes + 1
    /\ UNCHANGED <<outcome, drafts, task, planner, hand, asks, moves>>

FinisherStep(f) ==
    \/ ReadOutcome(f)
    \/ ReadTasks(f)
    \/ WriteOutcome(f)

SettleTask(r) == \E f \in Finishers : FinishTask(f, r) \/ BlockTask(f, r)

---------------------------------------------------------------------------
Next ==
    \/ \E p \in Planners : PlannerStep(p)
    \/ \E d \in Drivers : SweepPlans(d)
    \/ \E h \in Hands : HandStep(h) \/ CrashHand(h)
    \/ \E r \in Requests : RequestStep(r)
    \/ \E r \in Versions \X Items : SettleTask(r)
    \/ \E r \in Versions \X Items, s \in TaskStatuses \ {"done"} : MoveTask(r, s)
    \/ \E f \in Finishers : FinisherStep(f) \/ LoseEvaluation(f)

Spec == Init /\ [][Next]_vars

(* A process that runs goes on, ticks recur, a generation ends, and work   *)
(* on a task ends in done or blocked.                                      *)
Fairness ==
    /\ \A d \in Drivers : WF_vars(SweepPlans(d) \/ HandStep(d))
    /\ \A f \in Finishers : WF_vars(FinisherStep(f))
    /\ \A r \in Versions \X Items : WF_vars(SettleTask(r))

---------------------------------------------------------------------------
Pcs == {"idle", "mark", "read", "generate", "readApprove", "approve",
        "readReject", "reject", "readApply", "apply", "release", "outcome",
        "tasks", "write"}

(* Every variable has its type, and a process writes to a version that     *)
(* exists.                                                                 *)
TypeOK ==
    /\ outcome \in OutcomeStatuses
    /\ draft \in [Versions -> DraftStatuses \cup {"none"}]
    /\ plan \in [Versions -> SUBSET Items]
    /\ approvedAt \in [Versions -> BOOLEAN]
    /\ rejectedAt \in [Versions -> BOOLEAN]
    /\ task \in [Versions \X Items -> TaskStatuses \cup {"none"}]
    /\ \A p \in Planners :
          planner[p].pc = "generate" => planner[p].version \in Versions
    /\ \A h \in Hands :
          hand[h].pc \in Pcs \ {"idle", "release"}
             => hand[h].version \in Versions /\ draft[hand[h].version] # "none"
    /\ \A f \in Finishers :
          finisher[f].pc = "write" => finisher[f].status \in {"completed", "blocked"}

(* Work exists only for a plan version that somebody approved, whatever    *)
(* races with its regeneration or rejection (assertPlanningDraftCanCreate- *)
(* Work).                                                                  *)
WorkIsApproved == \A r \in Rows : approvedAt[r[1]]

(* A plan version follows another only when that one was rejected: a       *)
(* failed or pending plan is replaced in place, and concurrent generations *)
(* share a version.                                                        *)
NextVersionAfterRejection ==
    \A v \in Versions : draft[v] # "none" /\ v > 1 => rejectedAt[v - 1]

(* A completed outcome has no task left to run or to unblock.              *)
CompletedHasNoOpenWork ==
    outcome = "completed" => \A r \in Rows : task[r] \notin {"open", "blocked"}

(* At delegate and autonomous a pending plan becomes work with no click,   *)
(* also when the driver crashes between approving and applying it.         *)
PlanApplied == \A v \in Versions : draft[v] = "draft" ~> draft[v] = "applied"

(* When the last task is settled the outcome comes to its end, whichever   *)
(* process settled it: completed if one is done, and blocked, never left   *)
(* in delivery, when what remains is blocked.                              *)
DeliveryConcludes ==
    /\ Complete ~> outcome = "completed"
    /\ Stuck ~> outcome = "blocked"

=============================================================================
