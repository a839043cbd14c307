----------------------------- MODULE Dispatch -----------------------------
(***************************************************************************)
(* One company's engine room: the driver's tick                            *)
(* (lib/execution-driver-service.ts) that reaps, counts, enqueues and      *)
(* advances; the worker's pool of slots (worker/worker-pool.ts,            *)
(* worker/index.ts) that claims, checks the spend ceiling, runs and        *)
(* records; the CEO's "Prepare execution"; and the usage ledger.  The      *)
(* sessions between them are those of SessionContract, which               *)
(* ExecutionSession implements: every change of a session here is one of   *)
(* the contract's steps.  TaskSelection says which task is next.           *)
(*                                                                         *)
(* Time is abstracted: after a failure a tick may find the task's backoff  *)
(* open, and the reaper's grace is over only for a session whose worker is *)
(* dead.                                                                   *)
(***************************************************************************)
EXTENDS TaskSelection, FiniteSets

CONSTANTS
    Rows,          (* per task, numbered by age: its first status, and its  *)
                   (* priority, plan and item                               *)
    Drafts,        (* the company's approved plans, one outcome each        *)
    Slots,         (* WORKER_CONCURRENCY claim loops                        *)
    Requests,      (* web requests of the CEO that prepare a task           *)
    Limit,         (* maxConcurrentSessions of the run mode                 *)
    MaxRetries,    (* WORKER_MAX_RETRIES                                    *)
    Ceiling,       (* the company's spend ceiling per outcome               *)
    Costs,         (* what an agent run may cost ...                        *)
    MaxCost,       (* ... at most                                           *)
    PlanningCost,  (* what a planning completion costs                      *)
    MaxSessions,   (* bound: sessions ever created                          *)
    MaxEvents,     (* bound: crashes of the worker, interventions of the    *)
                   (* CEO and planning completions, in all                  *)
    NoSession

Tasks    == DOMAIN Rows
Sessions == 1..MaxSessions
Outcomes == DOMAIN Drafts
OutcomeOf(t) == Rows[t].plan
TaskStatuses == {"todo", "in-progress", "in-review", "blocked", "done"}

ASSUME DispatchAssumption ==
    /\ Limit \in Nat
    /\ Ceiling \in Nat \ {0}
    /\ MaxCost \in Nat /\ Costs \subseteq 0..MaxCost
    /\ MaxSessions \in Nat /\ MaxEvents \in Nat
    /\ PlanningCost \in Nat
    /\ IsFiniteSet(Slots)
    /\ "driver" \notin Requests
    /\ \A t \in Tasks : /\ OutcomeOf(t) \in Outcomes
                        /\ Rows[t].status \in TaskStatuses
    /\ NoTask \notin Tasks
    /\ NoSession \notin Nat

VARIABLES
    phase, task, launches,   (* the sessions, see SessionContract           *)
    tstatus,    (* Task.status                                              *)
    rework,     (* the tasks with an open change request                    *)
    failures,   (* per task: failed sessions and failed QA results          *)
    at,         (* where the driver is in its tick                          *)
    live,       (* ... the sessions it has counted                          *)
    briefing,   (* per preparer: the session it writes the brief for        *)
    byRequest,  (* history: the sessions the CEO's requests have opened     *)
    slotAt,     (* per slot: where processSession is                        *)
    slotSess,   (* ... its session                                          *)
    slotCost,   (* ... what its agent run has cost                          *)
    ledger,     (* per outcome: the execution cost recorded                 *)
    planned,    (* per outcome: the planning cost recorded                  *)
    events      (* how many of those have happened                         *)

sessions == <<phase, task, launches>>
work     == <<tstatus, rework, failures>>
driver   == <<at, live>>
slots    == <<slotAt, slotSess, slotCost>>
money    == <<ledger, planned>>
vars     == <<sessions, work, driver, briefing, byRequest, slots, money, events>>

Contract == INSTANCE SessionContract

Preparers == {"driver"} \cup Requests
UnderWay  == {s \in Sessions : phase[s] \in Contract!UnderWay}
LiveOn(t) == {s \in UnderWay : task[s] = t}

Init ==
    /\ Contract!Init
    /\ tstatus = [t \in Tasks |-> Rows[t].status]
    /\ rework = {}
    /\ failures = [t \in Tasks |-> 0]
    /\ at = "gates" /\ live = 0
    /\ briefing = [p \in Preparers |-> NoSession]
    /\ byRequest = {}
    /\ slotAt = [w \in Slots |-> "free"]
    /\ slotSess = [w \in Slots |-> NoSession]
    /\ slotCost = [w \in Slots |-> 0]
    /\ ledger = [o \in Outcomes |-> 0]
    /\ planned = [o \in Outcomes |-> 0]
    /\ events = 0

Row(t) ==
    [id |-> t, status |-> tstatus[t], rework |-> t \in rework,
     priority |-> Rows[t].priority, plan |-> Rows[t].plan, item |-> Rows[t].item]

AllRows == {Row(t) : t \in Tasks}

Plan == Metadata(Drafts)

Selected ==
    SelectNext(Candidates(AllRows, Drafts), CompletedItems(AllRows, Drafts),
               Plan, Drafts).task

(* A failed session or QA result counts against the retry budget.          *)
CountFailure(t) == failures' = [failures EXCEPT ![t] = @ + 1]

Exhausted(t) == failures[t] > MaxRetries

(* After a failure the task waits for a while: the backoff may be open.    *)
MayBeInBackoff(t) == failures[t] \in 1..MaxRetries

---------------------------------------------------------------------------
(* The sessions in the hands of a slot; a running one that is in nobody's  *)
(* is what a dead worker has left.                                         *)
Held == {slotSess[w] : w \in Slots} \ {NoSession}

(* Mutated form: the reaper is never called.                               *)
OrphanNever(s) == FALSE

Orphan(s) == phase[s] = "working" /\ s \notin Held

(* A round of the reaper, with a tick of the driver or a cycle of the      *)
(* worker's pool: the orphan fails.                                        *)
ReapOrphan(s) ==
    /\ Orphan(s)
    /\ Contract!Close(s)
    /\ CountFailure(task[s])
    /\ UNCHANGED <<tstatus, rework, driver, briefing, byRequest, slots, money, events>>

(* A tick begins, some time after the last one, with a count of the live   *)
(* sessions, which is not taken again.                                     *)
BeginTick ==
    /\ at = "gates"
    /\ live' = Cardinality(UnderWay)
    /\ at' = "enqueue"
    /\ UNCHANGED <<sessions, work, briefing, byRequest, slots, money, events>>

(* Mutated form: no limit.                                                 *)
HasRoomAlways == TRUE

HasRoom == live < Limit

(* autoPrepareNextExecutionSession for the one task that is next: a        *)
(* session for it, or the end of the enqueuing, whatever other tasks wait. *)
EnqueueNext ==
    /\ at = "enqueue" /\ HasRoom
    /\ \E t \in Tasks, s \in Sessions :
        /\ t = Selected /\ LiveOn(t) = {} /\ ~Exhausted(t)
        /\ \A r \in 1..(s - 1) : phase[r] # "none"
        /\ Contract!Open(s, t)
        /\ briefing' = [briefing EXCEPT !["driver"] = s]
    /\ at' = "brief"
    /\ UNCHANGED <<work, live, byRequest, slots, money, events>>

StopEnqueuing ==
    LET t == Selected IN
    /\ at = "enqueue"
    /\ \/ ~HasRoom \/ t = NoTask
       \/ LiveOn(t) # {}
       \/ t # NoTask /\ MayBeInBackoff(t)
    /\ at' = "gates" /\ live' = 0
    /\ UNCHANGED <<sessions, work, briefing, byRequest, slots, money, events>>

(* The retry budget is exhausted: the task is blocked.                     *)
BlockExhausted ==
    LET t == Selected IN
    /\ at = "enqueue" /\ HasRoom /\ t # NoTask
    /\ LiveOn(t) = {} /\ Exhausted(t)
    /\ tstatus' = [tstatus EXCEPT ![t] = "blocked"]
    /\ at' = "gates" /\ live' = 0
    /\ UNCHANGED <<sessions, rework, failures, briefing, byRequest, slots, money, events>>

(* The brief is written, by the driver or by a request.                    *)
WriteBrief(p) ==
    /\ briefing[p] # NoSession
    /\ Contract!Ready(briefing[p])
    /\ briefing' = [briefing EXCEPT ![p] = NoSession]
    /\ IF p = "driver" THEN at' = "enqueue" /\ live' = live + 1 ELSE UNCHANGED driver
    /\ UNCHANGED <<work, byRequest, slots, money, events>>

(* advanceTaskGates (DeliveryGates has its steps): the task passes, or     *)
(* goes back with a change request after a failed QA, or waits for the CEO.*)
AdvanceGates(t) ==
    /\ at = "gates" /\ tstatus[t] = "in-review"
    /\ \/ /\ tstatus' = [tstatus EXCEPT ![t] = "done"]
          /\ rework' = rework \ {t}
          /\ UNCHANGED <<failures>>
       \/ /\ tstatus' = [tstatus EXCEPT ![t] = "in-progress"]
          /\ rework' = rework \cup {t}
          /\ CountFailure(t)
    /\ UNCHANGED <<sessions, driver, briefing, byRequest, slots, money, events>>

---------------------------------------------------------------------------
(* The CEO prepares a task without a look at selection, limit or budget,   *)
(* and sets a blocked task to todo.                                        *)

RequestExecution(r, t) ==
    /\ briefing[r] = NoSession /\ events < MaxEvents
    /\ \E s \in Sessions :
        /\ \A q \in 1..(s - 1) : phase[q] # "none"
        /\ Contract!Open(s, t)
        /\ briefing' = [briefing EXCEPT ![r] = s]
        /\ byRequest' = byRequest \cup {s}
    /\ events' = events + 1
    /\ UNCHANGED <<work, driver, slots, money>>

Requeue(t) ==
    /\ tstatus[t] = "blocked" /\ events < MaxEvents
    /\ tstatus' = [tstatus EXCEPT ![t] = "todo"]
    /\ events' = events + 1
    /\ UNCHANGED <<sessions, rework, failures, driver, briefing, byRequest, slots, money>>

---------------------------------------------------------------------------
(* The worker: claimNextSession, enforceOutcomeSpendCeiling, the agent,    *)
(* the ingestion, recordAgentUsage.                                        *)

GotoSlot(w, l) ==
    /\ slotAt' = [slotAt EXCEPT ![w] = l]
    /\ UNCHANGED <<slotSess, slotCost>>

FreeSlot(w) ==
    /\ slotAt' = [slotAt EXCEPT ![w] = "free"]
    /\ slotSess' = [slotSess EXCEPT ![w] = NoSession]
    /\ slotCost' = [slotCost EXCEPT ![w] = 0]

ClaimSession(w) ==
    /\ slotAt[w] = "free"
    /\ \E s \in Sessions :
        /\ Contract!Claim(s)
        /\ \A r \in 1..(s - 1) : phase[r] # "ready"
        /\ slotSess' = [slotSess EXCEPT ![w] = s]
    /\ slotAt' = [slotAt EXCEPT ![w] = "claimed"]
    /\ UNCHANGED <<work, driver, briefing, byRequest, slotCost, money, events>>

(* Mutated form: the planning samples of the ledger alone.                 *)
ExceededByPlanning(o) == planned[o] >= Ceiling

(* evaluateSpendCeiling over the samples of both phases.                   *)
Exceeded(o) == ledger[o] + planned[o] >= Ceiling

(* Over the ceiling the task is blocked, whatever its status, and the      *)
(* session released; below it the agent starts.                            *)
HaltForSpend(w) ==
    LET t == task[slotSess[w]] IN
    /\ slotAt[w] = "claimed" /\ Exceeded(OutcomeOf(t))
    /\ tstatus' = [tstatus EXCEPT ![t] = "blocked"]
    /\ GotoSlot(w, "release")
    /\ UNCHANGED <<sessions, rework, failures, driver, briefing, byRequest, money, events>>

LaunchAgent(w) ==
    /\ slotAt[w] = "claimed" /\ ~Exceeded(OutcomeOf(task[slotSess[w]]))
    /\ Contract!Launch(slotSess[w])
    /\ GotoSlot(w, "agent")
    /\ UNCHANGED <<work, driver, briefing, byRequest, money, events>>

(* The agent is done, at some cost; the guardrails then block its work, or *)
(* a step throws, or the result goes to the ingestion.                     *)
FinishAgent(w) ==
    /\ slotAt[w] = "agent"
    /\ \E c \in Costs : slotCost' = [slotCost EXCEPT ![w] = c]
    /\ \E l \in {"ingest", "release"} : slotAt' = [slotAt EXCEPT ![w] = l]
    /\ UNCHANGED <<sessions, work, driver, briefing, byRequest, slotSess, money, events>>

(* ingestAgentExecutionResult: the session is closed and its task follows. *)
(* A settled or reviewed task stays as it is.                              *)
IngestResult(w) ==
    LET s == slotSess[w] IN
    /\ slotAt[w] = "ingest"
    /\ Contract!Close(s)
    /\ \/ /\ tstatus' = [tstatus EXCEPT ![task[s]] =
                IF @ \in {"done", "cancelled", "in-review"} THEN @ ELSE "in-review"]
          /\ UNCHANGED <<failures>>
       \/ /\ tstatus' = [tstatus EXCEPT ![task[s]] =
                IF @ \in {"done", "cancelled", "in-review"} THEN @ ELSE "todo"]
          /\ CountFailure(task[s])
    /\ GotoSlot(w, "record")
    /\ UNCHANGED <<rework, driver, briefing, byRequest, money, events>>

(* The cost of a run is written once its result is; a run that was         *)
(* released leaves none.                                                   *)
RecordUsage(w) ==
    LET o == OutcomeOf(task[slotSess[w]]) IN
    /\ slotAt[w] = "record"
    /\ ledger' = [ledger EXCEPT ![o] = @ + slotCost[w]]
    /\ FreeSlot(w)
    /\ UNCHANGED <<sessions, work, driver, briefing, byRequest, planned, events>>

ReleaseSession(w) ==
    /\ slotAt[w] = "release"
    /\ Contract!Close(slotSess[w])
    /\ CountFailure(task[slotSess[w]])
    /\ FreeSlot(w)
    /\ UNCHANGED <<tstatus, rework, driver, briefing, byRequest, money, events>>

(* The worker process dies with all its slots; its SIGTERM handler, which  *)
(* exits without waiting for the pool, does the same.                      *)
CrashWorker ==
    /\ events < MaxEvents
    /\ slotAt' = [w \in Slots |-> "free"]
    /\ slotSess' = [w \in Slots |-> NoSession]
    /\ slotCost' = [w \in Slots |-> 0]
    /\ events' = events + 1
    /\ UNCHANGED <<sessions, work, driver, briefing, byRequest, money>>

(* The planner records what a completion for the outcome has cost.         *)
RecordPlanning(o) ==
    /\ events < MaxEvents
    /\ planned' = [planned EXCEPT ![o] = @ + PlanningCost]
    /\ events' = events + 1
    /\ UNCHANGED <<sessions, work, driver, briefing, byRequest, slots, ledger>>

---------------------------------------------------------------------------

DriverStep ==
    \/ BeginTick \/ EnqueueNext \/ StopEnqueuing \/ BlockExhausted

SlotStep(w) ==
    \/ ClaimSession(w) \/ HaltForSpend(w) \/ LaunchAgent(w) \/ FinishAgent(w)
    \/ IngestResult(w) \/ RecordUsage(w) \/ ReleaseSession(w)

Next ==
    \/ DriverStep
    \/ \E p \in Preparers : WriteBrief(p)
    \/ \E t \in Tasks : AdvanceGates(t) \/ Requeue(t)
    \/ \E r \in Requests, t \in Tasks : RequestExecution(r, t)
    \/ \E w \in Slots : SlotStep(w)
    \/ \E s \in Sessions : ReapOrphan(s)
    \/ \E o \in Outcomes : RecordPlanning(o)
    \/ CrashWorker

(* The loops of the driver and the worker run for ever, the reaper comes   *)
(* round, and some tick finds the backoff over (SF); nothing makes the CEO *)
(* act.                                                                    *)
Fairness ==
    /\ WF_vars(DriverStep)
    /\ WF_vars(\E p \in Preparers : WriteBrief(p))
    /\ SF_vars(EnqueueNext)
    /\ \A w \in Slots : WF_vars(SlotStep(w))
    /\ WF_vars(\E s \in Sessions : ReapOrphan(s))

Spec == Init /\ [][Next]_vars

LiveSpec == Spec /\ Fairness

---------------------------------------------------------------------------
(* Properties.                                                             *)

TypeOK ==
    /\ phase \in [Sessions -> {"none", "queued", "ready", "working", "over"}]
    /\ task \in [Sessions -> Tasks \cup {NoTask}]
    /\ launches \in [Sessions -> 0..1]
    /\ tstatus \in [Tasks -> TaskStatuses]
    /\ rework \subseteq Tasks
    /\ failures \in [Tasks -> Nat]
    /\ at \in {"enqueue", "brief", "gates"} /\ live \in Nat
    /\ briefing \in [Preparers -> Sessions \cup {NoSession}]
    /\ byRequest \subseteq Sessions
    /\ slotAt \in [Slots -> {"free", "claimed", "agent", "ingest",
                             "record", "release"}]
    /\ slotSess \in [Slots -> Sessions \cup {NoSession}]
    /\ \A w \in Slots : slotAt[w] = "free" <=> slotSess[w] = NoSession
    /\ slotCost \in [Slots -> 0..MaxCost]
    /\ ledger \in [Outcomes -> Nat] /\ planned \in [Outcomes -> Nat]
    /\ events \in 0..MaxEvents

(* The runs of an outcome whose cost the ledger has yet to see.            *)
InFlight(o) ==
    {w \in Slots : /\ slotAt[w] \in {"agent", "ingest", "record"}
                   /\ OutcomeOf(task[slotSess[w]]) = o}

(* execution-spend-guard.ts: the recorded cost of an outcome's runs goes   *)
(* past the ceiling by at most one batch of sessions in flight, whatever   *)
(* the pool, the planner, crashes and the CEO do meanwhile.                *)
SpendBounded ==
    \A o \in Outcomes :
        ledger[o] <= Ceiling - 1 + Cardinality(Slots) * MaxCost

(* The driver keeps to the limit of the run mode: of the sessions it has   *)
(* opened, never more than Limit are under way, however its count and the  *)
(* worker's progress interleave; what the CEO prepares comes on top.       *)
DriverKeepsLimit == Cardinality(UnderWay \ byRequest) <= Limit

(* A task that could run now: selectable, its plan's dependencies done.    *)
Runnable(t) ==
    /\ IsExecutableCandidate(Row(t))
    /\ IsReady(Row(t), CompletedItems(AllRows, Drafts), Plan)

(* Every task gets its turn: one that could run is delivered for review,   *)
(* or blocked and shown to the CEO, however many tasks precede it, however *)
(* often its runs fail and although the worker may crash.                  *)
EveryTaskGetsItsTurn ==
    \A t \in Tasks : Runnable(t) ~> tstatus[t] \in {"in-review", "blocked", "done"}

(* execution-driver-service.ts:7 "Enqueues the next executable task(s) ... *)
(* up to the per-company concurrency limit": the enqueuing ends with the   *)
(* limit reached or with no task left that could be prepared.              *)
SlotsFilled ==
    [][at = "enqueue" /\ at' = "gates" =>
          \/ Cardinality(UnderWay) >= Limit
          \/ \A t \in Tasks : Runnable(t) =>
                LiveOn(t) # {} \/ MayBeInBackoff(t) \/ Exhausted(t)]_vars
============================================================================
