# Avion: specifications and proofs

Avion runs a company of software agents: a CEO states an outcome in a chat, a
planner drafts a plan, its tasks are carried out by coding agents, and every
task passes a review gate and a QA gate before it is done. The state lives in
one Postgres database that several processes read and write: the web
application (server actions, `after()` callbacks), the driver (`worker/driver.ts`),
the executor worker with its pool (`worker/index.ts`) and the preview service.
Nearly every step is a read, a decision in TypeScript and an unguarded write
later on. This directory models the parts in which the order of those steps
matters, and the pure functions whose results decide what happens next. Paths
below are relative to `src/apps/web/src` unless they start with `docs`, which is
`src/docs`, or with `scripts`, which is `src/apps/web/scripts`.

`PROJECT.json` lists every component, also those left out, the source lines each
definition translates, the hazards with the line at which each bites, the runs,
one mutant of the code per property, and the theorems.

## The system's parts

| Part | State | Operations | What makes it right |
|---|---|---|---|
| Execution sessions (`lib/execution-session-service.ts`) | `ExecutionSession` rows | create, prepare, cancel, ingest, reap | one live session per task; a recorded result stands |
| Auto-execution (`lib/auto-execution-service.ts`) | none of its own | pick a task, prepare it, count its failures | every ready task is prepared; the retry budget bounds the attempts |
| Executor worker (`worker/index.ts`, `session-claimer.ts`, `repo-manager.ts`) | claimed session, checkout, branch | claim, preflight, run the agent, validate, guard, push, open the PR, ingest, release | an agent runs once per session; what is pushed stays; no protected change that git lists by its own path is pushed |
| Gates (`lib/gate-advancement-service.ts`, `review-service.ts`, `qa-service.ts`) | `Review`, `QAResult`, `ChangeRequest`, `Task.status` | open a review, record a verdict, open QA, record a verdict, send back | done means reviewed, verified and final; rework is never lost |
| CEO's decisions (`app/actions/quality.ts`, `lib/approval-checkpoints.ts`, `app/actions/work.ts`, the task and quality pages) | the same rows | verdicts, checkpoints, checklists, the status menu | no click gets round the gates; a page offers what is so |
| Pull-request feedback, steering (`lib/pr-feedback-ingestion-service.ts`, `mid-flight-steering.ts`) | change requests, PR state | poll, open a change request, merge | a request is opened once and ends in a new implementation; a merge is seen by every row |
| Driver (`lib/execution-driver-service.ts`) | none | reap, poll, apply plans, enqueue, advance gates, learn | the concurrency limit; no task starves |
| Worker pool, lock, supervision (`worker/worker-pool.ts`, `single-instance-lock.ts`, `scripts/supervise.mjs`) | slots, advisory lock, heartbeat | claim, drain, restart | at most the configured agents; one process per role at work |
| Plans and outcomes (`lib/planning-draft-service.ts`, `plan-application-service.ts`, `outcome-completion-service.ts`) | `PlanningDraft`, `Outcome`, feature status | generate, approve, reject, apply, complete | only an approved plan makes work; an outcome completes when its tasks have |
| Planner (`lib/planning-generator.ts`, `lib/planning`) | none | generate, validate, fall back | every plan of its own can be worked off to its end |
| Releases (`app/actions/releases.ts`, `lib/release-candidate-service.ts`) | `Release`, checklist, task list | candidate, checklist, release, archive | nothing unfinished ships |
| Spend (`lib/execution-spend-guard.ts`, `agent-usage-service.ts`) | usage ledger | record, halt | the overshoot is bounded |
| Previews (`lib/preview`, `worker/preview-service.ts`) | `PreviewSession` rows, dev servers | request, start, stop, restart, reap | no more servers than allowed; a stop is honoured |
| Log streaming (`worker/session-log-streamer.ts`, `lib/agent-stream`) | buffer, log chunks, cursor | write, flush, tail, resume | nothing stored is skipped |
| Notifications (`lib/notify.ts`, `components/notifications`) | `Notification` rows, a tab's badge | notify, read, tail, reconnect | the badge ends up true |
| Repositories (`lib/repository-analyzer.ts`, `repository-snapshot-comparison.ts`, `repository-impact-analysis.ts`) | repository row, snapshots | analyze, store, compare | of two checkouts the report says what changed |
| Chat (`app/actions/chat.ts`, `lib/chat-followup-service.ts`) | messages, conversation, outcome brief | first message, note, steer, answer | a message is answered once and reaches those it is for |
| Home page, health (`lib/next-action-recommendation.ts`, `control-center-view-model.ts`, `company-health-service.ts`) | none; a snapshot a day | recommend, list, count | what stands still is seen; health says what is so |
| Onboarding, connections, memory (`app/(auth)/onboarding`, `lib/oauth`, `lib/memory`) | company, connections, memory records | found, connect, import, learn, recall | a founder's company is founded once; a token is tried as what it is; a lesson is kept once |
| Desktop shell, API service | | | the shell starts the same processes; the service proxies a Linear board; not modelled |

They interact through rows only: a session that completes puts its task in
review; the driver's gate run acts on tasks in review; a failing verdict opens a
change request, which makes the task selectable again; the last finished task
completes the outcome, which can then be released. What is hard about it is what the
rows do between a read and the write it leads to (several processes), after a
crash between two writes, and in pages that were read a while ago.

## The modules

Each module's actions follow the code's operations; a database call, or a
transaction, is one action, so everything between two calls can interleave.
Processes that the code runs several of are parameters, their positions and
locals functions of the process.

### The core

**ExecutionSession**: the life of the sessions of some tasks. A row's variables are
`status`, `taskOf` and `taskStatus`; `prepAt`, `prepTask`, `prepSess` are what a
preparer holds, `jobAt`, `jobSess`, `jobSeen`, `jobVerdict` those that run or ingest.

| Code | Actions |
|---|---|
| `autoPrepareNextExecutionSession`, `prepareExecutionSessionForTask` | `SelectTask`, `FindLiveSession`, `AssessAttempt`, `CreateExecutionSession`, `PrepareRead`, `PrepareWrite` |
| `generateTaskBrief` (the CEO's button) | `RequestExecution`, then the same |
| `claimNextSession` | `FindPrepared`, `ClaimNextSession` |
| `processSession` | `FailPreflight`, `HaltForSpend`, `LaunchAgent`, `FinishAgent`, `AbortAgent`, `Throw`, `ReleaseSession` |
| `ingestAgentExecutionResult`, the result form | `SubmitForm`, `IngestRead`, `IngestCommit`, `MarkTask`, `MarkTaskFails` |
| `reapStaleRunningSessions` | `ReapStaleSession` |
| `cancelExecutionSession` (no caller yet) | `CancelRead`, `CancelWrite` |
| `updateTaskStatus`, the gates | `UpdateTaskStatus`, `PassGate`: what else moves a task |

Time is abstract: the reaper may strike a running session whose worker is gone,
or, with the fault `"overrun"`, one whose worker is still busy:
`staleSessionTimeoutSeconds` adds a grace for validation to the agent's timeout, but
the validation phase is the sum of its commands' timeouts. **SessionContract** is
what the sessions promise to everybody else, in five actions; **SessionRefinement**
is the mapping under which ExecutionSession implements it.

**DeliveryGates**: one task between implementation and done. Reviews and QA results
are numbered by creation; `reviewAt` counts the implementations completed when a review
was last written. `Evidence` is what the checks of an implementation show (`"none"`: no
commands, or they could not run). The session is an abstraction of ExecutionSession: one
at a time, which is what `AtMostOneLiveSession` provides, and the commit and the task's
write kept apart.

| Code | Actions |
|---|---|
| `advanceTaskGates` | `BeginGates`, `ReadSession`, `ReadLatestReview`, `OpenReview`, `FindQa`, `OpenMissingQa`, `AttachChecklist`, `RecordChecks` |
| `recordReviewResult` | `ReadReview`, `WriteReview`, `ResolveChangeRequests`, `HoldInReview`, `OpenQa`, `RequestChanges`, `SendBack`, `BlockTask` |
| `recordQaResult` | `ReadQa`, `FindApproval`, `WriteQa`, `FinishTask`, `CloseRework`, `FindReviewed`, `OpenRework`, `ReopenTask`, `BlockTask` |
| PR feedback, steering | `PollFeedback`, `Steer`, `OpenOutsideReview` |
| the CEO's actions | `SubmitReviewVerdict`, `SubmitQaVerdict`, `ApproveQaCheckpoint`, `TickChecks`, `RequestReview`, `SubmitChecks`, `GenerateChecklist`, `FindPendingQa`, `OpenChecklist`, `UpdateTaskStatus`, `AskDone`, `WriteDone`, `PrepareExecution` |
| retry budget and sessions, coarse | `StartWork`, `BlockExhaustedTask`, `CompleteSession`, `FailSession`, `MarkTask` |

**OutcomeLifecycle**: one outcome from request to completion. A draft is a version
with a status, a plan (a set of items that become executable tasks) and whether its
approval and rejection dates are set. Every service reads, decides, and writes by id in a
transaction that checks nothing again, so read and write are two steps, and a generation
may be as long as it likes between them. `planner`, `hand` and `finisher` say where a
generation, a plan operation and an evaluation are.

| Code | Actions |
|---|---|
| `generatePlanningDraftForOutcome`, `handleConversationFollowUp` | `AskForPlan`, `MarkPlanning`, `FollowUp` |
| `createOrUpdatePlanningDraftForOutcome` | `ReadLatestDraft`, `PersistPlan`, `PersistFailure`, `LosePlanner` |
| `autoApplyPendingPlansForCompany` | `SweepPlans`, then the next three rows |
| `approvePlanningDraft` | `Click`, `ReadForApproval`, `WriteApproval` |
| `applyApprovedPlan` | `Click`, `ReadForWork`, `CreateWork` |
| `rejectPlanningDraft` | `Click`, `ReadForRejection`, `WriteRejection` |
| `markOutcomeReleased` | `ReadForRelease`, `WriteRelease` |
| settling a task | `FinishTask`, `BlockTask`; without evaluation `MoveTask` |
| `evaluateOutcomeCompletionForTask` | `ReadOutcome`, `ReadTasks`, `WriteOutcome`, `LoseEvaluation` |

**TaskSelection** is the pure function that picks the next task (dependencies,
sequence gates, rework first, priority, age); **Dispatch** composes it with
SessionContract's sessions, the driver's tick (`BeginTick`, `EnqueueNext`, the gates),
the CEO's "Prepare execution", the pool's slots (`SlotStep`: claim, spend check, run,
record) and the usage ledger.

### The processes around it

| Module | Code | What is modelled |
|---|---|---|
| `Supervision` | `scripts/supervise.mjs`, `worker/heartbeat.ts`, `worker/single-instance-lock.ts` | a supervised process and a stray one: boot, lock, loop, hang, crash, SIGTERM, drain, SIGKILL, restart with backoff. The lock's connection has no error handler, so its loss kills the process: a crash |
| `Preview` | `app/actions/preview.ts`, `lib/preview` | the row and its two buttons, the engine's claims against the limit, a server's start, restarts, exit and lifetime, the engine's own end and return |
| `AgentJob`, `WorkerPolicy` | `worker/index.ts` (`processSession`), `repo-manager.ts`, `lib/worker-permissions.ts`, `repository-guardrails.ts`, `check-command-profile.ts`, `autonomy-policy.ts` | the jobs on one task, each on a checkout of the task's branch, also one that was given up as stale and still works; which commands a level permits |
| `LogStream` | `worker/session-log-streamer.ts`, the stream route, `lib/agent-stream/use-session-stream.ts` | buffer, batches under way, stored events, the tail and its cursor, lost links, failed reads and writes |
| `LiveChannel` | `lib/notify.ts`, `app/api/work/live/stream`, `live-notifications-provider.tsx` | the rows, the stream of the newest, the badge of a tab that is hidden and shown |
| `PullRequests` | `lib/github-pull-request.ts`, `github-pr-feedback.ts`, `pr-feedback-ingestion-service.ts` | the branch of one task over several attempts, what GitHub says of it, the poll of each row, rework, escalation, merge |

**MCProcesses** chooses one of the six in the initial state and leaves the others
at rest: six independent models in one run.

### What the services record

| Module | Code | What is modelled |
|---|---|---|
| `PlanGeneration` | `lib/planning-generator.ts`, `lib/planning`, `plan-application-service.ts` | the deterministic generator as a function of what it finds in a request, the checks on a model's plan, the fallback, the rows of a plan, worked off in TaskSelection's order |
| `Releases` | `app/actions/releases.ts`, `lib/release-readiness.ts`, `release-candidate-service.ts` | candidates, checklist, readiness and release from two tabs |
| `RepositoryAnalysis`, `Repositories` | `lib/repository-analyzer.ts`, `repository-snapshot-comparison.ts`, `repository-impact-analysis.ts`, `repository-analysis-runner.ts` | the facts of a checkout, the comparison of two, its impact; overlapping analyses, failures and restarts |
| `Conversation` | `app/actions/chat.ts`, `lib/chat-followup-service.ts`, `mid-flight-steering.ts`, `lib/chat` | what becomes of each message, from two tabs, with deferred generation and drafting |
| `Overview` | `lib/next-action-recommendation.ts`, `control-center-view-model.ts`, `approval-checkpoints.ts`, `stuck-work-detector.ts`, `work-lifecycle.ts`, `live-pipeline-data.ts` | what the home page says of a request, day by day, also when ten others were updated since |
| `CompanyHealth` | `lib/company-health-*.ts` | the daily snapshot, each of its counts a query of its own |
| `Founding` | `app/(auth)/onboarding`, `lib/company-seed.ts`, the wizard and settings pages | two founders with several tabs |
| `Connections` | `lib/oauth`, `lib/provider-connection-service.ts`, `app/api/integrations`, `app/actions/integration-resources.ts` | OAuth flows of two tabs, manual tokens, revocation, imports, the renewal of a Linear token (`loadLinearProjects`, which no page calls yet) |
| `CompanyMemory` | `lib/memory` | lessons of a tick, promotion of recurring findings, recall, and a record of the CEO's that names the source of a lesson |
| `TaskDesk` | `app/(app)/work/tasks/[id]`, `work/quality`, `lib/implementation-brief.ts`, `review-brief.ts`, `repository-task-context.ts` | what the pages showed when they were read and what their forms do later; a verdict on a review is recorded write by write, beside another one, and may break off between any two |

**MCRecords** chooses one of them per behaviour. **MCDelivery** runs OutcomeLifecycle and
DeliveryGates side by side without clicks; **MCExecutionSession**, **MCDeliveryGates**,
**MCOutcomeLifecycle** and **MCDispatch** are the instances of the core.

## The runs

Each run takes at most a few minutes with two workers. The bounds are the
smallest at which every action fires and at which each property's mutant is
caught; wider ones are a matter of patience.

| Run | Module | Bounds | What it shows |
|---|---|---|---|
| `Sessions` | MCExecutionSession | 1 task, 3 sessions, a driver and a request that prepare, 2 workers (symmetric), all faults, 1 crash | at most one live session; a committed result stands; the sessions keep SessionContract |
| `SessionsRequests` | MCExecutionSession, fair | 1 session, a form, a cancellation, a worker that dies, writes that fail | one launch per session; every prepared session ends |
| `Gates` | MCDeliveryGates | driver: 5 attempts, reviews and QAs, 2 feedbacks, 1 retry, 1 crash, evidence pass, fail or none. Desk: 1 attempt, 1 review, 2 QAs, nine kinds of click, one at a time, no crash | done is verified; what was sent back is selectable and addressed; retries stop; no click gets round the evidence |
| `OutcomePlans` | MCOutcomeLifecycle | 2 planners, a driver, a request, a finisher, 1 item, 2 versions, every click, 2 asks, 1 move, 1 crash | no work without an approval; no further version without a rejection |
| `Delivery` | MCDelivery, fair | plans: 3 items, 2 finishers, a planner and a driver that crash once. Gates: 4 attempts, 1 retry, 1 feedback | the plan becomes work; the outcome completes when, and only when, nothing is left; a task in review moves on |
| `Dispatch` | MCDispatch, fair | a plan of an analysis, a task to start and one at the gates; 2 slots, limit 1, 1 retry, 4 sessions, cost 2, ceiling 2, 1 event from outside | overshoot of one batch; the driver's limit; no task starves |
| `Processes` | MCProcesses, fair | worker and driver with a stray each; 2 previews, 1 server, 1 restart; 2 jobs with an edit each in 6 setups of repository and permission; 4 log events, pages of 2; 3 notifications, 2 shown; 2 attempts and a moving base | nine properties of six models, see below |
| `Records` | MCRecords | two tabs or processes each, at most 3 turns, clicks or moments; one record by hand; one middleware the analysis knows by name and an auth file it does not | ten properties of ten models, see below |
| `F_HeadOfLine`, `F_RedMerged`, `F_DocsHide`, `F_NoteLost` | | as small as shows it | what documents say and the code does not do, see *Disagreements* |

`Gates` has two lives, told apart in the initial state: the driver with everything that
happens to it, or the CEO alone with every page. They are apart because together
their properties fail (see *Disagreements*). The task of the `Sessions` run is one because
sessions of different tasks share nothing but the workers; three sessions are one
that is reaped, one that races with its late result, and one more. The five attempts of
`Gates` are the two of the retry budget, two for red pull requests and one that must not
happen. Two versions of a plan
are the least at which a late generation can pass an approval; three items are one
that blocks, one that depends on it and one that is free. The four sessions of
`Dispatch` are an attempt and a retry for each of its two tasks.

The parts of `Processes`:

- `OneAtWork`, `HungReplaced` (Supervision): one process of a role works; a hung one is
  replaced in the end.
- `CapacityKept`, `StopHonoured` (Preview): no more servers than allowed, across the
  engine's death; a stop is honoured.
- `DeliveredSoundly`, `JobEnds` (AgentJob): what was pushed stays and is recorded, no protected
  change that git lists by its own path is pushed, an audit trail says "blocked" only of a push
  that was; a job ends. A protected file that `git status --porcelain` hides is a change of its
  own kind in the model, and does get pushed (see *Disagreements*).
- `NothingSkipped` (LogStream), `BadgeCatchesUp` (LiveChannel), `MergeObserved` (PullRequests).

The parts of `Records`:

- `PlanRunsThrough` (PlanGeneration): a plan of the deterministic generator can be worked off,
  in TaskSelection's order. A model's plan is validated but not shown to be: it may name an item
  that does not exist, or a cycle.
- `ShippedByTheBook` (Releases): nothing is deployed that has not had every item of its stored
  checklist ticked. Which items those are is up to the client, so that items may be dropped.
- `ChangesReported` (Repositories): what differs between two checkouts is in the comparison of
  their snapshots; a dropped model, a known access rule that came or went, or one rewritten that
  was hashed both times, is of the highest impact. It is true of the pair that was compared,
  whatever the order of the two.
- `ThreadKept` (Conversation): a message is the goal of a request or on its brief; an answer
  says, in the wordings the guard knows, only what a row says, and promises a change only of
  work that there is.
- `StandstillSeen` (Overview): a request that stands still is pointed at, but for planning that
  failed once ten others were updated.
- `HealthHonest`, `FoundedOnce`, `ConnectionsHonest`.
- `LessonsKept` (CompanyMemory): the driver learns each lesson once and forgets none, unless the
  CEO has a record with that lesson's source.
- `DeskTruthful` (TaskDesk): the time on task is the time an attempt was running, whichever way
  the page adds it up, and no page shows more than was worked.

### Fairness

Only the runs with a property of the form "eventually" use it.

- Sessions: the driver prepares again every tick, a worker that is up polls and goes on:
  weak fairness of each. Nothing is assumed of forms, cancellations, crashes and faults.
- Dispatch: weak fairness of the driver's steps, the slots and the reaper; **strong** fairness of
  `EnqueueNext`, because a backoff after a failure disables it now and then
  (`auto-execution-service.ts`: the delay ends by itself).
- Delivery: weak fairness of the driver's tick and of a request that was begun, not of a
  crash. Fairness cannot be given to the clicks; the run has none beyond the request that
  starts it.
- Supervision: strong fairness of boot and heartbeat (each may be cut short by a crash, a
  bounded number of times), weak fairness of the supervisor's timers. AgentJob: weak fairness of
  the steps and of the timeout, and of the exit after it, which assumes that an agent
  heeds SIGTERM and that its pipes close. Preview: weak fairness of the engine's loop and of
  the exit of a server that was told to stop. LogStream: of flush, append, connect
  and tail. LiveChannel: of the route's tick and of reconnecting. PullRequests: of the poll.

## What is proved

Every theorem is checked by TLAPS, for every value of the constants that its module's
named assumptions allow. The hypotheses are in the theorem's text.

| Theorem | Module | States | Hypotheses |
|---|---|---|---|
| `TypeCorrect` | ExecutionSessionProofs | types of rows and locals | |
| `AgentRunsAtMostOnce` | " | `AgentRunsOnce` | |
| `OneLiveSession` | " | `AtMostOneLiveSession` | no cancellations |
| `ResultsStand` | " | `ResultStands` | workers alone ingest |
| `FailedStaysFailed` | " | a failed session stays failed | the same |
| `KeepsContract` | SessionRefinementProofs | `ContractKept`: ExecutionSession implements SessionContract | no cancellations |
| `WorkApproved` | OutcomeLifecycleProofs | `WorkIsApproved` | |
| `VersionsFollowRejections` | " | `NextVersionAfterRejection` | |
| `CompletedHasNoneOpen` | " | `CompletedHasNoOpenWork` | `Undisturbed`: one generation at a time, no later message, rejection or moved task |
| `DoneOnlyVerified` | GatesProofs | `DriverVerifies` | `DriverAlone` |
| `SentBackIsSelectable` | " | `DriverSendsBack` | `DriverAlone` |
| `DoneIsLeftAlone` | " | `DriverLeavesDone` | `DriverAlone` |
| `AttemptsStayBounded` | " | `DriverGivesUp` | `DriverAlone` |
| `NoClickAround` | " | `DeskHasEvidence` | `DeskAlone` |
| `QaVerdictsStand` | " | `DeskKeepsVerdicts` | `DeskAlone` |
| `TypeCorrect` | DispatchProofs | types | |
| `SpendStaysBounded` | " | `SpendBounded` | |
| `LimitIsKept` | " | `DriverKeepsLimit` | |
| `NeverTwoAtWork` | ProcessesProofs | `OneAtWork` | |
| `NeverOverCapacity` | " | `CapacityKept` | |
| `JobsDeliverSoundly` | " | `DeliveredSoundly` | |
| `NeverSkips` | " | `NothingSkipped` | |
| `ShipsByTheBook` | RecordsProofs | `ShippedByTheBook` | |
| `CompanyFoundedOnce` | " | `FoundedOnce` | |
| `ConnectionsStayHonest` | " | `ConnectionsHonest` | |
| `HealthStaysHonest` | " | `HealthHonest` | |
| `ThreadStaysKept` | " | `ThreadKept` | |
| `DeskStaysTruthful` | WorkProofs | `DeskTruthful` | |
| `HomeSeesStandstill` | " | `StandstillSeen` | |
| `LessonsStayKept` | " | `LessonsKept` | |
| `ChangesAreReported` | " | `ChangesReported` | |
| `PlansRunThrough` | " | `PlanRunsThrough` | |

Two more statements are proved under a hypothesis that the code does not justify, and are not
counted among the results: `OneAgentAtATime` (ExecutionSessionProofs; no two agents on one task at
a time, if no worker outlives the grace of its session) and `RequestsAreAddressed` (GatesProofs;
`DriverAddresses`, if the driver crashes at most once). They say where the two properties end: the
grace does not cover the sum of the validation timeouts, and after two crashes - behind
`OpenRework`, and again behind `OpenOutsideReview` - the gate run approves the review that the
feedback left pending and resolves a request dated by the very implementation it is about.

The hypotheses are where the property ends in the code, each found by a run:

- **No cancellations**: `prepareExecutionSession` revives a session that was cancelled after
  its read.
- **Workers alone ingest**: a result form records on whatever it read.
- **Undisturbed**: a second generation that was under way when the plan was applied may
  overwrite what completion counted.
- **DriverAlone, DeskAlone**: a verdict from the page between a gate run's read and write
  replaces what the gate run has read, and the other way round.

### The inductive invariants

- *Sessions*: who owns which row at which step. The preparer that created a session
  owns it until it is prepared, and nobody has claimed it; one worker slot holds a
  running session, and only the slot that has not launched its agent yet may. The
  transaction that creates a session sees no other live one of the task, and the reaper's and
  the ingestion's updates are conditional on `running`.
- *Contract*: what an ingestion has read as prepared or running has its brief behind it;
  with that each action is a step of the contract or a stutter.
- *Plans*: neither `approvedAt` nor `rejectedAt` is ever cleared, so that what an operation
  has read of them still holds when it writes, however late. For completion: one version,
  no plan read for writing while one is generated, a whole plan has its rows, and
  "completed" means that every row it counted is settled.
- *Driver's gates*: while a call is at the gates the task is in review and nothing is being
  implemented; what the call saw is the latest implementation; behind an approval
  the review it read is approved; a passed verdict means the checks passed. A change
  request dated by the implementation under review is the latest review's, or that
  implementation failed its QA.
- *Retry budget*: every attempt is paid for, by the failure it ends in, by the QA result that
  passes it, or by the red pull request that asks for it. The failure is recorded after the
  attempt and the attempt starts after the pull request was counted, so the invariant adds
  what is outstanding: one attempt while work runs or waits for its verdict, one while a call
  carries a pull request's change request. It also says that a call never decides a QA result
  older than one that passed, so that a failure always counts.
- *Desk*: one request at a time; the evidence only grows.
- *Dispatch*: what the driver counted is at least the number of its own sessions under way; a
  claimed session was within the ceiling when it was claimed, so that one batch
  bounds the overshoot.
- *Log*: stored, under way and buffered are three ranges one after the other; the cursor
  stands at a stored event.
- *Supervision, previews, jobs*: whoever works holds the lock. What is taken up (read,
  claimed, starting, registered) stays within the limit, and a recorded server is
  registered or found again when the engine starts. The branch only grows; pushed
  implies that the guard passed on what git listed; the records follow the push; an audit log says
  "blocked" only of a push that was.
- *Releases*: what a tab read stays true because deployed, released and ticked are never
  taken back. *Founding*: an open transaction holds the company's slug, so no founder has two
  of them; nobody of that founder has committed; its role rows exist or are its own; a form
  holds "autonomous" only once it was chosen.
- *Connections*: each position of a tab carries what it has read (a token of the row's provider,
  the records it has seen, the repositories it has marked) in a form that later writes leave
  true, as tokens and records are only added.
- *Health*: what a capture counted before it looks again bounds what it finds then, unless a
  task was moved back meanwhile, which its row says; moments and days are in the same order.
- *Conversation*: a request loses neither its goal, nor its brief, nor an approval it had, nor
  the plan its task came from. A tab that holds the conversation has read the brief as
  it still is. No two messages share a job, and a message that is being sent has none yet, so
  that whatever shows as being planned keeps the job that is planning it unless one died.
- *Task desk*: every attempt but the last has ended, and what the page adds up is the sum of the
  attempts' spans. The sum is a recursive function; that two sums which agree term by term are
  equal follows from a least counterexample, which needs no induction scheme.
- *Home page*: nothing is dated later than the last step, a task exists exactly when
  the plan was applied, and a task is back in progress only after a change request or a
  failed QA, so that whichever way everybody comes to rest leaves its mark where the page
  looks. That nobody can go on is said by the guards (`DriverMay`, `WorkerMay`), because
  ENABLED is out of the provers' reach; TLC found them to agree with it.
- *Memory*: the bag of records is finite, the driver's own records are there once and once per
  source, what the driver has in hand it has not written yet, and what a tick found due has a
  record of its source, is in hand or still to do; a record of the CEO's may carry such a source
  and is told from the driver's by its author. Rows are counted as pairs of a record and its
  number, which makes counting monotone.
- *Repositories*: a snapshot is of some checkout, over the twelve paths the model names. The rest
  is a fact about any two such checkouts: which lists each path enters, and what the
  impact rules make of them.
- *Plans of the generator*: both sets of blueprints number their tasks apart and let none wait
  for a later one, which the proof reads off their tables; a request's hints change
  none of that. From there on it is about any such plan: rows and implementation tasks
  correspond one to one, whatever is no longer to do had its dependencies done, and TaskSelection
  takes a ready row whenever there is one (least rank, then least number), whatever the number of
  tasks.

Each module's named assumptions say what a constant is: `PlanAssumption`, say, that "no task" is
no number and "no item" no item of a plan, `OverviewAssumption` that thresholds are numbers of days.

### What TLC alone checks

- Liveness, which needs fairness: `PreparedSessionEnds`, `PlanApplied`, `DeliveryConcludes`,
  `ReviewAdvances`, `EveryTaskGetsItsTurn`, `HungReplaced`, `StopHonoured`, `JobEnds`, `BadgeCatchesUp`,
  `MergeObserved`.

`DriverAddresses`, which is proved for one crash only, is not counted as proved. Every other
property that a run expects to hold is stated by a theorem above. Where the theorem
has a hypothesis, what it excludes is left to the run.

## Disagreements between code and documents

Four runs state what a document or a comment says and violate it:

- `F_HeadOfLine`: the enqueue loop selects the task it has just prepared again, finds its
  session and stops; the limit and the slots stay unused
  (`execution-driver-service.ts:160` against `:7`).
- `F_RedMerged`: the poll asks for the checks of the row's own commit and merges the pull
  request as it stands (`pr-feedback-ingestion-service.ts:160` against `:187`).
- `F_DocsHide`: a rewritten middleware beside a new document counts as documentation only
  (`repository-impact-analysis.ts:420`).
- `F_NoteLost`: a second note during a rework is neither a change request nor in any
  brief (`mid-flight-steering.ts:73` against `:47`). Every generation, moreover, overwrites
  `Outcome.constraints` with the plan's open questions (`planning-draft-service.ts:456`), so that
  the notes a template answer says "will reach execution and rework briefs" survive in
  `Outcome.brief` alone, which no brief reads.

Others show with other constants, or were met while modelling.

Sessions and gates:

- A completed session and its task are written separately; in between the driver prepares
  the task again. A crash between the QA verdict and the task's write leaves it in
  review for good, and gate runs report it complete.
- A change request that was read before the gate run approved the same review
  replaces the approval after QA has passed: done without an approved review.
- With `Forms = {f1}`: a form that read the session while it was prepared records its result
  after the session has run and failed; a worker whose ingestion lost turns `completed` into
  `failed` (`worker/session-claimer.ts:49`).
- With `Requests = {r1}, Cancelers = {c1}`: `prepareExecutionSession` revives a session cancelled
  after its read.
- A failing verdict on another QA result reopens a done task (`qa-service.ts:321`), where
  `docs/architecture/STATE_MACHINES.md:125` says `done` is terminal; of two verdicts in flight the
  later one rewrites a terminal result (`STATE_MACHINES.md:360`). A failing QA sets a done or
  cancelled task in progress, and the status menu leaves `done` too.
- A verdict on a review reads it first and writes it last (`review-service.ts:70`, `:156`): one
  that read it before it was approved writes over the approval. The form swallows whatever fails
  (`app/actions/quality.ts:106`), also between the writes of review, change requests, task and QA,
  so that a verdict may be lost, or half recorded, without a word.
- An approval also resolves a request that came after the approved work
  (`review-service.ts:104`); findings without a blocker open no change request (`:168`).
- A queued session left by a preparer that crashed stalls its task; nothing reaps it.
- "Shutdown never abandons a running agent" (`worker/worker-pool.ts:44`), yet the
  signal's handler removes the checkouts and calls `process.exit(0)` itself (`worker/index.ts:127`).
- The CEO cannot pass a QA that is held from its page, only from the checkpoint.

Plans and outcomes:

- A follow-up, or a second click on "generate", that found the plan pending replaces it and
  its status after it was approved.
- An evaluation that read the tasks before one was unblocked writes `blocked` over
  `completed`; a task that is cancelled in the menu completes nothing; an outcome that
  is released meanwhile is set back (`outcome-completion-service.ts:24` says terminal
  statuses are never overwritten).
- `chat-followup-service.ts:264` says rejected drafts are planned again at the next version, but
  a rejection makes the outcome terminal; `app/actions/chat.ts:196` says a tick recovers a
  request stuck in "planning", but the sweep only handles drafts that exist
  (`plan-application-service.ts:557`).
- Two tabs with a first message each start two requests; of overlapping generations
  the older one may finish last and drop the newer note; a conversation deleted
  between a note and its answer defers nothing; "routed into the task" is said before the
  change request is opened, which may come to nothing. A run that is approved after a
  steer resolves it unheard.

Spend, autonomy and permissions:

- A run that is released without a result records no cost, so that the real spend can
  exceed the "one batch" of `execution-spend-guard.ts:11`; Codex sessions record none at all.
- Of the dispositions only those for creating sessions, auto-review, auto-QA, auto-merge and
  applying a plan are consulted.
- An ingestion that throws after the push leaves a trail without the push, where
  `worker-audit-log.ts` says there is no silent gap; the log is stored in
  `validationOutput`, though its own comment asks for a field. Python checks are permitted at
  no level; `pnpm` and `yarn install` are denied at "assist".

Pushes and releases:

- `getChangedFiles` is to name "every file the push would carry" (`worker/repo-manager.ts:527`). Of
  the working tree it takes the lines of `git status --porcelain`: a directory that is not
  tracked yet is one line, without its files; a name with unusual characters is in quotes; a
  rename is its new path alone, in the committed half too. The patterns of
  `repository-guardrails.ts` do not match such a line, and `git add -A` takes the file along.
- Where a repository has no lockfile the worker runs `npm install`
  (`worker/dependency-installer.ts:66`), which writes `package-lock.json`, a protected file: such
  a push is refused, whatever the agent did.
- `updateReleaseChecklist` stores whatever list the client sends (`app/actions/releases.ts:98`), so
  items can be dropped before all that is left is ticked.
- The age at which the supervisor takes a worker for hung (3600 s, `scripts/supervise.mjs:60`) can be
  exceeded by one at work: the agent's 1800 s, 600 s for the install and the checks' timeouts add
  up to more. It is then killed (`GoesStale` of a loop that is not hung).

Repositories:

- `docs/architecture/REPOSITORY_IMPACT_ANALYSIS.md:157` makes middleware, proxy and auth files
  critical, and `:110` their coming and going. `isAuthFile`
  (`repository-impact-analysis.ts:102`) looks among the important files, of which the analyzer
  knows only `middleware.ts` and `proxy.ts` by name, at the root or under `src`
  (`repository-analyzer.ts:1215`): an `auth.ts`, an `auth.config.*` or a nested middleware comes
  and goes with at most a medium impact. `ChangesReported` claims no more.
- `.config.*` files are "source" against the comment at `repository-analyzer.ts:75`;
  `schema.prisma` is never hashed; a root `app/layout.tsx` is not an important file; the risk "no
  package manager" cannot occur; an added CI script yields no impact.
- A session's `baseBranch` is never written, so no rework "reuses the prior session's base"; the
  brief and the page say "master" where the worker takes the repository's default.
- `importRepository` is "idempotent" (`integration-resources.ts:166`) only one call at a time; the
  form that adds a repository has no "url-based dedupe" (`repository-write.ts:7`).

Pages:

- The home page shows the ten requests updated last (`app/(app)/control-center/page.tsx:59`), so
  an older one whose planning has failed can wait while it says "All clear"; failed counts are of
  all time; a prepared session of a dead worker never counts as stuck; a merged pull request shows
  the stage "done" while its task is in review; `work-lifecycle.ts` says the gate handles a
  finished review that awaits QA, untrue without evidence. "Done" and "merged" within seven days
  go by `updatedAt`.
- The page offers "Generate brief" on a running task, a rework after a failed session is told
  there is no pull request while the page shows one, a review brief is made for a failed attempt
  too; a review that requested changes can be decided
  again. The review brief says its form is on the task page; it is on the quality page.
- A log of several pages, opened once its session is over, is cut: the route sends `done`
  only behind the last page (stream route, `:164`), but its first page already carries the
  terminal status, at which the client stops (`lib/agent-stream/use-session-stream.ts:139`).
- Notifications about repositories, whose `entityId` is null, collapse into one.

Onboarding, connections, memory:

- The default "assist" of `onboarding-state.ts` and that of the page are two; run mode and
  execution settings live in `localStorage`; the wizard loses its choices; the settings page
  sends a founder without a company to the sign-in.
- Two first connects make two rows (`provider-connection-service.ts:105` says it is enforced
  there); a stale tab's failure clears the nonce of the newer flow; a manual token has no
  scopes; worker and preview use a connection's token whatever its status.
- A record the CEO adds may carry any source (`app/actions/memory.ts:28`, `:110`); one with the source
  of a lesson makes the driver take that lesson for learned, so that the CEO's text stands for it.
- Categories of memory banks that the CEO made are not recalled; a finding repeated within
  one review counts several times; the count in a promoted standard's text never changes.

## The plan

Done, in this order: ExecutionSession with its proofs and its contract; OutcomeLifecycle;
DeliveryGates; Dispatch with the pool and the ledger; the processes; the records; the proofs in the
table above. `Gates` and `Delivery` are the composition of the session's abstraction with the gates,
and of the gates with the outcome.

Next:

1. A refinement of the gates: an abstract task (implemented, reviewed, verified, done)
   that DeliveryGates implements for the driver alone.

## Not modelled

- **Desktop shell** starts the same processes; **API service** is a proxy for a Linear board.
- Prompts, titles, attachments, wording and layout; what an agent writes is an input.
- The internals of git, GitHub, OAuth providers and Postgres beyond what the code relies on
  (transactions at the default level, unique indexes, advisory locks).
- Rendering: pages are modelled where what they have read decides what is done later.
- `worker-capability-registry.ts`: nothing calls it.
- How the chat's guard recognises a claim: it knows some wordings by regular expression
  (`lib/chat/chat-reply-grounding.ts:38`) and misses others; the model's answers use those it knows.
- A worker that is ending is not counted as at work (`AtWork`), as it claims nothing any more, and
  the child the supervisor watches is taken for the holder of the lock.
- Time is abstract: timeouts may strike whenever the code's condition can hold, and days are
  counted only where the code compares dates.
