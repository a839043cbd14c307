----------------------------- MODULE Conversation -----------------------------
(***************************************************************************)
(* One chat conversation and the requests it starts: what becomes of what  *)
(* the CEO says.  A first message starts a request (app/actions/chat.ts);  *)
(* a later one is a note on the request that is active                     *)
(* (chat-followup-service.ts): it goes into the brief of the outcome, is   *)
(* answered, and then planned again or, once work is under way, opened as  *)
(* a change request (mid-flight-steering.ts).  An agent is told of it by   *)
(* the brief of its session (implementation-brief.ts) and by nothing else. *)
(* Planning, delivery and completion are coarse: OutcomeLifecycle and      *)
(* DeliveryGates are about those.  A message is its number.                *)
(***************************************************************************)
EXTENDS Naturals, Sequences, SequencesExt, FiniteSetsExt

CONSTANTS
    ChatTabs,      (* places the CEO sends from                             *)
    NoTab,         (* nobody writes in a transaction                        *)
    Provider,      (* EOS_CHAT_PROVIDER: "deterministic" or "ai"            *)
    MaxTurns,      (* bound: messages, submitted requests, statuses set by  *)
                   (* the CEO and deferred jobs that die, taken together    *)
    MaxVersions    (* bound: versions of a plan                             *)

VARIABLES
    thread,        (* the Message rows, oldest first                        *)
    deleted,       (* the Conversation row is gone                          *)
    requests,      (* RuntimeRequest rows with outcome, drafts and task     *)
    sends,         (* what a tab's sendMessage is at                        *)
    lock,          (* who has updated the Conversation row and not commited *)
    jobs,          (* what runs after a response, by the message            *)
    sent, advances, losses

vars == <<thread, deleted, requests, sends, lock, jobs, sent, advances, losses>>

Idle == [at |-> "idle"]
Jobs == 1 .. MaxTurns

MoreToCome == sent + advances + losses < MaxTurns

(* "open" stands for the seven statuses in which a request is not over.    *)
RequestStatuses == {"open", "complete", "cancelled"}
OutcomeStatuses == {"proposed", "planning", "planned", "needs_clarification", "approved",
                    "in_delivery", "completed", "rejected"}
TaskStatuses == {"none", "todo", "in-progress", "in-review", "done"}

TerminalRequest == {"complete", "cancelled"}
TerminalOutcome == {"completed", "rejected"}

NoSession == [live |-> FALSE, brief |-> {}, owed |-> {}]

(* A request with its outcome: `plans` are the drafts, `said` whether an   *)
(* event has called it complete, `newest` the type of the outcome's latest *)
(* planning event, `asked` the change requests that are open, `steered`    *)
(* the notes said to have been routed into the work.  A note is appended   *)
(* to the outcome's constraints as to its brief; planning overwrites them  *)
(* with the plan's open questions and nobody reads them: they are left out.*)
NewRequest(note) ==
    [status |-> "open", outcome |-> "proposed", goal |-> note, brief |-> {},
     plans |-> <<>>, said |-> FALSE, newest |-> "none",
     task |-> "none", objective |-> {}, from |-> 0, asked |-> {}, steered |-> {},
     session |-> NoSession]

Init ==
    /\ thread = <<>> /\ deleted = FALSE /\ requests = <<>>
    /\ sends = [t \in ChatTabs |-> Idle] /\ lock = NoTab
    /\ jobs = [j \in Jobs |-> Idle]
    /\ sent = 0 /\ advances = 0 /\ losses = 0

Said(by, r, note, says) ==
    [by |-> by, request |-> r, note |-> note, says |-> says, promises |-> FALSE]

PlanOf(r) == IF r.plans = <<>> THEN [status |-> "none", notes |-> {}, approvedAt |-> FALSE]
             ELSE Last(r.plans)

---------------------------------------------------------------------------
(* Sending.                                                                *)

Send(t) ==
    /\ sends[t] = Idle /\ MoreToCome /\ ~deleted
    /\ sent' = sent + 1
    /\ sends' = [sends EXCEPT ![t] =
          [at |-> IF thread = <<>> THEN "start" ELSE "resolve", note |-> sent + 1]]
    /\ UNCHANGED <<thread, deleted, requests, lock, jobs, advances, losses>>

(* The request of the latest message that has one, unless it is over.      *)
ActiveRequest ==
    LET linked == {i \in DOMAIN thread : thread[i].request # 0}
        latest == thread[Max(linked)].request
    IN  IF \/ linked = {}
           \/ requests[latest].status \in TerminalRequest
           \/ requests[latest].outcome \in TerminalOutcome
        THEN 0 ELSE latest

Resolve(t) ==
    /\ sends[t].at = "resolve"
    /\ sends' = [sends EXCEPT ![t] =
          IF ActiveRequest = 0 THEN [at |-> "start", note |-> sends[t].note]
          ELSE [at |-> "attach", note |-> sends[t].note, request |-> ActiveRequest]]
    /\ UNCHANGED <<thread, deleted, requests, lock, jobs, sent, advances, losses>>

(* One transaction; without the conversation its first insert fails.       *)
Start(t) ==
    /\ sends[t].at = "start"
    /\ LET r == Len(requests) + 1 IN
       IF deleted
       THEN /\ sends' = [sends EXCEPT ![t] = Idle]
            /\ UNCHANGED <<thread, requests>>
       ELSE /\ thread' = thread \o <<Said("user", 0, sends[t].note, "goal"),
                                     Said("company", r, 0, "received")>>
            /\ requests' = Append(requests, NewRequest(sends[t].note))
            /\ sends' = [sends EXCEPT ![t] =
                  [at |-> "mark", note |-> sends[t].note, request |-> r]]
    /\ UNCHANGED <<deleted, lock, jobs, sent, advances, losses>>

Defer(j, what, r, regenerate) ==
    jobs' = [jobs EXCEPT ![j] = [at |-> what, request |-> r, regenerate |-> regenerate]]

(* The outcome shows as being planned before the planning is deferred.     *)
MarkPlanning(t) ==
    /\ sends[t].at = "mark"
    /\ requests' = [requests EXCEPT ![sends[t].request].outcome = "planning"]
    /\ Defer(sends[t].note, "plan", sends[t].request, FALSE)
    /\ sends' = [sends EXCEPT ![t] = Idle]
    /\ UNCHANGED <<thread, deleted, lock, sent, advances, losses>>

(* Mutated form: the transaction does not touch the conversation first, so *)
(* two of them may read the brief before either has written it.            *)
MayLockAlways == TRUE

(* The update of the conversation waits for any other that has not ended.  *)
MayLock == lock = NoTab

TouchConversation(t) ==
    /\ sends[t].at = "attach"
    /\ IF deleted
       THEN sends' = [sends EXCEPT ![t] = Idle] /\ UNCHANGED lock
       ELSE /\ MayLock
            /\ lock' = t
            /\ sends' = [sends EXCEPT ![t].at = "read"]
    /\ UNCHANGED <<thread, deleted, requests, jobs, sent, advances, losses>>

ReadOutcome(t) ==
    /\ sends[t].at = "read"
    /\ LET r == requests[sends[t].request] IN
       sends' = [sends EXCEPT ![t] =
          [at |-> "commit", note |-> @.note, request |-> @.request, brief |-> r.brief]]
    /\ UNCHANGED <<thread, deleted, requests, lock, jobs, sent, advances, losses>>

(* Appending is by value and leaves out what is there already.             *)
CommitNote(t) ==
    /\ sends[t].at = "commit"
    /\ LET s == sends[t] IN
       /\ requests' = [requests EXCEPT ![s.request].brief = s.brief \cup {s.note}]
       /\ thread' = Append(thread, Said("user", s.request, s.note, "note"))
       /\ sends' = [sends EXCEPT ![t] =
             [at |-> "look", note |-> s.note, request |-> s.request]]
    /\ lock' = NoTab
    /\ UNCHANGED <<deleted, jobs, sent, advances, losses>>

(* An approved plan is not planned again: the note steers the work.        *)
LookAtPlan(t) ==
    /\ sends[t].at = "look"
    /\ sends' = [sends EXCEPT ![t] =
          [at |-> "answer", note |-> @.note, request |-> @.request,
           regenerate |-> PlanOf(requests[@.request]).status \notin {"approved", "applied"}]]
    /\ UNCHANGED <<thread, deleted, requests, lock, jobs, sent, advances, losses>>

(* A task that a note can redirect: under way, or about to be.             *)
Steerable(r) == r.task \in {"in-progress", "in-review", "todo"}

(* What the rows tell as the answer is written.                            *)
ReplyContext(r, regenerate) ==
    [complete |-> r.status = "complete" \/ r.task = "done",
     approved |-> PlanOf(r).status \in {"approved", "applied"},
     steers   |-> ~regenerate /\ Steerable(r),
     open     |-> r.asked # {}]

(* The template's answer: where the plan is, that the note is routed to a  *)
(* task, that open change requests will absorb it.                         *)
FollowUpReply(context) ==
    [says |-> IF context.approved THEN "approved" ELSE "status",
     promises |-> context.steers \/ context.open]

(* A model's answer is used when the patterns find no claim in it that the *)
(* rows deny; otherwise the template's.  The patterns know some wordings:  *)
(* "is shipped" is a claim to them, "we finished it yesterday" is not, and *)
(* passes whatever it says.  Here, too, an answer says "shipped" or        *)
(* "approved" when the patterns match it, and is a "status" when they do   *)
(* not, whatever a reader would take from it.                              *)
Grounded(says, context) ==
    /\ says = "shipped" => context.complete
    /\ says = "approved" => context.approved

Replies(context) ==
    {FollowUpReply(context)}
    \cup {[says |-> says, promises |-> FALSE] :
             says \in {claim \in {"status", "shipped", "approved"} :
                          Provider = "ai" /\ Grounded(claim, context)}}

Answer(t) ==
    /\ sends[t].at = "answer"
    /\ \E reply \in Replies(ReplyContext(requests[sends[t].request], sends[t].regenerate)) :
          sends' = [sends EXCEPT ![t] =
             [at |-> "post", note |-> @.note, request |-> @.request,
              regenerate |-> @.regenerate, reply |-> reply]]
    /\ UNCHANGED <<thread, deleted, requests, lock, jobs, sent, advances, losses>>

(* Nothing is deferred for a note whose answer could not be written.       *)
PostAnswer(t) ==
    /\ sends[t].at = "post"
    /\ LET s == sends[t] IN
       IF deleted THEN UNCHANGED <<thread, jobs>>
       ELSE /\ thread' = Append(thread,
                  [Said("company", s.request, 0, s.reply.says) EXCEPT
                      !.promises = s.reply.promises])
            /\ Defer(s.note, IF s.regenerate THEN "plan" ELSE "steer", s.request, TRUE)
    /\ sends' = [sends EXCEPT ![t] = Idle]
    /\ UNCHANGED <<deleted, requests, lock, sent, advances, losses>>

(* The request form: planned before it answers, linked to no message.      *)
SubmitRequest ==
    /\ MoreToCome
    /\ requests' = Append(requests, NewRequest(sent + 1))
    /\ Defer(sent + 1, "plan", Len(requests) + 1, FALSE)
    /\ sent' = sent + 1
    /\ UNCHANGED <<thread, deleted, sends, lock, advances, losses>>

---------------------------------------------------------------------------
(* What is deferred past the response.                                     *)

MayPlan(plan, regenerate) ==
    \/ plan.status \in {"none", "failed", "rejected"}
    \/ plan.status = "draft" /\ regenerate

(* A planner sees the goal and the brief as they are now.                  *)
BeginPlan(j) ==
    /\ jobs[j].at = "plan"
    /\ LET r       == requests[jobs[j].request]
           version == Len(r.plans) + IF PlanOf(r).status \in {"none", "rejected"} THEN 1 ELSE 0
       IN  IF MayPlan(PlanOf(r), jobs[j].regenerate) /\ version <= MaxVersions
           THEN /\ jobs' = [jobs EXCEPT ![j] =
                      [at |-> "context", request |-> @.request, version |-> version,
                       notes |-> {r.goal} \cup r.brief]]
                /\ requests' = [requests EXCEPT ![jobs[j].request].newest = "progress"]
           ELSE jobs' = [jobs EXCEPT ![j] = Idle] /\ UNCHANGED requests
    /\ UNCHANGED <<thread, deleted, sends, lock, sent, advances, losses>>

BeginDraft(j) ==
    /\ jobs[j].at = "context"
    /\ jobs' = [jobs EXCEPT ![j].at = "draft"]
    /\ requests' = [requests EXCEPT ![jobs[j].request].newest = "progress"]
    /\ UNCHANGED <<thread, deleted, sends, lock, sent, advances, losses>>

(* The version is written whatever has become of it meanwhile.             *)
PersistPlan(j) ==
    /\ jobs[j].at = "draft"
    /\ \E ok \in BOOLEAN :
       LET job  == jobs[j]
           r    == requests[job.request]
           old  == IF job.version <= Len(r.plans) THEN r.plans[job.version]
                   ELSE [status |-> "none", notes |-> {}, approvedAt |-> FALSE]
           plan == [old EXCEPT !.status = IF ok THEN "draft" ELSE "failed",
                               !.notes  = IF ok THEN job.notes ELSE @]
       IN  requests' = [requests EXCEPT ![job.request] = [r EXCEPT
              !.plans  = IF job.version <= Len(@) THEN [@ EXCEPT ![job.version] = plan]
                         ELSE Append(@, plan),
              !.outcome = IF ok THEN "planned" ELSE "needs_clarification",
              !.status  = "open",
              !.newest  = IF ok THEN "plan.generated" ELSE "plan.failed"]]
    /\ jobs' = [jobs EXCEPT ![j] = Idle]
    /\ UNCHANGED <<thread, deleted, sends, lock, sent, advances, losses>>

(* A task that is under way, or about to be, is steered by one open change *)
(* request at a time.                                                      *)
PickSteered(j) ==
    /\ jobs[j].at = "steer"
    /\ LET r == requests[jobs[j].request] IN
       IF Steerable(r) /\ r.asked = {}
       THEN jobs' = [jobs EXCEPT ![j].at = "ask"] /\ UNCHANGED requests
       ELSE /\ jobs' = [jobs EXCEPT ![j] = Idle]
            /\ requests' = [requests EXCEPT ![jobs[j].request].steered =
                  IF r.asked = {} THEN @ ELSE @ \cup {j}]
    /\ UNCHANGED <<thread, deleted, sends, lock, sent, advances, losses>>

(* recordReviewResult: the change request, and the task sent back.         *)
AskForChange(j) ==
    /\ jobs[j].at = "ask"
    /\ LET r == requests[jobs[j].request] IN
       requests' = [requests EXCEPT ![jobs[j].request] = [r EXCEPT
          !.asked = @ \cup {j}, !.steered = @ \cup {j},
          !.task  = IF @ = "done" THEN @ ELSE "in-progress"]]
    /\ jobs' = [jobs EXCEPT ![j] = Idle]
    /\ UNCHANGED <<thread, deleted, sends, lock, sent, advances, losses>>

(* The process dies: what it was to do is not repeated.                    *)
LoseJob(j) ==
    /\ jobs[j] # Idle /\ MoreToCome
    /\ losses' = losses + 1
    /\ jobs' = [jobs EXCEPT ![j] = Idle]
    /\ UNCHANGED <<thread, deleted, requests, sends, lock, sent, advances>>

---------------------------------------------------------------------------
(* What the CEO and the driver do with a request.                          *)

SetPlan(r, status) == [r EXCEPT !.plans[Len(r.plans)].status = status]

Decide(n) ==
    /\ PlanOf(requests[n]).status = "draft"
    /\ \/ LET v == Len(requests[n].plans) IN
          requests' = [requests EXCEPT ![n] = [SetPlan(requests[n], "approved") EXCEPT
              !.plans[v].approvedAt = TRUE, !.outcome = "approved",
              !.newest = "plan.approved"]]
       \/ requests' = [requests EXCEPT ![n] = [SetPlan(requests[n], "rejected") EXCEPT
              !.outcome = "rejected", !.newest = "plan.rejected"]]
    /\ UNCHANGED <<thread, deleted, sends, lock, jobs, sent, advances, losses>>

ApplyPlan(n) ==
    /\ PlanOf(requests[n]).status = "approved"
    /\ requests' = [requests EXCEPT ![n] = [SetPlan(requests[n], "applied") EXCEPT
          !.outcome = "in_delivery", !.newest = "work.created",
          !.task = IF @ = "none" THEN "todo" ELSE @,
          !.objective = PlanOf(requests[n]).notes, !.from = Len(requests[n].plans)]]
    /\ UNCHANGED <<thread, deleted, sends, lock, jobs, sent, advances, losses>>

(* The task's item in the draft it was applied from, as it is now.         *)
PlanSection(r) == r.plans[r.from].notes

(* The task's own description, which applying the plan has written.        *)
ObjectiveSection(r) == r.objective

(* The reasons of the change requests that are open.                       *)
ReworkSection(r) == r.asked

(* What a session's brief lets the agent know of the notes.                *)
BriefOf(r) == ReworkSection(r) \cup ObjectiveSection(r) \cup PlanSection(r)

PrepareSession(n) ==
    /\ ~requests[n].session.live
    /\ \/ requests[n].task = "todo"
       \/ requests[n].task = "in-progress" /\ requests[n].asked # {}
    /\ requests' = [requests EXCEPT ![n] = [requests[n] EXCEPT
          !.session = [live |-> TRUE, brief |-> BriefOf(requests[n]),
                       owed |-> requests[n].steered]]]
    /\ UNCHANGED <<thread, deleted, sends, lock, jobs, sent, advances, losses>>

FinishSession(n) ==
    /\ requests[n].session.live
    /\ requests' = [requests EXCEPT ![n].session = NoSession, ![n].task = "in-review"]
    /\ UNCHANGED <<thread, deleted, sends, lock, jobs, sent, advances, losses>>

(* The approval of a review resolves what was asked for; QA completes the  *)
(* outcome and with it the request.                                        *)
PassGates(n) ==
    /\ requests[n].task = "in-review" /\ ~requests[n].session.live
    /\ requests' = [requests EXCEPT ![n] = [requests[n] EXCEPT
          !.asked = {}, !.steered = {}, !.task = "done",
          !.outcome = IF @ \in TerminalOutcome THEN @ ELSE "completed",
          !.status = IF requests[n].outcome \in TerminalOutcome THEN @ ELSE "complete",
          !.said = TRUE]]
    /\ UNCHANGED <<thread, deleted, sends, lock, jobs, sent, advances, losses>>

(* The CEO may set any status at any time; each has its event.             *)
AdvanceRequest(n) ==
    /\ MoreToCome
    /\ advances' = advances + 1
    /\ \E s \in RequestStatuses :
          requests' = [requests EXCEPT ![n].status = s, ![n].said = @ \/ s = "complete"]
    /\ UNCHANGED <<thread, deleted, sends, lock, jobs, sent, losses>>

(* The messages go with their conversation; the requests stay.             *)
DeleteConversation ==
    /\ ~deleted /\ lock = NoTab
    /\ deleted' = TRUE /\ thread' = <<>>
    /\ UNCHANGED <<requests, sends, lock, jobs, sent, advances, losses>>

---------------------------------------------------------------------------
Next ==
    \/ \E t \in ChatTabs :
          \/ Send(t) \/ Resolve(t) \/ Start(t) \/ MarkPlanning(t)
          \/ TouchConversation(t) \/ ReadOutcome(t) \/ CommitNote(t)
          \/ LookAtPlan(t) \/ Answer(t) \/ PostAnswer(t)
    \/ \E j \in Jobs :
          \/ BeginPlan(j) \/ BeginDraft(j) \/ PersistPlan(j)
          \/ PickSteered(j) \/ AskForChange(j) \/ LoseJob(j)
    \/ \E n \in DOMAIN requests :
          \/ Decide(n) \/ ApplyPlan(n) \/ PrepareSession(n) \/ FinishSession(n)
          \/ PassGates(n) \/ AdvanceRequest(n)
    \/ SubmitRequest \/ DeleteConversation

---------------------------------------------------------------------------
TypeOK ==
    /\ \A i \in DOMAIN thread :
          /\ thread[i].by \in {"user", "company"}
          /\ thread[i].request \in 0 .. Len(requests)
    /\ \A n \in DOMAIN requests :
          /\ requests[n].status \in RequestStatuses
          /\ requests[n].outcome \in OutcomeStatuses
          /\ requests[n].task \in TaskStatuses
          /\ Len(requests[n].plans) <= MaxVersions
    /\ lock \in ChatTabs \cup {NoTab}

(* The requests whose outcomes and tasks the thread follows.               *)
Scope == {thread[i].request : i \in DOMAIN thread} \ {0}

(* The planning event it shows last of each.                               *)
Activity == [n \in Scope |-> requests[n].newest]

(* The outcomes it shows as being planned right now: their newest planning *)
(* event is a heartbeat.                                                   *)
Drafting == {n \in Scope : Activity[n] = "progress"}

(* Whatever several tabs send at once, a message of the thread is the goal *)
(* of a request or on the brief of the one it was attached to; an answer   *)
(* says in the guard's wordings only what some row has said, and promises  *)
(* a change only of work there is; and a thread whose planning has ended   *)
(* does not show it as going on (chat-followup-service.ts,                 *)
(* handleConversationFollowUp; chat-reply-grounding.ts; chat-activity.ts). *)
ThreadKept ==
    /\ \A i \in DOMAIN thread :
          LET m == thread[i] IN
          /\ m.says = "goal" => \E n \in DOMAIN requests : requests[n].goal = m.note
          /\ m.says = "note" => m.note \in requests[m.request].brief
          /\ m.says = "shipped" =>
                requests[m.request].task = "done" \/ requests[m.request].said
          /\ m.says = "approved" =>
                \E v \in DOMAIN requests[m.request].plans :
                    requests[m.request].plans[v].approvedAt
          /\ m.promises => requests[m.request].from # 0
    /\ losses = 0 /\ (\A j \in Jobs : jobs[j].at \notin {"context", "draft"}) => Drafting = {}

(* A session that is prepared while a note is routed to its task tells the *)
(* agent of it, for "the pending rework will absorb it"                    *)
(* (mid-flight-steering.ts:47).                                            *)
SteersAbsorbed ==
    \A n \in DOMAIN requests : requests[n].session.owed \subseteq requests[n].session.brief
=============================================================================
