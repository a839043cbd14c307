----------------------------- MODULE TaskDesk ------------------------------
(***************************************************************************)
(* The CEO at one task: the task page and the two quality pages, what they *)
(* show and offer (app/(app)/work/tasks/[id], app/(app)/work/quality), and *)
(* the briefs they show (lib/implementation-brief.ts, lib/review-brief.ts, *)
(* lib/repository-task-context.ts).  A page is read once, the task page by *)
(* four queries one after the other, and stays as it was while the driver, *)
(* the worker and other tabs go on; what it offered then may no longer be  *)
(* so when it is used.                                                     *)
(* A verdict on a review is read and written in steps, which may break off *)
(* without a word and may meet those of another verdict; a QA verdict or a *)
(* result is one step: theirs are in DeliveryGates and ExecutionSession.   *)
(***************************************************************************)
EXTENDS Naturals, Sequences, FiniteSets

CONSTANTS
    Repositories,   (* of the workspace                                     *)
    Nowhere,        (* no repository, no pull request                       *)
    Planned,        (* is the task an item of a generated plan?             *)
    Described,      (* has the task a description?                          *)
    Analysed,       (* the repositories whose analysis has completed        *)
    MaxAttempts,    (* sessions of the task                                 *)
    MaxReviews,     (* reviews and QA results of the task, each             *)
    MaxMoments,     (* how far the clock runs                               *)
    MaxVisits       (* pages opened from nowhere                            *)

VARIABLES
    link,        (* the repository the task's project is linked to          *)
    recent,      (* the workspace's repository updated last                 *)
    clock,
    task,        (* the task's status                                       *)
    sessions,    (* its attempts, oldest first                              *)
    worked,      (* moments an attempt was running, all together            *)
    reviews,     (* its reviews, oldest first                               *)
    qas,         (* its QA results, oldest first                            *)
    asked,       (* is a change request unresolved?                         *)
    page,        (* the page open, or NoPage                                *)
    visits,      (* pages opened from nowhere so far                        *)
    calls        (* the verdicts on reviews being recorded, by caller       *)

vars == <<link, recent, clock, task, sessions, worked, reviews, qas, asked, page, visits, calls>>

TaskStatuses    == {"todo", "in-progress", "in-review", "done", "blocked", "cancelled"}
Results         == {"completed", "failed", "needs_clarification"}
ReviewVerdicts  == {"approved", "changes_requested", "blocked", "needs_clarification"}
QaVerdicts      == {"passed", "failed", "blocked", "needs_clarification"}
(* Mutated form: an attempt is live until the worker starts it.            *)
NotYetRunning == {"prepared"}

(* What counts as live.                                                    *)
LiveStatuses == {"prepared", "running"}

(* A QA result that is decided.                                            *)
TerminalQaStatuses == {"passed", "failed", "blocked"}

NoPage == [kind |-> "none"]

(* Who records a verdict on a review: the page, or the gate or another tab. *)
Callers == {"page", "other"}

NoCall == [about |-> 0, verdict |-> "none", left |-> <<>>]

Latest(s) == s[Len(s)]

---------------------------------------------------------------------------
(* Where the task runs, and what the agent and the reviewer are told.      *)

(* The project's own repository, or the one of its workspace updated last. *)
TaskRepository == IF link # Nowhere THEN link ELSE recent

LiveSessions == {i \in DOMAIN sessions : sessions[i].status \in LiveStatuses}

(* What the agent and the page are warned of.                              *)
RepositoryWarnings(repository) ==
    IF repository = Nowhere THEN {"no repository"}
    ELSE IF repository \in Analysed THEN {} ELSE {"not analysed"}

(* The page's panel, for the repository as it is picked now.               *)
RepositoryPanel == [repository |-> TaskRepository, warnings |-> RepositoryWarnings(TaskRepository)]

(* The brief's section of the same, for the repository of the attempt.     *)
RepositorySection(repository) ==
    [repository |-> repository, warnings |-> RepositoryWarnings(repository)]

(* What an attempt is measured by: the plan's criteria for the task, or    *)
(* else its description.                                                   *)
AcceptanceCriteria ==
    IF Planned THEN "criteria of the plan"
    ELSE IF Described THEN "description" ELSE "none specified"

(* A rework is told on which pull request to go on: that of the attempt    *)
(* before it, which has none when it opened none.                          *)
PriorPullRequest == IF asked /\ sessions # <<>> THEN Latest(sessions).pr ELSE Nowhere

(* The brief a new attempt gets; memory, culture and the fixed sections,   *)
(* the same for every task, are left out.                                  *)
ImplementationBrief(repository) ==
    [context |-> RepositorySection(repository), criteria |-> AcceptanceCriteria,
     objective |-> Described, rework |-> asked, prior |-> PriorPullRequest]

NoBrief == [context |-> "none"]

(* The brief a reviewer gets of an attempt.                                *)
ReviewBrief(session) ==
    [criteria |-> AcceptanceCriteria, result |-> session.status, pr |-> session.pr]

---------------------------------------------------------------------------
(* What the pages show.                                                    *)

(* The time an attempt took: a running one counts up to now.               *)
SpanOf(session) ==
    IF session.started = 0 THEN 0
    ELSE IF session.status = "running" THEN clock - session.started
    ELSE session.completed - session.started

SumOf(spans) ==
    LET upto[n \in Nat] == IF n = 0 THEN 0 ELSE upto[n - 1] + spans[n]
    IN upto[Len(spans)]

TotalActive == SumOf([i \in DOMAIN sessions |-> SpanOf(sessions[i])])

(* What the live clock starts from, and the attempt it counts up with.     *)
Banked ==
    SumOf([i \in DOMAIN sessions |->
              IF sessions[i].status = "running" THEN 0 ELSE SpanOf(sessions[i])])

RunningSession ==
    LET running == {i \in DOMAIN sessions : sessions[i].status = "running"}
    IN IF running = {} THEN 0 ELSE CHOOSE i \in running : \A j \in running : i <= j

(* The time on task shown: banked and counting, or the total.              *)
TimeShown ==
    IF RunningSession = 0 THEN TotalActive
    ELSE Banked + SpanOf(sessions[RunningSession])

NewestOf(set) == IF set = {} THEN 0 ELSE CHOOSE i \in set : \A j \in set : j <= i

(* The attempt the result form is for, the one that ended last, and the    *)
(* one whose branch and pull request are shown.                            *)
ActiveSession == NewestOf(LiveSessions)

EndedLast == NewestOf({i \in DOMAIN sessions : sessions[i].status \in Results})

SessionShown == IF ActiveSession # 0 THEN ActiveSession ELSE EndedLast

(* How far the workflow bar has come.                                      *)
WorkflowPhase(status, reviewed) ==
    LET last == Len(sessions)
    IN CASE \/ (last # 0 /\ sessions[last].merged)
            \/ /\ last # 0 /\ EndedLast # 0
               /\ sessions[last].pr = Nowhere /\ sessions[EndedLast].merged -> "merged"
         [] status \in {"in-review", "done"} \/ reviewed = "approved" -> "reviewed"
         [] \/ status = "in-progress"
            \/ (last # 0 /\ sessions[last].status \in LiveStatuses \cup {"completed"}) -> "running"
         [] OTHER -> "planned"

(* The briefs shown: that of a prepared attempt, and the reviewer's of the *)
(* one that ended last, a failed one too.                                  *)
ShownBrief ==
    LET prepared == {i \in DOMAIN sessions : sessions[i].status = "prepared"}
    IN IF prepared = {} THEN NoBrief ELSE sessions[NewestOf(prepared)].brief

ShownReviewBrief == IF EndedLast = 0 THEN NoBrief ELSE ReviewBrief(sessions[EndedLast])

(* A task whose page showed no brief may get one.                          *)
BriefOffered == page.status \in {"todo", "in-progress"} /\ page.brief = NoBrief

(* The quality page lists the thirty changed last, here all there are.     *)
Listed(list) == DOMAIN list

(* The task's page leads to its latest review and QA result only.          *)
ReviewLinks == {page.review} \ {0}

QaLinks == {page.qa} \ {0}

(* The checks a QA verdict "passed" needs: none recorded is all passed.    *)
RequiredChecksPassed(qa) == qa.checks # "failing"

ApprovedReview == \E i \in DOMAIN reviews : reviews[i].status = "approved"

PassedQa == \E i \in DOMAIN qas : qas[i].status = "passed"

---------------------------------------------------------------------------
(* The services, whoever calls them.                                       *)

(* A new attempt, unless one is live (the row of the task is locked).      *)
CreateSession(repository) ==
    /\ Len(sessions) < MaxAttempts
    /\ sessions' = Append(sessions,
           [status |-> "prepared", repository |-> repository, started |-> 0, completed |-> 0,
            pr |-> Nowhere, merged |-> FALSE, brief |-> ImplementationBrief(repository)])

(* A result ends an attempt: a prepared one starts and ends at once.       *)
EndSession(i, result, opened) ==
    /\ sessions' = [sessions EXCEPT
           ![i].status = result,
           ![i].started = IF sessions[i].status = "prepared" THEN clock ELSE @,
           ![i].completed = clock,
           ![i].pr = IF opened THEN sessions[i].repository ELSE @]
    /\ task' = IF task \in {"done", "cancelled", "in-review"} THEN task
               ELSE IF result = "completed" THEN "in-review" ELSE "todo"

(* What a verdict on a review writes, in this order; "told" says whether   *)
(* it names something to change (notes or a blocking finding).             *)
VerdictWrites(verdict, told) ==
    CASE verdict = "approved" -> <<"review", "resolve", "task", "qa">>
      [] verdict = "changes_requested" ->
            IF told THEN <<"review", "request", "task">> ELSE <<"review", "task">>
      [] verdict = "blocked" -> <<"review", "task">>
      [] OTHER -> <<"review">>

(* The review is read; an approved one is refused, and nothing written.    *)
ReadReview(caller, i, verdict, told) ==
    /\ calls[caller] = NoCall
    /\ calls' = IF reviews[i].status = "approved" THEN calls
                ELSE [calls EXCEPT ![caller] =
                        [about |-> i, verdict |-> verdict, left |-> VerdictWrites(verdict, told)]]

(* The task a verdict leaves, which does not go back from its end; only    *)
(* "blocked" is written over any status.                                   *)
TaskAfter(verdict) ==
    CASE verdict = "blocked"             -> "blocked"
      [] task \in {"done", "cancelled"}  -> task
      [] verdict = "approved"            -> "in-review"
      [] OTHER                           -> "in-progress"

(* The next write, whatever became of the review meanwhile.                *)
RecordReview(caller) ==
    LET call == calls[caller]
        next == Head(call.left)
    IN /\ call # NoCall
       /\ calls' = [calls EXCEPT ![caller] =
                        IF Len(call.left) = 1 THEN NoCall ELSE [call EXCEPT !.left = Tail(@)]]
       /\ reviews' = IF next = "review"
                     THEN [reviews EXCEPT ![call.about] =
                              [status |-> call.verdict, superseded |-> FALSE]]
                     ELSE reviews
       /\ asked' = CASE next = "resolve" -> FALSE
                     [] next = "request" -> TRUE
                     [] OTHER            -> asked
       /\ task' = IF next = "task" THEN TaskAfter(call.verdict) ELSE task
       /\ next = "qa" => Len(qas) < MaxReviews
       /\ qas' = IF next = "qa" THEN Append(qas, [status |-> "pending", checks |-> "none"])
                 ELSE qas

(* Why a QA verdict is refused, if it is.                                  *)
QaRefused(i, verdict) ==
    \/ qas[i].status \in TerminalQaStatuses
    \/ verdict = "passed" /\ ~(ApprovedReview /\ RequiredChecksPassed(qas[i]))

(* A verdict on a QA result; findings become checks that failed, and what  *)
(* fails is requested of the approved review.                              *)
RecordQa(i, verdict, found) ==
    /\ qas' = [qas EXCEPT ![i].status = verdict,
                          ![i].checks = IF verdict = "failed" /\ found THEN "failing" ELSE @]
    /\ asked' = CASE verdict = "passed" -> FALSE
                  [] verdict = "failed" /\ ApprovedReview -> TRUE
                  [] OTHER -> asked
    /\ task' = CASE verdict = "passed" /\ task # "cancelled" -> "done"
                 [] verdict = "failed" -> "in-progress"
                 [] verdict = "blocked" -> "blocked"
                 [] OTHER -> task

---------------------------------------------------------------------------
(* What goes on while a page is open.                                      *)

(* A moment passes; in it another repository of the workspace may have     *)
(* been synced, validated or analysed.                                     *)
Tick ==
    /\ clock < MaxMoments
    /\ clock' = clock + 1
    /\ recent' \in Repositories
    /\ worked' = worked + Cardinality({i \in DOMAIN sessions : sessions[i].status = "running"})
    /\ UNCHANGED <<link, task, sessions, reviews, qas, asked, page, visits, calls>>

(* The driver prepares the task.                                           *)
Prepare ==
    /\ task = "todo" \/ (task = "in-progress" /\ asked)
    /\ LiveSessions = {}
    /\ CreateSession(TaskRepository)
    /\ UNCHANGED <<link, recent, clock, task, worked, reviews, qas, asked, page, visits, calls>>

Start ==
    /\ \E i \in DOMAIN sessions :
           /\ sessions[i].status = "prepared"
           /\ sessions' = [sessions EXCEPT ![i].status = "running", ![i].started = clock]
    /\ UNCHANGED <<link, recent, clock, task, worked, reviews, qas, asked, page, visits, calls>>

(* The worker's result, or the reaper's: a verdict that waited for it is   *)
(* superseded.                                                             *)
Finish ==
    /\ \E i \in DOMAIN sessions, completed \in BOOLEAN :
           /\ sessions[i].status = "running"
           /\ EndSession(i, IF completed THEN "completed" ELSE "failed", completed)
           /\ reviews' = IF completed /\ reviews # <<>>
                         THEN [reviews EXCEPT ![Len(reviews)].superseded = TRUE] ELSE reviews
    /\ UNCHANGED <<link, recent, clock, worked, qas, asked, page, visits, calls>>

(* The poll sees the pull request merged.                                  *)
SeeMerged ==
    /\ \E i \in DOMAIN sessions :
           /\ sessions[i].pr # Nowhere /\ ~sessions[i].merged
           /\ sessions' = [sessions EXCEPT ![i].merged = TRUE]
    /\ UNCHANGED <<link, recent, clock, task, worked, reviews, qas, asked, page, visits, calls>>

(* The gate opens a review for an attempt that completed.                  *)
OpenReview ==
    /\ task = "in-review"
    /\ \E i \in DOMAIN sessions : sessions[i].status = "completed"
    /\ reviews # <<>> =>
          /\ Latest(reviews).superseded
          /\ Latest(reviews).status \in {"changes_requested", "needs_clarification"}
    /\ Len(reviews) < MaxReviews
    /\ reviews' = Append(reviews, [status |-> "pending", superseded |-> FALSE])
    /\ UNCHANGED <<link, recent, clock, task, sessions, worked, qas, asked, page, visits, calls>>

(* The gate, where it may, or another tab approves the latest review.      *)
Approve ==
    /\ reviews # <<>> /\ Latest(reviews).status = "pending"
    /\ ReadReview("other", Len(reviews), "approved", FALSE)
    /\ UNCHANGED <<link, recent, clock, task, sessions, worked, reviews, qas, asked, page, visits>>

(* The next write of a verdict, or the query fails and with it the rest:   *)
(* the page says nothing of it, and what was written stays.                *)
GoOn ==
    /\ \E caller \in Callers : RecordReview(caller)
    /\ UNCHANGED <<link, recent, clock, sessions, worked, page, visits>>

BreakOff ==
    /\ \E caller \in Callers :
           calls[caller] # NoCall /\ calls' = [calls EXCEPT ![caller] = NoCall]
    /\ UNCHANGED <<link, recent, clock, task, sessions, worked, reviews, qas, asked, page, visits>>

(* The gate's QA: it holds with a checklist nobody ticked, or decides by   *)
(* the checks that ran.                                                    *)
GateQa ==
    /\ task = "in-review" /\ ApprovedReview
    /\ qas # <<>> /\ Latest(qas).status = "pending"
    /\ \/ /\ Latest(qas).checks = "none"
          /\ qas' = [qas EXCEPT ![Len(qas)].checks = "failing"]
          /\ UNCHANGED <<task, asked>>
       \/ RecordQa(Len(qas), "passed", FALSE)
       \/ RecordQa(Len(qas), "failed", TRUE)
    /\ UNCHANGED <<link, recent, clock, sessions, worked, reviews, page, visits, calls>>

---------------------------------------------------------------------------
(* The pages.                                                              *)

(* The task page reads the task with the repositories it may run in ...    *)
OpenTask ==
    /\ page = NoPage /\ visits < MaxVisits
    /\ visits' = visits + 1
    /\ page' = [kind |-> "task", read |-> "task", status |-> task, panel |-> RepositoryPanel,
                brief |-> NoBrief, form |-> 0, shown |-> 0, reviewBrief |-> NoBrief,
                phase |-> "planned", review |-> 0, qa |-> 0, time |-> 0]
    /\ UNCHANGED <<link, recent, clock, task, sessions, worked, reviews, qas, asked, calls>>

(* The next query of the task page, after the one named.                   *)
Reads(after) ==
    /\ page.kind = "task" /\ page.read = after
    /\ UNCHANGED <<link, recent, clock, task, sessions, worked, reviews, qas, asked,
                   visits, calls>>

(* ... then the attempts it shows, with the reviewer's brief of the one    *)
(* that ended last ...                                                     *)
ReadSessions ==
    /\ Reads("task")
    /\ page' = [page EXCEPT
           !.read = "sessions", !.brief = ShownBrief, !.form = ActiveSession,
           !.shown = SessionShown, !.reviewBrief = ShownReviewBrief,
           !.phase = WorkflowPhase(page.status, "none")]

(* ... then the latest review and QA result ...                            *)
ReadQuality ==
    /\ Reads("sessions")
    /\ page' = [page EXCEPT
           !.read = "quality", !.review = Len(reviews), !.qa = Len(qas),
           !.phase = IF /\ @ \in {"planned", "running"}
                        /\ reviews # <<>> /\ Latest(reviews).status = "approved"
                     THEN "reviewed" ELSE @]

(* ... and every attempt once more, for the time it took.                  *)
ReadTimes ==
    /\ Reads("quality")
    /\ page' = [page EXCEPT !.read = "all", !.time = TimeShown]

(* A task page all of which is read, and what may be opened: from a task's *)
(* page its latest review or result, from the list any of those listed.    *)
TaskShown == page.kind = "task" /\ page.read = "all"

MayOpen(onPage, listed) ==
    IF page = NoPage THEN IF visits < MaxVisits THEN listed ELSE {}
    ELSE IF TaskShown THEN onPage ELSE {}

Opens ==
    /\ visits' = visits + (IF page = NoPage THEN 1 ELSE 0)
    /\ UNCHANGED <<link, recent, clock, task, sessions, worked, reviews, qas, asked, calls>>

(* A review's page.                                                        *)
OpenReviewPage ==
    /\ Opens
    /\ \E i \in MayOpen(ReviewLinks, Listed(reviews)) :
           page' = [kind |-> "review", about |-> i, status |-> reviews[i].status]

(* A QA result's page.                                                     *)
OpenQaPage ==
    /\ Opens
    /\ \E i \in MayOpen(QaLinks, Listed(qas)) :
           page' = [kind |-> "qa", about |-> i, status |-> qas[i].status,
                    ready |-> RequiredChecksPassed(qas[i])]

(* A page is left.                                                         *)
LeavePage ==
    /\ page # NoPage
    /\ page' = NoPage
    /\ UNCHANGED <<link, recent, clock, task, sessions, worked, reviews, qas, asked, visits, calls>>

(* "done" needs an approved review and a passed QA, of any attempt.        *)
MayBecome(status) == status = "done" => ApprovedReview /\ PassedQa

(* The status menu; what may not be is answered with a message.            *)
ChooseStatus ==
    /\ TaskShown
    /\ \E status \in TaskStatuses \ {page.status} :
           task' = IF MayBecome(status) THEN status ELSE task
    /\ page' = NoPage
    /\ UNCHANGED <<link, recent, clock, sessions, worked, reviews, qas, asked, visits, calls>>

(* "Generate Claude Brief" is offered while no brief is shown; a live      *)
(* attempt answers it with a message.                                      *)
GenerateBrief ==
    /\ TaskShown /\ BriefOffered
    /\ IF LiveSessions # {} THEN UNCHANGED sessions ELSE CreateSession(TaskRepository)
    /\ page' = NoPage
    /\ UNCHANGED <<link, recent, clock, task, worked, reviews, qas, asked, visits, calls>>

(* The result form of the attempt that was live when the page was read; if *)
(* it has ended, a message.                                                *)
RecordResult ==
    /\ TaskShown /\ page.form # 0
    /\ \E result \in Results, opened \in BOOLEAN :    (* what is entered   *)
           IF page.form \in LiveSessions
           THEN /\ EndSession(page.form, result, opened)
                /\ reviews' = IF result = "completed" /\ reviews # <<>>
                              THEN [reviews EXCEPT ![Len(reviews)].superseded = TRUE]
                              ELSE reviews
           ELSE UNCHANGED <<sessions, task, reviews>>
    /\ page' = NoPage
    /\ UNCHANGED <<link, recent, clock, worked, qas, asked, visits, calls>>

(* The page takes an approval alone for final, as the service does.        *)
ReviewFinal(status) == status = "approved"

(* What the review form lets through: notes or a finding, even one that    *)
(* blocks nothing, with changes; notes with "blocked".                     *)
ReviewFormAllows(verdict, notes, found) ==
    /\ verdict = "changes_requested" => notes \/ found # "none"
    /\ verdict = "blocked" => notes

(* A verdict from a review's page.                                         *)
SubmitReview ==
    /\ page.kind = "review" /\ ~ReviewFinal(page.status)
    /\ \E verdict \in ReviewVerdicts, notes \in BOOLEAN, found \in {"none", "remark", "blocker"} :
           /\ ReviewFormAllows(verdict, notes, found)
           /\ ReadReview("page", page.about, verdict, notes \/ found = "blocker")
    /\ page' = NoPage
    /\ UNCHANGED <<link, recent, clock, task, sessions, worked, reviews, qas, asked, visits>>

(* What the QA form lets through: a pass when the checks had passed as the *)
(* page was read, a failure with notes or findings.                        *)
QaFormAllows(verdict, notes, found) ==
    /\ verdict = "passed" => page.ready
    /\ verdict = "failed" => notes \/ found
    /\ verdict = "blocked" => notes

(* A verdict from a QA result's page; what the service refuses is shown.   *)
SubmitQa ==
    /\ page.kind = "qa" /\ page.status \notin TerminalQaStatuses
    /\ \E verdict \in QaVerdicts, notes, found \in BOOLEAN :
           /\ QaFormAllows(verdict, notes, found)
           /\ IF QaRefused(page.about, verdict)
              THEN UNCHANGED <<qas, asked, task>> ELSE RecordQa(page.about, verdict, found)
    /\ page' = NoPage
    /\ UNCHANGED <<link, recent, clock, sessions, worked, reviews, visits, calls>>

---------------------------------------------------------------------------
Init ==
    /\ link \in {Nowhere, CHOOSE r \in Repositories : TRUE}    (* any one, to start with *)
    /\ recent \in Repositories
    /\ clock = 1 /\ task = "todo" /\ sessions = <<>> /\ worked = 0
    /\ reviews = <<>> /\ qas = <<>> /\ asked = FALSE
    /\ page = NoPage /\ visits = 0 /\ calls = [caller \in Callers |-> NoCall]

World ==
    \/ Tick \/ Prepare \/ Start \/ Finish \/ SeeMerged
    \/ OpenReview \/ Approve \/ GoOn \/ BreakOff \/ GateQa

Desk ==
    \/ OpenTask \/ ReadSessions \/ ReadQuality \/ ReadTimes
    \/ OpenReviewPage \/ OpenQaPage \/ LeavePage
    \/ ChooseStatus \/ GenerateBrief \/ RecordResult \/ SubmitReview \/ SubmitQa

Next == World \/ Desk

Spec == Init /\ [][Next]_vars

---------------------------------------------------------------------------
TypeOK ==
    /\ link \in Repositories \cup {Nowhere} /\ recent \in Repositories
    /\ clock \in 1 .. MaxMoments /\ task \in TaskStatuses /\ asked \in BOOLEAN
    /\ Len(sessions) <= MaxAttempts
    /\ \A i \in DOMAIN sessions :
          /\ sessions[i].status \in LiveStatuses \cup Results
          /\ sessions[i].repository \in Repositories
          /\ sessions[i].pr \in {Nowhere, sessions[i].repository}
    /\ Len(reviews) <= MaxReviews /\ Len(qas) <= MaxReviews
    /\ page.kind \in {"none", "task", "review", "qa"}
    /\ \A caller \in Callers : calls[caller].about \in {0} \cup DOMAIN reviews

(* The time on task is the time an attempt was running, whichever way the  *)
(* page adds it up: attempts never overlap and each end is written down    *)
(* (page.tsx:269-309, createExecutionSession).                             *)
TimeAdds == TimeShown = worked /\ TotalActive = worked

(* A page never shows more time than was worked by now, however old it is  *)
(* and whatever ended between its queries (page.tsx:129-310).              *)
TimeStands == page.kind = "task" /\ page.read = "all" => page.time <= worked

(* The time the desk shows is so.                                          *)
DeskTruthful == TimeAdds /\ TimeStands
=============================================================================
