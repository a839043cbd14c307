------------------------------ MODULE Releases ------------------------------
(***************************************************************************)
(* Releases: the web actions of app/actions/releases.ts, the candidates    *)
(* built from verified tasks (lib/release-candidate-service.ts), the gate  *)
(* of lib/release-readiness.ts, and the outcome that follows a release     *)
(* (outcome-completion-service.ts).                                        *)
(*                                                                         *)
(* Several tabs act at once; each action reads, and writes in a later step.*)
(* Notes, descriptions and timeline entries are left out; so are the items *)
(* every candidate starts with ticked (review, QA, notes).                 *)
(***************************************************************************)
EXTENDS Naturals, Sequences, FiniteSets

CONSTANTS
    Tasks,         (* tasks of the company, all of one outcome              *)
    Tabs,          (* web requests                                          *)
    MaxReleases,   (* bound on the releases                                 *)
    MaxNews        (* bound on what happens to the tasks meanwhile          *)

VARIABLES
    records,     (* per task, what the gates have recorded of it            *)
    releases,    (* [status, deployed, items, checklist, tasks, outcome],   *)
                 (* checklist: the items that are ticked                    *)
    outcome,     (* status of the outcome: "active", "released", "archived" *)
    tab,         (* per request, where its action is                        *)
    ticked,      (* releases whose checklist has once been complete         *)
    news         (* what has happened to the tasks so far                   *)

vars == <<records, releases, outcome, tab, ticked, news>>

(* The items a release starts with; those every candidate starts with      *)
(* ticked are left out.                                                    *)
Checklist == {"tests", "rollout"}

Idle == [at |-> "idle"]

(* approved and passed: there is such a row; review and qa: the latest one.*)
Fresh == [done |-> FALSE, approved |-> FALSE, passed |-> FALSE,
          review |-> "none", qa |-> "none", openRequest |-> FALSE,
          validated |-> FALSE, pr |-> FALSE]

Init ==
    /\ records = [t \in Tasks |-> Fresh]
    /\ releases = <<>>
    /\ outcome = "active"
    /\ tab = [s \in Tabs |-> Idle]
    /\ ticked = {}
    /\ news = 0

---------------------------------------------------------------------------
(* The tasks and the outcome, as far as this module looks at them.         *)

(* The gates finish a task; its session has validation output or a PR.     *)
Deliver(t) ==
    /\ ~records[t].done /\ news < MaxNews
    /\ news' = news + 1
    /\ \E validated, pr \in BOOLEAN :
        records' = [records EXCEPT ![t] =
            [done |-> TRUE, approved |-> TRUE, passed |-> TRUE, review |-> "approved",
             qa |-> "passed", openRequest |-> FALSE, validated |-> validated, pr |-> pr]]
    /\ UNCHANGED <<releases, outcome, tab, ticked>>

(* GitHub disagrees with a task that is done: a newer review, a request.   *)
Conflict(t) ==
    /\ records[t].done /\ news < MaxNews
    /\ news' = news + 1
    /\ records' = [records EXCEPT ![t].review = "changes_requested", ![t].openRequest = TRUE]
    /\ UNCHANGED <<releases, outcome, tab, ticked>>

Archive ==
    /\ outcome = "active" /\ news < MaxNews
    /\ outcome' = "archived" /\ news' = news + 1
    /\ UNCHANGED <<records, releases, tab, ticked>>

---------------------------------------------------------------------------
(* The candidate.                                                          *)

(* assessTaskReleaseEligibility                                            *)
Eligible(record) == record.done /\ record.approved /\ record.passed

(* createReleaseCandidate, one task after the other.                       *)
BeginCandidate(s) ==
    /\ tab[s] = Idle /\ Len(releases) < MaxReleases
    /\ \E ts \in SUBSET Tasks \ {{}} :
        tab' = [tab EXCEPT ![s] = [at |-> "assess", left |-> ts, in |-> {}, tested |-> FALSE]]
    /\ UNCHANGED <<records, releases, outcome, ticked, news>>

Assess(s) ==
    /\ tab[s].at = "assess" /\ tab[s].left # {}
    /\ \E t \in tab[s].left :
        tab' = [tab EXCEPT ![s].left = @ \ {t},
                           ![s].in = IF Eligible(records[t]) THEN @ \cup {t} ELSE @,
                           ![s].tested = @ \/ (Eligible(records[t]) /\ records[t].validated)]
    /\ UNCHANGED <<records, releases, outcome, ticked, news>>

(* An empty list is not complete.                                          *)
Complete(items, checked) == items # {} /\ checked = items

StatusOf(items, checked) == IF Complete(items, checked) THEN "ready" ELSE "draft"

(* A new row; one whose boxes are all ticked from the start is noted.      *)
Created(release) ==
    /\ releases' = Append(releases, release)
    /\ ticked' = IF Complete(release.items, release.checklist)
                 THEN ticked \cup {Len(releases')} ELSE ticked

(* Its row - or none, when no task was eligible.                           *)
CreateCandidate(s) ==
    /\ tab[s].at = "assess" /\ tab[s].left = {}
    /\ IF tab[s].in = {} \/ Len(releases) = MaxReleases THEN UNCHANGED <<releases, ticked>>
       ELSE LET checked == IF tab[s].tested THEN {"tests"} ELSE {}
            IN  Created([status |-> StatusOf(Checklist, checked), deployed |-> FALSE,
                         items |-> Checklist, checklist |-> checked,
                         tasks |-> tab[s].in, outcome |-> TRUE])
    /\ tab' = [tab EXCEPT ![s] = Idle]
    /\ UNCHANGED <<records, outcome, news>>

---------------------------------------------------------------------------
(* The other actions.                                                      *)

(* createRelease: by hand, with nothing ticked and no outcome.             *)
CreateRelease(s) ==
    /\ tab[s] = Idle /\ Len(releases) < MaxReleases
    /\ Created([status |-> "draft", deployed |-> FALSE, items |-> Checklist,
                checklist |-> {}, tasks |-> {}, outcome |-> FALSE])
    /\ UNCHANGED <<records, outcome, tab, news>>

(* updateReleaseChecklist: the list is the client's, whatever the row has  *)
(* by now - the page sends its items back, but the action takes any list,  *)
(* also one with items left out - and so is the status, that of a released *)
(* release too.                                                            *)
UpdateChecklist(s, i) ==
    /\ tab[s] = Idle
    /\ \E items \in SUBSET Checklist : \E checked \in SUBSET items :
        /\ releases' = [releases EXCEPT ![i].items = items, ![i].checklist = checked,
                                        ![i].status = StatusOf(items, checked)]
        /\ ticked' = IF Complete(items, checked) THEN ticked \cup {i} ELSE ticked
    /\ UNCHANGED <<records, outcome, tab, news>>

(* Mutated form: the status is taken for the checklist.                    *)
ReadyByStatus(release) == release.status \in {"ready", "draft"}

(* assessReleaseReadiness                                                  *)
Ready(release) == Complete(release.items, release.checklist)

(* markReleased, its read; a released one, and one that is not ready, are  *)
(* left as they are.                                                       *)
ReadToRelease(s, i) ==
    /\ tab[s] = Idle
    /\ releases[i].status # "released" /\ Ready(releases[i])
    /\ tab' = [tab EXCEPT ![s] = [at |-> "release", of |-> i, outcome |-> releases[i].outcome]]
    /\ UNCHANGED <<records, releases, outcome, ticked, news>>

MarkReleased(s) ==
    /\ tab[s].at = "release"
    /\ releases' = [releases EXCEPT ![tab[s].of].status = "released",
                                    ![tab[s].of].deployed = TRUE]
    /\ tab' = [tab EXCEPT ![s] = IF tab[s].outcome THEN [at |-> "outcome", read |-> "none"]
                                 ELSE Idle]
    /\ UNCHANGED <<records, outcome, ticked, news>>

(* markOutcomeReleased: read, written by id, or failed, which is ignored.  *)
ReadOutcome(s) ==
    /\ tab[s].at = "outcome" /\ tab[s].read = "none"
    /\ tab' = [tab EXCEPT ![s] = IF outcome \in {"released", "archived"} THEN Idle
                                 ELSE [at |-> "outcome", read |-> outcome]]
    /\ UNCHANGED <<records, releases, outcome, ticked, news>>

MarkOutcome(s) ==
    /\ tab[s].at = "outcome" /\ tab[s].read # "none"
    /\ outcome' = "released"
    /\ tab' = [tab EXCEPT ![s] = Idle]
    /\ UNCHANGED <<records, releases, ticked, news>>

OutcomeFails(s) ==
    /\ tab[s].at = "outcome"
    /\ tab' = [tab EXCEPT ![s] = Idle]
    /\ UNCHANGED <<records, releases, outcome, ticked, news>>

(* addTaskToRelease and removeTaskFromRelease: the list is read, changed   *)
(* and written back; any task of the company may be added.                 *)
ReadTasks(s, i) ==
    /\ tab[s] = Idle
    /\ \E t \in Tasks :
        \E ts \in {releases[i].tasks \cup {t}, releases[i].tasks \ {t}} :
            /\ ts # releases[i].tasks
            /\ tab' = [tab EXCEPT ![s] = [at |-> "tasks", of |-> i, tasks |-> ts]]
    /\ UNCHANGED <<records, releases, outcome, ticked, news>>

WriteTasks(s) ==
    /\ tab[s].at = "tasks"
    /\ releases' = [releases EXCEPT ![tab[s].of].tasks = tab[s].tasks]
    /\ tab' = [tab EXCEPT ![s] = Idle]
    /\ UNCHANGED <<records, outcome, ticked, news>>

---------------------------------------------------------------------------
OnTask(t) == Deliver(t) \/ Conflict(t)

OnRelease(s, i) == UpdateChecklist(s, i) \/ ReadToRelease(s, i) \/ ReadTasks(s, i)

InTab(s) ==
    \/ BeginCandidate(s) \/ Assess(s) \/ CreateCandidate(s) \/ CreateRelease(s)
    \/ MarkReleased(s) \/ ReadOutcome(s) \/ MarkOutcome(s) \/ OutcomeFails(s)
    \/ WriteTasks(s)
    \/ \E i \in DOMAIN releases : OnRelease(s, i)

Next == Archive \/ (\E t \in Tasks : OnTask(t)) \/ (\E s \in Tabs : InTab(s))

Spec == Init /\ [][Next]_vars

---------------------------------------------------------------------------
TypeOK ==
    /\ \A t \in Tasks : DOMAIN records[t] = DOMAIN Fresh
    /\ \A i \in DOMAIN releases : releases[i] \in
            [status : {"draft", "ready", "released"}, deployed : BOOLEAN,
             items : SUBSET Checklist, checklist : SUBSET Checklist,
             tasks : SUBSET Tasks, outcome : BOOLEAN]
    /\ outcome \in {"active", "released", "archived"}
    /\ \A s \in Tabs : tab[s].at \in {"idle", "assess", "release", "outcome", "tasks"}
    /\ ticked \subseteq DOMAIN releases
    /\ news \in 0 .. MaxNews

(* What went out went out by the book, whatever other tabs did meanwhile:  *)
(* a deployed release has once had a checklist with every item ticked (the *)
(* list a client last stored, which may be shorter than the one it began   *)
(* with), and an outcome is "released" only behind a deployed release of   *)
(* its own (markReleased, release-readiness.ts, markOutcomeReleased).      *)
ShippedByTheBook ==
    /\ \A i \in DOMAIN releases : releases[i].deployed => i \in ticked
    /\ outcome = "released" =>
            \E i \in DOMAIN releases : releases[i].outcome /\ releases[i].deployed
============================================================================
