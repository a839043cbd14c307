---------------------------- MODULE PullRequests ----------------------------
(***************************************************************************)
(* The branch of one task and its pull requests, over the attempts made at *)
(* it: the worker's push and PR (worker/index.ts, worker/repo-manager.ts,  *)
(* lib/github-pull-request.ts), the driver's poll of what GitHub says of   *)
(* them (lib/github-pr-feedback.ts), and what it makes of that             *)
(* (lib/pr-feedback-ingestion-service.ts): rework, escalation, auto-merge. *)
(*                                                                         *)
(* All attempts at a task share one branch.  A commit is the number of the *)
(* push that brought it.  GitHub, its reviewers and its CI, and the gates  *)
(* of the task (see DeliveryGates) are reduced to what they answer.        *)
(***************************************************************************)
EXTENDS Naturals, Sequences

CONSTANTS
    MaxAttempts,   (* bound on the attempts                                 *)
    MaxMoves,      (* bound on what people do to the pull requests          *)
    MaxPollFaults  (* bound on failed reads and deaths of the driver        *)

VARIABLES
    setup,     (* [autonomous, ci]: the autonomy level, a repository's CI   *)
    task,      (* "todo", "in-progress", "in-review" or "done"              *)
    feedback,  (* unresolved change requests opened from PR feedback        *)
    worker,    (* [at, pr]: the attempt under way                           *)
    head,      (* the last commit on the branch, 0 while it is not there    *)
    checks,    (* per commit, its CI                                        *)
    prs,       (* pull requests of the branch                               *)
    sessions,  (* the attempts' rows: [commit, pr, status]                  *)
    poll,      (* [at, left, of, done, read]: where the driver's poll is    *)
    merges,    (* commits the poll has merged                               *)
    moves,     (* what people have done to the pull requests so far         *)
    faults     (* faults so far                                             *)

branch == <<head, checks>>
board  == <<task, feedback>>
vars   == <<setup, board, worker, branch, prs, moves, sessions, poll, merges, faults>>

Commits == 1 .. MaxAttempts

NoPr == 0

Idle == [at |-> "idle", pr |-> NoPr]

NoFeedback == [state |-> "open", decision |-> "none", ci |-> "none"]

Resting == [at |-> "rest", left |-> {}, of |-> 0, done |-> FALSE, read |-> NoFeedback]

Init ==
    /\ setup \in [autonomous : BOOLEAN, ci : BOOLEAN]
    /\ task = "todo" /\ feedback = 0
    /\ worker = Idle /\ head = 0
    /\ checks = [c \in Commits |-> "none"]
    /\ prs = <<>> /\ sessions = <<>>
    /\ poll = Resting
    /\ merges = {} /\ moves = 0 /\ faults = 0

Fault == faults < MaxPollFaults /\ faults' = faults + 1

---------------------------------------------------------------------------
(* The worker.                                                             *)

(* processSession: the task is selected, and an attempt left.              *)
MayAttempt ==
    /\ worker.at = "idle" /\ Len(sessions) < MaxAttempts
    /\ task \in {"todo", "in-progress"}

(* A row without a pull request, and the task open for another attempt.    *)
FailAttempt ==
    /\ sessions' = Append(sessions, [commit |-> 0, pr |-> NoPr, status |-> "none"])
    /\ task' = "todo"
    /\ worker' = Idle

(* The agent fails, leaves nothing to push, or evaluatePrePushGuardrails   *)
(* finds what may not be pushed.                                           *)
NothingPushed ==
    /\ MayAttempt
    /\ FailAttempt
    /\ UNCHANGED <<setup, feedback, branch, prs, poll, merges, moves, faults>>

(* checkoutRepository takes the branch as the remote has it, or makes it;  *)
(* commitAndPushSessionBranch pushes on top of that, never forced.         *)
CommitAndPush ==
    /\ MayAttempt
    /\ head' = Len(sessions) + 1
    /\ checks' = [checks EXCEPT ![head'] = IF setup.ci THEN "pending" ELSE "none"]
    /\ worker' = [worker EXCEPT !.at = "pushed"]
    /\ UNCHANGED <<setup, board, prs, sessions, poll, merges, moves, faults>>

IsOpen(p) == ~prs[p].closed /\ ~prs[p].merged

OpenOnes == {p \in DOMAIN prs : IsOpen(p)}

(* openOrReusePullRequest, or its failure, which fails the attempt.        *)
OpenOrReuse ==
    /\ worker.at = "pushed"
    /\ \/ FailAttempt /\ UNCHANGED prs
       \/ /\ prs' = IF OpenOnes # {} THEN prs
                    ELSE Append(prs, [closed |-> FALSE, draft |-> FALSE, merged |-> FALSE,
                                      decision |-> "none"])
          /\ worker' = [at |-> "opened",
                        pr |-> IF OpenOnes # {} THEN CHOOSE p \in OpenOnes : TRUE ELSE Len(prs')]
          /\ UNCHANGED <<task, sessions>>
    /\ UNCHANGED <<setup, feedback, branch, poll, merges, moves, faults>>

(* ingestAgentExecutionResult: the row keeps the commit of this attempt.   *)
Record ==
    /\ worker.at = "opened"
    /\ sessions' = Append(sessions,
            [commit |-> head, pr |-> worker.pr,
             status |-> IF prs[worker.pr].draft THEN "draft" ELSE "open"])
    /\ task' = "in-review"
    /\ worker' = Idle
    /\ UNCHANGED <<setup, feedback, branch, prs, poll, merges, moves, faults>>

---------------------------------------------------------------------------
(* GitHub, and the gates.                                                  *)

CiEnds(c) ==
    /\ checks[c] = "pending"
    /\ \E end \in {"success", "failure"} : checks' = [checks EXCEPT ![c] = end]
    /\ UNCHANGED <<setup, board, worker, head, prs, sessions, poll, merges, moves, faults>>

(* Somebody asks for changes, merges or closes the pull request, or        *)
(* (un)drafts it.  An approval is to every decision what no review is.     *)
OnGitHub(p) ==
    /\ IsOpen(p) /\ moves < MaxMoves
    /\ moves' = moves + 1
    /\ \/ prs' = [prs EXCEPT ![p].decision = "changes_requested"]
       \/ prs' = [prs EXCEPT ![p].merged = TRUE, ![p].closed = TRUE]
       \/ prs' = [prs EXCEPT ![p].closed = TRUE]
       \/ prs' = [prs EXCEPT ![p].draft = ~@]
    /\ UNCHANGED <<setup, board, worker, branch, sessions, poll, merges, faults>>

(* The task passes its review and its QA, or one of them sends it back.    *)
Gates ==
    /\ task = "in-review"
    /\ \/ task' = "done" /\ feedback' = 0
       \/ task' = "in-progress" /\ UNCHANGED feedback
    /\ UNCHANGED <<setup, worker, branch, prs, sessions, poll, merges, moves, faults>>

---------------------------------------------------------------------------
(* The poll.                                                               *)

Tracked(row) == row.status \in {"open", "draft"}

(* findMany: the rows with an open pull request, and the task with them.   *)
BeginPoll ==
    /\ poll.at = "rest"
    /\ \E i \in DOMAIN sessions : Tracked(sessions[i])
    /\ poll' = [Resting EXCEPT !.at = "next", !.done = (task = "done"),
                               !.left = {i \in DOMAIN sessions : Tracked(sessions[i])}]
    /\ UNCHANGED <<setup, board, worker, branch, prs, sessions, merges, moves, faults>>

(* Mutated form: closed before merged, as GitHub's own state has it.       *)
StateByOpenness(pull) ==
    IF pull.closed THEN "closed" ELSE IF pull.draft THEN "draft" ELSE "open"

(* mapState                                                                *)
StateOf(pull) ==
    IF pull.merged THEN "merged"
    ELSE IF pull.closed THEN "closed" ELSE IF pull.draft THEN "draft" ELSE "open"

(* fetchPullRequestFeedback: the checks are those of the row's own commit, *)
(* and what of reviews and checks cannot be read counts as absent.         *)
Fetch(i) ==
    /\ poll.at = "next" /\ i \in poll.left
    /\ LET read == [state    |-> StateOf(prs[sessions[i].pr]),
                    decision |-> prs[sessions[i].pr].decision,
                    ci       |-> checks[sessions[i].commit]]
       IN  \/ /\ poll' = [poll EXCEPT !.at = "react", !.of = i, !.read = read,
                                      !.left = @ \ {i}]
              /\ UNCHANGED faults
           \/ /\ Fault
              /\ \E lost \in {[read EXCEPT !.ci = "none"], [read EXCEPT !.decision = "none"]} :
                    poll' = [poll EXCEPT !.at = "react", !.of = i, !.read = lost,
                                         !.left = @ \ {i}]
    /\ UNCHANGED <<setup, board, worker, branch, prs, sessions, merges, moves>>

(* The read of the pull request itself fails: on to the next one.          *)
FetchFails(i) ==
    /\ poll.at = "next" /\ i \in poll.left
    /\ Fault
    /\ poll' = [poll EXCEPT !.left = @ \ {i}]
    /\ UNCHANGED <<setup, board, worker, branch, prs, sessions, merges, moves>>

NeedsChanges(read) == read.ci = "failure" \/ read.decision = "changes_requested"

(* auto_merge: allowed, done as the poll read it, and every signal clean.  *)
MayMerge(read) ==
    /\ setup.autonomous /\ poll.done
    /\ read.state = "open"
    /\ read.ci \in {"success", "none"}
    /\ read.decision = "none"

(* An unresolved change request from PR feedback is already there.         *)
IsKnown == feedback > 0

OnToTheNext == [poll EXCEPT !.at = "next", !.of = 0, !.read = NoFeedback]

(* It is merged: so is the row.                                            *)
SeeMerged ==
    /\ poll.at = "react" /\ poll.read.state = "merged"
    /\ sessions' = [sessions EXCEPT ![poll.of].status = "merged"]
    /\ poll' = OnToTheNext
    /\ UNCHANGED <<setup, board, worker, branch, prs, merges, moves, faults>>

(* A change request, unless one is open already: recordReviewResult.       *)
OpenFeedback ==
    /\ poll.at = "react" /\ poll.read.state # "merged" /\ NeedsChanges(poll.read)
    /\ IF IsKnown THEN UNCHANGED feedback /\ poll' = OnToTheNext
       ELSE feedback' = feedback + 1 /\ poll' = [poll EXCEPT !.at = "reopen"]
    /\ UNCHANGED <<setup, task, worker, branch, prs, sessions, merges, moves, faults>>

(* Its second write: the task is in progress again, unless it is done, in  *)
(* which case the CEO is notified (left out).                              *)
Reopen ==
    /\ poll.at = "reopen"
    /\ task' = IF task = "done" THEN "done" ELSE "in-progress"
    /\ poll' = OnToTheNext
    /\ UNCHANGED <<setup, feedback, worker, branch, prs, sessions, merges, moves, faults>>

(* Nothing to change: mergePullRequest, which GitHub may refuse, or not.   *)
MergeOrNot ==
    /\ poll.at = "react" /\ poll.read.state # "merged" /\ ~NeedsChanges(poll.read)
    /\ \/ /\ MayMerge(poll.read)
          /\ IsOpen(sessions[poll.of].pr) /\ ~prs[sessions[poll.of].pr].draft
          /\ prs' = [prs EXCEPT ![sessions[poll.of].pr].merged = TRUE,
                                ![sessions[poll.of].pr].closed = TRUE]
          /\ merges' = merges \cup {head}
          /\ poll' = [poll EXCEPT !.at = "mark"]
       \/ poll' = OnToTheNext /\ UNCHANGED <<prs, merges>>
    /\ UNCHANGED <<setup, board, worker, branch, sessions, moves, faults>>

MarkMerged ==
    /\ poll.at = "mark"
    /\ sessions' = [sessions EXCEPT ![poll.of].status = "merged"]
    /\ poll' = OnToTheNext
    /\ UNCHANGED <<setup, board, worker, branch, prs, merges, moves, faults>>

EndPoll ==
    /\ poll.at = "next" /\ poll.left = {}
    /\ poll' = Resting
    /\ UNCHANGED <<setup, board, worker, branch, prs, sessions, merges, moves, faults>>

(* The driver dies at its poll; a new one begins another.                  *)
DriverDies ==
    /\ poll.at # "rest"
    /\ Fault
    /\ poll' = Resting
    /\ UNCHANGED <<setup, board, worker, branch, prs, sessions, merges, moves>>

---------------------------------------------------------------------------
Attempt == NothingPushed \/ CommitAndPush \/ OpenOrReuse \/ Record

PollStep ==
    \/ BeginPoll \/ SeeMerged \/ OpenFeedback \/ Reopen \/ MergeOrNot \/ MarkMerged \/ EndPoll
    \/ \E i \in poll.left : Fetch(i)

Next ==
    \/ Attempt \/ PollStep \/ DriverDies \/ Gates
    \/ \E i \in poll.left : FetchFails(i)
    \/ \E c \in Commits : CiEnds(c)
    \/ \E p \in DOMAIN prs : OnGitHub(p)

(* The driver ticks, and polls at every tick.                              *)
Fairness == WF_vars(PollStep)

Spec == Init /\ [][Next]_vars

LiveSpec == Spec /\ Fairness

---------------------------------------------------------------------------
TypeOK ==
    /\ setup \in [autonomous : BOOLEAN, ci : BOOLEAN]
    /\ task \in {"todo", "in-progress", "in-review", "done"}
    /\ feedback \in 0 .. 1
    /\ worker.at \in {"idle", "pushed", "opened"}
    /\ worker.pr \in {NoPr} \cup DOMAIN prs
    /\ head \in {0} \cup Commits
    /\ checks \in [Commits -> {"none", "pending", "success", "failure"}]
    /\ \A p \in DOMAIN prs : prs[p] \in
            [closed : BOOLEAN, draft : BOOLEAN, merged : BOOLEAN,
             decision : {"none", "changes_requested"}]
    /\ \A i \in DOMAIN sessions : sessions[i] \in
            [commit : {0} \cup Commits, pr : {NoPr} \cup DOMAIN prs,
             status : {"none", "open", "draft", "merged"}]
    /\ poll.at \in {"rest", "next", "react", "reopen", "mark"}
    /\ poll.left \subseteq DOMAIN sessions
    /\ merges \subseteq Commits
    /\ moves \in 0 .. MaxMoves /\ faults \in 0 .. MaxPollFaults

(* A merged pull request closes the loop, whoever merged it: every row     *)
(* that tracks it gets to know, also those of earlier attempts, and also   *)
(* if the driver dies between its merge and its own record of it.          *)
MergeObserved ==
    \A i \in 1 .. MaxAttempts :
        (i \in DOMAIN sessions /\ sessions[i].pr # NoPr /\ prs[sessions[i].pr].merged)
            ~> (i \in DOMAIN sessions /\ sessions[i].status = "merged")

(* "CI is green (or the repo has no CI) - never failing, never pending"    *)
(* (pr-feedback-ingestion-service.ts): what the poll merges by itself has  *)
(* passed its checks.                                                      *)
MergedIsGreen == \A c \in merges : checks[c] \in {"success", "none"}
============================================================================
