------------------------------ MODULE AgentJob ------------------------------
(***************************************************************************)
(* A worker's jobs on one task (worker/index.ts, processSession): the      *)
(* checkout of the task's branch, the agent, the install and the checks,   *)
(* the guard, the commit and push, the pull request and what is ingested.  *)
(* A later job may begin while an earlier one, whose session was given up  *)
(* as stale, is still at work on its own checkout.                         *)
(*                                                                         *)
(* A commit is the set of the changes it contains; a change is known by    *)
(* the job that made it and by how the guard gets to see it: an ordinary   *)
(* edit, a protected file that git lists by its own path, a protected file *)
(* that git's listing hides, or the output of a command.                   *)
(***************************************************************************)
EXTENDS Naturals, Sequences, FiniteSets, WorkerPolicy

CONSTANTS
    Jobs,      (* the jobs of the task, 1 .. n, in the order they begin     *)
    Setups,    (* the companies and repositories they may be for; "jobs" is *)
               (* how many of the jobs a task gets at most                  *)
    MaxEdits   (* bound: changes the agent of one job makes                 *)

VARIABLES
    setup,     (* [level, sandbox, lockfile, stack, branch, jobs]           *)
    job,       (* each job: where it is, its checkout, what it records      *)
    child,     (* each job's process: the agent, an install or a check      *)
    remote     (* [exists, branch, pull]: the task's branch and its request *)

vars == <<setup, job, child, remote>>

---------------------------------------------------------------------------
Kinds == {"edit", "protected", "hidden", "output"}
Changes == Jobs \X Kinds

Stages == {"waiting", "agent", "install", "fallback", "checks", "push", "pull",
           "completed", "failed", "lost"}
Ended == {"completed", "failed", "lost"}

(* The events of an audit log, of those there are the ones the worker logs *)
(* and the ones a trail is made of, and among them what was prevented.     *)
AuditEvents ==
    {"session_started", "session_completed", "session_failed", "command_executed",
     "command_blocked", "guardrail_triggered", "pr_opened"}

SafetyBlocks == {"command_blocked", "guardrail_triggered"}

(* sha and audit are the columns that are written: the commit, and the     *)
(* events of the audit log in place of the validation output.              *)
NewJob ==
    [stage |-> "waiting", base |-> {}, head |-> {}, dirty |-> {}, agentOk |-> FALSE,
     check |-> 1, pushed |-> FALSE, sha |-> FALSE, pr |-> FALSE, audit |-> {}]

(* "held": it has exited, but its output is still open.                    *)
NoChild == [state |-> "none", ok |-> FALSE, timedOut |-> FALSE]
Spawned == [NoChild EXCEPT !.state = "running"]

Permission == PermissionOf(setup.level)

(* The agent's own mode; install and checks go by the profile.             *)
AgentMode == Effective(Permission, "none", setup.sandbox, FALSE)

(* getCommandsForRepo                                                      *)
Checks == Profile(ProfileOf(setup.stack, "none"))

Init ==
    /\ setup \in Setups
    /\ job = [j \in Jobs |-> NewJob]
    /\ child = [j \in Jobs |-> NoChild]
    /\ remote = [exists |-> FALSE, branch |-> {}, pull |-> FALSE]

---------------------------------------------------------------------------
(* The session has ended and the checkout is removed.                      *)
Over(record, stage) ==
    [record EXCEPT !.stage = stage, !.base = {}, !.dirty = {},
                   !.head = IF record.pushed THEN @ ELSE {}]

End(j, stage) == job' = [job EXCEPT ![j] = Over(@, stage)]

Goto(j, stage) == job' = [job EXCEPT ![j].stage = stage]
Spawn(j) == child' = [child EXCEPT ![j] = Spawned]

(* The session is created by the driver, if the policy allows it, or at    *)
(* the CEO's own click.                                                    *)
Prepared == \E approved \in BOOLEAN :
                Checkpoint(setup.level, "create_session", approved) = "proceed"

MayBegin(j) ==
    /\ job[j].stage = "waiting" /\ j <= setup.jobs /\ Prepared
    /\ \A i \in Jobs : i < j => job[i].stage # "waiting"

(* No URL, no brief, an unknown adapter, the spend ceiling, a clone that   *)
(* fails.                                                                  *)
Refuse(j) ==
    /\ MayBegin(j)
    /\ End(j, "failed")
    /\ UNCHANGED <<setup, child, remote>>

(* checkoutRepository: the branch as it is on the remote, or a new one;    *)
(* a lookup that fails counts as no branch.                                *)
Begin(j) ==
    /\ MayBegin(j)
    /\ \E found \in {remote.exists, FALSE} :
           LET base == IF found THEN remote.branch ELSE {} IN
           job' = [job EXCEPT ![j].stage = "agent", ![j].base = base, ![j].head = base]
    /\ Spawn(j)
    /\ UNCHANGED <<setup, remote>>

---------------------------------------------------------------------------
(* A job's process: the agent, an install or a check.                      *)

Running(j) == child[j].state = "running"

AgentEdits(j) ==
    /\ job[j].stage = "agent" /\ Running(j)
    /\ MayEdit(AgentMode)
    /\ Cardinality({c \in job[j].head \cup job[j].dirty : c[1] = j}) < MaxEdits
    /\ \E kind \in {"edit", "protected", "hidden"} :
          /\ <<j, kind>> \notin job[j].head \cup job[j].dirty
          /\ job' = [job EXCEPT ![j].dirty = @ \cup {<<j, kind>>}]
    /\ UNCHANGED <<setup, child, remote>>

(* A file in a directory git does not track yet is listed by that          *)
(* directory alone, until it is committed; one that was renamed away is    *)
(* listed by its new name, and one with an odd name in quotes, either way. *)
Committed(j) ==
    {job[j].dirty, {IF c[2] = "hidden" THEN <<c[1], "protected">> ELSE c : c \in job[j].dirty}}

(* It often commits its own edits.                                         *)
AgentCommits(j) ==
    /\ job[j].stage = "agent" /\ Running(j)
    /\ job[j].dirty # {}
    /\ \E changes \in Committed(j) :
          job' = [job EXCEPT ![j].head = @ \cup changes, ![j].dirty = {}]
    /\ UNCHANGED <<setup, child, remote>>

(* What an install or a check may leave in the working tree: a lockfile,   *)
(* which is protected, or some output of its own.  "npm install" writes a  *)
(* lockfile where there was none.                                          *)
Leftovers(j) ==
    CASE job[j].stage = "agent"    -> {{}}
      [] job[j].stage = "install"  ->
             {{}} \cup (IF setup.lockfile = "none" THEN {{<<j, "protected">>}} ELSE {})
      [] job[j].stage = "fallback" -> {{}, {<<j, "protected">>}}
      [] OTHER                     -> {{}, {<<j, "output">>}}

(* It exits, or cannot be started, or reports an error; a process it has   *)
(* left behind may still hold its output.                                  *)
Exit(j) ==
    /\ Running(j)
    /\ \E ok \in BOOLEAN, state \in {"held", "closed"}, left \in Leftovers(j) :
          /\ child' = [child EXCEPT ![j].state = state, ![j].ok = ok]
          /\ job' = [job EXCEPT ![j].dirty = @ \cup left]
    /\ UNCHANGED <<setup, remote>>

LetGo(j) ==
    /\ child[j].state = "held"
    /\ child' = [child EXCEPT ![j].state = "closed"]
    /\ UNCHANGED <<setup, job, remote>>

(* Mutated form: nothing ends a process that does not end by itself.       *)
NoTimeout(j) == FALSE /\ UNCHANGED vars

(* The one SIGTERM; the timer is cleared only when the output is closed.   *)
Timeout(j) ==
    /\ child[j].state \in {"running", "held"} /\ ~child[j].timedOut
    /\ child' = [child EXCEPT ![j].timedOut = TRUE]
    /\ UNCHANGED <<setup, job, remote>>

Closed(j) == child[j].state = "closed"

Success(j) == child[j].ok /\ ~child[j].timedOut

---------------------------------------------------------------------------
(* From one process to the next.                                           *)

(* No manifest, or its dependencies are there: nothing to install.         *)
NeedsInstall == setup.lockfile # "no manifest"

(* The first check from the i-th on that is permitted and applicable,      *)
(* when those in "skipped" are not; without one the push is next.          *)
NextChecks(i) ==
    LET runnable == {k \in i .. Len(Checks) : Permitted(Checks[k], Permission)}
        optional == {k \in runnable : RunsScript(Checks[k]) \/ NeedsSchema(Checks[k])}
    IN  {k \in runnable : \A earlier \in runnable : earlier < k => earlier \in optional}
        \cup (IF runnable = optional THEN {0} ELSE {})

ToChecks(j, i) ==
    \E next \in NextChecks(i) :
        IF next = 0
        THEN /\ job' = [job EXCEPT ![j].stage = "push", ![j].agentOk = TRUE]
             /\ child' = [child EXCEPT ![j] = NoChild]
        ELSE /\ job' = [job EXCEPT ![j].stage = "checks", ![j].check = next, ![j].agentOk = TRUE]
             /\ Spawn(j)

(* An agent that fails is ingested as it is.                               *)
AgentDone(j) ==
    /\ job[j].stage = "agent" /\ Closed(j)
    /\ CASE ~Success(j) ->
              /\ End(j, "failed")
              /\ child' = [child EXCEPT ![j] = NoChild]
         [] Success(j) /\ ~NeedsInstall -> ToChecks(j, 1)
         [] Success(j) /\ NeedsInstall /\ Permitted(Install(setup.lockfile), Permission) ->
              /\ job' = [job EXCEPT ![j].stage = "install", ![j].agentOk = TRUE]
              /\ Spawn(j)
         [] OTHER ->
              /\ job' = [job EXCEPT ![j].stage = "push", ![j].agentOk = TRUE]
              /\ child' = [child EXCEPT ![j] = NoChild]
    /\ UNCHANGED <<setup, remote>>

(* A strict install that failed in time is tried once more, less strictly; *)
(* without dependencies no check is run.                                   *)
InstallDone(j) ==
    /\ job[j].stage \in {"install", "fallback"} /\ Closed(j)
    /\ CASE Success(j) -> ToChecks(j, 1)
         [] /\ ~Success(j) /\ job[j].stage = "install" /\ ~child[j].timedOut
            /\ Fallback(setup.lockfile) # <<>> ->
              Goto(j, "fallback") /\ Spawn(j)
         [] OTHER ->
              Goto(j, "push") /\ child' = [child EXCEPT ![j] = NoChild]
    /\ UNCHANGED <<setup, remote>>

(* runValidationCommands: a check that fails does not stop the others.     *)
CheckDone(j) ==
    /\ job[j].stage = "checks" /\ Closed(j)
    /\ \E next \in NextChecks(job[j].check + 1) :
          /\ job' = [job EXCEPT
                       ![j].check = IF next = 0 THEN 1 ELSE next,
                       ![j].stage = IF next = 0 THEN "push" ELSE "checks"]
          /\ child' = [child EXCEPT ![j] = IF next = 0 THEN NoChild ELSE Spawned]
    /\ UNCHANGED <<setup, remote>>

---------------------------------------------------------------------------
(* The push.                                                               *)

(* Mutated form: what the agent has committed itself is not looked at.     *)
WorkingTree(j) == job[j].dirty

(* getChangedFiles: committed since the checkout, or in the working tree,  *)
(* each as git lists it.                                                   *)
ChangedFiles(j) == (job[j].head \ job[j].base) \cup job[j].dirty

(* By the path that is listed: a hidden one matches no pattern.            *)
IsProtected(change) == change[2] = "protected"

GitCommands ==
    {<<"git", "add", "-A">>, <<"git", "commit">>, <<"git", "push", "origin", setup.branch>>}

(* evaluatePrePushGuardrails: what blocks, by the event it is logged as.   *)
Violations(j) ==
    {"guardrail_triggered" : change \in {c \in ChangedFiles(j) : IsProtected(c)}}
    \cup (IF ProtectedBranch(setup.branch) THEN {"guardrail_triggered"} ELSE {})
    \cup {"command_blocked" :
             c \in {g \in GitCommands : ~Permitted(g, Permission) \/ Dangerous(g)}}

GuardPasses(j) == Violations(j) = {}

(* The log of a blocked push; only then is one written.                    *)
Logged(j) == Violations(j) \cup {"session_failed"}

(* The audit log takes the place of the validation output.                 *)
Block(j) ==
    /\ job[j].stage = "push"
    /\ ~GuardPasses(j)
    /\ job' = [job EXCEPT ![j] = [Over(@, "failed") EXCEPT !.audit = Logged(j)]]
    /\ UNCHANGED <<setup, child, remote>>

(* commitAndPushSessionBranch without a change: a no-op run has failed.    *)
NoOp(j) ==
    /\ job[j].stage = "push"
    /\ GuardPasses(j)
    /\ job[j].dirty = {} /\ job[j].head = job[j].base
    /\ End(j, "failed")
    /\ UNCHANGED <<setup, child, remote>>

(* Never forced: the remote takes what extends its branch.                 *)
CommitAndPush(j) ==
    /\ job[j].stage = "push"
    /\ GuardPasses(j)
    /\ ChangedFiles(j) # {}
    /\ LET head == job[j].head \cup job[j].dirty
           kept == [job[j] EXCEPT !.head = head, !.dirty = {}]
       IN  \/ /\ remote.branch \subseteq head
              /\ remote' = [remote EXCEPT !.exists = TRUE, !.branch = head]
              /\ job' = [job EXCEPT ![j] = [kept EXCEPT !.stage = "pull", !.pushed = TRUE]]
           \/ /\ job' = [job EXCEPT ![j] = Over(kept, "failed")]
              /\ UNCHANGED remote
    /\ UNCHANGED <<setup, child>>

(* openOrReusePullRequest and the ingestion; a commit without a request    *)
(* has failed, an ingestion that throws leaves no trace of either.         *)
Conclude(j) ==
    /\ job[j].stage = "pull"
    /\ \/ /\ remote' = [remote EXCEPT !.pull = TRUE]
          /\ \/ job' = [job EXCEPT ![j] =
                           [Over(@, "completed") EXCEPT !.sha = TRUE, !.pr = TRUE]]
             \/ End(j, "failed")
       \/ /\ job' = [job EXCEPT ![j] = [Over(@, "failed") EXCEPT !.sha = TRUE]]
          /\ UNCHANGED remote
    /\ UNCHANGED <<setup, child>>

(* The worker dies; the recovery of stale sessions ends the session.       *)
Die(j) ==
    /\ job[j].stage \notin Ended \cup {"waiting"}
    /\ End(j, "lost")
    /\ child' = [child EXCEPT ![j] = NoChild]
    /\ UNCHANGED <<setup, remote>>

---------------------------------------------------------------------------
JobStep(j) ==
    AgentDone(j) \/ InstallDone(j) \/ CheckDone(j)
    \/ Block(j) \/ NoOp(j) \/ CommitAndPush(j) \/ Conclude(j)

Next ==
    \E j \in Jobs :
        \/ Refuse(j) \/ Begin(j)
        \/ AgentEdits(j) \/ AgentCommits(j)
        \/ Exit(j) \/ LetGo(j) \/ Timeout(j)
        \/ JobStep(j) \/ Die(j)

(* Timers fire and a worker goes on; a process heeds SIGTERM in the end,   *)
(* and what it has left behind lets go of its output.                      *)
Fairness ==
    \A j \in Jobs :
        /\ WF_vars(JobStep(j)) /\ WF_vars(Timeout(j)) /\ WF_vars(LetGo(j))
        /\ WF_vars(child[j].timedOut /\ Exit(j))

Spec == Init /\ [][Next]_vars /\ Fairness

---------------------------------------------------------------------------
(* The trail the CEO is shown of a session: the events of an audit log     *)
(* that was recorded and can be read back, or else what the columns tell.  *)
Derived(j) ==
    {"session_started"}
    \cup (IF job[j].sha THEN {"command_executed"} ELSE {})
    \cup (IF job[j].pr THEN {"pr_opened"} ELSE {})
    \cup (IF job[j].stage = "completed" THEN {"session_completed"} ELSE {"session_failed"})

Trail(j) == IF job[j].audit # {} THEN job[j].audit ELSE Derived(j)

TypeOK ==
    /\ setup \in Setups
    /\ \A j \in Jobs :
          /\ job[j].stage \in Stages
          /\ job[j].base \subseteq Changes /\ job[j].head \subseteq Changes
          /\ job[j].dirty \subseteq Changes /\ job[j].audit \subseteq AuditEvents
          /\ job[j].check \in DOMAIN Checks
          /\ child[j].state \in {"none", "running", "held", "closed"}
          /\ (child[j].state = "none") <=> (job[j].stage \notin
                 {"agent", "install", "fallback", "checks"})
    /\ remote.branch \subseteq Changes

(* Whatever runs beside it: what a job has pushed stays on the branch; no  *)
(* protected change that git lists by its own path gets there, whether the *)
(* agent, an install or a check made it and whether or not the agent has   *)
(* committed it; a session is complete only with its work in an open pull  *)
(* request; and its trail claims no push that did not happen and no block  *)
(* of one that did.  A protected change that git's listing hides does get  *)
(* there (worker/index.ts, processSession; repo-manager.ts).               *)
DeliveredSoundly ==
    /\ \A change \in remote.branch : ~IsProtected(change)
    /\ \A j \in Jobs :
          /\ job[j].pushed => job[j].head \subseteq remote.branch
          /\ job[j].stage = "completed" =>
                /\ job[j].agentOk /\ job[j].pushed /\ remote.pull
                /\ MayEdit(Permission) /\ ~ProtectedBranch(setup.branch)
          /\ job[j].stage \in Ended =>
                /\ "command_executed" \in Trail(j) => job[j].pushed
                /\ Trail(j) \cap SafetyBlocks # {} => ~job[j].pushed

(* A job that has begun comes to an end: the timeouts see to it, provided  *)
(* that processes heed SIGTERM (claude-code-adapter.ts,                    *)
(* sandbox-command-spawn.ts).                                              *)
JobEnds ==
    \A j \in Jobs : (job[j].stage = "agent") ~> (job[j].stage \in Ended)
============================================================================
