------------------------------ MODULE Preview ------------------------------
(***************************************************************************)
(* Live previews: the web actions of app/actions/preview.ts, which only    *)
(* write what the user wants into a PreviewSession row, and the engine     *)
(* (lib/preview/preview-engine.ts, preview-runner.ts,                      *)
(* preview-service-db.ts), which claims rows, starts dev servers and       *)
(* drives each to the wanted state.                                        *)
(*                                                                         *)
(* One repository.  A row's update is a step of its own, after the step    *)
(* that decided on it; two updates of one preview commit in the order they *)
(* were sent.  Logs, branch, port and url are left out.                    *)
(***************************************************************************)
EXTENDS Naturals, FiniteSets

CONSTANTS
    MaxRows,       (* bound on the Start clicks                             *)
    MaxConcurrent, (* PREVIEW_MAX_CONCURRENT                                *)
    MaxRestarts    (* bound on the engine's deaths                          *)

VARIABLES
    rows,      (* PreviewSession rows, in order of createdAt                *)
    clicks,    (* Start clicks that have superseded but not yet created     *)
    engine,    (* "up", "stopping" (its signal handler runs) or "down"      *)
    found,     (* the queued row the loop has read, 0 for none              *)
    run,       (* per row, where its startPreview() is                      *)
    active,    (* per row, its entry in the registry                        *)
    child,     (* per row, its dev server: "known" once its pid is recorded *)
    restarts   (* deaths of the engine so far                               *)

vars == <<rows, clicks, engine, found, run, active, child, restarts>>

Ids == 1 .. MaxRows

(* ACTIVE_STATUSES of the web side, and the engine's.                      *)
Claimed == {"starting", "installing", "running", "stopping"}
Active == {"queued"} \cup Claimed
Terminal == {"stopped", "failed", "crashed"}

NoRow == [status |-> "absent", desired |-> "stopped", pid |-> FALSE]

(* Not registered; registered; stop requested; SIGTERM sent; exited, with  *)
(* its last update under way; next in line of shutdownAllPreviews; running *)
(* with nobody to stop it.                                                 *)
ActiveStates ==
    {"none", "live", "stopping", "signalled", "finalizing", "doomed", "leaked"}

NoEntry == [at |-> "none", verdict |-> "crashed"]

Init ==
    /\ rows = [i \in Ids |-> NoRow]
    /\ clicks = 0
    /\ engine = "up"
    /\ found = 0
    /\ run = [i \in Ids |-> "idle"]
    /\ active = [i \in Ids |-> NoEntry]
    /\ child = [i \in Ids |-> "none"]
    /\ restarts = 0

Created == {i \in Ids : rows[i].status # "absent"}

Registry == {i \in Ids : active[i].at \notin {"none", "leaked"}}

Alive(i) == child[i] \in {"alive", "known"}

---------------------------------------------------------------------------
(* The web actions.                                                        *)

(* startPreview, updateMany: what is active and wanted is so no more.      *)
Supersede ==
    /\ Cardinality(Created) + clicks < MaxRows
    /\ rows' = [i \in Ids |-> IF rows[i].status \in Active /\ rows[i].desired = "running"
                              THEN [rows[i] EXCEPT !.desired = "stopped"] ELSE rows[i]]
    /\ clicks' = clicks + 1
    /\ UNCHANGED <<engine, found, run, active, child, restarts>>

(* startPreview, create.                                                   *)
Create ==
    /\ clicks > 0
    /\ clicks' = clicks - 1
    /\ LET i == Cardinality(Created) + 1
       IN  rows' = [rows EXCEPT ![i] =
                [status |-> "queued", desired |-> "running", pid |-> FALSE]]
    /\ UNCHANGED <<engine, found, run, active, child, restarts>>

(* stopPreview of the panel.                                               *)
RequestStop(i) ==
    /\ i \in Created
    /\ rows' = [rows EXCEPT ![i].desired = "stopped"]
    /\ UNCHANGED <<clicks, engine, found, run, active, child, restarts>>

---------------------------------------------------------------------------
(* The engine's loop.                                                      *)

(* registry.size + startingCount; a preview counts twice between its       *)
(* registration and the end of its startPreview().                         *)
UnderWay == Cardinality(Registry) + Cardinality({i \in Ids : run[i] # "idle"})

(* claimNextQueuedPreview, findFirst.                                      *)
FindQueued ==
    /\ engine = "up" /\ found = 0
    /\ UnderWay < MaxConcurrent
    /\ \E i \in Ids :
        /\ rows[i].status = "queued" /\ rows[i].desired = "running"
        /\ \A j \in Ids : j < i => ~(rows[j].status = "queued" /\ rows[j].desired = "running")
        /\ found' = i
    /\ UNCHANGED <<rows, clicks, engine, run, active, child, restarts>>

(* claimNextQueuedPreview, updateMany: only a row still queued.            *)
Claim ==
    /\ found # 0
    /\ IF rows[found].status = "queued"
       THEN /\ rows' = [rows EXCEPT ![found].status = "starting"]
            /\ run' = [run EXCEPT ![found] = "checkout"]
       ELSE UNCHANGED <<rows, run>>
    /\ found' = 0
    /\ UNCHANGED <<clicks, engine, active, child, restarts>>

(* finalizePreview.                                                        *)
Finalized(i, status) ==
    [rows EXCEPT ![i] = [status |-> status, desired |-> "stopped", pid |-> FALSE]]

GiveUp(i, status) ==
    /\ rows' = Finalized(i, status)
    /\ run' = [run EXCEPT ![i] = "idle"]

(* startPreview: no repository, no clone or no dev script; or on to        *)
(* markPreviewInstalling.                                                  *)
Checkout(i) ==
    /\ run[i] = "checkout"
    /\ \/ GiveUp(i, "failed")
       \/ /\ rows' = [rows EXCEPT ![i].status = "installing"]
          /\ run' = [run EXCEPT ![i] = "install"]
    /\ UNCHANGED <<clicks, engine, found, active, child, restarts>>

Install(i) ==
    /\ run[i] = "install"
    /\ \/ GiveUp(i, "failed")
       \/ run' = [run EXCEPT ![i] = "recheck"] /\ UNCHANGED rows
    /\ UNCHANGED <<clicks, engine, found, active, child, restarts>>

(* A Stop during the install ends it before the spawn.                     *)
Recheck(i) ==
    /\ run[i] = "recheck"
    /\ IF rows[i].desired = "stopped"
       THEN GiveUp(i, "stopped")
       ELSE run' = [run EXCEPT ![i] = "spawn"] /\ UNCHANGED rows
    /\ UNCHANGED <<clicks, engine, found, active, child, restarts>>

(* The port is chosen (which may fail), the child spawned and registered.  *)
Spawn(i) ==
    /\ run[i] = "spawn"
    /\ \/ GiveUp(i, "failed") /\ UNCHANGED <<active, child>>
       \/ /\ child' = [child EXCEPT ![i] = "alive"]
          /\ active' = [active EXCEPT ![i] = [at |-> "live", verdict |-> "crashed"]]
          /\ run' = [run EXCEPT ![i] = "mark"]
          /\ UNCHANGED rows
    /\ UNCHANGED <<clicks, engine, found, restarts>>

(* markPreviewRunning, by id.                                              *)
MarkRunning(i) ==
    /\ run[i] = "mark"
    /\ rows' = [rows EXCEPT ![i].status = "running", ![i].pid = TRUE]
    /\ child' = [child EXCEPT ![i] = IF @ = "alive" THEN "known" ELSE @]
    /\ run' = [run EXCEPT ![i] = "idle"]
    /\ UNCHANGED <<clicks, engine, found, active, restarts>>

(* That update fails: the row is closed and the checkout removed, but the  *)
(* child is left running, out of the registry.                             *)
MarkFails(i) ==
    /\ run[i] = "mark" /\ active[i].at # "finalizing"
    /\ GiveUp(i, "failed")
    /\ active' = [active EXCEPT ![i].at = "leaked"]
    /\ UNCHANGED <<clicks, engine, found, child, restarts>>

BeginStop(i) ==
    /\ engine = "up" /\ active[i].at = "live"
    /\ active' = [active EXCEPT ![i] = [at |-> "stopping", verdict |-> "stopped"]]
    /\ UNCHANGED <<rows, clicks, engine, found, run, child, restarts>>

(* Mutated form: the intent is only looked at before the spawn.            *)
IntentIgnored(i) == FALSE

StopWanted(i) == rows[i].desired = "stopped"

(* reconcileActivePreviews: the user wants it stopped.                     *)
HonourStop(i) == StopWanted(i) /\ BeginStop(i)

(* The same, for a preview past PREVIEW_MAX_LIFETIME_SECONDS.              *)
LifetimeOver(i) == rows[i].status = "running" /\ BeginStop(i)

(* markPreviewStopping, then SIGTERM to the process group.                 *)
SignalStop(i) ==
    /\ active[i].at = "stopping" /\ run[i] # "mark"
    /\ rows' = [rows EXCEPT ![i].status = "stopping"]
    /\ active' = [active EXCEPT ![i].at =
                        IF Alive(i) THEN "signalled" ELSE "finalizing"]
    /\ UNCHANGED <<clicks, engine, found, run, child, restarts>>

(* The dev server ends, by itself or at the SIGTERM: its exit handler.     *)
ChildExits(i) ==
    /\ Alive(i) /\ active[i].at \in {"live", "stopping", "signalled", "leaked"}
    /\ child' = [child EXCEPT ![i] = "dead"]
    /\ IF active[i].at = "leaked"
       THEN /\ rows' = Finalized(i, active[i].verdict)
            /\ active' = [active EXCEPT ![i] = NoEntry]
       ELSE /\ active' = [active EXCEPT ![i].at =
                            IF @ = "stopping" THEN "stopping" ELSE "finalizing"]
            /\ UNCHANGED rows
    /\ UNCHANGED <<clicks, engine, found, run, restarts>>

(* SIGKILL after PREVIEW_STOP_GRACE_MS.                                    *)
Kill(i) ==
    /\ Alive(i) /\ active[i].at = "signalled"
    /\ child' = [child EXCEPT ![i] = "dead"]
    /\ active' = [active EXCEPT ![i].at = "finalizing"]
    /\ UNCHANGED <<rows, clicks, engine, found, run, restarts>>

(* finalizeOnExit: the last update, and out of the registry.               *)
Finalize(i) ==
    /\ active[i].at = "finalizing" /\ run[i] # "mark"
    /\ rows' = Finalized(i, active[i].verdict)
    /\ active' = [active EXCEPT ![i] = NoEntry]
    /\ UNCHANGED <<clicks, engine, found, run, child, restarts>>

---------------------------------------------------------------------------
(* The engine's process.                                                   *)

(* stop(): the registry as it is now will be torn down.                    *)
ShutDown ==
    /\ engine = "up" /\ restarts < MaxRestarts
    /\ engine' = "stopping"
    /\ active' = [i \in Ids |->
            IF active[i].at \in {"live", "stopping", "signalled"}
            THEN [at |-> "doomed", verdict |-> "stopped"] ELSE active[i]]
    /\ UNCHANGED <<rows, clicks, found, run, child, restarts>>

ShutDownOne(i) ==
    /\ active[i].at = "doomed"
    /\ child' = [child EXCEPT ![i] = "dead"]
    /\ rows' = Finalized(i, "stopped")
    /\ active' = [active EXCEPT ![i] = NoEntry]
    /\ UNCHANGED <<clicks, engine, found, run, restarts>>

(* The process is gone and its memory with it; an exit hook, where there   *)
(* is one and it runs, kills the children of the registry.                 *)
Die(hook) ==
    /\ engine' = "down"
    /\ child' = [i \in Ids |-> IF hook /\ i \in Registry THEN "dead" ELSE child[i]]
    /\ found' = 0
    /\ run' = [i \in Ids |-> "idle"]
    /\ active' = [i \in Ids |-> NoEntry]
    /\ restarts' = restarts + 1
    /\ UNCHANGED <<rows, clicks>>

Exit ==
    /\ engine = "stopping"
    /\ \A i \in Ids : active[i].at # "doomed"
    /\ Die(FALSE)

Crash ==
    /\ engine # "down" /\ restarts < MaxRestarts
    /\ \E hook \in BOOLEAN : Die(hook)

(* Mutated form: the rows are closed, the processes are not looked for.    *)
FoundAtStartNone == {}

(* The children reconcileOrphansOnStartup can reach: those with a pid.     *)
FoundAtStart == {i \in Ids : rows[i].status \in Claimed /\ rows[i].pid}

StartEngine ==
    /\ engine = "down"
    /\ engine' = "up"
    /\ child' = [i \in Ids |-> IF i \in FoundAtStart THEN "dead" ELSE child[i]]
    /\ rows' = [i \in Ids |-> IF rows[i].status \in Claimed
            THEN [status |-> "stopped", desired |-> "stopped", pid |-> FALSE]
            ELSE rows[i]]
    /\ UNCHANGED <<clicks, found, run, active, restarts>>

---------------------------------------------------------------------------
Web == Supersede \/ Create \/ \E i \in Ids : RequestStop(i)

Starting(i) ==
    Checkout(i) \/ Install(i) \/ Recheck(i) \/ Spawn(i) \/ MarkRunning(i)

Stopping(i) ==
    HonourStop(i) \/ SignalStop(i) \/ Kill(i) \/ Finalize(i) \/ ShutDownOne(i)

Next ==
    \/ Web \/ FindQueued \/ Claim
    \/ ShutDown \/ Exit \/ Crash \/ StartEngine
    \/ \E i \in Ids : \/ Starting(i) \/ Stopping(i)
                      \/ MarkFails(i) \/ LifetimeOver(i) \/ ChildExits(i)

(* Clone, install and updates end, the loop polls, the SIGKILL timer       *)
(* fires, and an engine that died is started again; users, dev servers and *)
(* crashes are free.                                                       *)
Fairness ==
    /\ WF_vars(FindQueued) /\ WF_vars(Claim) /\ WF_vars(Exit) /\ WF_vars(StartEngine)
    /\ \A i \in Ids : WF_vars(Starting(i)) /\ WF_vars(Stopping(i))

Spec == Init /\ [][Next]_vars

LiveSpec == Spec /\ Fairness

---------------------------------------------------------------------------
TypeOK ==
    /\ rows \in [Ids -> [status : Active \cup Terminal \cup {"absent"},
                         desired : {"running", "stopped"}, pid : BOOLEAN]]
    /\ clicks \in 0 .. MaxRows
    /\ engine \in {"up", "stopping", "down"}
    /\ found \in {0} \cup Ids
    /\ run \in [Ids -> {"idle", "checkout", "install", "recheck", "spawn", "mark"}]
    /\ active \in [Ids -> [at : ActiveStates, verdict : {"crashed", "stopped"}]]
    /\ child \in [Ids -> {"none", "alive", "known", "dead"}]
    /\ restarts \in 0 .. MaxRestarts

(* No more dev servers run on the host than PREVIEW_MAX_CONCURRENT, also   *)
(* after the engine has died and come back - not counting one whose pid    *)
(* was never recorded, which nothing can find again.                       *)
CapacityKept ==
    Cardinality({i \in Ids : child[i] = "known" \/ (Alive(i) /\ i \in Registry)})
        <= MaxConcurrent

(* A preview the engine has taken ends when its user wants it stopped,     *)
(* whatever the dev server does with SIGTERM and whenever the engine dies. *)
(* (One that is still queued does not: no one claims it any more, and it   *)
(* stays queued.)                                                          *)
StopHonoured ==
    \A i \in Ids :
        (rows[i].desired = "stopped" /\ rows[i].status \in Claimed)
            ~> (rows[i].status \in Terminal /\ child[i] # "known")
============================================================================
