---------------------------- MODULE Supervision ----------------------------
(***************************************************************************)
(* One long-running process of Avion (the worker or the driver) under its  *)
(* supervisor: scripts/supervise.mjs, which restarts it, watches its       *)
(* heartbeat file and stops it; worker/heartbeat.ts; and the Postgres      *)
(* advisory lock of worker/single-instance-lock.ts, which a stray process  *)
(* started by hand may hold instead.                                       *)
(*                                                                         *)
(* Time is left out but for its order: the watchdog's SIGKILL comes at a   *)
(* later check than its SIGTERM, and the heartbeat of a driver that        *)
(* completes its ticks of 15 s never gets stale (the window is 300 s).     *)
(* That of a worker may: an agent of 1800 s, an installation of 600 s and  *)
(* the checks of one session exceed the window of 3600 s together.         *)
(***************************************************************************)
EXTENDS Naturals

CONSTANTS
    Roles,        (* which of "worker", "driver" is looked at               *)
    MaxBackoff,   (* doublings from the base delay to the longest           *)
    MaxStrays,    (* bound on the processes started by hand                 *)
    NoOne         (* nobody                                                 *)

VARIABLES
    role,         (* the role supervised                                    *)
    sup,          (* the supervisor: "up", "stopping", "gone"               *)
    proc,         (* per process, where it is                               *)
    backoff,      (* the delay argument of the child's next start()         *)
    beat,         (* the heartbeat file the supervisor looks at             *)
    struck,       (* killSentAt: the watchdog has sent SIGTERM              *)
    lock,         (* who holds the advisory lock                            *)
    strays        (* processes started by hand so far                       *)

vars == <<role, sup, proc, backoff, beat, struck, lock, strays>>

(* The supervised child and a process somebody started in a terminal.      *)
Procs == {"child", "stray"}

(* "down": no process; "boot": before its lock and its signal handlers;    *)
(* "loop": iterating; "hung": alive, its iteration never ends; "ending":   *)
(* told to stop, its iteration not yet over; "stuck": told to stop, and    *)
(* deaf to it.                                                             *)
ProcStates == {"down", "boot", "loop", "hung", "ending", "stuck"}

Init ==
    /\ role \in Roles
    /\ sup = "up"
    /\ proc = [p \in Procs |-> IF p = "child" THEN "boot" ELSE "down"]
    /\ backoff = 0
    /\ beat \in {"missing", "stale"}
    /\ struck = FALSE
    /\ lock = NoOne
    /\ strays = 0

(* The delay after this one, in doublings of the first: maxDelayMs caps it.*)
NextDelay == IF backoff < MaxBackoff THEN backoff + 1 ELSE MaxBackoff

(* onDown: the restart is armed with the current delay; the one after it   *)
(* starts over when the child was up for a minute.                         *)
OnDown(p, stable) ==
    IF p = "child"
    THEN /\ backoff' = IF stable THEN 0 ELSE NextDelay
         /\ struck' = FALSE
    ELSE UNCHANGED <<backoff, struck>>

(* The process is gone; Postgres drops the lock of a closed connection.    *)
Exit(p, stable) ==
    /\ proc' = [proc EXCEPT ![p] = "down"]
    /\ lock' = IF lock = p THEN NoOne ELSE lock
    /\ OnDown(p, stable)

(* The delay is over: start(), unless the supervisor is stopping.          *)
Start ==
    /\ sup = "up" /\ proc["child"] = "down"
    /\ proc' = [proc EXCEPT !["child"] = "boot"]
    /\ struck' = FALSE
    /\ UNCHANGED <<role, sup, backoff, beat, lock, strays>>

StartStray ==
    /\ strays < MaxStrays /\ proc["stray"] = "down"
    /\ proc' = [proc EXCEPT !["stray"] = "boot"]
    /\ strays' = strays + 1
    /\ UNCHANGED <<role, sup, backoff, beat, struck, lock>>

(* pg_try_advisory_lock: whether this process may go on.                   *)
MayRun(p) == lock = NoOne

Boot(p) ==
    /\ proc[p] = "boot"
    /\ MayRun(p)
    /\ lock' = p
    /\ proc' = [proc EXCEPT ![p] = "loop"]
    /\ UNCHANGED <<role, sup, backoff, beat, struck, strays>>

(* Another instance holds it: exit 0, which the supervisor takes for a     *)
(* crash and answers with a longer delay.                                  *)
Refused(p) ==
    /\ proc[p] = "boot"
    /\ ~MayRun(p)
    /\ Exit(p, FALSE)
    /\ UNCHANGED <<role, sup, beat, strays>>

(* heartbeat.beat() at the head of an iteration; a stray process has a     *)
(* file of its own under WORKER_REPO_BASE_DIR.                             *)
Beat ==
    /\ proc["child"] = "loop"
    /\ beat' = "fresh"
    /\ UNCHANGED <<role, sup, proc, backoff, struck, lock, strays>>

(* An await of the iteration never settles, or the event loop blocks: the  *)
(* head of the iteration has beaten.                                       *)
Hang(p) ==
    /\ proc[p] = "loop"
    /\ p = "child" => beat = "fresh"
    /\ proc' = [proc EXCEPT ![p] = "hung"]
    /\ UNCHANGED <<role, sup, backoff, beat, struck, lock, strays>>

Crash(p) ==
    /\ proc[p] \in {"boot", "loop", "ending"}
    /\ \E stable \in BOOLEAN : Exit(p, stable /\ proc[p] # "boot")
    /\ UNCHANGED <<role, sup, beat, strays>>

(* The iterations that end within the window; a worker's need not.         *)
Regular == role = "driver" /\ proc["child"] = "loop"

(* With no iteration, or in a long one, the file gets older than allowed.  *)
GoesStale ==
    /\ beat = "fresh"
    /\ ~Regular
    /\ beat' = "stale"
    /\ UNCHANGED <<role, sup, proc, backoff, struck, lock, strays>>

(* What SIGTERM does.  Before main() has installed its handler it kills;   *)
(* the worker's handler exits if the event loop still turns, the driver's  *)
(* only raises a flag, which its loop reads after the tick.                *)
Terminated(p) ==
    CASE proc[p] = "loop" -> {"ending"}
      [] proc[p] = "hung" -> IF role = "worker" THEN {"ending", "stuck"} ELSE {"stuck"}
      [] OTHER            -> {proc[p]}

Terminate(p) ==
    IF proc[p] = "boot" THEN Exit(p, FALSE)
    ELSE /\ \E st \in Terminated(p) : proc' = [proc EXCEPT ![p] = st]
         /\ UNCHANGED <<lock, backoff>>

(* Mutated form: the driver's handler lets go of the lock as the worker's  *)
(* does, with its tick still going.                                        *)
ReleasesInHandlerAlways == TRUE

(* The worker's handler releases the lock, the driver's main() does.       *)
ReleasesInHandler == role = "worker"

(* handleShutdown of the worker: the lock is released, then exit(0); the   *)
(* pool claims nothing meanwhile.                                          *)
ReleaseLock(p) ==
    /\ ReleasesInHandler
    /\ proc[p] = "ending" /\ lock = p
    /\ lock' = NoOne
    /\ UNCHANGED <<role, sup, proc, backoff, beat, struck, strays>>

(* A process told to stop exits; the driver after its tick, with its lock  *)
(* released behind the loop.                                               *)
Ends(p) ==
    /\ proc[p] = "ending"
    /\ \E stable \in BOOLEAN : Exit(p, stable)
    /\ UNCHANGED <<role, sup, beat, strays>>

(* Somebody stops the process started by hand, hung or not.                *)
StopStray ==
    /\ proc["stray"] # "down"
    /\ Exit("stray", FALSE)
    /\ UNCHANGED <<role, sup, beat, strays>>

---------------------------------------------------------------------------
(* The supervisor.                                                         *)

(* checkHeartbeats, first check of a stale file.                           *)
Watch ==
    /\ sup = "up" /\ proc["child"] # "down"
    /\ beat = "stale" /\ ~struck
    /\ Terminate("child")
    /\ struck' = (proc["child"] # "boot")
    /\ UNCHANGED <<role, sup, beat, strays>>

(* Mutated form: no escalation.                                            *)
StillStaleNever == FALSE

(* A later check, past the grace, with the child alive and its file stale. *)
StillStale == beat = "stale" /\ struck

Escalate ==
    /\ sup = "up" /\ proc["child"] # "down"
    /\ StillStale
    /\ \E stable \in BOOLEAN : Exit("child", stable)
    /\ UNCHANGED <<role, sup, beat, strays>>

(* shutdown(): SIGTERM to the child, no more restarts.                     *)
Stop ==
    /\ sup = "up"
    /\ sup' = "stopping"
    /\ IF proc["child"] = "down" THEN UNCHANGED <<proc, lock, backoff, struck>>
       ELSE Terminate("child") /\ UNCHANGED struck
    /\ UNCHANGED <<role, beat, strays>>

(* No child is left, or the ten seconds are over and SIGKILL goes out.     *)
Leave ==
    /\ sup = "stopping"
    /\ sup' = "gone"
    /\ IF proc["child"] = "down" THEN UNCHANGED <<proc, lock, backoff, struck>>
       ELSE Exit("child", FALSE)
    /\ UNCHANGED <<role, beat, strays>>

---------------------------------------------------------------------------
ChildStep ==
    \/ Start \/ Boot("child") \/ Refused("child") \/ Beat \/ Hang("child")
    \/ Crash("child") \/ GoesStale \/ ReleaseLock("child") \/ Ends("child")

StrayStep ==
    \/ StartStray \/ Boot("stray") \/ Refused("stray") \/ Hang("stray")
    \/ Crash("stray") \/ StopStray

SupervisorStep == Watch \/ Escalate \/ Stop \/ Leave

Next == ChildStep \/ StrayStep \/ SupervisorStep

(* Timers fire (the 30 s check, the restart, the file's age), a process    *)
(* told to stop stops, and - the two strong ones - a start takes far less  *)
(* than the watchdog's period, so that neither crashes nor SIGTERMs hit    *)
(* every one of them before it has its lock and its first beat.            *)
Fairness ==
    /\ WF_vars(Start) /\ WF_vars(proc["child"] # "loop" /\ GoesStale) /\ WF_vars(Ends("child"))
    /\ WF_vars(Watch) /\ WF_vars(Escalate) /\ WF_vars(Leave)
    /\ SF_vars(Boot("child")) /\ SF_vars(Beat)

Spec == Init /\ [][Next]_vars

LiveSpec == Spec /\ Fairness

---------------------------------------------------------------------------
TypeOK ==
    /\ role \in Roles
    /\ sup \in {"up", "stopping", "gone"}
    /\ proc \in [Procs -> ProcStates]
    /\ backoff \in 0 .. MaxBackoff
    /\ beat \in {"missing", "stale", "fresh"}
    /\ struck \in BOOLEAN
    /\ lock \in Procs \cup {NoOne}
    /\ strays \in 0 .. MaxStrays

(* A process that may still write: one that iterates or hangs in its       *)
(* iteration, and a driver told to stop that is finishing its tick.        *)
AtWork(p) ==
    \/ proc[p] \in {"loop", "hung", "stuck"}
    \/ role = "driver" /\ proc[p] = "ending"

(* Never two drivers tick, and never two workers claim, at once: not when  *)
(* one is started by hand, nor when the supervisor replaces one that is    *)
(* slow to stop (single-instance-lock.ts, "double-spending and corrupting  *)
(* the driver's live/prepared accounting").                                *)
OneAtWork == ~(AtWork("child") /\ AtWork("stray"))

(* A process that hangs in its loop is found and replaced by one that      *)
(* beats, even if it ignores SIGTERM - unless the supervisor is stopped,   *)
(* or somebody runs the role by hand (checkHeartbeats, onDown).            *)
HungReplaced ==
    (sup = "up" /\ proc["child"] \in {"hung", "stuck"})
        ~> \/ proc["child"] = "loop" /\ beat = "fresh"
           \/ sup # "up"
           \/ lock = "stray"
============================================================================
