-------------------------- MODULE SessionContract --------------------------
(***************************************************************************)
(* What the execution sessions promise to the rest of Avion - the driver   *)
(* that counts them, the gates that wait for them, the ledger that pays    *)
(* for them - with nothing said about processes, reads and writes: a       *)
(* session goes through its phases in order, a task has one session under  *)
(* way at a time, and a session buys at most one agent run.                *)
(***************************************************************************)
EXTENDS Naturals

CONSTANTS
    Tasks,      (* the tasks of one company                                 *)
    Sessions,   (* the sessions ever created                                *)
    NoTask      (* "no task"                                                *)

VARIABLES
    phase,      (* how far each session is                                  *)
    task,       (* the task it implements                                   *)
    launches    (* the agent runs it has paid for                           *)

cvars == <<phase, task, launches>>

UnderWay == {"queued", "ready", "working"}

Init ==
    /\ phase = [s \in Sessions |-> "none"]
    /\ task = [s \in Sessions |-> NoTask]
    /\ launches = [s \in Sessions |-> 0]

(* A session is opened for a task that has none under way.                 *)
Open(s, t) ==
    /\ phase[s] = "none"
    /\ \A r \in Sessions : task[r] = t => phase[r] \notin UnderWay
    /\ phase' = [phase EXCEPT ![s] = "queued"]
    /\ task' = [task EXCEPT ![s] = t]
    /\ UNCHANGED launches

(* It gets its brief.                                                      *)
Ready(s) ==
    /\ phase[s] = "queued"
    /\ phase' = [phase EXCEPT ![s] = "ready"]
    /\ UNCHANGED <<task, launches>>

(* One worker takes it.                                                    *)
Claim(s) ==
    /\ phase[s] = "ready"
    /\ phase' = [phase EXCEPT ![s] = "working"]
    /\ UNCHANGED <<task, launches>>

(* The agent starts, once; a session the reaper has closed under its       *)
(* worker may still be paid for.                                           *)
Launch(s) ==
    /\ phase[s] \in {"working", "over"}
    /\ launches[s] = 0
    /\ launches' = [launches EXCEPT ![s] = 1]
    /\ UNCHANGED <<phase, task>>

(* A result, a failure or the reaper closes it, for good.                  *)
Close(s) ==
    /\ phase[s] \in {"ready", "working"}
    /\ phase' = [phase EXCEPT ![s] = "over"]
    /\ UNCHANGED <<task, launches>>

Next ==
    \E s \in Sessions :
        \/ \E t \in Tasks : Open(s, t)
        \/ Ready(s) \/ Claim(s) \/ Launch(s) \/ Close(s)

Spec == Init /\ [][Next]_cvars
============================================================================
