------------------------- MODULE SessionRefinement -------------------------
(***************************************************************************)
(* ExecutionSession implements SessionContract: the phase of a session is  *)
(* read off its status, and everything else - the processes, what they     *)
(* have read, the task's own status - is hidden.                           *)
(***************************************************************************)
EXTENDS ExecutionSession

PhaseOf(st) ==
    CASE st = "absent"   -> "none"
      [] st = "queued"   -> "queued"
      [] st = "prepared" -> "ready"
      [] st = "running"  -> "working"
      [] OTHER           -> "over"

Phase == [s \in Sessions |-> PhaseOf(status[s])]

Contract == INSTANCE SessionContract WITH
    phase <- Phase, task <- taskOf, launches <- runs

(* However many processes prepare, claim, run, reap and ingest, and        *)
(* whoever crashes or is late, the rows only ever show sessions that go    *)
(* through their phases in order, one at a time per task, with one agent   *)
(* run each.  cancelExecutionSession, which nothing calls, would break it: *)
(* prepareExecutionSession revives a session cancelled after its read.     *)
ContractKept == Contract!Spec
============================================================================
