------------------------ MODULE MCExecutionSession ------------------------
(***************************************************************************)
(* TLC instances of ExecutionSession: the sets of the cfg files are model  *)
(* values, interchangeable within a set.                                   *)
(***************************************************************************)
EXTENDS SessionRefinement, TLC

(* Sound for the safety runs only; the liveness run does not use it.       *)
Symmetry ==
    Permutations(Workers) \cup Permutations(Forms) \cup Permutations(Requests)
===========================================================================
