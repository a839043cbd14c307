------------------------- MODULE MCOutcomeLifecycle -------------------------
(***************************************************************************)
(* The TLC instance of OutcomeLifecycle: generations, driver and CEO race  *)
(* on the plan.  What becomes of its tasks is checked in MCDelivery.       *)
(***************************************************************************)
EXTENDS OutcomeLifecycle
=============================================================================
