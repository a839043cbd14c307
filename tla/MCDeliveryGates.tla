-------------------------- MODULE MCDeliveryGates --------------------------
(***************************************************************************)
(* DeliveryGates for model checking, one task in either of two lives: the  *)
(* driver alone takes it through the gates, whatever the evidence and the  *)
(* pull requests, and may crash; or it is the CEO's, one web request after *)
(* another out of every click the app offers.  There is one driver and one *)
(* request at a time, so there is nothing to permute.                      *)
(***************************************************************************)
EXTENDS DeliveryGates

CONSTANTS
    DeskRequests,     (* the CEO's requests, where the task is the CEO's    *)
    DeskClicks,       (* and what they may be                               *)
    DeskAttempts, DeskReviews, DeskQas, DeskCrashes   (* bounds, as above   *)

ASSUME DeskAssumption ==
    /\ DeskClicks \subseteq ClickKinds
    /\ {DeskAttempts, DeskReviews, DeskQas, DeskCrashes} \subseteq Nat

VARIABLE life         (* "driver" or "desk"                                 *)

Desk == INSTANCE DeliveryGates WITH
    Drivers <- {}, Requests <- DeskRequests, Clicks <- DeskClicks,
    AutoLevels <- {FALSE}, Evidence <- {"pass"}, MaxAttempts <- DeskAttempts,
    MaxReviews <- DeskReviews, MaxQas <- DeskQas, MaxFeedback <- 0,
    MaxCrashes <- DeskCrashes

MCInit ==
    /\ life \in {"driver", "desk"}
    /\ IF life = "driver" THEN Init ELSE Desk!Init

MCNext ==
    /\ \/ life = "driver" /\ Next
       \/ life = "desk" /\ Desk!Next
    /\ UNCHANGED life

MCSpec == MCInit /\ [][MCNext]_<<life, vars>>

---------------------------------------------------------------------------
(* The driver lets nothing get done without passing evidence               *)
(* (gate-advancement-service.ts, evaluateReviewPromotion).                 *)
DriverVerifies == life = "driver" => DoneIsVerified

(* The driver pulls no finished task back (pr-feedback-service.ts).        *)
DriverLeavesDone == [][life = "driver" => DoneIsFinal]_vars

(* What the driver sends back can be selected again                        *)
(* (task-selection-service.ts).                                            *)
DriverSendsBack == life = "driver" => ReworkSelectable

(* A change request ends only after newer work, as long as the driver runs *)
(* the gates (review-service.ts, recordReviewResult).                      *)
DriverAddresses == [][life = "driver" => ReworkAddressed]_vars

(* The retry budget bounds the attempts (auto-execution-service.ts).       *)
DriverGivesUp == life = "driver" => AttemptsBounded

(* No click gets a task done without a review and QA (qa-service.ts).      *)
DeskHasEvidence == life = "desk" => Desk!DoneHasEvidence

(* No click rewrites a QA verdict (qa-service.ts, recordQaResult).         *)
DeskKeepsVerdicts == [][life = "desk" => Desk!QaVerdictFinal]_vars
============================================================================
