----------------------------- MODULE MCDelivery -----------------------------
(***************************************************************************)
(* Delivery left to itself, for model checking: no click of the CEO, a     *)
(* driver that keeps ticking.  A behaviour is either one of an outcome,    *)
(* from its plan to its end, or one of a task, from its first session      *)
(* through the gates; the other rests in a state in which nothing is due.  *)
(***************************************************************************)
EXTENDS OutcomeLifecycle

CONSTANTS
    GateDrivers,                                  (* DeliveryGates: Drivers *)
    Evidence, MaxRetries, MaxAttempts, MaxReviews, MaxQas, MaxFeedback

VARIABLES
    part,        (* "outcome" or "gates"                                    *)
    gTask, gWork, gAttempts, gFailedAt, gImpls, gEvidence,
    gLastReview, gReviewStatus, gReviewAt, gReviewBy, gOpenCR,
    gLastQa, gQaStatus, gQaChecks,
    gAt, gAuto, gSeen, gOnReview, gOnQa, gVerdict, gReason,
    gFeedbacks, gCrashes

gateVars ==
    <<gTask, gWork, gAttempts, gFailedAt, gImpls, gEvidence,
      gLastReview, gReviewStatus, gReviewAt, gReviewBy, gOpenCR,
      gLastQa, gQaStatus, gQaChecks,
      gAt, gAuto, gSeen, gOnReview, gOnQa, gVerdict, gReason,
      gFeedbacks, gCrashes>>

Gates == INSTANCE DeliveryGates WITH
    Drivers <- GateDrivers, Requests <- {}, Clicks <- {}, AutoLevels <- {TRUE},
    MaxCrashes <- 0,
    task <- gTask, work <- gWork, attempts <- gAttempts, failedAt <- gFailedAt,
    impls <- gImpls, evidence <- gEvidence,
    lastReview <- gLastReview, reviewStatus <- gReviewStatus,
    reviewAt <- gReviewAt, reviewBy <- gReviewBy, openCR <- gOpenCR,
    lastQa <- gLastQa, qaStatus <- gQaStatus, qaChecks <- gQaChecks,
    at <- gAt, auto <- gAuto, seen <- gSeen, onReview <- gOnReview,
    onQa <- gOnQa, verdict <- gVerdict, reason <- gReason,
    feedbacks <- gFeedbacks, crashes <- gCrashes

(* A cancelled task without a session: no step of the driver is due.       *)
GatesAtRest ==
    /\ gTask = "cancelled" /\ gWork = "idle" /\ gAttempts = 0 /\ gImpls = 0
    /\ gFailedAt = [i \in Gates!Attempts |-> Gates!None]
    /\ gEvidence = [i \in Gates!Attempts |-> "none"]
    /\ gLastReview = 0
    /\ gReviewStatus = [r \in Gates!Reviews |-> "absent"]
    /\ gReviewAt = [r \in Gates!Reviews |-> 0]
    /\ gReviewBy = [r \in Gates!Reviews |-> "nobody"]
    /\ gOpenCR = [r \in Gates!Reviews |-> Gates!None]
    /\ gLastQa = 0
    /\ gQaStatus = [q \in Gates!Qas |-> "absent"]
    /\ gQaChecks = [q \in Gates!Qas |-> "none"]
    /\ gAt = [d \in GateDrivers |-> "idle"]
    /\ gAuto = [d \in GateDrivers |-> FALSE]
    /\ gSeen = [d \in GateDrivers |-> 0]
    /\ gOnReview = [d \in GateDrivers |-> 0]
    /\ gOnQa = [d \in GateDrivers |-> 0]
    /\ gVerdict = [d \in GateDrivers |-> "none"]
    /\ gReason = [d \in GateDrivers |-> FALSE]
    /\ gFeedbacks = 0 /\ gCrashes = 0

(* An outcome nobody has asked a plan for is at rest as it is.             *)
DeliveryInit ==
    /\ Init
    /\ part \in {"outcome", "gates"}
    /\ IF part = "gates" THEN Gates!Init ELSE GatesAtRest

DeliveryNext ==
    \/ part = "outcome" /\ Next /\ UNCHANGED <<part, gateVars>>
    \/ part = "gates" /\ Gates!Next /\ UNCHANGED <<part, vars>>

DeliverySpec ==
    /\ DeliveryInit /\ [][DeliveryNext]_<<part, vars, gateVars>>
    /\ Fairness /\ Gates!Fairness

---------------------------------------------------------------------------
(* A task in review moves on, waits for the CEO with a checklist, or is in *)
(* dispute, and is done once its QA has passed                             *)
(* (gate-advancement-service.ts, qa-service.ts).                           *)
ReviewAdvances == Gates!ReviewAdvances
=============================================================================
