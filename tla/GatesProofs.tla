----------------------------- MODULE GatesProofs -----------------------------
(***************************************************************************)
(* Proofs about the gates of one task, in both lives of MCDeliveryGates.   *)
(* The services decide on what they read some calls ago, so the invariants *)
(* say what each place of a call may still rely on.  One driver, or one    *)
(* request of the CEO at a time: two of them may overtake each other       *)
(* between a read and its write, and do so in the code.  Everything else   *)
(* is arbitrary: evidence, autonomy level, retries, red pull requests,     *)
(* crashes, clicks, and how many sessions, reviews and QA results follow.  *)
(***************************************************************************)
EXTENDS MCDeliveryGates, FiniteSetTheorems, TLAPS

---------------------------------------------------------------------------
(* The driver's life.                                                      *)

DriverAlone == Requests = {} /\ \A p, q \in Drivers : p = q

ReviewStates == ReviewVerdicts \cup {"absent", "pending"}
QaStates     == QaVerdicts \cup {"absent", "pending"}

(* The rows: their types, and which exist.                                 *)
RowsOK ==
    /\ task \in TaskStatuses
    /\ work \in {"idle", "running", "completed", "failed"}
    /\ attempts \in 0..MaxAttempts /\ impls \in 0..attempts
    /\ work = "running" => impls < attempts
    /\ evidence \in [Attempts -> EvidenceKinds]
    /\ lastReview \in 0..MaxReviews
    /\ reviewStatus \in [Reviews -> ReviewStates]
    /\ reviewAt \in [Reviews -> Nat]
    /\ openCR \in [Reviews -> Nat \cup {None}]
    /\ lastQa \in 0..MaxQas
    /\ qaStatus \in [Qas -> QaStates]
    /\ \A r \in Reviews : reviewStatus[r] = "absent" <=> r > lastReview
    /\ \A q \in Qas : qaStatus[q] = "absent" <=> q > lastQa

LocalsOK ==
    /\ at \in [Procs -> Places]
    /\ auto \in [Procs -> BOOLEAN] /\ reason \in [Procs -> BOOLEAN]
    /\ seen \in [Procs -> Nat]
    /\ onReview \in [Procs -> Nat] /\ onQa \in [Procs -> Nat]
    /\ verdict \in [Procs -> ReviewVerdicts \cup QaVerdicts \cup {"none"}]

(* A session belongs to a task in implementation: while the gates are at   *)
(* it nothing new is implemented.                                          *)
Implementing == work # "idle" => task \in {"todo", "in-progress"}

QaPassed == \E q \in Qas : qaStatus[q] = "passed"

(* The latest implementation has passed its checks.                        *)
Verified == impls > 0 /\ evidence[impls] = "pass"

(* The places of a gate run, and those after an approval.                  *)
AfterApproval == {"resolve", "hold", "openQa", "findQa", "newQa", "checklist",
                  "checks", "readQa", "approval", "writeQa", "finish",
                  "findReview", "rework", "reopen"}

AtGates == {"session", "latestReview", "newReview"} \cup AfterApproval

Gated(d) ==
    \/ at[d] \in AtGates
    \/ at[d] \in {"readReview", "writeReview"} /\ verdict[d] = "approved"

DriverAt(d) ==
    /\ at[d] \in AtGates \cup {"idle", "readReview", "writeReview", "request",
                               "sendBack", "close", "outside"}
    /\ Gated(d) => task = "in-review"
    /\ Gated(d) /\ at[d] # "session" => seen[d] = impls
    /\ at[d] \in AfterApproval => Approved # {}
    /\ at[d] \in {"readReview", "writeReview"} =>
          /\ onReview[d] \in 1..lastReview
          /\ verdict[d] \in {"approved", "changes_requested"}
    /\ at[d] \in {"readReview", "writeReview", "request", "readQa", "approval",
                  "writeQa", "findReview", "rework"} => reason[d]
    /\ at[d] = "writeReview" => reviewStatus[onReview[d]] # "approved"
    /\ at[d] \in {"request", "sendBack", "rework", "reopen"} => onReview[d] \in Reviews
    /\ at[d] \in {"sendBack", "reopen"} => openCR[onReview[d]] # None
    /\ at[d] = "checks" => onQa[d] \in 1..lastQa /\ impls > 0 /\ evidence[impls] # "none"
    /\ at[d] \in {"readQa", "approval", "writeQa"} =>
          /\ onQa[d] \in 1..lastQa /\ verdict[d] \in {"passed", "failed"}
          /\ verdict[d] = "passed" => Verified
    /\ at[d] = "approval" => verdict[d] = "passed"
    /\ at[d] \in {"approval", "writeQa"} => qaStatus[onQa[d]] \notin TerminalQa
    /\ at[d] = "finish" => Verified /\ QaPassed
    /\ at[d] = "close" => task = "done"

DInv ==
    /\ RowsOK /\ LocalsOK /\ Implementing
    /\ \A d \in Drivers : DriverAt(d)
    /\ DoneIsVerified
    /\ ReworkSelectable

---------------------------------------------------------------------------
(* How the locals of a process change.                                     *)

LEMMA GoesTo ==
  ASSUME LocalsOK, NEW p \in Procs, NEW l \in Places, Goto(p, l)
  PROVE  /\ LocalsOK' /\ at'[p] = l
         /\ UNCHANGED <<auto, seen, onReview, onQa, verdict, reason>>
  BY DEF LocalsOK, Goto

LEMMA Ends ==
  ASSUME LocalsOK, NEW p \in Procs, End(p)
  PROVE  LocalsOK' /\ at'[p] = "idle"
  BY DEF LocalsOK, End, Places

LEMMA TakesReview ==
  ASSUME LocalsOK, NEW p \in Procs, NEW r \in Nat,
         NEW v \in ReviewVerdicts, NEW why \in BOOLEAN, RecordReview(p, r, v, why)
  PROVE  /\ LocalsOK' /\ at'[p] = "readReview"
         /\ onReview'[p] = r /\ verdict'[p] = v /\ reason'[p] = why
         /\ UNCHANGED <<auto, seen, onQa>>
  BY DEF LocalsOK, RecordReview, Places

LEMMA TakesQa ==
  ASSUME LocalsOK, NEW p \in Procs, NEW q \in Nat,
         NEW v \in QaVerdicts, NEW why \in BOOLEAN, RecordQa(p, q, v, why)
  PROVE  /\ LocalsOK' /\ at'[p] = "readQa"
         /\ onQa'[p] = q /\ verdict'[p] = v /\ reason'[p] = why
         /\ UNCHANGED <<auto, seen, onReview>>
  BY DEF LocalsOK, RecordQa, Places

(* What a step of the only process has to keep.                            *)
LEMMA StepKeeps ==
  ASSUME DriverAlone, NEW d \in Drivers,
         RowsOK', LocalsOK', Implementing', DriverAt(d)', DoneIsVerified',
         ReworkSelectable'
  PROVE  DInv'
  BY DEF DInv, DriverAlone

(* One that touches no row.                                                *)
LEMMA RowsStay ==
  ASSUME DInv, UNCHANGED <<task, session, review, openCR, quality>>
  PROVE  /\ RowsOK' /\ Implementing' /\ DoneIsVerified' /\ ReworkSelectable'
         /\ Approved' = Approved /\ QaPassed' = QaPassed /\ Verified' = Verified
  BY DEF DInv, RowsOK, Implementing, DoneIsVerified, DoneHasEvidence, ReworkSelectable,
     Approved, QaPassed, Verified, session, review, quality

(* A call that has ended relies on nothing.                                *)
LEMMA IdleRelies ==
  ASSUME NEW d, at'[d] = "idle"
  PROVE  DriverAt(d)'
  BY DEF DriverAt, Gated, AtGates, AfterApproval

---------------------------------------------------------------------------
(* recordReviewResult.                                                     *)

LEMMA ReadReviewKeeps ==
  ASSUME DriverAlone, DInv, NEW d \in Drivers, ReadReview(d)
  PROVE  DInv'
<1>1. d \in Procs /\ LocalsOK
  BY DEF Procs, DInv
<1>2. RowsOK' /\ Implementing' /\ DoneIsVerified' /\ ReworkSelectable'
  BY RowsStay DEF ReadReview
<1>3. CASE End(d)
  BY <1>1, <1>2, <1>3, Ends, IdleRelies, StepKeeps
<1>4. CASE reviewStatus[onReview[d]] # "approved" /\ Goto(d, "writeReview")
  <2>1. /\ LocalsOK' /\ at'[d] = "writeReview"
        /\ UNCHANGED <<auto, seen, onReview, onQa, verdict, reason>>
    BY <1>1, <1>4, GoesTo DEF Places
  <2>2. DriverAt(d)'
    BY <1>4, <2>1 DEF ReadReview, DInv, DriverAt, Gated, AtGates, AfterApproval,
       session, review
  <2> QED
    BY <1>2, <2>1, <2>2, StepKeeps
<1> QED
  BY <1>3, <1>4 DEF ReadReview

LEMMA WriteReviewKeeps ==
  ASSUME DriverAlone, DInv, NEW d \in Drivers, WriteReview(d)
  PROVE  DInv'
<1> DEFINE r == onReview[d]
<1>1. /\ d \in Procs /\ LocalsOK /\ RowsOK /\ DriverAt(d)
      /\ r \in 1..lastReview /\ r \in Reviews /\ reviewStatus[r] # "approved"
      /\ verdict[d] \in {"approved", "changes_requested"}
      /\ reviewStatus[r] # "absent"
  <2>1. /\ d \in Procs /\ LocalsOK /\ RowsOK /\ DriverAt(d)
        /\ r \in 1..lastReview /\ reviewStatus[r] # "approved"
        /\ verdict[d] \in {"approved", "changes_requested"}
    BY DEF Procs, DInv, DriverAt, WriteReview
  <2> HIDE DEF r
  <2>2. r \in Reviews /\ ~(r > lastReview)
    BY <2>1, GatesAssumption DEF RowsOK, Reviews
  <2> QED
    BY <2>1, <2>2 DEF RowsOK
<1>2. \A x \in Reviews : reviewStatus'[x] = IF x = r THEN verdict[d] ELSE reviewStatus[x]
  BY <1>1 DEF WriteReview, RowsOK
<1>3. Approved \subseteq Approved'
  BY <1>1, <1>2 DEF Approved
<1>4. RowsOK'
  <2>1. impls \in Nat /\ r \in Reviews
    BY <1>1 DEF RowsOK
  <2>2. reviewStatus' \in [Reviews -> ReviewStates] /\ reviewAt' \in [Reviews -> Nat]
    BY <1>1, <2>1 DEF WriteReview, RowsOK, ReviewStates, ReviewVerdicts
  <2>3. \A x \in Reviews : reviewStatus'[x] = "absent" <=> x > lastReview
    BY <1>1, <1>2 DEF RowsOK
  <2> QED
    BY <1>1, <2>2, <2>3 DEF WriteReview, RowsOK, session, quality
<1>5. Implementing' /\ DoneIsVerified' /\ ReworkSelectable'
  BY <1>3 DEF WriteReview, DInv, Implementing, DoneIsVerified, DoneHasEvidence,
     ReworkSelectable, session, quality
<1>6. CASE verdict[d] = "approved" /\ Goto(d, "resolve")
  <2>1. /\ LocalsOK' /\ at'[d] = "resolve"
        /\ UNCHANGED <<auto, seen, onReview, onQa, verdict, reason>>
    BY <1>1, <1>6, GoesTo DEF Places
  <2>2. Approved' # {}
    BY <1>1, <1>2, <1>6 DEF Approved
  <2>3. DriverAt(d)'
    BY <1>1, <1>6, <2>1, <2>2 DEF WriteReview, DriverAt, Gated, AtGates, AfterApproval,
       session
  <2> QED
    BY <1>4, <1>5, <2>1, <2>3, StepKeeps
<1>7. CASE verdict[d] = "changes_requested" /\ Goto(d, "request")
  <2>1. /\ LocalsOK' /\ at'[d] = "request"
        /\ UNCHANGED <<auto, seen, onReview, onQa, verdict, reason>>
    BY <1>1, <1>7, GoesTo DEF Places
  <2>2. DriverAt(d)'
    BY <1>1, <2>1 DEF WriteReview, DriverAt, Gated, AtGates, AfterApproval
  <2> QED
    BY <1>4, <1>5, <2>1, <2>2, StepKeeps
<1> QED
  BY <1>1, <1>6, <1>7 DEF WriteReview

LEMMA ResolveKeeps ==
  ASSUME DriverAlone, DInv, NEW d \in Drivers, ResolveChangeRequests(d)
  PROVE  DInv'
<1>1. d \in Procs /\ LocalsOK /\ RowsOK /\ DriverAt(d) /\ task = "in-review"
  BY DEF Procs, DInv, DriverAt, Gated, AtGates, AfterApproval, ResolveChangeRequests
<1>2. /\ LocalsOK' /\ at'[d] = "hold"
      /\ UNCHANGED <<auto, seen, onReview, onQa, verdict, reason>>
  BY <1>1, GoesTo DEF ResolveChangeRequests, Places
<1>3. RowsOK'
  BY <1>1 DEF ResolveChangeRequests, RowsOK, session, review, quality
<1>4. Implementing' /\ DoneIsVerified' /\ ReworkSelectable'
  BY <1>1 DEF ResolveChangeRequests, DInv, Implementing, DoneIsVerified,
     ReworkSelectable, session
<1>5. DriverAt(d)'
  BY <1>1, <1>2 DEF ResolveChangeRequests, DriverAt, Gated, AtGates, AfterApproval,
     Approved, session, review
<1> QED
  BY <1>2, <1>3, <1>4, <1>5, StepKeeps

LEMMA HoldKeeps ==
  ASSUME DriverAlone, DInv, NEW d \in Drivers, HoldInReview(d)
  PROVE  DInv'
<1>1. d \in Procs /\ LocalsOK /\ RowsOK /\ DriverAt(d) /\ task = "in-review"
  BY DEF Procs, DInv, DriverAt, Gated, AtGates, AfterApproval, HoldInReview
<1>2. /\ LocalsOK' /\ at'[d] = "openQa"
      /\ UNCHANGED <<auto, seen, onReview, onQa, verdict, reason>>
  BY <1>1, GoesTo DEF HoldInReview, Places
<1>3. UNCHANGED <<task, session, review, openCR, quality>>
  BY <1>1 DEF HoldInReview, MoveUnlessSettled
<1>4. DriverAt(d)'
  BY <1>1, <1>2, <1>3 DEF HoldInReview, DriverAt, Gated, AtGates, AfterApproval,
     Approved, session, review
<1> QED
  BY <1>2, <1>3, <1>4, RowsStay, StepKeeps

(* A new QA result is none of those that were there, and has not passed.   *)
LEMMA CreatesQa ==
  ASSUME RowsOK, NEW s \in QaStates \ {"absent"}, NEW c, CreateQa(s, c),
         UNCHANGED <<task, session, review, openCR>>
  PROVE  /\ RowsOK' /\ lastQa' = lastQa + 1 /\ lastQa + 1 \in Qas
         /\ QaPassed => QaPassed'
         /\ qaStatus'[lastQa + 1] = s
         /\ \A q \in Qas : qaStatus[q] # "absent" => qaStatus'[q] = qaStatus[q]
<1>1. lastQa + 1 \in Qas /\ lastQa \in Nat /\ MaxQas \in Nat
  BY GatesAssumption DEF RowsOK, CreateQa, Qas
<1>2. /\ lastQa' = lastQa + 1 /\ lastQa' \in 0..MaxQas
      /\ \A q \in Qas : qaStatus'[q] = IF q = lastQa + 1 THEN s ELSE qaStatus[q]
      /\ qaStatus' \in [Qas -> QaStates]
  BY <1>1 DEF CreateQa, RowsOK
<1>3. qaStatus[lastQa + 1] = "absent"
  BY <1>1 DEF RowsOK
<1>4. \A q \in Qas : qaStatus'[q] = "absent" <=> q > lastQa'
  BY <1>1, <1>2 DEF RowsOK, Qas
<1>5. RowsOK'
  BY <1>2, <1>4 DEF RowsOK, session, review
<1> QED
  BY <1>1, <1>2, <1>3, <1>5 DEF QaPassed

LEMMA OpenQaKeeps ==
  ASSUME DriverAlone, DInv, NEW d \in Drivers, OpenQa(d)
  PROVE  DInv'
<1>1. d \in Procs /\ LocalsOK /\ RowsOK /\ DriverAt(d) /\ task = "in-review"
  BY DEF Procs, DInv, DriverAt, Gated, AtGates, AfterApproval, OpenQa
<1>2. /\ LocalsOK' /\ at'[d] = "findQa"
      /\ UNCHANGED <<auto, seen, onReview, onQa, verdict, reason>>
  BY <1>1, GoesTo DEF OpenQa, Places
<1>3. RowsOK'
  BY <1>1, CreatesQa DEF OpenQa, QaStates
<1>4. Implementing' /\ DoneIsVerified' /\ ReworkSelectable'
  BY <1>1 DEF OpenQa, DInv, Implementing, DoneIsVerified, ReworkSelectable, session
<1>5. DriverAt(d)'
  BY <1>1, <1>2 DEF OpenQa, DriverAt, Gated, AtGates, AfterApproval, Approved, session,
     review
<1> QED
  BY <1>2, <1>3, <1>4, <1>5, StepKeeps

LEMMA RequestKeeps ==
  ASSUME DriverAlone, DInv, NEW d \in Drivers, RequestChanges(d)
  PROVE  DInv'
<1> DEFINE r == onReview[d]
<1>1. d \in Procs /\ LocalsOK /\ RowsOK /\ DriverAt(d) /\ r \in Reviews /\ reason[d]
  BY DEF Procs, DInv, DriverAt, RequestChanges
<1>2. /\ LocalsOK' /\ at'[d] = "sendBack"
      /\ UNCHANGED <<auto, seen, onReview, onQa, verdict, reason>>
  BY <1>1, GoesTo DEF RequestChanges, Places
<1>3. reviewAt[r] \in Nat /\ reviewAt[r] # None
  BY <1>1 DEF RowsOK, None
<1>4. /\ openCR' = [openCR EXCEPT ![r] = reviewAt[r]]
      /\ openCR' \in [Reviews -> Nat \cup {None}]
      /\ openCR'[r] # None
  BY <1>1, <1>3 DEF RequestChanges, RowsOK
<1>5. RowsOK'
  BY <1>1, <1>4 DEF RequestChanges, RowsOK, session, review, quality
<1>6. Implementing' /\ DoneIsVerified' /\ ReworkSelectable'
  BY <1>1, <1>4 DEF RequestChanges, DInv, Implementing, DoneIsVerified, DoneHasEvidence,
     Approved, ReworkSelectable, session, review, quality
<1>7. DriverAt(d)'
  BY <1>1, <1>2, <1>4 DEF RequestChanges, DriverAt, Gated, AtGates, AfterApproval
<1> QED
  BY <1>2, <1>5, <1>6, <1>7, StepKeeps

LEMMA SendBackKeeps ==
  ASSUME DriverAlone, DInv, NEW d \in Drivers, SendBack(d)
  PROVE  DInv'
<1>1. /\ d \in Procs /\ LocalsOK /\ RowsOK /\ DriverAt(d)
      /\ onReview[d] \in Reviews /\ openCR[onReview[d]] # None
  BY DEF Procs, DInv, DriverAt, SendBack
<1>2. LocalsOK' /\ at'[d] = "idle"
  BY <1>1, Ends DEF SendBack
<1>3. task' \in {"done", "cancelled", "in-progress"} /\ (task' = "done" => task = "done")
      /\ (task' = "cancelled" => task = "cancelled")
  BY DEF SendBack, MoveUnlessSettled
<1>4. RowsOK'
  BY <1>1, <1>3 DEF SendBack, RowsOK, TaskStatuses, session, review, quality
<1>5. Implementing' /\ DoneIsVerified' /\ ReworkSelectable'
  BY <1>1, <1>3 DEF SendBack, DInv, Implementing, DoneIsVerified, DoneHasEvidence,
     Approved, ReworkSelectable, session, review, quality
<1> QED
  BY <1>2, <1>4, <1>5, IdleRelies, StepKeeps

(* The driver records no verdict "blocked".                                *)
LEMMA NeverBlocks ==
  ASSUME DInv, NEW d \in Drivers
  PROVE  ~BlockTask(d)
  BY DEF DInv, DriverAt, BlockTask, AtGates, AfterApproval

---------------------------------------------------------------------------
(* recordQaResult.                                                         *)

LEMMA ReadQaKeeps ==
  ASSUME DriverAlone, DInv, NEW d \in Drivers, ReadQa(d)
  PROVE  DInv'
<1>1. d \in Procs /\ LocalsOK /\ DriverAt(d) /\ RowsOK
  BY DEF Procs, DInv
<1>2. RowsOK' /\ Implementing' /\ DoneIsVerified' /\ ReworkSelectable'
  BY RowsStay DEF ReadQa
<1>3. CASE End(d)
  BY <1>1, <1>2, <1>3, Ends, IdleRelies, StepKeeps
<1>4. ASSUME NEW l \in {"approval", "writeQa"}, Goto(d, l),
             Recordable(onQa[d], verdict[d]), l = "approval" => verdict[d] = "passed"
      PROVE  DInv'
  <2>1. /\ LocalsOK' /\ at'[d] = l
        /\ UNCHANGED <<auto, seen, onReview, onQa, verdict, reason>>
    BY <1>1, <1>4, GoesTo DEF Places
  <2>2. DriverAt(d)'
    BY <1>1, <1>4, <2>1 DEF ReadQa, DriverAt, Gated, AtGates, AfterApproval, Approved,
       Recordable, Verified, session, review, quality
  <2> QED
    BY <1>2, <2>1, <2>2, StepKeeps
<1> QED
  BY <1>3, <1>4 DEF ReadQa

LEMMA FindApprovalKeeps ==
  ASSUME DriverAlone, DInv, NEW d \in Drivers, FindApproval(d)
  PROVE  DInv'
<1>1. d \in Procs /\ LocalsOK /\ DriverAt(d) /\ RowsOK
  BY DEF Procs, DInv
<1>2. RowsOK' /\ Implementing' /\ DoneIsVerified' /\ ReworkSelectable'
  BY RowsStay DEF FindApproval
<1>3. CASE End(d)
  BY <1>1, <1>2, <1>3, Ends, IdleRelies, StepKeeps
<1>4. CASE Goto(d, "writeQa")
  <2>1. /\ LocalsOK' /\ at'[d] = "writeQa"
        /\ UNCHANGED <<auto, seen, onReview, onQa, verdict, reason>>
    BY <1>1, <1>4, GoesTo DEF Places
  <2>2. DriverAt(d)'
    BY <1>1, <1>4, <2>1 DEF FindApproval, DriverAt, Gated, AtGates, AfterApproval,
       Approved, Verified, session, review, quality
  <2> QED
    BY <1>2, <2>1, <2>2, StepKeeps
<1> QED
  BY <1>3, <1>4 DEF FindApproval

LEMMA WriteQaKeeps ==
  ASSUME DriverAlone, DInv, NEW d \in Drivers, WriteQa(d)
  PROVE  DInv'
<1> DEFINE q == onQa[d]
<1>1. /\ d \in Procs /\ LocalsOK /\ RowsOK /\ DriverAt(d)
      /\ q \in Qas /\ q <= lastQa /\ qaStatus[q] \notin TerminalQa
      /\ verdict[d] \in {"passed", "failed"} /\ qaStatus[q] # "absent"
      /\ task = "in-review"
  <2>1. /\ d \in Procs /\ LocalsOK /\ RowsOK /\ DriverAt(d)
        /\ q \in 1..lastQa /\ qaStatus[q] \notin TerminalQa
        /\ verdict[d] \in {"passed", "failed"} /\ task = "in-review"
    BY DEF Procs, DInv, DriverAt, Gated, AtGates, AfterApproval, WriteQa
  <2> HIDE DEF q
  <2>2. q \in Qas /\ q <= lastQa /\ ~(q > lastQa)
    BY <2>1, GatesAssumption DEF RowsOK, Qas
  <2> QED
    BY <2>1, <2>2 DEF RowsOK
<1>2. \A x \in Qas : qaStatus'[x] = IF x = q THEN verdict[d] ELSE qaStatus[x]
  BY <1>1 DEF WriteQa, RowsOK
<1>3. RowsOK'
  <2>1. qaStatus' \in [Qas -> QaStates]
    BY <1>1 DEF WriteQa, RowsOK, QaStates, QaVerdicts
  <2>2. \A x \in Qas : qaStatus'[x] = "absent" <=> x > lastQa
    BY <1>1, <1>2 DEF RowsOK
  <2> QED
    BY <1>1, <2>1, <2>2 DEF WriteQa, RowsOK, session, review
<1>4. Implementing' /\ DoneIsVerified' /\ ReworkSelectable'
  BY <1>1 DEF WriteQa, DInv, Implementing, DoneIsVerified, ReworkSelectable, session
<1>5. CASE verdict[d] = "passed" /\ Goto(d, "finish")
  <2>1. /\ LocalsOK' /\ at'[d] = "finish"
        /\ UNCHANGED <<auto, seen, onReview, onQa, verdict, reason>>
    BY <1>1, <1>5, GoesTo DEF Places
  <2>2. QaPassed'
    BY <1>1, <1>2, <1>5 DEF QaPassed
  <2>3. DriverAt(d)'
    BY <1>1, <1>5, <2>1, <2>2 DEF WriteQa, DriverAt, Gated, AtGates, AfterApproval,
       Approved, Verified, session, review
  <2> QED
    BY <1>3, <1>4, <2>1, <2>3, StepKeeps
<1>6. CASE verdict[d] = "failed" /\ Goto(d, "findReview")
  <2>1. /\ LocalsOK' /\ at'[d] = "findReview"
        /\ UNCHANGED <<auto, seen, onReview, onQa, verdict, reason>>
    BY <1>1, <1>6, GoesTo DEF Places
  <2>2. DriverAt(d)'
    BY <1>1, <2>1 DEF WriteQa, DriverAt, Gated, AtGates, AfterApproval, Approved,
       session, review
  <2> QED
    BY <1>3, <1>4, <2>1, <2>2, StepKeeps
<1> QED
  BY <1>1, <1>5, <1>6 DEF WriteQa

LEMMA FinishKeeps ==
  ASSUME DriverAlone, DInv, NEW d \in Drivers, FinishTask(d)
  PROVE  DInv'
<1>1. /\ d \in Procs /\ LocalsOK /\ RowsOK /\ DriverAt(d)
      /\ task = "in-review" /\ Verified /\ QaPassed /\ Approved # {}
  BY DEF Procs, DInv, DriverAt, Gated, AtGates, AfterApproval, FinishTask
<1>2. /\ LocalsOK' /\ at'[d] = "close"
      /\ UNCHANGED <<auto, seen, onReview, onQa, verdict, reason>>
  BY <1>1, GoesTo DEF FinishTask, Places
<1>3. task' = "done" /\ work = "idle"
  BY <1>1 DEF FinishTask, MoveUnlessSettled, DInv, Implementing
<1>4. RowsOK'
  BY <1>1, <1>3 DEF FinishTask, RowsOK, TaskStatuses, session, review, quality
<1>5. Implementing' /\ DoneIsVerified' /\ ReworkSelectable'
  BY <1>1, <1>3 DEF FinishTask, Implementing, DoneIsVerified, DoneHasEvidence, QaPassed,
     Verified, Approved, ReworkSelectable, session, review, quality
<1>6. DriverAt(d)'
  BY <1>2, <1>3 DEF DriverAt, Gated, AtGates, AfterApproval
<1> QED
  BY <1>2, <1>4, <1>5, <1>6, StepKeeps

LEMMA CloseKeeps ==
  ASSUME DriverAlone, DInv, NEW d \in Drivers, CloseRework(d)
  PROVE  DInv'
<1>1. d \in Procs /\ LocalsOK /\ RowsOK /\ task = "done"
  BY DEF Procs, DInv, DriverAt, CloseRework
<1>2. LocalsOK' /\ at'[d] = "idle"
  BY <1>1, Ends DEF CloseRework
<1>3. RowsOK'
  BY <1>1 DEF CloseRework, RowsOK, session, review, quality
<1>4. Implementing' /\ DoneIsVerified' /\ ReworkSelectable'
  BY <1>1 DEF CloseRework, DInv, Implementing, DoneIsVerified, DoneHasEvidence,
     Approved, ReworkSelectable, session, review, quality
<1> QED
  BY <1>2, <1>3, <1>4, IdleRelies, StepKeeps

LEMMA FindReviewedKeeps ==
  ASSUME DriverAlone, DInv, NEW d \in Drivers, FindReviewed(d)
  PROVE  DInv'
<1>1. d \in Procs /\ LocalsOK /\ RowsOK /\ DriverAt(d) /\ Approved # {}
  BY DEF Procs, DInv, DriverAt, AfterApproval, FindReviewed
<1>2. PICK r \in Approved :
         /\ at' = [at EXCEPT ![d] = "rework"]
         /\ onReview' = [onReview EXCEPT ![d] = r]
         /\ UNCHANGED <<auto, seen, onQa, verdict, reason>>
  BY <1>1 DEF FindReviewed
<1>3. r \in Reviews /\ r \in Nat
  BY DEF Approved, Reviews
<1>4. LocalsOK' /\ at'[d] = "rework" /\ onReview'[d] = r
  BY <1>1, <1>2, <1>3 DEF LocalsOK, Places
<1>5. RowsOK' /\ Implementing' /\ DoneIsVerified' /\ ReworkSelectable'
  BY RowsStay DEF FindReviewed
<1>6. DriverAt(d)'
  BY <1>1, <1>2, <1>3, <1>4 DEF FindReviewed, DriverAt, Gated, AtGates, AfterApproval,
     Approved, session, review
<1> QED
  BY <1>4, <1>5, <1>6, StepKeeps

LEMMA OpenReworkKeeps ==
  ASSUME DriverAlone, DInv, NEW d \in Drivers, OpenRework(d)
  PROVE  DInv'
<1> DEFINE r == onReview[d]
<1>1. /\ d \in Procs /\ LocalsOK /\ RowsOK /\ DriverAt(d)
      /\ r \in Reviews /\ reason[d] /\ task = "in-review"
  BY DEF Procs, DInv, DriverAt, Gated, AtGates, AfterApproval, OpenRework
<1>2. /\ LocalsOK' /\ at'[d] = "reopen"
      /\ UNCHANGED <<auto, seen, onReview, onQa, verdict, reason>>
  BY <1>1, GoesTo DEF OpenRework, Places
<1>3. impls \in Nat /\ impls # None
  BY <1>1 DEF RowsOK, None
<1>4. /\ openCR' = [openCR EXCEPT ![r] = impls]
      /\ openCR' \in [Reviews -> Nat \cup {None}]
      /\ openCR'[r] # None
  BY <1>1, <1>3 DEF OpenRework, NeedsRework, RowsOK
<1>5. RowsOK'
  BY <1>1, <1>4 DEF OpenRework, RowsOK, session, review, quality
<1>6. Implementing' /\ DoneIsVerified' /\ ReworkSelectable'
  BY <1>1 DEF OpenRework, DInv, Implementing, DoneIsVerified, ReworkSelectable, session
<1>7. DriverAt(d)'
  BY <1>1, <1>2, <1>4 DEF OpenRework, DriverAt, Gated, AtGates, AfterApproval, Approved,
     session, review
<1> QED
  BY <1>2, <1>5, <1>6, <1>7, StepKeeps

LEMMA ReopenKeeps ==
  ASSUME DriverAlone, DInv, NEW d \in Drivers, ReopenTask(d)
  PROVE  DInv'
<1>1. /\ d \in Procs /\ LocalsOK /\ RowsOK /\ DriverAt(d)
      /\ onReview[d] \in Reviews /\ openCR[onReview[d]] # None
  BY DEF Procs, DInv, DriverAt, ReopenTask
<1>2. LocalsOK' /\ at'[d] = "idle"
  BY <1>1, Ends DEF ReopenTask
<1>3. RowsOK'
  BY <1>1 DEF ReopenTask, RowsOK, TaskStatuses, session, review, quality
<1>4. Implementing' /\ DoneIsVerified' /\ ReworkSelectable'
  BY <1>1 DEF ReopenTask, Implementing, DoneIsVerified, ReworkSelectable
<1> QED
  BY <1>2, <1>3, <1>4, IdleRelies, StepKeeps

LEMMA ChecklistKeeps ==
  ASSUME DriverAlone, DInv, NEW d \in Drivers, AttachChecklist(d)
  PROVE  DInv'
<1>1. d \in Procs /\ LocalsOK /\ RowsOK
  BY DEF Procs, DInv
<1>2. LocalsOK' /\ at'[d] = "idle"
  BY <1>1, Ends DEF AttachChecklist
<1>3. RowsOK'
  BY <1>1 DEF AttachChecklist, RowsOK, session, review
<1>4. Implementing' /\ DoneIsVerified' /\ ReworkSelectable'
  BY DEF AttachChecklist, DInv, Implementing, DoneIsVerified, DoneHasEvidence, Approved,
     ReworkSelectable, session, review
<1> QED
  BY <1>2, <1>3, <1>4, IdleRelies, StepKeeps

---------------------------------------------------------------------------
(* advanceTaskGates, and the pull requests.                                *)

LEMMA BeginKeeps ==
  ASSUME DriverAlone, DInv, NEW d \in Drivers, BeginGates(d)
  PROVE  DInv'
<1>1. d \in Procs /\ LocalsOK
  BY DEF Procs, DInv
<1>2. PICK allowed \in BOOLEAN : auto' = [auto EXCEPT ![d] = allowed]
  BY GatesAssumption DEF BeginGates
<1>3. LocalsOK' /\ at'[d] = "session"
  BY <1>1, <1>2 DEF BeginGates, LocalsOK, Places
<1>4. RowsOK' /\ Implementing' /\ DoneIsVerified' /\ ReworkSelectable'
  BY RowsStay DEF BeginGates
<1>5. DriverAt(d)'
  BY <1>3 DEF BeginGates, DriverAt, Gated, AtGates, AfterApproval
<1> QED
  BY <1>3, <1>4, <1>5, StepKeeps

LEMMA ReadSessionKeeps ==
  ASSUME DriverAlone, DInv, NEW d \in Drivers, ReadSession(d)
  PROVE  DInv'
<1>1. /\ d \in Procs /\ LocalsOK /\ RowsOK /\ DriverAt(d)
      /\ task = "in-review" /\ impls \in Nat
  BY DEF Procs, DInv, DriverAt, Gated, AtGates, ReadSession, RowsOK
<1>2. LocalsOK' /\ at'[d] = "latestReview" /\ seen'[d] = impls
  BY <1>1 DEF ReadSession, LocalsOK, Places
<1>3. RowsOK' /\ Implementing' /\ DoneIsVerified' /\ ReworkSelectable'
  BY RowsStay DEF ReadSession
<1>4. DriverAt(d)'
  BY <1>1, <1>2 DEF ReadSession, DriverAt, Gated, AtGates, AfterApproval, session
<1> QED
  BY <1>2, <1>3, <1>4, StepKeeps

LEMMA LatestReviewKeeps ==
  ASSUME DriverAlone, DInv, NEW d \in Drivers, ReadLatestReview(d)
  PROVE  DInv'
<1>1. /\ d \in Procs /\ LocalsOK /\ RowsOK /\ DriverAt(d)
      /\ task = "in-review" /\ seen[d] = impls
  BY DEF Procs, DInv, DriverAt, Gated, AtGates, ReadLatestReview
<1>2. RowsOK' /\ Implementing' /\ DoneIsVerified' /\ ReworkSelectable'
  BY RowsStay DEF ReadLatestReview
<1>3. CASE End(d)
  BY <1>1, <1>2, <1>3, Ends, IdleRelies, StepKeeps
<1>4. CASE Goto(d, "newReview")
  <2>1. /\ LocalsOK' /\ at'[d] = "newReview"
        /\ UNCHANGED <<auto, seen, onReview, onQa, verdict, reason>>
    BY <1>1, <1>4, GoesTo DEF Places
  <2>2. DriverAt(d)'
    BY <1>1, <2>1 DEF ReadLatestReview, DriverAt, Gated, AtGates, AfterApproval, session
  <2> QED
    BY <1>2, <2>1, <2>2, StepKeeps
<1>5. CASE lastReview # 0 /\ RecordReview(d, lastReview, "approved", TRUE)
  <2>1. lastReview \in 1..lastReview /\ lastReview \in Nat
    BY <1>1, <1>5 DEF RowsOK
  <2>2. /\ LocalsOK' /\ at'[d] = "readReview"
        /\ onReview'[d] = lastReview /\ verdict'[d] = "approved" /\ reason'[d] = TRUE
        /\ UNCHANGED <<auto, seen, onQa>>
    BY <1>1, <1>5, <2>1, TakesReview DEF ReviewVerdicts
  <2>3. DriverAt(d)'
    BY <1>1, <2>1, <2>2 DEF ReadLatestReview, DriverAt, Gated, AtGates, AfterApproval,
       session, review
  <2> QED
    BY <1>2, <2>2, <2>3, StepKeeps
<1>6. CASE lastReview # 0 /\ reviewStatus[lastReview] = "approved" /\ Goto(d, "findQa")
  <2>1. /\ LocalsOK' /\ at'[d] = "findQa"
        /\ UNCHANGED <<auto, seen, onReview, onQa, verdict, reason>>
    BY <1>1, <1>6, GoesTo DEF Places
  <2>2. lastReview \in Approved
    BY <1>1, <1>6, GatesAssumption DEF Approved, Reviews, RowsOK
  <2>3. DriverAt(d)'
    BY <1>1, <2>1, <2>2 DEF ReadLatestReview, DriverAt, Gated, AtGates, AfterApproval,
       Approved, session, review
  <2> QED
    BY <1>2, <2>1, <2>3, StepKeeps
<1> QED
  BY <1>3, <1>4, <1>5, <1>6 DEF ReadLatestReview

(* A new review is none of those that were there, and is not approved.     *)
LEMMA CreatesReview ==
  ASSUME RowsOK, NEW by, CreateReview(by), UNCHANGED <<task, session, openCR, quality>>
  PROVE  /\ RowsOK' /\ lastReview' = lastReview + 1 /\ lastReview + 1 \in Reviews
         /\ lastReview \in Nat
         /\ Approved' = Approved
<1>1. lastReview + 1 \in Reviews /\ lastReview \in Nat /\ MaxReviews \in Nat /\ impls \in Nat
  BY GatesAssumption DEF RowsOK, CreateReview, Reviews
<1>2. /\ lastReview' = lastReview + 1 /\ lastReview' \in 0..MaxReviews
      /\ \A r \in Reviews :
            reviewStatus'[r] = IF r = lastReview + 1 THEN "pending" ELSE reviewStatus[r]
      /\ reviewStatus' \in [Reviews -> ReviewStates]
      /\ reviewAt' \in [Reviews -> Nat]
  BY <1>1 DEF CreateReview, RowsOK, ReviewStates
<1>3. reviewStatus[lastReview + 1] = "absent"
  BY <1>1 DEF RowsOK
<1>4. \A r \in Reviews : reviewStatus'[r] = "absent" <=> r > lastReview'
  BY <1>1, <1>2 DEF RowsOK, Reviews
<1>5. RowsOK'
  BY <1>2, <1>4 DEF RowsOK, session, quality
<1> QED
  BY <1>1, <1>2, <1>3, <1>5 DEF Approved

LEMMA OpenReviewKeeps ==
  ASSUME DriverAlone, DInv, NEW d \in Drivers, OpenReview(d)
  PROVE  DInv'
<1>1. /\ d \in Procs /\ LocalsOK /\ RowsOK /\ DriverAt(d)
      /\ task = "in-review" /\ seen[d] = impls
  BY DEF Procs, DInv, DriverAt, Gated, AtGates, OpenReview
<1>2. /\ RowsOK' /\ lastReview' = lastReview + 1 /\ lastReview + 1 \in Reviews
      /\ lastReview \in Nat /\ Approved' = Approved
  BY <1>1, CreatesReview DEF OpenReview
<1>3. Implementing' /\ DoneIsVerified' /\ ReworkSelectable'
  BY <1>1 DEF OpenReview, DInv, Implementing, DoneIsVerified, ReworkSelectable, session
<1>4. CASE End(d)
  BY <1>1, <1>2, <1>3, <1>4, Ends, IdleRelies, StepKeeps
<1>5. CASE RecordReview(d, lastReview + 1, "approved", TRUE)
  <2> DEFINE r == lastReview + 1
  <2>a. r \in Nat /\ "approved" \in ReviewVerdicts
    BY <1>2 DEF ReviewVerdicts
  <2>b. RecordReview(d, r, "approved", TRUE)
    BY <1>5
  <2> HIDE DEF r
  <2>1. /\ LocalsOK' /\ at'[d] = "readReview"
        /\ onReview'[d] = r /\ verdict'[d] = "approved" /\ reason'[d] = TRUE
        /\ UNCHANGED <<auto, seen, onQa>>
    BY <1>1, <2>a, <2>b, TakesReview
  <2>2. DriverAt(d)'
    BY <1>1, <1>2, <2>1 DEF r, OpenReview, DriverAt, Gated, AtGates, AfterApproval,
       session
  <2> QED
    BY <1>2, <1>3, <2>1, <2>2, StepKeeps
<1> QED
  BY <1>4, <1>5 DEF OpenReview

(* The gate runner holds, or goes on to the checks that ran.               *)
LEMMA GateKeeps ==
  ASSUME DriverAlone, NEW d \in Drivers, LocalsOK, NEW q \in 1..lastQa', lastQa' \in Nat,
         RowsOK', Implementing', DoneIsVerified', ReworkSelectable', Gate(d, q),
         task' = "in-review", seen[d] = impls, impls \in Nat, Approved' # {},
         UNCHANGED session
  PROVE  DInv'
<1>1. d \in Procs
  BY DEF Procs
<1>2. LocalsOK' /\ onQa'[d] = q /\ seen' = seen
  BY <1>1 DEF Gate, LocalsOK, Places
<1>3. \/ at'[d] = "checklist"
      \/ at'[d] = "checks" /\ impls # 0 /\ evidence[impls] # "none"
  BY <1>1 DEF Gate, MustHold, LocalsOK
<1>4. DriverAt(d)'
  BY <1>2, <1>3 DEF DriverAt, Gated, AtGates, AfterApproval, session
<1> QED
  BY <1>2, <1>4, StepKeeps

LEMMA FindQaKeeps ==
  ASSUME DriverAlone, DInv, NEW d \in Drivers, FindQa(d)
  PROVE  DInv'
<1>1. /\ d \in Procs /\ LocalsOK /\ RowsOK /\ DriverAt(d)
      /\ task = "in-review" /\ seen[d] = impls /\ Approved # {} /\ impls \in Nat
  BY DEF Procs, DInv, DriverAt, Gated, AtGates, AfterApproval, FindQa, RowsOK
<1>2. /\ RowsOK' /\ Implementing' /\ DoneIsVerified' /\ ReworkSelectable'
      /\ Approved' = Approved
  BY RowsStay DEF FindQa
<1>3. CASE End(d)
  BY <1>1, <1>2, <1>3, Ends, IdleRelies, StepKeeps
<1>4. CASE Goto(d, "newQa")
  <2>1. /\ LocalsOK' /\ at'[d] = "newQa"
        /\ UNCHANGED <<auto, seen, onReview, onQa, verdict, reason>>
    BY <1>1, <1>4, GoesTo DEF Places
  <2>2. DriverAt(d)'
    BY <1>1, <1>2, <2>1 DEF FindQa, DriverAt, Gated, AtGates, AfterApproval, session
  <2> QED
    BY <1>2, <2>1, <2>2, StepKeeps
<1>5. ASSUME NEW q \in OpenQas, Gate(d, q)
      PROVE  DInv'
  <2>1. q \in 1..lastQa /\ lastQa \in Nat
    BY <1>1 DEF OpenQas, Qas, RowsOK
  <2>2. lastQa' = lastQa /\ task' = task /\ UNCHANGED session
    BY DEF FindQa, quality
  <2> QED
    BY <1>1, <1>2, <1>5, <2>1, <2>2, GateKeeps
<1> QED
  BY <1>3, <1>4, <1>5 DEF FindQa

LEMMA MissingQaKeeps ==
  ASSUME DriverAlone, DInv, NEW d \in Drivers, OpenMissingQa(d)
  PROVE  DInv'
<1>1. /\ d \in Procs /\ LocalsOK /\ RowsOK /\ DriverAt(d)
      /\ task = "in-review" /\ seen[d] = impls /\ Approved # {} /\ impls \in Nat
  BY DEF Procs, DInv, DriverAt, Gated, AtGates, AfterApproval, OpenMissingQa, RowsOK
<1>2. RowsOK' /\ lastQa' = lastQa + 1 /\ lastQa \in Nat
  <2>1. CreateQa("pending", "none") /\ UNCHANGED <<task, session, review, openCR>>
    BY DEF OpenMissingQa
  <2>2. "pending" \in QaStates \ {"absent"}
    BY DEF QaStates
  <2>3. RowsOK' /\ lastQa' = lastQa + 1
    BY <1>1, <2>1, <2>2, CreatesQa
  <2> QED
    BY <1>1, <2>3 DEF RowsOK
<1>3. Implementing' /\ DoneIsVerified' /\ ReworkSelectable' /\ Approved' = Approved
  BY <1>1 DEF OpenMissingQa, DInv, Implementing, DoneIsVerified, ReworkSelectable,
     Approved, session, review
<1>4. lastQa + 1 \in 1..lastQa' /\ lastQa' \in Nat /\ Gate(d, lastQa + 1)
  BY <1>2 DEF OpenMissingQa
<1> QED
  BY <1>1, <1>2, <1>3, <1>4, GateKeeps DEF OpenMissingQa

LEMMA ChecksKeep ==
  ASSUME DriverAlone, DInv, NEW d \in Drivers, RecordChecks(d)
  PROVE  DInv'
<1> DEFINE v == VerdictOf(IF seen[d] = 0 THEN "none" ELSE evidence[seen[d]])
<1>1. /\ d \in Procs /\ LocalsOK /\ RowsOK /\ DriverAt(d)
      /\ task = "in-review" /\ seen[d] = impls /\ Approved # {}
      /\ onQa[d] \in 1..lastQa /\ impls > 0 /\ evidence[impls] # "none"
  BY DEF Procs, DInv, DriverAt, Gated, AtGates, AfterApproval, RecordChecks
<1>2. evidence[impls] \in EvidenceKinds
  <2>1. impls \in Attempts
    BY <1>1, GatesAssumption DEF RowsOK, Attempts
  <2> QED
    BY <1>1, <2>1 DEF RowsOK
<1>3. v \in {"passed", "failed"} /\ (v = "passed" => evidence[impls] = "pass")
  BY <1>1, <1>2 DEF VerdictOf, EvidenceKinds, RowsOK
<1>4. RecordQa(d, onQa[d], v, TRUE)
  BY DEF RecordChecks
<1> HIDE DEF v
<1>5. /\ LocalsOK' /\ at'[d] = "readQa"
      /\ onQa'[d] = onQa[d] /\ verdict'[d] = v /\ reason'[d] = TRUE
      /\ UNCHANGED <<auto, seen, onReview>>
  <2>1. v \in QaVerdicts /\ onQa[d] \in Nat
    BY <1>1, <1>3 DEF QaVerdicts, LocalsOK
  <2> QED
    BY <1>1, <1>4, <2>1, TakesQa
<1>6. RowsOK'
  BY <1>1 DEF RecordChecks, RowsOK, session, review
<1>7. Implementing' /\ DoneIsVerified' /\ ReworkSelectable'
  BY <1>1 DEF RecordChecks, DInv, Implementing, DoneIsVerified, ReworkSelectable, session
<1>8. DriverAt(d)'
  BY <1>1, <1>3, <1>5 DEF RecordChecks, DriverAt, Gated, AtGates, AfterApproval,
     Approved, Verified, session, review
<1> QED
  BY <1>5, <1>6, <1>7, <1>8, StepKeeps

LEMMA PollKeeps ==
  ASSUME DriverAlone, DInv, NEW d \in Drivers, PollFeedback(d)
  PROVE  DInv'
<1>1. d \in Procs /\ LocalsOK
  BY DEF Procs, DInv
<1>2. /\ LocalsOK' /\ at'[d] = "outside"
      /\ UNCHANGED <<auto, seen, onReview, onQa, verdict, reason>>
  BY <1>1, GoesTo DEF PollFeedback, Places
<1>3. RowsOK' /\ Implementing' /\ DoneIsVerified' /\ ReworkSelectable'
  BY RowsStay DEF PollFeedback
<1>4. DriverAt(d)'
  BY <1>2 DEF DriverAt, Gated, AtGates, AfterApproval
<1> QED
  BY <1>2, <1>3, <1>4, StepKeeps

LEMMA OutsideKeeps ==
  ASSUME DriverAlone, DInv, NEW d \in Drivers, OpenOutsideReview(d)
  PROVE  DInv'
<1>1. d \in Procs /\ LocalsOK /\ RowsOK
  BY DEF Procs, DInv
<1>2. /\ RowsOK' /\ lastReview' = lastReview + 1 /\ lastReview + 1 \in Reviews
      /\ lastReview \in Nat /\ Approved' = Approved
  BY <1>1, CreatesReview DEF OpenOutsideReview
<1>3. Implementing' /\ DoneIsVerified' /\ ReworkSelectable'
  BY <1>2 DEF OpenOutsideReview, DInv, Implementing, DoneIsVerified, DoneHasEvidence,
     ReworkSelectable, session, quality
<1>4. /\ LocalsOK' /\ at'[d] = "readReview" /\ onReview'[d] = lastReview + 1
      /\ verdict'[d] = "changes_requested" /\ reason'[d] = TRUE
  <2> DEFINE r == lastReview + 1
  <2>a. r \in Nat /\ "changes_requested" \in ReviewVerdicts
    BY <1>2 DEF ReviewVerdicts
  <2>b. RecordReview(d, r, "changes_requested", TRUE)
    BY DEF OpenOutsideReview
  <2> HIDE DEF r
  <2>2. /\ LocalsOK' /\ at'[d] = "readReview" /\ onReview'[d] = r
        /\ verdict'[d] = "changes_requested" /\ reason'[d] = TRUE
    BY <1>1, <2>a, <2>b, TakesReview
  <2> QED
    BY <2>2 DEF r
<1>5. DriverAt(d)'
  BY <1>2, <1>4 DEF DriverAt, Gated, AtGates, AfterApproval
<1> QED
  BY <1>2, <1>3, <1>4, <1>5, StepKeeps

LEMMA CrashKeeps ==
  ASSUME DriverAlone, DInv, NEW d \in Drivers, Crash(d)
  PROVE  DInv'
<1>1. LocalsOK' /\ at'[d] = "idle"
  BY Ends DEF Crash, DInv, Procs
<1>2. RowsOK' /\ Implementing' /\ DoneIsVerified' /\ ReworkSelectable'
  BY RowsStay DEF Crash
<1> QED
  BY <1>1, <1>2, IdleRelies, StepKeeps

---------------------------------------------------------------------------
(* The implementation, meanwhile.                                          *)

(* It goes on only while no call relies on the task being in review.       *)
LEMMA WorkKeeps ==
  ASSUME DriverAlone, DInv, WorkStep
  PROVE  DInv'
<1>1. RowsOK /\ LocalsOK /\ LocalsOK'
  BY DEF DInv, LocalsOK, WorkStep, StartWork, BeginSession, BlockExhaustedTask,
     CompleteSession, FailSession, MarkTask, local
<1>2. task \in {"todo", "in-progress"} \/ UNCHANGED <<task, impls, evidence>>
  BY DEF DInv, Implementing, WorkStep, StartWork, BlockExhaustedTask, Executable,
     CompleteSession, FailSession, MarkTask
<1>3. RowsOK'
  <2>1. CASE StartWork
    BY <1>1, <2>1, GatesAssumption DEF StartWork, BeginSession, RowsOK, review, quality
  <2>2. CASE BlockExhaustedTask
    BY <1>1, <2>2 DEF BlockExhaustedTask, MoveUnlessSettled, RowsOK, TaskStatuses,
       session, review, quality
  <2>3. CASE CompleteSession
    <3>1. PICK e \in EvidenceKinds : evidence' = [evidence EXCEPT ![impls + 1] = e]
      BY <2>3, GatesAssumption DEF CompleteSession
    <3>2. evidence' \in [Attempts -> EvidenceKinds]
      BY <1>1, <3>1 DEF RowsOK
    <3> QED
      BY <1>1, <2>3, <3>2 DEF CompleteSession, RowsOK, review, quality
  <2>4. CASE FailSession
    BY <1>1, <2>4 DEF FailSession, RowsOK, review, quality
  <2>5. CASE MarkTask
    BY <1>1, <2>5 DEF MarkTask, RowsOK, TaskStatuses, review, quality
  <2> QED
    BY <2>1, <2>2, <2>3, <2>4, <2>5 DEF WorkStep
<1>4. /\ UNCHANGED <<openCR, lastReview, reviewStatus, lastQa, qaStatus, local>>
      /\ task' = "in-progress" => task = "in-progress"
      /\ task' = "done" => task = "done"
      /\ work' # "idle" => task' \in {"todo", "in-progress"}
  BY DEF DInv, Implementing, WorkStep, StartWork, Executable, BeginSession,
     BlockExhaustedTask, MoveUnlessSettled, CompleteSession, FailSession, MarkTask,
     review, quality, local, session
<1>5. Implementing' /\ DoneIsVerified' /\ ReworkSelectable'
  BY <1>2, <1>4 DEF DInv, Implementing, DoneIsVerified, DoneHasEvidence, Approved,
     ReworkSelectable
<1>6. ASSUME NEW d \in Drivers
      PROVE  DriverAt(d)'
  <2>1. DriverAt(d)
    BY DEF DInv
  <2>2. UNCHANGED <<at, seen, onReview, onQa, verdict, reason>>
    BY <1>4 DEF local
  <2>3. CASE task \in {"todo", "in-progress"}
    <3>1. ~Gated(d) /\ at[d] # "close"
      BY <2>1, <2>3 DEF DriverAt
    <3> QED
      BY <1>4, <2>1, <2>2, <3>1 DEF DriverAt, Gated, AtGates, AfterApproval
  <2>4. CASE UNCHANGED <<task, impls, evidence>>
    BY <1>4, <2>1, <2>2, <2>4 DEF DriverAt, Gated, Approved, Verified, QaPassed
  <2> QED
    BY <1>2, <2>3, <2>4
<1> QED
  BY <1>1, <1>3, <1>5, <1>6 DEF DInv

LEMMA DriverInit == Init => DInv
<1> SUFFICES ASSUME Init PROVE DInv
  OBVIOUS
<1>1. RowsOK
  BY GatesAssumption DEF Init, RowsOK, TaskStatuses, EvidenceKinds, ReviewStates,
     QaStates, Reviews, Qas, None
<1>2. LocalsOK
  BY DEF Init, LocalsOK, Places
<1>3. \A d \in Drivers : DriverAt(d)
  BY DEF Init, DriverAt, Gated, AtGates, AfterApproval, Procs
<1> QED
  BY <1>1, <1>2, <1>3 DEF Init, DInv, Implementing, DoneIsVerified, ReworkSelectable

LEMMA DriverStepKeeps ==
  ASSUME DriverAlone, DInv, [Next]_vars
  PROVE  DInv'
<1>1. ASSUME NEW d \in Drivers, RecorderStep(d)
      PROVE  DInv'
  BY <1>1, ReadReviewKeeps, WriteReviewKeeps, ResolveKeeps, HoldKeeps, OpenQaKeeps,
     RequestKeeps, SendBackKeeps, NeverBlocks, ReadQaKeeps, FindApprovalKeeps,
     WriteQaKeeps, FinishKeeps, CloseKeeps, FindReviewedKeeps, OpenReworkKeeps,
     ReopenKeeps, ChecklistKeeps, OutsideKeeps
  DEF RecorderStep
<1>2. ASSUME NEW d \in Drivers, DriverStep(d) \/ PollFeedback(d) \/ Crash(d)
      PROVE  DInv'
  BY <1>1, <1>2, BeginKeeps, ReadSessionKeeps, LatestReviewKeeps, OpenReviewKeeps,
     FindQaKeeps, MissingQaKeeps, ChecksKeep, PollKeeps, CrashKeeps
  DEF DriverStep
<1>3. CASE UNCHANGED vars
  <2>1. UNCHANGED <<task, session, review, openCR, quality, local>>
    BY <1>3 DEF vars
  <2>2. RowsOK' /\ Implementing' /\ DoneIsVerified' /\ ReworkSelectable'
    BY <2>1, RowsStay
  <2>3. LocalsOK'
    BY <2>1 DEF DInv, LocalsOK, local
  <2>4. \A d \in Drivers : DriverAt(d)'
    BY <2>1 DEF DInv, DriverAt, Gated, Approved, Verified, QaPassed, session, review,
       quality, local
  <2> QED
    BY <2>2, <2>3, <2>4 DEF DInv
<1> QED
  BY <1>2, <1>3, WorkKeeps DEF Next, DriverAlone, Procs

(* Only an implementation, or a call that still rests on its approval,     *)
(* moves a task, and none of them one that is done.                        *)
LEMMA DoneStays ==
  ASSUME DriverAlone, DInv, [Next]_vars
  PROVE  DoneIsFinal
<1> SUFFICES ASSUME task = "done"
             PROVE  task' = "done"
  BY DEF DoneIsFinal
<1>1. CASE WorkStep
  BY <1>1 DEF WorkStep, StartWork, BeginSession, BlockExhaustedTask, MoveUnlessSettled,
     CompleteSession, FailSession, MarkTask
<1>2. ASSUME NEW d \in Drivers, RecorderStep(d)
      PROVE  task' = "done"
  <2>1. ~BlockTask(d)
    BY NeverBlocks
  <2>2. ~ReopenTask(d)
    BY DEF DInv, DriverAt, Gated, AtGates, AfterApproval, ReopenTask
  <2> QED
    BY <1>2, <2>1, <2>2 DEF RecorderStep, ReadReview, WriteReview, MoveUnlessSettled,
       ResolveChangeRequests, HoldInReview, OpenQa, RequestChanges, SendBack, ReadQa,
       FindApproval, WriteQa, FinishTask, CloseRework, FindReviewed, OpenRework,
       AttachChecklist, OpenOutsideReview
<1>3. ASSUME NEW d \in Drivers, DriverStep(d) \/ PollFeedback(d) \/ Crash(d)
      PROVE  task' = "done"
  BY <1>2, <1>3 DEF DriverStep, BeginGates, ReadSession, ReadLatestReview, OpenReview,
     FindQa, OpenMissingQa, RecordChecks, PollFeedback, Crash
<1>4. CASE UNCHANGED vars
  BY <1>4 DEF vars
<1> QED
  BY <1>1, <1>3, <1>4 DEF Next, DriverAlone, Procs

LEMMA DriverLife ==
  ASSUME DriverAlone
  PROVE  MCSpec => [](life = "driver" => DInv)
<1> DEFINE I == life = "driver" => DInv
<1>1. MCInit => I
  BY DriverInit DEF MCInit
<1>2. I /\ [MCNext]_<<life, vars>> => I'
  <2>1. ASSUME I, MCNext, life' = "driver"
        PROVE  DInv'
    BY <2>1, DriverStepKeeps DEF MCNext
  <2>2. ASSUME I, UNCHANGED <<life, vars>>, life' = "driver"
        PROVE  DInv'
    BY <2>2, DriverStepKeeps
  <2> QED
    BY <2>1, <2>2
<1> HIDE DEF I
<1>3. MCSpec => []I
  BY <1>1, <1>2, PTL DEF MCSpec
<1> QED
  BY <1>3 DEF I

(* Whatever its checks show, whoever may decide, however often the pull    *)
(* request is red or the driver dies: a task the driver finishes has an    *)
(* approved review, a passed QA result, and an implementation whose checks *)
(* ran and passed, which is its latest (gate-advancement-service.ts).      *)
THEOREM DoneOnlyVerified ==
  ASSUME DriverAlone
  PROVE  MCSpec => []DriverVerifies
<1>1. (life = "driver" => DInv) => DriverVerifies
  BY DEF DInv, DriverVerifies
<1> QED
  BY <1>1, DriverLife, PTL

(* A task in implementation has an unresolved change request, so that the  *)
(* selection finds it, also when the driver dies between the request and   *)
(* the move (task-selection-service.ts, review-service.ts).                *)
THEOREM SentBackIsSelectable ==
  ASSUME DriverAlone
  PROVE  MCSpec => []DriverSendsBack
<1>1. (life = "driver" => DInv) => DriverSendsBack
  BY DEF DInv, DriverSendsBack
<1> QED
  BY <1>1, DriverLife, PTL

(* The driver pulls no finished task back, not even for a red pull request *)
(* (MUS-287).                                                              *)
THEOREM DoneIsLeftAlone ==
  ASSUME DriverAlone
  PROVE  MCSpec => DriverLeavesDone
<1>1. (life = "driver" => DInv) /\ [MCNext]_<<life, vars>>
         => [life = "driver" => DoneIsFinal]_vars
  BY DoneStays DEF MCNext
<1> QED
  BY <1>1, DriverLife, PTL DEF MCSpec, DriverLeavesDone

---------------------------------------------------------------------------
(* Change requests are addressed.  One that dates from the implementation  *)
(* under review must not be resolved: it stays clear of the driver's       *)
(* approvals because its review is the latest, or because that             *)
(* implementation has failed its checks and cannot pass.  The hypothesis   *)
(* is one crash at most: a second one can leave the review of a red pull   *)
(* request pending on top of such a failure, and the gates, which take     *)
(* over any pending review, approve it and resolve both.                   *)

Fresh == \E r \in Reviews : openCR[r] = impls

(* The latest review is that of a red pull request, its request is open.   *)
FeedbackDisputed ==
    /\ lastReview \in Reviews
    /\ reviewBy[lastReview] = "feedback"
    /\ reviewStatus[lastReview] = "changes_requested" /\ reviewAt[lastReview] = impls
    /\ openCR[lastReview] # None

(* The implementation has failed QA, and the task is still in review: its  *)
(* last review is approved, or a red pull request is adding one.           *)
FailedQa(d) ==
    /\ task = "in-review" /\ evidence[impls] = "fail" /\ lastReview \in Reviews
    /\ crashes > 0 \/ at[d] = "reopen"
    /\ \/ reviewStatus[lastReview] = "approved"
       \/ at[d] \in {"readReview", "writeReview"} /\ verdict[d] = "changes_requested"
       \/ at[d] = "request" /\ reviewAt[lastReview] = impls

Undecided(d) ==
    (task = "in-review" \/ work = "completed") /\ Fresh => FeedbackDisputed \/ FailedQa(d)

Dated ==
    /\ reviewBy \in [Reviews -> {"nobody", "gate", "feedback", "steer", "ceo"}]
    /\ \A r \in Reviews : openCR[r] <= impls /\ reviewAt[r] <= impls
    /\ crashes \in 0..MaxCrashes

(* What the places of a call rely on, besides.                             *)
AddressAt(d) ==
    /\ at[d] \in {"readReview", "writeReview", "request"} => onReview[d] = lastReview
    /\ at[d] \in {"readReview", "writeReview"} => reviewStatus[lastReview] = "pending"
    /\ at[d] = "request" =>
          reviewStatus[lastReview] = "changes_requested" /\ verdict[d] # "approved"
    /\ at[d] \in {"readReview", "writeReview", "request"} /\ verdict[d] # "approved" =>
          reviewBy[lastReview] = "feedback"
    /\ at[d] \in AfterApproval =>
          lastReview \in Reviews /\ reviewStatus[lastReview] = "approved"
    /\ at[d] \in {"newReview", "resolve", "close"} => ~Fresh
    /\ at[d] \in {"readReview", "writeReview"} /\ verdict[d] = "approved" => ~Fresh
    /\ at[d] \in {"readQa", "approval", "writeQa"} /\ verdict[d] = "failed" =>
          evidence[impls] = "fail"
    /\ at[d] \in {"findReview", "rework", "reopen"} => evidence[impls] = "fail"
    /\ at[d] = "outside" => NoOpenFeedback

AInv == Dated /\ \A d \in Drivers : AddressAt(d) /\ Undecided(d)

LEMMA AddressKeeps ==
  ASSUME DriverAlone, NEW d \in Drivers, Dated', AddressAt(d)', Undecided(d)'
  PROVE  AInv'
  BY DEF AInv, DriverAlone

LEMMA IdleAddresses ==
  ASSUME NEW d, at'[d] = "idle"
  PROVE  AddressAt(d)'
  BY DEF AddressAt, AfterApproval

(* What a step keeps that touches neither review nor implementation.       *)
LEMMA DatesStay ==
  ASSUME Dated, UNCHANGED <<session, review, openCR, crashes>>
  PROVE  /\ Dated' /\ Fresh' = Fresh /\ FeedbackDisputed' = FeedbackDisputed
         /\ NoOpenFeedback' = NoOpenFeedback
  BY DEF Dated, Fresh, FeedbackDisputed, NoOpenFeedback, session, review

LEMMA ReadReviewAddresses ==
  ASSUME DriverAlone, DInv, AInv, NEW d \in Drivers, ReadReview(d)
  PROVE  AInv'
<1>1. d \in Procs /\ LocalsOK /\ AddressAt(d) /\ Undecided(d) /\ Dated /\ DriverAt(d)
  BY DEF Procs, DInv, AInv
<1>2. /\ Dated' /\ Fresh' = Fresh /\ FeedbackDisputed' = FeedbackDisputed
      /\ NoOpenFeedback' = NoOpenFeedback
  BY <1>1, DatesStay DEF ReadReview, bounds
<1>3. Goto(d, "writeReview")
  BY <1>1 DEF ReadReview, AddressAt
<1>4. /\ at'[d] = "writeReview"
      /\ UNCHANGED <<auto, seen, onReview, onQa, verdict, reason>>
  BY <1>1, <1>3, GoesTo DEF Places
<1>5. AddressAt(d)'
  BY <1>1, <1>2, <1>4 DEF ReadReview, AddressAt, AfterApproval, session, review
<1>6. Undecided(d)'
  BY <1>1, <1>2, <1>4 DEF ReadReview, Undecided, FailedQa, session, review, bounds
<1> QED
  BY <1>2, <1>5, <1>6, AddressKeeps

LEMMA WriteReviewAddresses ==
  ASSUME DriverAlone, DInv, AInv, NEW d \in Drivers, WriteReview(d)
  PROVE  AInv'
<1> DEFINE r == onReview[d]
<1>1. /\ d \in Procs /\ LocalsOK /\ RowsOK /\ AddressAt(d) /\ Undecided(d) /\ Dated
      /\ DriverAt(d) /\ r = lastReview /\ reviewStatus[r] = "pending"
      /\ verdict[d] \in {"approved", "changes_requested"} /\ impls \in Nat
  BY DEF Procs, DInv, AInv, WriteReview, AddressAt, DriverAt, RowsOK
<1>2. r \in Reviews
  BY <1>1, GatesAssumption DEF WriteReview, DriverAt, RowsOK, Reviews
<1>3. /\ reviewStatus'[r] = verdict[d] /\ reviewAt'[r] = impls
      /\ Fresh' = Fresh /\ UNCHANGED <<task, session, lastReview, reviewBy, openCR, bounds>>
  BY <1>1, <1>2 DEF WriteReview, RowsOK, Fresh, session
<1>4. Dated'
  <2>1. \A x \in Reviews : reviewAt'[x] = IF x = r THEN impls ELSE reviewAt[x]
    BY <1>1, <1>2 DEF WriteReview, RowsOK
  <2> QED
    BY <1>1, <1>3, <2>1 DEF Dated, session, bounds
<1>5. CASE verdict[d] = "approved" /\ Goto(d, "resolve")
  <2>1. /\ at'[d] = "resolve"
        /\ UNCHANGED <<auto, seen, onReview, onQa, verdict, reason>>
    BY <1>1, <1>5, GoesTo DEF Places
  <2>2. AddressAt(d)' /\ ~Fresh'
    BY <1>1, <1>2, <1>3, <1>5, <2>1 DEF WriteReview, AddressAt, AfterApproval, session
  <2>3. Undecided(d)'
    BY <2>2 DEF Undecided
  <2> QED
    BY <1>4, <2>2, <2>3, AddressKeeps
<1>6. CASE verdict[d] = "changes_requested" /\ Goto(d, "request")
  <2>1. /\ at'[d] = "request"
        /\ UNCHANGED <<auto, seen, onReview, onQa, verdict, reason>>
    BY <1>1, <1>6, GoesTo DEF Places
  <2>2. AddressAt(d)'
    BY <1>1, <1>2, <1>3, <1>6, <2>1 DEF WriteReview, AddressAt, AfterApproval
  <2>3. ~FeedbackDisputed
    BY <1>1 DEF FeedbackDisputed
  <2>4. Undecided(d)'
    BY <1>1, <1>2, <1>3, <1>6, <2>1, <2>3 DEF WriteReview, Undecided, FailedQa, session,
       bounds
  <2> QED
    BY <1>4, <2>2, <2>4, AddressKeeps
<1> QED
  BY <1>1, <1>5, <1>6 DEF WriteReview

(* No change request is open.                                              *)
LEMMA NoneFresh ==
  ASSUME RowsOK, Dated, openCR' = [r \in Reviews |-> None],
         UNCHANGED <<session, review, crashes>>
  PROVE  Dated' /\ ~Fresh'
  BY DEF RowsOK, Dated, Fresh, None, session, review

LEMMA ResolveAddresses ==
  ASSUME DriverAlone, DInv, AInv, NEW d \in Drivers, ResolveChangeRequests(d)
  PROVE  AInv'
<1>1. d \in Procs /\ LocalsOK /\ RowsOK /\ AddressAt(d) /\ Dated
  BY DEF Procs, DInv, AInv
<1>2. /\ at'[d] = "hold"
      /\ UNCHANGED <<auto, seen, onReview, onQa, verdict, reason>>
  BY <1>1, GoesTo DEF ResolveChangeRequests, Places
<1>3. Dated' /\ ~Fresh'
  BY <1>1, NoneFresh DEF ResolveChangeRequests, bounds
<1>4. AddressAt(d)' /\ Undecided(d)'
  BY <1>1, <1>2, <1>3 DEF ResolveChangeRequests, AddressAt, AfterApproval, Undecided,
     review
<1> QED
  BY <1>3, <1>4, AddressKeeps

LEMMA RequestAddresses ==
  ASSUME DriverAlone, DInv, AInv, NEW d \in Drivers, RequestChanges(d)
  PROVE  AInv'
<1> DEFINE r == onReview[d]
<1>1. /\ d \in Procs /\ LocalsOK /\ RowsOK /\ AddressAt(d) /\ Undecided(d) /\ Dated
      /\ DriverAt(d) /\ r = lastReview /\ r \in Reviews /\ reason[d]
      /\ reviewStatus[r] = "changes_requested" /\ reviewBy[r] = "feedback"
      /\ reviewAt[r] \in Nat /\ reviewAt[r] <= impls /\ reviewAt[r] # None
  BY DEF Procs, DInv, AInv, RequestChanges, AddressAt, DriverAt, RowsOK, Dated, None
<1>2. /\ at'[d] = "sendBack"
      /\ UNCHANGED <<auto, seen, onReview, onQa, verdict, reason>>
  BY <1>1, GoesTo DEF RequestChanges, Places
<1>3. /\ UNCHANGED <<task, session, review, crashes>>
      /\ \A x \in Reviews : openCR'[x] = IF x = r THEN reviewAt[r] ELSE openCR[x]
  BY <1>1 DEF RequestChanges, RowsOK, bounds
<1>4. Dated'
  BY <1>1, <1>3 DEF Dated, session, review
<1>5. AddressAt(d)'
  BY <1>2 DEF AddressAt, AfterApproval
<1>6. Undecided(d)'
  <2>1. CASE reviewAt[r] = impls
    BY <1>1, <1>3, <2>1 DEF Undecided, FeedbackDisputed, session, review
  <2>2. CASE reviewAt[r] # impls
    <3>1. Fresh' => Fresh
      BY <1>1, <1>3, <2>2 DEF Fresh, session
    <3>2. ~FeedbackDisputed /\ ~FailedQa(d)
      BY <1>1, <2>2 DEF FeedbackDisputed, FailedQa, RequestChanges
    <3> QED
      BY <1>1, <1>3, <3>1, <3>2 DEF Undecided, session
  <2> QED
    BY <2>1, <2>2
<1> QED
  BY <1>4, <1>5, <1>6, AddressKeeps

LEMMA SendBackAddresses ==
  ASSUME DriverAlone, DInv, AInv, NEW d \in Drivers, SendBack(d)
  PROVE  AInv'
<1>1. d \in Procs /\ LocalsOK /\ AddressAt(d) /\ Undecided(d) /\ Dated /\ Implementing
  BY DEF Procs, DInv, AInv
<1>2. at'[d] = "idle"
  BY <1>1, Ends DEF SendBack
<1>3. Dated' /\ Fresh' = Fresh /\ FeedbackDisputed' = FeedbackDisputed
  BY <1>1, DatesStay DEF SendBack, bounds
<1>4. Undecided(d)'
  BY <1>1, <1>3 DEF SendBack, MoveUnlessSettled, Undecided, FailedQa, Implementing,
     session
<1> QED
  BY <1>2, <1>3, <1>4, IdleAddresses, AddressKeeps

LEMMA ReopenAddresses ==
  ASSUME DriverAlone, DInv, AInv, NEW d \in Drivers, ReopenTask(d)
  PROVE  AInv'
<1>1. /\ d \in Procs /\ LocalsOK /\ DriverAt(d) /\ Dated /\ Implementing
  BY DEF Procs, DInv, AInv
<1>2. at'[d] = "idle"
  BY <1>1, Ends DEF ReopenTask
<1>3. Dated'
  BY <1>1, DatesStay DEF ReopenTask, bounds
<1>4. task' = "in-progress" /\ work' = "idle"
  BY <1>1 DEF ReopenTask, Implementing, DriverAt, Gated, AtGates, AfterApproval, session
<1> QED
  BY <1>2, <1>3, <1>4, IdleAddresses, AddressKeeps DEF Undecided

(* A step within the gates that leaves the change requests, the latest     *)
(* review, the implementation and the task as they are, and stays on this  *)
(* side of an approval.                                                    *)
LEMMA StaysApproved ==
  ASSUME DriverAlone, AInv, NEW d \in Drivers, at[d] \in AfterApproval,
         UNCHANGED <<task, session, review, openCR, crashes>>,
         at'[d] \in AfterApproval \cup {"idle"}, at'[d] # "resolve",
         at[d] = "reopen" => at'[d] = "reopen",
         at'[d] \in {"readQa", "approval", "writeQa"} /\ verdict'[d] = "failed" =>
             evidence[impls] = "fail",
         at'[d] \in {"findReview", "rework", "reopen"} => evidence[impls] = "fail"
  PROVE  AInv'
<1>1. AddressAt(d) /\ Undecided(d) /\ Dated
  BY DEF AInv
<1>2. /\ Dated' /\ Fresh' = Fresh /\ FeedbackDisputed' = FeedbackDisputed
      /\ NoOpenFeedback' = NoOpenFeedback
  BY <1>1, DatesStay
<1>3. AddressAt(d)'
  BY <1>1, <1>2 DEF AddressAt, AfterApproval, session, review
<1>4. Undecided(d)'
  <2>1. FailedQa(d) => FailedQa(d)'
    BY <1>1 DEF AddressAt, AfterApproval, FailedQa, session, review
  <2> QED
    BY <1>1, <1>2, <2>1 DEF Undecided, session
<1> QED
  BY <1>2, <1>3, <1>4, AddressKeeps

LEMMA GateStepAddresses ==
  ASSUME DriverAlone, DInv, AInv, NEW d \in Drivers,
         \/ HoldInReview(d) \/ OpenQa(d) \/ ReadQa(d) \/ FindApproval(d) \/ WriteQa(d)
         \/ FindReviewed(d) \/ AttachChecklist(d) \/ FindQa(d) \/ OpenMissingQa(d)
         \/ RecordChecks(d)
  PROVE  AInv'
<1>1. /\ d \in Procs /\ LocalsOK /\ RowsOK /\ DriverAt(d) /\ AddressAt(d)
      /\ at[d] \in Places
  BY DEF Procs, DInv, AInv, LocalsOK
<1>2. CASE HoldInReview(d)
  <2>1. at'[d] = "openQa"
    BY <1>1, <1>2, GoesTo DEF HoldInReview, Places
  <2>2. task = "in-review"
    BY <1>1, <1>2 DEF HoldInReview, DriverAt, Gated, AtGates, AfterApproval
  <2> QED
    BY <1>2, <2>1, <2>2, StaysApproved DEF HoldInReview, MoveUnlessSettled,
       AfterApproval, bounds
<1>3. CASE OpenQa(d)
  <2>1. at'[d] = "findQa"
    BY <1>1, <1>3, GoesTo DEF OpenQa, Places
  <2> QED
    BY <1>3, <2>1, StaysApproved DEF OpenQa, AfterApproval, bounds
<1>4. CASE ReadQa(d)
  <2>1. at'[d] \in {"idle", "approval", "writeQa"}
        /\ (at'[d] # "idle" => verdict' = verdict)
    BY <1>1, <1>4, GoesTo, Ends DEF ReadQa, Places
  <2> QED
    BY <1>1, <1>4, <2>1, StaysApproved DEF ReadQa, AddressAt, AfterApproval, bounds
<1>5. CASE FindApproval(d)
  <2>1. at'[d] \in {"idle", "writeQa"} /\ (at'[d] # "idle" => verdict' = verdict)
    BY <1>1, <1>5, GoesTo, Ends DEF FindApproval, Places
  <2> QED
    BY <1>1, <1>5, <2>1, StaysApproved DEF FindApproval, AddressAt, AfterApproval, bounds
<1>6. CASE WriteQa(d)
  <2>1. \/ at'[d] = "finish"
        \/ at'[d] = "findReview" /\ verdict[d] = "failed"
    BY <1>1, <1>6, GoesTo DEF WriteQa, DriverAt, Places
  <2> QED
    BY <1>1, <1>6, <2>1, StaysApproved DEF WriteQa, AddressAt, AfterApproval, bounds
<1>7. CASE FindReviewed(d)
  <2>1. at'[d] \in {"reopen", "rework"}
    BY <1>1, <1>7, GoesTo DEF FindReviewed, Places, LocalsOK
  <2>2. evidence[impls] = "fail"
    BY <1>1, <1>7 DEF FindReviewed, AddressAt
  <2> QED
    BY <1>7, <2>1, <2>2, StaysApproved DEF FindReviewed, AfterApproval, bounds
<1>8. CASE AttachChecklist(d)
  <2>1. at'[d] = "idle"
    BY <1>1, <1>8, Ends DEF AttachChecklist
  <2> QED
    BY <1>8, <2>1, StaysApproved DEF AttachChecklist, AfterApproval, bounds
<1>9. CASE FindQa(d)
  <2>1. at'[d] \in {"idle", "newQa", "checklist", "checks"}
    BY <1>1, <1>9, GoesTo, Ends DEF FindQa, Gate, Places, LocalsOK
  <2> QED
    BY <1>9, <2>1, StaysApproved DEF FindQa, AfterApproval, bounds
<1>10. CASE OpenMissingQa(d)
  <2>1. at'[d] \in {"checklist", "checks"}
    BY <1>1, <1>10 DEF OpenMissingQa, Gate, LocalsOK
  <2> QED
    BY <1>10, <2>1, StaysApproved DEF OpenMissingQa, AfterApproval, bounds
<1>11. CASE RecordChecks(d)
  <2> DEFINE v == VerdictOf(IF seen[d] = 0 THEN "none" ELSE evidence[seen[d]])
  <2>1. at'[d] = "readQa" /\ verdict'[d] = v
    BY <1>1, <1>11 DEF RecordChecks, RecordQa, LocalsOK
  <2>2. seen[d] = impls
    BY <1>1, <1>11 DEF RecordChecks, DriverAt, Gated, AtGates, AfterApproval
  <2>3. v = "failed" => evidence[impls] = "fail"
    BY <2>2 DEF VerdictOf
  <2> HIDE DEF v
  <2> QED
    BY <1>11, <2>1, <2>3, StaysApproved DEF RecordChecks, AfterApproval, bounds
<1> QED
  BY <1>2, <1>3, <1>4, <1>5, <1>6, <1>7, <1>8, <1>9, <1>10, <1>11

LEMMA FinishAddresses ==
  ASSUME DriverAlone, DInv, AInv, NEW d \in Drivers, FinishTask(d)
  PROVE  AInv'
<1>1. /\ d \in Procs /\ LocalsOK /\ DriverAt(d) /\ AddressAt(d) /\ Undecided(d)
      /\ Dated /\ task = "in-review" /\ evidence[impls] = "pass"
      /\ reviewStatus[lastReview] = "approved"
  BY DEF Procs, DInv, AInv, FinishTask, DriverAt, Gated, AtGates, AfterApproval,
     Verified, AddressAt
<1>2. /\ at'[d] = "close"
      /\ UNCHANGED <<auto, seen, onReview, onQa, verdict, reason>>
  BY <1>1, GoesTo DEF FinishTask, Places
<1>3. Dated' /\ Fresh' = Fresh
  BY <1>1, DatesStay DEF FinishTask, bounds
<1>4. ~Fresh
  BY <1>1 DEF Undecided, FeedbackDisputed, FailedQa
<1> QED
  BY <1>2, <1>3, <1>4, AddressKeeps DEF AddressAt, AfterApproval, Undecided

LEMMA CloseAddresses ==
  ASSUME DriverAlone, DInv, AInv, NEW d \in Drivers, CloseRework(d)
  PROVE  AInv'
<1>1. d \in Procs /\ LocalsOK /\ RowsOK /\ Dated
  BY DEF Procs, DInv, AInv
<1>2. at'[d] = "idle"
  BY <1>1, Ends DEF CloseRework
<1>3. Dated' /\ ~Fresh'
  BY <1>1, NoneFresh DEF CloseRework, bounds
<1> QED
  BY <1>2, <1>3, IdleAddresses, AddressKeeps DEF Undecided

LEMMA OpenReworkAddresses ==
  ASSUME DriverAlone, DInv, AInv, NEW d \in Drivers, OpenRework(d)
  PROVE  AInv'
<1> DEFINE r == onReview[d]
<1>1. /\ d \in Procs /\ LocalsOK /\ RowsOK /\ DriverAt(d) /\ AddressAt(d) /\ Dated
      /\ r \in Reviews /\ impls \in Nat /\ task = "in-review"
      /\ evidence[impls] = "fail" /\ lastReview \in Reviews
      /\ reviewStatus[lastReview] = "approved"
  BY DEF Procs, DInv, AInv, OpenRework, DriverAt, Gated, AtGates, AfterApproval,
     AddressAt, RowsOK
<1>2. /\ at'[d] = "reopen"
      /\ UNCHANGED <<auto, seen, onReview, onQa, verdict, reason>>
  BY <1>1, GoesTo DEF OpenRework, Places
<1>3. Dated'
  <2>1. \A x \in Reviews : openCR'[x] \in {openCR[x], impls}
    BY <1>1 DEF OpenRework, RowsOK
  <2> QED
    BY <1>1, <2>1 DEF OpenRework, Dated, session, review, bounds
<1>4. AddressAt(d)' /\ FailedQa(d)'
  BY <1>1, <1>2 DEF OpenRework, AddressAt, AfterApproval, FailedQa, session, review
<1> QED
  BY <1>3, <1>4, AddressKeeps DEF Undecided

LEMMA BeginAddresses ==
  ASSUME DriverAlone, DInv, AInv, NEW d \in Drivers, BeginGates(d) \/ ReadSession(d)
  PROVE  AInv'
<1>1. d \in Procs /\ LocalsOK /\ AddressAt(d) /\ Undecided(d) /\ Dated
  BY DEF Procs, DInv, AInv
<1>2. at[d] \in {"idle", "session"} /\ at'[d] \in {"session", "latestReview"}
  BY <1>1 DEF BeginGates, ReadSession, LocalsOK
<1>3. /\ UNCHANGED <<task, session, review, openCR, crashes>>
      /\ Dated' /\ Fresh' = Fresh /\ FeedbackDisputed' = FeedbackDisputed
  BY <1>1, DatesStay DEF BeginGates, ReadSession, bounds
<1>4. AddressAt(d)'
  BY <1>2 DEF AddressAt, AfterApproval
<1>5. Undecided(d)'
  BY <1>1, <1>2, <1>3 DEF Undecided, FailedQa, session, review
<1> QED
  BY <1>3, <1>4, <1>5, AddressKeeps

LEMMA LatestReviewAddresses ==
  ASSUME DriverAlone, DInv, AInv, NEW d \in Drivers, ReadLatestReview(d)
  PROVE  AInv'
<1>1. /\ d \in Procs /\ LocalsOK /\ RowsOK /\ AddressAt(d) /\ Undecided(d) /\ Dated
      /\ task = "in-review" /\ seen[d] = impls /\ lastReview \in Nat /\ impls \in Nat
  BY DEF Procs, DInv, AInv, ReadLatestReview, DriverAt, Gated, AtGates, RowsOK
<1>2. lastReview # 0 => lastReview \in Reviews
  BY <1>1, GatesAssumption DEF RowsOK, Reviews
<1>3. /\ UNCHANGED <<task, session, review, openCR, crashes>>
      /\ Dated' /\ Fresh' = Fresh /\ FeedbackDisputed' = FeedbackDisputed
  BY <1>1, DatesStay DEF ReadLatestReview, bounds
<1>4. FailedQa(d) => lastReview # 0 /\ reviewStatus[lastReview] = "approved"
  BY <1>1, GatesAssumption DEF FailedQa, ReadLatestReview, Reviews
<1>5. FailedQa(d) /\ at'[d] \in {"idle", "findQa"} => FailedQa(d)'
  BY <1>3, <1>4 DEF ReadLatestReview, FailedQa, session, review
<1>6. FeedbackDisputed =>
         /\ lastReview # 0 /\ reviewStatus[lastReview] = "changes_requested"
         /\ reviewAt[lastReview] = impls
  BY <1>1, GatesAssumption DEF FeedbackDisputed, Reviews
<1>7. CASE End(d)
  <2>1. at'[d] = "idle"
    BY <1>1, <1>7, Ends
  <2>2. Undecided(d)'
    BY <1>1, <1>3, <1>5, <2>1 DEF Undecided, session
  <2> QED
    BY <1>3, <2>1, <2>2, IdleAddresses, AddressKeeps
<1>8. CASE Goto(d, "newReview") /\ (lastReview = 0 \/ Superseded(lastReview, seen[d]))
  <2>1. at'[d] = "newReview"
    BY <1>1, <1>8, GoesTo DEF Places
  <2>2. ~Fresh
    <3>1. ~FailedQa(d)
      BY <1>4, <1>8 DEF Superseded
    <3>2. ~FeedbackDisputed
      BY <1>1, <1>6, <1>8 DEF Superseded
    <3> QED
      BY <1>1, <3>1, <3>2 DEF Undecided
  <2>3. AddressAt(d)' /\ Undecided(d)'
    BY <1>3, <2>1, <2>2 DEF AddressAt, AfterApproval, Undecided
  <2> QED
    BY <1>3, <2>3, AddressKeeps
<1>9. CASE /\ lastReview # 0 /\ reviewStatus[lastReview] = "pending"
           /\ RecordReview(d, lastReview, "approved", TRUE)
  <2>1. at'[d] = "readReview" /\ onReview'[d] = lastReview /\ verdict'[d] = "approved"
    BY <1>1, <1>9, TakesReview DEF ReviewVerdicts
  <2>2. ~Fresh
    BY <1>1, <1>4, <1>6, <1>9 DEF Undecided
  <2>3. AddressAt(d)' /\ Undecided(d)'
    BY <1>3, <1>9, <2>1, <2>2 DEF AddressAt, AfterApproval, Undecided, review
  <2> QED
    BY <1>3, <2>3, AddressKeeps
<1>10. CASE lastReview # 0 /\ reviewStatus[lastReview] = "approved" /\ Goto(d, "findQa")
  <2>1. at'[d] = "findQa"
    BY <1>1, <1>10, GoesTo DEF Places
  <2>2. AddressAt(d)'
    BY <1>2, <1>3, <1>10, <2>1 DEF AddressAt, AfterApproval, review
  <2>3. Undecided(d)'
    BY <1>1, <1>3, <1>5, <2>1 DEF Undecided, session
  <2> QED
    BY <1>3, <2>2, <2>3, AddressKeeps
<1> QED
  BY <1>7, <1>8, <1>9, <1>10 DEF ReadLatestReview

(* A new review is pending, and dated by the latest implementation.        *)
LEMMA DatesNewReview ==
  ASSUME RowsOK, Dated, NEW by \in {"gate", "feedback"}, CreateReview(by),
         UNCHANGED <<task, session, openCR, crashes>>
  PROVE  /\ Dated' /\ Fresh' = Fresh
         /\ lastReview' = lastReview + 1 /\ lastReview + 1 \in Reviews
         /\ lastReview \in Nat
         /\ reviewStatus'[lastReview + 1] = "pending"
         /\ reviewBy'[lastReview + 1] = by
<1>1. lastReview + 1 \in Reviews /\ lastReview \in Nat /\ impls \in Nat
  BY GatesAssumption DEF RowsOK, CreateReview, Reviews
<1>2. \A r \in Reviews : reviewAt'[r] = IF r = lastReview + 1 THEN impls ELSE reviewAt[r]
  BY <1>1 DEF CreateReview, RowsOK
<1>3. Dated'
  BY <1>1, <1>2 DEF Dated, CreateReview, session
<1> QED
  BY <1>1, <1>3 DEF CreateReview, RowsOK, Dated, Fresh, session

LEMMA OpenReviewAddresses ==
  ASSUME DriverAlone, DInv, AInv, NEW d \in Drivers, OpenReview(d)
  PROVE  AInv'
<1>1. d \in Procs /\ LocalsOK /\ RowsOK /\ AddressAt(d) /\ Dated /\ ~Fresh
  BY DEF Procs, DInv, AInv, OpenReview, AddressAt
<1>2. /\ Dated' /\ ~Fresh' /\ lastReview' = lastReview + 1 /\ lastReview \in Nat
      /\ reviewStatus'[lastReview + 1] = "pending"
  BY <1>1, DatesNewReview DEF OpenReview, bounds
<1>3. Undecided(d)'
  BY <1>2 DEF Undecided
<1>4. CASE End(d)
  BY <1>1, <1>2, <1>3, <1>4, Ends, IdleAddresses, AddressKeeps
<1>5. CASE RecordReview(d, lastReview + 1, "approved", TRUE)
  <2> DEFINE r == lastReview + 1
  <2>1. r \in Nat /\ "approved" \in ReviewVerdicts
    BY <1>2 DEF ReviewVerdicts
  <2>2. RecordReview(d, r, "approved", TRUE) /\ lastReview' = r
        /\ reviewStatus'[r] = "pending"
    BY <1>2, <1>5
  <2> HIDE DEF r
  <2>3. at'[d] = "readReview" /\ onReview'[d] = r /\ verdict'[d] = "approved"
    BY <1>1, <2>1, <2>2, TakesReview
  <2>4. AddressAt(d)'
    BY <1>2, <2>2, <2>3 DEF AddressAt, AfterApproval
  <2> QED
    BY <1>2, <1>3, <2>4, AddressKeeps
<1> QED
  BY <1>4, <1>5 DEF OpenReview

LEMMA PollAddresses ==
  ASSUME DriverAlone, DInv, AInv, NEW d \in Drivers, PollFeedback(d)
  PROVE  AInv'
<1>1. d \in Procs /\ LocalsOK /\ Undecided(d) /\ Dated
  BY DEF Procs, DInv, AInv
<1>2. at'[d] = "outside"
  BY <1>1, GoesTo DEF PollFeedback, Places
<1>3. /\ UNCHANGED <<task, session, review, openCR, crashes>>
      /\ Dated' /\ Fresh' = Fresh /\ FeedbackDisputed' = FeedbackDisputed
      /\ NoOpenFeedback' = NoOpenFeedback
  BY <1>1, DatesStay DEF PollFeedback
<1>4. AddressAt(d)'
  BY <1>2, <1>3 DEF PollFeedback, AddressAt, AfterApproval
<1>5. Undecided(d)'
  BY <1>1, <1>2, <1>3 DEF PollFeedback, Undecided, FailedQa, session, review
<1> QED
  BY <1>3, <1>4, <1>5, AddressKeeps

LEMMA OutsideAddresses ==
  ASSUME DriverAlone, DInv, AInv, NEW d \in Drivers, OpenOutsideReview(d)
  PROVE  AInv'
<1> DEFINE r == lastReview + 1
<1>1. /\ d \in Procs /\ LocalsOK /\ RowsOK /\ AddressAt(d) /\ Undecided(d) /\ Dated
      /\ NoOpenFeedback /\ at[d] = "outside"
  BY DEF Procs, DInv, AInv, OpenOutsideReview, AddressAt
<1>2. /\ Dated' /\ Fresh' = Fresh /\ lastReview' = r /\ r \in Reviews /\ r \in Nat
      /\ reviewStatus'[r] = "pending" /\ reviewBy'[r] = "feedback"
  BY <1>1, DatesNewReview DEF OpenOutsideReview, bounds
<1>3. RecordReview(d, r, "changes_requested", TRUE)
  BY DEF OpenOutsideReview
<1> HIDE DEF r
<1>4. /\ at'[d] = "readReview" /\ onReview'[d] = r /\ verdict'[d] = "changes_requested"
  BY <1>1, <1>2, <1>3, TakesReview DEF ReviewVerdicts
<1>5. AddressAt(d)'
  BY <1>2, <1>4 DEF AddressAt, AfterApproval
<1>6. ~FeedbackDisputed
  BY <1>1 DEF FeedbackDisputed, NoOpenFeedback
<1>7. FailedQa(d) => FailedQa(d)'
  BY <1>1, <1>2, <1>4 DEF FailedQa, OpenOutsideReview, session, bounds
<1>8. Undecided(d)'
  BY <1>1, <1>2, <1>6, <1>7 DEF OpenOutsideReview, Undecided, session
<1> QED
  BY <1>2, <1>5, <1>8, AddressKeeps

LEMMA CrashAddresses ==
  ASSUME DriverAlone, MaxCrashes <= 1, DInv, AInv, NEW d \in Drivers, Crash(d)
  PROVE  AInv'
<1>1. /\ d \in Procs /\ LocalsOK /\ AddressAt(d) /\ Undecided(d) /\ Dated
      /\ crashes = 0 /\ MaxCrashes \in Nat
  BY GatesAssumption DEF Procs, DInv, AInv, Dated, Crash
<1>2. at'[d] = "idle" /\ crashes' = 1
  BY <1>1, Ends DEF Crash
<1>3. /\ Dated' /\ Fresh' = Fresh /\ FeedbackDisputed' = FeedbackDisputed
  BY <1>1, <1>2 DEF Crash, Dated, Fresh, FeedbackDisputed, session, review
<1>4. FailedQa(d) => FailedQa(d)'
  BY <1>1, <1>2 DEF Crash, FailedQa, AddressAt, AfterApproval, session, review
<1>5. Undecided(d)'
  BY <1>1, <1>3, <1>4 DEF Crash, Undecided, session
<1> QED
  BY <1>2, <1>3, <1>5, IdleAddresses, AddressKeeps

LEMMA WorkAddresses ==
  ASSUME DriverAlone, DInv, AInv, WorkStep
  PROVE  AInv'
<1>1. /\ RowsOK /\ Dated /\ Implementing
      /\ UNCHANGED <<review, openCR, local, bounds>>
  BY DEF DInv, AInv, WorkStep, StartWork, BeginSession, BlockExhaustedTask,
     CompleteSession, FailSession, MarkTask
<1>2. CASE CompleteSession
  <2>1. impls \in Nat /\ impls' = impls + 1 /\ task \in {"todo", "in-progress"}
    BY <1>1, <1>2 DEF RowsOK, CompleteSession, Implementing
  <2>2. Dated' /\ ~Fresh'
    BY <1>1, <2>1 DEF RowsOK, Dated, Fresh, None, review, bounds
  <2>3. ASSUME NEW d \in Drivers
        PROVE  AddressAt(d)' /\ Undecided(d)'
    <3>1. AddressAt(d) /\ ~Gated(d)
      BY <2>1 DEF AInv, DInv, DriverAt
    <3>2. AddressAt(d)'
      BY <1>1, <2>2, <3>1 DEF AddressAt, Gated, AtGates, AfterApproval, NoOpenFeedback,
         local, review
    <3> QED
      BY <2>2, <3>2 DEF Undecided
  <2> QED
    BY <2>2, <2>3 DEF AInv
<1>3. CASE UNCHANGED <<impls, evidence>> /\ ~CompleteSession
  <2>1. /\ Dated' /\ Fresh' = Fresh /\ FeedbackDisputed' = FeedbackDisputed
        /\ NoOpenFeedback' = NoOpenFeedback
    BY <1>1, <1>3 DEF Dated, Fresh, FeedbackDisputed, NoOpenFeedback, review, bounds
  <2>2. task' = "in-review" \/ work' = "completed" =>
           \/ task = "in-review" /\ task' = "in-review"
           \/ work = "completed" /\ task # "in-review"
    BY <1>1, <1>3 DEF Implementing, WorkStep, StartWork, BeginSession, Executable,
       BlockExhaustedTask, MoveUnlessSettled, FailSession, MarkTask, session
  <2>3. ASSUME NEW d \in Drivers
        PROVE  AddressAt(d)' /\ Undecided(d)'
    <3>1. AddressAt(d) /\ Undecided(d)
      BY DEF AInv
    <3>2. AddressAt(d)'
      BY <1>1, <1>3, <2>1, <3>1 DEF AddressAt, local, review
    <3>3. Undecided(d)'
      BY <1>1, <1>3, <2>1, <2>2, <3>1 DEF Undecided, FailedQa, local, review, bounds
    <3> QED
      BY <3>2, <3>3
  <2> QED
    BY <2>1, <2>3 DEF AInv
<1>4. CompleteSession \/ UNCHANGED <<impls, evidence>>
  BY DEF WorkStep, StartWork, BeginSession, BlockExhaustedTask, FailSession, MarkTask,
     session
<1> QED
  BY <1>2, <1>3, <1>4

LEMMA AddressInit == Init => AInv
<1> SUFFICES ASSUME Init PROVE AInv
  OBVIOUS
<1>1. Dated
  BY GatesAssumption DEF Init, Dated, None
<1>2. ~Fresh
  BY DEF Init, Fresh, None
<1>3. \A d \in Drivers : AddressAt(d) /\ Undecided(d)
  BY <1>2 DEF Init, AddressAt, AfterApproval, Undecided, Procs
<1> QED
  BY <1>1, <1>3 DEF AInv

LEMMA AddressStepKeeps ==
  ASSUME DriverAlone, MaxCrashes <= 1, DInv, AInv, [Next]_vars
  PROVE  AInv'
<1>1. ASSUME NEW d \in Drivers, RecorderStep(d)
      PROVE  AInv'
  BY <1>1, ReadReviewAddresses, WriteReviewAddresses, ResolveAddresses,
     RequestAddresses, SendBackAddresses, NeverBlocks, GateStepAddresses,
     FinishAddresses, CloseAddresses, OpenReworkAddresses, ReopenAddresses,
     OutsideAddresses
  DEF RecorderStep
<1>2. ASSUME NEW d \in Drivers, DriverStep(d) \/ PollFeedback(d) \/ Crash(d)
      PROVE  AInv'
  BY <1>1, <1>2, BeginAddresses, LatestReviewAddresses, OpenReviewAddresses,
     GateStepAddresses, PollAddresses, CrashAddresses
  DEF DriverStep
<1>3. CASE UNCHANGED vars
  <2>1. UNCHANGED <<task, session, review, openCR, local, bounds>>
    BY <1>3 DEF vars
  <2>2. /\ Dated' /\ Fresh' = Fresh /\ FeedbackDisputed' = FeedbackDisputed
        /\ NoOpenFeedback' = NoOpenFeedback
    BY <2>1, DatesStay DEF AInv, bounds
  <2> QED
    BY <2>1, <2>2 DEF AInv, AddressAt, Undecided, FailedQa, session, review, local, bounds
<1> QED
  BY <1>2, <1>3, WorkAddresses DEF Next, DriverAlone, Procs

(* The driver resolves requests in two places, and at both there is none   *)
(* that dates from the latest implementation.                              *)
LEMMA ResolvesOnlyOld ==
  ASSUME DriverAlone, DInv, AInv, [Next]_vars
  PROVE  ReworkAddressed
<1> SUFFICES ASSUME NEW r \in Reviews, openCR[r] # None, openCR'[r] = None
             PROVE  impls > openCR[r]
  BY DEF ReworkAddressed
<1>1. RowsOK /\ LocalsOK /\ Dated
  BY DEF DInv, AInv
<1>2. openCR[r] \in Nat /\ openCR[r] <= impls /\ impls \in Nat
  BY <1>1 DEF RowsOK, Dated
<1>3. PICK d \in Drivers : ResolveChangeRequests(d) \/ CloseRework(d)
  <2>1. ASSUME NEW d \in Drivers, RequestChanges(d) \/ OpenRework(d)
        PROVE  openCR'[r] # None
    <3>1. onReview[d] \in Reviews
      BY <2>1 DEF DInv, DriverAt, RequestChanges, OpenRework
    <3>2. reviewAt[onReview[d]] # None /\ impls # None
      BY <1>1, <3>1 DEF RowsOK, None
    <3> QED
      BY <1>1, <2>1, <3>1, <3>2 DEF RequestChanges, OpenRework, RowsOK
  <2>2. ASSUME NEW d \in Drivers, DriverStep(d) \/ PollFeedback(d) \/ Crash(d)
        PROVE  \/ ResolveChangeRequests(d) \/ CloseRework(d)
               \/ RequestChanges(d) \/ OpenRework(d) \/ openCR' = openCR
    BY <2>2 DEF DriverStep, RecorderStep, BeginGates, ReadSession, ReadLatestReview,
       OpenReview, FindQa, OpenMissingQa, RecordChecks, ReadReview, WriteReview,
       HoldInReview, OpenQa, SendBack, BlockTask, ReadQa, FindApproval, WriteQa,
       FinishTask, FindReviewed, ReopenTask, AttachChecklist, OpenOutsideReview,
       PollFeedback, Crash
  <2>3. WorkStep \/ UNCHANGED vars => openCR' = openCR
    BY DEF WorkStep, StartWork, BeginSession, BlockExhaustedTask, CompleteSession,
       FailSession, MarkTask, vars
  <2> QED
    BY <2>1, <2>2, <2>3 DEF Next, DriverAlone, Procs
<1>4. ~Fresh
  BY <1>3 DEF AInv, AddressAt, ResolveChangeRequests, CloseRework
<1> QED
  BY <1>2, <1>4 DEF Fresh

(* With one crash at most, whatever the checks show and however often the  *)
(* pull request is red: a change request ends only after an implementation *)
(* newer than itself (review-service.ts, qa-service.ts, MUS-290).          *)
THEOREM RequestsAreAddressed ==
  ASSUME DriverAlone, MaxCrashes <= 1
  PROVE  MCSpec => DriverAddresses
<1> DEFINE I == life = "driver" => DInv /\ AInv
<1>1. MCInit => I
  BY DriverInit, AddressInit DEF MCInit
<1>2. I /\ [MCNext]_<<life, vars>> => I'
  <2>1. ASSUME I, MCNext, life' = "driver"
        PROVE  (DInv /\ AInv)'
    BY <2>1, DriverStepKeeps, AddressStepKeeps DEF MCNext
  <2>2. ASSUME I, UNCHANGED <<life, vars>>, life' = "driver"
        PROVE  (DInv /\ AInv)'
    BY <2>2, DriverStepKeeps, AddressStepKeeps
  <2> QED
    BY <2>1, <2>2
<1>3. I /\ [MCNext]_<<life, vars>> => [life = "driver" => ReworkAddressed]_vars
  BY ResolvesOnlyOld DEF MCNext
<1> HIDE DEF I
<1> QED
  BY <1>1, <1>2, <1>3, PTL DEF MCSpec, DriverAddresses

---------------------------------------------------------------------------
(* The retry budget.  An attempt is paid for by the failure it ends in, by *)
(* the QA result that passes it, or by the red pull request that asks for  *)
(* it.  The failure comes later than the attempt, and the attempt later    *)
(* than the pull request: the invariant says what is outstanding.          *)

Passed == {q \in Qas : qaStatus[q] = "passed"}

LatestPass(n) ==
    /\ n = 0 \/ qaStatus[n] = "passed"
    /\ \A q \in Qas : q > n => qaStatus[q] # "passed"

FailedSessions == {i \in Attempts : failedAt[i] # None /\ failedAt[i] >= LastPassed}
FailedQas      == {q \in Qas : q > LastPassed /\ qaStatus[q] = "failed"}

(* A call brings the change request of a red pull request: an attempt that *)
(* is counted, and not yet asked for.                                      *)
Carries(d) ==
    \/ at[d] \in {"outside", "request", "sendBack"}
    \/ at[d] \in {"readReview", "writeReview"} /\ verdict[d] = "changes_requested"

(* A call has recorded a failed QA result and sends the task back.         *)
Reworking(d) == at[d] \in {"findReview", "rework", "reopen"}

(* The last attempt has been paid for.                                     *)
Accounted ==
    \/ work \in {"idle", "failed"} /\ task \notin {"in-review", "done"}
    \/ \E d \in Drivers : Reworking(d)

Carried == IF \E d \in Drivers : Carries(d) THEN 1 ELSE 0
Owed    == IF Accounted THEN 0 ELSE 1

Allowance == (MaxRetries + 1) * Cardinality(Passed) + feedbacks

SessionsOK ==
    /\ failedAt \in [Attempts -> 0..MaxQas \cup {None}]
    /\ \A i \in Attempts : i > attempts => failedAt[i] = None
    /\ work = "running" => failedAt[attempts] = None
    /\ feedbacks \in Nat

(* A call never decides a QA result older than one that has passed.        *)
OnLatest(d) ==
    at[d] \in {"checks", "readQa", "approval", "writeQa"} =>
        \A q \in Passed : q < onQa[d]

Covered ==
    /\ attempts + Carried <= Allowance + MaxRetries + 1
    /\ attempts + Carried <= Allowance + ConsecutiveFailures + Owed

BInv ==
    /\ SessionsOK
    /\ \E n \in 0..MaxQas : LatestPass(n)
    /\ \A d \in Drivers : OnLatest(d)
    /\ Covered

LEMMA LatestPassIsLast == \A n \in 0..MaxQas : LatestPass(n) => LastPassed = n
<1> SUFFICES ASSUME NEW n \in 0..MaxQas, LatestPass(n)
             PROVE  LastPassed = n
  OBVIOUS
<1>1. \A m \in 0..MaxQas : LatestPass(m) <=> m = n
  <2>1. MaxQas \in Nat
    BY GatesAssumption
  <2>2. ASSUME NEW m \in 0..MaxQas, LatestPass(m)
        PROVE  m = n
    BY <2>1, <2>2 DEF LatestPass, Qas
  <2> QED
    BY <2>2
<1>2. LastPassed = CHOOSE m \in 0..MaxQas : LatestPass(m)
  BY Zenon DEF LastPassed, LatestPass
<1> QED
  BY <1>1, <1>2

LEMMA LatestPassIsLastNext == (\A n \in 0..MaxQas : LatestPass(n) => LastPassed = n)'
  BY LatestPassIsLast, PTL

LEMMA CountsAreFinite ==
  /\ IsFiniteSet(Passed) /\ IsFiniteSet(FailedSessions) /\ IsFiniteSet(FailedQas)
  /\ Cardinality(Passed) \in Nat /\ ConsecutiveFailures \in Nat
  /\ ConsecutiveFailures = Cardinality(FailedSessions) + Cardinality(FailedQas)
<1>1. IsFiniteSet(Qas) /\ IsFiniteSet(Attempts)
  BY GatesAssumption, FS_Interval DEF Qas, Attempts
<1>2. Passed \in SUBSET Qas /\ FailedSessions \in SUBSET Attempts /\ FailedQas \in SUBSET Qas
  BY DEF Passed, FailedSessions, FailedQas
<1>3. IsFiniteSet(Passed) /\ IsFiniteSet(FailedSessions) /\ IsFiniteSet(FailedQas)
  BY <1>1, <1>2, FS_Subset
<1>4. /\ Cardinality(Passed) \in Nat /\ Cardinality(FailedSessions) \in Nat
      /\ Cardinality(FailedQas) \in Nat
  BY <1>3, FS_CardinalityType
<1>5. ConsecutiveFailures = Cardinality(FailedSessions) + Cardinality(FailedQas)
  BY DEF ConsecutiveFailures, FailedSessions, FailedQas
<1> QED
  BY <1>3, <1>4, <1>5

(* The allowance is a number, and grows with every pass.                   *)
LEMMA AllowanceIsNat ==
  ASSUME SessionsOK
  PROVE  /\ MaxRetries \in Nat /\ feedbacks \in Nat /\ Allowance \in Nat
         /\ (MaxRetries + 1) * (Cardinality(Passed) + 1)
               = (MaxRetries + 1) * Cardinality(Passed) + MaxRetries + 1
<1>1. MaxRetries \in Nat /\ feedbacks \in Nat /\ Cardinality(Passed) \in Nat
  BY GatesAssumption, CountsAreFinite DEF SessionsOK
<1>2. ASSUME NEW a \in Nat, NEW b \in Nat
      PROVE  (a + 1) * b \in Nat /\ (a + 1) * (b + 1) = (a + 1) * b + a + 1
  OBVIOUS
<1> QED
  BY <1>1, <1>2 DEF Allowance

(* A step that decides no QA result changes neither count.                 *)
LEMMA CountsStay ==
  ASSUME \E n \in 0..MaxQas : LatestPass(n), UNCHANGED failedAt,
         \A q \in Qas : /\ qaStatus'[q] = "passed" <=> qaStatus[q] = "passed"
                        /\ qaStatus'[q] = "failed" <=> qaStatus[q] = "failed"
  PROVE  /\ Passed' = Passed /\ ConsecutiveFailures' = ConsecutiveFailures
         /\ (\E n \in 0..MaxQas : LatestPass(n))'
<1>1. PICK n \in 0..MaxQas : LatestPass(n)
  OBVIOUS
<1>2. LatestPass(n)'
  BY <1>1, GatesAssumption DEF LatestPass, Qas
<1>3. LastPassed = n /\ LastPassed' = n
  BY <1>1, <1>2, LatestPassIsLast, LatestPassIsLastNext
<1>4. Passed' = Passed /\ FailedQas' = FailedQas /\ FailedSessions' = FailedSessions
  BY <1>3 DEF Passed, FailedQas, FailedSessions
<1> QED
  BY <1>2, <1>4 DEF ConsecutiveFailures, FailedSessions, FailedQas

LEMMA CountsAreFiniteNext == (Cardinality(Passed) \in Nat /\ ConsecutiveFailures \in Nat)'
<1>1. Cardinality(Passed) \in Nat /\ ConsecutiveFailures \in Nat
  BY CountsAreFinite
<1> QED
  BY <1>1, PTL

LEMMA AttemptsAreNat ==
  ASSUME DInv
  PROVE  attempts \in Nat
  BY GatesAssumption DEF DInv, RowsOK

LEMMA Sums ==
  ASSUME NEW a \in Nat, NEW b \in Nat, NEW m \in Nat, NEW c \in Nat,
         NEW o \in {0, 1}, NEW p \in {0, 1}
  PROVE  /\ a + 1 <= b + m + 1 => a <= b + m + 1
         /\ a + 1 <= b + c + o => a <= b + c + p
         /\ a <= b + m + 1 => /\ a <= b + m + 1 + m + 1
                              /\ a <= b + m + 1 + c + p
  OBVIOUS

(* A step of a call that decides no QA result, brings no pull request and  *)
(* sends nothing back.                                                     *)
LEMMA CallSpendsNothing ==
  ASSUME DriverAlone, DInv, BInv, NEW d \in Drivers, UNCHANGED <<session, feedbacks>>,
         \A q \in Qas : /\ qaStatus'[q] = "passed" <=> qaStatus[q] = "passed"
                        /\ qaStatus'[q] = "failed" <=> qaStatus[q] = "failed",
         task' = task \/ task' \in {"in-review", "done"} \/ Reworking(d),
         Carries(d)' => Carries(d), Reworking(d)' => Reworking(d), OnLatest(d)'
  PROVE  BInv'
<1>1. UNCHANGED <<attempts, failedAt, work>>
  BY DEF session
<1>2. /\ Passed' = Passed /\ ConsecutiveFailures' = ConsecutiveFailures
      /\ (\E n \in 0..MaxQas : LatestPass(n))'
  BY <1>1, CountsStay DEF BInv
<1>3. Allowance' = Allowance
  BY <1>2 DEF Allowance
<1>4. SessionsOK'
  BY <1>1 DEF BInv, SessionsOK
<1>5. Carried' <= Carried
  BY DEF DriverAlone, Carried
<1>6. Owed <= Owed'
  BY <1>1 DEF DriverAlone, Owed, Accounted
<1>7. Covered'
  <2>1. /\ attempts \in Nat /\ Allowance \in Nat /\ MaxRetries \in Nat
        /\ ConsecutiveFailures \in Nat
    BY AttemptsAreNat, AllowanceIsNat, CountsAreFinite DEF BInv
  <2>2. Carried \in {0, 1} /\ Carried' \in {0, 1} /\ Owed \in {0, 1} /\ Owed' \in {0, 1}
    BY DEF Carried, Owed
  <2>3. /\ attempts + Carried <= Allowance + MaxRetries + 1
        /\ attempts + Carried <= Allowance + ConsecutiveFailures + Owed
    BY DEF BInv, Covered
  <2>4. /\ attempts + Carried' <= Allowance + MaxRetries + 1
        /\ attempts + Carried' <= Allowance + ConsecutiveFailures + Owed'
    BY <1>5, <1>6, <2>1, <2>2, <2>3
  <2> QED
    BY <1>1, <1>2, <1>3, <2>4 DEF Covered
<1> QED
  BY <1>2, <1>4, <1>7 DEF BInv, DriverAlone

(* Most places carry nothing and decide no QA result.                      *)
LEMMA PlainPlace ==
  ASSUME NEW d, at'[d] \in {"idle", "resolve", "hold", "openQa", "findQa", "newQa",
                            "checklist", "finish", "close", "session", "latestReview",
                            "newReview"}
  PROVE  ~Carries(d)' /\ ~Reworking(d)' /\ OnLatest(d)'
  BY DEF Carries, Reworking, OnLatest

LEMMA ReviewSpendsNothing ==
  ASSUME DriverAlone, DInv, BInv, NEW d \in Drivers,
         \/ ReadReview(d) \/ WriteReview(d) \/ ResolveChangeRequests(d)
         \/ HoldInReview(d) \/ RequestChanges(d)
  PROVE  BInv'
<1>1. d \in Procs /\ LocalsOK /\ DriverAt(d)
  BY DEF Procs, DInv
<1>2. UNCHANGED <<session, feedbacks, qaStatus>>
  BY DEF ReadReview, WriteReview, ResolveChangeRequests, HoldInReview, RequestChanges,
     quality, bounds
<1>3. task' = task \/ task' \in {"in-review", "done"}
  BY <1>1 DEF ReadReview, WriteReview, ResolveChangeRequests, HoldInReview,
     RequestChanges, DriverAt, Gated, AtGates, AfterApproval, MoveUnlessSettled
<1>4. \/ at'[d] \in {"idle", "resolve", "hold", "openQa"}
      \/ at'[d] = "writeReview" /\ at[d] = "readReview" /\ verdict' = verdict
      \/ at'[d] = "request" /\ at[d] = "writeReview" /\ verdict[d] = "changes_requested"
      \/ at'[d] = "sendBack" /\ at[d] = "request"
  BY <1>1 DEF ReadReview, WriteReview, ResolveChangeRequests, HoldInReview,
     RequestChanges, Goto, End, LocalsOK, DriverAt
<1>5. /\ Carries(d)' => Carries(d)
      /\ Reworking(d)' => Reworking(d)
      /\ OnLatest(d)'
  BY <1>4 DEF Carries, Reworking, OnLatest
<1> QED
  BY <1>2, <1>3, <1>5, CallSpendsNothing

(* ReadQa, and what follows a verdict.                                     *)
LEMMA QaSpendsNothing ==
  ASSUME DriverAlone, DInv, BInv, NEW d \in Drivers,
         \/ ReadQa(d) \/ FindApproval(d) \/ FinishTask(d) \/ CloseRework(d)
         \/ FindReviewed(d) \/ OpenRework(d) \/ ReopenTask(d) \/ AttachChecklist(d)
  PROVE  BInv'
<1>1. d \in Procs /\ LocalsOK /\ DriverAt(d) /\ OnLatest(d)
  BY DEF Procs, DInv, BInv
<1>2. UNCHANGED <<session, feedbacks, qaStatus>>
  BY DEF ReadQa, FindApproval, FinishTask, CloseRework, FindReviewed, OpenRework,
     ReopenTask, AttachChecklist, quality, bounds
<1>3. task' = task \/ task' \in {"in-review", "done"} \/ Reworking(d)
  BY <1>1 DEF ReadQa, FindApproval, FinishTask, CloseRework, FindReviewed, OpenRework,
     ReopenTask, AttachChecklist, Reworking, MoveUnlessSettled
<1>4. \/ at'[d] \in {"idle", "close"}
      \/ /\ at[d] \in {"readQa", "approval"} /\ at'[d] \in {"approval", "writeQa"}
         /\ onQa' = onQa
      \/ at[d] \in {"findReview", "rework"} /\ at'[d] \in {"rework", "reopen"}
  BY <1>1 DEF ReadQa, FindApproval, FinishTask, CloseRework, FindReviewed, OpenRework,
     ReopenTask, AttachChecklist, Goto, End, LocalsOK
<1>5. Passed' = Passed
  BY <1>2 DEF Passed
<1>6. /\ Carries(d)' => Carries(d)
      /\ Reworking(d)' => Reworking(d)
      /\ OnLatest(d)'
  BY <1>1, <1>4, <1>5 DEF Carries, Reworking, OnLatest
<1> QED
  BY <1>2, <1>3, <1>6, CallSpendsNothing

LEMMA GatesSpendNothing ==
  ASSUME DriverAlone, DInv, BInv, NEW d \in Drivers,
         \/ BeginGates(d) \/ ReadSession(d) \/ ReadLatestReview(d) \/ OpenReview(d)
         \/ RecordChecks(d) \/ OpenOutsideReview(d) \/ Crash(d)
  PROVE  BInv'
<1>1. d \in Procs /\ LocalsOK /\ OnLatest(d)
  BY DEF Procs, DInv, BInv
<1>2. UNCHANGED <<task, session, feedbacks, qaStatus>>
  BY DEF BeginGates, ReadSession, ReadLatestReview, OpenReview, RecordChecks,
     OpenOutsideReview, Crash, quality, bounds
<1>3. \/ at'[d] \in {"idle", "session", "latestReview", "newReview", "findQa"}
      \/ at'[d] = "readReview" /\ verdict'[d] = "approved"
      \/ at'[d] = "readReview" /\ at[d] = "outside"
      \/ at'[d] = "readQa" /\ at[d] = "checks" /\ onQa'[d] = onQa[d]
  BY <1>1 DEF BeginGates, ReadSession, ReadLatestReview, OpenReview, RecordChecks,
     OpenOutsideReview, Crash, Goto, End, RecordReview, RecordQa, LocalsOK
<1>4. Passed' = Passed
  BY <1>2 DEF Passed
<1>5. /\ Carries(d)' => Carries(d)
      /\ Reworking(d)' => Reworking(d)
      /\ OnLatest(d)'
  BY <1>1, <1>3, <1>4 DEF Carries, Reworking, OnLatest
<1> QED
  BY <1>2, <1>5, CallSpendsNothing

(* The gate runner takes the latest QA result that is open, or a new one.  *)
LEMMA TakingQaSpendsNothing ==
  ASSUME DriverAlone, DInv, BInv, NEW d \in Drivers,
         FindQa(d) \/ OpenMissingQa(d) \/ OpenQa(d)
  PROVE  BInv'
<1>1. d \in Procs /\ LocalsOK /\ RowsOK
  BY DEF Procs, DInv
<1>2. CASE FindQa(d)
  <2>1. UNCHANGED <<task, session, feedbacks, qaStatus>>
    BY <1>2 DEF FindQa, quality, bounds
  <2>2. Passed' = Passed
    BY <2>1 DEF Passed
  <2>3. CASE at'[d] \in {"idle", "newQa"}
    BY <2>1, <2>3, PlainPlace, CallSpendsNothing
  <2>4. ASSUME NEW q \in OpenQas, \A other \in OpenQas : other <= q,
               qaStatus[q] # "passed", Gate(d, q)
        PROVE  BInv'
    <3>1. \A p \in Passed : p < q
      BY <2>4 DEF Passed, OpenQas, Qas
    <3>2. at'[d] \in {"checklist", "checks"} /\ onQa'[d] = q
      BY <1>1, <2>4 DEF Gate, LocalsOK
    <3>3. ~Carries(d)' /\ ~Reworking(d)' /\ OnLatest(d)'
      BY <2>2, <3>1, <3>2 DEF Carries, Reworking, OnLatest
    <3> QED
      BY <2>1, <3>3, CallSpendsNothing
  <2> QED
    BY <1>1, <1>2, <2>3, <2>4 DEF FindQa, Goto, End, LocalsOK
<1>3. CASE OpenMissingQa(d) \/ OpenQa(d)
  <2>1. CreateQa("pending", "none") /\ UNCHANGED <<task, session, feedbacks>>
    BY <1>3 DEF OpenMissingQa, OpenQa, bounds
  <2>2. lastQa + 1 \in Qas /\ qaStatus[lastQa + 1] = "absent" /\ lastQa \in Nat
    BY <1>1, <2>1, GatesAssumption DEF RowsOK, CreateQa, Qas
  <2>3. \A q \in Qas : qaStatus'[q] = IF q = lastQa + 1 THEN "pending" ELSE qaStatus[q]
    BY <1>1, <2>1, <2>2 DEF RowsOK, CreateQa
  <2>4. \A q \in Qas : /\ qaStatus'[q] = "passed" <=> qaStatus[q] = "passed"
                       /\ qaStatus'[q] = "failed" <=> qaStatus[q] = "failed"
    BY <2>2, <2>3
  <2>5. Passed' = Passed /\ \A q \in Passed : q < lastQa + 1
    BY <1>1, <2>2, <2>4 DEF Passed, RowsOK, Qas
  <2>6. \/ at'[d] \in {"findQa", "checklist"}
        \/ at'[d] = "checks" /\ onQa'[d] = lastQa + 1
    BY <1>1, <1>3 DEF OpenMissingQa, OpenQa, Gate, Goto, LocalsOK
  <2>7. ~Carries(d)' /\ ~Reworking(d)' /\ OnLatest(d)'
    BY <2>5, <2>6 DEF Carries, Reworking, OnLatest
  <2> QED
    BY <2>1, <2>4, <2>7, CallSpendsNothing
<1> QED
  BY <1>2, <1>3

(* A red pull request pays for the attempt it will ask for.                *)
LEMMA PollPays ==
  ASSUME DriverAlone, DInv, BInv, NEW d \in Drivers, PollFeedback(d)
  PROVE  BInv'
<1>1. d \in Procs /\ LocalsOK
  BY DEF Procs, DInv
<1>2. /\ feedbacks' = feedbacks + 1 /\ at[d] = "idle" /\ at'[d] = "outside"
      /\ UNCHANGED <<task, work, attempts, failedAt, qaStatus>>
  BY <1>1 DEF PollFeedback, Goto, LocalsOK, session, quality
<1>3. /\ Passed' = Passed /\ ConsecutiveFailures' = ConsecutiveFailures
      /\ (\E n \in 0..MaxQas : LatestPass(n))'
  BY <1>2, CountsStay DEF BInv
<1>4. /\ feedbacks \in Nat /\ Allowance' = Allowance + 1
      /\ attempts \in Nat /\ Allowance \in Nat /\ MaxRetries \in Nat
      /\ ConsecutiveFailures \in Nat
  <2>1. /\ feedbacks \in Nat /\ MaxRetries \in Nat /\ Cardinality(Passed) \in Nat
        /\ attempts \in Nat /\ Allowance \in Nat /\ ConsecutiveFailures \in Nat
    BY AllowanceIsNat, AttemptsAreNat, CountsAreFinite DEF BInv
  <2>2. (MaxRetries + 1) * Cardinality(Passed) \in Nat
    BY <2>1
  <2> QED
    BY <1>2, <1>3, <2>1, <2>2 DEF Allowance
<1>5. Carried = 0 /\ Carried' = 1 /\ Owed' = Owed /\ Owed \in {0, 1}
  BY <1>2 DEF DriverAlone, Carried, Carries, Owed, Accounted, Reworking
<1>6. SessionsOK' /\ OnLatest(d)'
  BY <1>2, <1>4 DEF BInv, SessionsOK, OnLatest
<1>7. Covered'
  <2>1. /\ attempts <= Allowance + MaxRetries + 1
        /\ attempts <= Allowance + ConsecutiveFailures + Owed
    BY <1>4, <1>5 DEF BInv, Covered
  <2>2. /\ attempts + 1 <= Allowance + 1 + MaxRetries + 1
        /\ attempts + 1 <= Allowance + 1 + ConsecutiveFailures + Owed
    BY <1>4, <1>5, <2>1
  <2> QED
    BY <1>2, <1>3, <1>4, <1>5, <2>2 DEF Covered
<1> QED
  BY <1>3, <1>6, <1>7 DEF BInv, DriverAlone

(* ... and the attempt is outstanding when the task has gone back.         *)
LEMMA SendBackIsPaid ==
  ASSUME DriverAlone, DInv, BInv, NEW d \in Drivers, SendBack(d)
  PROVE  BInv'
<1>1. d \in Procs /\ LocalsOK
  BY DEF Procs, DInv
<1>2. /\ at[d] = "sendBack" /\ at'[d] = "idle"
      /\ UNCHANGED <<work, attempts, failedAt, qaStatus, feedbacks>>
  BY <1>1 DEF SendBack, End, LocalsOK, session, quality, bounds
<1>3. /\ Passed' = Passed /\ ConsecutiveFailures' = ConsecutiveFailures
      /\ (\E n \in 0..MaxQas : LatestPass(n))'
  BY <1>2, CountsStay DEF BInv
<1>4. Allowance' = Allowance
  BY <1>2, <1>3 DEF Allowance
<1>5. /\ attempts \in Nat /\ Allowance \in Nat /\ MaxRetries \in Nat
      /\ ConsecutiveFailures \in Nat
  BY AllowanceIsNat, AttemptsAreNat, CountsAreFinite DEF BInv
<1>6. /\ Carried = 1 /\ Carried' = 0 /\ Owed \in {0, 1} /\ Owed' \in {0, 1}
  BY <1>2 DEF DriverAlone, Carried, Carries, Owed
<1>7. SessionsOK' /\ OnLatest(d)'
  BY <1>2 DEF BInv, SessionsOK, OnLatest
<1>8. Covered'
  <2>1. /\ attempts + 1 <= Allowance + MaxRetries + 1
        /\ attempts + 1 <= Allowance + ConsecutiveFailures + Owed
    BY <1>6 DEF BInv, Covered
  <2>2. /\ attempts <= Allowance + MaxRetries + 1
        /\ attempts <= Allowance + ConsecutiveFailures + Owed'
    BY <1>5, <1>6, <2>1, Sums
  <2>3. attempts' + Carried' = attempts
    BY <1>2, <1>5, <1>6
  <2> QED
    BY <1>3, <1>4, <2>2, <2>3 DEF Covered
<1> QED
  BY <1>3, <1>7, <1>8 DEF BInv, DriverAlone

(* A failed QA result pays for the attempt it judges; one that passes      *)
(* renews the allowance.                                                   *)
LEMMA VerdictPays ==
  ASSUME DriverAlone, DInv, BInv, NEW d \in Drivers, WriteQa(d)
  PROVE  BInv'
<1> DEFINE q == onQa[d]
<1>1. /\ d \in Procs /\ LocalsOK /\ RowsOK /\ DriverAt(d) /\ OnLatest(d)
      /\ verdict[d] \in {"passed", "failed"} /\ q \in 1..lastQa
      /\ qaStatus[q] \notin TerminalQa
  BY DEF Procs, DInv, BInv, DriverAt, WriteQa
<1>2. q \in Qas /\ q > 0 /\ q \in 0..MaxQas /\ q \in Int
  <2> HIDE DEF q
  <2> QED
    BY <1>1, GatesAssumption DEF RowsOK, Qas
<1>3. \A x \in Qas : qaStatus'[x] = IF x = q THEN verdict[d] ELSE qaStatus[x]
  BY <1>1, <1>2 DEF WriteQa, RowsOK
<1>4. \A x \in Passed : x < q
  BY <1>1 DEF WriteQa, OnLatest
<1>5. /\ UNCHANGED <<work, task, attempts, failedAt, feedbacks>>
      /\ at[d] = "writeQa"
      /\ verdict[d] = "passed" => at'[d] = "finish"
      /\ verdict[d] = "failed" => at'[d] = "findReview"
  BY <1>1 DEF WriteQa, Goto, LocalsOK, session, bounds
<1>6. qaStatus[q] # "passed" /\ qaStatus[q] # "failed"
  BY <1>1 DEF TerminalQa
<1>7. /\ attempts \in Nat /\ Allowance \in Nat /\ MaxRetries \in Nat /\ feedbacks \in Nat
      /\ ConsecutiveFailures \in Nat /\ ConsecutiveFailures' \in Nat
      /\ Cardinality(Passed) \in Nat
  BY AllowanceIsNat, AttemptsAreNat, CountsAreFinite, CountsAreFiniteNext DEF BInv
<1>8. PICK k : k = q
  OBVIOUS
<1>9. SessionsOK' /\ OnLatest(d)' /\ Carried = 0 /\ Carried' = 0
  BY <1>1, <1>5 DEF BInv, SessionsOK, OnLatest, DriverAlone, Carried, Carries
<1>10. PICK n \in 0..MaxQas : LatestPass(n)
  BY DEF BInv
<1>11. CASE verdict[d] = "passed"
  <2>1. LatestPass(k)'
    BY <1>2, <1>3, <1>4, <1>8, <1>11 DEF LatestPass, Passed, Qas
  <2>2. Passed' = Passed \cup {k} /\ k \notin Passed
    BY <1>2, <1>3, <1>6, <1>8, <1>11 DEF Passed
  <2>3. Cardinality(Passed') = Cardinality(Passed) + 1
    BY <2>2, CountsAreFinite, FS_AddElement
  <2>4. Allowance' = Allowance + MaxRetries + 1
    <3>1. (MaxRetries + 1) * Cardinality(Passed) \in Nat
      BY <1>7
    <3>2. (MaxRetries + 1) * (Cardinality(Passed) + 1)
            = (MaxRetries + 1) * Cardinality(Passed) + MaxRetries + 1
      BY AllowanceIsNat DEF BInv
    <3> QED
      BY <1>5, <1>7, <2>3, <3>1, <3>2 DEF Allowance
  <2>5. attempts <= Allowance + MaxRetries + 1
    BY <1>7, <1>9 DEF BInv, Covered
  <2>6. Owed' \in {0, 1}
    BY DEF Owed
  <2>7. /\ attempts <= Allowance + MaxRetries + 1 + MaxRetries + 1
        /\ attempts <= Allowance + MaxRetries + 1 + ConsecutiveFailures' + Owed'
    BY <1>7, <2>5, <2>6, Sums
  <2>8. Covered'
    BY <1>5, <1>7, <1>9, <2>4, <2>7 DEF Covered
  <2> QED
    BY <1>2, <1>8, <1>9, <2>1, <2>8 DEF BInv, DriverAlone
<1>12. CASE verdict[d] = "failed"
  <2>1. \A x \in Qas : qaStatus'[x] = "passed" <=> qaStatus[x] = "passed"
    BY <1>3, <1>6, <1>12
  <2>2. LatestPass(n)'
    <3>1. n = 0 \/ n \in Qas
      BY GatesAssumption DEF Qas
    <3> QED
      BY <1>10, <2>1, <3>1 DEF LatestPass
  <2>3. LastPassed = n /\ LastPassed' = n /\ k > n
    <3>1. n = 0 \/ n \in Passed
      BY <1>10, GatesAssumption DEF LatestPass, Passed, Qas
    <3> QED
      BY <1>2, <1>4, <1>8, <1>10, <2>2, <3>1, LatestPassIsLast, LatestPassIsLastNext
  <2>4. /\ Passed' = Passed /\ FailedSessions' = FailedSessions
        /\ FailedQas' = FailedQas \cup {k} /\ k \notin FailedQas
    BY <1>2, <1>3, <1>5, <1>6, <1>8, <1>12, <2>1, <2>3
    DEF Passed, FailedSessions, FailedQas
  <2>5. Cardinality(FailedQas') = Cardinality(FailedQas) + 1
    BY <2>4, CountsAreFinite, FS_AddElement
  <2>6. ConsecutiveFailures' = ConsecutiveFailures + 1
    <3>1. ConsecutiveFailures' = Cardinality(FailedSessions') + Cardinality(FailedQas')
      BY DEF ConsecutiveFailures, FailedSessions, FailedQas
    <3>2. Cardinality(FailedSessions) \in Nat /\ Cardinality(FailedQas) \in Nat
      BY CountsAreFinite, FS_CardinalityType
    <3> QED
      BY <2>4, <2>5, <3>1, <3>2, CountsAreFinite
  <2>7. Allowance' = Allowance
    BY <1>5, <2>4 DEF Allowance
  <2>8. Owed \in {0, 1} /\ Owed' = 0
    BY <1>5, <1>12 DEF Owed, Accounted, Reworking
  <2>9. /\ attempts <= Allowance + MaxRetries + 1
        /\ attempts <= Allowance + ConsecutiveFailures + Owed
    BY <1>7, <1>9 DEF BInv, Covered
  <2>10. attempts <= Allowance + (ConsecutiveFailures + 1)
    BY <1>7, <2>8, <2>9
  <2>11. Covered'
    BY <1>5, <1>7, <1>9, <2>6, <2>7, <2>8, <2>9, <2>10 DEF Covered
  <2> QED
    BY <1>9, <2>2, <2>11 DEF BInv, DriverAlone
<1> QED
  BY <1>1, <1>11, <1>12

(* Work goes on while no call is sending the task back.                    *)
LEMMA NobodyReworks ==
  ASSUME DInv, task # "in-review", NEW d \in Drivers
  PROVE  ~Reworking(d)
  BY DEF DInv, DriverAt, Gated, AtGates, AfterApproval, Reworking

LEMMA WorkSums ==
  ASSUME NEW a \in Nat, NEW b \in Nat, NEW m \in Nat, NEW c \in Nat,
         NEW k \in {0, 1}, NEW o \in {0, 1}, NEW p \in {0, 1}
  PROVE  /\ a + k <= b + c + 0 /\ c <= m
              => a + 1 + k <= b + m + 1 /\ a + 1 + k <= b + c + 1
         /\ a + k <= b + c + o /\ o <= p => a + k <= b + c + p
         /\ a + k <= b + c + o => a + k <= b + (c + 1) + p
  OBVIOUS

LEMMA WorkIsPaid ==
  ASSUME DriverAlone, DInv, BInv, WorkStep
  PROVE  BInv'
<1>1. /\ RowsOK /\ SessionsOK /\ UNCHANGED <<at, verdict, onQa, qaStatus, lastQa, feedbacks>>
  BY DEF DInv, BInv, WorkStep, StartWork, BeginSession, BlockExhaustedTask,
     CompleteSession, FailSession, MarkTask, local, quality, bounds
<1>2. /\ Passed' = Passed /\ Allowance' = Allowance /\ Carried' = Carried
      /\ \A d \in Drivers : OnLatest(d)'
  BY <1>1 DEF BInv, Passed, Allowance, Carried, Carries, OnLatest
<1>3. /\ attempts \in Nat /\ Allowance \in Nat /\ MaxRetries \in Nat
      /\ ConsecutiveFailures \in Nat
      /\ Carried \in {0, 1} /\ Owed \in {0, 1} /\ Owed' \in {0, 1}
  BY AllowanceIsNat, AttemptsAreNat, CountsAreFinite DEF BInv, Carried, Owed
<1>4. /\ attempts + Carried <= Allowance + MaxRetries + 1
      /\ attempts + Carried <= Allowance + ConsecutiveFailures + Owed
  BY DEF BInv, Covered
<1>5. UNCHANGED failedAt =>
         /\ ConsecutiveFailures' = ConsecutiveFailures
         /\ (\E n \in 0..MaxQas : LatestPass(n))'
  BY <1>1, CountsStay DEF BInv
<1>6. CASE StartWork
  <2>1. /\ attempts' = attempts + 1 /\ work' = "running" /\ work = "idle"
        /\ task \in {"todo", "in-progress"} /\ ConsecutiveFailures <= MaxRetries
        /\ UNCHANGED <<task, failedAt>>
    BY <1>3, <1>6 DEF StartWork, BeginSession, Executable, Exhausted
  <2>2. Owed = 0
    BY <2>1 DEF Owed, Accounted
  <2>3. Owed' = 1
    <3>1. \A d \in Drivers : ~Reworking(d)'
      BY <1>1, <2>1, NobodyReworks DEF Reworking
    <3> QED
      BY <2>1, <3>1 DEF Owed, Accounted
  <2>4. attempts + 1 \in Attempts
    BY <1>3, <1>6, GatesAssumption DEF StartWork, BeginSession, Attempts
  <2>5. SessionsOK'
    BY <1>1, <1>3, <2>1, <2>4 DEF SessionsOK, Attempts
  <2>6. /\ attempts + 1 + Carried <= Allowance + MaxRetries + 1
        /\ attempts + 1 + Carried <= Allowance + ConsecutiveFailures + 1
    BY <1>3, <1>4, <2>1, <2>2, WorkSums
  <2>7. Covered'
    BY <1>2, <1>5, <2>1, <2>3, <2>6 DEF Covered
  <2> QED
    BY <1>2, <1>5, <2>1, <2>5, <2>7 DEF BInv
<1>7. CASE FailSession
  <2>1. /\ work = "running" /\ attempts' = attempts /\ work' # "running"
        /\ failedAt' = [failedAt EXCEPT ![attempts] = lastQa]
    BY <1>7 DEF FailSession
  <2>2. attempts \in Attempts /\ lastQa \in 0..MaxQas /\ lastQa # None
    BY <1>1, <2>1, GatesAssumption DEF RowsOK, Attempts, None
  <2>3. SessionsOK'
    BY <1>1, <2>1, <2>2 DEF SessionsOK, Attempts
  <2>4. PICK n \in 0..MaxQas : LatestPass(n)
    BY DEF BInv
  <2>5. LatestPass(n)'
    BY <1>1, <2>4 DEF LatestPass
  <2>6. LastPassed = n /\ LastPassed' = n /\ lastQa >= n
    <3>1. n <= lastQa
      BY <1>1, <2>4, GatesAssumption DEF LatestPass, RowsOK, Qas
    <3> QED
      BY <2>2, <2>4, <2>5, <3>1, LatestPassIsLast, LatestPassIsLastNext
  <2>7. PICK i \in Attempts : i = attempts
    BY <2>2
  <2>8. /\ FailedSessions' = FailedSessions \cup {i} /\ i \notin FailedSessions
        /\ FailedQas' = FailedQas
    <3>1. failedAt[i] = None
      BY <1>1, <2>1, <2>7 DEF SessionsOK
    <3>2. \A x \in Attempts : failedAt'[x] = IF x = i THEN lastQa ELSE failedAt[x]
      BY <1>1, <2>1, <2>7 DEF SessionsOK
    <3>3. FailedQas' = FailedQas
      BY <1>1, <2>6 DEF FailedQas
    <3> QED
      BY <2>2, <2>6, <3>1, <3>2, <3>3 DEF FailedSessions
  <2>9. ConsecutiveFailures' = ConsecutiveFailures + 1
    <3>1. Cardinality(FailedSessions') = Cardinality(FailedSessions) + 1
      BY <2>8, CountsAreFinite, FS_AddElement
    <3>2. ConsecutiveFailures' = Cardinality(FailedSessions') + Cardinality(FailedQas')
      BY DEF ConsecutiveFailures, FailedSessions, FailedQas
    <3>3. Cardinality(FailedSessions) \in Nat /\ Cardinality(FailedQas) \in Nat
      BY CountsAreFinite, FS_CardinalityType
    <3> QED
      BY <2>8, <3>1, <3>2, <3>3, CountsAreFinite
  <2>10. attempts + Carried <= Allowance + (ConsecutiveFailures + 1) + Owed'
    BY <1>3, <1>4, WorkSums
  <2>11. Covered'
    BY <1>2, <1>4, <2>1, <2>9, <2>10 DEF Covered
  <2> QED
    BY <1>2, <2>3, <2>5, <2>11 DEF BInv
<1>8. CASE BlockExhaustedTask \/ CompleteSession \/ MarkTask
  <2>1. UNCHANGED <<attempts, failedAt>> /\ work' # "running"
    BY <1>8 DEF BlockExhaustedTask, CompleteSession, MarkTask, session
  <2>2. SessionsOK'
    BY <1>1, <2>1 DEF SessionsOK
  <2>3. Owed <= Owed'
    <3>1. CASE BlockExhaustedTask
      <4>1. Owed = 0
        BY <3>1 DEF BlockExhaustedTask, Executable, Owed, Accounted
      <4> QED
        BY <1>3, <4>1
    <3>2. CASE CompleteSession \/ (MarkTask /\ work = "completed")
      <4>1. task \in {"todo", "in-progress"}
        BY <3>2 DEF CompleteSession, DInv, Implementing
      <4>2. \A d \in Drivers : ~Reworking(d)'
        BY <1>1, <4>1, NobodyReworks DEF Reworking
      <4>3. work' = "completed" \/ task' = "in-review"
        BY <3>2, <4>1 DEF CompleteSession, MarkTask
      <4>4. Owed' = 1
        BY <4>2, <4>3 DEF Owed, Accounted
      <4> QED
        BY <1>3, <4>4
    <3>3. CASE MarkTask /\ work = "failed"
      <4>1. task \in {"todo", "in-progress"}
        BY <3>3 DEF DInv, Implementing
      <4>2. Owed = 0
        BY <3>3, <4>1 DEF Owed, Accounted
      <4> QED
        BY <1>3, <4>2
    <3>4. MarkTask => work \in {"completed", "failed"}
      BY DEF MarkTask
    <3> QED
      BY <1>8, <3>1, <3>2, <3>3, <3>4, Zenon
  <2>4. attempts + Carried <= Allowance + ConsecutiveFailures + Owed'
    BY <1>3, <1>4, <2>3, WorkSums
  <2>5. Covered'
    BY <1>2, <1>4, <1>5, <2>1, <2>4 DEF Covered
  <2> QED
    BY <1>2, <1>5, <2>1, <2>2, <2>5 DEF BInv
<1> QED
  BY <1>6, <1>7, <1>8 DEF WorkStep

LEMMA BudgetInit == Init => BInv
<1> SUFFICES ASSUME Init PROVE BInv
  OBVIOUS
<1>1. SessionsOK
  BY GatesAssumption DEF Init, SessionsOK
<1>2. LatestPass(0) /\ 0 \in 0..MaxQas
  BY GatesAssumption DEF Init, LatestPass
<1>3. \A d \in Drivers : OnLatest(d) /\ ~Carries(d)
  BY DEF Init, OnLatest, Carries, Procs
<1>4. Carried = 0
  BY <1>3 DEF Carried
<1>5. /\ Allowance \in Nat /\ MaxRetries \in Nat /\ ConsecutiveFailures \in Nat
      /\ Owed \in {0, 1}
  BY <1>1, AllowanceIsNat, CountsAreFinite DEF Owed
<1>6. Covered
  BY <1>4, <1>5 DEF Init, Covered
<1> QED
  BY <1>1, <1>2, <1>3, <1>6 DEF BInv

LEMMA BudgetStepKeeps ==
  ASSUME DriverAlone, DInv, BInv, [Next]_vars
  PROVE  BInv'
<1>1. ASSUME NEW d \in Drivers, RecorderStep(d)
      PROVE  BInv'
  BY <1>1, ReviewSpendsNothing, QaSpendsNothing, TakingQaSpendsNothing, VerdictPays,
     SendBackIsPaid, GatesSpendNothing, NeverBlocks
  DEF RecorderStep
<1>2. ASSUME NEW d \in Drivers, DriverStep(d) \/ PollFeedback(d) \/ Crash(d)
      PROVE  BInv'
  BY <1>1, <1>2, GatesSpendNothing, TakingQaSpendsNothing, PollPays DEF DriverStep
<1>3. CASE UNCHANGED vars
  <2>1. UNCHANGED <<task, work, attempts, failedAt, qaStatus, at, onQa, verdict, feedbacks>>
    BY <1>3 DEF vars, session, quality, local, bounds
  <2>2. /\ Passed' = Passed /\ ConsecutiveFailures' = ConsecutiveFailures
        /\ (\E n \in 0..MaxQas : LatestPass(n))'
    BY <2>1, CountsStay DEF BInv
  <2>3. /\ Allowance' = Allowance /\ Carried' = Carried /\ Owed' = Owed
        /\ \A d \in Drivers : OnLatest(d)'
    BY <2>1, <2>2 DEF BInv, Allowance, Carried, Carries, Owed, Accounted, Reworking, OnLatest
  <2>4. SessionsOK' /\ Covered'
    BY <2>1, <2>2, <2>3 DEF BInv, SessionsOK, Covered
  <2> QED
    BY <2>2, <2>3, <2>4 DEF BInv
<1> QED
  BY <1>2, <1>3, WorkIsPaid DEF Next, DriverAlone, Procs

(* However sessions and QA gates fail, however often the driver dies: a    *)
(* task is attempted at most once and MaxRetries times again, once more    *)
(* for each red pull request, and afresh after a QA result that passed     *)
(* (assessTaskRetryState, auto-execution-service.ts).                      *)
THEOREM AttemptsStayBounded ==
  ASSUME DriverAlone
  PROVE  MCSpec => []DriverGivesUp
<1> DEFINE I == life = "driver" => DInv /\ BInv
<1>1. MCInit => I
  BY DriverInit, BudgetInit DEF MCInit
<1>2. I /\ [MCNext]_<<life, vars>> => I'
  <2>1. ASSUME I, MCNext, life' = "driver"
        PROVE  (DInv /\ BInv)'
    BY <2>1, DriverStepKeeps, BudgetStepKeeps DEF MCNext
  <2>2. ASSUME I, UNCHANGED <<life, vars>>, life' = "driver"
        PROVE  (DInv /\ BInv)'
    BY <2>2, DriverStepKeeps, BudgetStepKeeps
  <2> QED
    BY <2>1, <2>2
<1>3. I => DriverGivesUp
  <2> SUFFICES ASSUME DInv, BInv
               PROVE  AttemptsBounded
    BY DEF DriverGivesUp
  <2>1. /\ attempts \in Nat /\ MaxRetries \in Nat /\ feedbacks \in Nat
        /\ Cardinality(Passed) \in Nat
    BY AllowanceIsNat, AttemptsAreNat, CountsAreFinite DEF BInv
  <2>2. /\ Carried \in {0, 1}
        /\ attempts + Carried
             <= (MaxRetries + 1) * Cardinality(Passed) + feedbacks + MaxRetries + 1
    BY DEF BInv, Covered, Allowance, Carried
  <2>3. (MaxRetries + 1) * (Cardinality(Passed) + 1)
          = (MaxRetries + 1) * Cardinality(Passed) + MaxRetries + 1
    BY AllowanceIsNat DEF BInv
  <2>4. (MaxRetries + 1) * Cardinality(Passed) \in Nat
    BY <2>1
  <2>5. attempts <= (MaxRetries + 1) * (Cardinality(Passed) + 1) + feedbacks
    BY <2>1, <2>2, <2>3, <2>4
  <2> QED
    BY <2>5 DEF AttemptsBounded, Passed
<1> HIDE DEF I
<1> QED
  BY <1>1, <1>2, <1>3, PTL DEF MCSpec

---------------------------------------------------------------------------
(* The task at the CEO's desk.                                             *)

DeskAlone == \A c, e \in DeskRequests : c = e

(* The reviews and QA results: which exist, and that they have a status.   *)
DeskRows ==
    /\ lastReview \in 0..DeskReviews
    /\ reviewStatus \in [Desk!Reviews -> ReviewStates]
    /\ lastQa \in 0..DeskQas
    /\ qaStatus \in [Desk!Qas -> QaStates]
    /\ \A r \in Desk!Reviews : reviewStatus[r] = "absent" <=> r > lastReview
    /\ \A q \in Desk!Qas : qaStatus[q] = "absent" <=> q > lastQa

DeskLocals ==
    /\ at \in [DeskRequests -> Places]
    /\ onReview \in [DeskRequests -> Nat] /\ onQa \in [DeskRequests -> Nat]
    /\ verdict \in [DeskRequests -> ReviewVerdicts \cup QaVerdicts \cup {"none"}]

(* What a request has made sure of before it writes.                       *)
DeskAt(c) ==
    /\ at[c] \in {"readReview", "writeReview"} =>
          onReview[c] \in 1..lastReview /\ verdict[c] \in ReviewVerdicts
    /\ at[c] = "writeReview" => reviewStatus[onReview[c]] # "approved"
    /\ at[c] \in {"tick", "readQa", "approval", "writeQa"} => onQa[c] \in 1..lastQa
    /\ at[c] \in {"readQa", "approval", "writeQa"} => verdict[c] \in QaVerdicts
    /\ at[c] \in {"approval", "writeQa"} => qaStatus[onQa[c]] \notin TerminalQa
    /\ at[c] = "writeQa" /\ verdict[c] = "passed" => Desk!Approved # {}
    /\ at[c] \in {"finish", "done"} => Desk!DoneAllowed

DeskInv ==
    /\ DeskRows /\ DeskLocals
    /\ \A c \in DeskRequests : DeskAt(c)
    /\ Desk!DoneHasEvidence

(* What the next state owes to this one: no approval and no QA verdict is  *)
(* taken back, and "done" is written on evidence.                          *)
DeskKeeps ==
    /\ DeskRows'
    /\ \A r \in Desk!Reviews : reviewStatus[r] = "approved" => reviewStatus'[r] = "approved"
    /\ Desk!QaVerdictFinal
    /\ task' = "done" => task = "done" \/ Desk!DoneAllowed

LEMMA EvidenceStays ==
  ASSUME DeskKeeps
  PROVE  /\ Desk!Approved # {} => Desk!Approved' # {}
         /\ Desk!DoneAllowed => Desk!DoneAllowed'
  BY DEF DeskKeeps, Desk!Approved, Desk!DoneAllowed, Desk!QaVerdictFinal,
     Desk!TerminalQa

LEMMA DeskStepKeeps ==
  ASSUME DeskAlone, DeskInv, NEW c \in DeskRequests, DeskKeeps, DeskLocals', DeskAt(c)'
  PROVE  DeskInv'
<1>1. Desk!DoneHasEvidence'
  BY EvidenceStays DEF DeskInv, DeskKeeps, Desk!DoneHasEvidence, Desk!DoneAllowed
<1> QED
  BY <1>1 DEF DeskInv, DeskKeeps, DeskAlone

(* Most steps write neither a review nor a QA result.                      *)
LEMMA DeskQuiet ==
  ASSUME DeskInv, UNCHANGED <<lastReview, reviewStatus, lastQa, qaStatus>>,
         task' = "done" => task = "done" \/ Desk!DoneAllowed
  PROVE  DeskKeeps
  BY DEF DeskInv, DeskKeeps, DeskRows, Desk!QaVerdictFinal

(* A row is created where there was none.                                  *)
LEMMA DeskNewReview ==
  ASSUME DeskInv, NEW by, Desk!CreateReview(by), UNCHANGED <<task, lastQa, qaStatus>>
  PROVE  DeskKeeps /\ lastReview' = lastReview + 1 /\ lastReview \in Nat
<1>1. /\ lastReview + 1 \in Desk!Reviews /\ lastReview \in Nat /\ DeskReviews \in Nat
      /\ lastReview' = lastReview + 1 /\ lastReview' \in 0..DeskReviews
  BY DeskAssumption DEF DeskInv, DeskRows, Desk!CreateReview, Desk!Reviews
<1>2. /\ \A r \in Desk!Reviews :
            reviewStatus'[r] = IF r = lastReview + 1 THEN "pending" ELSE reviewStatus[r]
      /\ reviewStatus' \in [Desk!Reviews -> ReviewStates]
  BY <1>1 DEF DeskInv, DeskRows, Desk!CreateReview, ReviewStates
<1>3. reviewStatus[lastReview + 1] = "absent"
  BY <1>1 DEF DeskInv, DeskRows
<1>4. \A r \in Desk!Reviews : reviewStatus'[r] = "absent" <=> r > lastReview'
  BY <1>1, <1>2 DEF DeskInv, DeskRows, Desk!Reviews
<1> QED
  BY <1>1, <1>2, <1>3, <1>4 DEF DeskInv, DeskKeeps, DeskRows, Desk!QaVerdictFinal

LEMMA DeskNewQa ==
  ASSUME DeskInv, NEW s \in {"pending", "passed", "failed"}, NEW k, Desk!CreateQa(s, k),
         UNCHANGED <<task, lastReview, reviewStatus>>
  PROVE  DeskKeeps /\ lastQa' = lastQa + 1 /\ lastQa \in Nat
<1>1. /\ lastQa + 1 \in Desk!Qas /\ lastQa \in Nat /\ DeskQas \in Nat
      /\ lastQa' = lastQa + 1 /\ lastQa' \in 0..DeskQas
  BY DeskAssumption DEF DeskInv, DeskRows, Desk!CreateQa, Desk!Qas
<1>2. /\ \A q \in Desk!Qas : qaStatus'[q] = IF q = lastQa + 1 THEN s ELSE qaStatus[q]
      /\ qaStatus' \in [Desk!Qas -> QaStates]
  BY <1>1 DEF DeskInv, DeskRows, Desk!CreateQa, QaStates, QaVerdicts
<1>3. qaStatus[lastQa + 1] = "absent"
  BY <1>1 DEF DeskInv, DeskRows
<1>4. \A q \in Desk!Qas : qaStatus'[q] = "absent" <=> q > lastQa'
  BY <1>1, <1>2 DEF DeskInv, DeskRows, Desk!Qas
<1> QED
  BY <1>1, <1>2, <1>3, <1>4 DEF DeskInv, DeskKeeps, DeskRows, Desk!QaVerdictFinal,
     Desk!TerminalQa

LEMMA DeskGoesTo ==
  ASSUME DeskLocals, NEW c \in DeskRequests, NEW l \in Places, Desk!Goto(c, l)
  PROVE  /\ DeskLocals' /\ at'[c] = l
         /\ UNCHANGED <<onReview, onQa, verdict>>
  BY DEF DeskLocals, Desk!Goto

LEMMA DeskEnds ==
  ASSUME DeskLocals, NEW c \in DeskRequests, Desk!End(c)
  PROVE  DeskLocals' /\ at'[c] = "idle" /\ DeskAt(c)'
  BY DEF DeskLocals, Desk!End, Places, DeskAt

(* A request that ends, or that goes where it relies on nothing yet.       *)
LEMMA DeskMoves ==
  ASSUME DeskAlone, DeskInv, NEW c \in DeskRequests, DeskKeeps,
         \/ Desk!End(c)
         \/ \E l \in {"resolve", "request", "block", "hold", "openQa", "sendBack", "close",
                      "findReview", "reopen", "findPending", "newChecklist", "outside"} :
                Desk!Goto(c, l)
  PROVE  DeskInv'
<1>1. CASE Desk!End(c)
  BY <1>1, DeskEnds, DeskStepKeeps DEF DeskInv
<1>2. ASSUME NEW l \in {"resolve", "request", "block", "hold", "openQa", "sendBack",
                        "close", "findReview", "reopen", "findPending", "newChecklist",
                        "outside"},
             Desk!Goto(c, l)
      PROVE  DeskInv'
  <2>1. l \in Places
    BY DEF Places
  <2>2. DeskLocals' /\ at'[c] = l
    BY <1>2, <2>1, DeskGoesTo DEF DeskInv
  <2>3. DeskAt(c)'
    BY <2>2 DEF DeskAt
  <2> QED
    BY <2>2, <2>3, DeskStepKeeps
<1> QED
  BY <1>1, <1>2

(* Recording starts on a review, or a QA result, that exists.              *)
LEMMA DeskRecordsReview ==
  ASSUME DeskAlone, DeskInv, NEW c \in DeskRequests, DeskKeeps,
         NEW r \in 1..lastReview', NEW v \in ReviewVerdicts, NEW why,
         Desk!RecordReview(c, r, v, why)
  PROVE  DeskInv'
<1>1. DeskLocals' /\ at'[c] = "readReview" /\ onReview'[c] = r /\ verdict'[c] = v
  BY DEF DeskInv, DeskLocals, Desk!RecordReview, Places
<1>2. DeskAt(c)'
  BY <1>1 DEF DeskAt
<1> QED
  BY <1>1, <1>2, DeskStepKeeps

LEMMA DeskRecordsQa ==
  ASSUME DeskAlone, DeskInv, NEW c \in DeskRequests, DeskKeeps,
         NEW q \in 1..lastQa', NEW v \in QaVerdicts, NEW why, Desk!RecordQa(c, q, v, why)
  PROVE  DeskInv'
<1>1. DeskLocals' /\ at'[c] = "readQa" /\ onQa'[c] = q /\ verdict'[c] = v
  BY DEF DeskInv, DeskLocals, Desk!RecordQa, Places
<1>2. DeskAt(c)'
  BY <1>1 DEF DeskAt
<1> QED
  BY <1>1, <1>2, DeskStepKeeps

LEMMA DeskReviewKeeps ==
  ASSUME DeskAlone, DeskInv, NEW c \in DeskRequests,
         Desk!ReadReview(c) \/ Desk!WriteReview(c)
  PROVE  DeskInv' /\ DeskKeeps
<1> DEFINE r == onReview[c]
<1>1. DeskAt(c) /\ DeskRows /\ DeskLocals
  BY DEF DeskInv
<1>2. CASE Desk!ReadReview(c)
  <2>1. DeskKeeps
    BY <1>2, DeskQuiet DEF Desk!ReadReview, Desk!review, Desk!quality
  <2>2. CASE reviewStatus[r] # "approved" /\ Desk!Goto(c, "writeReview")
    <3>1. /\ DeskLocals' /\ at'[c] = "writeReview"
          /\ UNCHANGED <<onReview, onQa, verdict>>
      BY <1>1, <2>2, DeskGoesTo DEF Places
    <3>2. DeskAt(c)'
      BY <1>1, <1>2, <2>2, <3>1 DEF DeskAt, Desk!ReadReview, Desk!review
    <3> QED
      BY <2>1, <3>1, <3>2, DeskStepKeeps
  <2> QED
    BY <1>2, <2>1, <2>2, DeskMoves DEF Desk!ReadReview
<1>3. CASE Desk!WriteReview(c)
  <2>1. /\ r \in 1..lastReview /\ reviewStatus[r] # "approved"
        /\ verdict[c] \in ReviewVerdicts
    BY <1>1, <1>3 DEF DeskAt, Desk!WriteReview
  <2>2. r \in Desk!Reviews /\ ~(r > lastReview)
    <3> HIDE DEF r
    <3> QED
      BY <1>1, <2>1, DeskAssumption DEF DeskRows, Desk!Reviews
  <2>3. /\ \A x \in Desk!Reviews :
              reviewStatus'[x] = IF x = r THEN verdict[c] ELSE reviewStatus[x]
        /\ reviewStatus' \in [Desk!Reviews -> ReviewStates]
    BY <1>1, <1>3, <2>1, <2>2 DEF DeskRows, Desk!WriteReview, ReviewStates
  <2>4. \A x \in Desk!Reviews : reviewStatus'[x] = "absent" <=> x > lastReview
    <3> HIDE DEF r
    <3>1. verdict[c] # "absent"
      BY <2>1 DEF ReviewVerdicts
    <3> QED
      BY <1>1, <2>2, <2>3, <3>1 DEF DeskRows
  <2>5. UNCHANGED <<task, lastReview, lastQa, qaStatus>>
    BY <1>3 DEF Desk!WriteReview, Desk!quality
  <2>6. DeskKeeps
    BY <1>1, <2>1, <2>3, <2>4, <2>5 DEF DeskKeeps, DeskRows, Desk!QaVerdictFinal
  <2>7. \/ Desk!End(c) \/ Desk!Goto(c, "resolve") \/ Desk!Goto(c, "request")
        \/ Desk!Goto(c, "block")
    BY <1>3, <2>1 DEF Desk!WriteReview, ReviewVerdicts
  <2> QED
    BY <2>6, <2>7, DeskMoves
<1> QED
  BY <1>2, <1>3

LEMMA DeskQaKeeps ==
  ASSUME DeskAlone, DeskInv, NEW c \in DeskRequests,
         Desk!ReadQa(c) \/ Desk!FindApproval(c) \/ Desk!WriteQa(c)
  PROVE  DeskInv' /\ DeskKeeps
<1> DEFINE q == onQa[c]
<1>1. DeskAt(c) /\ DeskRows /\ DeskLocals
  BY DEF DeskInv
<1>2. CASE Desk!ReadQa(c)
  <2>1. DeskKeeps
    BY <1>2, DeskQuiet DEF Desk!ReadQa, Desk!review, Desk!quality
  <2>2. ASSUME NEW l \in {"approval", "writeQa"}, Desk!Goto(c, l),
               qaStatus[q] \notin TerminalQa,
               l = "writeQa" => verdict[c] # "passed"
        PROVE  DeskInv'
    <3>1. /\ DeskLocals' /\ at'[c] = l
          /\ UNCHANGED <<onReview, onQa, verdict>>
      BY <1>1, <2>2, DeskGoesTo DEF Places
    <3>2. DeskAt(c)'
      BY <1>1, <1>2, <2>2, <3>1 DEF DeskAt, Desk!ReadQa, Desk!quality
    <3> QED
      BY <2>1, <3>1, <3>2, DeskStepKeeps
  <2>3. Desk!Recordable(q, verdict[c]) => qaStatus[q] \notin TerminalQa
    BY DEF Desk!Recordable, Desk!TerminalQa, TerminalQa
  <2> QED
    BY <1>2, <2>1, <2>2, <2>3, DeskMoves DEF Desk!ReadQa
<1>3. CASE Desk!FindApproval(c)
  <2>1. DeskKeeps
    BY <1>3, DeskQuiet DEF Desk!FindApproval, Desk!review, Desk!quality
  <2>2. CASE Desk!Approved # {} /\ Desk!Goto(c, "writeQa")
    <3>1. /\ DeskLocals' /\ at'[c] = "writeQa"
          /\ UNCHANGED <<onReview, onQa, verdict>>
      BY <1>1, <2>2, DeskGoesTo DEF Places
    <3>2. Desk!Approved' # {}
      BY <2>1, <2>2, EvidenceStays
    <3>3. DeskAt(c)'
      BY <1>1, <1>3, <3>1, <3>2 DEF DeskAt, Desk!FindApproval, Desk!quality
    <3> QED
      BY <2>1, <3>1, <3>3, DeskStepKeeps
  <2> QED
    BY <1>3, <2>1, <2>2, DeskMoves DEF Desk!FindApproval, Desk!ReviewGateMet
<1>4. CASE Desk!WriteQa(c)
  <2>1. /\ q \in 1..lastQa /\ qaStatus[q] \notin TerminalQa
        /\ verdict[c] \in QaVerdicts
        /\ verdict[c] = "passed" => Desk!Approved # {}
    BY <1>1, <1>4 DEF DeskAt, Desk!WriteQa
  <2>2. q \in Desk!Qas /\ ~(q > lastQa)
    <3> HIDE DEF q
    <3> QED
      BY <1>1, <2>1, DeskAssumption DEF DeskRows, Desk!Qas
  <2>3. /\ \A x \in Desk!Qas :
              qaStatus'[x] = IF x = q THEN verdict[c] ELSE qaStatus[x]
        /\ qaStatus' \in [Desk!Qas -> QaStates]
    BY <1>1, <1>4, <2>1, <2>2 DEF DeskRows, Desk!WriteQa, QaStates
  <2>4. \A x \in Desk!Qas : qaStatus'[x] = "absent" <=> x > lastQa
    <3> HIDE DEF q
    <3>1. verdict[c] # "absent"
      BY <2>1 DEF QaVerdicts
    <3> QED
      BY <1>1, <2>2, <2>3, <3>1 DEF DeskRows
  <2>5. UNCHANGED <<task, lastReview, reviewStatus, lastQa>>
    BY <1>4 DEF Desk!WriteQa, Desk!review
  <2>6. DeskKeeps
    BY <1>1, <2>1, <2>3, <2>4, <2>5 DEF DeskKeeps, DeskRows, Desk!QaVerdictFinal,
       Desk!TerminalQa, TerminalQa
  <2>7. CASE verdict[c] = "passed" /\ Desk!Goto(c, "finish")
    <3>1. DeskLocals' /\ at'[c] = "finish"
      BY <1>1, <2>7, DeskGoesTo DEF Places
    <3>2. Desk!Approved' # {}
      BY <2>1, <2>6, <2>7, EvidenceStays
    <3>3. Desk!DoneAllowed'
      BY <2>2, <2>3, <2>7, <3>2 DEF Desk!DoneAllowed
    <3>4. DeskAt(c)'
      BY <3>1, <3>3 DEF DeskAt
    <3> QED
      BY <2>6, <3>1, <3>4, DeskStepKeeps
  <2>8. \/ verdict[c] = "passed" /\ Desk!Goto(c, "finish")
        \/ Desk!End(c) \/ Desk!Goto(c, "findReview") \/ Desk!Goto(c, "block")
    BY <1>4, <2>1 DEF Desk!WriteQa, QaVerdicts
  <2> QED
    BY <2>6, <2>7, <2>8, DeskMoves
<1> QED
  BY <1>2, <1>3, <1>4

LEMMA DeskRecorderKeeps ==
  ASSUME DeskAlone, DeskInv, NEW c \in DeskRequests, Desk!RecorderStep(c)
  PROVE  DeskInv' /\ DeskKeeps
<1> USE DEF Desk!review, Desk!quality, Desk!MoveUnlessSettled
<1>1. DeskAt(c) /\ DeskRows /\ DeskLocals
  BY DEF DeskInv
<1>2. CASE Desk!ResolveChangeRequests(c) \/ Desk!HoldInReview(c)
  BY <1>2, DeskQuiet, DeskMoves DEF Desk!ResolveChangeRequests, Desk!HoldInReview
<1>3. CASE Desk!OpenQa(c)
  BY <1>3, DeskNewQa, DeskMoves DEF Desk!OpenQa
<1>4. CASE Desk!RequestChanges(c) \/ Desk!SendBack(c) \/ Desk!BlockTask(c)
  BY <1>4, DeskQuiet, DeskMoves DEF Desk!RequestChanges, Desk!SendBack, Desk!BlockTask
<1>5. CASE Desk!FinishTask(c)
  <2>1. Desk!DoneAllowed
    BY <1>1, <1>5 DEF DeskAt, Desk!FinishTask
  <2> QED
    BY <1>5, <2>1, DeskQuiet, DeskMoves DEF Desk!FinishTask
<1>6. CASE Desk!CloseRework(c) \/ Desk!ReopenTask(c)
  BY <1>6, DeskQuiet, DeskMoves DEF Desk!CloseRework, Desk!ReopenTask
<1>7. CASE Desk!FindReviewed(c)
  <2>1. DeskKeeps
    BY <1>7, DeskQuiet DEF Desk!FindReviewed
  <2>2. ASSUME NEW r \in Desk!Approved, at' = [at EXCEPT ![c] = "rework"],
               onReview' = [onReview EXCEPT ![c] = r], UNCHANGED <<onQa, verdict>>
        PROVE  DeskInv'
    <3>1. r \in Nat
      BY DEF Desk!Approved, Desk!Reviews
    <3>2. DeskLocals' /\ at'[c] = "rework"
      BY <1>1, <2>2, <3>1 DEF DeskLocals, Places
    <3>3. DeskAt(c)'
      BY <3>2 DEF DeskAt
    <3> QED
      BY <2>1, <3>2, <3>3, DeskStepKeeps
  <2> QED
    BY <1>7, <2>1, <2>2, DeskMoves DEF Desk!FindReviewed
<1>8. CASE Desk!OpenRework(c)
  BY <1>8, DeskQuiet, DeskMoves DEF Desk!OpenRework
<1>9. CASE Desk!AttachChecklist(c)
  BY <1>9, DeskQuiet, DeskMoves DEF Desk!AttachChecklist
<1>10. CASE Desk!OpenOutsideReview(c)
  <2>1. /\ Desk!CreateReview("steer")
        /\ Desk!RecordReview(c, lastReview + 1, "changes_requested", TRUE)
        /\ UNCHANGED <<task, lastQa, qaStatus>>
    BY <1>10 DEF Desk!OpenOutsideReview
  <2>2. DeskKeeps /\ lastReview' = lastReview + 1 /\ lastReview \in Nat
    BY <2>1, DeskNewReview
  <2>3. lastReview + 1 \in 1..lastReview' /\ "changes_requested" \in ReviewVerdicts
    BY <2>2 DEF ReviewVerdicts
  <2> QED
    BY <2>1, <2>2, <2>3, DeskRecordsReview
<1> QED
  BY <1>2, <1>3, <1>4, <1>5, <1>6, <1>7, <1>8, <1>9, <1>10, DeskReviewKeeps, DeskQaKeeps
  DEF Desk!RecorderStep

(* What a request does besides.                                            *)
LEMMA DeskRequestKeeps ==
  ASSUME DeskAlone, DeskInv, NEW c \in DeskRequests, Desk!RequestStep(c)
  PROVE  DeskInv' /\ DeskKeeps
<1> USE DEF Desk!review, Desk!quality
<1>1. DeskAt(c) /\ DeskRows /\ DeskLocals
  BY DEF DeskInv
<1>2. CASE Desk!TickChecks(c)
  <2>1. DeskKeeps
    BY <1>2, DeskQuiet DEF Desk!TickChecks
  <2>2. onQa[c] \in 1..lastQa' /\ "passed" \in QaVerdicts
    BY <1>1, <1>2 DEF DeskAt, Desk!TickChecks, QaVerdicts
  <2> QED
    BY <1>2, <2>1, <2>2, DeskRecordsQa DEF Desk!TickChecks
<1>3. CASE Desk!FindPendingQa(c)
  <2>1. DeskKeeps
    BY <1>3, DeskQuiet DEF Desk!FindPendingQa
  <2>2. ASSUME NEW q \in Desk!PendingQas, at' = [at EXCEPT ![c] = "checklist"],
               onQa' = [onQa EXCEPT ![c] = q], UNCHANGED <<onReview, verdict>>
        PROVE  DeskInv'
    <3>1. q \in Nat
      BY DEF Desk!PendingQas, Desk!Qas
    <3>2. DeskLocals' /\ at'[c] = "checklist"
      BY <1>1, <2>2, <3>1 DEF DeskLocals, Places
    <3>3. DeskAt(c)'
      BY <3>2 DEF DeskAt
    <3> QED
      BY <2>1, <3>2, <3>3, DeskStepKeeps
  <2> QED
    BY <1>3, <2>1, <2>2, DeskMoves DEF Desk!FindPendingQa
<1>4. CASE Desk!OpenChecklist(c)
  BY <1>4, DeskNewQa, DeskMoves DEF Desk!OpenChecklist
<1>5. CASE Desk!WriteDone(c)
  <2>1. Desk!DoneAllowed
    BY <1>1, <1>5 DEF DeskAt, Desk!WriteDone
  <2> QED
    BY <1>5, <2>1, DeskQuiet, DeskMoves DEF Desk!WriteDone
<1> QED
  BY <1>2, <1>3, <1>4, <1>5, DeskRecorderKeeps DEF Desk!RequestStep

(* A click that leaves the locals of the request alone.                    *)
LEMMA DeskLeavesLocals ==
  ASSUME DeskAlone, DeskInv, NEW c \in DeskRequests, DeskKeeps, at[c] = "idle",
         UNCHANGED <<at, onReview, onQa, verdict>>
  PROVE  DeskInv'
<1>1. DeskLocals' /\ DeskAt(c)'
  BY DEF DeskInv, DeskLocals, DeskAt
<1> QED
  BY <1>1, DeskStepKeeps

LEMMA DeskClickKeeps ==
  ASSUME DeskAlone, DeskInv, NEW c \in DeskRequests, Desk!Click(c)
  PROVE  DeskInv' /\ DeskKeeps
<1> USE DEF Desk!review, Desk!quality, Desk!session, Desk!local
<1>1. DeskAt(c) /\ DeskRows /\ DeskLocals
  BY DEF DeskInv
<1>2. CASE Desk!SubmitReviewVerdict(c)
  <2>1. PICK r \in 1..lastReview, v \in Desk!ReviewVerdicts, why \in BOOLEAN :
           Desk!RecordReview(c, r, v, why)
    BY <1>2 DEF Desk!SubmitReviewVerdict
  <2>2. DeskKeeps /\ lastReview' = lastReview
    BY <1>2, DeskQuiet DEF Desk!SubmitReviewVerdict
  <2>3. v \in ReviewVerdicts
    BY DEF ReviewVerdicts, Desk!ReviewVerdicts
  <2> QED
    BY <2>1, <2>2, <2>3, DeskRecordsReview
<1>3. CASE Desk!SubmitQaVerdict(c)
  <2>1. PICK q \in 1..lastQa, v \in Desk!QaVerdicts, why \in BOOLEAN :
           Desk!RecordQa(c, q, v, why)
    BY <1>3 DEF Desk!SubmitQaVerdict
  <2>2. DeskKeeps /\ lastQa' = lastQa
    BY <1>3, DeskQuiet DEF Desk!SubmitQaVerdict
  <2>3. v \in QaVerdicts
    BY DEF QaVerdicts, Desk!QaVerdicts
  <2> QED
    BY <2>1, <2>2, <2>3, DeskRecordsQa
<1>4. CASE Desk!ApproveQaCheckpoint(c)
  <2>1. DeskKeeps /\ lastQa' = lastQa
    BY <1>4, DeskQuiet DEF Desk!ApproveQaCheckpoint
  <2>2. PICK q \in 1..lastQa : onQa' = [onQa EXCEPT ![c] = q]
    BY <1>4 DEF Desk!ApproveQaCheckpoint
  <2>3. DeskLocals' /\ at'[c] = "tick" /\ onQa'[c] = q
    BY <1>1, <1>4, <2>2 DEF DeskLocals, Desk!ApproveQaCheckpoint, Places
  <2>4. DeskAt(c)'
    BY <2>1, <2>3 DEF DeskAt
  <2> QED
    BY <2>1, <2>3, <2>4, DeskStepKeeps
<1>5. CASE Desk!RequestReview(c)
  BY <1>5, DeskNewReview, DeskLeavesLocals DEF Desk!RequestReview
<1>6. CASE Desk!SubmitChecks(c)
  BY <1>6, DeskNewQa, DeskLeavesLocals DEF Desk!SubmitChecks
<1>7. CASE Desk!GenerateChecklist(c)
  BY <1>7, DeskQuiet, DeskMoves DEF Desk!GenerateChecklist
<1>8. CASE Desk!UpdateTaskStatus(c)
  <2>1. PICK new \in Desk!TaskStatuses \ {"done"} : task' = new
    BY <1>8 DEF Desk!UpdateTaskStatus
  <2> QED
    BY <1>8, <2>1, DeskQuiet, DeskLeavesLocals DEF Desk!UpdateTaskStatus
<1>9. CASE Desk!AskDone(c)
  <2>1. DeskKeeps
    BY <1>9, DeskQuiet DEF Desk!AskDone
  <2>2. DeskLocals' /\ at'[c] = "done"
    BY <1>1, <1>9, DeskGoesTo DEF Desk!AskDone, Places
  <2>3. Desk!DoneAllowed'
    BY <1>9, <2>1, EvidenceStays DEF Desk!AskDone
  <2>4. DeskAt(c)'
    BY <2>2, <2>3 DEF DeskAt
  <2> QED
    BY <2>1, <2>2, <2>4, DeskStepKeeps
<1>10. CASE Desk!Steer(c)
  BY <1>10, DeskQuiet, DeskMoves DEF Desk!Steer
<1>11. CASE Desk!PrepareExecution(c)
  BY <1>11, DeskQuiet, DeskLeavesLocals DEF Desk!PrepareExecution, Desk!BeginSession
<1> QED
  BY <1>2, <1>3, <1>4, <1>5, <1>6, <1>7, <1>8, <1>9, <1>10, <1>11 DEF Desk!Click

LEMMA DeskWorkKeeps ==
  ASSUME DeskInv, Desk!WorkStep \/ UNCHANGED vars
  PROVE  DeskInv' /\ DeskKeeps
<1>1. /\ UNCHANGED <<lastReview, reviewStatus, lastQa, qaStatus, at, onReview, onQa, verdict>>
      /\ task' = "done" => task = "done"
  BY DEF Desk!WorkStep, Desk!StartWork, Desk!BeginSession, Desk!BlockExhaustedTask,
     Desk!MoveUnlessSettled, Desk!CompleteSession, Desk!FailSession, Desk!MarkTask,
     Desk!review, Desk!quality, Desk!local, vars, review, quality, local
<1>2. DeskKeeps
  BY <1>1, DeskQuiet
<1>3. Desk!DoneHasEvidence'
  BY <1>1, <1>2, EvidenceStays DEF DeskInv, Desk!DoneHasEvidence, Desk!DoneAllowed
<1>4. \A c \in DeskRequests : DeskAt(c)'
  BY <1>1, <1>2, EvidenceStays DEF DeskInv, DeskAt
<1> QED
  BY <1>1, <1>2, <1>3, <1>4 DEF DeskInv, DeskKeeps, DeskLocals

LEMMA DeskInit == Desk!Init => DeskInv
<1> SUFFICES ASSUME Desk!Init PROVE DeskInv
  OBVIOUS
<1>1. DeskRows
  BY DeskAssumption DEF Desk!Init, DeskRows, ReviewStates, QaStates, Desk!Reviews, Desk!Qas
<1>2. DeskLocals
  BY DEF Desk!Init, DeskLocals, Places, Desk!Procs
<1>3. \A c \in DeskRequests : DeskAt(c)
  BY DEF Desk!Init, DeskAt, Desk!Procs
<1> QED
  BY <1>1, <1>2, <1>3 DEF Desk!Init, DeskInv, Desk!DoneHasEvidence

LEMMA DeskNextKeeps ==
  ASSUME DeskAlone, DeskInv, Desk!Next \/ UNCHANGED vars
  PROVE  DeskInv' /\ DeskKeeps
<1>1. ASSUME NEW c \in DeskRequests, Desk!Crash(c)
      PROVE  DeskInv' /\ DeskKeeps
  BY <1>1, DeskQuiet, DeskMoves DEF Desk!Crash, Desk!review, Desk!quality
<1> QED
  BY <1>1, DeskRequestKeeps, DeskClickKeeps, DeskWorkKeeps DEF Desk!Next, Desk!Procs

LEMMA DeskLife ==
  ASSUME DeskAlone
  PROVE  MCSpec => [](life = "desk" => DeskInv)
<1> DEFINE I == life = "desk" => DeskInv
<1>1. MCInit => I
  BY DeskInit DEF MCInit
<1>2. I /\ [MCNext]_<<life, vars>> => I'
  <2>1. ASSUME I, MCNext, life' = "desk"
        PROVE  DeskInv'
    BY <2>1, DeskNextKeeps DEF MCNext
  <2>2. ASSUME I, UNCHANGED <<life, vars>>, life' = "desk"
        PROVE  DeskInv'
    BY <2>2, DeskNextKeeps
  <2> QED
    BY <2>1, <2>2
<1> HIDE DEF I
<1>3. MCSpec => []I
  BY <1>1, <1>2, PTL DEF MCSpec
<1> QED
  BY <1>3 DEF I

(* Whatever the CEO clicks, one request after another, and wherever one    *)
(* breaks off: a task is done only with an approved review and a passed QA *)
(* result (task-status-gate.ts, qa-service.ts).                            *)
THEOREM NoClickAround ==
  ASSUME DeskAlone
  PROVE  MCSpec => []DeskHasEvidence
<1>1. (life = "desk" => DeskInv) => DeskHasEvidence
  BY DEF DeskInv, DeskHasEvidence
<1> QED
  BY <1>1, DeskLife, PTL

(* No click rewrites a QA result that has passed, failed or blocked        *)
(* (recordQaResult).                                                       *)
THEOREM QaVerdictsStand ==
  ASSUME DeskAlone
  PROVE  MCSpec => DeskKeepsVerdicts
<1>1. (life = "desk" => DeskInv) /\ [MCNext]_<<life, vars>>
         => [life = "desk" => Desk!QaVerdictFinal]_vars
  BY DeskNextKeeps DEF MCNext, DeskKeeps
<1> QED
  BY <1>1, DeskLife, PTL DEF MCSpec, DeskKeepsVerdicts
=============================================================================
