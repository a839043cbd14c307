----------------------- MODULE OutcomeLifecycleProofs -----------------------
(***************************************************************************)
(* Proofs about OutcomeLifecycle, for every number of planners, drivers,   *)
(* requests, finishers, items and versions: work exists only for a plan    *)
(* version that somebody approved, a version follows only a rejected one,  *)
(* and a completed outcome has no open work.  The services never look      *)
(* again at what they have read, so the invariants say what an operation   *)
(* under way may rely on: approvedAt and rejectedAt are never cleared, not *)
(* even by a regeneration or a rejection.                                  *)
(***************************************************************************)
EXTENDS OutcomeLifecycle, WellFoundedInduction, TLAPS

(* The versions that exist; none is ever deleted.                          *)
Drafted == {v \in Versions : draft[v] # "none"}

Entries == Drafted \X {"draft", "approved"}

(* The pcs of an operation that works on a version.                        *)
OnVersion == {"readApprove", "approve", "readReject", "reject", "readApply",
              "apply"}

HandsOK ==
    /\ hand = [h \in Hands |-> hand[h]]
    /\ \A h \in Hands : hand[h].pc \in OnVersion
          => hand[h].version \in Drafted /\ hand[h].rest \subseteq Entries

(* An operation that is about to create work has read an approved draft.   *)
AppliesApproved ==
    \A h \in Hands : hand[h].pc = "apply" => approvedAt[hand[h].version]

(* The strengthening that is inductive.                                    *)
IInv ==
    /\ approvedAt \in [Versions -> BOOLEAN]
    /\ draft = [v \in Versions |-> draft[v]]
    /\ task = [r \in Versions \X Items |-> task[r]]
    /\ HandsOK
    /\ AppliesApproved
    /\ WorkIsApproved

---------------------------------------------------------------------------
(* A set of sweep entries has one with the smallest version.               *)
LEMMA FirstEntry ==
  ASSUME NEW rest \in SUBSET Entries, rest # {}
  PROVE  \E e \in rest : \A f \in rest : e[1] <= f[1]
<1> DEFINE R == OpToRel(<, Nat)
           T == {e[1] : e \in rest}
<1>1. T \subseteq Nat /\ T # {}
  BY OutcomeAssumption DEF Entries, Drafted, Versions
<1>2. PICK x \in T : \A y \in T : <<y, x>> \notin R
  BY <1>1, NatLessThanWellFounded, WFMin
<1>3. \A y \in T : ~(y < x)
  BY <1>1, <1>2 DEF OpToRel
<1>4. PICK e \in rest : e[1] = x
  BY <1>2
<1>5. ASSUME NEW f \in rest
      PROVE  e[1] <= f[1]
  <2>1. f[1] \in T /\ x \in T
    BY <1>2
  <2>2. ~(f[1] < x)
    BY <1>3, <2>1
  <2> HIDE DEF R, T
  <2>3. f[1] \in Nat /\ x \in Nat
    BY <1>1, <2>1
  <2> QED
    BY <1>4, <2>2, <2>3
<1> QED
  BY <1>5

(* What a hand does next is to stop or to go on with a listed version.     *)
LEMMA ProceedOK ==
  ASSUME NEW rest \in SUBSET Entries
  PROVE  LET n == Proceed(rest)
         IN /\ n.pc \in {"idle", "readApprove", "readApply"}
            /\ n.pc # "idle" => n.version \in Drafted /\ n.rest \subseteq Entries
<1>1. CASE rest = {}
  BY <1>1 DEF Proceed, Idle
<1>2. CASE rest # {}
  <2> DEFINE e == CHOOSE e \in rest : \A f \in rest : e[1] <= f[1]
  <2>1. e \in rest
    BY <1>2, FirstEntry
  <2>2. e[1] \in Drafted
    BY <2>1 DEF Entries
  <2> HIDE DEF e
  <2>3. Proceed(rest) = At(IF e[2] = "draft" THEN "readApprove" ELSE "readApply",
                           e[1], rest \ {e})
    BY <1>2 DEF Proceed, e
  <2> QED
    BY <2>2, <2>3 DEF At
<1> QED
  BY <1>1, <1>2

(* The sweep lists versions.                                               *)
LEMMA ListedOK == Listed \in SUBSET Entries
  BY DEF Listed, Swept, Entries, Drafted

---------------------------------------------------------------------------
(* Nothing is planned yet.                                                 *)
LEMMA InvInit == Init => IInv
  BY DEF Init, IInv, HandsOK, AppliesApproved, WorkIsApproved, Rows, Idle,
     OnVersion

(* No step removes a version.                                              *)
LEMMA DraftsGrow ==
  ASSUME draft = [v \in Versions |-> draft[v]], [Next]_vars
  PROVE  draft' = [v \in Versions |-> draft'[v]] /\ Drafted \subseteq Drafted'
<1> USE DEF drafts
<1>1. \/ UNCHANGED draft
      \/ \E x, s : s # "none" /\ draft' = [draft EXCEPT ![x] = s]
  <2>1. ASSUME NEW p \in Planners, PlannerStep(p) PROVE <1>1
    BY <2>1 DEF PlannerStep, AskForPlan, MarkPlanning, FollowUp,
       ReadLatestDraft, PersistPlan, PersistFailure, LosePlanner
  <2>2. ASSUME NEW h \in Hands, HandStep(h) \/ CrashHand(h) PROVE <1>1
    BY <2>2 DEF HandStep, ReadForApproval, WriteApproval, ReadForWork,
       CreateWork, CrashHand
  <2>3. ASSUME NEW r \in Requests, RequestStep(r) PROVE <1>1
    BY <2>3 DEF RequestStep, Click, ReadForRejection, WriteRejection,
       ReadForRelease, WriteRelease
  <2>4. ASSUME NEW d \in Drivers, SweepPlans(d) PROVE <1>1
    BY <2>4 DEF SweepPlans
  <2>5. ASSUME NEW r \in Versions \X Items, SettleTask(r) PROVE <1>1
    BY <2>5 DEF SettleTask, FinishTask, BlockTask
  <2>6. ASSUME NEW r \in Versions \X Items, NEW s \in TaskStatuses, MoveTask(r, s)
        PROVE <1>1
    BY <2>6 DEF MoveTask
  <2>7. ASSUME NEW f \in Finishers, FinisherStep(f) \/ LoseEvaluation(f)
        PROVE <1>1
    BY <2>7 DEF FinisherStep, ReadOutcome, ReadTasks, WriteOutcome,
       LoseEvaluation
  <2>8. CASE UNCHANGED vars
    BY <2>8 DEF vars
  <2> QED
    BY <2>1, <2>2, <2>3, <2>4, <2>5, <2>6, <2>7, <2>8 DEF Next
<1>2. CASE UNCHANGED draft
  BY <1>2 DEF Drafted, Versions
<1>3. ASSUME NEW x, NEW s, s # "none", draft' = [draft EXCEPT ![x] = s]
      PROVE  draft' = [v \in Versions |-> draft'[v]] /\ Drafted \subseteq Drafted'
  BY <1>3 DEF Drafted, Versions
<1> QED
  BY <1>1, <1>2, <1>3

(* A hand that goes to a sound place leaves all of them sound.             *)
LEMMA HandGoes ==
  ASSUME HandsOK, Drafted \subseteq Drafted', NEW h \in Hands, NEW n,
         hand' = [hand EXCEPT ![h] = n],
         n.pc \in OnVersion => n.version \in Drafted /\ n.rest \subseteq Entries
  PROVE  /\ HandsOK'
         /\ \A g \in Hands : hand'[g] = IF g = h THEN n ELSE hand[g]
<1>1. \A g \in Hands : hand'[g] = IF g = h THEN n ELSE hand[g]
  BY DEF HandsOK
<1>2. hand' = [g \in Hands |-> hand'[g]]
  BY DEF HandsOK
<1>3. Entries \subseteq Entries'
  BY DEF Entries
<1>4. ASSUME NEW g \in Hands, hand'[g].pc \in OnVersion
      PROVE  hand'[g].version \in Drafted' /\ hand'[g].rest \subseteq Entries'
  <2>1. CASE g = h
    BY <1>1, <1>3, <1>4, <2>1
  <2>2. CASE g # h
    <3>1. hand[g].version \in Drafted /\ hand[g].rest \subseteq Entries
      BY <1>1, <1>4, <2>2 DEF HandsOK
    <3> QED
      BY <1>1, <1>3, <2>2, <3>1
  <2> QED
    BY <2>1, <2>2
<1> QED
  BY <1>1, <1>2, <1>4 DEF HandsOK, OnVersion

(* If moreover it changes neither approvals nor tasks, and a place where   *)
(* it applies is approved, the invariant is kept.                          *)
LEMMA HandMoves ==
  ASSUME IInv, Drafted \subseteq Drafted', draft' = [v \in Versions |-> draft'[v]],
         NEW h \in Hands, NEW n,
         hand' = [hand EXCEPT ![h] = n],
         UNCHANGED <<approvedAt, task>>,
         n.pc \in OnVersion => n.version \in Drafted /\ n.rest \subseteq Entries,
         n.pc = "apply" => approvedAt[n.version]
  PROVE  IInv'
<1>1. HandsOK' /\ \A g \in Hands : hand'[g] = IF g = h THEN n ELSE hand[g]
  BY HandGoes DEF IInv
<1>2. AppliesApproved'
  BY <1>1 DEF IInv, AppliesApproved
<1>3. WorkIsApproved'
  BY DEF IInv, WorkIsApproved, Rows
<1> QED
  BY <1>1, <1>2, <1>3 DEF IInv

(* A step that moves no hand keeps the hands sound.                        *)
LEMMA HandsStay ==
  ASSUME HandsOK, Drafted \subseteq Drafted', UNCHANGED hand
  PROVE  HandsOK'
<1>1. Entries \subseteq Entries'
  BY DEF Entries
<1> QED
  BY <1>1 DEF HandsOK, OnVersion

(* Every step keeps the invariant.                                         *)
LEMMA InvStep == IInv /\ [Next]_vars => IInv'
<1> SUFFICES ASSUME IInv, [Next]_vars PROVE IInv'
  OBVIOUS
<1> USE DEF drafts
<1>g. draft' = [v \in Versions |-> draft'[v]] /\ Drafted \subseteq Drafted'
  BY DraftsGrow DEF IInv
<1>s. ASSUME UNCHANGED <<approvedAt, task, hand>> PROVE IInv'
  <2>1. HandsOK'
    BY <1>g, <1>s, HandsStay DEF IInv
  <2> QED
    BY <1>g, <1>s, <2>1 DEF IInv, AppliesApproved, WorkIsApproved, Rows
<1>1. ASSUME NEW p \in Planners, PlannerStep(p)
      PROVE  IInv'
  BY <1>1, <1>s DEF PlannerStep, AskForPlan, MarkPlanning, FollowUp,
     ReadLatestDraft, PersistPlan, PersistFailure, LosePlanner
<1>2. ASSUME NEW d \in Drivers, SweepPlans(d)
      PROVE  IInv'
  BY <1>2, ListedOK, ProceedOK, <1>g, HandMoves DEF SweepPlans, Hands, OnVersion
<1>3. ASSUME NEW h \in Hands, ReadForApproval(h)
      PROVE  IInv'
  <2> DEFINE v == hand[h].version
             rest == hand[h].rest
             next == CASE draft[v] = "draft" -> At("approve", v, rest)
                       [] draft[v] \in {"approved", "applied"} /\ h \in Drivers
                            -> At("readApply", v, rest)
                       [] OTHER -> Proceed(rest)
  <2>1. v \in Drafted /\ rest \in SUBSET Entries
    BY <1>3 DEF ReadForApproval, IInv, HandsOK, OnVersion
  <2>2. \/ next = At("approve", v, rest)
        \/ next = At("readApply", v, rest)
        \/ next = Proceed(rest)
    OBVIOUS
  <2>3. /\ hand' = [hand EXCEPT ![h] = next]
        /\ UNCHANGED <<approvedAt, task>>
    BY <1>3 DEF ReadForApproval
  <2> HIDE DEF v, rest, next
  <2>4. /\ next.pc \in OnVersion
              => next.version \in Drafted /\ next.rest \subseteq Entries
        /\ next.pc # "apply"
    BY <2>1, <2>2, ProceedOK DEF At, OnVersion
  <2> QED
    BY <2>3, <2>4, <1>g, HandMoves
<1>4. ASSUME NEW h \in Hands, WriteApproval(h)
      PROVE  IInv'
  <2> DEFINE v == hand[h].version
             next == IF h \in Drivers THEN At("readApply", v, hand[h].rest)
                     ELSE Idle
  <2>1. v \in Drafted /\ hand[h].rest \in SUBSET Entries
    BY <1>4 DEF WriteApproval, IInv, HandsOK, OnVersion
  <2>2. /\ hand' = [hand EXCEPT ![h] = next]
        /\ approvedAt' = [approvedAt EXCEPT ![v] = TRUE]
        /\ task' = task
    BY <1>4 DEF WriteApproval
  <2>3. /\ next.pc \in OnVersion
              => next.version \in Drafted /\ next.rest \subseteq Entries
        /\ next.pc # "apply"
    BY <2>1 DEF At, Idle, OnVersion
  <2> HIDE DEF v, next
  <2>4. HandsOK' /\ \A g \in Hands : hand'[g] = IF g = h THEN next ELSE hand[g]
    BY <1>g, <2>2, <2>3, HandGoes DEF IInv
  <2>5. \A w \in Versions : approvedAt[w] => approvedAt'[w]
    BY <2>2 DEF IInv
  <2>7. AppliesApproved'
    <3> SUFFICES ASSUME NEW g \in Hands, hand'[g].pc = "apply"
                 PROVE  approvedAt'[hand'[g].version]
      BY DEF AppliesApproved
    <3>1. hand'[g] = hand[g]
      BY <2>3, <2>4
    <3>2. approvedAt[hand[g].version] /\ hand[g].version \in Versions
      BY <3>1 DEF IInv, AppliesApproved, HandsOK, OnVersion, Drafted
    <3> QED
      BY <2>5, <3>1, <3>2
  <2>8. WorkIsApproved'
    <3> SUFFICES ASSUME NEW r \in Rows' PROVE approvedAt'[r[1]]
      BY DEF WorkIsApproved
    <3>1. r \in Rows /\ r[1] \in Versions
      BY <2>2 DEF Rows, IInv
    <3> QED
      BY <2>5, <3>1 DEF IInv, WorkIsApproved
  <2> QED
    BY <1>g, <2>2, <2>4, <2>7, <2>8 DEF IInv
<1>5. ASSUME NEW h \in Hands, ReadForWork(h)
      PROVE  IInv'
  <2> DEFINE v == hand[h].version
             rest == hand[h].rest
             work == [pc |-> "apply", version |-> v, rest |-> rest,
                      items |-> plan[v]]
             next == IF MayCreateWork(v) THEN work ELSE Proceed(rest)
  <2>1. v \in Drafted /\ rest \in SUBSET Entries
    BY <1>5 DEF ReadForWork, IInv, HandsOK, OnVersion
  <2>2. /\ hand' = [hand EXCEPT ![h] = next]
        /\ UNCHANGED <<approvedAt, task>>
    BY <1>5 DEF ReadForWork
  <2>3. \/ next = work /\ approvedAt[v]
        \/ next = Proceed(rest)
    BY DEF MayCreateWork
  <2>4. work.pc = "apply" /\ work.version = v /\ work.rest = rest
    OBVIOUS
  <2> HIDE DEF v, rest, next, work
  <2>5. /\ next.pc \in OnVersion
              => next.version \in Drafted /\ next.rest \subseteq Entries
        /\ next.pc = "apply" => approvedAt[next.version]
    BY <2>1, <2>3, <2>4, ProceedOK DEF OnVersion
  <2> QED
    BY <2>2, <2>5, <1>g, HandMoves
<1>6. ASSUME NEW h \in Hands, CreateWork(h)
      PROVE  IInv'
  <2> DEFINE v == hand[h].version
             rest == hand[h].rest
             next == Proceed(rest)
  <2>1. v \in Drafted /\ rest \in SUBSET Entries /\ approvedAt[v]
    BY <1>6 DEF CreateWork, IInv, HandsOK, AppliesApproved, OnVersion
  <2>2. /\ hand' = [hand EXCEPT ![h] = next]
        /\ approvedAt' = approvedAt
    BY <1>6 DEF CreateWork
  <2>3. task' = [r \in DOMAIN task |->
           IF r[1] = v /\ r[2] \in hand[h].items /\ task[r] = "none"
           THEN "open" ELSE task[r]]
    BY <1>6 DEF CreateWork
  <2>4. /\ next.pc \in OnVersion
              => next.version \in Drafted /\ next.rest \subseteq Entries
        /\ next.pc # "apply"
    BY <2>1, ProceedOK DEF OnVersion
  <2>5. task' = [r \in Versions \X Items |-> task'[r]]
    BY <2>3 DEF IInv
  <2>6. WorkIsApproved'
    <3> SUFFICES ASSUME NEW r \in Rows' PROVE approvedAt[r[1]]
      BY <2>2 DEF WorkIsApproved
    <3>1. r \in DOMAIN task /\ (r \in Rows \/ r[1] = v)
      BY <2>3 DEF Rows, IInv
    <3> QED
      BY <2>1, <3>1 DEF IInv, WorkIsApproved
  <2> HIDE DEF v, rest, next
  <2>7. HandsOK' /\ \A g \in Hands : hand'[g] = IF g = h THEN next ELSE hand[g]
    BY <1>g, <2>2, <2>4, HandGoes DEF IInv
  <2>9. AppliesApproved'
    BY <2>2, <2>4, <2>7 DEF IInv, AppliesApproved
  <2> QED
    BY <1>g, <2>2, <2>5, <2>6, <2>7, <2>9 DEF IInv
<1>7. ASSUME NEW h \in Hands, CrashHand(h)
      PROVE  IInv'
  BY <1>7, <1>g, HandMoves DEF CrashHand, Idle, OnVersion
<1>8. ASSUME NEW r \in Requests, RequestStep(r)
      PROVE  IInv'
  <2> r \in Hands
    BY DEF Hands
  <2>1. ASSUME NEW v \in Versions, Click(r, v)
        PROVE  IInv'
    <3>1. PICK pc \in {"readApprove", "readReject", "readApply"} :
             hand' = [hand EXCEPT ![r] = At(pc, v, {})]
      BY <2>1 DEF Click
    <3>2. At(pc, v, {}).version = v /\ At(pc, v, {}).rest = {}
          /\ At(pc, v, {}).pc # "apply"
      BY DEF At
    <3>3. v \in Drafted
      BY <2>1 DEF Click, Drafted
    <3> QED
      BY <2>1, <3>1, <3>2, <3>3, <1>g, HandMoves DEF Click
  <2>2. ASSUME ReadForRejection(r)
        PROVE  IInv'
    <3> DEFINE v == hand[r].version
               next == IF draft[v] \in {"draft", "failed"}
                       THEN At("reject", v, {}) ELSE Idle
    <3>1. v \in Drafted
      BY <2>2 DEF ReadForRejection, IInv, HandsOK, OnVersion
    <3>2. /\ next.pc \in OnVersion
                => next.version \in Drafted /\ next.rest \subseteq Entries
          /\ next.pc # "apply"
      BY <3>1 DEF At, Idle, OnVersion
    <3>3. /\ hand' = [hand EXCEPT ![r] = next]
          /\ UNCHANGED <<approvedAt, task>>
      BY <2>2 DEF ReadForRejection
    <3> HIDE DEF next
    <3> QED
      BY <3>2, <3>3, <1>g, HandMoves
  <2>3. ASSUME WriteRejection(r) \/ ReadForRelease(r) \/ WriteRelease(r)
        PROVE  IInv'
    <3>1. PICK n \in {Idle, [pc |-> "release"]} :
             hand' = [hand EXCEPT ![r] = n] /\ UNCHANGED <<approvedAt, task>>
      BY <2>3 DEF WriteRejection, ReadForRelease, WriteRelease
    <3>2. n.pc \notin OnVersion
      BY DEF Idle, OnVersion
    <3> QED
      BY <3>1, <3>2, <1>g, HandMoves DEF OnVersion
  <2> QED
    BY <1>8, <2>1, <2>2, <2>3 DEF RequestStep
<1>t. ASSUME UNCHANGED <<approvedAt, hand>>,
             task' = [r \in DOMAIN task |-> task'[r]],
             \A r \in DOMAIN task : task'[r] # "none" => task[r] # "none"
      PROVE  IInv'
  <2>1. WorkIsApproved'
    BY <1>t DEF IInv, WorkIsApproved, Rows
  <2>2. HandsOK' /\ AppliesApproved'
    BY <1>g, <1>t, HandsStay DEF IInv, AppliesApproved
  <2>3. task' = [r \in Versions \X Items |-> task'[r]]
    BY <1>t DEF IInv
  <2> QED
    BY <1>g, <1>t, <2>1, <2>2, <2>3 DEF IInv
<1>9. ASSUME NEW r \in Versions \X Items, SettleTask(r)
      PROVE  IInv'
  BY <1>9, <1>t DEF SettleTask, FinishTask, BlockTask, IInv
<1>10. ASSUME NEW r \in Versions \X Items, NEW s \in TaskStatuses \ {"done"},
              MoveTask(r, s)
       PROVE  IInv'
  BY <1>10, <1>t DEF MoveTask, IInv
<1>11. ASSUME NEW f \in Finishers, FinisherStep(f) \/ LoseEvaluation(f)
       PROVE  IInv'
  BY <1>11, <1>s DEF FinisherStep, ReadOutcome, ReadTasks, WriteOutcome,
     LoseEvaluation
<1>12. CASE UNCHANGED vars
  BY <1>12, <1>s DEF vars
<1> QED
  BY <1>1, <1>2, <1>3, <1>4, <1>5, <1>6, <1>7, <1>8, <1>9, <1>10, <1>11, <1>12
  DEF Next, HandStep

(* Whatever regenerations, rejections and crashes it races with, no        *)
(* operation turns a plan into work that was never approved.               *)
THEOREM WorkApproved == Spec => []WorkIsApproved
<1>1. Spec => []IInv
  BY InvInit, InvStep, PTL DEF Spec
<1> QED
  BY <1>1, PTL DEF IInv

---------------------------------------------------------------------------
(* A generation that has chosen a version may persist it at any later time *)
(* and still follow a rejection only.                                      *)
PlannersOK ==
    /\ planner = [p \in Planners |-> planner[p]]
    /\ \A p \in Planners : planner[p].pc = "generate"
          => /\ planner[p].version \in Versions
             /\ planner[p].version > 1 => rejectedAt[planner[p].version - 1]

RejectedIsDated == \A v \in Versions : draft[v] = "rejected" => rejectedAt[v]

VInv ==
    /\ rejectedAt \in [Versions -> BOOLEAN]
    /\ RejectedIsDated
    /\ PlannersOK
    /\ NextVersionAfterRejection

(* The latest version exists, or there is none.                            *)
LEMMA LatestOK ==
    Latest \in Drafted \cup {0} /\ \A v \in Drafted : v <= Latest
<1> DEFINE S == {v \in Versions : draft[v] # "none"} \cup {0}
           T == {MaxVersions - x : x \in S}
           R == OpToRel(<, Nat)
<1>1. MaxVersions \in Nat
  BY OutcomeAssumption
<1>2. S \subseteq 0..MaxVersions
  BY <1>1 DEF Versions
<1>3. T \subseteq Nat /\ T # {}
  BY <1>1, <1>2
<1>4. PICK m \in T : \A y \in T : <<y, m>> \notin R
  BY <1>3, NatLessThanWellFounded, WFMin
<1>5. \A y \in T : ~(y < m)
  BY <1>3, <1>4 DEF OpToRel
<1>6. PICK x \in S : m = MaxVersions - x
  BY <1>4
<1>7. ASSUME NEW y \in S
      PROVE  x >= y
  <2>1. ~(MaxVersions - y < MaxVersions - x)
    BY <1>5, <1>6
  <2> QED
    BY <1>1, <1>2, <2>1
<1> HIDE DEF S, T, R
<1>8. Max(S) \in S /\ \A y \in S : Max(S) >= y
  BY <1>6, <1>7 DEF Max
<1>9. S \subseteq Nat
  BY <1>1, <1>2
<1>10. Max(S) \in Nat
  BY <1>8, <1>9
<1> QED
  BY <1>8, <1>9, <1>10 DEF S, Latest, Drafted

(* A generation is started on the latest version, or on the one after a    *)
(* rejected one.                                                           *)
LEMMA NextVersionOK ==
  ASSUME VInv, NextVersion \in Versions, NextVersion > 1
  PROVE  rejectedAt[NextVersion - 1]
<1>1. Latest \in Nat /\ (Latest = 0 \/ Latest \in Drafted)
  BY LatestOK, OutcomeAssumption DEF Drafted, Versions
<1>2. CASE Latest = 0
  BY <1>2 DEF NextVersion, LatestStatus
<1>3. CASE Latest \in Drafted /\ Latest # 0
  <2>1. LatestStatus = draft[Latest] /\ draft[Latest] # "none" /\ Latest \in Versions
    BY <1>3 DEF LatestStatus, Drafted
  <2>2. CASE draft[Latest] = "rejected"
    <3>1. NextVersion = Latest + 1 /\ rejectedAt[Latest]
      BY <2>1, <2>2 DEF NextVersion, VInv, RejectedIsDated
    <3>2. NextVersion - 1 = Latest
      BY <1>1, <3>1
    <3> QED
      BY <3>1, <3>2
  <2>3. CASE draft[Latest] # "rejected"
    <3>1. NextVersion = Latest
      BY <2>1, <2>3 DEF NextVersion
    <3> QED
      BY <2>1, <3>1 DEF VInv, NextVersionAfterRejection
  <2> QED
    BY <2>2, <2>3
<1> QED
  BY <1>1, <1>2, <1>3

(* Rejection dates are only ever set.                                      *)
LEMMA RejectionsStay ==
  ASSUME VInv, [Next]_vars
  PROVE  /\ rejectedAt' \in [Versions -> BOOLEAN]
         /\ \A v \in Versions : rejectedAt[v] => rejectedAt'[v]
<1> USE DEF drafts
<1>1. ASSUME NEW r \in Requests, RequestStep(r)
      PROVE  \/ UNCHANGED rejectedAt
             \/ \E x : rejectedAt' = [rejectedAt EXCEPT ![x] = TRUE]
  BY <1>1 DEF RequestStep, Click, ReadForRejection, WriteRejection,
     ReadForRelease, WriteRelease
<1>2. ASSUME ~ \E r \in Requests : RequestStep(r)
      PROVE  UNCHANGED rejectedAt
  <2>1. ASSUME NEW p \in Planners, PlannerStep(p) PROVE UNCHANGED rejectedAt
    BY <2>1 DEF PlannerStep, AskForPlan, MarkPlanning, FollowUp,
       ReadLatestDraft, PersistPlan, PersistFailure, LosePlanner
  <2>2. ASSUME NEW h \in Hands, HandStep(h) \/ CrashHand(h)
        PROVE  UNCHANGED rejectedAt
    BY <2>2 DEF HandStep, ReadForApproval, WriteApproval, ReadForWork,
       CreateWork, CrashHand
  <2>3. ASSUME NEW d \in Drivers, SweepPlans(d) PROVE UNCHANGED rejectedAt
    BY <2>3 DEF SweepPlans
  <2>4. ASSUME NEW r \in Versions \X Items, SettleTask(r)
        PROVE  UNCHANGED rejectedAt
    BY <2>4 DEF SettleTask, FinishTask, BlockTask
  <2>5. ASSUME NEW r \in Versions \X Items, NEW s \in TaskStatuses, MoveTask(r, s)
        PROVE  UNCHANGED rejectedAt
    BY <2>5 DEF MoveTask
  <2>6. ASSUME NEW f \in Finishers, FinisherStep(f) \/ LoseEvaluation(f)
        PROVE  UNCHANGED rejectedAt
    BY <2>6 DEF FinisherStep, ReadOutcome, ReadTasks, WriteOutcome,
       LoseEvaluation
  <2>7. CASE UNCHANGED vars
    BY <2>7 DEF vars
  <2> QED
    BY <1>2, <2>1, <2>2, <2>3, <2>4, <2>5, <2>6, <2>7 DEF Next
<1> QED
  BY <1>1, <1>2 DEF VInv

(* The versions stay in order when an existing one, or one that follows a  *)
(* rejection, is written.                                                  *)
LEMMA VersionWritten ==
  ASSUME VInv, draft = [v \in Versions |-> draft[v]],
         \A v \in Versions : rejectedAt[v] => rejectedAt'[v],
         NEW x \in Versions, NEW s,
         x \in Drafted \/ (x > 1 => rejectedAt[x - 1]),
         s = "rejected" => rejectedAt'[x],
         draft' = [draft EXCEPT ![x] = s]
  PROVE  RejectedIsDated' /\ NextVersionAfterRejection'
<1>1. \A v \in Versions : draft'[v] = IF v = x THEN s ELSE draft[v]
  OBVIOUS
<1>2. RejectedIsDated'
  BY <1>1 DEF VInv, RejectedIsDated, Versions
<1>3. ASSUME NEW v \in Versions, draft'[v] # "none", v > 1
      PROVE  rejectedAt'[v - 1]
  <2>1. rejectedAt[v - 1]
    <3>1. CASE v = x /\ x \notin Drafted
      BY <1>3, <3>1
    <3>2. CASE v # x \/ x \in Drafted
      BY <1>1, <1>3, <3>2 DEF VInv, NextVersionAfterRejection, Drafted
    <3> QED
      BY <3>1, <3>2
  <2>2. v - 1 \in Versions
    BY <1>3, OutcomeAssumption DEF Versions
  <2> QED
    BY <2>1, <2>2
<1> QED
  BY <1>2, <1>3 DEF NextVersionAfterRejection, Versions

(* A planner that goes to a sound place leaves all of them sound.          *)
LEMMA PlannerGoes ==
  ASSUME VInv, \A v \in Versions : rejectedAt[v] => rejectedAt'[v],
         NEW p \in Planners, NEW n,
         planner' = [planner EXCEPT ![p] = n],
         n.pc = "generate" => /\ n.version \in Versions
                              /\ n.version > 1 => rejectedAt[n.version - 1]
  PROVE  PlannersOK'
<1>1. \A q \in Planners : planner'[q] = IF q = p THEN n ELSE planner[q]
  BY DEF VInv, PlannersOK
<1>2. planner' = [q \in Planners |-> planner'[q]]
  BY DEF VInv, PlannersOK
<1>3. ASSUME NEW q \in Planners, planner'[q].pc = "generate"
      PROVE  /\ planner'[q].version \in Versions
             /\ planner'[q].version > 1 => rejectedAt'[planner'[q].version - 1]
  <2> DEFINE w == planner'[q].version
  <2>1. w \in Versions /\ (w > 1 => rejectedAt[w - 1])
    BY <1>1, <1>3 DEF VInv, PlannersOK
  <2>2. w > 1 => w - 1 \in Versions
    BY <2>1, OutcomeAssumption DEF Versions
  <2> QED
    BY <2>1, <2>2
<1> QED
  BY <1>2, <1>3 DEF PlannersOK, Versions

(* A step that moves no planner keeps them sound.                          *)
LEMMA PlannersStay ==
  ASSUME VInv, \A v \in Versions : rejectedAt[v] => rejectedAt'[v],
         UNCHANGED planner
  PROVE  PlannersOK'
<1> SUFFICES ASSUME NEW q \in Planners, planner[q].pc = "generate"
             PROVE  /\ planner[q].version \in Versions
                    /\ planner[q].version > 1
                          => rejectedAt'[planner[q].version - 1]
  BY DEF VInv, PlannersOK, Versions
<1>1. planner[q].version \in Versions
      /\ (planner[q].version > 1 => rejectedAt[planner[q].version - 1])
  BY DEF VInv, PlannersOK
<1>2. planner[q].version > 1 => planner[q].version - 1 \in Versions
  BY <1>1, OutcomeAssumption DEF Versions
<1> QED
  BY <1>1, <1>2

LEMMA VersionsInit == Init => VInv
  BY DEF Init, VInv, RejectedIsDated, PlannersOK, NextVersionAfterRejection, Idle

(* Every step keeps the versions in order.                                 *)
LEMMA VersionsStep == IInv /\ VInv /\ [Next]_vars => VInv'
<1> SUFFICES ASSUME IInv, VInv, [Next]_vars PROVE VInv'
  OBVIOUS
<1> USE DEF drafts
<1>r. /\ rejectedAt' \in [Versions -> BOOLEAN]
      /\ \A v \in Versions : rejectedAt[v] => rejectedAt'[v]
  BY RejectionsStay
<1>d. draft = [v \in Versions |-> draft[v]]
  BY DEF IInv
<1>s. ASSUME UNCHANGED <<draft, rejectedAt>>, PlannersOK'
      PROVE  VInv'
  BY <1>r, <1>s DEF VInv, RejectedIsDated, NextVersionAfterRejection, Versions
<1>u. ASSUME UNCHANGED <<draft, rejectedAt, planner>>
      PROVE  VInv'
  BY <1>r, <1>s, <1>u, PlannersStay
<1>1. ASSUME NEW p \in Planners, ReadLatestDraft(p)
      PROVE  VInv'
  <2> DEFINE n == IF MayGenerate(LatestStatus, planner[p].regenerate)
                     /\ NextVersion \in Versions
                  THEN [pc |-> "generate", version |-> NextVersion]
                  ELSE Idle
  <2>1. /\ planner' = [planner EXCEPT ![p] = n]
        /\ UNCHANGED <<draft, rejectedAt>>
    BY <1>1 DEF ReadLatestDraft
  <2>2. n.pc = "generate" => /\ n.version \in Versions
                             /\ n.version > 1 => rejectedAt[n.version - 1]
    BY NextVersionOK DEF Idle
  <2> HIDE DEF n
  <2>3. PlannersOK'
    BY <1>r, <2>1, <2>2, PlannerGoes
  <2> QED
    BY <1>s, <2>1, <2>3
<1>2. ASSUME NEW p \in Planners,
             AskForPlan(p) \/ MarkPlanning(p) \/ FollowUp(p) \/ LosePlanner(p)
      PROVE  VInv'
  <2>1. \E n : n.pc # "generate" /\ planner' = [planner EXCEPT ![p] = n]
    BY <1>2 DEF AskForPlan, MarkPlanning, FollowUp, LosePlanner, Idle
  <2>2. UNCHANGED <<draft, rejectedAt>>
    BY <1>2 DEF AskForPlan, MarkPlanning, FollowUp, LosePlanner
  <2>3. PlannersOK'
    BY <1>r, <2>1, PlannerGoes
  <2> QED
    BY <1>s, <2>2, <2>3
<1>3. ASSUME NEW p \in Planners,
             PersistFailure(p) \/ \E items \in SUBSET Items : PersistPlan(p, items)
      PROVE  VInv'
  <2> DEFINE x == planner[p].version
  <2>1. x \in Versions /\ (x > 1 => rejectedAt[x - 1])
    BY <1>3 DEF PersistFailure, PersistPlan, VInv, PlannersOK
  <2>2. PICK s \in {"draft", "failed"} : draft' = [draft EXCEPT ![x] = s]
    BY <1>3 DEF PersistFailure, PersistPlan
  <2>3. RejectedIsDated' /\ NextVersionAfterRejection'
    BY <1>r, <1>d, <2>1, <2>2, VersionWritten
  <2>4. planner' = [planner EXCEPT ![p] = Idle] /\ Idle.pc # "generate"
    BY <1>3 DEF PersistFailure, PersistPlan, Idle
  <2>5. PlannersOK'
    BY <1>r, <2>4, PlannerGoes
  <2> QED
    BY <1>r, <2>3, <2>5 DEF VInv
<1>4. ASSUME NEW h \in Hands, WriteApproval(h) \/ CreateWork(h)
      PROVE  VInv'
  <2> DEFINE x == hand[h].version
  <2>1. x \in Drafted
    BY <1>4 DEF WriteApproval, CreateWork, IInv, HandsOK, OnVersion
  <2>2. PICK s \in {"approved", "applied"} : draft' = [draft EXCEPT ![x] = s]
    BY <1>4 DEF WriteApproval, CreateWork
  <2>3. RejectedIsDated' /\ NextVersionAfterRejection'
    BY <1>r, <1>d, <2>1, <2>2, VersionWritten DEF Drafted
  <2>4. PlannersOK'
    BY <1>4, <1>r, PlannersStay DEF WriteApproval, CreateWork
  <2> QED
    BY <1>r, <2>3, <2>4 DEF VInv
<1>5. ASSUME NEW r \in Requests, WriteRejection(r)
      PROVE  VInv'
  <2> DEFINE x == hand[r].version
  <2>1. x \in Drafted
    BY <1>5 DEF WriteRejection, IInv, HandsOK, OnVersion, Hands
  <2>2. draft' = [draft EXCEPT ![x] = "rejected"] /\ rejectedAt'[x]
    BY <1>5, <2>1 DEF WriteRejection, VInv, Drafted
  <2>3. RejectedIsDated' /\ NextVersionAfterRejection'
    BY <1>r, <1>d, <2>1, <2>2, VersionWritten DEF Drafted
  <2>4. PlannersOK'
    BY <1>5, <1>r, PlannersStay DEF WriteRejection
  <2> QED
    BY <1>r, <2>3, <2>4 DEF VInv
<1>6. ASSUME NEW h \in Hands, ReadForApproval(h) \/ ReadForWork(h) \/ CrashHand(h)
      PROVE  VInv'
  BY <1>6, <1>u DEF ReadForApproval, ReadForWork, CrashHand
<1>7. ASSUME NEW d \in Drivers, SweepPlans(d)
      PROVE  VInv'
  BY <1>7, <1>u DEF SweepPlans
<1>8. ASSUME NEW r \in Requests,
             \/ \E v \in Versions : Click(r, v)
             \/ ReadForRejection(r) \/ ReadForRelease(r) \/ WriteRelease(r)
      PROVE  VInv'
  BY <1>8, <1>u DEF Click, ReadForRejection, ReadForRelease, WriteRelease
<1>9. ASSUME NEW r \in Versions \X Items, SettleTask(r)
      PROVE  VInv'
  BY <1>9, <1>u DEF SettleTask, FinishTask, BlockTask
<1>10. ASSUME NEW r \in Versions \X Items, NEW s \in TaskStatuses, MoveTask(r, s)
       PROVE  VInv'
  BY <1>10, <1>u DEF MoveTask
<1>11. ASSUME NEW f \in Finishers, FinisherStep(f) \/ LoseEvaluation(f)
       PROVE  VInv'
  BY <1>11, <1>u DEF FinisherStep, ReadOutcome, ReadTasks, WriteOutcome,
     LoseEvaluation
<1>12. CASE UNCHANGED vars
  BY <1>12, <1>u DEF vars
<1> QED
  BY <1>1, <1>2, <1>3, <1>4, <1>5, <1>6, <1>7, <1>8, <1>9, <1>10, <1>11, <1>12
  DEF Next, PlannerStep, HandStep, RequestStep

(* However late a generation persists its plan and whatever it races with, *)
(* a second version of the plan exists only if the one before was rejected.*)
THEOREM VersionsFollowRejections == Spec => []NextVersionAfterRejection
<1>1. Spec => [](IInv /\ VInv)
  BY InvInit, InvStep, VersionsInit, VersionsStep, PTL DEF Spec
<1> QED
  BY <1>1, PTL DEF VInv

---------------------------------------------------------------------------
(* Completion.  It is lost when a plan is replaced after it was applied,   *)
(* or a task is moved by hand, so nobody steers, rejects or moves here and *)
(* one generation is under way at a time; approvals, applications and      *)
(* releases may come from anywhere.                                        *)
Undisturbed ==
    /\ Clicks \cap {"followUp", "reject", "move"} = {}
    /\ \A p, q \in Planners : p = q

Writing == {"none", "failed"}
Planned == {"draft", "approved", "applied"}

OneVersion ==
    \A v \in Versions : draft[v] # "rejected" /\ (v # 1 => draft[v] = "none")

(* While a plan is being written there is none to approve.                 *)
PlanUnwritten ==
    \A p \in Planners : planner[p] # Idle =>
        /\ \A v \in Versions : draft[v] \in Writing
        /\ planner[p].pc = "generate" => planner[p].version = 1

(* What an approval or application has read of the plan is still so.       *)
HandsUpToDate ==
    \A h \in Hands :
        /\ hand[h].pc \notin {"readReject", "reject"}
        /\ hand[h].pc \in {"approve", "apply"} => draft[hand[h].version] \in Planned
        /\ hand[h].pc = "apply" => hand[h].items = plan[hand[h].version]

(* A plan becomes work as a whole, and is not replaced after that.         *)
WorkedAsPlanned ==
    \A r \in Rows : /\ draft[r[1]] \in Planned
                    /\ \A i \in plan[r[1]] : task[<<r[1], i>>] # "none"

AllSettled == Rows # {} /\ \A r \in Rows : Settled(task[r])

(* Who says that the outcome is completed has seen all of its tasks.       *)
Completes(f) == finisher[f].pc = "write" /\ finisher[f].status = "completed"

CompletedIsSettled ==
    (outcome = "completed" \/ \E f \in Finishers : Completes(f)) => AllSettled

CInv ==
    /\ plan \in [Versions -> SUBSET Items]
    /\ finisher = [f \in Finishers |-> finisher[f]]
    /\ OneVersion
    /\ PlanUnwritten
    /\ HandsUpToDate
    /\ WorkedAsPlanned
    /\ CompletedIsSettled

LEMMA CompletionInit == Init => CInv
  BY DEF Init, CInv, OneVersion, PlanUnwritten, HandsUpToDate, WorkedAsPlanned,
     CompletedIsSettled, Completes, Rows, Idle

(* Only the first version exists.                                          *)
LEMMA FirstVersion ==
  ASSUME OneVersion
  PROVE  \A v \in Drafted : v = 1
  BY DEF OneVersion, Drafted

(* While the plan is being written nothing depends on it.                  *)
LEMMA NothingPlanned ==
  ASSUME IInv, CInv, \A v \in Versions : draft[v] \in Writing
  PROVE  /\ Rows = {}
         /\ \A h \in Hands : hand[h].pc \notin {"approve", "apply"}
         /\ outcome # "completed"
         /\ \A f \in Finishers : ~Completes(f)
<1>1. Rows = {}
  <2>1. \A r \in Rows : r[1] \in Versions
    BY DEF Rows, IInv
  <2> QED
    BY <2>1 DEF CInv, WorkedAsPlanned, Writing, Planned
<1>2. \A h \in Hands : hand[h].pc \notin {"approve", "apply"}
  <2>1. \A h \in Hands : hand[h].pc \in {"approve", "apply"} => hand[h].version \in Versions
    BY DEF IInv, HandsOK, OnVersion, Drafted
  <2> QED
    BY <2>1 DEF CInv, HandsUpToDate, Writing, Planned
<1> QED
  BY <1>1, <1>2 DEF CInv, CompletedIsSettled, AllSettled

(* A step that leaves tasks, drafts and plans alone keeps what is said of  *)
(* them.                                                                   *)
LEMMA RowsStay ==
  ASSUME CInv, UNCHANGED <<draft, plan, task>>
  PROVE  OneVersion' /\ WorkedAsPlanned' /\ Rows' = Rows /\ AllSettled' = AllSettled
  BY DEF CInv, OneVersion, WorkedAsPlanned, Rows, AllSettled

(* A generation that starts found no plan to replace.                      *)
LEMMA AskedUnwritten ==
  ASSUME IInv, OneVersion, MayGenerate(LatestStatus, FALSE)
  PROVE  \A v \in Versions : draft[v] \in Writing
<1> SUFFICES ASSUME NEW v \in Versions, draft[v] \notin Writing
             PROVE  FALSE
  OBVIOUS
<1>1. v \in Drafted /\ v = 1
  BY FirstVersion DEF Drafted, Writing
<1>2. Latest \in Drafted
  BY <1>1, LatestOK
<1>3. Latest = 1
  BY <1>2, FirstVersion
<1> QED
  BY <1>1, <1>3 DEF MayGenerate, LatestStatus, OneVersion, Writing

(* It writes the first version.                                            *)
LEMMA GenerationsKeep ==
  ASSUME Undisturbed, IInv, VInv, CInv, NEW p \in Planners, PlannerStep(p)
  PROVE  CInv'
<1> USE DEF drafts
<1>a. planner = [q \in Planners |-> planner[q]]
  BY DEF VInv, PlannersOK
<1>b. \A q \in Planners : q = p
  BY DEF Undisturbed
<1>s. ASSUME NEW n, planner' = [planner EXCEPT ![p] = n],
             UNCHANGED <<draft, plan, task, hand, finisher>>,
             outcome' # "completed" \/ outcome' = outcome,
             n # Idle => /\ \A v \in Versions : draft[v] \in Writing
                         /\ n.pc = "generate" => n.version = 1
      PROVE  CInv'
  <2>1. PlanUnwritten'
    BY <1>a, <1>b, <1>s DEF PlanUnwritten
  <2>2. HandsUpToDate'
    BY <1>s DEF CInv, HandsUpToDate
  <2>3. CompletedIsSettled'
    BY <1>s, RowsStay DEF CInv, CompletedIsSettled, Completes
  <2> QED
    BY <1>s, <2>1, <2>2, <2>3, RowsStay DEF CInv
<1>w. ASSUME planner[p].pc = "generate", planner' = [planner EXCEPT ![p] = Idle],
             NEW s \in {"draft", "failed"},
             draft' = [draft EXCEPT ![planner[p].version] = s],
             plan' \in [Versions -> SUBSET Items],
             UNCHANGED <<task, hand, finisher>>, outcome' # "completed"
      PROVE  CInv'
  <2>1. planner[p].version = 1 /\ \A v \in Versions : draft[v] \in Writing
    BY <1>w DEF CInv, PlanUnwritten, Idle
  <2>2. /\ Rows = {}
        /\ \A h \in Hands : hand[h].pc \notin {"approve", "apply"}
        /\ \A f \in Finishers : ~Completes(f)
    BY <2>1, NothingPlanned
  <2>3. OneVersion'
    BY <1>w, <2>1 DEF CInv, OneVersion, IInv
  <2>4. PlanUnwritten'
    BY <1>a, <1>b, <1>w DEF PlanUnwritten
  <2>5. HandsUpToDate'
    BY <1>w, <2>2 DEF CInv, HandsUpToDate
  <2>6. Rows' = {}
    BY <1>w, <2>2 DEF Rows
  <2>7. CompletedIsSettled'
    BY <1>w, <2>2 DEF CompletedIsSettled, Completes
  <2> QED
    BY <1>w, <2>3, <2>4, <2>5, <2>6, <2>7 DEF CInv, WorkedAsPlanned
<1>1. CASE AskForPlan(p)
  <2>1. \A v \in Versions : draft[v] \in Writing
    BY <1>1, AskedUnwritten DEF AskForPlan, CInv
  <2> QED
    BY <1>1, <1>s, <2>1 DEF AskForPlan
<1>2. CASE MarkPlanning(p)
  <2>1. \A v \in Versions : draft[v] \in Writing
    BY <1>2 DEF MarkPlanning, CInv, PlanUnwritten, Idle
  <2> QED
    BY <1>2, <1>s, <2>1 DEF MarkPlanning
<1>3. CASE FollowUp(p)
  BY <1>3 DEF FollowUp, Undisturbed
<1>4. CASE ReadLatestDraft(p)
  <2>1. \A v \in Versions : draft[v] \in Writing
    BY <1>4 DEF ReadLatestDraft, CInv, PlanUnwritten, Idle
  <2>2. NextVersion = 1
    <3>1. Latest \in {0, 1} /\ (Latest = 1 => Latest \in Drafted)
      BY LatestOK, FirstVersion DEF CInv
    <3>2. Latest = 1 => LatestStatus = "failed"
      BY <2>1, <3>1 DEF LatestStatus, Drafted, Writing
    <3> QED
      BY <3>1, <3>2 DEF NextVersion, LatestStatus
  <2> QED
    BY <1>4, <1>s, <2>1, <2>2 DEF ReadLatestDraft, Idle
<1>5. ASSUME NEW items \in SUBSET Items, PersistPlan(p, items)
      PROVE  CInv'
  BY <1>5, <1>w DEF PersistPlan, CInv
<1>6. CASE PersistFailure(p)
  BY <1>6, <1>w DEF PersistFailure, CInv
<1>7. CASE LosePlanner(p)
  BY <1>7, <1>s DEF LosePlanner
<1> QED
  BY <1>1, <1>2, <1>3, <1>4, <1>5, <1>6, <1>7 DEF PlannerStep

(* An operation that only looks, or ends.                                  *)
LEMMA HandLooks ==
  ASSUME IInv, CInv, NEW h \in Hands, NEW n, hand' = [hand EXCEPT ![h] = n],
         UNCHANGED <<draft, plan, task, planner, finisher>>,
         outcome' # "completed" \/ outcome' = outcome,
         n.pc \notin {"readReject", "reject"},
         n.pc \in {"approve", "apply"} => draft[n.version] \in Planned,
         n.pc = "apply" => n.items = plan[n.version]
  PROVE  CInv'
<1>1. PlanUnwritten'
  BY DEF CInv, PlanUnwritten
<1>2. \A g \in Hands : hand'[g] = IF g = h THEN n ELSE hand[g]
  BY DEF IInv, HandsOK
<1>3. HandsUpToDate'
  BY <1>2 DEF CInv, HandsUpToDate
<1>4. CompletedIsSettled'
  BY RowsStay DEF CInv, CompletedIsSettled, Completes
<1> QED
  BY <1>1, <1>3, <1>4, RowsStay DEF CInv

(* One that writes the status of a plan which stays planned.               *)
LEMMA HandWrites ==
  ASSUME IInv, CInv, NEW h \in Hands, NEW n, NEW s \in Planned,
         hand[h].pc \in {"approve", "apply"},
         hand' = [hand EXCEPT ![h] = n],
         n.pc \in {"idle", "readApprove", "readApply"},
         draft' = [draft EXCEPT ![hand[h].version] = s],
         UNCHANGED <<plan, planner, finisher>>
  PROVE  /\ OneVersion' /\ PlanUnwritten' /\ HandsUpToDate'
         /\ hand[h].version = 1 /\ 1 \in Versions /\ draft[1] \in Planned
         /\ \A v \in Versions : draft[v] \in Planned => draft'[v] \in Planned
<1>1. hand[h].version = 1 /\ 1 \in Versions /\ draft[1] \in Planned
  <2>1. hand[h].version \in Drafted
    BY DEF IInv, HandsOK, OnVersion
  <2> QED
    BY <2>1, FirstVersion DEF CInv, HandsUpToDate, Drafted
<1>2. \A v \in Versions : draft'[v] = IF v = 1 THEN s ELSE draft[v]
  BY <1>1 DEF IInv
<1>3. OneVersion'
  BY <1>2 DEF CInv, OneVersion, Planned, Versions
<1>4. \A p \in Planners : planner[p] = Idle
  BY <1>1 DEF CInv, PlanUnwritten, Writing, Planned
<1>5. PlanUnwritten'
  BY <1>4 DEF PlanUnwritten
<1>6. \A g \in Hands : hand'[g] = IF g = h THEN n ELSE hand[g]
  BY DEF IInv, HandsOK
<1>7. ASSUME NEW g \in Hands
      PROVE  /\ hand'[g].pc \notin {"readReject", "reject"}
             /\ hand'[g].pc \in {"approve", "apply"}
                   => draft'[hand'[g].version] \in Planned
             /\ hand'[g].pc = "apply" => hand'[g].items = plan'[hand'[g].version]
  <2>1. CASE g = h
    BY <1>6, <2>1
  <2>2. CASE g # h
    <3>1. hand[g].pc \in {"approve", "apply"} => hand[g].version \in Versions
      BY DEF IInv, HandsOK, OnVersion, Drafted
    <3>2. hand'[g] = hand[g]
      BY <1>6, <2>2
    <3> QED
      BY <1>2, <3>1, <3>2 DEF CInv, HandsUpToDate
  <2> QED
    BY <2>1, <2>2
<1>8. HandsUpToDate'
  BY <1>7 DEF HandsUpToDate
<1> QED
  BY <1>1, <1>2, <1>3, <1>5, <1>8

(* An approval of a plan that has become work meanwhile.                   *)
LEMMA ApprovalKeeps ==
  ASSUME IInv, CInv, NEW h \in Hands, WriteApproval(h)
  PROVE  CInv'
<1> DEFINE n == IF h \in Drivers THEN At("readApply", hand[h].version, hand[h].rest)
                ELSE Idle
<1>1. /\ hand[h].pc = "approve"
      /\ draft' = [draft EXCEPT ![hand[h].version] = "approved"]
      /\ hand' = [hand EXCEPT ![h] = n]
      /\ UNCHANGED <<plan, task, planner, finisher>>
      /\ outcome' = "approved"
  BY DEF WriteApproval
<1>2. n.pc \in {"idle", "readApprove", "readApply"}
  BY DEF At, Idle
<1> HIDE DEF n
<1>3. /\ OneVersion' /\ PlanUnwritten' /\ HandsUpToDate'
      /\ \A v \in Versions : draft[v] \in Planned => draft'[v] \in Planned
  BY <1>1, <1>2, HandWrites DEF Planned
<1>4. Rows' = Rows /\ \A r \in Rows : r[1] \in Versions
  BY <1>1 DEF Rows, IInv
<1>5. WorkedAsPlanned'
  BY <1>1, <1>3, <1>4 DEF CInv, WorkedAsPlanned
<1>6. CompletedIsSettled'
  BY <1>1, <1>4 DEF CInv, CompletedIsSettled, Completes, AllSettled
<1> QED
  BY <1>1, <1>3, <1>5, <1>6 DEF CInv

(* Applied once more, a plan makes no new work.                            *)
LEMMA ApplicationKeeps ==
  ASSUME IInv, CInv, NEW h \in Hands, CreateWork(h)
  PROVE  CInv'
<1> DEFINE n == Proceed(hand[h].rest)
<1>1. /\ hand[h].pc = "apply"
      /\ draft' = [draft EXCEPT ![hand[h].version] = "applied"]
      /\ hand' = [hand EXCEPT ![h] = n]
      /\ UNCHANGED <<plan, planner, finisher>>
      /\ outcome' = "in_delivery"
  BY DEF CreateWork
<1>2. n.pc \in {"idle", "readApprove", "readApply"}
  BY <1>1, ProceedOK DEF IInv, HandsOK, OnVersion
<1> HIDE DEF n
<1>3. /\ OneVersion' /\ PlanUnwritten' /\ HandsUpToDate'
      /\ hand[h].version = 1 /\ 1 \in Versions /\ draft[1] \in Planned
      /\ \A v \in Versions : draft[v] \in Planned => draft'[v] \in Planned
  BY <1>1, <1>2, HandWrites DEF Planned
<1>4. hand[h].items = plan[1] /\ plan[1] \subseteq Items
  BY <1>1, <1>3 DEF CInv, HandsUpToDate
<1>5. /\ DOMAIN task = Versions \X Items
      /\ DOMAIN task' = Versions \X Items
      /\ \A r \in Versions \X Items :
            task'[r] = IF r[1] = 1 /\ r[2] \in plan[1] /\ task[r] = "none"
                       THEN "open" ELSE task[r]
  BY <1>3, <1>4 DEF CreateWork, IInv
<1>6. \A r \in Rows' : r \in Rows \/ (r[1] = 1 /\ r[2] \in plan[1])
  BY <1>5 DEF Rows
<1>7. \A i \in plan[1] : task'[<<1, i>>] # "none"
  BY <1>3, <1>4, <1>5
<1>8. WorkedAsPlanned'
  <2> SUFFICES ASSUME NEW r \in Rows'
               PROVE  r[1] = 1
    BY <1>1, <1>3, <1>7 DEF WorkedAsPlanned
  <2>1. CASE r \in Rows
    <3>1. draft[r[1]] \in Planned /\ r[1] \in Versions
      BY <1>5, <2>1 DEF CInv, WorkedAsPlanned, Rows
    <3> QED
      BY <3>1 DEF CInv, OneVersion, Planned
  <2> QED
    BY <1>6, <2>1
<1>9. ASSUME NEW f \in Finishers, Completes(f)
      PROVE  AllSettled'
  <2>1. AllSettled
    BY <1>9 DEF CInv, CompletedIsSettled
  <2>2. PICK r \in Rows : TRUE
    BY <2>1 DEF AllSettled
  <2>3. r[1] = 1 /\ \A i \in plan[1] : task[<<1, i>>] # "none"
    <3>1. draft[r[1]] \in Planned /\ r[1] \in Versions
      BY <1>5 DEF CInv, WorkedAsPlanned, Rows
    <3>2. r[1] = 1
      BY <3>1 DEF CInv, OneVersion, Planned
    <3> QED
      BY <3>2 DEF CInv, WorkedAsPlanned
  <2>4. \A q \in Versions \X Items : task'[q] = task[q]
    <3> SUFFICES ASSUME NEW q \in Versions \X Items, q[1] = 1, q[2] \in plan[1],
                        task[q] = "none"
                 PROVE  FALSE
      BY <1>5
    <3>1. q = <<1, q[2]>>
      OBVIOUS
    <3> QED
      BY <2>3, <3>1
  <2> QED
    BY <1>5, <2>1, <2>4 DEF AllSettled, Rows
<1>10. CompletedIsSettled'
  BY <1>1, <1>9 DEF CompletedIsSettled, Completes
<1> QED
  BY <1>1, <1>3, <1>8, <1>10 DEF CInv

LEMMA OperationsKeep ==
  ASSUME Undisturbed, IInv, CInv, NEW h \in Hands,
         \/ HandStep(h) \/ CrashHand(h)
         \/ h \in Drivers /\ SweepPlans(h)
         \/ h \in Requests /\ RequestStep(h)
  PROVE  CInv'
<1> USE DEF drafts
<1>p. ASSUME NEW rest \in SUBSET Entries
      PROVE  Proceed(rest).pc \in {"idle", "readApprove", "readApply"}
  BY ProceedOK
<1>r. hand[h].pc \in OnVersion => hand[h].rest \in SUBSET Entries
  BY DEF IInv, HandsOK
<1>1. CASE ReadForApproval(h)
  <2>1. PICK n : /\ hand' = [hand EXCEPT ![h] = n]
                 /\ \/ n = At("approve", hand[h].version, hand[h].rest)
                       /\ draft[hand[h].version] = "draft"
                    \/ n = At("readApply", hand[h].version, hand[h].rest)
                    \/ n = Proceed(hand[h].rest)
    BY <1>1 DEF ReadForApproval
  <2>2. Proceed(hand[h].rest).pc \in {"idle", "readApprove", "readApply"}
    BY <1>1, <1>p, <1>r DEF ReadForApproval, OnVersion
  <2>3. /\ n.pc \notin {"readReject", "reject", "apply"}
        /\ n.pc = "approve" => draft[n.version] \in Planned
    BY <2>1, <2>2 DEF At, Planned
  <2> QED
    BY <1>1, <2>1, <2>3, HandLooks DEF ReadForApproval
<1>2. CASE ReadForWork(h)
  <2> DEFINE v == hand[h].version
             n == IF MayCreateWork(v)
                  THEN [pc |-> "apply", version |-> v, rest |-> hand[h].rest,
                        items |-> plan[v]]
                  ELSE Proceed(hand[h].rest)
  <2>1. Proceed(hand[h].rest).pc \in {"idle", "readApprove", "readApply"}
    BY <1>2, <1>p, <1>r DEF ReadForWork, OnVersion
  <2>2. /\ n.pc \notin {"readReject", "reject", "approve"}
        /\ n.pc = "apply" => draft[n.version] \in Planned /\ n.items = plan[n.version]
    BY <2>1 DEF MayCreateWork, Planned
  <2>3. hand' = [hand EXCEPT ![h] = n]
    BY <1>2 DEF ReadForWork
  <2> HIDE DEF n
  <2> QED
    BY <1>2, <2>2, <2>3, HandLooks DEF ReadForWork
<1>3. CASE h \in Drivers /\ SweepPlans(h)
  BY <1>3, <1>p, ListedOK, HandLooks DEF SweepPlans
<1>4. CASE h \in Requests /\ RequestStep(h)
  <2>1. ASSUME NEW v \in Versions, Click(h, v)
        PROVE  CInv'
    <3>1. PICK pc \in {"readApprove", "readApply"} : hand' = [hand EXCEPT ![h] = At(pc, v, {})]
      BY <2>1 DEF Click, Undisturbed
    <3> QED
      BY <2>1, <3>1, HandLooks DEF Click, At
  <2>2. CASE ReadForRejection(h) \/ WriteRejection(h)
    BY <2>2 DEF ReadForRejection, WriteRejection, CInv, HandsUpToDate
  <2>3. CASE ReadForRelease(h)
    BY <2>3, HandLooks DEF ReadForRelease
  <2>4. CASE WriteRelease(h)
    BY <2>4, HandLooks DEF WriteRelease, Idle
  <2> QED
    BY <1>4, <2>1, <2>2, <2>3, <2>4 DEF RequestStep
<1>5. CASE CrashHand(h)
  BY <1>5, HandLooks DEF CrashHand, Idle
<1> QED
  BY <1>1, <1>2, <1>3, <1>4, <1>5, ApprovalKeeps, ApplicationKeeps DEF HandStep

(* Only an open task is settled, and its evaluation has not begun.         *)
LEMMA SettlingKeeps ==
  ASSUME Undisturbed, IInv, CInv, NEW r \in Versions \X Items, SettleTask(r)
  PROVE  CInv'
<1> USE DEF drafts
<1>1. PICK f \in Finishers, s \in {"done", "blocked"} :
         /\ finisher[f] = Idle /\ task[r] = "open"
         /\ task' = [task EXCEPT ![r] = s]
         /\ finisher' = [finisher EXCEPT ![f] = [pc |-> "outcome"]]
         /\ UNCHANGED <<outcome, draft, plan, planner, hand>>
  BY DEF SettleTask, FinishTask, BlockTask, Undisturbed
<1>2. ~AllSettled
  BY <1>1 DEF AllSettled, Rows, Settled, IInv
<1>3. outcome # "completed" /\ \A g \in Finishers : ~Completes(g)
  BY <1>2 DEF CInv, CompletedIsSettled
<1>4. CompletedIsSettled'
  BY <1>1, <1>3 DEF CompletedIsSettled, Completes, CInv
<1>5. /\ \A q \in DOMAIN task : task'[q] = "none" <=> task[q] = "none"
      /\ DOMAIN task' = DOMAIN task
  BY <1>1 DEF IInv
<1>6. WorkedAsPlanned'
  <2>1. Rows' = Rows
    BY <1>5 DEF Rows
  <2>2. \A q \in Rows : q[1] \in Versions /\ \A i \in plan[q[1]] : <<q[1], i>> \in DOMAIN task
    BY DEF Rows, IInv, CInv
  <2> QED
    BY <1>1, <1>5, <2>1, <2>2 DEF CInv, WorkedAsPlanned
<1> QED
  BY <1>1, <1>4, <1>6 DEF CInv, OneVersion, PlanUnwritten, HandsUpToDate

(* An evaluation completes the outcome when it has seen all settled.       *)
LEMMA EvaluationsKeep ==
  ASSUME CInv, NEW f \in Finishers, FinisherStep(f) \/ LoseEvaluation(f)
  PROVE  CInv'
<1> USE DEF drafts
<1>1. UNCHANGED <<draft, plan, task, planner, hand>>
  BY DEF FinisherStep, ReadOutcome, ReadTasks, WriteOutcome, LoseEvaluation
<1>2. /\ OneVersion' /\ WorkedAsPlanned' /\ PlanUnwritten' /\ HandsUpToDate'
      /\ AllSettled' = AllSettled
  BY <1>1, RowsStay DEF CInv, PlanUnwritten, HandsUpToDate
<1>3. PICK n : finisher' = [finisher EXCEPT ![f] = n]
  BY DEF FinisherStep, ReadOutcome, ReadTasks, WriteOutcome, LoseEvaluation
<1>4. \A g \in Finishers : g # f => finisher'[g] = finisher[g]
  BY <1>3 DEF CInv
<1>5. CompletedIsSettled'
  <2>1. CASE ReadTasks(f)
    <3>1. Completes(f)' => AllSettled
      <4>1. CASE Complete
        BY <4>1 DEF Complete, AllSettled
      <4>2. CASE ~Complete
        BY <2>1, <4>2 DEF ReadTasks, Completes, CInv, Idle
      <4> QED
        BY <4>1, <4>2
    <3> QED
      BY <1>2, <1>4, <2>1, <3>1 DEF CInv, CompletedIsSettled, Completes, ReadTasks
  <2>2. CASE WriteOutcome(f)
    BY <1>2, <1>4, <2>2 DEF CInv, CompletedIsSettled, Completes, WriteOutcome, Idle
  <2>3. CASE ReadOutcome(f) \/ LoseEvaluation(f)
    <3>1. finisher'[f].pc # "write" /\ outcome' = outcome
      BY <2>3 DEF ReadOutcome, LoseEvaluation, CInv, Idle
    <3> QED
      BY <1>2, <1>4, <3>1 DEF CInv, CompletedIsSettled, Completes
  <2> QED
    BY <2>1, <2>2, <2>3 DEF FinisherStep
<1> QED
  BY <1>1, <1>2, <1>3, <1>5 DEF CInv

LEMMA CompletionStep ==
  ASSUME Undisturbed, IInv, VInv, CInv, [Next]_vars
  PROVE  CInv'
<1>1. ASSUME NEW p \in Planners, PlannerStep(p)
      PROVE  CInv'
  BY <1>1, GenerationsKeep
<1>2. ASSUME NEW h \in Hands,
             \/ HandStep(h) \/ CrashHand(h)
             \/ h \in Drivers /\ SweepPlans(h)
             \/ h \in Requests /\ RequestStep(h)
      PROVE  CInv'
  BY <1>2, OperationsKeep
<1>3. ASSUME NEW r \in Versions \X Items, SettleTask(r)
      PROVE  CInv'
  BY <1>3, SettlingKeeps
<1>4. ASSUME NEW r \in Versions \X Items, NEW s \in TaskStatuses, MoveTask(r, s)
      PROVE  CInv'
  BY <1>4 DEF MoveTask, Undisturbed
<1>5. ASSUME NEW f \in Finishers, FinisherStep(f) \/ LoseEvaluation(f)
      PROVE  CInv'
  BY <1>5, EvaluationsKeep
<1>6. CASE UNCHANGED vars
  BY <1>6, RowsStay DEF vars, drafts, CInv, PlanUnwritten, HandsUpToDate,
     CompletedIsSettled, Completes
<1> QED
  BY <1>1, <1>2, <1>3, <1>4, <1>5, <1>6 DEF Next, Hands

(* However many drivers sweep, requests approve, apply and release, and    *)
(* processes settle tasks at once, also when any of them crashes: an       *)
(* outcome planned by one generation at a time, with no later message, no  *)
(* rejection and no task moved by hand, is completed only when nothing of  *)
(* it is open or blocked (evaluateOutcomeCompletionForTask).               *)
THEOREM CompletedHasNoneOpen ==
  ASSUME Undisturbed
  PROVE  Spec => []CompletedHasNoOpenWork
<1>1. CInv => CompletedHasNoOpenWork
  BY DEF CInv, CompletedIsSettled, AllSettled, CompletedHasNoOpenWork, Settled
<1>2. IInv /\ VInv /\ CInv /\ [Next]_vars => CInv'
  BY CompletionStep
<1>3. Spec => [](IInv /\ VInv /\ CInv)
  BY <1>2, InvInit, InvStep, VersionsInit, VersionsStep, CompletionInit, PTL DEF Spec
<1> QED
  BY <1>1, <1>3, PTL
=============================================================================
