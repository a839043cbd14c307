-------------------------- MODULE DispatchProofs --------------------------
(***************************************************************************)
(* Dispatch's types, the bound on an outcome's spend and the driver's      *)
(* limit, for every number of tasks, plans, pool slots and requests.       *)
(***************************************************************************)
EXTENDS Dispatch, FiniteSetTheorems, TLAPS

(* A session that exists has its task, and so has what a slot holds.       *)
Attributed ==
    /\ \A s \in Sessions : phase[s] # "none" => task[s] \in Tasks
    /\ \A w \in Slots : slotAt[w] # "free" => /\ slotSess[w] \in Sessions
                                              /\ phase[slotSess[w]] # "none"

(* Each run in flight may still cost MaxCost: with that set aside, the     *)
(* ledger of an outcome is within the bound.                               *)
Reserved(o) == Cardinality(InFlight(o)) * MaxCost

Budget ==
    \A o \in Outcomes :
        ledger[o] + Reserved(o) <= Ceiling - 1 + Cardinality(Slots) * MaxCost

Shape == TypeOK /\ Attributed

Inv == Shape /\ Budget

LEMMA SessionsFinite == IsFiniteSet(Sessions)
  BY FS_Interval, DispatchAssumption DEF Sessions

LEMMA LiveIsNat == Cardinality(UnderWay) \in Nat
  <1>1. UnderWay \subseteq Sessions
    BY DEF UnderWay
  <1>2. IsFiniteSet(UnderWay)
    BY <1>1, SessionsFinite, FS_Subset
  <1> QED
    BY <1>2, FS_CardinalityType

(* The runs in flight are some of the slots.                               *)
LEMMA FlightsFinite ==
  ASSUME NEW o
  PROVE  /\ IsFiniteSet(InFlight(o))
         /\ Cardinality(InFlight(o)) \in Nat
         /\ Cardinality(InFlight(o)) <= Cardinality(Slots)
         /\ Cardinality(Slots) \in Nat
  <1>1. InFlight(o) \subseteq Slots
    BY DEF InFlight
  <1>2. IsFiniteSet(Slots)
    BY DispatchAssumption
  <1> QED
    BY <1>1, <1>2, FS_Subset, FS_CardinalityType

LEMMA InitShape == Init => Shape
  BY DispatchAssumption
  DEF Init, Contract!Init, Shape, TypeOK, Attributed, Preparers, TaskStatuses

(* No session loses its task, and none disappears; the slots stay on the   *)
(* sessions they hold, or let go.                                          *)
LEMMA ShapeKept ==
  ASSUME Shape, [Next]_vars
  PROVE  Shape'
  <1> USE DispatchAssumption
  <1>1. CASE UNCHANGED vars
    BY <1>1 DEF Shape, TypeOK, Attributed, TaskStatuses, vars, sessions, work, driver,
         slots, money
  <1>2. CASE BeginTick
    BY <1>2, LiveIsNat DEF Shape, TypeOK, Attributed, TaskStatuses, BeginTick, sessions,
         work, slots, money
  <1>3. CASE EnqueueNext
    BY <1>3 DEF Shape, TypeOK, Attributed, TaskStatuses, EnqueueNext, Contract!Open,
         Preparers, work, slots, money
  <1>4. CASE StopEnqueuing
    BY <1>4 DEF Shape, TypeOK, Attributed, TaskStatuses, StopEnqueuing, sessions, work,
         slots, money
  <1>5. CASE BlockExhausted
    BY <1>5 DEF Shape, TypeOK, Attributed, TaskStatuses, BlockExhausted, sessions, slots, money
  <1>6. ASSUME NEW p \in Preparers, WriteBrief(p) PROVE Shape'
    BY <1>6 DEF Shape, TypeOK, Attributed, TaskStatuses, WriteBrief, Contract!Ready,
         work, driver, slots, money
  <1>7. ASSUME NEW t \in Tasks, AdvanceGates(t) PROVE Shape'
    BY <1>7 DEF Shape, TypeOK, Attributed, TaskStatuses, AdvanceGates, CountFailure,
         sessions, driver, slots, money
  <1>8. ASSUME NEW t \in Tasks, Requeue(t) PROVE Shape'
    BY <1>8 DEF Shape, TypeOK, Attributed, TaskStatuses, Requeue, sessions, driver, slots, money
  <1>9. ASSUME NEW r \in Requests, NEW t \in Tasks, RequestExecution(r, t) PROVE Shape'
    BY <1>9 DEF Shape, TypeOK, Attributed, TaskStatuses, RequestExecution,
         Contract!Open, Preparers, work, driver, slots, money
  <1>10. ASSUME NEW w \in Slots, ClaimSession(w) PROVE Shape'
    <2>1. PICK s \in Sessions : /\ Contract!Claim(s)
                               /\ slotSess' = [slotSess EXCEPT ![w] = s]
      BY <1>10 DEF ClaimSession
    <2>2. TypeOK'
      BY <1>10, <2>1 DEF Shape, TypeOK, Sessions, ClaimSession, Contract!Claim, work,
           driver, money
    <2>3. Attributed'
      BY <1>10, <2>1 DEF Shape, TypeOK, Attributed, ClaimSession, Contract!Claim
    <2> QED
      BY <2>2, <2>3 DEF Shape
  <1>11. ASSUME NEW w \in Slots, HaltForSpend(w) PROVE Shape'
    BY <1>11 DEF Shape, TypeOK, Attributed, TaskStatuses, HaltForSpend, GotoSlot,
         sessions, driver, money
  <1>12. ASSUME NEW w \in Slots, LaunchAgent(w) PROVE Shape'
    BY <1>12 DEF Shape, TypeOK, Attributed, TaskStatuses, LaunchAgent, Contract!Launch,
         GotoSlot, work, driver, money
  <1>13. ASSUME NEW w \in Slots, FinishAgent(w) PROVE Shape'
    BY <1>13 DEF Shape, TypeOK, Attributed, TaskStatuses, FinishAgent, sessions, work,
         driver, money
  <1>14. ASSUME NEW w \in Slots, IngestResult(w) PROVE Shape'
    BY <1>14 DEF Shape, TypeOK, Attributed, TaskStatuses, IngestResult, Contract!Close,
         CountFailure, GotoSlot, driver, money
  <1>15. ASSUME NEW w \in Slots, RecordUsage(w) PROVE Shape'
    BY <1>15 DEF Shape, TypeOK, Attributed, TaskStatuses, RecordUsage, FreeSlot,
         sessions, work, driver
  <1>16. ASSUME NEW w \in Slots, ReleaseSession(w) PROVE Shape'
    BY <1>16 DEF Shape, TypeOK, Attributed, TaskStatuses, ReleaseSession,
         Contract!Close, CountFailure, FreeSlot, driver, money
  <1>17. ASSUME NEW s \in Sessions, ReapOrphan(s) PROVE Shape'
    BY <1>17 DEF Shape, TypeOK, Attributed, TaskStatuses, ReapOrphan, Contract!Close,
         CountFailure, driver, slots, money
  <1>18. ASSUME NEW o \in Outcomes, RecordPlanning(o) PROVE Shape'
    BY <1>18 DEF Shape, TypeOK, Attributed, TaskStatuses, RecordPlanning, sessions,
         work, driver, slots
  <1>19. CASE CrashWorker
    BY <1>19 DEF Shape, TypeOK, Attributed, TaskStatuses, CrashWorker, sessions, work,
         driver, money
  <1> QED
    BY <1>1, <1>2, <1>3, <1>4, <1>5, <1>6, <1>7, <1>8, <1>9, <1>10, <1>11, <1>12, <1>13,
       <1>14, <1>15, <1>16, <1>17, <1>18, <1>19
    DEF Next, DriverStep, SlotStep

(* An outcome with no more in flight than before, and nothing recorded, is *)
(* still within the bound.                                                 *)
LEMMA FewerInFlight ==
  ASSUME Shape, Budget, UNCHANGED ledger,
         \A o \in Outcomes : InFlight(o)' \subseteq InFlight(o)
  PROVE  Budget'
  <1> SUFFICES ASSUME NEW o \in Outcomes
               PROVE  ledger'[o] + Cardinality(InFlight(o)') * MaxCost
                        <= Ceiling - 1 + Cardinality(Slots) * MaxCost
    BY DEF Budget, Reserved
  <1> DEFINE n == Cardinality(InFlight(o))
             k == Cardinality(InFlight(o)')
  <1>1. k \in Nat /\ n \in Nat /\ k <= n /\ Cardinality(Slots) \in Nat
    BY FlightsFinite, FS_Subset, FS_CardinalityType
  <1>2. ledger'[o] = ledger[o] /\ ledger[o] \in Nat
    BY DEF Shape, TypeOK
  <1>3. ledger[o] + n * MaxCost <= Ceiling - 1 + Cardinality(Slots) * MaxCost
    BY DEF Budget, Reserved
  <1> HIDE DEF n, k
  <1>4. k * MaxCost <= n * MaxCost
    BY <1>1, DispatchAssumption
  <1>5. k * MaxCost \in Int /\ n * MaxCost \in Int /\ Cardinality(Slots) * MaxCost \in Int
    BY <1>1, DispatchAssumption
  <1>6. ledger'[o] + k * MaxCost <= Ceiling - 1 + Cardinality(Slots) * MaxCost
    BY <1>2, <1>3, <1>4, <1>5, DispatchAssumption
  <1> QED
    BY <1>6 DEF k

(* An agent starts only below the ceiling: even with every slot in flight  *)
(* the outcome stays within the bound.                                     *)
LEMMA LaunchWithinBudget ==
  ASSUME Shape, Budget, NEW w \in Slots, LaunchAgent(w)
  PROVE  Budget'
  <1> DEFINE own == OutcomeOf(task[slotSess[w]])
  <1> SUFFICES ASSUME NEW o \in Outcomes
               PROVE  ledger[o] + Cardinality(InFlight(o)') * MaxCost
                        <= Ceiling - 1 + Cardinality(Slots) * MaxCost
    BY DEF Budget, Reserved, LaunchAgent, money
  <1>1. CASE o = own
    <2>1. InFlight(o)' \subseteq Slots
      BY DEF InFlight
    <2>2. Cardinality(InFlight(o)') \in Nat /\ Cardinality(Slots) \in Nat
          /\ Cardinality(InFlight(o)') <= Cardinality(Slots)
      BY <2>1, DispatchAssumption, FS_Subset, FS_CardinalityType
    <2> DEFINE k == Cardinality(InFlight(o)')
               m == Cardinality(Slots)
    <2> HIDE DEF k, m
    <2>3. k * MaxCost <= m * MaxCost /\ k * MaxCost \in Int /\ m * MaxCost \in Int
      BY <2>2, DispatchAssumption DEF k, m
    <2>4. ledger[o] \in Nat /\ planned[o] \in Nat /\ ledger[o] + planned[o] < Ceiling
      BY <1>1, DispatchAssumption DEF LaunchAgent, Exceeded, Shape, TypeOK
    <2> QED
      BY <2>3, <2>4, DispatchAssumption DEF k, m
  <1>2. CASE o # own
    <2>1. InFlight(o)' \subseteq InFlight(o)
      BY <1>2 DEF InFlight, LaunchAgent, GotoSlot, Contract!Launch, Shape, TypeOK
    <2> DEFINE n == Cardinality(InFlight(o))
               k == Cardinality(InFlight(o)')
    <2>2. k \in Nat /\ n \in Nat /\ k <= n /\ Cardinality(Slots) \in Nat
      BY <2>1, FlightsFinite, FS_Subset, FS_CardinalityType
    <2>3. ledger[o] + n * MaxCost <= Ceiling - 1 + Cardinality(Slots) * MaxCost
      BY DEF Budget, Reserved
    <2>4. ledger[o] \in Nat
      BY DEF Shape, TypeOK
    <2> HIDE DEF n, k
    <2>5. k * MaxCost <= n * MaxCost /\ k * MaxCost \in Int /\ n * MaxCost \in Int
          /\ Cardinality(Slots) * MaxCost \in Int
      BY <2>2, DispatchAssumption
    <2>6. ledger[o] + k * MaxCost <= Ceiling - 1 + Cardinality(Slots) * MaxCost
      BY <2>3, <2>4, <2>5, DispatchAssumption
    <2> QED
      BY <2>6 DEF k
  <1> QED
    BY <1>1, <1>2

(* What is recorded was set aside.                                         *)
LEMMA RecordWithinBudget ==
  ASSUME Shape, Budget, NEW w \in Slots, RecordUsage(w)
  PROVE  Budget'
  <1> DEFINE own == OutcomeOf(task[slotSess[w]])
  <1> SUFFICES ASSUME NEW o \in Outcomes
               PROVE  ledger'[o] + Cardinality(InFlight(o)') * MaxCost
                        <= Ceiling - 1 + Cardinality(Slots) * MaxCost
    BY DEF Budget, Reserved
  <1> DEFINE n == Cardinality(InFlight(o))
             k == Cardinality(InFlight(o)')
  <1>1. n \in Nat /\ Cardinality(Slots) \in Nat /\ IsFiniteSet(InFlight(o))
    BY FlightsFinite
  <1>2. ledger[o] + n * MaxCost <= Ceiling - 1 + Cardinality(Slots) * MaxCost
    BY DEF Budget, Reserved
  <1>3. ledger[o] \in Nat /\ slotCost[w] \in 0..MaxCost
    BY DEF Shape, TypeOK
  <1>4. InFlight(o)' = InFlight(o) \ {w}
    BY DEF InFlight, RecordUsage, FreeSlot, sessions, Shape, TypeOK
  <1>5. CASE o = own
    <2>1. w \in InFlight(o)
      BY <1>5 DEF InFlight, RecordUsage
    <2>2. k = n - 1
      BY <2>1, <1>1, <1>4, FS_RemoveElement
    <2>3. ledger'[o] = ledger[o] + slotCost[w]
      BY <1>5 DEF RecordUsage, Shape, TypeOK
    <2> HIDE DEF n, k
    <2>4. k * MaxCost = n * MaxCost - MaxCost
      BY <2>2, <1>1, DispatchAssumption
    <2>5. n * MaxCost \in Int /\ Cardinality(Slots) * MaxCost \in Int
      BY <1>1, DispatchAssumption
    <2>6. ledger'[o] + k * MaxCost <= Ceiling - 1 + Cardinality(Slots) * MaxCost
      BY <1>2, <1>3, <2>3, <2>4, <2>5, DispatchAssumption
    <2> QED
      BY <2>6 DEF k
  <1>6. CASE o # own
    <2>1. w \notin InFlight(o)
      BY <1>6 DEF InFlight
    <2>2. InFlight(o)' = InFlight(o)
      BY <2>1, <1>4
    <2>3. ledger'[o] = ledger[o]
      BY <1>6 DEF RecordUsage, Shape, TypeOK
    <2> QED
      BY <2>2, <2>3, <1>2
  <1> QED
    BY <1>5, <1>6

LEMMA BudgetKept ==
  ASSUME Inv, [Next]_vars
  PROVE  Budget'
  <1> USE DEF Inv
  <1>1. ASSUME UNCHANGED <<task, slots, ledger>> PROVE Budget'
    <2>1. \A o \in Outcomes : InFlight(o)' \subseteq InFlight(o)
      BY <1>1 DEF InFlight, slots
    <2> QED
      BY <1>1, <2>1, FewerInFlight
  <1>2. ASSUME NEW s \in Sessions, NEW t \in Tasks, Contract!Open(s, t),
               UNCHANGED <<slots, ledger>>
        PROVE  Budget'
    <2>1. \A w \in Slots : slotAt[w] # "free" => slotSess[w] # s
      BY <1>2 DEF Contract!Open, Shape, Attributed
    <2>2. \A w \in Slots : slotAt[w] # "free" => task'[slotSess[w]] = task[slotSess[w]]
      BY <1>2, <2>1 DEF Contract!Open, Shape, TypeOK, Attributed
    <2>3. \A o \in Outcomes : InFlight(o)' \subseteq InFlight(o)
      BY <1>2, <2>2 DEF InFlight, slots
    <2> QED
      BY <1>2, <2>3, FewerInFlight
  <1>3. ASSUME NEW w \in Slots, UNCHANGED <<task, ledger>>,
               \/ slotAt'[w] \notin {"agent", "ingest", "record"}
               \/ w \in InFlight(OutcomeOf(task[slotSess[w]])),
               slotAt'[w] \in {"agent", "ingest", "record"} => slotSess'[w] = slotSess[w],
               \A v \in Slots \ {w} : slotAt'[v] = slotAt[v] /\ slotSess'[v] = slotSess[v]
        PROVE  Budget'
    <2>1. \A o \in Outcomes : InFlight(o)' \subseteq InFlight(o)
      BY <1>3 DEF InFlight
    <2> QED
      BY <1>3, <2>1, FewerInFlight
  <1>4. CASE UNCHANGED vars
    BY <1>4, <1>1 DEF vars, sessions, slots, money
  <1>5. CASE BeginTick \/ StopEnqueuing \/ BlockExhausted
    BY <1>5, <1>1 DEF BeginTick, StopEnqueuing, BlockExhausted, sessions, money
  <1>6. CASE EnqueueNext
    BY <1>6, <1>2 DEF EnqueueNext, money
  <1>7. ASSUME NEW p \in Preparers, WriteBrief(p) PROVE Budget'
    BY <1>7, <1>1 DEF WriteBrief, Contract!Ready, money
  <1>8. ASSUME NEW t \in Tasks, AdvanceGates(t) \/ Requeue(t) PROVE Budget'
    BY <1>8, <1>1 DEF AdvanceGates, Requeue, sessions, money
  <1>9. ASSUME NEW r \in Requests, NEW t \in Tasks, RequestExecution(r, t) PROVE Budget'
    BY <1>9, <1>2 DEF RequestExecution, money
  <1>10. ASSUME NEW w \in Slots, ClaimSession(w) PROVE Budget'
    BY <1>10, <1>3 DEF ClaimSession, Contract!Claim, money, Shape, TypeOK
  <1>11. ASSUME NEW w \in Slots, HaltForSpend(w) PROVE Budget'
    BY <1>11, <1>3 DEF HaltForSpend, GotoSlot, sessions, money, Shape, TypeOK
  <1>12. ASSUME NEW w \in Slots, FinishAgent(w) PROVE Budget'
    <2>1. w \in InFlight(OutcomeOf(task[slotSess[w]]))
      BY <1>12 DEF FinishAgent, InFlight
    <2> QED
      BY <1>12, <2>1, <1>3 DEF FinishAgent, sessions, money, Shape, TypeOK
  <1>13. ASSUME NEW w \in Slots, IngestResult(w) PROVE Budget'
    <2>1. w \in InFlight(OutcomeOf(task[slotSess[w]]))
      BY <1>13 DEF IngestResult, InFlight
    <2> QED
      BY <1>13, <2>1, <1>3 DEF IngestResult, GotoSlot, Contract!Close, money, Shape, TypeOK
  <1>14. ASSUME NEW w \in Slots, ReleaseSession(w) PROVE Budget'
    BY <1>14, <1>3 DEF ReleaseSession, FreeSlot, Contract!Close, money, Shape, TypeOK
  <1>15. ASSUME NEW s \in Sessions, ReapOrphan(s) PROVE Budget'
    BY <1>15, <1>1 DEF ReapOrphan, Contract!Close, money
  <1>16. ASSUME NEW o \in Outcomes, RecordPlanning(o) PROVE Budget'
    BY <1>16, <1>1 DEF RecordPlanning, sessions
  <1>17. CASE CrashWorker
    <2>1. \A o \in Outcomes : InFlight(o)' \subseteq InFlight(o)
      BY <1>17 DEF CrashWorker, InFlight
    <2> QED
      BY <1>17, <2>1, FewerInFlight DEF CrashWorker, money
  <1> QED
    BY <1>4, <1>5, <1>6, <1>7, <1>8, <1>9, <1>10, <1>11, <1>12, <1>13, <1>14,
       <1>15, <1>16, <1>17, LaunchWithinBudget, RecordWithinBudget
    DEF Next, DriverStep, SlotStep

LEMMA InitBudget == Init => Budget
  <1> SUFFICES ASSUME Init, NEW o \in Outcomes
               PROVE  ledger[o] + Cardinality(InFlight(o)) * MaxCost
                        <= Ceiling - 1 + Cardinality(Slots) * MaxCost
    BY DEF Budget, Reserved
  <1>1. InFlight(o) = {}
    BY DEF InFlight, Init
  <1>2. Cardinality(InFlight(o)) = 0
    BY <1>1, FS_EmptySet
  <1>3. ledger[o] = 0
    BY DEF Init
  <1>4. Cardinality(Slots) \in Nat
    BY FlightsFinite
  <1>5. Cardinality(Slots) * MaxCost \in Nat
    BY <1>4, DispatchAssumption
  <1> QED
    BY <1>2, <1>3, <1>5, DispatchAssumption

LEMMA Invariance == Spec => []Inv
  <1>1. Init => Inv
    BY InitShape, InitBudget DEF Inv
  <1>2. Inv /\ [Next]_vars => Inv'
    BY ShapeKept, BudgetKept DEF Inv
  <1> QED
    BY <1>1, <1>2, PTL DEF Spec

(* Rows, slots and ledger have their types, for every number of tasks,     *)
(* slots and requests.                                                     *)
THEOREM TypeCorrect == Spec => []TypeOK
  <1>1. Inv => TypeOK
    BY DEF Inv, Shape
  <1> QED
    BY <1>1, Invariance, PTL

(* The recorded execution spend of an outcome stays within its ceiling and *)
(* one batch of runs, for every pool, every ceiling and every cost         *)
(* (execution-spend-guard.ts).                                             *)
THEOREM SpendStaysBounded == Spec => []SpendBounded
  <1>1. Inv => SpendBounded
    <2> SUFFICES ASSUME Inv, NEW o \in Outcomes
                 PROVE  ledger[o] <= Ceiling - 1 + Cardinality(Slots) * MaxCost
      BY DEF SpendBounded
    <2>1. ledger[o] + Reserved(o) <= Ceiling - 1 + Cardinality(Slots) * MaxCost
      BY DEF Inv, Budget
    <2>2. ledger[o] \in Nat /\ Cardinality(InFlight(o)) \in Nat /\ Cardinality(Slots) \in Nat
      BY FlightsFinite DEF Inv, Shape, TypeOK
    <2>3. Reserved(o) \in Nat /\ Cardinality(Slots) * MaxCost \in Nat
      BY <2>2, DispatchAssumption DEF Reserved
    <2> QED
      BY <2>1, <2>2, <2>3, DispatchAssumption
  <1> QED
    BY <1>1, Invariance, PTL

---------------------------------------------------------------------------
(* The driver's limit.  Its count is of all sessions under way, taken at   *)
(* the start of the tick; since then its own can only have got fewer, but  *)
(* for those that it has added to the count, or is about to.               *)
Own == UnderWay \ byRequest

Counted ==
    /\ Cardinality(Own) <= Limit
    /\ at = "enqueue" => Cardinality(Own) <= live
    /\ at = "brief" => Cardinality(Own) <= live + 1
    /\ briefing["driver"] # NoSession => at = "brief"

LEMMA OwnFinite ==
  /\ IsFiniteSet(UnderWay) /\ IsFiniteSet(Own)
  /\ Cardinality(UnderWay) \in Nat /\ Cardinality(Own) \in Nat
  /\ Cardinality(Own) <= Cardinality(UnderWay)
  <1>1. UnderWay \subseteq Sessions /\ Own \subseteq UnderWay
    BY DEF UnderWay, Own
  <1>2. IsFiniteSet(UnderWay)
    BY <1>1, SessionsFinite, FS_Subset
  <1> QED
    BY <1>1, <1>2, FS_Subset, FS_CardinalityType

LEMMA CountedInit == Init => Counted
  <1> SUFFICES ASSUME Init PROVE Counted
    OBVIOUS
  <1>1. Own = {}
    BY DEF Own, UnderWay, Init, Contract!Init, Contract!UnderWay
  <1>2. Cardinality(Own) = 0
    BY <1>1, FS_EmptySet
  <1> QED
    BY <1>2, DispatchAssumption DEF Counted, Init, Preparers

(* Whatever closes sessions, moves them on or opens the CEO's.             *)
LEMMA NoneAdded ==
  ASSUME Counted, live \in Nat, Own' \subseteq Own, UNCHANGED <<at, live>>,
         briefing'["driver"] = briefing["driver"]
  PROVE  Counted'
  <1>1. Cardinality(Own') <= Cardinality(Own) /\ Cardinality(Own') \in Nat
    BY OwnFinite, FS_Subset, FS_CardinalityType
  <1>2. Cardinality(Own)' = Cardinality(Own')
    OBVIOUS
  <1>3. Cardinality(Own) \in Nat /\ Limit \in Nat
    BY OwnFinite, DispatchAssumption
  <1> QED
    BY <1>1, <1>2, <1>3 DEF Counted

LEMMA CountedStep ==
  ASSUME Shape, Counted, [Next]_vars
  PROVE  Counted'
  <1> USE DEF Shape, TypeOK
  <1>1. CASE UNCHANGED vars
    BY <1>1, NoneAdded DEF vars, sessions, driver, Own, UnderWay
  <1>2. CASE BeginTick
    <2>1. Own' = Own /\ live' = Cardinality(UnderWay) /\ at' = "enqueue" /\ at = "gates"
          /\ briefing' = briefing
      BY <1>2 DEF BeginTick, Own, UnderWay, sessions
    <2> QED
      BY <2>1, OwnFinite DEF Counted
  <1>3. CASE EnqueueNext
    <2>1. PICK s \in Sessions :
             /\ phase[s] = "none" /\ phase' = [phase EXCEPT ![s] = "queued"]
      BY <1>3 DEF EnqueueNext, Contract!Open
    <2>2. s \notin Own /\ Own' \subseteq Own \cup {s}
      BY <1>3, <2>1 DEF EnqueueNext, Own, UnderWay, Contract!UnderWay
    <2>3. IsFiniteSet(Own \cup {s}) /\ Cardinality(Own \cup {s}) = Cardinality(Own) + 1
      BY <2>2, OwnFinite, FS_AddElement
    <2>4. Cardinality(Own') <= Cardinality(Own) + 1 /\ Cardinality(Own') \in Nat
      BY <2>2, <2>3, FS_Subset, FS_CardinalityType
    <2>5. Cardinality(Own) <= live /\ live < Limit /\ live \in Nat /\ Limit \in Nat
      BY <1>3, DispatchAssumption DEF EnqueueNext, HasRoom, Counted
    <2>6. at' = "brief" /\ live' = live
      BY <1>3 DEF EnqueueNext
    <2> HIDE DEF Own
    <2>7. Cardinality(Own)' = Cardinality(Own')
      OBVIOUS
    <2> QED
      BY <2>4, <2>5, <2>6, <2>7, OwnFinite DEF Counted
  <1>4. CASE StopEnqueuing \/ BlockExhausted
    <2>1. /\ Own' = Own /\ at = "enqueue" /\ at' = "gates"
          /\ briefing' = briefing
      BY <1>4 DEF StopEnqueuing, BlockExhausted, Own, UnderWay, sessions
    <2> QED
      BY <2>1 DEF Counted
  <1>5. ASSUME NEW p \in Preparers, WriteBrief(p) PROVE Counted'
    <2>1. Own' \subseteq Own
      BY <1>5 DEF WriteBrief, Contract!Ready, Own, UnderWay, Contract!UnderWay
    <2>2. CASE p = "driver"
      <3>1. at = "brief" /\ at' = "enqueue" /\ live' = live + 1
            /\ briefing'["driver"] = NoSession
        BY <1>5, <2>2 DEF WriteBrief, Counted
      <3>2. Cardinality(Own') <= Cardinality(Own) /\ Cardinality(Own') \in Nat
        BY <2>1, OwnFinite, FS_Subset, FS_CardinalityType
      <3>3. Cardinality(Own) \in Nat /\ Limit \in Nat
        BY OwnFinite, DispatchAssumption
      <3> QED
        BY <3>1, <3>2, <3>3 DEF Counted
    <2>3. CASE p # "driver"
      BY <1>5, <2>1, <2>3, NoneAdded DEF WriteBrief, driver
    <2> QED
      BY <2>2, <2>3
  <1>6. ASSUME NEW t \in Tasks, AdvanceGates(t) \/ Requeue(t) PROVE Counted'
    BY <1>6, NoneAdded DEF AdvanceGates, Requeue, sessions, driver, Own, UnderWay
  <1>7. ASSUME NEW r \in Requests, NEW t \in Tasks, RequestExecution(r, t) PROVE Counted'
    <2>1. PICK s \in Sessions : /\ phase' = [phase EXCEPT ![s] = "queued"]
                               /\ byRequest' = byRequest \cup {s}
      BY <1>7 DEF RequestExecution, Contract!Open
    <2>2. Own' \subseteq Own
      BY <2>1 DEF Own, UnderWay, Contract!UnderWay
    <2> QED
      BY <1>7, <2>2, NoneAdded, DispatchAssumption DEF RequestExecution, driver, Preparers
  <1>8. ASSUME NEW w \in Slots, SlotStep(w) PROVE Counted'
    <2>1. Own' \subseteq Own /\ UNCHANGED <<driver, briefing>>
      BY <1>8 DEF SlotStep, ClaimSession, HaltForSpend, LaunchAgent, FinishAgent,
         IngestResult, RecordUsage, ReleaseSession, Contract!Claim, Contract!Launch,
         Contract!Close, sessions, Own, UnderWay, Contract!UnderWay
    <2> QED
      BY <2>1, NoneAdded DEF driver
  <1>9. ASSUME NEW s \in Sessions, ReapOrphan(s) PROVE Counted'
    <2>1. Own' \subseteq Own
      BY <1>9 DEF ReapOrphan, Contract!Close, Own, UnderWay, Contract!UnderWay
    <2> QED
      BY <1>9, <2>1, NoneAdded DEF ReapOrphan, driver
  <1>10. ASSUME NEW o \in Outcomes, RecordPlanning(o) PROVE Counted'
    BY <1>10, NoneAdded DEF RecordPlanning, sessions, driver, Own, UnderWay
  <1>11. CASE CrashWorker
    BY <1>11, NoneAdded DEF CrashWorker, sessions, driver, Own, UnderWay
  <1> QED
    BY <1>1, <1>2, <1>3, <1>4, <1>5, <1>6, <1>7, <1>8, <1>9, <1>10, <1>11
    DEF Next, DriverStep

(* For every limit, pool and number of requests, however the tick's count  *)
(* and the worker's progress interleave and whenever the worker dies: of   *)
(* the sessions the driver has opened no more than the limit are under way *)
(* (execution-driver-service.ts).                                          *)
THEOREM LimitIsKept == Spec => []DriverKeepsLimit
  <1>1. Counted => DriverKeepsLimit
    BY DEF Counted, DriverKeepsLimit, Own
  <1>2. Shape /\ Counted /\ [Next]_vars => Shape' /\ Counted'
    BY ShapeKept, CountedStep
  <1>3. Spec => [](Shape /\ Counted)
    BY <1>2, InitShape, CountedInit, PTL DEF Spec
  <1> QED
    BY <1>1, <1>3, PTL
============================================================================
