---------------------- MODULE ExecutionSessionProofs ----------------------
(***************************************************************************)
(* Theorems about ExecutionSession, for any number of tasks, sessions,     *)
(* drivers, requests, workers, forms, faults and crashes.                  *)
(***************************************************************************)
EXTENDS ExecutionSession, TLAPS

---------------------------------------------------------------------------
(* The inductive invariant.                                                *)

(* The preparer owns the session it has created until it is prepared.      *)
Owns(p, s) == prepAt[p] \in {"created", "brief"} /\ prepSess[p] = s

(* The worker slot holds the session it has claimed.                       *)
Holds(w, s) == jobAt[w] \in Holding /\ jobSess[w] = s

(* No worker holds the session and no agent was launched on it.            *)
Untouched(s) == runs[s] = 0 /\ \A w \in Workers : ~Holds(w, s)

(* An ingester holds a session that exists, and what a form is about to    *)
(* write concerns a session that has been prepared.                        *)
JobsOK ==
    \A a \in Ingesters :
        /\ jobAt[a] # "idle" => status[jobSess[a]] # "absent"
        /\ jobAt[a] = "commit" /\ jobSeen[a] \in {"prepared", "running"} =>
              \A p \in Preparers : ~Owns(p, jobSess[a])

CancelsOK ==
    \A c \in Cancelers : cancel[c] # NoSession => status[cancel[c]] # "absent"

(* Rows are created in order.                                              *)
AbsentAfterCreated == \A s \in Sessions : s > created <=> status[s] = "absent"

(* A session that was never claimed is untouched, and its preparer is the  *)
(* only one who owns it.                                                   *)
UntouchedUntilClaimed ==
    /\ \A s \in Sessions :
          status[s] \in {"absent", "queued", "prepared"} => Untouched(s)
    /\ \A p \in Preparers, s \in Sessions :
          Owns(p, s) => Untouched(s) /\ status[s] \in {"queued", "canceled"}
    /\ \A p, q \in Preparers, s \in Sessions : Owns(p, s) /\ Owns(q, s) => p = q

(* One worker slot at a time holds a session, and only the slot that has   *)
(* not launched its agent yet may launch it.                               *)
OneHolder ==
    /\ \A v, w \in Workers, s \in Sessions : Holds(v, s) /\ Holds(w, s) => v = w
    /\ \A w \in Workers : jobAt[w] = "claimed" => runs[jobSess[w]] = 0

(* The strengthening that is inductive.                                    *)
IInv ==
    /\ TypeOK
    /\ JobsOK
    /\ CancelsOK
    /\ AbsentAfterCreated
    /\ UntouchedUntilClaimed
    /\ OneHolder
    /\ AgentRunsOnce

---------------------------------------------------------------------------
(* The rows and the locals of every process start with their types.        *)
LEMMA TypeInit == Init => TypeOK
  BY ConstantsAssumption DEF Init, TypeOK, Sessions, TaskStatuses

(* No handler, fault or crash takes a row or a local out of its type.      *)
LEMMA TypeStep == TypeOK /\ [Next]_vars => TypeOK'
<1> SUFFICES ASSUME TypeOK, [Next]_vars PROVE TypeOK'
  OBVIOUS
<1> USE DEF TypeOK, rows, prep, job, Preparers, Ingesters
<1>1. ASSUME NEW d \in Drivers, NEW t \in Tasks, SelectTask(d, t)
      PROVE TypeOK'
  BY <1>1 DEF SelectTask
<1>2. ASSUME NEW r \in Requests, NEW t \in Tasks, RequestExecution(r, t)
      PROVE TypeOK'
  BY <1>2 DEF RequestExecution
<1>3. ASSUME NEW p \in Preparers, FindLiveSession(p)
      PROVE TypeOK'
  BY <1>3 DEF FindLiveSession, GotoPrep, EndPrep
<1>4. ASSUME NEW p \in Preparers, AssessAttempt(p)
      PROVE TypeOK'
  BY <1>4 DEF AssessAttempt, TaskStatuses, GotoPrep, EndPrep
<1>5. ASSUME NEW p \in Preparers, CreateExecutionSession(p)
      PROVE TypeOK'
  <2> USE DEF CreateExecutionSession, EndPrep
  <2>1. CASE MayCreate(prepTask[p])
    <3>1. created + 1 \in Sessions /\ created' \in 0..MaxSessions
      BY <1>5, <2>1, ConstantsAssumption DEF Sessions
    <3>2. status' \in [Sessions -> SessionStatuses \cup {"absent"}]
      BY <1>5, <2>1, <3>1 DEF SessionStatuses, Live
    <3> QED
      BY <1>5, <2>1, <3>1, <3>2
  <2>2. CASE ~MayCreate(prepTask[p])
    BY <1>5, <2>2
  <2> QED
    BY <2>1, <2>2
<1>6. ASSUME NEW p \in Preparers, PrepareRead(p)
      PROVE TypeOK'
  BY <1>6 DEF PrepareRead, GotoPrep, EndPrep
<1>7. ASSUME NEW p \in Preparers, PrepareWrite(p)
      PROVE TypeOK'
  BY <1>7 DEF PrepareWrite, SessionStatuses, Live, EndPrep
<1>8. ASSUME NEW p \in Preparers, CrashPreparer(p)
      PROVE TypeOK'
  BY <1>8, ConstantsAssumption DEF CrashPreparer, EndPrep
<1>9. ASSUME NEW w \in Workers, FindPrepared(w)
      PROVE TypeOK'
  BY <1>9 DEF FindPrepared, Prepared
<1>10. ASSUME NEW w \in Workers, ClaimNextSession(w)
      PROVE TypeOK'
  BY <1>10 DEF ClaimNextSession, SessionStatuses, Live, Holding, GotoJob, EndJob
<1>11. ASSUME NEW w \in Workers, FailPreflight(w)
      PROVE TypeOK'
  BY <1>11 DEF FailPreflight, Holding, GotoJob
<1>11a. ASSUME NEW w \in Workers, HaltForSpend(w)
      PROVE TypeOK'
  BY <1>11a DEF HaltForSpend, GotoJob, Holding, TaskStatuses
<1>12. ASSUME NEW w \in Workers, LaunchAgent(w)
      PROVE TypeOK'
  <2>1. jobSess[w] \in Sessions /\ runs' \in [Sessions -> Nat]
    BY <1>12 DEF LaunchAgent
  <2> QED
    BY <1>12, <2>1 DEF LaunchAgent, Holding, GotoJob
<1>13. ASSUME NEW w \in Workers, FinishAgent(w)
      PROVE TypeOK'
  BY <1>13 DEF FinishAgent, ClassifyAgentRun, Holding, Verdicts
<1>14. ASSUME NEW w \in Workers, AbortAgent(w)
      PROVE TypeOK'
  BY <1>14 DEF AbortAgent, Holding, GotoJob
<1>15. ASSUME NEW w \in Workers, ReleaseSession(w)
      PROVE TypeOK'
  BY <1>15 DEF ReleaseSession, SessionStatuses, Terminal, EndJob
<1>16. ASSUME NEW f \in Forms, NEW s \in Sessions, NEW v \in Verdicts,
              SubmitForm(f, s, v)
      PROVE TypeOK'
  BY <1>16 DEF SubmitForm, Holding
<1>17. ASSUME NEW a \in Ingesters, IngestRead(a)
      PROVE TypeOK'
  BY <1>17 DEF IngestRead, Throw, Holding, GotoJob, EndJob
<1>18. ASSUME NEW a \in Ingesters, IngestCommit(a)
      PROVE TypeOK'
  BY <1>18 DEF IngestCommit, Throw, Holding, SessionStatuses, Verdicts, Terminal,
      GotoJob, EndJob
<1>19. ASSUME NEW a \in Ingesters, MarkTask(a)
      PROVE TypeOK'
  BY <1>19 DEF MarkTask, TaskStatuses, EndJob
<1>20. ASSUME NEW a \in Ingesters, MarkTaskFails(a)
      PROVE TypeOK'
  BY <1>20 DEF MarkTaskFails, Throw, Holding, GotoJob, EndJob
<1>21. ASSUME NEW a \in Ingesters, CrashIngester(a)
      PROVE TypeOK'
  BY <1>21, ConstantsAssumption DEF CrashIngester, EndJob
<1>22. ASSUME NEW s \in Sessions, ReapStaleSession(s)
      PROVE TypeOK'
  BY <1>22 DEF ReapStaleSession, SessionStatuses, Terminal
<1>23. ASSUME NEW c \in Cancelers, NEW s \in Sessions, CancelRead(c, s)
      PROVE TypeOK'
  BY <1>23 DEF CancelRead
<1>24. ASSUME NEW c \in Cancelers, CancelWrite(c)
      PROVE TypeOK'
  BY <1>24 DEF CancelWrite, SessionStatuses, Terminal
<1>25. ASSUME NEW t \in Tasks, UpdateTaskStatus(t)
      PROVE TypeOK'
  BY <1>25 DEF UpdateTaskStatus, TaskStatuses
<1>26. ASSUME NEW t \in Tasks, PassGate(t)
      PROVE TypeOK'
  BY <1>26 DEF PassGate, TaskStatuses
<1>27. CASE UNCHANGED vars
  BY <1>27 DEF vars
<1> HIDE DEF TypeOK
<1> QED
  BY <1>1, <1>2, <1>3, <1>4, <1>5, <1>6, <1>7, <1>8, <1>9, <1>10, <1>11,
     <1>11a, <1>12, <1>13, <1>14, <1>15, <1>16, <1>17, <1>18, <1>19, <1>20,
     <1>21, <1>22, <1>23, <1>24, <1>25, <1>26, <1>27
  DEF Next, PreparerStep, WorkerStep, IngestStep

(* Every variable has its type: what is prepared is a task, what is        *)
(* ingested is a verdict for a session.                                    *)
THEOREM TypeCorrect == Spec => []TypeOK
  BY TypeInit, TypeStep, PTL DEF Spec
---------------------------------------------------------------------------
(* The inductive invariant holds of an empty company.                      *)
LEMMA InvInit == Init => IInv
  BY TypeInit, ConstantsAssumption DEF Init, IInv, JobsOK, CancelsOK, AbsentAfterCreated,
      UntouchedUntilClaimed, Untouched, Owns, Holds, OneHolder, AgentRunsOnce,
      Holding, Sessions, Preparers, Ingesters

(* Every step of every process keeps the inductive invariant.              *)
LEMMA InvStep == IInv /\ [Next]_vars => IInv'
<1> SUFFICES ASSUME IInv, [Next]_vars PROVE IInv'
  OBVIOUS
<1>t. TypeOK /\ TypeOK'
  BY TypeStep DEF IInv
<1> USE DEF TypeOK, rows, prep, job, Preparers, Ingesters, IInv, JobsOK, CancelsOK,
            AbsentAfterCreated, UntouchedUntilClaimed, Untouched, Owns, Holds,
            OneHolder, AgentRunsOnce
<1>1. ASSUME NEW d \in Drivers, NEW t \in Tasks, SelectTask(d, t)
      PROVE IInv'
  BY <1>t, <1>1, ConstantsAssumption DEF SelectTask
<1>2. ASSUME NEW r \in Requests, NEW t \in Tasks, RequestExecution(r, t)
      PROVE IInv'
  BY <1>t, <1>2, ConstantsAssumption DEF RequestExecution
<1>3. ASSUME NEW p \in Preparers, FindLiveSession(p)
      PROVE IInv'
  BY <1>t, <1>3, ConstantsAssumption DEF FindLiveSession, GotoPrep, EndPrep
<1>4. ASSUME NEW p \in Preparers, AssessAttempt(p)
      PROVE IInv'
  BY <1>t, <1>4, ConstantsAssumption DEF AssessAttempt, GotoPrep, EndPrep
<1>5. ASSUME NEW p \in Preparers, CreateExecutionSession(p)
      PROVE IInv'
  <2>1. CASE ~MayCreate(prepTask[p])
    BY <1>t, <1>5, <2>1 DEF CreateExecutionSession, EndPrep
  <2>2. CASE MayCreate(prepTask[p])
    <3> DEFINE n == created + 1
    <3>1. n \in Sessions /\ created' = n /\ status[n] = "absent"
      BY <1>t, <1>5, <2>2, ConstantsAssumption DEF CreateExecutionSession, Sessions
    <3>2. /\ status' = [status EXCEPT ![n] = "queued"]
          /\ prepAt' = [prepAt EXCEPT ![p] = "created"]
          /\ prepSess' = [prepSess EXCEPT ![p] = n]
          /\ UNCHANGED <<job, cancel, runs>>
      BY <1>5, <2>2 DEF CreateExecutionSession
    <3> HIDE DEF n
    <3>3. Untouched(n) /\ \A q \in Preparers : ~Owns(q, n)
      BY <3>1
    <3>4. JobsOK' /\ CancelsOK'
      BY <1>t, <3>1, <3>2, <3>3, ConstantsAssumption
    <3>5. AbsentAfterCreated'
      BY <1>t, <3>1, <3>2, ConstantsAssumption DEF n, Sessions
    <3>6. UntouchedUntilClaimed'
      BY <1>t, <3>1, <3>2, <3>3
    <3> QED
      BY <1>t, <3>2, <3>4, <3>5, <3>6
  <2> QED
    BY <2>1, <2>2
<1>6. ASSUME NEW p \in Preparers, PrepareRead(p)
      PROVE IInv'
  BY <1>t, <1>6, ConstantsAssumption DEF PrepareRead, GotoPrep, EndPrep, AwaitsBrief
<1>7. ASSUME NEW p \in Preparers, PrepareWrite(p)
      PROVE IInv'
  BY <1>t, <1>7, ConstantsAssumption DEF PrepareWrite, EndPrep
<1>8. ASSUME NEW p \in Preparers, CrashPreparer(p)
      PROVE IInv'
  BY <1>t, <1>8, ConstantsAssumption DEF CrashPreparer, EndPrep
<1>9. ASSUME NEW w \in Workers, FindPrepared(w)
      PROVE IInv'
  BY <1>t, <1>9, ConstantsAssumption DEF FindPrepared, Prepared, Holding
<1>10. ASSUME NEW w \in Workers, ClaimNextSession(w)
      PROVE IInv'
  BY <1>t, <1>10, ConstantsAssumption DEF ClaimNextSession, Claimable, Holding,
      GotoJob, EndJob
<1>11. ASSUME NEW w \in Workers, FailPreflight(w)
      PROVE IInv'
  BY <1>t, <1>11, ConstantsAssumption DEF FailPreflight, Holding, GotoJob
<1>11a. ASSUME NEW w \in Workers, HaltForSpend(w)
      PROVE IInv'
  BY <1>t, <1>11a DEF HaltForSpend, GotoJob, Holding
<1>12. ASSUME NEW w \in Workers, LaunchAgent(w)
      PROVE IInv'
  BY <1>t, <1>12, ConstantsAssumption DEF LaunchAgent, Holding, GotoJob
<1>13. ASSUME NEW w \in Workers, FinishAgent(w)
      PROVE IInv'
  BY <1>t, <1>13, ConstantsAssumption DEF FinishAgent, Holding
<1>14. ASSUME NEW w \in Workers, AbortAgent(w)
      PROVE IInv'
  BY <1>t, <1>14, ConstantsAssumption DEF AbortAgent, Holding, GotoJob
<1>15. ASSUME NEW w \in Workers, ReleaseSession(w)
      PROVE IInv'
  BY <1>t, <1>15, ConstantsAssumption DEF ReleaseSession, Holding, EndJob
<1>16. ASSUME NEW f \in Forms, NEW s \in Sessions, NEW v \in Verdicts,
              SubmitForm(f, s, v)
      PROVE IInv'
  BY <1>t, <1>16, ConstantsAssumption DEF SubmitForm, Holding
<1>17. ASSUME NEW a \in Ingesters, IngestRead(a)
      PROVE IInv'
  BY <1>t, <1>17, ConstantsAssumption DEF IngestRead, Throw, Holding, GotoJob,
      EndJob, Terminal
<1>18. ASSUME NEW a \in Ingesters, IngestCommit(a)
      PROVE IInv'
  BY <1>t, <1>18, ConstantsAssumption DEF IngestCommit, ResultWritten, Throw,
      Holding, Verdicts, GotoJob, EndJob
<1>19. ASSUME NEW a \in Ingesters, MarkTask(a)
      PROVE IInv'
  BY <1>t, <1>19, ConstantsAssumption DEF MarkTask, Holding, EndJob
<1>20. ASSUME NEW a \in Ingesters, MarkTaskFails(a)
      PROVE IInv'
  BY <1>t, <1>20, ConstantsAssumption DEF MarkTaskFails, Throw, Holding, GotoJob,
      EndJob
<1>21. ASSUME NEW a \in Ingesters, CrashIngester(a)
      PROVE IInv'
  BY <1>t, <1>21, ConstantsAssumption DEF CrashIngester, Holding, EndJob
<1>22. ASSUME NEW s \in Sessions, ReapStaleSession(s)
      PROVE IInv'
  BY <1>t, <1>22, ConstantsAssumption DEF ReapStaleSession, Stale
<1>23. ASSUME NEW c \in Cancelers, NEW s \in Sessions, CancelRead(c, s)
      PROVE IInv'
  BY <1>t, <1>23, ConstantsAssumption DEF CancelRead, Terminal
<1>24. ASSUME NEW c \in Cancelers, CancelWrite(c)
      PROVE IInv'
  BY <1>t, <1>24, ConstantsAssumption DEF CancelWrite
<1>25. ASSUME NEW t \in Tasks, UpdateTaskStatus(t)
      PROVE IInv'
  BY <1>t, <1>25, ConstantsAssumption DEF UpdateTaskStatus
<1>26. ASSUME NEW t \in Tasks, PassGate(t)
      PROVE IInv'
  BY <1>t, <1>26, ConstantsAssumption DEF PassGate
<1>27. CASE UNCHANGED vars
  BY <1>27 DEF vars
<1> HIDE DEF IInv
<1> QED
  BY <1>1, <1>2, <1>3, <1>4, <1>5, <1>6, <1>7, <1>8, <1>9, <1>10, <1>11,
     <1>11a, <1>12, <1>13, <1>14, <1>15, <1>16, <1>17, <1>18, <1>19, <1>20,
     <1>21, <1>22, <1>23, <1>24, <1>25, <1>26, <1>27
  DEF Next, PreparerStep, WorkerStep, IngestStep

(* Every reachable state satisfies the inductive invariant: a session is   *)
(* held by one worker slot at a time, and untouched until it is claimed.   *)
THEOREM Invariant == Spec => []IInv
  BY InvInit, InvStep, PTL DEF Spec
(* However many workers poll, crash and restart, however many forms are    *)
(* submitted and sessions cancelled meanwhile, no agent is launched twice  *)
(* on a session.                                                           *)
THEOREM AgentRunsAtMostOnce == Spec => []AgentRunsOnce
  BY Invariant, PTL DEF IInv

---------------------------------------------------------------------------
(* While nobody cancels, the creator's session stays queued until it is    *)
(* prepared, and a task has one live session.                              *)
LiveInv ==
    /\ AtMostOneLiveSession
    /\ \A p \in Preparers, s \in Sessions : Owns(p, s) => status[s] = "queued"

(* A preparation that ends gives its session up and takes no other.        *)
LEMMA EndPrepDisowns ==
  ASSUME prepAt \in [Preparers -> {"idle", "selected", "assess", "create",
                                   "created", "brief"}],
         NEW p \in Preparers, EndPrep(p)
  PROVE  \A q \in Preparers, s \in Sessions : Owns(q, s)' => Owns(q, s) /\ q # p
<1> SUFFICES ASSUME NEW q \in Preparers, NEW s \in Sessions, Owns(q, s)'
             PROVE  Owns(q, s) /\ q # p
  OBVIOUS
<1>1. q # p
  BY DEF EndPrep, Owns
<1>2. prepAt'[q] = prepAt[q] /\ prepSess'[q] = prepSess[q]
  BY <1>1 DEF EndPrep
<1> QED
  BY <1>1, <1>2 DEF Owns

(* A step of anyone but a canceler keeps a task's sessions but one out of  *)
(* the live statuses: the check is inside the creating transaction.        *)
LEMMA LiveStep ==
  ASSUME Cancelers = {}, IInv, LiveInv, [Next]_vars
  PROVE  LiveInv'
<1>t. TypeOK /\ TypeOK'
  BY TypeStep DEF IInv
<1> USE DEF TypeOK, rows, prep, job, Preparers, Ingesters, LiveInv,
    AtMostOneLiveSession, Owns, Live
<1>1. ASSUME NEW d \in Drivers, NEW t \in Tasks, SelectTask(d, t)
      PROVE LiveInv'
  BY <1>t, <1>1 DEF SelectTask
<1>2. ASSUME NEW r \in Requests, NEW t \in Tasks, RequestExecution(r, t)
      PROVE LiveInv'
  BY <1>t, <1>2 DEF RequestExecution
<1>3. ASSUME NEW p \in Preparers, FindLiveSession(p)
      PROVE LiveInv'
  <2>1. UNCHANGED <<status, taskOf>>
    BY <1>3 DEF FindLiveSession
  <2>2. \A q \in Preparers, s \in Sessions : Owns(q, s)' => Owns(q, s)
    BY <1>t, <1>3 DEF FindLiveSession, GotoPrep, EndPrep
  <2> QED
    BY <2>1, <2>2
<1>4. ASSUME NEW p \in Preparers, AssessAttempt(p)
      PROVE LiveInv'
  <2>1. \/ UNCHANGED <<status, taskOf, prepSess>>
        \/ EndPrep(p) /\ UNCHANGED <<status, taskOf>>
    BY <1>4 DEF AssessAttempt, GotoPrep
  <2>2. \A q \in Preparers, s \in Sessions : Owns(q, s)' => Owns(q, s)
    BY <1>t, <1>4 DEF AssessAttempt, GotoPrep, EndPrep
  <2> QED
    BY <2>1, <2>2 DEF EndPrep
<1>5. ASSUME NEW p \in Preparers, CreateExecutionSession(p)
      PROVE LiveInv'
  <2>1. CASE ~MayCreate(prepTask[p])
    <3>1. UNCHANGED <<status, taskOf>> /\ EndPrep(p)
      BY <1>5, <2>1 DEF CreateExecutionSession
    <3>2. \A q \in Preparers, s \in Sessions : Owns(q, s)' => Owns(q, s)
      BY <1>t, <3>1, EndPrepDisowns
    <3> QED
      BY <3>1, <3>2
  <2>2. CASE MayCreate(prepTask[p])
    <3> DEFINE n == created + 1
    <3>1. n \in Sessions /\ status[n] = "absent"
      BY <1>t, <1>5, <2>2, ConstantsAssumption
      DEF CreateExecutionSession, IInv, AbsentAfterCreated, Sessions
    <3>2. /\ status' = [status EXCEPT ![n] = "queued"]
          /\ taskOf' = [taskOf EXCEPT ![n] = prepTask[p]]
          /\ prepAt' = [prepAt EXCEPT ![p] = "created"]
          /\ prepSess' = [prepSess EXCEPT ![p] = n]
      BY <1>5, <2>2 DEF CreateExecutionSession
    <3> HIDE DEF n
    <3>3. \A s \in Sessions : status[s] \in Live => taskOf[s] # prepTask[p]
      BY <2>2 DEF MayCreate, LiveOn
    <3>4. AtMostOneLiveSession'
      BY <1>t, <3>1, <3>2, <3>3
    <3>5. \A q \in Preparers, s \in Sessions : Owns(q, s) => s # n
      BY <3>1
    <3>6. \A q \in Preparers, s \in Sessions : Owns(q, s)' => Owns(q, s) \/ s = n
      BY <1>t, <3>2
    <3>7. ASSUME NEW q \in Preparers, NEW s \in Sessions, Owns(q, s)'
          PROVE  status'[s] = "queued"
      <4>1. CASE s = n
        BY <1>t, <3>1, <3>2, <4>1
      <4>2. CASE s # n
        <5>1. Owns(q, s)
          BY <3>6, <3>7, <4>2
        <5>2. status[s] = "queued"
          BY <5>1
        <5> QED
          BY <1>t, <3>2, <4>2, <5>2
      <4> QED
        BY <4>1, <4>2
    <3> QED
      BY <3>4, <3>7
  <2> QED
    BY <2>1, <2>2
<1>6. ASSUME NEW p \in Preparers, PrepareRead(p)
      PROVE LiveInv'
  <2>1. UNCHANGED <<status, taskOf>>
    BY <1>6 DEF PrepareRead
  <2>2. \A q \in Preparers, s \in Sessions : Owns(q, s)' => Owns(q, s)
    BY <1>t, <1>6 DEF PrepareRead, GotoPrep, EndPrep
  <2> QED
    BY <2>1, <2>2
<1>7. ASSUME NEW p \in Preparers, PrepareWrite(p)
      PROVE LiveInv'
  <2>1. status[prepSess[p]] = "queued" /\ Owns(p, prepSess[p])
    BY <1>t, <1>7 DEF PrepareWrite
  <2>2. AtMostOneLiveSession'
    BY <1>t, <1>7, <2>1 DEF PrepareWrite
  <2>3. EndPrep(p) /\ status' = [status EXCEPT ![prepSess[p]] = "prepared"]
    BY <1>7 DEF PrepareWrite
  <2>4. ASSUME NEW q \in Preparers, NEW s \in Sessions, Owns(q, s)'
        PROVE  status'[s] = "queued"
    <3>1. Owns(q, s) /\ q # p
      BY <1>t, <2>3, <2>4, EndPrepDisowns
    <3>2. s # prepSess[p]
      BY <2>1, <3>1 DEF IInv, UntouchedUntilClaimed
    <3>3. status[s] = "queued"
      BY <3>1
    <3> QED
      BY <1>t, <2>3, <3>2, <3>3
  <2> QED
    BY <2>2, <2>4
<1>8. ASSUME NEW p \in Preparers, CrashPreparer(p)
      PROVE LiveInv'
  <2>1. UNCHANGED <<status, taskOf>>
    BY <1>8 DEF CrashPreparer
  <2>2. \A q \in Preparers, s \in Sessions : Owns(q, s)' => Owns(q, s)
    BY <1>t, <1>8, EndPrepDisowns DEF CrashPreparer
  <2> QED
    BY <2>1, <2>2
<1>9. ASSUME NEW w \in Workers, FindPrepared(w)
      PROVE LiveInv'
  BY <1>t, <1>9 DEF FindPrepared, Prepared
<1>10. ASSUME NEW w \in Workers, ClaimNextSession(w)
      PROVE LiveInv'
  BY <1>t, <1>10 DEF ClaimNextSession, Claimable, GotoJob, EndJob, IInv,
      UntouchedUntilClaimed
<1>11. ASSUME NEW w \in Workers, FailPreflight(w)
      PROVE LiveInv'
  BY <1>t, <1>11 DEF FailPreflight, GotoJob
<1>11a. ASSUME NEW w \in Workers, HaltForSpend(w)
      PROVE LiveInv'
  BY <1>t, <1>11a DEF HaltForSpend, GotoJob
<1>12. ASSUME NEW w \in Workers, LaunchAgent(w)
      PROVE LiveInv'
  BY <1>t, <1>12 DEF LaunchAgent, GotoJob
<1>13. ASSUME NEW w \in Workers, FinishAgent(w)
      PROVE LiveInv'
  BY <1>t, <1>13 DEF FinishAgent
<1>14. ASSUME NEW w \in Workers, AbortAgent(w)
      PROVE LiveInv'
  BY <1>t, <1>14 DEF AbortAgent, GotoJob
<1>15. ASSUME NEW w \in Workers, ReleaseSession(w)
      PROVE LiveInv'
  BY <1>t, <1>15 DEF ReleaseSession, EndJob, IInv, UntouchedUntilClaimed, Untouched,
      Holds, Holding
<1>16. ASSUME NEW f \in Forms, NEW s \in Sessions, NEW v \in Verdicts,
              SubmitForm(f, s, v)
      PROVE LiveInv'
  BY <1>t, <1>16 DEF SubmitForm
<1>17. ASSUME NEW a \in Ingesters, IngestRead(a)
      PROVE LiveInv'
  BY <1>t, <1>17 DEF IngestRead, Throw, GotoJob, EndJob, Terminal
<1>18. ASSUME NEW a \in Ingesters, IngestCommit(a)
      PROVE LiveInv'
  <2>1. jobSess[a] \in Sessions /\ jobVerdict[a] \notin Live
    BY <1>t, <1>18 DEF IngestCommit, Verdicts
  <2>2. CASE ResultWritten(jobSess[a], jobSeen[a])
    <3>1. /\ status' = [status EXCEPT ![jobSess[a]] = jobVerdict[a]]
          /\ UNCHANGED <<taskOf, prep>>
      BY <1>18, <2>2 DEF IngestCommit
    <3>2. \A p \in Preparers : ~Owns(p, jobSess[a])
      BY <1>t, <1>18, <2>1, <2>2
      DEF IngestCommit, ResultWritten, IInv, JobsOK, UntouchedUntilClaimed
    <3>3. AtMostOneLiveSession'
      BY <1>t, <2>1, <3>1
    <3> QED
      BY <1>t, <2>1, <3>1, <3>2, <3>3
  <2>3. CASE ~ResultWritten(jobSess[a], jobSeen[a])
    BY <1>18, <2>3 DEF IngestCommit
  <2> QED
    BY <2>2, <2>3
<1>19. ASSUME NEW a \in Ingesters, MarkTask(a)
      PROVE LiveInv'
  BY <1>t, <1>19 DEF MarkTask, EndJob
<1>20. ASSUME NEW a \in Ingesters, MarkTaskFails(a)
      PROVE LiveInv'
  BY <1>t, <1>20 DEF MarkTaskFails, Throw, GotoJob, EndJob
<1>21. ASSUME NEW a \in Ingesters, CrashIngester(a)
      PROVE LiveInv'
  BY <1>t, <1>21 DEF CrashIngester, EndJob
<1>22. ASSUME NEW s \in Sessions, ReapStaleSession(s)
      PROVE LiveInv'
  BY <1>t, <1>22 DEF ReapStaleSession, Stale, IInv, UntouchedUntilClaimed
<1>23. ASSUME NEW c \in Cancelers, NEW s \in Sessions, CancelRead(c, s)
      PROVE LiveInv'
  BY <1>23
<1>24. ASSUME NEW c \in Cancelers, CancelWrite(c)
      PROVE LiveInv'
  BY <1>24
<1>25. ASSUME NEW t \in Tasks, UpdateTaskStatus(t)
      PROVE LiveInv'
  BY <1>t, <1>25 DEF UpdateTaskStatus
<1>26. ASSUME NEW t \in Tasks, PassGate(t)
      PROVE LiveInv'
  BY <1>t, <1>26 DEF PassGate
<1>27. CASE UNCHANGED vars
  BY <1>t, <1>27 DEF vars
<1> HIDE DEF LiveInv
<1> QED
  BY <1>1, <1>2, <1>3, <1>4, <1>5, <1>6, <1>7, <1>8, <1>9, <1>10, <1>11,
     <1>11a, <1>12, <1>13, <1>14, <1>15, <1>16, <1>17, <1>18, <1>19, <1>20,
     <1>21, <1>22, <1>23, <1>24, <1>25, <1>26, <1>27
  DEF Next, PreparerStep, WorkerStep, IngestStep

(* While nobody cancels a session, a task never has two live ones, however *)
(* many drivers and requests prepare it at once and whoever crashes.       *)
THEOREM OneLiveSession ==
  ASSUME Cancelers = {} PROVE Spec => []AtMostOneLiveSession
<1>1. Init => LiveInv
  BY DEF Init, LiveInv, AtMostOneLiveSession, Owns, Live, Preparers
<1>2. IInv /\ LiveInv /\ [Next]_vars => LiveInv'
  BY LiveStep
<1>3. LiveInv => AtMostOneLiveSession
  BY DEF LiveInv
<1> QED
  BY <1>1, <1>2, <1>3, Invariant, PTL DEF Spec
---------------------------------------------------------------------------
(* While only workers ingest, a result is written over "running" alone and *)
(* stands until the task has followed it.                                  *)
WorkerInv ==
    /\ \A w \in Workers : jobAt[w] = "commit" => jobSeen[w] # "prepared"
    /\ ResultStands

(* While the workers alone ingest, the conditional write of a result finds *)
(* the session running, and nobody touches it until the task has followed. *)
LEMMA WorkerStepInv ==
  ASSUME Cancelers = {}, Forms = {}, IInv, LiveInv, WorkerInv, [Next]_vars
  PROVE  WorkerInv'
<1>t. TypeOK /\ TypeOK' /\ Ingesters = Workers
  BY TypeStep DEF IInv, Ingesters
<1>h. ASSUME NEW w \in Workers, jobAt[w] \in Holding
      PROVE  /\ jobSess[w] \in Sessions
             /\ status[jobSess[w]] \notin {"absent", "queued", "prepared"}
             /\ \A v \in Workers : jobAt[v] \in Holding /\ jobSess[v] = jobSess[w]
                 => v = w
             /\ \A p \in Preparers : ~(/\ prepAt[p] \in {"created", "brief"}
                                     /\ prepSess[p] = jobSess[w])
  BY <1>t, <1>h DEF IInv, UntouchedUntilClaimed, Untouched, Owns, OneHolder, Holds,
      TypeOK, Holding, Ingesters
<1> USE DEF TypeOK, rows, prep, job, WorkerInv, ResultStands, Holding
<1>1. ASSUME NEW d \in Drivers, NEW t \in Tasks, SelectTask(d, t)
      PROVE WorkerInv'
  BY <1>t, <1>h, <1>1 DEF SelectTask
<1>2. ASSUME NEW r \in Requests, NEW t \in Tasks, RequestExecution(r, t)
      PROVE WorkerInv'
  BY <1>t, <1>h, <1>2 DEF RequestExecution
<1>3. ASSUME NEW p \in Preparers, FindLiveSession(p)
      PROVE WorkerInv'
  BY <1>t, <1>h, <1>3 DEF FindLiveSession, GotoPrep, EndPrep
<1>4. ASSUME NEW p \in Preparers, AssessAttempt(p)
      PROVE WorkerInv'
  BY <1>t, <1>h, <1>4 DEF AssessAttempt, GotoPrep, EndPrep
<1>5. ASSUME NEW p \in Preparers, CreateExecutionSession(p)
      PROVE WorkerInv'
  <2>1. CASE MayCreate(prepTask[p])
    <3>1. /\ status[created + 1] = "absent"
          /\ status' = [status EXCEPT ![created + 1] = "queued"]
          /\ UNCHANGED job
      BY <1>t, <1>5, <2>1, ConstantsAssumption
      DEF CreateExecutionSession, IInv, AbsentAfterCreated, Sessions
    <3>2. \A v \in Workers : jobAt[v] \in Holding => jobSess[v] # created + 1
      BY <1>h, <3>1
    <3> QED
      BY <1>t, <3>1, <3>2
  <2>2. CASE ~MayCreate(prepTask[p])
    BY <1>t, <1>5, <2>2 DEF CreateExecutionSession
  <2> QED
    BY <2>1, <2>2
<1>6. ASSUME NEW p \in Preparers, PrepareRead(p)
      PROVE WorkerInv'
  BY <1>t, <1>h, <1>6 DEF PrepareRead, GotoPrep, EndPrep, AwaitsBrief
<1>7. ASSUME NEW p \in Preparers, PrepareWrite(p)
      PROVE WorkerInv'
  BY <1>t, <1>h, <1>7 DEF PrepareWrite, EndPrep
<1>8. ASSUME NEW p \in Preparers, CrashPreparer(p)
      PROVE WorkerInv'
  BY <1>t, <1>h, <1>8 DEF CrashPreparer, EndPrep
<1>9. ASSUME NEW w \in Workers, FindPrepared(w)
      PROVE WorkerInv'
  BY <1>t, <1>h, <1>9 DEF FindPrepared, Prepared
<1>10. ASSUME NEW w \in Workers, ClaimNextSession(w)
      PROVE WorkerInv'
  <2>1. CASE Claimable(jobSess[w])
    <3>1. /\ status' = [status EXCEPT ![jobSess[w]] = "running"]
          /\ jobAt' = [jobAt EXCEPT ![w] = "claimed"]
          /\ UNCHANGED <<jobSess, jobSeen, jobVerdict>>
      BY <1>10, <2>1 DEF ClaimNextSession, GotoJob
    <3>2. \A v \in Workers : jobAt[v] \in Holding => jobSess[v] # jobSess[w]
      BY <1>h, <2>1 DEF Claimable
    <3> QED
      BY <1>t, <3>1, <3>2
  <2>2. CASE ~Claimable(jobSess[w])
    <3>1. /\ jobAt' = [jobAt EXCEPT ![w] = "idle"]
          /\ jobSess' = [jobSess EXCEPT ![w] = NoSession]
          /\ jobSeen' = [jobSeen EXCEPT ![w] = "none"]
          /\ jobVerdict' = [jobVerdict EXCEPT ![w] = "none"]
          /\ UNCHANGED status
      BY <1>10, <2>2 DEF ClaimNextSession, EndJob
    <3> QED
      BY <1>t, <3>1
  <2> QED
    BY <2>1, <2>2
<1>11. ASSUME NEW w \in Workers, FailPreflight(w)
      PROVE WorkerInv'
  BY <1>t, <1>h, <1>11 DEF FailPreflight, GotoJob
<1>11a. ASSUME NEW w \in Workers, HaltForSpend(w)
      PROVE WorkerInv'
  BY <1>t, <1>h, <1>11a DEF HaltForSpend, GotoJob
<1>12. ASSUME NEW w \in Workers, LaunchAgent(w)
      PROVE WorkerInv'
  BY <1>t, <1>h, <1>12 DEF LaunchAgent, GotoJob
<1>13. ASSUME NEW w \in Workers, FinishAgent(w)
      PROVE WorkerInv'
  BY <1>t, <1>h, <1>13 DEF FinishAgent
<1>14. ASSUME NEW w \in Workers, AbortAgent(w)
      PROVE WorkerInv'
  BY <1>t, <1>h, <1>14 DEF AbortAgent, GotoJob
<1>15. ASSUME NEW w \in Workers, ReleaseSession(w)
      PROVE WorkerInv'
  BY <1>t, <1>h, <1>15 DEF ReleaseSession, EndJob
<1>16. ASSUME NEW f \in Forms, NEW s \in Sessions, NEW v \in Verdicts,
              SubmitForm(f, s, v)
      PROVE WorkerInv'
  BY <1>16
<1>17. ASSUME NEW a \in Ingesters, IngestRead(a)
      PROVE WorkerInv'
  BY <1>t, <1>h, <1>17 DEF IngestRead, Throw, GotoJob, EndJob, Terminal
<1>18. ASSUME NEW a \in Ingesters, IngestCommit(a)
      PROVE WorkerInv'
  BY <1>t, <1>h, <1>18 DEF IngestCommit, ResultWritten, Throw, Verdicts, GotoJob,
      EndJob
<1>19. ASSUME NEW a \in Ingesters, MarkTask(a)
      PROVE WorkerInv'
  BY <1>t, <1>h, <1>19 DEF MarkTask, EndJob
<1>20. ASSUME NEW a \in Ingesters, MarkTaskFails(a)
      PROVE WorkerInv'
  BY <1>t, <1>h, <1>20 DEF MarkTaskFails, Throw, GotoJob, EndJob
<1>21. ASSUME NEW a \in Ingesters, CrashIngester(a)
      PROVE WorkerInv'
  BY <1>t, <1>h, <1>21 DEF CrashIngester, EndJob
<1>22. ASSUME NEW s \in Sessions, ReapStaleSession(s)
      PROVE WorkerInv'
  <2>1. /\ status[s] = "running"
        /\ status' = [status EXCEPT ![s] = "failed"]
        /\ UNCHANGED job
    BY <1>22 DEF ReapStaleSession, Stale
  <2>2. \A v \in Workers : jobAt[v] = "mark" => jobSess[v] # s
    <3> SUFFICES ASSUME NEW v \in Workers, jobAt[v] = "mark", jobSess[v] = s
                 PROVE FALSE
      OBVIOUS
    <3>1. jobVerdict[v] \in Verdicts
      BY <1>t
    <3>2. jobVerdict[v] = status[s]
      BY <1>t
    <3> QED
      BY <2>1, <3>1, <3>2 DEF Verdicts
  <2> QED
    BY <1>t, <2>1, <2>2
<1>23. ASSUME NEW c \in Cancelers, NEW s \in Sessions, CancelRead(c, s)
      PROVE WorkerInv'
  BY <1>23
<1>24. ASSUME NEW c \in Cancelers, CancelWrite(c)
      PROVE WorkerInv'
  BY <1>24
<1>25. ASSUME NEW t \in Tasks, UpdateTaskStatus(t)
      PROVE WorkerInv'
  BY <1>t, <1>h, <1>25 DEF UpdateTaskStatus
<1>26. ASSUME NEW t \in Tasks, PassGate(t)
      PROVE WorkerInv'
  BY <1>t, <1>h, <1>26 DEF PassGate
<1>27. CASE UNCHANGED vars
  BY <1>t, <1>h, <1>27 DEF vars
<1> HIDE DEF WorkerInv
<1> QED
  BY <1>1, <1>2, <1>3, <1>4, <1>5, <1>6, <1>7, <1>8, <1>9, <1>10, <1>11,
     <1>11a, <1>12, <1>13, <1>14, <1>15, <1>16, <1>17, <1>18, <1>19, <1>20,
     <1>21, <1>22, <1>23, <1>24, <1>25, <1>26, <1>27
  DEF Next, PreparerStep, WorkerStep, IngestStep

(* While nobody cancels a session and only workers record results, a       *)
(* result stands until the task has followed it, even when the reaper      *)
(* strikes a live worker's session.                                        *)
THEOREM ResultsStand ==
  ASSUME Cancelers = {}, Forms = {} PROVE Spec => []ResultStands
<1>1. Init => LiveInv /\ WorkerInv
  BY DEF Init, LiveInv, AtMostOneLiveSession, Owns, Live, Preparers, WorkerInv,
      ResultStands, Ingesters
<1>2. IInv /\ LiveInv /\ WorkerInv /\ [Next]_vars => LiveInv' /\ WorkerInv'
  BY LiveStep, WorkerStepInv
<1>3. WorkerInv => ResultStands
  BY DEF WorkerInv
<1> QED
  BY <1>1, <1>2, <1>3, Invariant, PTL DEF Spec

(* Without cancellations and manual results, no step takes a failed        *)
(* session to another status.                                              *)
LEMMA FailedStep ==
  ASSUME Cancelers = {}, Forms = {}, IInv, LiveInv, WorkerInv, [Next]_vars,
         NEW x \in Sessions, status[x] = "failed"
  PROVE  status'[x] = "failed"
<1>t. TypeOK /\ Ingesters = Workers
  BY DEF IInv, Ingesters
<1> USE DEF TypeOK, rows
<1>1. ASSUME NEW d \in Drivers, NEW t \in Tasks, SelectTask(d, t)
      PROVE status'[x] = "failed"
  BY <1>t, <1>1 DEF SelectTask
<1>2. ASSUME NEW r \in Requests, NEW t \in Tasks, RequestExecution(r, t)
      PROVE status'[x] = "failed"
  BY <1>t, <1>2 DEF RequestExecution
<1>3. ASSUME NEW p \in Preparers, FindLiveSession(p)
      PROVE status'[x] = "failed"
  BY <1>t, <1>3 DEF FindLiveSession, GotoPrep, EndPrep
<1>4. ASSUME NEW p \in Preparers, AssessAttempt(p)
      PROVE status'[x] = "failed"
  BY <1>t, <1>4 DEF AssessAttempt, GotoPrep, EndPrep
<1>5. ASSUME NEW p \in Preparers, CreateExecutionSession(p)
      PROVE status'[x] = "failed"
  <2>1. CASE MayCreate(prepTask[p])
    <3>1. x <= created
      BY <1>t, <1>5, ConstantsAssumption DEF IInv, AbsentAfterCreated, Sessions
    <3> QED
      BY <1>t, <1>5, <2>1, <3>1, ConstantsAssumption DEF CreateExecutionSession,
          Sessions
  <2>2. CASE ~MayCreate(prepTask[p])
    BY <1>t, <1>5, <2>2 DEF CreateExecutionSession
  <2> QED
    BY <2>1, <2>2
<1>6. ASSUME NEW p \in Preparers, PrepareRead(p)
      PROVE status'[x] = "failed"
  BY <1>t, <1>6 DEF PrepareRead, GotoPrep, EndPrep, AwaitsBrief
<1>7. ASSUME NEW p \in Preparers, PrepareWrite(p)
      PROVE status'[x] = "failed"
  BY <1>t, <1>7 DEF PrepareWrite, LiveInv, Owns
<1>8. ASSUME NEW p \in Preparers, CrashPreparer(p)
      PROVE status'[x] = "failed"
  BY <1>t, <1>8 DEF CrashPreparer, EndPrep
<1>9. ASSUME NEW w \in Workers, FindPrepared(w)
      PROVE status'[x] = "failed"
  BY <1>t, <1>9 DEF FindPrepared, Prepared
<1>10. ASSUME NEW w \in Workers, ClaimNextSession(w)
      PROVE status'[x] = "failed"
  BY <1>t, <1>10 DEF ClaimNextSession, Claimable, GotoJob, EndJob
<1>11. ASSUME NEW w \in Workers, FailPreflight(w)
      PROVE status'[x] = "failed"
  BY <1>t, <1>11 DEF FailPreflight, GotoJob
<1>11a. ASSUME NEW w \in Workers, HaltForSpend(w)
      PROVE status'[x] = "failed"
  BY <1>t, <1>11a DEF HaltForSpend, GotoJob
<1>12. ASSUME NEW w \in Workers, LaunchAgent(w)
      PROVE status'[x] = "failed"
  BY <1>t, <1>12 DEF LaunchAgent, GotoJob
<1>13. ASSUME NEW w \in Workers, FinishAgent(w)
      PROVE status'[x] = "failed"
  BY <1>t, <1>13 DEF FinishAgent
<1>14. ASSUME NEW w \in Workers, AbortAgent(w)
      PROVE status'[x] = "failed"
  BY <1>t, <1>14 DEF AbortAgent, GotoJob
<1>15. ASSUME NEW w \in Workers, ReleaseSession(w)
      PROVE status'[x] = "failed"
  BY <1>t, <1>15 DEF ReleaseSession, EndJob
<1>16. ASSUME NEW f \in Forms, NEW s \in Sessions, NEW v \in Verdicts,
              SubmitForm(f, s, v)
      PROVE status'[x] = "failed"
  BY <1>16
<1>17. ASSUME NEW a \in Ingesters, IngestRead(a)
      PROVE status'[x] = "failed"
  BY <1>t, <1>17 DEF IngestRead, Throw, GotoJob, EndJob, Terminal
<1>18. ASSUME NEW a \in Ingesters, IngestCommit(a)
      PROVE status'[x] = "failed"
  BY <1>t, <1>18 DEF IngestCommit, ResultWritten, WorkerInv
<1>19. ASSUME NEW a \in Ingesters, MarkTask(a)
      PROVE status'[x] = "failed"
  BY <1>t, <1>19 DEF MarkTask, EndJob
<1>20. ASSUME NEW a \in Ingesters, MarkTaskFails(a)
      PROVE status'[x] = "failed"
  BY <1>t, <1>20 DEF MarkTaskFails, Throw, GotoJob, EndJob
<1>21. ASSUME NEW a \in Ingesters, CrashIngester(a)
      PROVE status'[x] = "failed"
  BY <1>t, <1>21 DEF CrashIngester, EndJob
<1>22. ASSUME NEW s \in Sessions, ReapStaleSession(s)
      PROVE status'[x] = "failed"
  BY <1>t, <1>22 DEF ReapStaleSession, Stale, HeldBy
<1>23. ASSUME NEW c \in Cancelers, NEW s \in Sessions, CancelRead(c, s)
      PROVE status'[x] = "failed"
  BY <1>23
<1>24. ASSUME NEW c \in Cancelers, CancelWrite(c)
      PROVE status'[x] = "failed"
  BY <1>24
<1>25. ASSUME NEW t \in Tasks, UpdateTaskStatus(t)
      PROVE status'[x] = "failed"
  BY <1>t, <1>25 DEF UpdateTaskStatus
<1>26. ASSUME NEW t \in Tasks, PassGate(t)
      PROVE status'[x] = "failed"
  BY <1>t, <1>26 DEF PassGate
<1>27. CASE UNCHANGED vars
  BY <1>t, <1>27 DEF vars
<1> QED
  BY <1>1, <1>2, <1>3, <1>4, <1>5, <1>6, <1>7, <1>8, <1>9, <1>10, <1>11,
     <1>11a, <1>12, <1>13, <1>14, <1>15, <1>16, <1>17, <1>18, <1>19, <1>20,
     <1>21, <1>22, <1>23, <1>24, <1>25, <1>26, <1>27
  DEF Next, PreparerStep, WorkerStep, IngestStep

(* While nobody cancels a session and only workers record results, a       *)
(* failed session stays failed: the worker the reaper gave up does not     *)
(* record its late result.                                                 *)
THEOREM FailedStaysFailed ==
  ASSUME Cancelers = {}, Forms = {} PROVE Spec => FailedIsFinal
<1>1. Init => LiveInv /\ WorkerInv
  BY DEF Init, LiveInv, AtMostOneLiveSession, Owns, Live, Preparers, WorkerInv,
      ResultStands, Ingesters
<1>2. IInv /\ LiveInv /\ WorkerInv /\ [Next]_vars => LiveInv' /\ WorkerInv'
  BY LiveStep, WorkerStepInv
<1>3. IInv /\ LiveInv /\ WorkerInv /\ [Next]_vars
      => [\A s \in Sessions : status[s] = "failed" => status'[s] = "failed"]_vars
  BY FailedStep
<1> QED
  BY <1>1, <1>2, <1>3, Invariant, PTL DEF Spec, FailedIsFinal
---------------------------------------------------------------------------
(* As long as no worker outlives the reaper's grace, the session a worker  *)
(* works on is running.                                                    *)
RunningInv ==
    \A w \in Workers :
        jobAt[w] \in {"claimed", "agent", "ingest", "commit"}
            => status[jobSess[w]] = "running"

(* While no worker outlives the grace, the session of a worker at its      *)
(* agent is running: neither the reaper nor another worker takes it.       *)
LEMMA RunningStep ==
  ASSUME Cancelers = {}, Forms = {}, "overrun" \notin Faults,
         IInv, LiveInv, RunningInv, [Next]_vars
  PROVE  RunningInv'
<1>t. TypeOK /\ TypeOK' /\ Ingesters = Workers
  BY TypeStep DEF IInv, Ingesters
<1>h. ASSUME NEW w \in Workers, jobAt[w] \in Holding
      PROVE  /\ jobSess[w] \in Sessions
             /\ status[jobSess[w]] # "absent"
             /\ \A v \in Workers : jobAt[v] \in Holding /\ jobSess[v] = jobSess[w]
                 => v = w
  BY <1>t, <1>h DEF IInv, UntouchedUntilClaimed, Untouched, OneHolder, Holds,
      TypeOK, Holding, Ingesters
<1> USE DEF TypeOK, rows, prep, job, RunningInv, Holding
<1>1. ASSUME NEW d \in Drivers, NEW t \in Tasks, SelectTask(d, t)
      PROVE RunningInv'
  BY <1>t, <1>h, <1>1 DEF SelectTask
<1>2. ASSUME NEW r \in Requests, NEW t \in Tasks, RequestExecution(r, t)
      PROVE RunningInv'
  BY <1>t, <1>h, <1>2 DEF RequestExecution
<1>3. ASSUME NEW p \in Preparers, FindLiveSession(p)
      PROVE RunningInv'
  BY <1>t, <1>h, <1>3 DEF FindLiveSession, GotoPrep, EndPrep
<1>4. ASSUME NEW p \in Preparers, AssessAttempt(p)
      PROVE RunningInv'
  BY <1>t, <1>h, <1>4 DEF AssessAttempt, GotoPrep, EndPrep
<1>5. ASSUME NEW p \in Preparers, CreateExecutionSession(p)
      PROVE RunningInv'
  <2>1. CASE MayCreate(prepTask[p])
    <3>1. /\ status[created + 1] = "absent"
          /\ status' = [status EXCEPT ![created + 1] = "queued"]
          /\ UNCHANGED job
      BY <1>t, <1>5, <2>1, ConstantsAssumption
      DEF CreateExecutionSession, IInv, AbsentAfterCreated, Sessions
    <3>2. \A v \in Workers : jobAt[v] \in Holding => jobSess[v] # created + 1
      BY <1>h, <3>1
    <3> QED
      BY <1>t, <3>1, <3>2
  <2>2. CASE ~MayCreate(prepTask[p])
    BY <1>t, <1>5, <2>2 DEF CreateExecutionSession
  <2> QED
    BY <2>1, <2>2
<1>6. ASSUME NEW p \in Preparers, PrepareRead(p)
      PROVE RunningInv'
  BY <1>t, <1>h, <1>6 DEF PrepareRead, GotoPrep, EndPrep, AwaitsBrief
<1>7. ASSUME NEW p \in Preparers, PrepareWrite(p)
      PROVE RunningInv'
  BY <1>t, <1>h, <1>7 DEF PrepareWrite, LiveInv, Owns
<1>8. ASSUME NEW p \in Preparers, CrashPreparer(p)
      PROVE RunningInv'
  BY <1>t, <1>h, <1>8 DEF CrashPreparer, EndPrep
<1>9. ASSUME NEW w \in Workers, FindPrepared(w)
      PROVE RunningInv'
  BY <1>t, <1>h, <1>9 DEF FindPrepared, Prepared
<1>10. ASSUME NEW w \in Workers, ClaimNextSession(w)
      PROVE RunningInv'
  <2>1. CASE Claimable(jobSess[w])
    <3>1. /\ status' = [status EXCEPT ![jobSess[w]] = "running"]
          /\ UNCHANGED jobSess /\ jobAt' = [jobAt EXCEPT ![w] = "claimed"]
      BY <1>10, <2>1 DEF ClaimNextSession, GotoJob
    <3>2. jobSess[w] \in Sessions
      BY <1>t, <1>10 DEF ClaimNextSession
    <3> QED
      BY <1>t, <3>1, <3>2
  <2>2. CASE ~Claimable(jobSess[w])
    <3>1. /\ jobAt' = [jobAt EXCEPT ![w] = "idle"]
          /\ jobSess' = [jobSess EXCEPT ![w] = NoSession]
          /\ UNCHANGED status
      BY <1>10, <2>2 DEF ClaimNextSession, EndJob
    <3> QED
      BY <1>t, <3>1
  <2> QED
    BY <2>1, <2>2
<1>11. ASSUME NEW w \in Workers, FailPreflight(w)
      PROVE RunningInv'
  BY <1>t, <1>h, <1>11 DEF FailPreflight, GotoJob
<1>11a. ASSUME NEW w \in Workers, HaltForSpend(w)
      PROVE RunningInv'
  BY <1>t, <1>h, <1>11a DEF HaltForSpend, GotoJob
<1>12. ASSUME NEW w \in Workers, LaunchAgent(w)
      PROVE RunningInv'
  BY <1>t, <1>h, <1>12 DEF LaunchAgent, GotoJob
<1>13. ASSUME NEW w \in Workers, FinishAgent(w)
      PROVE RunningInv'
  BY <1>t, <1>h, <1>13 DEF FinishAgent
<1>14. ASSUME NEW w \in Workers, AbortAgent(w)
      PROVE RunningInv'
  BY <1>t, <1>h, <1>14 DEF AbortAgent, GotoJob
<1>15. ASSUME NEW w \in Workers, ReleaseSession(w)
      PROVE RunningInv'
  BY <1>t, <1>h, <1>15 DEF ReleaseSession, EndJob
<1>16. ASSUME NEW f \in Forms, NEW s \in Sessions, NEW v \in Verdicts,
              SubmitForm(f, s, v)
      PROVE RunningInv'
  BY <1>16
<1>17. ASSUME NEW a \in Ingesters, IngestRead(a)
      PROVE RunningInv'
  BY <1>t, <1>h, <1>17 DEF IngestRead, Throw, GotoJob, EndJob, Terminal
<1>18. ASSUME NEW a \in Ingesters, IngestCommit(a)
      PROVE RunningInv'
  BY <1>t, <1>h, <1>18 DEF IngestCommit, ResultWritten, Throw, Verdicts, GotoJob,
      EndJob
<1>19. ASSUME NEW a \in Ingesters, MarkTask(a)
      PROVE RunningInv'
  BY <1>t, <1>h, <1>19 DEF MarkTask, EndJob
<1>20. ASSUME NEW a \in Ingesters, MarkTaskFails(a)
      PROVE RunningInv'
  BY <1>t, <1>h, <1>20 DEF MarkTaskFails, Throw, GotoJob, EndJob
<1>21. ASSUME NEW a \in Ingesters, CrashIngester(a)
      PROVE RunningInv'
  BY <1>t, <1>h, <1>21 DEF CrashIngester, EndJob
<1>22. ASSUME NEW s \in Sessions, ReapStaleSession(s)
      PROVE RunningInv'
  BY <1>t, <1>h, <1>22 DEF ReapStaleSession, Stale, HeldBy
<1>23. ASSUME NEW c \in Cancelers, NEW s \in Sessions, CancelRead(c, s)
      PROVE RunningInv'
  BY <1>23
<1>24. ASSUME NEW c \in Cancelers, CancelWrite(c)
      PROVE RunningInv'
  BY <1>24
<1>25. ASSUME NEW t \in Tasks, UpdateTaskStatus(t)
      PROVE RunningInv'
  BY <1>t, <1>h, <1>25 DEF UpdateTaskStatus
<1>26. ASSUME NEW t \in Tasks, PassGate(t)
      PROVE RunningInv'
  BY <1>t, <1>h, <1>26 DEF PassGate
<1>27. CASE UNCHANGED vars
  BY <1>t, <1>h, <1>27 DEF vars
<1> HIDE DEF RunningInv
<1> QED
  BY <1>1, <1>2, <1>3, <1>4, <1>5, <1>6, <1>7, <1>8, <1>9, <1>10, <1>11,
     <1>11a, <1>12, <1>13, <1>14, <1>15, <1>16, <1>17, <1>18, <1>19, <1>20,
     <1>21, <1>22, <1>23, <1>24, <1>25, <1>26, <1>27
  DEF Next, PreparerStep, WorkerStep, IngestStep

(* While nobody cancels, only workers record results and none outlives the *)
(* reaper's grace, no two agents work on one task at a time, however many  *)
(* workers crash and however often the task is retried.                    *)
THEOREM OneAgentAtATime ==
  ASSUME Cancelers = {}, Forms = {}, "overrun" \notin Faults
  PROVE  Spec => []OneAgentPerTask
<1>1. Init => LiveInv /\ RunningInv
  BY DEF Init, LiveInv, AtMostOneLiveSession, Owns, Live, Preparers, RunningInv,
      Ingesters
<1>2. IInv /\ LiveInv /\ RunningInv /\ [Next]_vars => LiveInv' /\ RunningInv'
  BY LiveStep, RunningStep
<1>3. IInv /\ LiveInv /\ RunningInv => OneAgentPerTask
  <2> SUFFICES ASSUME IInv, LiveInv, RunningInv, NEW v \in Workers, NEW w \in Workers,
                      jobAt[v] = "agent", jobAt[w] = "agent",
                      taskOf[jobSess[v]] = taskOf[jobSess[w]]
               PROVE  v = w
    BY DEF OneAgentPerTask
  <2>1. /\ jobSess[v] \in Sessions /\ status[jobSess[v]] = "running"
        /\ jobSess[w] \in Sessions /\ status[jobSess[w]] = "running"
    BY DEF RunningInv, IInv, TypeOK, Ingesters
  <2>2. jobSess[v] = jobSess[w]
    BY <2>1 DEF LiveInv, AtMostOneLiveSession, Live
  <2> QED
    BY <2>1, <2>2 DEF IInv, OneHolder, Holds, Holding
<1> QED
  BY <1>1, <1>2, <1>3, Invariant, PTL DEF Spec
===========================================================================
