---------------------- MODULE SessionRefinementProofs ----------------------
(***************************************************************************)
(* ExecutionSession implements SessionContract, for any number of tasks,   *)
(* sessions, drivers, requests, workers and forms, and any faults.         *)
(***************************************************************************)
EXTENDS SessionRefinement, ExecutionSessionProofs

(* The contract's state is a function of the rows.                         *)
LEMMA SameRows ==
  ASSUME UNCHANGED <<status, taskOf, runs>>
  PROVE  UNCHANGED Contract!cvars
BY DEF Contract!cvars, Phase

(* One session's new status changes its phase and no other.                *)
LEMMA OnePhase ==
  ASSUME TypeOK, NEW s \in Sessions, NEW st,
         status' = [status EXCEPT ![s] = st]
  PROVE  Phase' = [Phase EXCEPT ![s] = PhaseOf(st)]
BY DEF TypeOK, Phase

(* A session that an ingestion has read as prepared or running is past its *)
(* brief for good.                                                         *)
PastBrief(s) == status[s] \notin {"absent", "queued"}

SeenInv ==
    \A a \in Ingesters :
        jobAt[a] = "commit" /\ jobSeen[a] \in {"prepared", "running"}
            => PastBrief(jobSess[a])

(* No step takes a session back before its brief, and an ingestion comes   *)
(* to its transaction through the read.                                    *)
LEMMA SeenStep ==
  ASSUME IInv, SeenInv, [Next]_vars
  PROVE  SeenInv'
<1> USE DEF SeenInv, rows, prep, job
<1>t. TypeOK
  BY DEF IInv
<1>1. ASSUME UNCHANGED <<status, job>> PROVE SeenInv'
  BY <1>1 DEF PastBrief
<1>2. ASSUME \A r \in Sessions : PastBrief(r) => PastBrief(r)',
             \A a \in Ingesters :
                jobAt'[a] = "commit" => UNCHANGED <<jobAt[a], jobSess[a], jobSeen[a]>>
      PROVE  SeenInv'
  <2>1. \A a \in Ingesters : jobAt[a] = "commit" => jobSess[a] \in Sessions
    BY <1>t DEF TypeOK
  <2> QED
    BY <1>2, <2>1
<1>3. ASSUME UNCHANGED status,
             \A a \in Ingesters :
                jobAt'[a] = "commit" => UNCHANGED <<jobAt[a], jobSess[a], jobSeen[a]>>
      PROVE  SeenInv'
  BY <1>3 DEF PastBrief
<1>4. ASSUME NEW p \in Preparers, CreateExecutionSession(p)
      PROVE  SeenInv'
  <2>1. UNCHANGED job
    BY <1>4 DEF CreateExecutionSession
  <2>2. CASE MayCreate(prepTask[p])
    <3>1. status' = [status EXCEPT ![created + 1] = "queued"]
      BY <1>4, <2>2 DEF CreateExecutionSession
    <3>2. created + 1 \in Sessions /\ status[created + 1] = "absent"
      BY <1>t, <1>4, <2>2, ConstantsAssumption
      DEF CreateExecutionSession, IInv, AbsentAfterCreated, TypeOK, Sessions
    <3>3. \A r \in Sessions : PastBrief(r) => PastBrief(r)'
      BY <1>t, <3>1, <3>2 DEF TypeOK, PastBrief
    <3>4. \A a \in Ingesters : jobAt[a] = "commit" => jobSess[a] \in Sessions
      BY <1>t DEF TypeOK
    <3> QED
      BY <2>1, <3>3, <3>4
  <2>3. CASE ~MayCreate(prepTask[p])
    BY <1>1, <1>4, <2>1, <2>3 DEF CreateExecutionSession
  <2> QED
    BY <2>2, <2>3
<1>5. ASSUME NEW p \in Preparers, PrepareWrite(p)
      PROVE  SeenInv'
  <2>1. prepSess[p] \in Sessions
    BY <1>t, <1>5 DEF PrepareWrite, TypeOK
  <2>2. \A r \in Sessions : PastBrief(r) => PastBrief(r)'
    BY <1>t, <1>5, <2>1 DEF PrepareWrite, TypeOK, PastBrief
  <2> QED
    BY <1>2, <1>5, <2>2 DEF PrepareWrite
<1>6. ASSUME NEW a \in Ingesters, IngestRead(a)
      PROVE  SeenInv'
  <2>1. jobSess[a] \in Sessions
    BY <1>t, <1>6 DEF IngestRead, TypeOK
  <2>2. CASE status[jobSess[a]] \in Terminal
    BY <1>t, <1>3, <1>6, <2>2 DEF IngestRead, Throw, GotoJob, EndJob, TypeOK
  <2>3. CASE status[jobSess[a]] \notin Terminal
    <3>1. /\ UNCHANGED <<status, jobSess>>
          /\ jobAt' = [jobAt EXCEPT ![a] = "commit"]
          /\ jobSeen' = [jobSeen EXCEPT ![a] = status[jobSess[a]]]
      BY <1>6, <2>3 DEF IngestRead
    <3> QED
      BY <1>t, <3>1 DEF TypeOK, PastBrief
  <2> QED
    BY <2>2, <2>3
<1>7. ASSUME NEW a \in Ingesters,
             FindPrepared(a) \/ FailPreflight(a) \/ HaltForSpend(a)
             \/ LaunchAgent(a) \/ FinishAgent(a) \/ AbortAgent(a)
             \/ MarkTask(a) \/ MarkTaskFails(a) \/ CrashIngester(a)
      PROVE  SeenInv'
  BY <1>t, <1>3, <1>7
  DEF TypeOK, FindPrepared, FailPreflight, HaltForSpend, LaunchAgent, FinishAgent,
      AbortAgent, MarkTask, MarkTaskFails, CrashIngester, Throw, GotoJob, EndJob
<1>8. ASSUME NEW w \in Workers, ClaimNextSession(w)
      PROVE  SeenInv'
  <2>1. jobSess[w] \in Sessions
    BY <1>t, <1>8 DEF ClaimNextSession, TypeOK, Ingesters
  <2>2. \A a \in Ingesters :
          jobAt'[a] = "commit" => UNCHANGED <<jobAt[a], jobSess[a], jobSeen[a]>>
    BY <1>t, <1>8 DEF ClaimNextSession, GotoJob, EndJob, TypeOK
  <2>3. \A r \in Sessions : PastBrief(r) => PastBrief(r)'
    BY <1>t, <1>8, <2>1 DEF ClaimNextSession, TypeOK, PastBrief
  <2> QED
    BY <1>2, <2>2, <2>3
<1>9. ASSUME NEW w \in Workers, ReleaseSession(w)
      PROVE  SeenInv'
  <2>1. jobSess[w] \in Sessions
    BY <1>t, <1>9 DEF ReleaseSession, TypeOK, Ingesters
  <2>2. \A a \in Ingesters :
          jobAt'[a] = "commit" => UNCHANGED <<jobAt[a], jobSess[a], jobSeen[a]>>
    BY <1>t, <1>9 DEF ReleaseSession, EndJob, TypeOK
  <2>3. \A r \in Sessions : PastBrief(r) => PastBrief(r)'
    BY <1>t, <1>9, <2>1 DEF ReleaseSession, TypeOK, PastBrief
  <2> QED
    BY <1>2, <2>2, <2>3
<1>10. ASSUME NEW f \in Forms, NEW s \in Sessions, NEW v \in Verdicts,
              SubmitForm(f, s, v)
       PROVE  SeenInv'
  BY <1>t, <1>3, <1>10 DEF SubmitForm, TypeOK
<1>11. ASSUME NEW a \in Ingesters, IngestCommit(a)
       PROVE  SeenInv'
  <2>1. jobSess[a] \in Sessions /\ jobVerdict[a] \notin {"absent", "queued"}
    BY <1>t, <1>11 DEF IngestCommit, TypeOK, Verdicts
  <2>2. \A b \in Ingesters :
          jobAt'[b] = "commit" => UNCHANGED <<jobAt[b], jobSess[b], jobSeen[b]>>
    BY <1>t, <1>11 DEF IngestCommit, Throw, GotoJob, EndJob, TypeOK
  <2>3. \A r \in Sessions : PastBrief(r) => PastBrief(r)'
    BY <1>t, <1>11, <2>1 DEF IngestCommit, TypeOK, PastBrief
  <2> QED
    BY <1>2, <2>2, <2>3
<1>12. ASSUME NEW s \in Sessions, ReapStaleSession(s)
       PROVE  SeenInv'
  <2>1. \A r \in Sessions : PastBrief(r) => PastBrief(r)'
    BY <1>t, <1>12 DEF ReapStaleSession, TypeOK, PastBrief
  <2> QED
    BY <1>2, <1>12, <2>1 DEF ReapStaleSession
<1>13. ASSUME NEW c \in Cancelers, CancelWrite(c)
       PROVE  SeenInv'
  <2>1. cancel[c] \in Sessions
    BY <1>t, <1>13 DEF CancelWrite, TypeOK
  <2>2. \A r \in Sessions : PastBrief(r) => PastBrief(r)'
    BY <1>t, <1>13, <2>1 DEF CancelWrite, TypeOK, PastBrief
  <2> QED
    BY <1>2, <1>13, <2>2 DEF CancelWrite
<1>14. CASE \/ \E d \in Drivers, t \in Tasks : SelectTask(d, t)
            \/ \E r \in Requests, t \in Tasks : RequestExecution(r, t)
            \/ \E p \in Preparers : FindLiveSession(p) \/ AssessAttempt(p)
                                      \/ PrepareRead(p) \/ CrashPreparer(p)
            \/ \E c \in Cancelers, s \in Sessions : CancelRead(c, s)
            \/ \E t \in Tasks : UpdateTaskStatus(t) \/ PassGate(t)
            \/ UNCHANGED vars
  BY <1>1, <1>14
  DEF SelectTask, RequestExecution, FindLiveSession, AssessAttempt, PrepareRead,
      CrashPreparer, CancelRead, UpdateTaskStatus, PassGate, vars
<1> HIDE DEF SeenInv
<1> QED
  BY <1>4, <1>5, <1>6, <1>7, <1>8, <1>9, <1>10, <1>11, <1>12, <1>13, <1>14
  DEF Next, PreparerStep, WorkerStep, IngestStep, Ingesters

(* The refinement, one case per action: every step of the code is a step   *)
(* of the contract or leaves its state alone.                              *)
LEMMA ContractStep ==
  ASSUME Cancelers = {}, IInv, LiveInv, SeenInv, [Next]_vars
  PROVE  [Contract!Next]_(Contract!cvars)
<1> USE DEF rows, prep, job
<1>t. TypeOK
  BY DEF IInv
<1>1. ASSUME NEW d \in Drivers, NEW t \in Tasks, SelectTask(d, t)
      PROVE  UNCHANGED <<status, taskOf, runs>>
  BY <1>1 DEF SelectTask
<1>2. ASSUME NEW r \in Requests, NEW t \in Tasks, RequestExecution(r, t)
      PROVE  UNCHANGED <<status, taskOf, runs>>
  BY <1>2 DEF RequestExecution
<1>3. ASSUME NEW p \in Preparers, FindLiveSession(p)
      PROVE  UNCHANGED <<status, taskOf, runs>>
  BY <1>3 DEF FindLiveSession
<1>4. ASSUME NEW p \in Preparers, AssessAttempt(p)
      PROVE  UNCHANGED <<status, taskOf, runs>>
  BY <1>4 DEF AssessAttempt
<1>5. ASSUME NEW p \in Preparers, CreateExecutionSession(p)
      PROVE  [Contract!Next]_(Contract!cvars)
  <2>1. CASE MayCreate(prepTask[p])
    <3> DEFINE n == created + 1
               t == prepTask[p]
    <3>1. n \in Sessions /\ status[n] = "absent" /\ t \in Tasks
      BY <1>t, <1>5, <2>1, ConstantsAssumption
      DEF CreateExecutionSession, IInv, AbsentAfterCreated, TypeOK, Sessions
    <3>2. /\ status' = [status EXCEPT ![n] = "queued"]
          /\ taskOf' = [taskOf EXCEPT ![n] = t]
          /\ UNCHANGED runs
      BY <1>5, <2>1 DEF CreateExecutionSession
    <3> HIDE DEF n, t
    <3>3. \A r \in Sessions : taskOf[r] = t => Phase[r] \notin Contract!UnderWay
      <4>1. \A r \in Sessions : taskOf[r] = t => status[r] \notin Live
        BY <2>1 DEF MayCreate, LiveOn, t
      <4> QED
        BY <4>1 DEF Phase, PhaseOf, Contract!UnderWay, Live
    <3>4. Phase[n] = "none" /\ Phase' = [Phase EXCEPT ![n] = "queued"]
      BY <1>t, <3>1, <3>2, OnePhase DEF Phase, PhaseOf
    <3>5. Contract!Open(n, t)
      BY <3>2, <3>3, <3>4 DEF Contract!Open
    <3> QED
      BY <3>1, <3>5 DEF Contract!Next
  <2>2. CASE ~MayCreate(prepTask[p])
    <3>1. UNCHANGED <<status, taskOf, runs>>
      BY <1>5, <2>2 DEF CreateExecutionSession
    <3> QED
      BY <3>1, SameRows
  <2> QED
    BY <2>1, <2>2
<1>6. ASSUME NEW p \in Preparers, PrepareRead(p)
      PROVE  UNCHANGED <<status, taskOf, runs>>
  BY <1>6 DEF PrepareRead
<1>7. ASSUME NEW p \in Preparers, PrepareWrite(p)
      PROVE  Contract!Next
  <2> DEFINE s == prepSess[p]
  <2>1. s \in Sessions /\ status[s] = "queued"
    BY <1>t, <1>7 DEF PrepareWrite, TypeOK, LiveInv, Owns
  <2>2. status' = [status EXCEPT ![s] = "prepared"] /\ UNCHANGED <<taskOf, runs>>
    BY <1>7 DEF PrepareWrite
  <2> HIDE DEF s
  <2>3. Phase[s] = "queued" /\ Phase' = [Phase EXCEPT ![s] = "ready"]
    BY <1>t, <2>1, <2>2, OnePhase DEF Phase, PhaseOf
  <2> QED
    BY <2>1, <2>2, <2>3 DEF Contract!Next, Contract!Ready
<1>8. ASSUME NEW p \in Preparers, CrashPreparer(p)
      PROVE  UNCHANGED <<status, taskOf, runs>>
  BY <1>8 DEF CrashPreparer
<1>9. ASSUME NEW w \in Workers, FindPrepared(w)
      PROVE  UNCHANGED <<status, taskOf, runs>>
  BY <1>9 DEF FindPrepared
<1>10. ASSUME NEW w \in Workers, ClaimNextSession(w)
       PROVE  [Contract!Next]_(Contract!cvars)
  <2> DEFINE s == jobSess[w]
  <2>1. s \in Sessions /\ UNCHANGED <<taskOf, runs>>
    BY <1>t, <1>10 DEF ClaimNextSession, TypeOK, Ingesters
  <2>2. CASE Claimable(s)
    <3>1. status[s] = "prepared" /\ status' = [status EXCEPT ![s] = "running"]
      BY <1>10, <2>2 DEF ClaimNextSession, Claimable
    <3> HIDE DEF s
    <3>2. Phase[s] = "ready" /\ Phase' = [Phase EXCEPT ![s] = "working"]
      BY <1>t, <2>1, <3>1, OnePhase DEF Phase, PhaseOf
    <3> QED
      BY <2>1, <3>2 DEF Contract!Next, Contract!Claim
  <2>3. CASE ~Claimable(s)
    <3>1. UNCHANGED <<status, taskOf, runs>>
      BY <1>10, <2>1, <2>3 DEF ClaimNextSession
    <3> QED
      BY <3>1, SameRows
  <2> QED
    BY <2>2, <2>3
<1>11. ASSUME NEW w \in Workers,
              FailPreflight(w) \/ HaltForSpend(w) \/ FinishAgent(w) \/ AbortAgent(w)
       PROVE  UNCHANGED <<status, taskOf, runs>>
  BY <1>11 DEF FailPreflight, HaltForSpend, FinishAgent, AbortAgent
<1>12. ASSUME NEW w \in Workers, LaunchAgent(w)
       PROVE  Contract!Next
  <2> DEFINE s == jobSess[w]
  <2>1. s \in Sessions /\ runs[s] = 0 /\ Holds(w, s)
    BY <1>t, <1>12
    DEF LaunchAgent, IInv, OneHolder, TypeOK, Ingesters, Holds, Holding
  <2>2. UNCHANGED <<status, taskOf>> /\ runs' = [runs EXCEPT ![s] = 1]
    BY <1>t, <1>12, <2>1 DEF LaunchAgent, TypeOK
  <2> HIDE DEF s
  <2>3. status[s] \notin {"absent", "queued", "prepared"}
    BY <2>1 DEF IInv, UntouchedUntilClaimed, Untouched
  <2>4. Phase[s] \in {"working", "over"} /\ UNCHANGED Phase
    BY <2>1, <2>2, <2>3 DEF Phase, PhaseOf
  <2> QED
    BY <2>1, <2>2, <2>4 DEF Contract!Next, Contract!Launch
<1>13. ASSUME NEW s \in Sessions, NEW st, UNCHANGED <<taskOf, runs>>,
              status' = [status EXCEPT ![s] = st],
              status[s] \notin {"absent", "queued"},
              PhaseOf(st) = "over"
       PROVE  [Contract!Next]_(Contract!cvars)
  <2>1. Phase' = [Phase EXCEPT ![s] = "over"]
    BY <1>t, <1>13, OnePhase
  <2>2. Phase[s] \in {"ready", "working", "over"}
    BY <1>13 DEF Phase, PhaseOf
  <2>3. CASE Phase[s] = "over"
    <3>1. Phase' = Phase
      BY <2>1, <2>3 DEF Phase
    <3> QED
      BY <1>13, <3>1 DEF Contract!cvars
  <2>4. CASE Phase[s] # "over"
    BY <1>13, <2>1, <2>2, <2>4 DEF Contract!Next, Contract!Close
  <2> QED
    BY <2>3, <2>4
<1>14. ASSUME NEW w \in Workers, ReleaseSession(w)
       PROVE  [Contract!Next]_(Contract!cvars)
  <2>1. jobSess[w] \in Sessions /\ Holds(w, jobSess[w])
    BY <1>t, <1>14 DEF ReleaseSession, TypeOK, Ingesters, Holds, Holding
  <2>2. status[jobSess[w]] \notin {"absent", "queued"}
    BY <2>1 DEF IInv, UntouchedUntilClaimed, Untouched
  <2>3. /\ status' = [status EXCEPT ![jobSess[w]] = "failed"]
        /\ UNCHANGED <<taskOf, runs>>
    BY <1>14 DEF ReleaseSession
  <2> QED
    BY <1>13, <2>1, <2>2, <2>3 DEF PhaseOf
<1>15. ASSUME NEW f \in Forms, NEW s \in Sessions, NEW v \in Verdicts,
              SubmitForm(f, s, v)
       PROVE  UNCHANGED <<status, taskOf, runs>>
  BY <1>15 DEF SubmitForm
<1>16. ASSUME NEW a \in Ingesters, IngestRead(a) \/ MarkTask(a) \/ MarkTaskFails(a)
                                   \/ CrashIngester(a)
       PROVE  UNCHANGED <<status, taskOf, runs>>
  BY <1>16 DEF IngestRead, MarkTask, MarkTaskFails, CrashIngester
<1>17. ASSUME NEW a \in Ingesters, IngestCommit(a)
       PROVE  [Contract!Next]_(Contract!cvars)
  <2> DEFINE s == jobSess[a]
  <2>1. s \in Sessions /\ jobVerdict[a] \in Verdicts /\ jobAt[a] = "commit"
    BY <1>t, <1>17 DEF IngestCommit, TypeOK
  <2>2. CASE ResultWritten(s, jobSeen[a])
    <3>1. status' = [status EXCEPT ![s] = jobVerdict[a]] /\ UNCHANGED <<taskOf, runs>>
      BY <1>17, <2>2 DEF IngestCommit
    <3>2. status[s] \notin {"absent", "queued"}
      BY <2>1, <2>2 DEF ResultWritten, SeenInv, PastBrief
    <3>3. PhaseOf(jobVerdict[a]) = "over"
      BY <2>1 DEF PhaseOf, Verdicts
    <3> QED
      BY <1>13, <2>1, <3>1, <3>2, <3>3
  <2>3. CASE ~ResultWritten(s, jobSeen[a])
    <3>1. UNCHANGED <<status, taskOf, runs>>
      BY <1>17, <2>3 DEF IngestCommit
    <3> QED
      BY <3>1, SameRows
  <2> QED
    BY <2>2, <2>3
<1>18. ASSUME NEW s \in Sessions, ReapStaleSession(s)
       PROVE  [Contract!Next]_(Contract!cvars)
  <2>1. /\ status[s] = "running" /\ status' = [status EXCEPT ![s] = "failed"]
        /\ UNCHANGED <<taskOf, runs>>
    BY <1>18 DEF ReapStaleSession, Stale
  <2> QED
    BY <1>13, <2>1 DEF PhaseOf
<1>19. ASSUME NEW t \in Tasks, UpdateTaskStatus(t) \/ PassGate(t)
       PROVE  UNCHANGED <<status, taskOf, runs>>
  BY <1>19 DEF UpdateTaskStatus, PassGate
<1>20. CASE UNCHANGED vars
  <2>1. UNCHANGED <<status, taskOf, runs>>
    BY <1>20 DEF vars
  <2> QED
    BY <2>1, SameRows
<1> QED
  BY <1>1, <1>2, <1>3, <1>4, <1>5, <1>6, <1>7, <1>8, <1>9, <1>10, <1>11, <1>12,
     <1>14, <1>15, <1>16, <1>17, <1>18, <1>19, <1>20, SameRows
  DEF Next, PreparerStep, WorkerStep, IngestStep

(* With no cancellation - nothing calls cancelExecutionSession - the whole *)
(* of the execution machinery implements the contract: sessions go through *)
(* their phases in order, one at a time per task, with one agent run each, *)
(* whoever crashes, overruns or submits a result by hand.                  *)
THEOREM KeepsContract ==
  ASSUME Cancelers = {} PROVE Spec => ContractKept
<1>1. Init => LiveInv /\ SeenInv
  BY DEF Init, LiveInv, AtMostOneLiveSession, Owns, Live, Preparers, SeenInv
<1>2. Init => Contract!Init
  BY DEF Init, Contract!Init, Phase, PhaseOf
<1>3. IInv /\ LiveInv /\ SeenInv /\ [Next]_vars => LiveInv' /\ SeenInv'
  BY LiveStep, SeenStep
<1>4. IInv /\ LiveInv /\ SeenInv /\ [Next]_vars => [Contract!Next]_(Contract!cvars)
  BY ContractStep
<1> QED
  BY <1>1, <1>2, <1>3, <1>4, Invariant, PTL DEF Spec, ContractKept, Contract!Spec
============================================================================
