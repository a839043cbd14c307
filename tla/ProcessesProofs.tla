-------------------------- MODULE ProcessesProofs --------------------------
(***************************************************************************)
(* What never happens in the processes around the core, for every value of *)
(* the constants: two processes of a role at work, more dev servers than   *)
(* allowed, a job's result lost, faked or pushed against the guardrails, a *)
(* stored event skipped by a reader that resumes.                          *)
(***************************************************************************)
EXTENDS MCProcesses, FiniteSetTheorems, WellFoundedInduction, TLAPS

---------------------------------------------------------------------------
(* The supervised process and the one started by hand.  Whoever works      *)
(* holds the advisory lock: it is taken before the first iteration and let *)
(* go behind the last one.                                                 *)

SupTypes ==
    /\ supProc \in [Sup!Procs -> Sup!ProcStates]
    /\ supLock \in Sup!Procs \cup {NoOne}

WorkerHoldsLock == \A p \in Sup!Procs : Sup!AtWork(p) => supLock = p

SupInv == SupTypes /\ WorkerHoldsLock

LEMMA SupInit == Sup!Init => SupInv
  BY DEF Sup!Init, SupInv, SupTypes, WorkerHoldsLock, Sup!AtWork, Sup!Procs,
     Sup!ProcStates

(* A process that is gone neither works nor holds the lock, and the other  *)
(* is as it was.                                                           *)
LEMMA ExitKeeps ==
  ASSUME SupInv, NEW p \in Sup!Procs, NEW stable, Sup!Exit(p, stable), supRole' = supRole
  PROVE  SupInv'
<1>1. SupTypes'
  BY DEF SupInv, SupTypes, Sup!Exit, Sup!ProcStates
<1>2. WorkerHoldsLock'
  BY DEF SupInv, SupTypes, WorkerHoldsLock, Sup!AtWork, Sup!Exit
<1> QED
  BY <1>1, <1>2 DEF SupInv

(* Told to stop, a process goes on with what it holds, or is gone.         *)
LEMMA TerminateKeeps ==
  ASSUME SupInv, NEW p \in Sup!Procs, Sup!Terminate(p), supRole' = supRole
  PROVE  SupInv'
<1>1. CASE supProc[p] = "boot"
  BY <1>1, ExitKeeps DEF Sup!Terminate
<1>2. CASE supProc[p] # "boot"
  <2>1. PICK st \in Sup!Terminated(p) : supProc' = [supProc EXCEPT ![p] = st]
    BY <1>2 DEF Sup!Terminate
  <2>2. supLock' = supLock
    BY <1>2 DEF Sup!Terminate
  <2>3. st \in Sup!ProcStates /\ (st \in {"loop", "hung", "stuck", "ending"} => st = supProc[p]
            \/ supProc[p] \in {"loop", "hung"})
    BY <2>1 DEF Sup!Terminated, Sup!ProcStates, SupInv, SupTypes
  <2>4. SupTypes'
    BY <2>1, <2>2, <2>3 DEF SupInv, SupTypes
  <2>5. WorkerHoldsLock'
    BY <2>1, <2>2, <2>3 DEF SupInv, SupTypes, WorkerHoldsLock, Sup!AtWork
  <2> QED
    BY <2>4, <2>5 DEF SupInv
<1> QED
  BY <1>1, <1>2

LEMMA SupStep ==
  ASSUME SupInv, [Sup!Next]_(Sup!vars)
  PROVE  SupInv'
<1> USE DEF Sup!Procs
<1>1. CASE Sup!Start \/ Sup!StartStray \/ Sup!Beat \/ Sup!GoesStale
  BY <1>1 DEF Sup!Start, Sup!StartStray, Sup!Beat, Sup!GoesStale, SupInv, SupTypes,
     WorkerHoldsLock, Sup!AtWork, Sup!ProcStates
<1>2. ASSUME NEW p \in Sup!Procs, Sup!Boot(p) PROVE SupInv'
  BY <1>2, HolderAssumption DEF Sup!Boot, Sup!MayRun, SupInv, SupTypes, WorkerHoldsLock,
     Sup!AtWork, Sup!ProcStates
<1>3. ASSUME NEW p \in Sup!Procs, Sup!Hang(p) PROVE SupInv'
  BY <1>3 DEF Sup!Hang, SupInv, SupTypes, WorkerHoldsLock, Sup!AtWork, Sup!ProcStates
<1>4. ASSUME NEW p \in Sup!Procs, Sup!Refused(p) \/ Sup!Crash(p) PROVE SupInv'
  BY <1>4, ExitKeeps DEF Sup!Refused, Sup!Crash
<1>5. CASE Sup!ReleaseLock("child")
  BY <1>5 DEF Sup!ReleaseLock, Sup!ReleasesInHandler, SupInv, SupTypes, WorkerHoldsLock,
     Sup!AtWork
<1>6. CASE Sup!Ends("child") \/ Sup!StopStray \/ Sup!Escalate
  BY <1>6, ExitKeeps DEF Sup!Ends, Sup!StopStray, Sup!Escalate
<1>7. CASE Sup!Watch
  BY <1>7, TerminateKeeps DEF Sup!Watch
<1>8. CASE Sup!Stop
  <2>1. CASE supProc["child"] = "down"
    BY <1>8, <2>1 DEF Sup!Stop, SupInv, SupTypes, WorkerHoldsLock, Sup!AtWork
  <2> QED
    BY <1>8, <2>1, TerminateKeeps DEF Sup!Stop
<1>9. CASE Sup!Leave
  <2>1. CASE supProc["child"] = "down"
    BY <1>9, <2>1 DEF Sup!Leave, SupInv, SupTypes, WorkerHoldsLock, Sup!AtWork
  <2> QED
    BY <1>9, <2>1, ExitKeeps DEF Sup!Leave
<1>10. CASE UNCHANGED Sup!vars
  BY <1>10 DEF Sup!vars, SupInv, SupTypes, WorkerHoldsLock, Sup!AtWork
<1> QED
  BY <1>1, <1>2, <1>3, <1>4, <1>5, <1>6, <1>7, <1>8, <1>9, <1>10
  DEF Sup!Next, Sup!ChildStep, Sup!StrayStep, Sup!SupervisorStep

(* Never two drivers tick, and never two workers claim, at once, however   *)
(* many are started by hand and whenever one hangs, crashes or is replaced *)
(* (worker/single-instance-lock.ts, scripts/supervise.mjs).                *)
THEOREM NeverTwoAtWork == Spec => []OneAtWork
<1> DEFINE I == part = "supervision" => SupInv
<1>1. Init => I
  BY SupInit DEF Init
<1>2. I /\ [Next]_vars => I'
  <2> SUFFICES ASSUME I, [Next]_vars, part' = "supervision" PROVE SupInv'
    OBVIOUS
  <2>1. part = "supervision" /\ [Sup!Next]_(Sup!vars)
    BY DEF Next, vars, supVars, Sup!vars
  <2> QED
    BY <2>1, SupStep
<1>3. I => OneAtWork
  BY HolderAssumption DEF SupInv, WorkerHoldsLock, OneAtWork, Sup!OneAtWork, Sup!Procs
<1>4. Spec => []I
  <2> HIDE DEF I
  <2> QED
    BY <1>1, <1>2, PTL DEF Spec
<1> QED
  BY <1>3, <1>4, PTL

---------------------------------------------------------------------------
(* The previews.  What is taken up - a row that is read, claimed, starting *)
(* or registered - never exceeds the limit, a dev server whose pid is      *)
(* recorded is among it while an engine is there, and when none is, its    *)
(* row is one the next engine finds.                                       *)

Rows == [status : {"queued", "starting", "installing", "running", "stopping",
                   "stopped", "failed", "crashed", "absent"},
         desired : {"running", "stopped"}, pid : BOOLEAN]

Runs == {"idle", "checkout", "install", "recheck", "spawn", "mark"}

Entries == [at : Pre!ActiveStates, verdict : {"crashed", "stopped"}]

PreTypes ==
    /\ preRows \in [Pre!Ids -> Rows]
    /\ preRun \in [Pre!Ids -> Runs]
    /\ preActive \in [Pre!Ids -> Entries]
    /\ preChild \in [Pre!Ids -> {"none", "alive", "known", "dead"}]
    /\ preFound \in {0} \cup Pre!Ids

(* Rows are made one behind the other.                                     *)
RowsInOrder == \E n \in 0 .. MaxPreviews : Pre!Created = 1 .. n

Registered(i) == preActive[i].at \notin {"none", "leaked"}

TakenUp(i) == Registered(i) \/ preRun[i] # "idle" \/ preFound = i

(* What is taken up has a row; a dev server is recorded at the end of its  *)
(* start, and dead before its last update; a recorded one is registered,   *)
(* and found again after a crash.                                          *)
RowOK(i) ==
    /\ TakenUp(i) \/ preActive[i].at = "leaked" =>
          preRows[i].status # "absent" /\ preEngine # "down"
    /\ preRun[i] # "idle" => preChild[i] # "known"
    /\ preRun[i] = "mark" /\ preChild[i] = "alive" => Registered(i)
    /\ preActive[i].at = "finalizing" => preChild[i] \notin {"alive", "known"}
    /\ preChild[i] = "known" =>
          /\ preRows[i].status \in Pre!Claimed /\ preRows[i].pid
          /\ preEngine # "down" => Registered(i)

Counted == {i \in Pre!Ids : TakenUp(i) \/ preChild[i] = "known"}

WithinLimit == Cardinality(Counted) <= MaxConcurrent

PreInv == PreTypes /\ RowsInOrder /\ (\A i \in Pre!Ids : RowOK(i)) /\ WithinLimit

LEMMA SameSize == \A S : Pre!Cardinality(S) = Cardinality(S)
  BY DEF Pre!Cardinality, Pre!IsFiniteSet, Cardinality, IsFiniteSet

LEMMA PreviewsFinite ==
  /\ IsFiniteSet(Pre!Ids) /\ 0 \notin Pre!Ids
  /\ \A S \in SUBSET Pre!Ids : IsFiniteSet(S) /\ Cardinality(S) \in Nat
<1>1. IsFiniteSet(Pre!Ids) /\ 0 \notin Pre!Ids
  BY FS_Interval, PreviewAssumption DEF Pre!Ids
<1> QED
  BY <1>1, FS_Subset, FS_CardinalityType

LEMMA PreInit == Pre!Init => PreInv
<1> SUFFICES ASSUME Pre!Init PROVE PreInv
  OBVIOUS
<1>1. PreTypes
  BY DEF Pre!Init, PreTypes, Rows, Runs, Entries, Pre!NoRow, Pre!NoEntry, Pre!ActiveStates
<1>2. Counted = {} /\ Pre!Created = {} /\ \A i \in Pre!Ids : RowOK(i)
  BY PreviewsFinite DEF Pre!Init, Counted, TakenUp, Registered, RowOK, Pre!Created,
     Pre!NoRow, Pre!NoEntry
<1>3. RowsInOrder
  BY <1>2, PreviewAssumption DEF RowsInOrder
<1>5. WithinLimit
  BY <1>2, FS_EmptySet, PreviewAssumption DEF WithinLimit
<1> QED
  BY <1>1, <1>2, <1>3, <1>5 DEF PreInv

(* A step that counts nothing new stays within the limit.                  *)
LEMMA LimitKept ==
  ASSUME WithinLimit, Counted' \subseteq Counted
  PROVE  WithinLimit'
<1>1. Counted \in SUBSET Pre!Ids
  BY DEF Counted
<1>2. Cardinality(Counted') <= Cardinality(Counted)
  BY <1>1, PreviewsFinite, FS_Subset
<1> QED
  BY <1>1, <1>2, PreviewsFinite, PreviewAssumption DEF WithinLimit

(* A step of one preview.                                                  *)
Untouched(i) ==
    /\ preEngine' = preEngine /\ preFound' = preFound
    /\ \A k \in Pre!Ids \ {i} : /\ preRows'[k] = preRows[k] /\ preRun'[k] = preRun[k]
                                 /\ preActive'[k] = preActive[k] /\ preChild'[k] = preChild[k]

LEMMA RowStep ==
  ASSUME PreInv, PreTypes', NEW i \in Pre!Ids, Untouched(i), RowOK(i)',
         (TakenUp(i) \/ preChild[i] = "known")' => TakenUp(i) \/ preChild[i] = "known",
         (preRows[i].status = "absent")' <=> preRows[i].status = "absent"
  PROVE  PreInv'
<1>1. \A k \in Pre!Ids : RowOK(k)'
  BY DEF PreInv, Untouched, RowOK, TakenUp, Registered
<1>2. Counted' \subseteq Counted
  BY DEF Counted, Untouched, TakenUp, Registered
<1>3. Pre!Created' = Pre!Created
  BY DEF Pre!Created, Untouched
<1>4. RowsInOrder'
  BY <1>3 DEF PreInv, RowsInOrder
<1> QED
  BY <1>1, <1>2, <1>4, LimitKept DEF PreInv

(* The types of the two records a step of one preview may write.           *)
LEMMA RecordsTyped ==
  ASSUME PreTypes, NEW i \in Pre!Ids
  PROVE  /\ \A st \in {"starting", "installing", "running", "stopping"}, p \in BOOLEAN :
               /\ [preRows EXCEPT ![i].status = st] \in [Pre!Ids -> Rows]
               /\ [preRows EXCEPT ![i].status = st, ![i].pid = p] \in [Pre!Ids -> Rows]
         /\ \A st \in {"stopped", "failed", "crashed"} :
               Pre!Finalized(i, st) \in [Pre!Ids -> Rows]
         /\ \A at \in Pre!ActiveStates, v \in {"crashed", "stopped"} :
               /\ [preActive EXCEPT ![i].at = at] \in [Pre!Ids -> Entries]
               /\ [preActive EXCEPT ![i] = [at |-> at, verdict |-> v]] \in [Pre!Ids -> Entries]
<1>1. ASSUME NEW st \in {"starting", "installing", "running", "stopping"}, NEW p \in BOOLEAN
      PROVE  /\ [preRows[i] EXCEPT !.status = st] \in Rows
             /\ [preRows[i] EXCEPT !.status = st, !.pid = p] \in Rows
  BY DEF PreTypes, Rows
<1>2. ASSUME NEW st \in {"stopped", "failed", "crashed"}
      PROVE  Pre!Finalized(i, st) \in [Pre!Ids -> Rows]
  BY DEF PreTypes, Rows, Pre!Finalized
<1>3. ASSUME NEW at \in Pre!ActiveStates, NEW v \in {"crashed", "stopped"}
      PROVE  /\ [preActive[i] EXCEPT !.at = at] \in Entries
             /\ [at |-> at, verdict |-> v] \in Entries
  BY DEF PreTypes, Entries
<1> QED
  BY <1>1, <1>2, <1>3 DEF PreTypes

LEMMA GiveUpTyped ==
  ASSUME PreTypes, NEW i \in Pre!Ids, NEW st \in {"failed", "stopped"}, Pre!GiveUp(i, st)
  PROVE  preRows' \in [Pre!Ids -> Rows] /\ preRun' \in [Pre!Ids -> Runs]
BY RecordsTyped DEF Pre!GiveUp, PreTypes, Runs

LEMMA StartTyped ==
  ASSUME PreTypes, NEW i \in Pre!Ids, Pre!Starting(i) \/ Pre!MarkFails(i)
  PROVE  PreTypes'
<1>1. \A r \in Runs : [preRun EXCEPT ![i] = r] \in [Pre!Ids -> Runs]
  BY DEF PreTypes
<1>2. CASE Pre!Checkout(i)
  <2>1. CASE Pre!GiveUp(i, "failed")
    BY <1>2, <2>1, GiveUpTyped DEF Pre!Checkout, PreTypes
  <2>2. CASE ~Pre!GiveUp(i, "failed")
    <3>1. /\ preRows' = [preRows EXCEPT ![i].status = "installing"]
          /\ preRun' = [preRun EXCEPT ![i] = "install"]
      BY <1>2, <2>2 DEF Pre!Checkout
    <3> QED
      BY <1>1, <1>2, <3>1, RecordsTyped DEF Pre!Checkout, PreTypes, Runs
  <2> QED
    BY <2>1, <2>2
<1>3. CASE Pre!Install(i)
  <2>1. CASE Pre!GiveUp(i, "failed")
    BY <1>3, <2>1, GiveUpTyped DEF Pre!Install, PreTypes
  <2>2. CASE ~Pre!GiveUp(i, "failed")
    BY <1>1, <1>3, <2>2 DEF Pre!Install, PreTypes, Runs
  <2> QED
    BY <2>1, <2>2
<1>4. CASE Pre!Recheck(i)
  <2>1. CASE Pre!GiveUp(i, "stopped")
    BY <1>4, <2>1, GiveUpTyped DEF Pre!Recheck, PreTypes
  <2>2. CASE ~Pre!GiveUp(i, "stopped")
    BY <1>1, <1>4, <2>2 DEF Pre!Recheck, PreTypes, Runs
  <2> QED
    BY <2>1, <2>2
<1>5. CASE Pre!Spawn(i)
  <2>1. CASE Pre!GiveUp(i, "failed") /\ UNCHANGED <<preActive, preChild>>
    BY <1>5, <2>1, GiveUpTyped DEF Pre!Spawn, PreTypes
  <2>2. CASE ~(Pre!GiveUp(i, "failed") /\ UNCHANGED <<preActive, preChild>>)
    <3>1. /\ preChild' = [preChild EXCEPT ![i] = "alive"]
          /\ preActive' = [preActive EXCEPT ![i] = [at |-> "live", verdict |-> "crashed"]]
          /\ preRun' = [preRun EXCEPT ![i] = "mark"] /\ UNCHANGED preRows
      BY <1>5, <2>2 DEF Pre!Spawn
    <3> QED
      BY <1>1, <1>5, <3>1, RecordsTyped DEF Pre!Spawn, PreTypes, Runs, Pre!ActiveStates
  <2> QED
    BY <2>1, <2>2
<1>6. CASE Pre!MarkRunning(i)
  BY <1>1, <1>6, RecordsTyped DEF Pre!MarkRunning, PreTypes, Runs
<1>7. CASE Pre!MarkFails(i)
  BY <1>7, RecordsTyped, GiveUpTyped DEF Pre!MarkFails, PreTypes, Pre!ActiveStates
<1> QED
  BY <1>2, <1>3, <1>4, <1>5, <1>6, <1>7 DEF Pre!Starting

LEMMA StopTyped ==
  ASSUME PreTypes, NEW i \in Pre!Ids,
         Pre!Stopping(i) \/ Pre!LifetimeOver(i) \/ Pre!ChildExits(i)
  PROVE  PreTypes'
<1>1. CASE Pre!HonourStop(i) \/ Pre!LifetimeOver(i)
  <2>1. Pre!BeginStop(i)
    BY <1>1 DEF Pre!HonourStop, Pre!LifetimeOver
  <2> QED
    BY <2>1, RecordsTyped DEF Pre!BeginStop, PreTypes, Pre!ActiveStates
<1>2. CASE Pre!SignalStop(i)
  BY <1>2, RecordsTyped DEF Pre!SignalStop, PreTypes, Pre!ActiveStates
<1>3. CASE Pre!Kill(i)
  BY <1>3, RecordsTyped DEF Pre!Kill, PreTypes, Pre!ActiveStates
<1>4. CASE Pre!Finalize(i)
  BY <1>4, RecordsTyped DEF Pre!Finalize, PreTypes, Entries, Pre!ActiveStates, Pre!NoEntry
<1>5. CASE Pre!ShutDownOne(i)
  BY <1>5, RecordsTyped DEF Pre!ShutDownOne, PreTypes, Pre!ActiveStates, Pre!NoEntry
<1>6. CASE Pre!ChildExits(i)
  <2>1. CASE preActive[i].at = "leaked"
    <3>1. preActive[i].verdict \in {"stopped", "failed", "crashed"}
      BY DEF PreTypes, Entries
    <3>2. preRows' \in [Pre!Ids -> Rows]
      <4>1. preRows' = Pre!Finalized(i, preActive[i].verdict)
        BY <1>6, <2>1 DEF Pre!ChildExits
      <4>2. Pre!Finalized(i, preActive[i].verdict) \in [Pre!Ids -> Rows]
        BY <3>1, RecordsTyped
      <4> QED
        BY <4>1, <4>2
    <3>3. preActive' = [preActive EXCEPT ![i] = [at |-> "none", verdict |-> "crashed"]]
      BY <1>6, <2>1 DEF Pre!ChildExits, Pre!NoEntry
    <3>4. preActive' \in [Pre!Ids -> Entries]
      BY <3>3, RecordsTyped DEF Pre!ActiveStates
    <3> QED
      BY <1>6, <3>2, <3>4 DEF Pre!ChildExits, PreTypes
  <2>2. CASE preActive[i].at = "stopping"
    <3>1. preActive' = [preActive EXCEPT ![i].at = "stopping"] /\ UNCHANGED preRows
      BY <1>6, <2>2 DEF Pre!ChildExits
    <3> QED
      BY <1>6, <3>1, RecordsTyped DEF Pre!ChildExits, PreTypes, Pre!ActiveStates
  <2>3. CASE preActive[i].at \notin {"leaked", "stopping"}
    <3>1. preActive' = [preActive EXCEPT ![i].at = "finalizing"] /\ UNCHANGED preRows
      BY <1>6, <2>3 DEF Pre!ChildExits
    <3> QED
      BY <1>6, <3>1, RecordsTyped DEF Pre!ChildExits, PreTypes, Pre!ActiveStates
  <2> QED
    BY <2>1, <2>2, <2>3
<1> QED
  BY <1>1, <1>2, <1>3, <1>4, <1>5, <1>6 DEF Pre!Stopping

(* A start takes its row through, or gives it up before a dev server is    *)
(* recorded.                                                               *)
LEMMA StartingKeeps ==
  ASSUME PreInv, NEW i \in Pre!Ids, Pre!Starting(i) \/ Pre!MarkFails(i)
  PROVE  PreInv'
<1> USE DEF PreInv, PreTypes, Rows, Entries, RowOK, TakenUp, Registered, Untouched, Pre!Claimed,
        Pre!GiveUp, Pre!Finalized, Pre!Starting
<1>0. PreTypes'
  BY StartTyped
<1>1. CASE Pre!Checkout(i)
  <2>1. Untouched(i)
    BY <1>1 DEF Pre!Checkout
  <2>2. RowOK(i)'
    BY <1>1 DEF Pre!Checkout
  <2> QED
    BY <1>1, <2>1, <2>2, <1>0, RowStep DEF Pre!Checkout
<1>2. CASE Pre!Install(i)
  <2>1. Untouched(i)
    BY <1>2 DEF Pre!Install
  <2>2. RowOK(i)'
    BY <1>2 DEF Pre!Install
  <2> QED
    BY <1>2, <2>1, <2>2, <1>0, RowStep DEF Pre!Install
<1>3. CASE Pre!Recheck(i)
  <2>1. Untouched(i)
    BY <1>3 DEF Pre!Recheck
  <2>2. RowOK(i)'
    BY <1>3 DEF Pre!Recheck
  <2> QED
    BY <1>3, <2>1, <2>2, <1>0, RowStep DEF Pre!Recheck
<1>4. CASE Pre!Spawn(i)
  <2>1. Untouched(i)
    BY <1>4 DEF Pre!Spawn
  <2>2. RowOK(i)'
    BY <1>4 DEF Pre!Spawn
  <2> QED
    BY <1>4, <2>1, <2>2, <1>0, RowStep DEF Pre!Spawn
<1>5. CASE Pre!MarkRunning(i)
  <2>1. Untouched(i)
    BY <1>5 DEF Pre!MarkRunning
  <2>2. RowOK(i)'
    BY <1>5 DEF Pre!MarkRunning
  <2> QED
    BY <1>5, <2>1, <2>2, <1>0, RowStep DEF Pre!MarkRunning
<1>6. CASE Pre!MarkFails(i)
  <2>1. Untouched(i)
    BY <1>6 DEF Pre!MarkFails
  <2>2. RowOK(i)'
    BY <1>6 DEF Pre!MarkFails
  <2> QED
    BY <1>6, <2>1, <2>2, <1>0, RowStep DEF Pre!MarkFails
<1> QED
  BY <1>1, <1>2, <1>3, <1>4, <1>5, <1>6

(* A preview that ends is registered until its dev server is dead.         *)
LEMMA StoppingKeeps ==
  ASSUME PreInv, NEW i \in Pre!Ids,
         Pre!Stopping(i) \/ Pre!LifetimeOver(i) \/ Pre!ChildExits(i)
  PROVE  PreInv'
<1> USE DEF PreInv, PreTypes, Rows, Entries, RowOK, TakenUp, Registered, Untouched, Pre!Claimed,
        Pre!Finalized, Pre!Alive, Pre!NoEntry, Pre!BeginStop, Pre!Stopping
<1>0. PreTypes'
  BY StopTyped
<1>1. CASE Pre!HonourStop(i)
  <2>1. Untouched(i)
    BY <1>1 DEF Pre!HonourStop
  <2>2. RowOK(i)'
    BY <1>1 DEF Pre!HonourStop
  <2> QED
    BY <1>1, <2>1, <2>2, <1>0, RowStep DEF Pre!HonourStop
<1>2. CASE Pre!LifetimeOver(i)
  <2>1. Untouched(i)
    BY <1>2 DEF Pre!LifetimeOver
  <2>2. RowOK(i)'
    BY <1>2 DEF Pre!LifetimeOver
  <2> QED
    BY <1>2, <2>1, <2>2, <1>0, RowStep DEF Pre!LifetimeOver
<1>3. CASE Pre!SignalStop(i)
  <2>1. Untouched(i)
    BY <1>3 DEF Pre!SignalStop
  <2>2. RowOK(i)'
    BY <1>3 DEF Pre!SignalStop
  <2> QED
    BY <1>3, <2>1, <2>2, <1>0, RowStep DEF Pre!SignalStop
<1>4. CASE Pre!Kill(i)
  <2>1. Untouched(i)
    BY <1>4 DEF Pre!Kill
  <2>2. RowOK(i)'
    BY <1>4 DEF Pre!Kill
  <2> QED
    BY <1>4, <2>1, <2>2, <1>0, RowStep DEF Pre!Kill
<1>5. CASE Pre!Finalize(i)
  <2>1. Untouched(i)
    BY <1>5 DEF Pre!Finalize
  <2>2. RowOK(i)'
    BY <1>5 DEF Pre!Finalize
  <2> QED
    BY <1>5, <2>1, <2>2, <1>0, RowStep DEF Pre!Finalize
<1>6. CASE Pre!ShutDownOne(i)
  <2>1. Untouched(i)
    BY <1>6 DEF Pre!ShutDownOne
  <2>2. RowOK(i)'
    BY <1>6 DEF Pre!ShutDownOne
  <2> QED
    BY <1>6, <2>1, <2>2, <1>0, RowStep DEF Pre!ShutDownOne
<1>7. CASE Pre!ChildExits(i)
  <2>1. Untouched(i)
    BY <1>7 DEF Pre!ChildExits
  <2>2. RowOK(i)'
    BY <1>7 DEF Pre!ChildExits
  <2>3. /\ TakenUp(i)' => TakenUp(i)
        /\ preChild'[i] = "dead"
    BY <1>7 DEF Pre!ChildExits
  <2>4. (preRows[i].status = "absent")' <=> preRows[i].status = "absent"
    BY <1>7 DEF Pre!ChildExits
  <2> QED
    BY <1>0, <2>1, <2>2, <2>3, <2>4, RowStep
<1> QED
  BY <1>1, <1>2, <1>3, <1>4, <1>5, <1>6, <1>7

(* The web only writes what the user wants, and a row behind the others.   *)
LEMMA WebKeeps ==
  ASSUME PreInv, Pre!Web
  PROVE  PreInv'
<1> USE DEF PreInv, PreTypes
<1>1. CASE Pre!Supersede
  <2>1. \A k \in Pre!Ids : /\ preRows'[k].status = preRows[k].status
                          /\ preRows'[k].pid = preRows[k].pid
                          /\ preRows'[k] \in Rows
    BY <1>1 DEF Pre!Supersede, Rows
  <2>2. PreTypes'
    BY <1>1, <2>1 DEF Pre!Supersede
  <2>3. /\ UNCHANGED <<preEngine, preFound, preRun, preActive, preChild>>
        /\ Pre!Created' = Pre!Created
    BY <1>1, <2>1 DEF Pre!Supersede, Pre!Created
  <2>4. (\A k \in Pre!Ids : RowOK(k)') /\ Counted' = Counted
    BY <2>1, <2>3 DEF RowOK, TakenUp, Registered, Counted
  <2> QED
    BY <2>2, <2>3, <2>4, LimitKept DEF RowsInOrder
<1>2. ASSUME NEW i \in Pre!Ids, Pre!RequestStop(i) PROVE PreInv'
  <2>1. PreTypes' /\ Untouched(i)
    BY <1>2 DEF Pre!RequestStop, Rows, Untouched
  <2>2. RowOK(i)'
    BY <1>2 DEF Pre!RequestStop, Rows, RowOK, TakenUp, Registered
  <2> QED
    BY <1>2, <2>1, <2>2, RowStep DEF Pre!RequestStop, Rows, TakenUp, Registered
<1>3. CASE Pre!Create
  <2>1. PICK n \in 0 .. MaxPreviews : Pre!Created = 1 .. n
    BY DEF RowsInOrder
  <2>2. Pre!Cardinality(Pre!Created) = n
    BY <2>1, SameSize, FS_Interval
  <2>3. preRows' = [preRows EXCEPT ![n + 1] =
                      [status |-> "queued", desired |-> "running", pid |-> FALSE]]
    BY <1>3, <2>2 DEF Pre!Create
  <2>4. CASE n + 1 \in Pre!Ids
    <3>1. preRows[n + 1].status = "absent"
      BY <2>1, <2>4 DEF Pre!Created
    <3> DEFINE new == [status |-> "queued", desired |-> "running", pid |-> FALSE]
    <3>0. new \in Rows
      BY DEF Rows
    <3>2. PreTypes'
      BY <1>3, <2>3, <2>4, <3>0 DEF Pre!Create
    <3>3. /\ UNCHANGED <<preEngine, preFound, preRun, preActive, preChild>>
          /\ \A k \in Pre!Ids \ {n + 1} : preRows'[k] = preRows[k]
      BY <1>3, <2>3 DEF Pre!Create
    <3>4. preRows'[n + 1].status = "queued"
      BY <2>3, <2>4
    <3>5. Pre!Created' = 1 .. n + 1 /\ n + 1 \in 0 .. MaxPreviews
      BY SMTT(30), <2>1, <2>4, <3>3, <3>4, PreviewAssumption DEF Pre!Created, Pre!Ids
    <3>6. \A k \in Pre!Ids : RowOK(k)'
      BY <3>1, <3>3, <3>4 DEF RowOK, TakenUp, Registered, Pre!Claimed
    <3>7. Counted' = Counted
      BY <3>3 DEF Counted, TakenUp, Registered
    <3> QED
      BY <3>2, <3>5, <3>6, <3>7, LimitKept DEF RowsInOrder
  <2>5. CASE n + 1 \notin Pre!Ids
    <3>1. UNCHANGED <<preRows, preEngine, preFound, preRun, preActive, preChild>>
      BY <1>3, <2>3, <2>5 DEF Pre!Create
    <3> QED
      BY <3>1 DEF RowsInOrder, Pre!Created, RowOK, TakenUp, Registered, WithinLimit, Counted
  <2> QED
    BY <2>4, <2>5
<1> QED
  BY <1>1, <1>2, <1>3 DEF Pre!Web

(* A row is read only below the limit, while nothing else is being read.   *)
LEMMA FindKeeps ==
  ASSUME PreInv, Pre!FindQueued
  PROVE  PreInv'
<1> USE DEF PreInv, PreTypes
<1>1. PICK i \in Pre!Ids : preRows[i].status = "queued" /\ preFound' = i
  BY DEF Pre!FindQueued
<1>2. UNCHANGED <<preRows, preEngine, preRun, preActive, preChild>> /\ preFound = 0
  BY DEF Pre!FindQueued
<1>3. preEngine = "up"
  BY DEF Pre!FindQueued
<1>4. RowsInOrder' /\ PreTypes'
  BY <1>1, <1>2 DEF RowsInOrder, Pre!Created
<1>5. \A k \in Pre!Ids : RowOK(k)'
  BY <1>1, <1>2, <1>3, PreviewsFinite DEF RowOK, TakenUp, Registered
<1>6. WithinLimit'
  <2> DEFINE Starting == {k \in Pre!Ids : preRun[k] # "idle"}
  <2>1. Counted \subseteq Pre!Registry \cup Starting
    BY <1>2, <1>3, PreviewsFinite DEF Counted, TakenUp, Registered, RowOK, Pre!Registry
  <2>2. Cardinality(Pre!Registry) + Cardinality(Starting) < MaxConcurrent
    BY SameSize DEF Pre!FindQueued, Pre!UnderWay
  <2>3. /\ Pre!Registry \in SUBSET Pre!Ids /\ Starting \in SUBSET Pre!Ids
        /\ Counted \in SUBSET Pre!Ids
    BY DEF Pre!Registry, Counted
  <2> HIDE DEF Starting
  <2>4. Cardinality(Counted) <= Cardinality(Pre!Registry \cup Starting)
    BY <2>1, <2>3, PreviewsFinite, FS_Subset
  <2>5. Cardinality(Pre!Registry \cup Starting)
          <= Cardinality(Pre!Registry) + Cardinality(Starting)
    <3>1. Cardinality(Pre!Registry \cup Starting) = Cardinality(Pre!Registry)
             + Cardinality(Starting) - Cardinality(Pre!Registry \cap Starting)
      BY <2>3, PreviewsFinite, FS_Union
    <3> QED
      BY <3>1, <2>3, PreviewsFinite
  <2>6. Cardinality(Counted) < MaxConcurrent
    BY <2>2, <2>3, <2>4, <2>5, PreviewsFinite, PreviewAssumption
  <2>7. Counted' \subseteq Counted \cup {i}
    BY <1>1, <1>2 DEF Counted, TakenUp, Registered
  <2>8. Cardinality(Counted \cup {i}) <= Cardinality(Counted) + 1
    BY <2>3, PreviewsFinite, FS_AddElement
  <2>9. Cardinality(Counted') <= Cardinality(Counted \cup {i})
    BY <2>3, <2>7, PreviewsFinite, FS_Subset
  <2>10. Counted' \in SUBSET Pre!Ids /\ Counted \cup {i} \in SUBSET Pre!Ids
    BY <2>3 DEF Counted
  <2> QED
    BY <2>3, <2>6, <2>8, <2>9, <2>10, PreviewsFinite, PreviewAssumption DEF WithinLimit
<1> QED
  BY <1>4, <1>5, <1>6

(* What was read starts, or was stopped meanwhile.                         *)
LEMMA ClaimKeeps ==
  ASSUME PreInv, Pre!Claim
  PROVE  PreInv'
<1> USE DEF PreInv, PreTypes
<1>1. preFound \in Pre!Ids
  BY DEF Pre!Claim
<1>2. PreTypes'
  BY <1>1 DEF Pre!Claim, Rows, Runs
<1>3. /\ preFound' = 0 /\ UNCHANGED <<preEngine, preActive, preChild>>
      /\ \A k \in Pre!Ids \ {preFound} : preRows'[k] = preRows[k] /\ preRun'[k] = preRun[k]
  BY <1>1 DEF Pre!Claim
<1>4. \/ UNCHANGED <<preRows, preRun>>
      \/ /\ preRows[preFound].status = "queued"
         /\ preRows'[preFound].status = "starting"
         /\ preRun'[preFound] = "checkout"
  BY <1>1 DEF Pre!Claim, Rows
<1>5. \A k \in Pre!Ids : RowOK(k)'
  BY <1>1, <1>3, <1>4, PreviewsFinite DEF RowOK, TakenUp, Registered, Pre!Claimed
<1>6. Counted' \subseteq Counted /\ Pre!Created' = Pre!Created
  BY <1>1, <1>3, <1>4, PreviewsFinite DEF Counted, TakenUp, Registered, Pre!Created
<1> QED
  BY <1>2, <1>5, <1>6, LimitKept DEF RowsInOrder

(* An engine that dies forgets all it had taken up; the next one looks for *)
(* what was recorded.                                                      *)
LEMMA EngineKeeps ==
  ASSUME PreInv, Pre!ShutDown \/ Pre!Exit \/ Pre!Crash \/ Pre!StartEngine
  PROVE  PreInv'
<1> USE DEF PreInv, PreTypes
<1>1. CASE Pre!ShutDown
  <2>1. PreTypes'
    BY <1>1 DEF Pre!ShutDown, Entries, Pre!ActiveStates
  <2>2. /\ UNCHANGED <<preRows, preFound, preRun, preChild>> /\ preEngine' = "stopping"
        /\ preEngine = "up"
        /\ \A k \in Pre!Ids : \/ preActive'[k] = preActive[k]
                              \/ preActive'[k].at = "doomed" /\ Registered(k)
    BY <1>1 DEF Pre!ShutDown, Registered
  <2>3. \A k \in Pre!Ids : RowOK(k)'
    BY <2>2 DEF RowOK, TakenUp, Registered, Pre!Claimed
  <2>4. Counted' \subseteq Counted /\ Pre!Created' = Pre!Created
    BY <2>2 DEF Counted, TakenUp, Registered, Pre!Created
  <2> QED
    BY <2>1, <2>3, <2>4, LimitKept DEF RowsInOrder
<1>2. ASSUME NEW hook \in BOOLEAN, Pre!Die(hook) PROVE PreInv'
  <2>1. PreTypes'
    BY <1>2 DEF Pre!Die, Runs, Entries, Pre!ActiveStates, Pre!NoEntry
  <2>2. /\ preEngine' = "down" /\ preFound' = 0 /\ UNCHANGED preRows
        /\ \A k \in Pre!Ids : /\ preRun'[k] = "idle" /\ preActive'[k].at = "none"
                               /\ preChild'[k] \in {preChild[k], "dead"}
    BY <1>2 DEF Pre!Die, Pre!NoEntry
  <2>3. \A k \in Pre!Ids : RowOK(k)'
    BY <2>2, PreviewsFinite DEF RowOK, TakenUp, Registered
  <2>4. Counted' \subseteq Counted /\ Pre!Created' = Pre!Created
    BY <2>2, PreviewsFinite DEF Counted, TakenUp, Registered, Pre!Created
  <2> QED
    BY <2>1, <2>3, <2>4, LimitKept DEF RowsInOrder
<1>3. CASE Pre!StartEngine
  <2>1. PreTypes'
    BY <1>3 DEF Pre!StartEngine, Rows
  <2>2. /\ UNCHANGED <<preFound, preRun, preActive>> /\ preEngine' = "up"
        /\ preEngine = "down"
        /\ \A k \in Pre!Ids : \/ preRows'[k] = preRows[k] 
                              \/ preRows'[k].status = "stopped" /\ preRows[k].status # "absent"
    BY <1>3 DEF Pre!StartEngine, Pre!Claimed
  <2>3. \A k \in Pre!Ids : ~TakenUp(k) /\ preChild'[k] # "known"
    BY <1>3, <2>2 DEF RowOK, Pre!StartEngine, Pre!FoundAtStart
  <2>4. \A k \in Pre!Ids : RowOK(k)'
    BY <2>2, <2>3 DEF RowOK, TakenUp, Registered
  <2>5. Counted' \subseteq Counted /\ Pre!Created' = Pre!Created
    BY <2>2, <2>3 DEF Counted, TakenUp, Registered, Pre!Created
  <2> QED
    BY <2>1, <2>4, <2>5, LimitKept DEF RowsInOrder
<1> QED
  BY <1>1, <1>2, <1>3 DEF Pre!Exit, Pre!Crash

LEMMA PreStep ==
  ASSUME PreInv, [Pre!Next]_(Pre!vars)
  PROVE  PreInv'
<1>1. CASE UNCHANGED Pre!vars
  BY <1>1 DEF Pre!vars, PreInv, PreTypes, RowsInOrder, Pre!Created, RowOK, TakenUp,
     Registered, WithinLimit, Counted
<1> QED
  BY <1>1, WebKeeps, FindKeeps, ClaimKeeps, EngineKeeps, StartingKeeps, StoppingKeeps
  DEF Pre!Next

(* However many previews are started, stopped and given up and whenever    *)
(* the engine dies: no more recorded dev servers run than                  *)
(* PREVIEW_MAX_CONCURRENT (preview-engine.ts, preview-service-db.ts).      *)
THEOREM NeverOverCapacity == Spec => []CapacityKept
<1> DEFINE I == part = "preview" => PreInv
<1>1. Init => I
  BY PreInit DEF Init
<1>2. I /\ [Next]_vars => I'
  <2> SUFFICES ASSUME I, [Next]_vars, part' = "preview" PROVE PreInv'
    OBVIOUS
  <2>1. part = "preview" /\ [Pre!Next]_(Pre!vars)
    BY DEF Next, vars, preVars, Pre!vars
  <2> QED
    BY <2>1, PreStep
<1>3. I => CapacityKept
  <2> SUFFICES ASSUME PreInv PROVE Pre!CapacityKept
    BY DEF CapacityKept
  <2> DEFINE Served == {i \in Pre!Ids : preChild[i] = "known"
                                       \/ (Pre!Alive(i) /\ i \in Pre!Registry)}
  <2>1. Served \subseteq Counted /\ Counted \in SUBSET Pre!Ids
    BY DEF Counted, TakenUp, Registered, Pre!Registry
  <2>2. Cardinality(Served) <= Cardinality(Counted)
    BY <2>1, PreviewsFinite, FS_Subset
  <2>3. Served \in SUBSET Pre!Ids
    OBVIOUS
  <2> HIDE DEF Served
  <2>4. Cardinality(Served) <= MaxConcurrent
    BY <2>1, <2>2, <2>3, PreviewsFinite, PreviewAssumption DEF PreInv, WithinLimit
  <2> QED
    BY <2>4, SameSize DEF Pre!CapacityKept, Served
<1>4. Spec => []I
  <2> HIDE DEF I
  <2> QED
    BY <1>1, <1>2, PTL DEF Spec
<1> QED
  BY <1>3, <1>4, PTL

---------------------------------------------------------------------------
(* A job.  It has pushed only what the guardrails let pass, on a branch    *)
(* that only grows, and what its session records of it comes afterwards.   *)

Records ==
    [stage : Job!Stages, base : SUBSET Job!Changes, head : SUBSET Job!Changes,
     dirty : SUBSET Job!Changes, agentOk : BOOLEAN, check : Int, pushed : BOOLEAN,
     sha : BOOLEAN, pr : BOOLEAN, audit : SUBSET (Job!SafetyBlocks \cup {"session_failed"})]

JobTypes ==
    /\ jobSetup \in JobSetups
    /\ jobJobs \in [Jobs -> Records]
    /\ jobRemote \in [exists : BOOLEAN, branch : SUBSET Job!Changes, pull : BOOLEAN]

Unprotected(changes) == \A change \in changes : ~Job!IsProtected(change)

AfterAgent == {"install", "fallback", "checks", "push", "pull", "completed"}

JobOK(j) ==
    LET r == jobJobs[j] IN
    /\ Unprotected(r.base)
    /\ r.stage \in AfterAgent => r.agentOk
    /\ r.pushed => /\ r.head \subseteq jobRemote.branch
                   /\ r.stage \in {"pull"} \cup Job!Ended
                   /\ Job!MayEdit(Job!Permission) /\ ~Job!ProtectedBranch(jobSetup.branch)
    /\ r.stage = "pull" => r.pushed
    /\ r.stage = "completed" => r.pushed /\ jobRemote.pull
    /\ r.sha => r.pushed
    /\ r.audit # {} => ~r.pushed /\ r.stage = "failed"

JobInv == JobTypes /\ Unprotected(jobRemote.branch) /\ \A j \in Jobs : JobOK(j)

(* Only a worker that may edit may use git.                                *)
LEMMA GitNeedsEdit ==
  ASSUME Job!Permitted(<<"git", "add", "-A">>, Job!Permission)
  PROVE  Job!MayEdit(Job!Permission)
<1>1. Job!Rank(jobSetup.level) \in 1 .. 5
  BY DEF Job!Rank, Job!Levels
<1>2. Job!Permission \in {"read_only", "suggest", "execute", "full"}
  BY <1>1 DEF Job!Permission, Job!PermissionOf, Job!Permissions
<1>3. ~Job!Permitted(<<"git", "add", "-A">>, "suggest")
  BY DEF Job!Permitted, Job!AllowedCommands, Job!IsPrefix
<1>4. ~Job!Permitted(<<"git", "add", "-A">>, "read_only")
  BY DEF Job!Permitted, Job!AllowedCommands
<1> QED
  BY <1>2, <1>3, <1>4 DEF Job!MayEdit

LEMMA GuardMeans ==
  ASSUME NEW j \in Jobs, Job!GuardPasses(j)
  PROVE  /\ Unprotected(Job!ChangedFiles(j))
         /\ Job!MayEdit(Job!Permission) /\ ~Job!ProtectedBranch(jobSetup.branch)
  BY GitNeedsEdit DEF Job!GuardPasses, Job!Violations, Job!GitCommands, Unprotected

LEMMA JobInit == Job!Init => JobInv
<1> SUFFICES ASSUME Job!Init PROVE JobInv
  OBVIOUS
<1>1. Job!NewJob \in Records
  BY DEF Job!NewJob, Records, Job!Stages
<1>2. JobTypes
  BY <1>1 DEF Job!Init, JobTypes
<1>3. \A j \in Jobs : JobOK(j)
  BY DEF Job!Init, JobOK, Job!NewJob, Unprotected, AfterAgent
<1> QED
  BY <1>2, <1>3 DEF JobInv, Job!Init, Unprotected

(* A step of one job: its record is written anew, the others see at most   *)
(* that the branch grows and that a pull request is there.                 *)
LEMMA RecordStep ==
  ASSUME JobInv, NEW j \in Jobs, NEW r \in Records,
         jobJobs' = [jobJobs EXCEPT ![j] = r], jobSetup' = jobSetup,
         jobRemote' \in [exists : BOOLEAN, branch : SUBSET Job!Changes, pull : BOOLEAN],
         jobRemote.branch \subseteq jobRemote'.branch, jobRemote.pull => jobRemote'.pull,
         Unprotected(jobRemote'.branch), JobOK(j)'
  PROVE  JobInv'
<1>1. JobTypes'
  BY DEF JobInv, JobTypes
<1>2. Job!Permission' = Job!Permission
  BY DEF Job!Permission
<1>3. ASSUME NEW k \in Jobs, k # j PROVE JobOK(k)'
  <2>1. jobJobs'[k] = jobJobs[k]
    BY <1>3
  <2> QED
    BY <1>2, <2>1 DEF JobInv, JobOK
<1> QED
  BY <1>1, <1>3 DEF JobInv, Unprotected

(* The same, before the push: the branch stays as it is.                   *)
LEMMA LocalStep ==
  ASSUME JobInv, NEW j \in Jobs, NEW r \in Records,
         jobJobs' = [jobJobs EXCEPT ![j] = r], UNCHANGED <<jobSetup, jobRemote>>,
         ~r.pushed, ~r.sha, r.stage \notin {"pull", "completed"}, Unprotected(r.base),
         r.stage \in AfterAgent => r.agentOk, r.audit # {} => r.stage = "failed"
  PROVE  JobInv'
<1>1. jobJobs'[j] = r
  BY DEF JobInv, JobTypes
<1>2. JobOK(j)'
  BY <1>1 DEF JobOK
<1> QED
  BY <1>2, RecordStep DEF JobInv, JobTypes

(* A job that has not pushed.                                              *)
LEMMA BeforePush ==
  ASSUME JobInv, NEW j \in Jobs, jobJobs[j].stage \notin {"pull"} \cup Job!Ended
  PROVE  /\ jobJobs[j] \in Records /\ Unprotected(jobJobs[j].base)
         /\ ~jobJobs[j].pushed /\ ~jobJobs[j].sha /\ jobJobs[j].audit = {}
  BY DEF JobInv, JobTypes, JobOK, Job!Ended

LEMMA OverTyped ==
  ASSUME NEW r \in Records, NEW stage \in Job!Ended
  PROVE  Job!Over(r, stage) \in Records
  BY DEF Job!Over, Records, Job!Ended, Job!Stages

LEMMA EndKeeps ==
  ASSUME JobInv, NEW j \in Jobs, jobJobs[j].stage \notin {"pull"} \cup Job!Ended,
         NEW stage \in {"failed", "lost"}, Job!End(j, stage), UNCHANGED <<jobSetup, jobRemote>>
  PROVE  JobInv'
<1> DEFINE r == Job!Over(jobJobs[j], stage)
<1>1. r \in Records
  BY BeforePush, OverTyped DEF Job!Ended
<1>2. ~r.pushed /\ ~r.sha /\ r.audit = {} /\ r.base = {} /\ r.stage = stage
  BY BeforePush DEF Job!Over, Records
<1>3. jobJobs' = [jobJobs EXCEPT ![j] = r]
  BY DEF Job!End, JobInv, JobTypes
<1> HIDE DEF r
<1> QED
  BY <1>1, <1>2, <1>3, LocalStep DEF Unprotected, AfterAgent

(* The agent and what it does to the checkout.                             *)
LEMMA AgentKeeps ==
  ASSUME JobInv, NEW j \in Jobs,
         \/ Job!Refuse(j) \/ Job!Begin(j) \/ Job!AgentEdits(j) \/ Job!AgentCommits(j)
         \/ Job!Exit(j) \/ Job!LetGo(j) \/ Job!Timeout(j)
  PROVE  JobInv'
<1>0. jobJobs[j] \in Records
  BY DEF JobInv, JobTypes
<1>1. CASE Job!Refuse(j)
  BY <1>1, EndKeeps DEF Job!Refuse, Job!MayBegin, Job!Ended
<1>2. CASE Job!Begin(j)
  <2>1. jobJobs[j].stage = "waiting" /\ UNCHANGED <<jobSetup, jobRemote>>
    BY <1>2 DEF Job!Begin, Job!MayBegin
  <2>2. PICK base \in {jobRemote.branch, {}} :
           jobJobs' = [jobJobs EXCEPT ![j].stage = "agent", ![j].base = base, ![j].head = base]
    BY <1>2 DEF Job!Begin
  <2> DEFINE r == [jobJobs[j] EXCEPT !.stage = "agent", !.base = base, !.head = base]
  <2>3. r \in Records /\ r.stage = "agent" /\ r.base = base /\ r.pushed = jobJobs[j].pushed
        /\ r.sha = jobJobs[j].sha /\ r.audit = jobJobs[j].audit
    BY <1>0, <2>2 DEF Records, Job!Stages, JobInv, JobTypes
  <2>4. Unprotected(base)
    BY <2>2 DEF JobInv, Unprotected
  <2>5. jobJobs' = [jobJobs EXCEPT ![j] = r]
    BY <2>2 DEF JobInv, JobTypes
  <2> HIDE DEF r
  <2> QED
    BY <2>1, <2>3, <2>4, <2>5, BeforePush, LocalStep DEF AfterAgent, Job!Ended
<1>3. CASE Job!AgentEdits(j)
  <2>1. PICK kind \in {"edit", "protected", "hidden"} :
           jobJobs' = [jobJobs EXCEPT ![j].dirty = @ \cup {<<j, kind>>}]
    BY <1>3 DEF Job!AgentEdits
  <2> DEFINE r == [jobJobs[j] EXCEPT !.dirty = @ \cup {<<j, kind>>}]
  <2>2. r \in Records /\ r.stage = "agent" /\ r.base = jobJobs[j].base
        /\ r.pushed = jobJobs[j].pushed /\ r.sha = jobJobs[j].sha /\ r.audit = jobJobs[j].audit
    BY <1>0, <1>3 DEF Records, Job!AgentEdits, Job!Changes, Job!Kinds
  <2>3. jobJobs' = [jobJobs EXCEPT ![j] = r] /\ UNCHANGED <<jobSetup, jobRemote>>
    BY <1>3, <2>1 DEF Job!AgentEdits, JobInv, JobTypes
  <2> HIDE DEF r
  <2> QED
    BY <1>3, <2>2, <2>3, BeforePush, LocalStep DEF AfterAgent, Job!Ended, Job!AgentEdits
<1>4. CASE Job!AgentCommits(j)
  <2>0. ASSUME NEW changes \in Job!Committed(j)
        PROVE  changes \in SUBSET Job!Changes
    <3>1. jobJobs[j].dirty \in SUBSET Job!Changes
      BY <1>0 DEF Records
    <3>2. \A c \in Job!Changes : <<c[1], "protected">> \in Job!Changes
      BY DEF Job!Changes, Job!Kinds
    <3> QED
      BY <2>0, <3>1, <3>2 DEF Job!Committed
  <2>3. PICK changes \in SUBSET Job!Changes :
           jobJobs' = [jobJobs EXCEPT ![j].head = @ \cup changes, ![j].dirty = {}]
    BY <1>4, <2>0 DEF Job!AgentCommits
  <2> DEFINE r == [jobJobs[j] EXCEPT !.head = @ \cup changes, !.dirty = {}]
  <2>1. r \in Records /\ r.stage = "agent" /\ r.base = jobJobs[j].base
        /\ r.pushed = jobJobs[j].pushed /\ r.sha = jobJobs[j].sha /\ r.audit = jobJobs[j].audit
    BY <1>0, <1>4 DEF Records, Job!AgentCommits
  <2>2. jobJobs' = [jobJobs EXCEPT ![j] = r] /\ UNCHANGED <<jobSetup, jobRemote>>
    BY <1>4, <2>3 DEF Job!AgentCommits, JobInv, JobTypes
  <2> HIDE DEF r
  <2> QED
    BY <1>4, <2>1, <2>2, BeforePush, LocalStep DEF AfterAgent, Job!Ended, Job!AgentCommits
<1>5. CASE Job!Exit(j)
  <2>0. \A left \in Job!Leftovers(j) : left \in SUBSET Job!Changes
    <3>1. <<j, "output">> \in Job!Changes /\ <<j, "protected">> \in Job!Changes
      BY DEF Job!Changes, Job!Kinds
    <3>2. CASE jobJobs[j].stage = "agent"
      BY <3>2 DEF Job!Leftovers
    <3>3. CASE jobJobs[j].stage = "install"
      BY <3>1, <3>3 DEF Job!Leftovers
    <3>4. CASE jobJobs[j].stage = "fallback"
      BY <3>1, <3>4 DEF Job!Leftovers
    <3>5. CASE jobJobs[j].stage \notin {"agent", "install", "fallback"}
      BY <3>1, <3>5 DEF Job!Leftovers
    <3> QED
      BY <3>2, <3>3, <3>4, <3>5
  <2>1. PICK left \in SUBSET Job!Changes : jobJobs' = [jobJobs EXCEPT ![j].dirty = @ \cup left]
    BY <1>5, <2>0 DEF Job!Exit
  <2> DEFINE r == [jobJobs[j] EXCEPT !.dirty = @ \cup left]
  <2>2. /\ r \in Records
        /\ \A f \in {"stage", "base", "head", "agentOk", "pushed", "sha", "audit"} :
              r[f] = jobJobs[j][f]
    BY <1>0 DEF Records
  <2>3. jobJobs' = [jobJobs EXCEPT ![j] = r] /\ UNCHANGED <<jobSetup, jobRemote>>
    BY <1>5, <2>1 DEF Job!Exit, JobInv, JobTypes
  <2> HIDE DEF r
  <2>4. jobJobs'[j] = r /\ Job!Permission' = Job!Permission
    BY <2>3 DEF JobInv, JobTypes, Job!Permission
  <2>5. JobOK(j)'
    BY <2>2, <2>3, <2>4 DEF JobInv, JobOK
  <2> QED
    BY <2>2, <2>3, <2>5, RecordStep DEF JobInv, JobTypes
<1>6. CASE Job!LetGo(j) \/ Job!Timeout(j)
  BY <1>6 DEF Job!LetGo, Job!Timeout, JobInv, JobTypes, JobOK, Job!Permission
<1> QED
  BY <1>1, <1>2, <1>3, <1>4, <1>5, <1>6

(* From one process of the job to the next.                                *)
LEMMA NextStageKeeps ==
  ASSUME JobInv, NEW j \in Jobs,
         jobJobs[j].stage \in {"agent", "install", "fallback", "checks"},
         NEW stage \in {"install", "fallback", "checks", "push"}, NEW check \in Int,
         NEW agentOk \in BOOLEAN, agentOk, UNCHANGED <<jobSetup, jobRemote>>,
         jobJobs' = [jobJobs EXCEPT ![j] =
            [jobJobs[j] EXCEPT !.stage = stage, !.check = check, !.agentOk = agentOk]]
  PROVE  JobInv'
<1> DEFINE r == [jobJobs[j] EXCEPT !.stage = stage, !.check = check, !.agentOk = agentOk]
<1>1. jobJobs[j] \in Records
  BY DEF JobInv, JobTypes
<1>2. r \in Records
  BY <1>1 DEF Records, Job!Stages
<1>3. r.stage = stage /\ r.base = jobJobs[j].base /\ r.agentOk
      /\ r.pushed = jobJobs[j].pushed /\ r.sha = jobJobs[j].sha /\ r.audit = jobJobs[j].audit
  BY <1>1 DEF Records
<1>4. jobJobs' = [jobJobs EXCEPT ![j] = r]
  OBVIOUS
<1> HIDE DEF r
<1> QED
  BY <1>2, <1>3, <1>4, BeforePush, LocalStep DEF Job!Ended

LEMMA NextChecksTyped == \A i \in Int : Job!NextChecks(i) \subseteq Int
  BY DEF Job!NextChecks

LEMMA ToChecksKeeps ==
  ASSUME JobInv, NEW j \in Jobs, jobJobs[j].stage \in {"agent", "install", "fallback"},
         Job!ToChecks(j, 1), UNCHANGED <<jobSetup, jobRemote>>
  PROVE  JobInv'
<1>1. PICK next \in Job!NextChecks(1) :
         jobJobs' = IF next = 0
                    THEN [jobJobs EXCEPT ![j].stage = "push", ![j].agentOk = TRUE]
                    ELSE [jobJobs EXCEPT ![j].stage = "checks", ![j].check = next,
                                         ![j].agentOk = TRUE]
  BY DEF Job!ToChecks
<1>2. next \in Int
  BY NextChecksTyped
<1> DEFINE stage == IF next = 0 THEN "push" ELSE "checks"
           check == IF next = 0 THEN jobJobs[j].check ELSE next
<1>3. check \in Int
  BY <1>2 DEF JobInv, JobTypes, Records
<1>4. jobJobs' = [jobJobs EXCEPT ![j] =
            [jobJobs[j] EXCEPT !.stage = stage, !.check = check, !.agentOk = TRUE]]
  BY <1>1 DEF JobInv, JobTypes, Records
<1> HIDE DEF check
<1> QED
  BY <1>3, <1>4, NextStageKeeps

LEMMA ProcessDoneKeeps ==
  ASSUME JobInv, NEW j \in Jobs, Job!AgentDone(j) \/ Job!InstallDone(j) \/ Job!CheckDone(j)
  PROVE  JobInv'
<1>0. jobJobs[j] \in Records /\ UNCHANGED <<jobSetup, jobRemote>>
  BY DEF JobInv, JobTypes, Job!AgentDone, Job!InstallDone, Job!CheckDone
<1>1. CASE Job!AgentDone(j)
  <2>1. CASE ~Job!Success(j)
    BY <1>0, <1>1, <2>1, EndKeeps DEF Job!AgentDone, Job!Ended
  <2>2. CASE Job!Success(j) /\ ~Job!NeedsInstall
    BY <1>0, <1>1, <2>2, ToChecksKeeps DEF Job!AgentDone
  <2>3. CASE Job!Success(j) /\ Job!NeedsInstall
    <3>1. PICK stage \in {"install", "push"} :
             jobJobs' = [jobJobs EXCEPT ![j].stage = stage, ![j].agentOk = TRUE]
      BY <1>1, <2>3 DEF Job!AgentDone
    <3>2. jobJobs' = [jobJobs EXCEPT ![j] =
             [jobJobs[j] EXCEPT !.stage = stage, !.check = jobJobs[j].check, !.agentOk = TRUE]]
      BY <1>0, <3>1 DEF JobInv, JobTypes, Records
    <3>3. jobJobs[j].check \in Int
      BY <1>0 DEF Records
    <3> QED
      BY <1>0, <1>1, <3>2, <3>3, NextStageKeeps DEF Job!AgentDone
  <2> QED
    BY <2>1, <2>2, <2>3
<1>2. CASE Job!InstallDone(j)
  <2>1. CASE Job!Success(j)
    BY <1>0, <1>2, <2>1, ToChecksKeeps DEF Job!InstallDone
  <2>2. CASE ~Job!Success(j)
    <3>1. PICK stage \in {"fallback", "push"} : jobJobs' = [jobJobs EXCEPT ![j].stage = stage]
      BY <1>2, <2>2 DEF Job!InstallDone, Job!Goto
    <3>2. jobJobs[j].agentOk
      BY <1>2 DEF Job!InstallDone, JobInv, JobOK, AfterAgent
    <3>3. jobJobs' = [jobJobs EXCEPT ![j] =
             [jobJobs[j] EXCEPT !.stage = stage, !.check = jobJobs[j].check, !.agentOk = TRUE]]
      BY <1>0, <3>1, <3>2 DEF JobInv, JobTypes, Records
    <3>4. jobJobs[j].check \in Int
      BY <1>0 DEF Records
    <3> QED
      BY <1>0, <1>2, <3>3, <3>4, NextStageKeeps DEF Job!InstallDone
  <2> QED
    BY <2>1, <2>2
<1>3. CASE Job!CheckDone(j)
  <2>1. PICK next \in Job!NextChecks(jobJobs[j].check + 1) :
           jobJobs' = [jobJobs EXCEPT ![j].check = IF next = 0 THEN 1 ELSE next,
                                      ![j].stage = IF next = 0 THEN "push" ELSE "checks"]
    BY <1>3 DEF Job!CheckDone
  <2>2. next \in Int
    <3>1. jobJobs[j].check + 1 \in Int
      BY <1>0 DEF Records
    <3> QED
      BY <3>1, NextChecksTyped
  <2>3. jobJobs[j].agentOk
    BY <1>3 DEF Job!CheckDone, JobInv, JobOK, AfterAgent
  <2> DEFINE stage == IF next = 0 THEN "push" ELSE "checks"
             check == IF next = 0 THEN 1 ELSE next
  <2>4. check \in Int
    BY <2>2
  <2>5. jobJobs' = [jobJobs EXCEPT ![j] =
           [jobJobs[j] EXCEPT !.stage = stage, !.check = check, !.agentOk = TRUE]]
    BY <1>0, <2>1, <2>3 DEF JobInv, JobTypes, Records
  <2> HIDE DEF check
  <2> QED
    BY <1>0, <1>3, <2>4, <2>5, NextStageKeeps DEF Job!CheckDone
<1> QED
  BY <1>1, <1>2, <1>3

(* The push, what is recorded of it, and a worker that dies.               *)
LEMMA PushKeeps ==
  ASSUME JobInv, NEW j \in Jobs, Job!Block(j) \/ Job!NoOp(j) \/ Job!CommitAndPush(j)
  PROVE  JobInv'
<1>0. jobJobs[j] \in Records /\ UNCHANGED jobSetup /\ jobJobs[j].stage = "push"
  BY DEF JobInv, JobTypes, Job!Block, Job!NoOp, Job!CommitAndPush
<1>1. CASE Job!Block(j)
  <2> DEFINE over == Job!Over(jobJobs[j], "failed")
             r == [over EXCEPT !.audit = Job!Logged(j)]
  <2>1. over \in Records
    BY <1>0, OverTyped DEF Job!Ended
  <2>2. over.pushed = jobJobs[j].pushed /\ over.sha = jobJobs[j].sha /\ over.base = {}
        /\ over.stage = "failed"
    BY <1>0 DEF Job!Over, Records
  <2>3. jobJobs' = [jobJobs EXCEPT ![j] = r] /\ UNCHANGED <<jobSetup, jobRemote>>
    BY <1>1 DEF Job!Block
  <2>0. Job!Logged(j) \in SUBSET (Job!SafetyBlocks \cup {"session_failed"})
    BY DEF Job!Logged, Job!Violations, Job!SafetyBlocks
  <2> HIDE DEF over
  <2>4. r \in Records /\ r.pushed = jobJobs[j].pushed /\ r.sha = jobJobs[j].sha /\ r.base = {}
        /\ r.stage = "failed"
    BY <2>0, <2>1, <2>2 DEF Records
  <2> HIDE DEF r
  <2> QED
    BY <1>0, <2>3, <2>4, BeforePush, LocalStep DEF AfterAgent, Job!Ended, Unprotected
<1>2. CASE Job!NoOp(j)
  BY <1>0, <1>2, EndKeeps DEF Job!NoOp, Job!Ended
<1>3. CASE Job!CommitAndPush(j)
  <2> DEFINE head == jobJobs[j].head \cup jobJobs[j].dirty
             kept == [jobJobs[j] EXCEPT !.head = head, !.dirty = {}]
  <2>1. kept \in Records /\ kept.base = jobJobs[j].base /\ kept.head = head
        /\ kept.pushed = jobJobs[j].pushed /\ kept.sha = jobJobs[j].sha
        /\ kept.audit = jobJobs[j].audit /\ kept.agentOk = jobJobs[j].agentOk
    BY <1>0 DEF Records
  <2>2. CASE jobJobs' = [jobJobs EXCEPT ![j] = Job!Over(kept, "failed")] /\ UNCHANGED jobRemote
    <3> DEFINE r == Job!Over(kept, "failed")
    <3>1. r \in Records
      BY <2>1, OverTyped DEF Job!Ended
    <3>2. r.pushed = jobJobs[j].pushed /\ r.sha = jobJobs[j].sha /\ r.base = {}
          /\ r.audit = jobJobs[j].audit /\ r.stage = "failed"
      BY <2>1 DEF Job!Over, Records
    <3>3. jobJobs' = [jobJobs EXCEPT ![j] = r]
      BY <2>2
    <3> HIDE DEF r
    <3> QED
      BY <1>0, <2>2, <3>1, <3>2, <3>3, BeforePush, LocalStep
      DEF AfterAgent, Job!Ended, Unprotected
  <2>3. CASE /\ jobRemote.branch \subseteq head
             /\ jobRemote' = [jobRemote EXCEPT !.exists = TRUE, !.branch = head]
             /\ jobJobs' = [jobJobs EXCEPT ![j] =
                               [kept EXCEPT !.stage = "pull", !.pushed = TRUE]]
    <3> DEFINE r == [kept EXCEPT !.stage = "pull", !.pushed = TRUE]
    <3>1. r \in Records /\ r.base = jobJobs[j].base /\ r.head = head /\ r.pushed
          /\ r.stage = "pull" /\ r.audit = jobJobs[j].audit /\ r.agentOk = jobJobs[j].agentOk
      BY <2>1 DEF Records, Job!Stages
    <3>2. jobJobs' = [jobJobs EXCEPT ![j] = r]
      BY <2>3
    <3>3. head \in SUBSET Job!Changes
      BY <2>1 DEF Records
    <3>4. /\ jobRemote' \in [exists : BOOLEAN, branch : SUBSET Job!Changes, pull : BOOLEAN]
          /\ jobRemote'.branch = head /\ jobRemote'.pull = jobRemote.pull
      BY <2>3, <3>3 DEF JobInv, JobTypes
    <3>5. /\ Unprotected(Job!ChangedFiles(j)) /\ Job!MayEdit(Job!Permission)
          /\ ~Job!ProtectedBranch(jobSetup.branch)
      BY <1>3, GuardMeans DEF Job!CommitAndPush
    <3>6. Unprotected(head)
      BY <3>5 DEF Unprotected, Job!ChangedFiles, JobInv, JobOK
    <3> HIDE DEF r
    <3>7. jobJobs'[j] = r /\ Job!Permission' = Job!Permission
      BY <1>0, <3>2 DEF JobInv, JobTypes, Job!Permission
    <3>8. Job!MayEdit(Job!Permission)'
      BY <3>5, <3>7 DEF Job!MayEdit
    <3>9. JobOK(j)'
      BY <1>0, <3>1, <3>4, <3>5, <3>7, <3>8, BeforePush
      DEF JobInv, JobOK, AfterAgent, Job!Ended, Job!ProtectedBranch
    <3>10. Unprotected(jobRemote'.branch) /\ jobRemote.branch \subseteq jobRemote'.branch
      BY <2>3, <3>4, <3>6 DEF Unprotected
    <3> QED
      BY <1>0, <3>1, <3>2, <3>4, <3>9, <3>10, RecordStep
  <2> QED
    BY <1>3, <2>2, <2>3 DEF Job!CommitAndPush
<1> QED
  BY <1>1, <1>2, <1>3

LEMMA ConcludeKeeps ==
  ASSUME JobInv, NEW j \in Jobs, Job!Conclude(j)
  PROVE  JobInv'
<1>0. /\ jobJobs[j] \in Records /\ UNCHANGED jobSetup /\ jobJobs[j].stage = "pull"
      /\ jobJobs[j].pushed /\ jobJobs[j].audit = {} /\ jobJobs[j].agentOk
      /\ jobJobs[j].head \subseteq jobRemote.branch
      /\ Job!MayEdit(Job!Permission) /\ ~Job!ProtectedBranch(jobSetup.branch)
  BY DEF JobInv, JobTypes, JobOK, AfterAgent, Job!Conclude
<1>1. /\ jobRemote' \in [exists : BOOLEAN, branch : SUBSET Job!Changes, pull : BOOLEAN]
      /\ jobRemote'.branch = jobRemote.branch
      /\ jobRemote.pull => jobRemote'.pull
  BY DEF Job!Conclude, JobInv, JobTypes
<1>2. Job!Permission' = Job!Permission
  BY <1>0 DEF Job!Permission
<1>3. \E r \in Records, stage \in {"completed", "failed"} :
         /\ jobJobs' = [jobJobs EXCEPT ![j] = r]
         /\ r.stage = stage /\ r.base = {} /\ r.pushed /\ r.head = jobJobs[j].head
         /\ r.audit = {} /\ r.agentOk
         /\ stage = "completed" => jobRemote'.pull
  <2>1. ASSUME NEW stage \in {"completed", "failed"}
        PROVE  LET over == Job!Over(jobJobs[j], stage)
               IN  /\ over \in Records /\ over.stage = stage /\ over.base = {} /\ over.pushed
                   /\ over.head = jobJobs[j].head /\ over.audit = {} /\ over.agentOk
    <3>1. Job!Over(jobJobs[j], stage) \in Records
      BY <1>0, OverTyped DEF Job!Ended
    <3> QED
      BY <1>0, <3>1 DEF Job!Over, Records
  <2>2. CASE /\ jobRemote' = [jobRemote EXCEPT !.pull = TRUE]
             /\ jobJobs' = [jobJobs EXCEPT ![j] =
                   [Job!Over(jobJobs[j], "completed") EXCEPT !.sha = TRUE, !.pr = TRUE]]
    <3> DEFINE over == Job!Over(jobJobs[j], "completed")
               r == [over EXCEPT !.sha = TRUE, !.pr = TRUE]
    <3>1. over \in Records /\ over.stage = "completed" /\ over.base = {} /\ over.pushed
          /\ over.head = jobJobs[j].head /\ over.audit = {} /\ over.agentOk
      BY <2>1
    <3>2. jobJobs' = [jobJobs EXCEPT ![j] = r]
      BY <2>2
    <3> HIDE DEF over
    <3>3. /\ r \in Records /\ r.stage = "completed" /\ r.base = {} /\ r.pushed
          /\ r.head = jobJobs[j].head /\ r.audit = {} /\ r.agentOk
      BY <3>1 DEF Records
    <3>4. jobRemote'.pull
      BY <2>2 DEF JobInv, JobTypes
    <3> HIDE DEF r
    <3> QED
      BY <3>2, <3>3, <3>4
  <2>3. CASE Job!End(j, "failed")
    <3> DEFINE over == Job!Over(jobJobs[j], "failed")
               r == over
    <3>1. over \in Records /\ over.stage = "failed" /\ over.base = {} /\ over.pushed
          /\ over.head = jobJobs[j].head /\ over.audit = {} /\ over.agentOk
      BY <2>1
    <3>2. jobJobs' = [jobJobs EXCEPT ![j] = r]
      BY <2>3 DEF Job!End, JobInv, JobTypes
    <3> HIDE DEF over
    <3>3. /\ r \in Records /\ r.stage = "failed" /\ r.base = {} /\ r.pushed
          /\ r.head = jobJobs[j].head /\ r.audit = {} /\ r.agentOk
      BY <3>1 DEF Records
    <3> HIDE DEF r
    <3> QED
      BY <3>2, <3>3
  <2>4. CASE jobJobs' = [jobJobs EXCEPT ![j] =
                           [Job!Over(jobJobs[j], "failed") EXCEPT !.sha = TRUE]]
    <3> DEFINE over == Job!Over(jobJobs[j], "failed")
               r == [over EXCEPT !.sha = TRUE]
    <3>1. over \in Records /\ over.stage = "failed" /\ over.base = {} /\ over.pushed
          /\ over.head = jobJobs[j].head /\ over.audit = {} /\ over.agentOk
      BY <2>1
    <3>2. jobJobs' = [jobJobs EXCEPT ![j] = r]
      BY <2>4
    <3> HIDE DEF over
    <3>3. /\ r \in Records /\ r.stage = "failed" /\ r.base = {} /\ r.pushed
          /\ r.head = jobJobs[j].head /\ r.audit = {} /\ r.agentOk
      BY <3>1 DEF Records
    <3> HIDE DEF r
    <3> QED
      BY <3>2, <3>3
  <2> QED
    BY <2>2, <2>3, <2>4 DEF Job!Conclude
<1>4. PICK r \in Records, stage \in {"completed", "failed"} :
         /\ jobJobs' = [jobJobs EXCEPT ![j] = r]
         /\ r.stage = stage /\ r.base = {} /\ r.pushed /\ r.head = jobJobs[j].head
         /\ r.audit = {} /\ r.agentOk
         /\ stage = "completed" => jobRemote'.pull
  BY <1>3
<1>5. jobJobs'[j] = r
  BY <1>4 DEF JobInv, JobTypes
<1>6. Job!MayEdit(Job!Permission)' /\ ~Job!ProtectedBranch(jobSetup.branch)'
  BY <1>0, <1>2 DEF Job!MayEdit, Job!ProtectedBranch
<1>7. JobOK(j)'
  BY <1>0, <1>1, <1>4, <1>5, <1>6 DEF JobOK, AfterAgent, Job!Ended, Unprotected
<1>8. Unprotected(jobRemote'.branch)
  BY <1>1 DEF JobInv
<1> QED
  BY <1>0, <1>1, <1>4, <1>7, <1>8, RecordStep

(* A dead worker's session is given up; what it has pushed stays.          *)
LEMMA DieKeeps ==
  ASSUME JobInv, NEW j \in Jobs, Job!Die(j)
  PROVE  JobInv'
<1>1. CASE jobJobs[j].stage # "pull"
  BY <1>1, EndKeeps DEF Job!Die
<1>2. CASE jobJobs[j].stage = "pull"
  <2> DEFINE r == Job!Over(jobJobs[j], "lost")
  <2>1. r \in Records
    BY OverTyped DEF JobInv, JobTypes, Job!Ended
  <2>2. r.stage = "lost" /\ r.base = {} /\ r.head = jobJobs[j].head /\ r.pushed /\ r.audit = {}
    BY <1>2 DEF Job!Over, JobInv, JobTypes, JobOK, Records
  <2>3. jobJobs' = [jobJobs EXCEPT ![j] = r] /\ UNCHANGED <<jobSetup, jobRemote>>
    BY DEF Job!Die, Job!End, JobInv, JobTypes
  <2> HIDE DEF r
  <2>4. jobJobs'[j] = r /\ Job!Permission' = Job!Permission
    BY <2>3 DEF JobInv, JobTypes, Job!Permission
  <2>5. JobOK(j)'
    BY <1>2, <2>2, <2>3, <2>4 DEF JobInv, JobOK, AfterAgent, Job!Ended, Unprotected
  <2> QED
    BY <2>1, <2>3, <2>5, RecordStep DEF JobInv, JobTypes
<1> QED
  BY <1>1, <1>2

LEMMA JobNextKeeps ==
  ASSUME JobInv, [Job!Next]_(Job!vars)
  PROVE  JobInv'
<1>1. CASE UNCHANGED Job!vars
  BY <1>1 DEF Job!vars, JobInv, JobTypes, JobOK, Job!Permission
<1> QED
  BY <1>1, AgentKeeps, ProcessDoneKeeps, PushKeeps, ConcludeKeeps, DieKeeps
  DEF Job!Next, Job!JobStep

(* Whichever jobs overlap, fail or die, on whatever repository: the task's *)
(* branch keeps what was pushed and gets nothing protected that git lists  *)
(* by its own path, and a session says "completed", "pushed" or "blocked"  *)
(* only where it is so (worker/index.ts, processSession; repo-manager.ts). *)
THEOREM JobsDeliverSoundly == Spec => []DeliveredSoundly
<1> DEFINE I == part = "job" => JobInv
<1>1. Init => I
  BY JobInit DEF Init
<1>2. I /\ [Next]_vars => I'
  <2> SUFFICES ASSUME I, [Next]_vars, part' = "job" PROVE JobInv'
    OBVIOUS
  <2>1. part = "job" /\ [Job!Next]_(Job!vars)
    BY DEF Next, vars, jobVars, Job!vars
  <2> QED
    BY <2>1, JobNextKeeps
<1>3. I => DeliveredSoundly
  BY DEF DeliveredSoundly, Job!DeliveredSoundly, JobInv, JobOK, Unprotected, AfterAgent,
     Job!Trail, Job!Derived, Job!SafetyBlocks, Records, JobTypes
<1>4. Spec => []I
  <2> HIDE DEF I
  <2> QED
    BY <1>1, <1>2, PTL DEF Spec
<1> QED
  BY <1>3, <1>4, PTL

---------------------------------------------------------------------------
(* The log stream.  The writer has one batch under way at a time, so that  *)
(* what is stored, under way and buffered are three ranges one behind the  *)
(* other; the cursor is at a stored event, and all that comes is behind it.*)

(* Every event has a number the writer has given out.                      *)
Numbered ==
    /\ logSeq \in Nat
    /\ logBuffer \subseteq 1 .. logSeq
    /\ logStored \subseteq 1 .. logSeq
    /\ logBatches \subseteq SUBSET (1 .. logSeq)
    /\ logLink.open \in BOOLEAN
    /\ logLink = [open |-> logLink.open, at |-> logLink.at, last |-> logLink.last,
               status |-> logLink.status, fails |-> logLink.fails]

(* Stored, under way, buffered: in this order, and one batch at a time.    *)
InOrder ==
    /\ \A b, c \in logBatches : b = c
    /\ \A e \in logStored, d \in logBuffer : e < d
    /\ \A b \in logBatches : \A e \in b :
          /\ \A d \in logStored : d < e
          /\ \A d \in logBuffer : e < d

(* The cursor is at the beginning, or at an event that is stored.          *)
CursorStored == logLink.last \in logStored \cup {0}

LogRanges == Numbered /\ InOrder /\ CursorStored /\ Log!NothingSkipped

(* A nonempty set of events has a last one.                                *)
LEMMA HighestIsThere ==
  ASSUME NEW n \in Nat, NEW es \in SUBSET (1 .. n), es # {}
  PROVE  /\ Log!Highest(es) \in es
         /\ \A d \in es : d <= Log!Highest(es)
<1> DEFINE Left == {n - e : e \in es}
<1>1. Left \in SUBSET Nat /\ Left # {}
  <2>1. PICK f \in es : TRUE
    OBVIOUS
  <2>2. \A e \in es : e \in 1 .. n
    OBVIOUS
  <2>3. \A e \in es : n - e \in Nat
    BY <2>2
  <2> QED
    BY <2>1, <2>3
<1>2. PICK x \in Left : \A y \in Left : ~(<<y, x>> \in OpToRel(<, Nat))
  BY <1>1, NatLessThanWellFounded, WFMin
<1>3. PICK e \in es : x = n - e
  OBVIOUS
<1>4. ASSUME NEW d \in es PROVE d <= e
  <2>1. n - d \in Left /\ n - d \in Nat /\ x \in Nat
    BY <1>1
  <2>2. ~(n - d < x)
    BY <1>2, <2>1 DEF OpToRel
  <2>3. d \in Nat /\ e \in Nat
    OBVIOUS
  <2> QED
    BY <2>2, <2>3, <1>3
<1> QED
  BY <1>4 DEF Log!Highest

(* The size of a set, whichever module asks for it.                        *)
LEMMA SameCardinality == \A S : Log!Cardinality(S) = Cardinality(S)
  BY DEF Log!Cardinality, Log!IsFiniteSet, Cardinality, IsFiniteSet

LEMMA UnreadNumbered ==
  ASSUME Numbered
  PROVE  Log!Unread \subseteq 1 .. logSeq /\ IsFiniteSet(Log!Unread)
<1>1. Log!Unread \subseteq 1 .. logSeq
  BY DEF Numbered, Log!Unread
<1>2. IsFiniteSet(1 .. logSeq)
  BY FS_Interval DEF Numbered
<1> QED
  BY <1>1, <1>2, FS_Subset

(* A page is not empty, and leaves out nothing that comes before its end.  *)
LEMMA PageIsPrefix ==
  ASSUME Numbered
  PROVE  /\ Log!Page \subseteq Log!Unread
         /\ Log!Unread # {} => Log!Page # {}
         /\ \A h \in Log!Page, e \in Log!Unread : e <= h => e \in Log!Page
<1> DEFINE Below(e) == {d \in Log!Unread : d < e}
<1>1. Log!Unread \subseteq 1 .. logSeq /\ IsFiniteSet(Log!Unread)
  BY UnreadNumbered
<1>2. \A e : IsFiniteSet(Below(e)) /\ Cardinality(Below(e)) \in Nat
  BY <1>1, FS_Subset, FS_CardinalityType
<1>3. ASSUME NEW h \in Log!Page, NEW e \in Log!Unread, e <= h PROVE e \in Log!Page
  <2>1. Below(e) \subseteq Below(h)
    BY <1>1, <1>3 DEF Log!Page, Numbered
  <2>2. Cardinality(Below(e)) <= Cardinality(Below(h))
    BY <2>1, <1>2, FS_Subset
  <2>3. Cardinality(Below(h)) < PageSize
    BY SameCardinality DEF Log!Page
  <2> QED
    BY <2>2, <2>3, <1>2, PageAssumption, SameCardinality DEF Log!Page
<1>4. ASSUME Log!Unread # {} PROVE Log!Page # {}
  <2> DEFINE Evs == {e \in Nat : e \in Log!Unread}
  <2>1. Evs \in SUBSET Nat /\ Evs # {} /\ Evs = Log!Unread
    BY <1>1, <1>4 DEF Numbered
  <2>2. PICK x \in Evs : \A y \in Evs : ~(<<y, x>> \in OpToRel(<, Nat))
    BY <2>1, NatLessThanWellFounded, WFMin
  <2>3. Below(x) = {}
    BY <2>1, <2>2 DEF OpToRel
  <2>4. Cardinality(Below(x)) < PageSize
    BY <2>3, FS_EmptySet, PageAssumption
  <2> QED
    BY <2>1, <2>4, SameCardinality DEF Log!Page
<1> QED
  BY <1>3, <1>4 DEF Log!Page

LEMMA LogInit == Log!Init => LogRanges
  BY DEF Log!Init, LogRanges, Numbered, InOrder, CursorStored, Log!NothingSkipped, Log!Closed

(* The writer: numbers are given out in order, and what is under way gets  *)
(* into the table, or is lost, before anything behind it is sent.          *)
LEMMA WriterStep ==
  ASSUME LogRanges, UNCHANGED <<Log!reader, logFaults>>,
         \/ Log!Emit \/ Log!Flush \/ Log!AgentEnds \/ Log!EndSession
         \/ \E b \in logBatches : Log!Append(b)
  PROVE  LogRanges'
<1>1. logLink.last \in Nat /\ \A e \in logStored : e \in Nat
  BY DEF LogRanges, Numbered, CursorStored
<1>2. CASE Log!Emit
  <2>1. Numbered'
    BY <1>2 DEF Log!Emit, LogRanges, Numbered, Log!reader
  <2>2. InOrder'
    BY <1>2 DEF Log!Emit, LogRanges, Numbered, InOrder, Log!reader
  <2> QED
    BY <1>2, <2>1, <2>2 DEF Log!Emit, LogRanges, CursorStored, Log!NothingSkipped, Log!reader
<1>3. CASE Log!Flush
  <2>1. Numbered'
    BY <1>3 DEF Log!Flush, Log!MayFlush, LogRanges, Numbered, Log!reader
  <2>2. InOrder'
    BY <1>3 DEF Log!Flush, Log!MayFlush, LogRanges, Numbered, InOrder, Log!reader
  <2> QED
    BY <1>3, <2>1, <2>2 DEF Log!Flush, LogRanges, CursorStored, Log!NothingSkipped, Log!reader
<1>4. ASSUME NEW b \in logBatches, Log!Append(b) PROVE LogRanges'
  <2>1. Numbered'
    BY <1>4 DEF Log!Append, LogRanges, Numbered, Log!reader
  <2>2. logBatches' = {} /\ logStored' = logStored \cup b /\ logBuffer' = logBuffer
    BY <1>4 DEF Log!Append, LogRanges, InOrder
  <2>3. InOrder'
    BY <2>2, <1>4 DEF LogRanges, InOrder
  <2>4. CursorStored' /\ logLink' = logLink /\ logSeen' = logSeen
    BY <2>2, <1>4 DEF LogRanges, CursorStored, Log!Append, Log!reader
  <2>5. \A e \in b : e > logLink.last
    <3>1. \A e \in b : e \in Nat \ {0}
      BY <1>4 DEF LogRanges, Numbered
    <3>2. CASE logLink.last = 0
      BY <3>1, <3>2
    <3>3. CASE logLink.last \in logStored
      BY <3>1, <3>3, <1>1 DEF LogRanges, InOrder
    <3> QED
      BY <3>2, <3>3 DEF LogRanges, CursorStored
  <2>6. \A e \in b : e \in Nat
    BY DEF LogRanges, Numbered
  <2>7. Log!NothingSkipped'
    BY <2>2, <2>4, <2>5, <2>6, <1>1 DEF LogRanges, Log!NothingSkipped
  <2> QED
    BY <2>1, <2>3, <2>4, <2>7 DEF LogRanges
<1>5. CASE Log!AgentEnds \/ Log!EndSession
  BY <1>5 DEF Log!AgentEnds, Log!EndSession, LogRanges, Numbered, InOrder, CursorStored,
     Log!NothingSkipped, Log!reader
<1> QED
  BY <1>2, <1>3, <1>4, <1>5

(* Losses take events away and move nothing past another.                  *)
LEMMA LossStep ==
  ASSUME LogRanges,
         \/ Log!WorkerDies \/ Log!Disconnect \/ Log!ReadFails
         \/ \E b \in logBatches : Log!DropBatch(b)
  PROVE  LogRanges'
<1>1. ASSUME NEW b \in logBatches, Log!DropBatch(b) PROVE LogRanges'
  BY <1>1 DEF Log!DropBatch, LogRanges, Numbered, InOrder, CursorStored, Log!NothingSkipped,
     Log!reader
<1>2. CASE Log!WorkerDies
  BY <1>2 DEF Log!WorkerDies, LogRanges, Numbered, InOrder, CursorStored, Log!NothingSkipped,
     Log!reader
<1>3. CASE Log!Disconnect
  BY <1>3 DEF Log!Disconnect, Log!Closed, Log!writer, LogRanges, Numbered, InOrder, CursorStored,
     Log!NothingSkipped
<1>4. CASE Log!ReadFails
  BY <1>4 DEF Log!ReadFails, Log!Closed, Log!writer, LogRanges, Numbered, InOrder, CursorStored,
     Log!NothingSkipped
<1> QED
  BY <1>1, <1>2, <1>3, <1>4

(* The reader: a page is all that is stored up to its last event.          *)
LEMMA ReaderStep ==
  ASSUME LogRanges, UNCHANGED <<Log!writer, logFaults>>,
         Log!Connect \/ Log!TailEvents \/ Log!TailQuiet \/ Log!TailStatus
  PROVE  LogRanges'
<1>1. CASE Log!Connect
  <2>1. logLink' = [open |-> TRUE, at |-> "read", last |-> 0, status |-> logSession,
                    fails |-> 0]
    BY <1>1 DEF Log!Connect, Log!Closed
  <2>2. /\ logStored' = logStored /\ logBuffer' = logBuffer /\ logBatches' = logBatches
        /\ logSeq' = logSeq /\ logSeen' = logSeen
    BY <1>1 DEF Log!Connect, Log!writer
  <2>3. \A e \in logStored : ~(e <= 0)
    BY DEF LogRanges, Numbered
  <2>4. Numbered' /\ InOrder'
    BY <2>1, <2>2 DEF LogRanges, Numbered, InOrder
  <2>5. CursorStored' /\ Log!NothingSkipped'
    BY <2>1, <2>2, <2>3 DEF CursorStored, Log!NothingSkipped
  <2> QED
    BY <2>4, <2>5 DEF LogRanges
<1>2. CASE Log!TailQuiet
  BY <1>2 DEF Log!TailQuiet, Log!writer, LogRanges, Numbered, InOrder, CursorStored,
     Log!NothingSkipped
<1>3. CASE Log!TailStatus
  <2>1. /\ logStored' = logStored /\ logBuffer' = logBuffer /\ logBatches' = logBatches
        /\ logSeq' = logSeq /\ logSeen' = logSeen
    BY <1>3 DEF Log!TailStatus, Log!Push, Log!writer
  <2>2. CASE logLink' = Log!Closed
    BY <2>1, <2>2 DEF Log!Closed, LogRanges, Numbered, InOrder, CursorStored, Log!NothingSkipped
  <2>3. CASE logLink' = [logLink EXCEPT !.at = "read", !.status = Log!FreshStatus, !.fails = 0]
    <3>1. logLink'.last = logLink.last /\ logLink'.open = logLink.open /\ Numbered'
      BY <2>1, <2>3 DEF LogRanges, Numbered
    <3> QED
      BY <2>1, <3>1 DEF LogRanges, InOrder, CursorStored, Log!NothingSkipped
  <2> QED
    BY <1>3, <2>2, <2>3 DEF Log!TailStatus
<1>4. CASE Log!TailEvents
  <2>1. /\ Log!Page \subseteq Log!Unread /\ Log!Page # {}
        /\ \A h \in Log!Page, e \in Log!Unread : e <= h => e \in Log!Page
    BY <1>4, PageIsPrefix DEF Log!TailEvents, LogRanges
  <2>2. Log!Page \in SUBSET (1 .. logSeq) /\ logSeq \in Nat
    BY <2>1, UnreadNumbered DEF LogRanges, Numbered
  <2>3. Log!Highest(Log!Page) \in Log!Page
    BY <2>1, <2>2, HighestIsThere
  <2>4. logSeen' = logSeen \cup Log!Page
    BY <1>4 DEF Log!TailEvents, Log!Push
  <2>5. UNCHANGED <<logStored, logBuffer, logBatches, logSeq>>
    BY <1>4 DEF Log!TailEvents, Log!writer
  <2>6. CASE logLink' = Log!Closed
    BY <2>4, <2>5, <2>6 DEF Log!Closed, LogRanges, Numbered, InOrder, CursorStored,
       Log!NothingSkipped
  <2>7. CASE logLink' = [logLink EXCEPT !.last = Log!Highest(Log!Page), !.fails = 0]
    <3>1. /\ logLink'.last = Log!Highest(Log!Page) /\ logLink'.open = logLink.open
          /\ Numbered'
      BY <2>5, <2>7 DEF LogRanges, Numbered
    <3>2. InOrder'
      BY <2>5 DEF LogRanges, InOrder
    <3>3. CursorStored'
      BY <3>1, <2>1, <2>3, <2>5 DEF CursorStored, Log!Unread
    <3>4. logLink.open
      BY <1>4 DEF Log!TailEvents
    <3>5. ASSUME NEW e \in logStored, e <= Log!Highest(Log!Page) PROVE e \in logSeen'
      <4>1. CASE e > logLink.last
        BY <4>1, <3>5, <2>1, <2>3, <2>4 DEF Log!Unread
      <4>2. CASE ~(e > logLink.last)
        BY <4>2, <3>4, <2>4 DEF LogRanges, Numbered, CursorStored, Log!NothingSkipped
      <4> QED
        BY <4>1, <4>2
    <3>6. Log!NothingSkipped'
      BY <3>1, <3>5, <2>5 DEF Log!NothingSkipped
    <3> QED
      BY <3>1, <3>2, <3>3, <3>6 DEF LogRanges
  <2> QED
    BY <1>4, <2>6, <2>7 DEF Log!TailEvents
<1> QED
  BY <1>1, <1>2, <1>3, <1>4

LEMMA LogStep ==
  ASSUME LogRanges, [Log!Next]_(Log!vars)
  PROVE  LogRanges'
<1>1. CASE \/ Log!Emit \/ Log!Flush \/ Log!AgentEnds \/ Log!EndSession
           \/ \E b \in logBatches : Log!Append(b)
  BY <1>1, WriterStep DEF Log!Emit, Log!Flush, Log!AgentEnds, Log!EndSession, Log!Append
<1>2. CASE \/ Log!WorkerDies \/ Log!Disconnect \/ Log!ReadFails
           \/ \E b \in logBatches : Log!DropBatch(b)
  BY <1>2, LossStep
<1>3. CASE Log!Connect \/ Log!TailEvents \/ Log!TailQuiet \/ Log!TailStatus
  BY <1>3, ReaderStep DEF Log!Connect, Log!TailEvents, Log!TailQuiet, Log!TailStatus
<1>4. CASE UNCHANGED Log!vars
  BY <1>4 DEF Log!vars, Log!writer, Log!reader, LogRanges, Numbered, InOrder, CursorStored,
     Log!NothingSkipped
<1> QED
  BY <1>1, <1>2, <1>3, <1>4 DEF Log!Next

(* In the behaviours that look at the stream.                              *)
LogInv == part = "logs" => LogRanges

LEMMA LogInvInit == Init => LogInv
  BY LogInit DEF Init, LogInv

LEMMA LogInvStep ==
  ASSUME LogInv, [Next]_vars
  PROVE  LogInv'
<1>1. CASE part' = "logs"
  <2>1. part = "logs" /\ [Log!Next]_(Log!vars)
    BY <1>1 DEF Next, vars, logVars, Log!vars, Log!writer, Log!reader
  <2> QED
    BY <2>1, LogStep DEF LogInv
<1> QED
  BY <1>1 DEF LogInv

(* However many events, failed writes, crashes, lost links and reads there *)
(* are: no stored event up to the cursor is one that the client was not    *)
(* sent (session-log-streamer.ts, the stream route).                       *)
THEOREM NeverSkips == Spec => []NothingSkipped
<1>1. LogInv => NothingSkipped
  BY DEF LogInv, LogRanges, NothingSkipped
<1>2. Spec => []LogInv
  BY LogInvInit, LogInvStep, PTL DEF Spec
<1> QED
  BY <1>1, <1>2, PTL
=============================================================================
