--------------------------- MODULE RecordsProofs ---------------------------
(***************************************************************************)
(* Proofs about what the services record (MCRecords), for any number of    *)
(* tabs, tasks, releases and founders: a release is only ever marked       *)
(* released, and its work archived, with its checklist complete            *)
(* (ShipsByTheBook); a founder has one company, with its whole staff, that *)
(* acts by itself only if told to (CompanyFoundedOnce); connections and    *)
(* repositories are what the pages say of them (ConnectionsStayHonest);    *)
(* a day of the company's health is kept once and counts no more than was  *)
(* done (HealthStaysHonest); what the CEO says in a conversation is kept   *)
(* and answered with what is so (ThreadStaysKept).  WorkProofs has the     *)
(* other services.                                                         *)
(***************************************************************************)
EXTENDS MCRecords, FiniteSetTheorems, SequenceTheorems, WellFoundedInduction, TLAPS

---------------------------------------------------------------------------
(* Releases.  A tab reads a release and writes it in a later step, while   *)
(* others untick its checklist: what counts is that the release was once   *)
(* complete, and that what is deployed stays deployed.                     *)

RelRecords ==
    [done : BOOLEAN, approved : BOOLEAN, passed : BOOLEAN,
     review : {"none", "approved", "changes_requested"}, qa : {"none", "passed"},
     openRequest : BOOLEAN, validated : BOOLEAN, pr : BOOLEAN]

RelRelease ==
    [status : {"draft", "ready", "released"}, deployed : BOOLEAN,
     items : SUBSET Rel!Checklist, checklist : SUBSET Rel!Checklist,
     tasks : SUBSET RelTasks, outcome : BOOLEAN]

RelTabs ==
    {Rel!Idle}
    \cup [at : {"assess"}, left : SUBSET RelTasks, in : SUBSET RelTasks, tested : BOOLEAN]
    \cup [at : {"release"}, of : Nat, outcome : BOOLEAN]
    \cup [at : {"outcome"}, read : {"none", "active"}]
    \cup [at : {"tasks"}, of : Nat, tasks : SUBSET RelTasks]

RelRows ==
    /\ relRecords \in [RelTasks -> RelRecords]
    /\ relReleases \in Seq(RelRelease)
    /\ relTicked \subseteq DOMAIN relReleases
    /\ relOutcome \in {"active", "released", "archived"}
    /\ relTab \in [Tabs -> RelTabs]

Shipped ==
    \E i \in DOMAIN relReleases : relReleases[i].outcome /\ relReleases[i].deployed

RelBook ==
    /\ \A i \in DOMAIN relReleases :
          relReleases[i].deployed \/ Rel!Ready(relReleases[i]) => i \in relTicked
    /\ relOutcome = "released" => Shipped

(* What a tab has made sure of when it goes on to its next step.           *)
RelAt(s) ==
    /\ relTab[s].at = "release" =>
          relTab[s].of \in relTicked /\ relTab[s].outcome = relReleases[relTab[s].of].outcome
    /\ relTab[s].at = "outcome" => Shipped
    /\ relTab[s].at = "tasks" => relTab[s].of \in DOMAIN relReleases

RelInv == RelRows /\ RelBook /\ \A s \in Tabs : RelAt(s)

(* What no step takes back.                                                *)
RelKeeps ==
    /\ DOMAIN relReleases \subseteq DOMAIN relReleases' /\ relTicked \subseteq relTicked'
    /\ \A i \in DOMAIN relReleases :
          /\ relReleases[i].deployed => relReleases'[i].deployed
          /\ relReleases'[i].outcome = relReleases[i].outcome

LEMMA RelStep ==
  ASSUME RelInv, NEW s \in Tabs, RelKeeps, RelRows', RelBook', RelAt(s)',
         \A u \in Tabs \ {s} : relTab'[u] = relTab[u]
  PROVE  RelInv'
<1>1. Shipped => Shipped'
  BY DEF RelKeeps, Shipped
<1>2. \A u \in Tabs \ {s} : RelAt(u)'
  BY <1>1 DEF RelInv, RelRows, RelAt, RelKeeps
<1> QED
  BY <1>2 DEF RelInv

(* A tab goes on, and no release is written.                               *)
LEMMA RelTabMoves ==
  ASSUME RelInv, NEW s \in Tabs, NEW new \in RelTabs,
         relTab' = [relTab EXCEPT ![s] = new],
         UNCHANGED <<relRecords, relReleases, relOutcome, relTicked>>,
         new.at = "release" =>
             new.of \in relTicked /\ new.outcome = relReleases[new.of].outcome,
         new.at = "outcome" => Shipped,
         new.at = "tasks" => new.of \in DOMAIN relReleases
  PROVE  RelInv'
<1>1. relTab' \in [Tabs -> RelTabs] /\ relTab'[s] = new
  BY DEF RelInv, RelRows
<1>2. RelRows' /\ RelBook' /\ RelKeeps
  BY <1>1 DEF RelInv, RelRows, RelBook, RelKeeps, Shipped
<1>3. RelAt(s)'
  BY <1>1 DEF RelAt, Shipped
<1> QED
  BY <1>2, <1>3, RelStep DEF RelInv, RelRows

LEMMA RelCreated ==
  ASSUME RelInv, NEW release \in RelRelease, ~release.deployed, Rel!Created(release),
         NEW s \in Tabs, relTab' = [relTab EXCEPT ![s] = Rel!Idle],
         UNCHANGED <<relRecords, relOutcome>>
  PROVE  RelInv'
<1> DEFINE n == Len(relReleases) + 1
<1>1. /\ relReleases' \in Seq(RelRelease) /\ n \in DOMAIN relReleases'
      /\ DOMAIN relReleases' = DOMAIN relReleases \cup {n}
      /\ \A i \in DOMAIN relReleases : relReleases'[i] = relReleases[i]
      /\ relReleases'[n] = release /\ Len(relReleases') = n
  BY DEF RelInv, RelRows, Rel!Created
<1>2. relTicked' = IF Rel!Ready(release) THEN relTicked \cup {n} ELSE relTicked
  BY <1>1 DEF Rel!Created, Rel!Ready
<1> HIDE DEF n
<1>3. relTab' \in [Tabs -> RelTabs] /\ relTab'[s] = Rel!Idle
  BY DEF RelInv, RelRows, RelTabs
<1>4. RelRows' /\ RelKeeps
  BY <1>1, <1>2, <1>3 DEF RelInv, RelRows, RelKeeps
<1>5. RelBook'
  <2>1. Shipped => Shipped'
    BY <1>4 DEF RelKeeps, Shipped
  <2> QED
    BY <1>1, <1>2, <2>1 DEF RelInv, RelBook
<1>6. RelAt(s)'
  BY <1>3 DEF RelAt, Rel!Idle
<1> QED
  BY <1>3, <1>4, <1>5, <1>6, RelStep DEF RelInv, RelRows

(* One row is written over.                                                *)
LEMMA RelWritten ==
  ASSUME RelInv, NEW i \in DOMAIN relReleases, NEW release \in RelRelease,
         relReleases' = [relReleases EXCEPT ![i] = release],
         relReleases[i].deployed => release.deployed,
         release.outcome = relReleases[i].outcome,
         release.deployed \/ Rel!Ready(release) => i \in relTicked',
         relTicked' \in {relTicked, relTicked \cup {i}},
         NEW s \in Tabs, NEW new \in RelTabs, relTab' = [relTab EXCEPT ![s] = new],
         new.at = "outcome" => Shipped \/ (release.outcome /\ release.deployed),
         new.at \notin {"release", "tasks"},
         UNCHANGED <<relRecords, relOutcome>>
  PROVE  RelInv'
<1>1. /\ relReleases' \in Seq(RelRelease)
      /\ DOMAIN relReleases' = DOMAIN relReleases
      /\ \A j \in DOMAIN relReleases :
            relReleases'[j] = IF j = i THEN release ELSE relReleases[j]
  BY ExceptSeq DEF RelInv, RelRows
<1>2. relTab' \in [Tabs -> RelTabs] /\ relTab'[s] = new
  BY DEF RelInv, RelRows
<1>3. RelRows' /\ RelKeeps
  BY <1>1, <1>2 DEF RelInv, RelRows, RelKeeps
<1>4. Shipped => Shipped'
  BY <1>3 DEF RelKeeps, Shipped
<1>5. RelBook'
  BY <1>1, <1>4 DEF RelInv, RelBook
<1>6. RelAt(s)'
  BY <1>1, <1>2, <1>4 DEF RelAt, Shipped
<1> QED
  BY <1>2, <1>3, <1>5, <1>6, RelStep DEF RelInv, RelRows

LEMMA RelTabKeeps ==
  ASSUME RelInv, NEW s \in Tabs, Rel!InTab(s)
  PROVE  RelInv'
<1>1. /\ relTab \in [Tabs -> RelTabs] /\ relTab[s] \in RelTabs /\ RelAt(s)
      /\ relReleases \in Seq(RelRelease) /\ relRecords \in [RelTasks -> RelRecords]
      /\ relOutcome \in {"active", "released", "archived"}
      /\ relTicked \subseteq DOMAIN relReleases
      /\ Rel!Idle \in RelTabs /\ Rel!Idle.at = "idle"
  BY DEF RelInv, RelRows, RelTabs, Rel!Idle
<1>2. CASE Rel!BeginCandidate(s)
  <2>1. PICK ts \in SUBSET RelTasks \ {{}} :
          relTab' = [relTab EXCEPT ![s] =
              [at |-> "assess", left |-> ts, in |-> {}, tested |-> FALSE]]
    BY <1>2 DEF Rel!BeginCandidate
  <2> DEFINE new == [at |-> "assess", left |-> ts, in |-> {}, tested |-> FALSE]
  <2>2. new \in RelTabs /\ new.at = "assess"
    BY DEF RelTabs
  <2> QED
    BY <1>2, <2>1, <2>2, RelTabMoves DEF Rel!BeginCandidate
<1>3. CASE Rel!Assess(s)
  <2>1. PICK t \in relTab[s].left :
          relTab' = [relTab EXCEPT ![s].left = @ \ {t},
              ![s].in = IF Rel!Eligible(relRecords[t]) THEN @ \cup {t} ELSE @,
              ![s].tested = @ \/ (Rel!Eligible(relRecords[t]) /\ relRecords[t].validated)]
    BY <1>3 DEF Rel!Assess
  <2> DEFINE new == [relTab[s] EXCEPT !.left = @ \ {t},
              !.in = IF Rel!Eligible(relRecords[t]) THEN @ \cup {t} ELSE @,
              !.tested = @ \/ (Rel!Eligible(relRecords[t]) /\ relRecords[t].validated)]
  <2>2. relTab[s] \in [at : {"assess"}, left : SUBSET RelTasks, in : SUBSET RelTasks,
                       tested : BOOLEAN]
    BY <1>1, <1>3 DEF Rel!Assess, RelTabs, Rel!Idle
  <2>3. relRecords[t].validated \in BOOLEAN /\ t \in RelTasks
    BY <1>1, <2>1, <2>2 DEF RelRecords
  <2>4. new \in [at : {"assess"}, left : SUBSET RelTasks, in : SUBSET RelTasks,
                 tested : BOOLEAN]
    BY <2>2, <2>3
  <2>5. relTab' = [relTab EXCEPT ![s] = new]
    BY <1>1, <2>1
  <2> HIDE DEF new
  <2>6. new \in RelTabs /\ new.at = "assess"
    BY <2>4 DEF RelTabs
  <2> QED
    BY <1>3, <2>5, <2>6, RelTabMoves DEF Rel!Assess
<1>4. CASE Rel!CreateCandidate(s)
  <2>1. relTab[s].in \subseteq RelTasks
    BY <1>1, <1>4 DEF Rel!CreateCandidate, RelTabs, Rel!Idle
  <2>2. CASE UNCHANGED <<relReleases, relTicked>>
    BY <1>1, <1>4, <2>2, RelTabMoves DEF Rel!CreateCandidate
  <2>3. ASSUME NEW checked \in SUBSET Rel!Checklist,
               Rel!Created([status |-> Rel!StatusOf(Rel!Checklist, checked),
                            deployed |-> FALSE, items |-> Rel!Checklist,
                            checklist |-> checked, tasks |-> relTab[s].in,
                            outcome |-> TRUE])
        PROVE  RelInv'
    <3> DEFINE release == [status |-> Rel!StatusOf(Rel!Checklist, checked),
                           deployed |-> FALSE, items |-> Rel!Checklist,
                           checklist |-> checked, tasks |-> relTab[s].in,
                           outcome |-> TRUE]
    <3>1. release \in RelRelease /\ ~release.deployed /\ Rel!Created(release)
      BY <2>1, <2>3 DEF RelRelease, Rel!StatusOf
    <3> HIDE DEF release
    <3> QED
      BY <1>4, <3>1, RelCreated DEF Rel!CreateCandidate
  <2> QED
    BY <1>4, <2>2, <2>3 DEF Rel!CreateCandidate, Rel!Checklist
<1>5. CASE Rel!CreateRelease(s)
  <2> DEFINE release == [status |-> "draft", deployed |-> FALSE,
                         items |-> Rel!Checklist, checklist |-> {}, tasks |-> {},
                         outcome |-> FALSE]
  <2>1. release \in RelRelease /\ ~release.deployed /\ Rel!Created(release)
    BY <1>5 DEF RelRelease, Rel!CreateRelease
  <2>2. relTab' = [relTab EXCEPT ![s] = Rel!Idle]
    BY <1>1, <1>5 DEF Rel!CreateRelease
  <2> HIDE DEF release
  <2> QED
    BY <1>5, <2>1, <2>2, RelCreated DEF Rel!CreateRelease
<1>6. CASE Rel!MarkReleased(s)
  <2> DEFINE i   == relTab[s].of
             new == IF relTab[s].outcome THEN [at |-> "outcome", read |-> "none"]
                    ELSE Rel!Idle
             release == [relReleases[i] EXCEPT !.status = "released", !.deployed = TRUE]
  <2>1. /\ i \in DOMAIN relReleases /\ i \in relTicked
        /\ relTab[s].outcome = relReleases[i].outcome
    BY <1>1, <1>6 DEF RelAt, Rel!MarkReleased
  <2>2. relReleases[i] \in RelRelease
    BY <1>1, <2>1
  <2>3. /\ release \in RelRelease /\ release.deployed
        /\ release.outcome = relReleases[i].outcome
    BY <2>2 DEF RelRelease
  <2>4. relReleases' = [relReleases EXCEPT ![i] = release]
    BY <1>1, <1>6, <2>1 DEF Rel!MarkReleased
  <2>5. /\ new \in RelTabs /\ new.at \in {"idle", "outcome"}
        /\ new.at = "outcome" => relTab[s].outcome
    BY <1>1 DEF RelTabs
  <2>6. relTab' = [relTab EXCEPT ![s] = new]
    BY <1>6 DEF Rel!MarkReleased
  <2> HIDE DEF i, new, release
  <2>7. /\ relTicked' = relTicked /\ UNCHANGED <<relRecords, relOutcome>>
        /\ new.at = "outcome" => release.outcome /\ release.deployed
        /\ new.at \notin {"release", "tasks"}
    BY <1>6, <2>1, <2>3, <2>5 DEF Rel!MarkReleased
  <2> QED
    BY <2>1, <2>3, <2>4, <2>5, <2>6, <2>7, RelWritten
<1>7. CASE Rel!ReadOutcome(s)
  <2> DEFINE new == IF relOutcome \in {"released", "archived"} THEN Rel!Idle
                    ELSE [at |-> "outcome", read |-> relOutcome]
  <2>1. /\ new \in RelTabs /\ new.at \in {"idle", "outcome"}
        /\ relTab' = [relTab EXCEPT ![s] = new] /\ Shipped
    BY <1>1, <1>7 DEF Rel!ReadOutcome, RelTabs, RelAt
  <2> HIDE DEF new
  <2> QED
    BY <1>7, <2>1, RelTabMoves DEF Rel!ReadOutcome
<1>8. CASE Rel!MarkOutcome(s)
  <2>1. Shipped
    BY <1>1, <1>8 DEF RelAt, Rel!MarkOutcome
  <2>2. relTab' \in [Tabs -> RelTabs] /\ relTab'[s] = Rel!Idle
    BY <1>1, <1>8 DEF Rel!MarkOutcome
  <2>3. RelRows' /\ RelBook' /\ RelKeeps
    BY <1>8, <2>1, <2>2 DEF Rel!MarkOutcome, RelInv, RelRows, RelBook, RelKeeps, Shipped
  <2>4. RelAt(s)'
    BY <1>1, <2>2 DEF RelAt
  <2> QED
    BY <1>1, <1>8, <2>3, <2>4, RelStep DEF Rel!MarkOutcome
<1>9. CASE Rel!OutcomeFails(s)
  BY <1>1, <1>9, RelTabMoves DEF Rel!OutcomeFails
<1>10. CASE Rel!WriteTasks(s)
  <2> DEFINE i == relTab[s].of
             release == [relReleases[i] EXCEPT !.tasks = relTab[s].tasks]
  <2>1. i \in DOMAIN relReleases /\ relTab[s].tasks \subseteq RelTasks
    BY <1>1, <1>10 DEF RelAt, Rel!WriteTasks, RelTabs, Rel!Idle
  <2>2. relReleases[i] \in RelRelease
    BY <1>1, <2>1
  <2>3. /\ release \in RelRelease
        /\ release.deployed = relReleases[i].deployed
        /\ release.outcome = relReleases[i].outcome
        /\ release.checklist = relReleases[i].checklist
        /\ release.items = relReleases[i].items
    BY <2>1, <2>2 DEF RelRelease
  <2>4. relReleases' = [relReleases EXCEPT ![i] = release]
    BY <1>1, <1>10, <2>1 DEF Rel!WriteTasks
  <2>5. release.deployed \/ Rel!Ready(release) => i \in relTicked
    BY <2>1, <2>3 DEF RelInv, RelBook, Rel!Ready
  <2> HIDE DEF i, release
  <2>6. /\ relTicked' = relTicked /\ UNCHANGED <<relRecords, relOutcome>>
        /\ relTab' = [relTab EXCEPT ![s] = Rel!Idle]
    BY <1>10 DEF Rel!WriteTasks
  <2> QED
    BY <1>1, <2>1, <2>3, <2>4, <2>5, <2>6, RelWritten
<1>11. ASSUME NEW i \in DOMAIN relReleases, Rel!UpdateChecklist(s, i)
       PROVE  RelInv'
  <2>1. PICK items, checked :
          /\ items \subseteq Rel!Checklist /\ checked \subseteq items
          /\ relReleases' = [relReleases EXCEPT ![i].items = items,
                                                ![i].checklist = checked,
                                                ![i].status = Rel!StatusOf(items, checked)]
          /\ relTicked' = IF Rel!Complete(items, checked) THEN relTicked \cup {i}
                          ELSE relTicked
    BY <1>11 DEF Rel!UpdateChecklist
  <2> DEFINE release == [relReleases[i] EXCEPT !.items = items, !.checklist = checked,
                                               !.status = Rel!StatusOf(items, checked)]
  <2>2. relReleases[i] \in RelRelease
    BY <1>1
  <2>3. /\ release \in RelRelease
        /\ release.deployed = relReleases[i].deployed
        /\ release.outcome = relReleases[i].outcome
        /\ release.checklist = checked /\ release.items = items
    BY <2>1, <2>2 DEF RelRelease, Rel!StatusOf
  <2>4. relReleases' = [relReleases EXCEPT ![i] = release]
    BY <1>1, <2>1
  <2>5. release.deployed \/ Rel!Ready(release) => i \in relTicked'
    BY <2>1, <2>3 DEF RelInv, RelBook, Rel!Ready
  <2>6. relTab' = [relTab EXCEPT ![s] = Rel!Idle]
    BY <1>1, <1>11 DEF Rel!UpdateChecklist
  <2> HIDE DEF release
  <2>7. relTicked' \in {relTicked, relTicked \cup {i}} /\ UNCHANGED <<relRecords, relOutcome>>
    BY <1>11, <2>1 DEF Rel!UpdateChecklist
  <2> QED
    BY <1>1, <2>3, <2>4, <2>5, <2>6, <2>7, RelWritten
<1>12. ASSUME NEW i \in DOMAIN relReleases, Rel!ReadToRelease(s, i)
       PROVE  RelInv'
  <2> DEFINE new == [at |-> "release", of |-> i, outcome |-> relReleases[i].outcome]
  <2>1. relReleases[i] \in RelRelease /\ i \in Nat /\ i \in relTicked
    BY <1>1, <1>12 DEF RelInv, RelBook, Rel!ReadToRelease
  <2>2. /\ new \in RelTabs /\ new.at = "release" /\ new.of = i
        /\ new.outcome = relReleases[i].outcome
    BY <2>1 DEF RelTabs, RelRelease
  <2>3. relTab' = [relTab EXCEPT ![s] = new]
    BY <1>12 DEF Rel!ReadToRelease
  <2> HIDE DEF new
  <2> QED
    BY <1>12, <2>1, <2>2, <2>3, RelTabMoves DEF Rel!ReadToRelease
<1>13. ASSUME NEW i \in DOMAIN relReleases, Rel!ReadTasks(s, i)
       PROVE  RelInv'
  <2>1. relReleases[i].tasks \subseteq RelTasks /\ i \in Nat
    <3>1. relReleases[i] \in RelRelease /\ i \in 1 .. Len(relReleases)
      BY <1>1
    <3> QED
      BY <3>1 DEF RelRelease
  <2>2. PICK ts \in SUBSET RelTasks :
          relTab' = [relTab EXCEPT ![s] = [at |-> "tasks", of |-> i, tasks |-> ts]]
    BY <1>13, <2>1 DEF Rel!ReadTasks
  <2> DEFINE new == [at |-> "tasks", of |-> i, tasks |-> ts]
  <2>3. new \in RelTabs /\ new.at = "tasks" /\ new.of = i
    BY <2>1 DEF RelTabs
  <2> QED
    BY <1>13, <2>2, <2>3, RelTabMoves DEF Rel!ReadTasks
<1> QED
  BY <1>2, <1>3, <1>4, <1>5, <1>6, <1>7, <1>8, <1>9, <1>10, <1>11, <1>12, <1>13
  DEF Rel!InTab, Rel!OnRelease

LEMMA RelNews ==
  ASSUME RelInv, Rel!Archive \/ \E t \in RelTasks : Rel!OnTask(t)
  PROVE  RelInv'
<1>1. UNCHANGED <<relReleases, relTab, relTicked>>
  BY DEF Rel!Archive, Rel!OnTask, Rel!Deliver, Rel!Conflict
<1>2. relRecords' \in [RelTasks -> RelRecords]
  <2>1. CASE Rel!Archive
    BY <2>1 DEF RelInv, RelRows, Rel!Archive
  <2>2. ASSUME NEW t \in RelTasks, Rel!Deliver(t)
        PROVE  relRecords' \in [RelTasks -> RelRecords]
    BY <2>2 DEF RelInv, RelRows, RelRecords, Rel!Deliver
  <2>3. ASSUME NEW t \in RelTasks, Rel!Conflict(t)
        PROVE  relRecords' \in [RelTasks -> RelRecords]
    <3>1. relRecords[t] \in RelRecords
      BY DEF RelInv, RelRows
    <3>2. [relRecords[t] EXCEPT !.review = "changes_requested", !.openRequest = TRUE]
              \in RelRecords
      BY <3>1 DEF RelRecords
    <3> QED
      BY <2>3, <3>2 DEF RelInv, RelRows, Rel!Conflict
  <2> QED
    BY <2>1, <2>2, <2>3 DEF Rel!OnTask
<1>3. relOutcome' \in {relOutcome, "archived"}
  BY DEF Rel!Archive, Rel!OnTask, Rel!Deliver, Rel!Conflict
<1>4. RelRows' /\ RelBook'
  BY <1>1, <1>2, <1>3 DEF RelInv, RelRows, RelBook, Shipped
<1>5. \A s \in Tabs : RelAt(s)'
  BY <1>1 DEF RelInv, RelAt, Shipped
<1> QED
  BY <1>4, <1>5 DEF RelInv

LEMMA RelInit == Rel!Init => RelInv
<1> SUFFICES ASSUME Rel!Init PROVE RelInv
  OBVIOUS
<1>1. RelRows
  BY DEF Rel!Init, RelRows, RelRecords, RelTabs, Rel!Fresh
<1>2. RelBook /\ \A s \in Tabs : RelAt(s)
  BY DEF Rel!Init, RelBook, RelAt, Rel!Idle
<1> QED
  BY <1>1, <1>2 DEF RelInv

(* However many tabs act on the releases and whatever becomes of the tasks *)
(* meanwhile: a deployed release has once had a checklist with every item  *)
(* ticked, and an outcome is released behind one of its own (markReleased, *)
(* markOutcomeReleased).                                                   *)
THEOREM ShipsByTheBook == Spec => []ShippedByTheBook
<1> DEFINE I == part = "releases" => RelInv
<1>1. Init => I
  BY RelInit DEF Init
<1>2. I /\ [Next]_vars => I'
  <2>1. ASSUME I, part' = "releases", Next
        PROVE  RelInv'
    <3>1. RelInv /\ Rel!Next
      BY <2>1 DEF Next
    <3> QED
      BY <3>1, RelTabKeeps, RelNews DEF Rel!Next
  <2>2. ASSUME I, UNCHANGED vars
        PROVE  I'
    BY <2>2 DEF vars, relVars, RelInv, RelRows, RelBook, RelAt, Shipped
  <2> QED
    BY <2>1, <2>2
<1>3. I => ShippedByTheBook
  BY DEF RelInv, RelBook, Shipped, ShippedByTheBook, Rel!ShippedByTheBook
<1> HIDE DEF I
<1> QED
  BY <1>1, <1>2, <1>3, PTL DEF Spec

---------------------------------------------------------------------------
(* The founding of a company.  Two transactions of one founder exclude     *)
(* each other by the slug: an open one holds it, a committed one has taken *)
(* it; and no other way leads to a company.                                *)

FndForms == [name : Fnd!Named, style : Fnd!Styles, planner : Fnd!Planners]

FndTabs ==
    [at : {"away", "known", "founding", "inserted", "roles", "staffed", "here",
           "onboarding", "setup", "settings"},
     tx : Fnd!Companies \cup {NoCompany}, form : FndForms, step : Fnd!StepIds]

FndRows ==
    /\ fndRoles \subseteq FoundingTabs
    /\ fndCompanies \in [FoundingTabs -> Fnd!Companies \cup {NoCompany}]
    /\ fndTab \in [FoundingTabs -> FndTabs]
    /\ fndChosen \subseteq Founders

(* A style of its own choice is not "autonomous".                          *)
Picked(style, f) == style = "autonomous" => f \in fndChosen

(* A row that has been committed, or that a transaction is about to.       *)
FndCompanyOK(t) ==
    fndCompanies[t] # NoCompany =>
        /\ fndCompanies[t].owner = FounderOf[t]
        /\ Fnd!Whole(fndCompanies[t])
        /\ Picked(fndCompanies[t].style, FounderOf[t])

InTx(t) == fndTab[t].at \in {"inserted", "roles", "staffed"}

FndTabOK(t) ==
    /\ fndTab[t].tx # NoCompany <=> InTx(t)
    /\ InTx(t) =>
          /\ fndTab[t].tx.owner = FounderOf[t] /\ fndTab[t].tx.style = "assist"
          /\ Fnd!Committed(FounderOf[t]) = {}
    /\ fndTab[t].at = "roles" => fndTab[t].tx.ownRoles \/ fndRoles # {}
    /\ fndTab[t].at = "staffed" =>
          /\ fndTab[t].tx.staff = Fnd!Employees /\ fndTab[t].tx.memories = Fnd!Memories
          /\ fndTab[t].tx.roleRows # {}
          /\ fndTab[t].tx.roleRows \subseteq
                fndRoles \cup (IF fndTab[t].tx.ownRoles THEN {t} ELSE {})
    /\ fndTab[t].at \in {"here", "onboarding", "setup", "settings"} =>
          Fnd!Committed(FounderOf[t]) # {}
    /\ Picked(fndTab[t].form.style, FounderOf[t])

FndOne ==
    \A t, u \in FoundingTabs :
        FounderOf[t] = FounderOf[u] =>
            /\ fndCompanies[t] # NoCompany /\ fndCompanies[u] # NoCompany => t = u
            /\ InTx(t) /\ InTx(u) => t = u

FndInv ==
    FndRows /\ FndOne /\ \A t \in FoundingTabs : FndCompanyOK(t) /\ FndTabOK(t)

LEMMA StaffIsPlaced ==
  ASSUME NEW e \in Fnd!Employees
  PROVE  /\ Fnd!RoleOf(e) \in Fnd!Roles /\ Fnd!DepartmentOf(e) \in Fnd!Departments
         /\ Fnd!Boss(Fnd!Boss(Fnd!Boss(e))) = "CTO"
<1>1. Fnd!RoleOf(e) \in Fnd!Roles
  BY DEF Fnd!RoleOf, Fnd!Employees, Fnd!Roles
<1>2. Fnd!DepartmentOf(e) \in Fnd!Departments
  BY DEF Fnd!DepartmentOf, Fnd!Employees, Fnd!Roles, Fnd!Departments
<1>3. Fnd!Boss("CTO") = "CTO" /\ Fnd!Boss("Tech Lead") = "CTO"
      /\ Fnd!Boss("Product Manager") = "CTO" /\ Fnd!Boss("Release Manager") = "CTO"
  BY DEF Fnd!Boss, Fnd!ReportsTo
<1>4. Fnd!Boss(e) \in {"CTO", "Tech Lead", "Product Manager", "Release Manager"}
  BY DEF Fnd!Boss, Fnd!ReportsTo
<1> QED
  BY <1>1, <1>2, <1>3, <1>4

(* Who has a company finds one row, and it is the founder's.               *)
LEMMA FndMine ==
  ASSUME FndInv, NEW t \in FoundingTabs, Fnd!Committed(FounderOf[t]) # {}
  PROVE  /\ Fnd!Mine(t) \in FoundingTabs /\ fndCompanies[Fnd!Mine(t)] # NoCompany
         /\ fndCompanies[Fnd!Mine(t)] \in Fnd!Companies
         /\ fndCompanies[Fnd!Mine(t)].owner = FounderOf[t]
         /\ FounderOf[Fnd!Mine(t)] = FounderOf[t]
<1>1. Fnd!Mine(t) \in Fnd!Committed(FounderOf[t])
  BY DEF Fnd!Mine
<1> QED
  BY <1>1 DEF Fnd!Committed, FndInv, FndRows, FndCompanyOK

(* A tab goes on, and no company is written.                               *)
LEMMA FndTabMoves ==
  ASSUME FndInv, NEW t \in FoundingTabs, NEW new \in FndTabs,
         fndTab' = [fndTab EXCEPT ![t] = new],
         UNCHANGED <<fndCompanies, fndRoles>>,
         fndChosen \subseteq fndChosen', fndChosen' \subseteq Founders,
         FndTabOK(t)', InTx(t)' => InTx(t)
  PROVE  FndInv'
<1>1. /\ fndTab'[t] = new /\ FndRows'
      /\ \A u \in FoundingTabs \ {t} : fndTab'[u] = fndTab[u]
  BY DEF FndInv, FndRows
<1>2. \A u \in FoundingTabs \ {t} : FndTabOK(u)'
  BY <1>1 DEF FndInv, FndTabOK, InTx, Picked, Fnd!Committed
<1>3. \A u \in FoundingTabs : FndCompanyOK(u)'
  BY <1>1 DEF FndInv, FndCompanyOK, Picked, Fnd!Whole
<1>4. FndOne'
  BY <1>1 DEF FndInv, FndOne, InTx
<1> QED
  BY <1>1, <1>2, <1>3, <1>4 DEF FndInv

LEMMA StepsAre == Fnd!StepIds = {"company", "provider", "repository", "outcome"}
<1>1. 1 .. 4 = {1, 2, 3, 4}
  OBVIOUS
<1>2. /\ Fnd!Steps[1] = "company" /\ Fnd!Steps[2] = "provider"
      /\ Fnd!Steps[3] = "repository" /\ Fnd!Steps[4] = "outcome"
  BY DEF Fnd!Steps
<1> QED
  BY <1>1, <1>2 DEF Fnd!StepIds

LEMMA FndIdle ==
  /\ Fnd!Idle \in FndTabs /\ Fnd!Idle.at = "away" /\ Fnd!Idle.tx = NoCompany
  /\ Fnd!Idle.form.style = "assist"
<1>1. Fnd!BlankForm \in FndForms /\ Fnd!BlankForm.style = "assist"
  BY DEF Fnd!BlankForm, FndForms, Fnd!Named, Fnd!Styles, Fnd!Planners
<1>2. "company" \in Fnd!StepIds
  BY StepsAre
<1> QED
  BY <1>1, <1>2 DEF Fnd!Idle, FndTabs

LEMMA FndLeaves ==
  ASSUME FndInv, NEW t \in FoundingTabs, fndTab' = [fndTab EXCEPT ![t] = Fnd!Idle],
         UNCHANGED <<fndCompanies, fndRoles, fndChosen>>
  PROVE  FndInv'
<1>1. /\ Fnd!Idle \in FndTabs /\ Fnd!Idle.at = "away" /\ Fnd!Idle.tx = NoCompany
      /\ Fnd!Idle.form.style = "assist"
  BY FndIdle
<1>2. fndTab'[t] = Fnd!Idle
  BY DEF FndInv, FndRows
<1>3. FndTabOK(t)' /\ ~InTx(t)'
  BY <1>1, <1>2 DEF FndTabOK, InTx, Picked
<1> QED
  BY <1>1, <1>3, FndTabMoves DEF FndInv, FndRows

(* The company of a tab's founder is written.                              *)
LEMMA FndStored ==
  ASSUME FndInv, NEW t \in FoundingTabs, Fnd!Committed(FounderOf[t]) # {},
         ~InTx(t),
         NEW company \in Fnd!Companies,
         LET old == fndCompanies[Fnd!Mine(t)]
         IN  /\ company.owner = old.owner /\ company.staff = old.staff
             /\ company.roleRows = old.roleRows /\ company.memories = old.memories
             /\ company.departments = old.departments,
         Picked(company.style, FounderOf[t]),
         fndCompanies' = [fndCompanies EXCEPT ![Fnd!Mine(t)] = company],
         NEW new \in FndTabs, fndTab' = [fndTab EXCEPT ![t] = new],
         new.at \in {"away", "here", "onboarding", "setup", "settings"},
         new.tx = NoCompany, Picked(new.form.style, FounderOf[t]),
         UNCHANGED <<fndRoles, fndChosen>>
  PROVE  FndInv'
<1>0. PICK m \in FoundingTabs : m = Fnd!Mine(t)
  BY FndMine
<1>1. /\ m \in FoundingTabs /\ fndCompanies[m] # NoCompany
      /\ fndCompanies[m] \in Fnd!Companies
      /\ fndCompanies[m].owner = FounderOf[t] /\ FounderOf[m] = FounderOf[t]
      /\ company # NoCompany
  BY <1>0, FndMine, FoundersAssumption
<1>2. /\ company.owner = fndCompanies[m].owner /\ company.staff = fndCompanies[m].staff
      /\ company.roleRows = fndCompanies[m].roleRows
      /\ company.memories = fndCompanies[m].memories
      /\ company.departments = fndCompanies[m].departments
      /\ fndCompanies' = [fndCompanies EXCEPT ![m] = company]
  BY <1>0
<1>3. /\ fndTab'[t] = new /\ \A u \in FoundingTabs \ {t} : fndTab'[u] = fndTab[u]
      /\ \A u \in FoundingTabs :
            fndCompanies'[u] = IF u = m THEN company ELSE fndCompanies[u]
      /\ FndRows'
  BY <1>1, <1>2 DEF FndInv, FndRows
<1>4. \A f : Fnd!Committed(f)' = Fnd!Committed(f)
  BY <1>1, <1>2, <1>3 DEF Fnd!Committed
<1>5. \A u \in FoundingTabs : FndCompanyOK(u)'
  <2>1. FndCompanyOK(m)
    BY <1>1 DEF FndInv
  <2>2. fndCompanies'[m] = company /\ fndRoles' = fndRoles /\ fndChosen' = fndChosen
    BY <1>1, <1>3
  <2>3. Fnd!Whole(fndCompanies[m])
    BY <1>1, <2>1 DEF FndCompanyOK
  <2>4. Fnd!Whole(fndCompanies[m])'
    BY <1>2, <2>2, <2>3 DEF Fnd!Whole
  <2>5. Picked(fndCompanies[m].style, FounderOf[m])'
    BY <1>1, <2>2 DEF Picked
  <2>6. FndCompanyOK(m)'
    BY <1>1, <1>2, <2>2, <2>4, <2>5 DEF FndCompanyOK
  <2>7. ASSUME NEW u \in FoundingTabs \ {m}
        PROVE  FndCompanyOK(u)'
    <3>1. fndCompanies'[u] = fndCompanies[u] /\ FndCompanyOK(u)
      BY <1>3 DEF FndInv
    <3> QED
      BY <2>2, <3>1 DEF FndCompanyOK, Picked, Fnd!Whole
  <2> QED
    BY <2>6, <2>7
<1>6. FndTabOK(t)' /\ ~InTx(t)'
  BY <1>3, <1>4 DEF FndTabOK, InTx, Picked
<1>7. \A u \in FoundingTabs \ {t} : FndTabOK(u)'
  BY <1>3, <1>4 DEF FndInv, FndTabOK, InTx, Picked
<1>8. FndOne'
  BY <1>1, <1>3, <1>6 DEF FndInv, FndOne, InTx
<1> QED
  BY <1>3, <1>5, <1>6, <1>7, <1>8 DEF FndInv

LEMMA FndFoundKeeps ==
  ASSUME FndInv, NEW t \in FoundingTabs,
         \/ Fnd!GetCurrentUser(t) \/ Fnd!LookForCompany(t) \/ Fnd!InsertCompany(t)
         \/ Fnd!SeedRoles(t) \/ Fnd!SeedEmployees(t) \/ Fnd!Abort(t)
  PROVE  FndInv'
<1>1. /\ fndTab \in [FoundingTabs -> FndTabs] /\ fndTab[t] \in FndTabs /\ FndTabOK(t)
      /\ fndRoles \subseteq FoundingTabs /\ fndChosen \subseteq Founders
  BY DEF FndInv, FndRows
<1>2. CASE Fnd!GetCurrentUser(t)
  <2> DEFINE new == [fndTab[t] EXCEPT !.at = "known"]
  <2>1. /\ new \in FndTabs /\ new.at = "known" /\ new.tx = fndTab[t].tx
        /\ new.form = fndTab[t].form
    BY <1>1 DEF FndTabs
  <2>2. fndTab' = [fndTab EXCEPT ![t] = new] /\ fndTab'[t] = new
    BY <1>1, <1>2 DEF Fnd!GetCurrentUser
  <2> HIDE DEF new
  <2>3. FndTabOK(t)' /\ ~InTx(t)'
    BY <1>1, <1>2, <2>1, <2>2 DEF Fnd!GetCurrentUser, FndTabOK, InTx, Picked
  <2> QED
    BY <1>1, <1>2, <2>1, <2>2, <2>3, FndTabMoves DEF Fnd!GetCurrentUser
<1>3. CASE Fnd!LookForCompany(t)
  <2> DEFINE l   == IF Fnd!Committed(FounderOf[t]) = {} THEN "founding" ELSE "here"
             new == [fndTab[t] EXCEPT !.at = l]
  <2>1. new \in FndTabs /\ new.at = l /\ new.tx = fndTab[t].tx /\ new.form = fndTab[t].form
    BY <1>1 DEF FndTabs
  <2>2. fndTab' = [fndTab EXCEPT ![t] = new] /\ fndTab'[t] = new
    BY <1>1, <1>3 DEF Fnd!LookForCompany
  <2> HIDE DEF new
  <2>3. FndTabOK(t)' /\ ~InTx(t)'
    BY <1>1, <1>3, <2>1, <2>2 DEF Fnd!LookForCompany, FndTabOK, InTx, Picked, Fnd!Committed
  <2> QED
    BY <1>1, <1>3, <2>1, <2>2, <2>3, FndTabMoves DEF Fnd!LookForCompany
<1>4. CASE Fnd!InsertCompany(t)
  <2>1. CASE Fnd!SlugTaken(t)
    BY <1>4, <2>1, FndLeaves DEF Fnd!InsertCompany
  <2>2. CASE ~Fnd!SlugTaken(t)
    <3> DEFINE company ==
                 [owner |-> FounderOf[t], name |-> "My Company", style |-> "assist",
                  planner |-> "default", departments |-> Fnd!Departments,
                  ownRoles |-> FALSE, staff |-> {}, roleRows |-> {}, memories |-> {},
                  done |-> {}]
               new == [fndTab[t] EXCEPT !.at = "inserted", !.tx = company]
    <3>1. company \in Fnd!Companies
      BY FoundersAssumption DEF Fnd!Companies, Fnd!Named, Fnd!Styles, Fnd!Planners
    <3>2. company # NoCompany /\ company.owner = FounderOf[t] /\ company.style = "assist"
      BY <3>1, FoundersAssumption
    <3>3. fndTab' = [fndTab EXCEPT ![t] = new]
      BY <1>1, <1>4, <2>2 DEF Fnd!InsertCompany
    <3> HIDE DEF company
    <3>4. /\ new \in FndTabs /\ new.at = "inserted" /\ new.tx = company
          /\ new.form = fndTab[t].form
      BY <1>1, <3>1 DEF FndTabs
    <3> HIDE DEF new
    <3>5. fndTab'[t] = new /\ FndRows'
          /\ \A u \in FoundingTabs \ {t} : fndTab'[u] = fndTab[u]
      BY <1>4, <3>3, <3>4 DEF Fnd!InsertCompany, FndInv, FndRows
    <3>6. Fnd!Committed(FounderOf[t]) = {} /\ UNCHANGED <<fndCompanies, fndRoles, fndChosen>>
      BY <1>4, <2>2 DEF Fnd!SlugTaken, Fnd!InsertCompany
    <3>7. FndTabOK(t)'
      BY <1>1, <3>2, <3>4, <3>5, <3>6 DEF FndTabOK, InTx, Picked, Fnd!Committed
    <3>8. \A u \in FoundingTabs \ {t} : FndTabOK(u)'
      BY <3>5, <3>6 DEF FndInv, FndTabOK, InTx, Picked, Fnd!Committed
    <3>9. \A u \in FoundingTabs : FndCompanyOK(u)'
      BY <3>6 DEF FndInv, FndCompanyOK, Picked, Fnd!Whole
    <3>10. \A u \in FoundingTabs \ {t} : InTx(u) => FounderOf[u] # FounderOf[t]
      BY <1>4 DEF Fnd!InsertCompany, Fnd!SlugHeld, Fnd!InTransaction, FndInv, FndTabOK
    <3>11. FndOne'
      BY <3>5, <3>6, <3>10 DEF FndInv, FndOne, InTx
    <3> QED
      BY <3>5, <3>7, <3>8, <3>9, <3>11 DEF FndInv
  <2> QED
    BY <2>1, <2>2
<1>5. CASE Fnd!SeedRoles(t)
  <2> DEFINE company == [fndTab[t].tx EXCEPT !.ownRoles = (fndRoles = {})]
             new == [fndTab[t] EXCEPT !.at = "roles", !.tx = company]
  <2>1. fndTab[t].tx \in Fnd!Companies /\ InTx(t)
    BY <1>1, <1>5 DEF Fnd!SeedRoles, FndTabOK, InTx, FndTabs
  <2>2. /\ company \in Fnd!Companies /\ company.ownRoles = (fndRoles = {})
        /\ company.owner = fndTab[t].tx.owner /\ company.style = fndTab[t].tx.style
    BY <2>1 DEF Fnd!Companies
  <2>3. fndTab' = [fndTab EXCEPT ![t] = new]
    BY <1>1, <1>5 DEF Fnd!SeedRoles, FndTabs
  <2> HIDE DEF company
  <2>4. company # NoCompany
    BY <2>2, FoundersAssumption
  <2>5. /\ new \in FndTabs /\ new.at = "roles" /\ new.tx = company
        /\ new.form = fndTab[t].form
    BY <1>1, <2>2 DEF FndTabs
  <2> HIDE DEF new
  <2>6. fndTab'[t] = new /\ UNCHANGED <<fndCompanies, fndRoles, fndChosen>>
    BY <1>1, <1>5, <2>3 DEF Fnd!SeedRoles
  <2>7. FndTabOK(t)'
    BY <1>1, <2>1, <2>2, <2>4, <2>5, <2>6 DEF FndTabOK, InTx, Picked, Fnd!Committed
  <2> QED
    BY <1>1, <2>1, <2>3, <2>5, <2>6, <2>7, FndTabMoves
<1>6. CASE Fnd!SeedEmployees(t)
  <2>1. PICK r \in fndRoles \cup (IF fndTab[t].tx.ownRoles THEN {t} ELSE {}) :
          fndTab' = [fndTab EXCEPT
                       ![t].at = "staffed", ![t].tx.staff = Fnd!Employees,
                       ![t].tx.roleRows = {r}, ![t].tx.memories = Fnd!Memories]
    BY <1>6 DEF Fnd!SeedEmployees
  <2> DEFINE company == [fndTab[t].tx EXCEPT !.staff = Fnd!Employees, !.roleRows = {r},
                                             !.memories = Fnd!Memories]
             new == [fndTab[t] EXCEPT !.at = "staffed", !.tx = company]
  <2>2. fndTab[t].tx \in Fnd!Companies /\ InTx(t)
    BY <1>1, <1>6 DEF Fnd!SeedEmployees, FndTabOK, InTx, FndTabs
  <2>3. /\ company \in Fnd!Companies /\ company.ownRoles = fndTab[t].tx.ownRoles
        /\ company.owner = fndTab[t].tx.owner /\ company.style = fndTab[t].tx.style
        /\ company.staff = Fnd!Employees /\ company.roleRows = {r}
        /\ company.memories = Fnd!Memories
    BY <1>1, <2>2 DEF Fnd!Companies
  <2>4. fndTab' = [fndTab EXCEPT ![t] = new]
    <3>1. /\ fndTab' = [fndTab EXCEPT ![t] = fndTab'[t]]
          /\ t \in DOMAIN fndTab
      BY <1>1, <2>1
    <3>2. fndTab'[t] = [fndTab[t] EXCEPT !.at = "staffed", !.tx.staff = Fnd!Employees,
                           !.tx.roleRows = {r}, !.tx.memories = Fnd!Memories]
      BY <2>1, <3>1
    <3>3. fndTab'[t] = new
      BY <2>2, <3>2 DEF FndTabs, Fnd!Companies
    <3> QED
      BY <3>1, <3>3
  <2> HIDE DEF company
  <2>5. company # NoCompany
    BY <2>3, FoundersAssumption
  <2>6. /\ new \in FndTabs /\ new.at = "staffed" /\ new.tx = company
        /\ new.form = fndTab[t].form
    BY <1>1, <2>3 DEF FndTabs
  <2> HIDE DEF new
  <2>7. fndTab'[t] = new /\ UNCHANGED <<fndCompanies, fndRoles, fndChosen>>
    BY <1>1, <1>6, <2>4 DEF Fnd!SeedEmployees
  <2>8. FndTabOK(t)'
    BY <1>1, <2>2, <2>3, <2>5, <2>6, <2>7 DEF FndTabOK, InTx, Picked, Fnd!Committed
  <2> QED
    BY <1>1, <2>2, <2>4, <2>6, <2>7, <2>8, FndTabMoves
<1>7. CASE Fnd!Abort(t)
  BY <1>7, FndLeaves DEF Fnd!Abort
<1> QED
  BY <1>2, <1>3, <1>4, <1>5, <1>6, <1>7

(* The transaction commits: nobody else had one open, or a company.        *)
LEMMA FndCommits ==
  ASSUME FndInv, NEW t \in FoundingTabs, Fnd!Commit(t)
  PROVE  FndInv'
<1>1. /\ fndTab \in [FoundingTabs -> FndTabs] /\ fndTab[t] \in FndTabs /\ FndTabOK(t)
      /\ fndRoles \subseteq FoundingTabs /\ fndTab[t].at = "staffed" /\ InTx(t)
      /\ fndCompanies \in [FoundingTabs -> Fnd!Companies \cup {NoCompany}]
  BY DEF Fnd!Commit, FndInv, FndRows, InTx
<1>2. PICK company \in Fnd!Companies : company = fndTab[t].tx
  BY <1>1 DEF FndTabOK, FndTabs
<1>3. /\ company # NoCompany /\ company.owner = FounderOf[t] /\ company.style = "assist"
      /\ company.staff = Fnd!Employees /\ company.memories = Fnd!Memories
      /\ company.roleRows # {}
      /\ company.roleRows \subseteq fndRoles \cup (IF company.ownRoles THEN {t} ELSE {})
      /\ company.departments = Fnd!Departments
  BY <1>1, <1>2, FoundersAssumption DEF FndTabOK, Fnd!Companies
<1>4. PICK new \in FndTabs : /\ new = [fndTab[t] EXCEPT !.at = "here", !.tx = NoCompany]
                            /\ new.at = "here" /\ new.tx = NoCompany
                            /\ new.form = fndTab[t].form
  <2> DEFINE n == [fndTab[t] EXCEPT !.at = "here", !.tx = NoCompany]
  <2>1. n \in FndTabs /\ n.at = "here" /\ n.tx = NoCompany /\ n.form = fndTab[t].form
    BY <1>1 DEF FndTabs
  <2> QED
    BY <2>1
<1>5. /\ fndTab' = [fndTab EXCEPT ![t] = new]
      /\ fndCompanies' = [fndCompanies EXCEPT ![t] = company]
      /\ fndRoles' = IF company.ownRoles THEN fndRoles \cup {t} ELSE fndRoles
      /\ fndChosen' = fndChosen
  BY <1>1, <1>2, <1>4 DEF Fnd!Commit
<1>6. /\ fndTab'[t] = new /\ \A u \in FoundingTabs \ {t} : fndTab'[u] = fndTab[u]
      /\ fndCompanies'[t] = company
      /\ \A u \in FoundingTabs \ {t} : fndCompanies'[u] = fndCompanies[u]
      /\ fndRoles \subseteq fndRoles' /\ company.roleRows \subseteq fndRoles'
  BY <1>1, <1>3, <1>5
<1>7. FndRows'
  BY <1>1, <1>2, <1>4, <1>5 DEF FndInv, FndRows
<1>8. \A u \in FoundingTabs \ {t} :
          FounderOf[u] = FounderOf[t] => fndCompanies[u] = NoCompany /\ ~InTx(u)
  <2>1. \A u \in FoundingTabs :
           fndCompanies[u] # NoCompany => fndCompanies[u].owner = FounderOf[u]
    BY DEF FndInv, FndCompanyOK
  <2>2. Fnd!Committed(FounderOf[t]) = {}
    BY <1>1 DEF FndTabOK
  <2> QED
    BY <1>1, <2>1, <2>2 DEF FndInv, FndOne, Fnd!Committed
<1>9. \A u \in FoundingTabs : FndCompanyOK(u)'
  <2>1. \A e \in Fnd!Employees :
           /\ Fnd!RoleOf(e) \in Fnd!Roles /\ Fnd!DepartmentOf(e) \in Fnd!Departments
           /\ Fnd!Boss(Fnd!Boss(Fnd!Boss(e))) = "CTO"
    BY StaffIsPlaced
  <2>2. Fnd!Whole(fndCompanies[t])'
    BY <1>3, <1>6, <2>1 DEF Fnd!Whole
  <2>3. FndCompanyOK(t)'
    BY <1>3, <1>6, <2>2 DEF FndCompanyOK, Picked
  <2>4. \A u \in FoundingTabs \ {t} : FndCompanyOK(u)'
    BY <1>5, <1>6 DEF FndInv, FndCompanyOK, Picked, Fnd!Whole
  <2> QED
    BY <2>3, <2>4
<1>10. t \in Fnd!Committed(FounderOf[t])'
  BY <1>3, <1>6 DEF Fnd!Committed
<1>11. FndTabOK(t)' /\ ~InTx(t)'
  BY <1>1, <1>4, <1>5, <1>6, <1>10 DEF FndTabOK, InTx, Picked
<1>12. ASSUME NEW u \in FoundingTabs \ {t}
       PROVE  FndTabOK(u)'
  <2>1. FndTabOK(u) /\ fndTab'[u] = fndTab[u] /\ fndChosen' = fndChosen
    BY <1>5, <1>6 DEF FndInv
  <2>2. InTx(u) => FounderOf[u] # FounderOf[t]
    BY <1>8
  <2>3. Fnd!Committed(FounderOf[u]) \subseteq Fnd!Committed(FounderOf[u])'
    BY <1>8, <1>6, <1>1, <1>10 DEF Fnd!Committed, FndInv, FndCompanyOK
  <2>4. FounderOf[u] # FounderOf[t] =>
           Fnd!Committed(FounderOf[u])' = Fnd!Committed(FounderOf[u])
    <3>1. fndCompanies[t] = NoCompany
      BY <1>1 DEF FndInv, FndCompanyOK, FndTabOK, Fnd!Committed
    <3>2. ASSUME FounderOf[u] # FounderOf[t], NEW v \in FoundingTabs
          PROVE  v \in Fnd!Committed(FounderOf[u])' <=> v \in Fnd!Committed(FounderOf[u])
      BY <1>3, <1>6, <3>1, <3>2 DEF Fnd!Committed
    <3>3. /\ Fnd!Committed(FounderOf[u]) \subseteq FoundingTabs
          /\ Fnd!Committed(FounderOf[u])' \subseteq FoundingTabs
      BY DEF Fnd!Committed
    <3> QED
      BY <3>2, <3>3
  <2> QED
    BY <1>6, <2>1, <2>2, <2>3, <2>4 DEF FndTabOK, InTx, Picked
<1>13. FndOne'
  BY <1>6, <1>8, <1>11 DEF FndInv, FndOne, InTx
<1> QED
  BY <1>7, <1>9, <1>11, <1>12, <1>13 DEF FndInv

LEMMA FirstOf ==
  ASSUME NEW S \in SUBSET (1 .. 4), S # {}
  PROVE  \E i \in S : \A j \in S : i <= j
<1>1. CASE 1 \in S
  BY <1>1
<1>2. CASE 1 \notin S /\ 2 \in S
  BY <1>2
<1>3. CASE 1 \notin S /\ 2 \notin S /\ 3 \in S
  BY <1>3
<1>4. CASE 1 \notin S /\ 2 \notin S /\ 3 \notin S
  <2>1. ASSUME NEW j \in S
        PROVE  j = 4
    <3>1. j \in 1 .. 4 /\ j # 1 /\ j # 2 /\ j # 3
      BY <1>4
    <3> QED
      BY <3>1
  <2>2. PICK k : k \in S
    OBVIOUS
  <2> QED
    BY <2>1, <2>2
<1> QED
  BY <1>1, <1>2, <1>3, <1>4

LEMMA StepFound ==
  ASSUME NEW company
  PROVE  Fnd!CurrentStep(company) \in Fnd!StepIds
<1> DEFINE open == {i \in 1 .. 4 : Fnd!Steps[i] \notin Fnd!Completed(company)}
           first == CHOOSE i \in open : \A j \in open : i <= j
<1>1. CASE open = {}
  BY <1>1, StepsAre DEF Fnd!CurrentStep
<1>2. CASE open # {}
  <2>1. \E i \in open : \A j \in open : i <= j
    <3> HIDE DEF open
    <3>1. open \subseteq 1 .. 4
      BY DEF open
    <3> QED
      BY <1>2, <3>1, FirstOf
  <2>2. first \in 1 .. 4
    BY <2>1
  <2>3. Fnd!CurrentStep(company) = Fnd!Steps[first]
    BY <1>2 DEF Fnd!CurrentStep
  <2> HIDE DEF first
  <2> QED
    BY <2>2, <2>3 DEF Fnd!StepIds
<1> QED
  BY <1>1, <1>2

(* A page of a company that is there: its form changes, no company does.   *)
LEMMA FndPage ==
  ASSUME FndInv, NEW t \in FoundingTabs, Fnd!Committed(FounderOf[t]) # {},
         NEW new \in FndTabs, fndTab' = [fndTab EXCEPT ![t] = new],
         new.at \in {"here", "onboarding", "setup", "settings"}, new.tx = NoCompany,
         UNCHANGED <<fndCompanies, fndRoles>>,
         fndChosen \subseteq fndChosen', fndChosen' \subseteq Founders,
         new.form.style = "autonomous" => FounderOf[t] \in fndChosen'
  PROVE  FndInv'
<1>1. fndTab'[t] = new
  BY DEF FndInv, FndRows
<1>2. FndTabOK(t)' /\ ~InTx(t)'
  BY <1>1 DEF FndTabOK, InTx, Picked, Fnd!Committed
<1> QED
  BY <1>2, FndTabMoves

LEMMA FndShows ==
  ASSUME FndInv, NEW t \in FoundingTabs,
         \/ Fnd!OpenPage(t)
         \/ \E style \in Fnd!Styles : Fnd!ChooseStyle(t, style)
         \/ \E name \in Fnd!Named : Fnd!EnterName(t, name)
         \/ \E planner \in Fnd!Planners : Fnd!ChoosePlanner(t, planner)
         \/ \E s \in Fnd!StepIds : Fnd!GoToStep(t, s)
  PROVE  FndInv'
<1>1. /\ fndTab \in [FoundingTabs -> FndTabs] /\ fndTab[t] \in FndTabs /\ FndTabOK(t)
      /\ fndTab[t].form \in FndForms /\ fndChosen \subseteq Founders
      /\ Picked(fndTab[t].form.style, FounderOf[t])
  BY DEF FndInv, FndRows, FndTabs, FndTabOK
<1>2. fndTab[t].at \in {"here", "onboarding", "setup", "settings"} =>
         Fnd!Committed(FounderOf[t]) # {} /\ fndTab[t].tx = NoCompany
  BY <1>1 DEF FndTabOK, InTx
<1>3. ASSUME NEW page \in {"onboarding", "setup", "settings"},
             NEW fallback \in {"autonomous", "assist"}, Fnd!Fill(t, page, fallback)
      PROVE  FndInv'
  <2>1. PICK company \in Fnd!Companies :
           /\ company = fndCompanies[Fnd!Mine(t)]
           /\ Picked(company.style, FounderOf[t])
    <3>1. Fnd!Committed(FounderOf[t]) # {}
      BY <1>2, <1>3 DEF Fnd!Fill
    <3>2. PICK m \in FoundingTabs : m = Fnd!Mine(t)
      BY <3>1, FndMine
    <3>3. /\ fndCompanies[m] # NoCompany /\ fndCompanies[m] \in Fnd!Companies
          /\ FounderOf[m] = FounderOf[t]
      BY <3>1, <3>2, FndMine
    <3> QED
      BY <3>2, <3>3 DEF FndInv, FndCompanyOK
  <2>2. /\ company.name \in Fnd!Named /\ company.style \in Fnd!Styles
        /\ company.planner \in Fnd!Planners
    BY DEF Fnd!Companies
  <2>3. Fnd!ShownStyle(company, fallback) = company.style
    BY <2>2 DEF Fnd!ShownStyle, Fnd!Styles
  <2> DEFINE form == [name |-> company.name, style |-> company.style,
                      planner |-> company.planner]
             n    == [fndTab[t] EXCEPT !.at = page, !.step = Fnd!CurrentStep(company),
                                       !.form = form]
  <2>4. form \in FndForms /\ form.style = company.style
    BY <2>2 DEF FndForms
  <2>5. fndTab' = [fndTab EXCEPT ![t] = n]
    BY <1>1, <1>3, <2>1, <2>3 DEF Fnd!Fill
  <2> HIDE DEF form
  <2>6. PICK new \in FndTabs : /\ new = n /\ new.at = page /\ new.form = form
                              /\ new.tx = fndTab[t].tx
    <3>1. n \in FndTabs /\ n.at = page /\ n.form = form /\ n.tx = fndTab[t].tx
      BY <1>1, <2>4, StepFound DEF FndTabs
    <3> QED
      BY <3>1
  <2> HIDE DEF n
  <2>7. /\ UNCHANGED <<fndCompanies, fndRoles, fndChosen>>
        /\ Fnd!Committed(FounderOf[t]) # {} /\ fndTab[t].tx = NoCompany
    BY <1>2, <1>3 DEF Fnd!Fill
  <2> QED
    BY <1>1, <2>1, <2>4, <2>5, <2>6, <2>7, FndPage DEF Picked
<1>4. ASSUME NEW style \in Fnd!Styles, Fnd!ChooseStyle(t, style)
      PROVE  FndInv'
  <2> DEFINE form == [fndTab[t].form EXCEPT !.style = style]
             n    == [fndTab[t] EXCEPT !.form = form]
  <2>1. form \in FndForms /\ form.style = style
    BY <1>1 DEF FndForms
  <2>2. fndTab' = [fndTab EXCEPT ![t] = n]
    BY <1>1, <1>4 DEF Fnd!ChooseStyle, FndTabs
  <2> HIDE DEF form
  <2>3. PICK new \in FndTabs : /\ new = n /\ new.at = fndTab[t].at /\ new.form = form
                              /\ new.tx = fndTab[t].tx
    <3>1. n \in FndTabs /\ n.at = fndTab[t].at /\ n.form = form /\ n.tx = fndTab[t].tx
      BY <1>1, <2>1 DEF FndTabs
    <3> QED
      BY <3>1
  <2> HIDE DEF n
  <2>4. /\ UNCHANGED <<fndCompanies, fndRoles>>
        /\ fndTab[t].at \in {"onboarding", "setup", "settings"}
        /\ fndChosen' = IF style = "autonomous" THEN fndChosen \cup {FounderOf[t]}
                        ELSE fndChosen
    BY <1>4 DEF Fnd!ChooseStyle
  <2>5. /\ fndChosen \subseteq fndChosen' /\ fndChosen' \subseteq Founders
        /\ style = "autonomous" => FounderOf[t] \in fndChosen'
    BY <1>1, <2>4, FoundersAssumption
  <2> QED
    BY <1>2, <2>1, <2>2, <2>3, <2>4, <2>5, FndPage
<1>5. ASSUME NEW name \in Fnd!Named, Fnd!EnterName(t, name)
      PROVE  FndInv'
  <2> DEFINE form == [fndTab[t].form EXCEPT !.name = name]
             n    == [fndTab[t] EXCEPT !.form = form]
  <2>1. form \in FndForms /\ form.style = fndTab[t].form.style
    BY <1>1 DEF FndForms
  <2>2. fndTab' = [fndTab EXCEPT ![t] = n]
    BY <1>1, <1>5 DEF Fnd!EnterName, FndTabs
  <2> HIDE DEF form
  <2>3. PICK new \in FndTabs : /\ new = n /\ new.at = fndTab[t].at /\ new.form = form
                              /\ new.tx = fndTab[t].tx
    <3>1. n \in FndTabs /\ n.at = fndTab[t].at /\ n.form = form /\ n.tx = fndTab[t].tx
      BY <1>1, <2>1 DEF FndTabs
    <3> QED
      BY <3>1
  <2> HIDE DEF n
  <2>4. UNCHANGED <<fndCompanies, fndRoles, fndChosen>> /\ fndTab[t].at = "onboarding"
    BY <1>5 DEF Fnd!EnterName
  <2> QED
    BY <1>1, <1>2, <2>1, <2>2, <2>3, <2>4, FndPage DEF Picked
<1>6. ASSUME NEW planner \in Fnd!Planners, Fnd!ChoosePlanner(t, planner)
      PROVE  FndInv'
  <2> DEFINE form == [fndTab[t].form EXCEPT !.planner = planner]
             n    == [fndTab[t] EXCEPT !.form = form]
  <2>1. form \in FndForms /\ form.style = fndTab[t].form.style
    BY <1>1 DEF FndForms
  <2>2. fndTab' = [fndTab EXCEPT ![t] = n]
    BY <1>1, <1>6 DEF Fnd!ChoosePlanner, FndTabs
  <2> HIDE DEF form
  <2>3. PICK new \in FndTabs : /\ new = n /\ new.at = fndTab[t].at /\ new.form = form
                              /\ new.tx = fndTab[t].tx
    <3>1. n \in FndTabs /\ n.at = fndTab[t].at /\ n.form = form /\ n.tx = fndTab[t].tx
      BY <1>1, <2>1 DEF FndTabs
    <3> QED
      BY <3>1
  <2> HIDE DEF n
  <2>4. UNCHANGED <<fndCompanies, fndRoles, fndChosen>> /\ fndTab[t].at = "settings"
    BY <1>6 DEF Fnd!ChoosePlanner
  <2> QED
    BY <1>1, <1>2, <2>1, <2>2, <2>3, <2>4, FndPage DEF Picked
<1>7. ASSUME NEW s \in Fnd!StepIds, Fnd!GoToStep(t, s)
      PROVE  FndInv'
  <2> DEFINE n == [fndTab[t] EXCEPT !.step = s]
  <2>1. fndTab' = [fndTab EXCEPT ![t] = n]
    BY <1>1, <1>7 DEF Fnd!GoToStep
  <2>2. PICK new \in FndTabs : /\ new = n /\ new.at = fndTab[t].at
                              /\ new.form = fndTab[t].form /\ new.tx = fndTab[t].tx
    <3>1. /\ n \in FndTabs /\ n.at = fndTab[t].at /\ n.form = fndTab[t].form
          /\ n.tx = fndTab[t].tx
      BY <1>1 DEF FndTabs
    <3> QED
      BY <3>1
  <2> HIDE DEF n
  <2>3. UNCHANGED <<fndCompanies, fndRoles, fndChosen>> /\ fndTab[t].at = "onboarding"
    BY <1>7 DEF Fnd!GoToStep
  <2> QED
    BY <1>1, <1>2, <2>1, <2>2, <2>3, FndPage DEF Picked
<1> QED
  BY <1>3, <1>4, <1>5, <1>6, <1>7 DEF Fnd!OpenPage

LEMMA FndOld ==
  ASSUME FndInv, NEW t \in FoundingTabs, Fnd!Committed(FounderOf[t]) # {}
  PROVE  /\ fndCompanies[Fnd!Mine(t)] \in Fnd!Companies
         /\ Picked(fndCompanies[Fnd!Mine(t)].style, FounderOf[t])
<1>1. PICK m \in FoundingTabs : m = Fnd!Mine(t)
  BY FndMine
<1>2. /\ fndCompanies[m] # NoCompany /\ fndCompanies[m] \in Fnd!Companies
      /\ FounderOf[m] = FounderOf[t]
  BY <1>1, FndMine
<1> QED
  BY <1>1, <1>2 DEF FndInv, FndCompanyOK

LEMMA FndSaves ==
  ASSUME FndInv, NEW t \in FoundingTabs,
         \/ Fnd!SaveOnboardingSettings(t) \/ Fnd!FinishWizard(t) \/ Fnd!SaveSettings(t)
         \/ Fnd!CompleteStep(t) \/ Fnd!Leave(t)
  PROVE  FndInv'
<1>1. /\ fndTab \in [FoundingTabs -> FndTabs] /\ fndTab[t] \in FndTabs /\ FndTabOK(t)
      /\ fndTab[t].form \in FndForms /\ Picked(fndTab[t].form.style, FounderOf[t])
      /\ fndTab[t].step \in Fnd!StepIds
  BY DEF FndInv, FndRows, FndTabs, FndTabOK
<1>2. CASE Fnd!Leave(t)
  BY <1>2, FndLeaves DEF Fnd!Leave
<1>3. ASSUME fndTab[t].at \in {"here", "onboarding", "setup", "settings"}
      PROVE  /\ Fnd!Committed(FounderOf[t]) # {} /\ fndTab[t].tx = NoCompany /\ ~InTx(t)
             /\ fndCompanies[Fnd!Mine(t)] \in Fnd!Companies
             /\ Picked(fndCompanies[Fnd!Mine(t)].style, FounderOf[t])
  BY <1>1, <1>3, FndOld DEF FndTabOK, InTx
<1> DEFINE old == fndCompanies[Fnd!Mine(t)]
<1>4. CASE Fnd!SaveOnboardingSettings(t)
  <2>1. PICK landed \in SUBSET Fnd!Writes :
          /\ Fnd!Store(t, [old EXCEPT
                             !.name  = IF "name" \in landed THEN fndTab[t].form.name ELSE @,
                             !.style = IF "style" \in landed THEN fndTab[t].form.style ELSE @])
          /\ fndTab' = IF landed = Fnd!Writes
                       THEN [fndTab EXCEPT ![t].step = "provider"] ELSE fndTab
    BY <1>4 DEF Fnd!SaveOnboardingSettings
  <2>2. /\ fndTab[t].at = "onboarding" /\ old \in Fnd!Companies
        /\ Fnd!Committed(FounderOf[t]) # {} /\ fndTab[t].tx = NoCompany /\ ~InTx(t)
        /\ Picked(old.style, FounderOf[t])
    BY <1>3, <1>4 DEF Fnd!SaveOnboardingSettings
  <2> DEFINE name  == IF "name" \in landed THEN fndTab[t].form.name ELSE old.name
             style == IF "style" \in landed THEN fndTab[t].form.style ELSE old.style
             c     == [old EXCEPT !.name = name, !.style = style]
             n     == IF landed = Fnd!Writes THEN [fndTab[t] EXCEPT !.step = "provider"]
                      ELSE fndTab[t]
  <2>3. /\ fndCompanies' = [fndCompanies EXCEPT ![Fnd!Mine(t)] = c]
        /\ UNCHANGED <<fndRoles, fndChosen>>
    BY <2>1, <2>2 DEF Fnd!Store, Fnd!Companies
  <2>4. /\ name \in Fnd!Named /\ style \in Fnd!Styles /\ Picked(style, FounderOf[t])
    BY <1>1, <2>2 DEF Fnd!Companies, FndForms
  <2> HIDE DEF name, style
  <2>5. PICK company \in Fnd!Companies :
          /\ company = c /\ company.owner = old.owner /\ company.staff = old.staff
          /\ company.roleRows = old.roleRows /\ company.memories = old.memories
          /\ company.departments = old.departments /\ company.style = style
    <3>1. /\ c \in Fnd!Companies /\ c.owner = old.owner /\ c.staff = old.staff
          /\ c.roleRows = old.roleRows /\ c.memories = old.memories
          /\ c.departments = old.departments /\ c.style = style
      BY <2>2, <2>4 DEF Fnd!Companies
    <3> QED
      BY <3>1
  <2>6. PICK new \in FndTabs : /\ new = n /\ new.at = "onboarding" /\ new.tx = NoCompany
                              /\ new.form = fndTab[t].form
    <3>1. "provider" \in Fnd!StepIds
      BY StepsAre
    <3>2. n \in FndTabs /\ n.at = "onboarding" /\ n.tx = NoCompany /\ n.form = fndTab[t].form
      BY <1>1, <2>2, <3>1 DEF FndTabs
    <3> QED
      BY <3>2
  <2>7. fndTab' = [fndTab EXCEPT ![t] = n]
    BY <1>1, <2>1 DEF FndTabs
  <2> HIDE DEF c, n, old
  <2> QED
    BY <1>1, <2>2, <2>3, <2>4, <2>5, <2>6, <2>7, FndStored DEF old
<1>5. CASE Fnd!FinishWizard(t)
  <2>1. /\ Fnd!Store(t, [old EXCEPT !.style = fndTab[t].form.style])
        /\ fndTab' = [fndTab EXCEPT ![t] = Fnd!Idle] /\ old \in Fnd!Companies
        /\ Fnd!Committed(FounderOf[t]) # {} /\ ~InTx(t)
    BY <1>3, <1>5 DEF Fnd!FinishWizard
  <2> DEFINE c == [old EXCEPT !.style = fndTab[t].form.style]
  <2>2. /\ fndCompanies' = [fndCompanies EXCEPT ![Fnd!Mine(t)] = c]
        /\ UNCHANGED <<fndRoles, fndChosen>>
    BY <2>1 DEF Fnd!Store
  <2>3. PICK company \in Fnd!Companies :
          /\ company = c /\ company.owner = old.owner /\ company.staff = old.staff
          /\ company.roleRows = old.roleRows /\ company.memories = old.memories
          /\ company.departments = old.departments /\ company.style = fndTab[t].form.style
    <3>1. /\ c \in Fnd!Companies /\ c.owner = old.owner /\ c.staff = old.staff
          /\ c.roleRows = old.roleRows /\ c.memories = old.memories
          /\ c.departments = old.departments /\ c.style = fndTab[t].form.style
      BY <1>1, <2>1 DEF Fnd!Companies, FndForms
    <3> QED
      BY <3>1
  <2>4. PICK new \in FndTabs : /\ new = Fnd!Idle /\ new.at = "away" /\ new.tx = NoCompany
                              /\ new.form.style = "assist"
    BY FndIdle
  <2>5. Picked(new.form.style, FounderOf[t])
    BY <2>4 DEF Picked
  <2> HIDE DEF c, old
  <2> QED
    BY <1>1, <2>1, <2>2, <2>3, <2>4, <2>5, FndStored DEF old
<1>6. CASE Fnd!SaveSettings(t)
  <2>1. /\ Fnd!Store(t, [old EXCEPT !.style = fndTab[t].form.style,
                                    !.planner = fndTab[t].form.planner])
        /\ fndTab' = fndTab /\ old \in Fnd!Companies /\ fndTab[t].at = "settings"
        /\ Fnd!Committed(FounderOf[t]) # {} /\ ~InTx(t) /\ fndTab[t].tx = NoCompany
    BY <1>3, <1>6 DEF Fnd!SaveSettings
  <2> DEFINE c == [old EXCEPT !.style = fndTab[t].form.style,
                              !.planner = fndTab[t].form.planner]
  <2>2. /\ fndCompanies' = [fndCompanies EXCEPT ![Fnd!Mine(t)] = c]
        /\ UNCHANGED <<fndRoles, fndChosen>>
    BY <2>1 DEF Fnd!Store
  <2>3. PICK company \in Fnd!Companies :
          /\ company = c /\ company.owner = old.owner /\ company.staff = old.staff
          /\ company.roleRows = old.roleRows /\ company.memories = old.memories
          /\ company.departments = old.departments /\ company.style = fndTab[t].form.style
    <3>1. /\ c \in Fnd!Companies /\ c.owner = old.owner /\ c.staff = old.staff
          /\ c.roleRows = old.roleRows /\ c.memories = old.memories
          /\ c.departments = old.departments /\ c.style = fndTab[t].form.style
      BY <1>1, <2>1 DEF Fnd!Companies, FndForms
    <3> QED
      BY <3>1
  <2>4. PICK new \in FndTabs : new = fndTab[t]
    BY <1>1
  <2>5. fndTab' = [fndTab EXCEPT ![t] = new]
    BY <1>1, <2>1, <2>4
  <2> HIDE DEF c, old
  <2> QED
    BY <1>1, <2>1, <2>2, <2>3, <2>4, <2>5, FndStored DEF old
<1>7. CASE Fnd!CompleteStep(t)
  <2>1. /\ fndTab[t].at = "onboarding" /\ old \in Fnd!Companies
        /\ Fnd!Committed(FounderOf[t]) # {} /\ ~InTx(t) /\ fndTab[t].tx = NoCompany
        /\ Picked(old.style, FounderOf[t]) /\ Fnd!Mine(t) \in FoundingTabs
    BY <1>3, <1>7, FndMine DEF Fnd!CompleteStep
  <2> DEFINE c == [old EXCEPT !.done = @ \cup {fndTab[t].step}]
             n == [fndTab[t] EXCEPT !.at = "here"]
  <2>2. /\ fndCompanies' = [fndCompanies EXCEPT ![Fnd!Mine(t)] = c]
        /\ UNCHANGED <<fndRoles, fndChosen>>
    BY <1>7, <2>1 DEF Fnd!CompleteStep, FndInv, FndRows
  <2>3. PICK company \in Fnd!Companies :
          /\ company = c /\ company.owner = old.owner /\ company.staff = old.staff
          /\ company.roleRows = old.roleRows /\ company.memories = old.memories
          /\ company.departments = old.departments /\ company.style = old.style
    <3>1. /\ c \in Fnd!Companies /\ c.owner = old.owner /\ c.staff = old.staff
          /\ c.roleRows = old.roleRows /\ c.memories = old.memories
          /\ c.departments = old.departments /\ c.style = old.style
      BY <1>1, <2>1 DEF Fnd!Companies
    <3> QED
      BY <3>1
  <2>4. fndTab' = [fndTab EXCEPT ![t] = n]
    BY <1>1, <1>7 DEF Fnd!CompleteStep
  <2>5. PICK new \in FndTabs : /\ new = n /\ new.at = "here" /\ new.tx = NoCompany
                              /\ new.form = fndTab[t].form
    <3>1. n \in FndTabs /\ n.at = "here" /\ n.tx = NoCompany /\ n.form = fndTab[t].form
      BY <1>1, <2>1 DEF FndTabs
    <3> QED
      BY <3>1
  <2> HIDE DEF c, n, old
  <2> QED
    BY <1>1, <2>1, <2>2, <2>3, <2>4, <2>5, FndStored DEF old
<1> QED
  BY <1>2, <1>4, <1>5, <1>6, <1>7

LEMMA FndInit ==
  ASSUME Fnd!Init
  PROVE  FndInv
<1>1. /\ fndTab \in [FoundingTabs -> FndTabs]
      /\ \A t \in FoundingTabs : fndTab[t] = Fnd!Idle /\ fndCompanies[t] = NoCompany
  BY FndIdle DEF Fnd!Init
<1>2. FndRows
  BY <1>1 DEF Fnd!Init, FndRows
<1>3. \A t \in FoundingTabs : FndCompanyOK(t) /\ FndTabOK(t) /\ ~InTx(t)
  BY <1>1, FndIdle DEF FndCompanyOK, FndTabOK, InTx, Picked
<1>4. FndOne
  BY <1>1, <1>3 DEF FndOne
<1> QED
  BY <1>2, <1>3, <1>4 DEF FndInv

LEMMA SameSize == \A S : Fnd!Cardinality(S) = Cardinality(S)
  BY DEF Fnd!Cardinality, Fnd!IsFiniteSet, Cardinality, IsFiniteSet

LEMMA OneCompany ==
  ASSUME FndInv, NEW f \in Founders
  PROVE  Cardinality(Fnd!Committed(f)) <= 1
<1>1. CASE Fnd!Committed(f) = {}
  BY <1>1, FS_EmptySet
<1>2. CASE Fnd!Committed(f) # {}
  <2>1. PICK t : t \in Fnd!Committed(f)
    BY <1>2
  <2>2. \A u \in Fnd!Committed(f) : u = t
    BY <2>1 DEF Fnd!Committed, FndInv, FndOne, FndCompanyOK
  <2>3. Fnd!Committed(f) = {t}
    BY <2>1, <2>2
  <2>4. Cardinality({t}) = 1
    BY FS_Singleton
  <2> QED
    BY <2>3, <2>4
<1> QED
  BY <1>1, <1>2

(* However many tabs open the onboarding page at once, a founder has at    *)
(* most one company, whole, and never "autonomous" before it was picked    *)
(* (onboarding/page.tsx, seedCompanyStructure).                            *)
THEOREM CompanyFoundedOnce == Spec => []FoundedOnce
<1> DEFINE I == part = "founding" => FndInv
<1>1. Init => I
  BY FndInit DEF Init
<1>2. I /\ [Next]_vars => I'
  <2>1. ASSUME I, part' = "founding", Next
        PROVE  FndInv'
    <3>1. FndInv /\ Fnd!Next
      BY <2>1 DEF Next
    <3> QED
      BY <3>1, FndFoundKeeps, FndCommits, FndShows, FndSaves DEF Fnd!Next
  <2>2. ASSUME I, UNCHANGED vars
        PROVE  I'
    <3>1. part = "founding" => FndInv'
      BY <2>2 DEF vars, fndVars, FndInv, FndRows, FndOne, FndCompanyOK, FndTabOK, InTx,
         Picked, Fnd!Committed, Fnd!Whole
    <3> QED
      BY <2>2, <3>1 DEF vars
  <2> QED
    BY <2>1, <2>2
<1>3. I => FoundedOnce
  <2>1. ASSUME FndInv
        PROVE  Fnd!FoundedOnce
    <3>1. \A t \in FoundingTabs :
            fndCompanies[t] # NoCompany =>
                /\ Fnd!Whole(fndCompanies[t])
                /\ fndCompanies[t].style = "autonomous" => fndCompanies[t].owner \in fndChosen
      BY <2>1 DEF FndInv, FndCompanyOK, Picked
    <3>2. \A f \in Founders : Fnd!Cardinality(Fnd!Committed(f)) <= 1
      BY <2>1, OneCompany, SameSize
    <3> QED
      BY <3>1, <3>2 DEF Fnd!FoundedOnce
  <2> QED
    BY <2>1 DEF FoundedOnce
<1> HIDE DEF I
<1> QED
  BY <1>1, <1>2, <1>3, PTL DEF Spec

---------------------------------------------------------------------------
(* Connections.  A tab carries a token, a record or a list of what was     *)
(* added from one step to the next, while other tabs write rows and        *)
(* records and providers revoke tokens: what it carries stays true, as     *)
(* tokens and records are only ever added.                                 *)

ConnToken == [provider : Conn!Providers, full : BOOLEAN, ends : BOOLEAN, works : BOOLEAN]

ConnRow ==
    [provider : Conn!Providers, type : {"oauth", "manual_token"}, status : Conn!Statuses,
     token : Nat, full : BOOLEAN, ends : Nat]

ConnRecord ==
    [repo : RepoNames, form : Conn!Forms, by : {"picker", "form"}, known : Nat]

ConnRound == [provider : Conn!Providers, exp : Nat]

ConnTypes ==
    /\ connHour \in Nat
    /\ connTokens \in Seq(ConnToken) /\ connRows \in Seq(ConnRow)
    /\ connRounds \in Seq(ConnRound) /\ connRecords \in Seq(ConnRecord)
    /\ connPage = [t \in Browsing |-> connPage[t]]

(* A row against the tokens.                                               *)
RowFits(row, tokens) ==
    /\ row.status = "connected" =>
         /\ row.token \in DOMAIN tokens
         /\ tokens[row.token].provider = row.provider
         /\ row.full => tokens[row.token].full
    /\ row.status = "disconnected" => row.token = 0

(* A record, made or to be made, against the records seen before it.       *)
SeenFirst(new, rows) ==
    /\ new.known <= Len(rows)
    /\ new.by = "picker" => \A j \in 1 .. new.known : rows[j].repo # new.repo

Recorded(repo, rows) == \E i \in DOMAIN rows : rows[i].repo = repo

(* Where a tab goes after an import of a repository.                       *)
GoesOn(to, repo, rows) ==
    /\ to.at \in {"rest", "reload", "picker"}
    /\ to.at = "picker" => \A r \in to.added : Recorded(r, rows) \/ r = repo

(* What a tab carries, against the tokens, round trips and records.        *)
Carries(at, tokens, trips, rows) ==
    /\ at.at = "provider" => at.round \in DOMAIN trips
    /\ at.at = "exchange" => at.provider \in Conn!Providers
    /\ at.at \in {"find", "upsert"} =>
         /\ at.token \in DOMAIN tokens /\ tokens[at.token].provider = at.provider
         /\ at.type \in {"oauth", "manual_token", "refreshed"}
         /\ at.next.at \in {"rest", "linear"}
    /\ at.at = "picker" => \A r \in at.added : Recorded(r, rows)
    /\ at.at = "import" => at.repo \in RepoNames /\ GoesOn(at.then, at.repo, rows)
    /\ at.at \in {"resolve", "settle", "create"} =>
         /\ at = [at |-> at.at, new |-> at.new, then |-> at.then]
         /\ at.new \in ConnRecord /\ SeenFirst(at.new, rows)
         /\ GoesOn(at.then, at.new.repo, rows)

ConnInv ==
    /\ ConnTypes
    /\ \A i \in DOMAIN connRows : RowFits(connRows[i], connTokens)
    /\ \A i \in DOMAIN connRecords : SeenFirst(connRecords[i], connRecords)
    /\ \A t \in Browsing : Carries(connPage[t], connTokens, connRounds, connRecords)

(* What no step takes back.                                                *)
TokensGrow(old, new) ==
    \A k \in DOMAIN old :
        k \in DOMAIN new /\ new[k].provider = old[k].provider /\ new[k].full = old[k].full

RecordsGrow(old, new) ==
    Len(old) <= Len(new) /\ \A i \in 1 .. Len(old) : new[i] = old[i]

LEMMA Rewritten ==
  ASSUME NEW S, NEW s \in Seq(S), NEW f, f = [j \in DOMAIN s |-> f[j]],
         \A j \in DOMAIN s : f[j] \in S
  PROVE  f \in Seq(S) /\ DOMAIN f = DOMAIN s
<1>1. Len(s) \in Nat /\ DOMAIN s = 1 .. Len(s)
  OBVIOUS
<1>2. f \in [1 .. Len(s) -> S]
  BY <1>1
<1> QED
  BY <1>1, <1>2, SeqDef

LEMMA RowStillFits ==
  ASSUME NEW old, NEW new, TokensGrow(old, new), NEW row, RowFits(row, old)
  PROVE  RowFits(row, new)
  BY DEF TokensGrow, RowFits

LEMMA StillCarries ==
  ASSUME NEW tokens, NEW newTokens, TokensGrow(tokens, newTokens),
         NEW trips, NEW newTrips, DOMAIN trips \subseteq DOMAIN newTrips,
         NEW rows \in Seq(ConnRecord), NEW newRows \in Seq(ConnRecord),
         RecordsGrow(rows, newRows),
         NEW at, Carries(at, tokens, trips, rows)
  PROVE  Carries(at, newTokens, newTrips, newRows)
<1>1. \A r : Recorded(r, rows) => Recorded(r, newRows)
  BY DEF Recorded, RecordsGrow
<1>2. \A to, r : GoesOn(to, r, rows) => GoesOn(to, r, newRows)
  BY <1>1 DEF GoesOn
<1>3. ASSUME NEW new \in ConnRecord, SeenFirst(new, rows)
      PROVE  SeenFirst(new, newRows)
  <2>1. /\ new.known \in Nat /\ new.known <= Len(rows) /\ Len(rows) <= Len(newRows)
        /\ Len(rows) \in Nat /\ Len(newRows) \in Nat
    BY <1>3 DEF SeenFirst, RecordsGrow, ConnRecord
  <2>2. \A j \in 1 .. new.known : newRows[j] = rows[j]
    BY <2>1 DEF RecordsGrow
  <2> QED
    BY <1>3, <2>1, <2>2 DEF SeenFirst
<1> QED
  BY <1>1, <1>2, <1>3 DEF Carries, TokensGrow

LEMMA ConnStep ==
  ASSUME ConnInv, NEW t \in Browsing, NEW to, connPage' = [connPage EXCEPT ![t] = to],
         connHour' \in Nat, connTokens' \in Seq(ConnToken), connRows' \in Seq(ConnRow),
         connRounds' \in Seq(ConnRound), connRecords' \in Seq(ConnRecord),
         TokensGrow(connTokens, connTokens'), DOMAIN connRounds \subseteq DOMAIN connRounds',
         RecordsGrow(connRecords, connRecords'),
         \A i \in DOMAIN connRows' : RowFits(connRows'[i], connTokens'),
         \A i \in DOMAIN connRecords' : SeenFirst(connRecords'[i], connRecords'),
         Carries(to, connTokens', connRounds', connRecords')
  PROVE  ConnInv'
<1>1. /\ connPage' = [u \in Browsing |-> connPage'[u]]
      /\ \A u \in Browsing : connPage'[u] = IF u = t THEN to ELSE connPage[u]
  BY DEF ConnInv, ConnTypes
<1>2. \A u \in Browsing : Carries(connPage[u], connTokens', connRounds', connRecords')
  BY StillCarries DEF ConnInv, ConnTypes
<1>3. \A u \in Browsing : Carries(connPage'[u], connTokens', connRounds', connRecords')
  BY <1>1, <1>2
<1> QED
  BY <1>1, <1>3 DEF ConnInv, ConnTypes

(* A tab goes on, and rows, tokens and records stay as they are.           *)
LEMMA ConnTabMoves ==
  ASSUME ConnInv, NEW t \in Browsing, NEW to, connPage' = [connPage EXCEPT ![t] = to],
         UNCHANGED <<connHour, connTokens, connRows, connRounds, connRecords>>,
         Carries(to, connTokens, connRounds, connRecords)
  PROVE  ConnInv'
<1>1. TokensGrow(connTokens, connTokens') /\ RecordsGrow(connRecords, connRecords')
  BY DEF TokensGrow, RecordsGrow, ConnInv, ConnTypes
<1> QED
  BY <1>1, ConnStep DEF ConnInv, ConnTypes

(* A row is written over, and the tab goes on.                             *)
LEMMA ConnRowWritten ==
  ASSUME ConnInv, NEW t \in Browsing, NEW to, connPage' = [connPage EXCEPT ![t] = to],
         UNCHANGED <<connHour, connTokens, connRounds, connRecords>>,
         Carries(to, connTokens, connRounds, connRecords),
         NEW i,
         DOMAIN connRows' = DOMAIN connRows, connRows' \in Seq(ConnRow),
         \A j \in DOMAIN connRows :
            IF j = i THEN RowFits(connRows'[j], connTokens) ELSE connRows'[j] = connRows[j]
  PROVE  ConnInv'
<1>1. TokensGrow(connTokens, connTokens') /\ RecordsGrow(connRecords, connRecords')
  BY DEF TokensGrow, RecordsGrow, ConnInv, ConnTypes
<1>2. \A j \in DOMAIN connRows' : RowFits(connRows'[j], connTokens')
  BY DEF ConnInv
<1> QED
  BY <1>1, <1>2, ConnStep DEF ConnInv, ConnTypes

LEMMA ConnTokenAdded ==
  ASSUME ConnInv, NEW t \in Browsing, NEW token \in ConnToken,
         connTokens' = Append(connTokens, token),
         NEW to, connPage' = [connPage EXCEPT ![t] = to],
         to.at = "find", to.token = Len(connTokens) + 1, to.provider = token.provider,
         to.type \in {"oauth", "manual_token", "refreshed"},
         to.next.at \in {"rest", "linear"},
         UNCHANGED <<connHour, connRows, connRounds, connRecords>>
  PROVE  ConnInv'
<1> DEFINE n == Len(connTokens) + 1
<1>1. /\ connTokens' \in Seq(ConnToken) /\ DOMAIN connTokens' = DOMAIN connTokens \cup {n}
      /\ \A k \in DOMAIN connTokens : connTokens'[k] = connTokens[k]
      /\ connTokens'[n] = token
  BY DEF ConnInv, ConnTypes
<1> HIDE DEF n
<1>2. TokensGrow(connTokens, connTokens') /\ RecordsGrow(connRecords, connRecords')
  BY <1>1 DEF TokensGrow, RecordsGrow, ConnInv, ConnTypes
<1>3. \A j \in DOMAIN connRows' : RowFits(connRows'[j], connTokens')
  BY <1>2, RowStillFits DEF ConnInv
<1>4. Carries(to, connTokens', connRounds', connRecords')
  BY <1>1 DEF Carries, n
<1> QED
  BY <1>1, <1>2, <1>3, <1>4, ConnStep DEF ConnInv, ConnTypes

(* The pages, and the round trip to the provider.                          *)
LEMMA ConnPages ==
  ASSUME ConnInv, NEW t \in Browsing,
         \/ Conn!LoadProviderCards(t) \/ Conn!CloseTab(t)
         \/ \E p \in Conn!Providers : Conn!StartOAuth(t, p)
         \/ \E b \in BOOLEAN : Conn!Callback(t, b)
         \/ Conn!ExchangeFailed(t)
  PROVE  ConnInv'
<1>1. Carries(connPage[t], connTokens, connRounds, connRecords)
  BY DEF ConnInv
<1>2. CASE Conn!LoadProviderCards(t)
  <2>1. PICK to : to = [at |-> "cards", cards |-> [p \in Conn!Providers |-> Conn!Card(p)]]
    OBVIOUS
  <2>2. connPage' = [connPage EXCEPT ![t] = to]
    BY <1>2, <2>1 DEF Conn!LoadProviderCards, Conn!Go
  <2>3. Carries(to, connTokens, connRounds, connRecords)
    BY <2>1 DEF Carries
  <2> QED
    BY <1>2, <2>2, <2>3, ConnTabMoves DEF Conn!LoadProviderCards
<1>3. CASE Conn!CloseTab(t)
  <2>1. connPage' = [connPage EXCEPT ![t] = Conn!Rest] /\ Conn!Rest.at = "rest"
    BY <1>3 DEF Conn!CloseTab, Conn!Go, Conn!Rest
  <2> QED
    BY <1>3, <2>1, ConnTabMoves DEF Conn!CloseTab, Carries
<1>4. ASSUME NEW p \in Conn!Providers, Conn!StartOAuth(t, p)
      PROVE  ConnInv'
  <2> DEFINE n == Len(connRounds) + 1
  <2>1. PICK trip \in ConnRound : connRounds' = Append(connRounds, trip)
    BY <1>4 DEF Conn!StartOAuth, ConnRound, ConnInv, ConnTypes
  <2>2. /\ connRounds' \in Seq(ConnRound) /\ n \in DOMAIN connRounds'
        /\ DOMAIN connRounds \subseteq DOMAIN connRounds'
    BY <2>1 DEF ConnInv, ConnTypes
  <2>3. PICK to : to = [at |-> "provider", round |-> n]
    OBVIOUS
  <2>4. connPage' = [connPage EXCEPT ![t] = to]
    BY <1>4, <2>3 DEF Conn!StartOAuth, Conn!Go
  <2>5. UNCHANGED <<connHour, connTokens, connRows, connRecords>>
    BY <1>4 DEF Conn!StartOAuth
  <2> HIDE DEF n
  <2>6. TokensGrow(connTokens, connTokens') /\ RecordsGrow(connRecords, connRecords')
    BY <2>5 DEF TokensGrow, RecordsGrow, ConnInv, ConnTypes
  <2>7. Carries(to, connTokens', connRounds', connRecords')
    BY <2>2, <2>3 DEF Carries
  <2> QED
    BY <2>2, <2>4, <2>5, <2>6, <2>7, ConnStep DEF ConnInv, ConnTypes
<1>5. ASSUME NEW b \in BOOLEAN, Conn!Callback(t, b)
      PROVE  ConnInv'
  <2> DEFINE p == connRounds[connPage[t].round].provider
  <2>1. connPage[t].round \in DOMAIN connRounds
    BY <1>1, <1>5 DEF Conn!Callback, Carries
  <2>2. connRounds[connPage[t].round] \in ConnRound
    BY <2>1 DEF ConnInv, ConnTypes
  <2>3. p \in Conn!Providers
    BY <2>2 DEF ConnRound
  <2>4. PICK to : to = IF ~Conn!StateHolds(connPage[t].round) \/ b THEN Conn!Rest
                       ELSE [at |-> "exchange", provider |-> p]
    OBVIOUS
  <2>5. connPage' = [connPage EXCEPT ![t] = to]
    BY <1>5, <2>4 DEF Conn!Callback, Conn!Finish, Conn!Go
  <2> HIDE DEF p
  <2>6. Carries(to, connTokens, connRounds, connRecords)
    BY <2>3, <2>4 DEF Carries, Conn!Rest
  <2> QED
    BY <1>5, <2>5, <2>6, ConnTabMoves DEF Conn!Callback
<1>6. CASE Conn!ExchangeFailed(t)
  <2>1. connPage' = [connPage EXCEPT ![t] = Conn!Rest] /\ Conn!Rest.at = "rest"
    BY <1>6 DEF Conn!ExchangeFailed, Conn!Finish, Conn!Go, Conn!Rest
  <2> QED
    BY <1>6, <2>1, ConnTabMoves DEF Conn!ExchangeFailed, Carries
<1> QED
  BY <1>2, <1>3, <1>4, <1>5, <1>6

(* A token comes back, and is stored in a row found before.                *)
LEMMA ConnConnects ==
  ASSUME ConnInv, NEW t \in Browsing,
         \/ \E b \in BOOLEAN : Conn!ExchangeCode(t, b)
         \/ \E p \in Conn!Providers : Conn!ConnectProviderManualToken(t, p)
         \/ Conn!FindConnection(t) \/ Conn!WriteConnection(t)
         \/ \E p \in Conn!Providers : Conn!DisconnectProvider(t, p)
  PROVE  ConnInv'
<1>1. Carries(connPage[t], connTokens, connRounds, connRecords)
  BY DEF ConnInv
<1>2. ASSUME NEW b \in BOOLEAN, Conn!ExchangeCode(t, b)
      PROVE  ConnInv'
  <2>1. connPage[t].provider \in Conn!Providers
    BY <1>1, <1>2 DEF Conn!ExchangeCode, Carries
  <2>2. PICK token : token = Conn!Token(connPage[t].provider, b)
    OBVIOUS
  <2>3. token \in ConnToken /\ token.provider = connPage[t].provider
    BY <2>1, <2>2 DEF Conn!Token, ConnToken
  <2>4. PICK to : to = [at |-> "find", type |-> "oauth", provider |-> connPage[t].provider,
                        token |-> Len(connTokens) + 1, next |-> Conn!Rest]
    OBVIOUS
  <2>5. /\ connPage' = [connPage EXCEPT ![t] = to] /\ connTokens' = Append(connTokens, token)
        /\ UNCHANGED <<connHour, connRows, connRounds, connRecords>>
    BY <1>2, <2>2, <2>4 DEF Conn!ExchangeCode, Conn!Go
  <2>6. /\ to.at = "find" /\ to.token = Len(connTokens) + 1 /\ to.type = "oauth"
        /\ to.provider = token.provider /\ to.next.at = "rest"
    BY <2>3, <2>4 DEF Conn!Rest
  <2> QED
    BY <2>3, <2>5, <2>6, ConnTokenAdded
<1>3. ASSUME NEW p \in Conn!Providers, Conn!ConnectProviderManualToken(t, p)
      PROVE  ConnInv'
  <2>1. PICK token : token = [Conn!Token(p, TRUE) EXCEPT !.ends = FALSE]
    OBVIOUS
  <2>2. token \in ConnToken /\ token.provider = p
    BY <2>1 DEF Conn!Token, ConnToken
  <2>3. PICK to : to = [at |-> "find", type |-> "manual_token", provider |-> p,
                        token |-> Len(connTokens) + 1, next |-> Conn!Rest]
    OBVIOUS
  <2>4. /\ connPage' = [connPage EXCEPT ![t] = to] /\ connTokens' = Append(connTokens, token)
        /\ UNCHANGED <<connHour, connRows, connRounds, connRecords>>
    BY <1>3, <2>1, <2>3 DEF Conn!ConnectProviderManualToken, Conn!Go
  <2>5. /\ to.at = "find" /\ to.token = Len(connTokens) + 1 /\ to.type = "manual_token"
        /\ to.provider = token.provider /\ to.next.at = "rest"
    BY <2>2, <2>3 DEF Conn!Rest
  <2> QED
    BY <2>2, <2>4, <2>5, ConnTokenAdded
<1>4. CASE Conn!FindConnection(t)
  <2>1. PICK to : /\ connPage' = [connPage EXCEPT ![t] = to] /\ to.at = "upsert"
                  /\ to.type = connPage[t].type /\ to.provider = connPage[t].provider
                  /\ to.token = connPage[t].token /\ to.next = connPage[t].next
    BY <1>4 DEF Conn!FindConnection, Conn!Go
  <2>2. Carries(to, connTokens, connRounds, connRecords)
    BY <1>1, <1>4, <2>1 DEF Carries, Conn!FindConnection
  <2> QED
    BY <1>4, <2>1, <2>2, ConnTabMoves DEF Conn!FindConnection
<1>5. CASE Conn!WriteConnection(t)
  <2> DEFINE m == connPage[t]
  <2>1. /\ m.token \in DOMAIN connTokens /\ connTokens[m.token].provider = m.provider
        /\ m.type \in {"oauth", "manual_token", "refreshed"}
        /\ connTokens[m.token] \in ConnToken /\ m.token \in Nat
        /\ m.next.at \in {"rest", "linear"}
    BY <1>1, <1>5 DEF Conn!WriteConnection, Carries, ConnInv, ConnTypes
  <2>2. PICK row \in ConnRow : row = Conn!RowFor(m) /\ RowFits(row, connTokens)
    <3>1. /\ Conn!RowFor(m) \in ConnRow
          /\ RowFits(Conn!RowFor(m), connTokens)
      BY <2>1 DEF Conn!RowFor, ConnRow, ConnToken, RowFits, Conn!None, Conn!Statuses,
         ConnInv, ConnTypes
    <3> QED
      BY <3>1
  <2>3. PICK to : /\ connPage' = [connPage EXCEPT ![t] = to]
                  /\ Carries(to, connTokens, connRounds, connRecords)
    <3>1. PICK to : to = IF m.type = "oauth" THEN Conn!Rest ELSE m.next
      OBVIOUS
    <3>2. connPage' = [connPage EXCEPT ![t] = to]
      BY <1>5, <3>1 DEF Conn!WriteConnection, Conn!Finish, Conn!Go
    <3>3. to.at \in {"rest", "linear"}
      BY <2>1, <3>1 DEF Conn!Rest
    <3> HIDE DEF m
    <3> QED
      BY <3>2, <3>3 DEF Carries
  <2>4. UNCHANGED <<connHour, connTokens, connRounds, connRecords>>
    BY <1>5 DEF Conn!WriteConnection
  <2>5. CASE m.row = 0
    <3> DEFINE n == Len(connRows) + 1
    <3>1. connRows' = Append(connRows, row)
      BY <1>5, <2>2, <2>5 DEF Conn!WriteConnection, Conn!None
    <3>2. /\ connRows' \in Seq(ConnRow) /\ DOMAIN connRows' = DOMAIN connRows \cup {n}
          /\ \A j \in DOMAIN connRows : connRows'[j] = connRows[j]
          /\ connRows'[n] = row
      BY <3>1 DEF ConnInv, ConnTypes
    <3> HIDE DEF n
    <3>3. \A j \in DOMAIN connRows' : RowFits(connRows'[j], connTokens')
      BY <2>2, <2>4, <3>2 DEF ConnInv
    <3>4. TokensGrow(connTokens, connTokens') /\ RecordsGrow(connRecords, connRecords')
      BY <2>4 DEF TokensGrow, RecordsGrow, ConnInv, ConnTypes
    <3> QED
      BY <2>3, <2>4, <3>2, <3>3, <3>4, ConnStep DEF ConnInv, ConnTypes
  <2>6. CASE m.row # 0
    <3>1. connRows' = [connRows EXCEPT ![m.row] = row]
      BY <1>5, <2>2, <2>6 DEF Conn!WriteConnection, Conn!None
    <3>2. /\ connRows' \in Seq(ConnRow) /\ DOMAIN connRows' = DOMAIN connRows
          /\ \A j \in DOMAIN connRows :
                connRows'[j] = IF j = m.row THEN row ELSE connRows[j]
      <4>1. /\ connRows' = [j \in DOMAIN connRows |-> connRows'[j]]
            /\ \A j \in DOMAIN connRows :
                  connRows'[j] = IF j = m.row THEN row ELSE connRows[j]
        BY <3>1
      <4>2. connRows \in Seq(ConnRow) /\ \A j \in DOMAIN connRows : connRows'[j] \in ConnRow
        BY <4>1 DEF ConnInv, ConnTypes
      <4> HIDE DEF m
      <4> QED
        BY <4>1, <4>2, Rewritten
    <3> HIDE DEF m
    <3> QED
      BY <2>2, <2>3, <2>4, <3>2, ConnRowWritten
  <2> QED
    BY <2>5, <2>6
<1>6. ASSUME NEW p \in Conn!Providers, Conn!DisconnectProvider(t, p)
      PROVE  ConnInv'
  <2>1. PICK i : connRows' = [connRows EXCEPT ![i].status = "disconnected",
                                             ![i].token = 0, ![i].ends = 0]
    BY <1>6 DEF Conn!DisconnectProvider, Conn!None
  <2>2. /\ connRows' = [j \in DOMAIN connRows |-> connRows'[j]]
        /\ \A j \in DOMAIN connRows :
            connRows'[j] =
              IF j = i THEN [connRows[j] EXCEPT !.status = "disconnected", !.token = 0,
                                               !.ends = 0]
              ELSE connRows[j]
    BY <2>1
  <2>3. ASSUME NEW j \in DOMAIN connRows
        PROVE  /\ connRows'[j] \in ConnRow
               /\ IF j = i THEN RowFits(connRows'[j], connTokens)
                  ELSE connRows'[j] = connRows[j]
    <3>1. connRows[j] \in ConnRow
      BY DEF ConnInv, ConnTypes
    <3>2. CASE j = i
      <4>1. PICK row : row = [connRows[j] EXCEPT !.status = "disconnected", !.token = 0,
                                                 !.ends = 0]
        OBVIOUS
      <4>2. row \in ConnRow /\ RowFits(row, connTokens)
        BY <3>1, <4>1 DEF ConnRow, Conn!Statuses, RowFits
      <4> QED
        BY <2>2, <3>2, <4>1, <4>2
    <3> QED
      BY <2>2, <3>1, <3>2
  <2>4. connRows' \in Seq(ConnRow) /\ DOMAIN connRows' = DOMAIN connRows
    BY <2>2, <2>3, Rewritten DEF ConnInv, ConnTypes
  <2>5. /\ connPage' = [connPage EXCEPT ![t] = Conn!Rest]
        /\ Carries(Conn!Rest, connTokens, connRounds, connRecords)
        /\ UNCHANGED <<connHour, connTokens, connRounds, connRecords>>
    BY <1>6 DEF Conn!DisconnectProvider, Conn!Go, Conn!Rest, Carries
  <2> QED
    BY <2>3, <2>4, <2>5, ConnRowWritten
<1> QED
  BY <1>2, <1>3, <1>4, <1>5, <1>6

(* A row is put in error, and the tab goes on.                              *)
LEMMA ConnRowInError ==
  ASSUME ConnInv, NEW t \in Browsing, NEW to, connPage' = [connPage EXCEPT ![t] = to],
         UNCHANGED <<connHour, connTokens, connRounds, connRecords>>,
         Carries(to, connTokens, connRounds, connRecords),
         NEW i, Conn!InError(i)
  PROVE  ConnInv'
<1>1. /\ connRows' = [j \in DOMAIN connRows |-> connRows'[j]]
      /\ \A j \in DOMAIN connRows :
            connRows'[j] = IF j = i THEN [connRows[j] EXCEPT !.status = "error"]
                           ELSE connRows[j]
  BY DEF Conn!InError
<1>2. ASSUME NEW j \in DOMAIN connRows
      PROVE  /\ connRows'[j] \in ConnRow
             /\ IF j = i THEN RowFits(connRows'[j], connTokens)
                ELSE connRows'[j] = connRows[j]
  <2>1. connRows[j] \in ConnRow
    BY DEF ConnInv, ConnTypes
  <2>2. CASE j = i
    <3>1. PICK row : row = [connRows[j] EXCEPT !.status = "error"]
      OBVIOUS
    <3>2. row \in ConnRow /\ RowFits(row, connTokens)
      BY <2>1, <3>1 DEF ConnRow, Conn!Statuses, RowFits
    <3> QED
      BY <1>1, <2>2, <3>1, <3>2
  <2> QED
    BY <1>1, <2>1, <2>2
<1>3. connRows' \in Seq(ConnRow) /\ DOMAIN connRows' = DOMAIN connRows
  BY <1>1, <1>2, Rewritten DEF ConnInv, ConnTypes
<1> QED
  BY <1>2, <1>3, ConnRowWritten

(* The picker: a list shown, a button pressed, a row put in error.         *)
LEMMA ConnPicks ==
  ASSUME ConnInv, NEW t \in Browsing,
         \/ Conn!OpenPicker(t) \/ Conn!ListGitHubRepositories(t) \/ Conn!ListFails(t)
         \/ \E r \in RepoNames : Conn!CreateGitHubRepository(t, r) \/ Conn!HandleImport(t, r)
  PROVE  ConnInv'
<1>1. Carries(connPage[t], connTokens, connRounds, connRecords)
  BY DEF ConnInv
<1>2. ASSUME NEW b, connPage' = [connPage EXCEPT ![t] = Conn!Picker({}, b)],
             UNCHANGED <<connHour, connTokens, connRows, connRounds, connRecords>>
      PROVE  ConnInv'
  <2>1. PICK to : to = Conn!Picker({}, b)
    OBVIOUS
  <2>2. Carries(to, connTokens, connRounds, connRecords)
    BY <2>1 DEF Conn!Picker, Carries
  <2> QED
    BY <1>2, <2>1, <2>2, ConnTabMoves
<1>3. ASSUME NEW i, Conn!Rejected(t, i)
      PROVE  ConnInv'
  <2>1. PICK to : to = Conn!Picker({}, TRUE)
    OBVIOUS
  <2>2. Carries(to, connTokens, connRounds, connRecords)
    BY <2>1 DEF Conn!Picker, Carries
  <2>3. /\ connPage' = [connPage EXCEPT ![t] = to] /\ Conn!InError(i)
        /\ UNCHANGED <<connHour, connTokens, connRounds, connRecords>>
    BY <1>3, <2>1 DEF Conn!Rejected, Conn!Go
  <2> QED
    BY <2>2, <2>3, ConnRowInError
<1>4. CASE Conn!OpenPicker(t)
  <2>1. PICK i \in Conn!Found("github") :
          connPage' = [connPage EXCEPT ![t] =
                          IF Conn!Connected(i) /\ connRows[i].full
                          THEN [at |-> "list", row |-> i, token |-> connRows[i].token]
                          ELSE Conn!Picker({}, TRUE)]
    BY <1>4 DEF Conn!OpenPicker, Conn!Go
  <2>2. PICK to : to = IF Conn!Connected(i) /\ connRows[i].full
                       THEN [at |-> "list", row |-> i, token |-> connRows[i].token]
                       ELSE Conn!Picker({}, TRUE)
    OBVIOUS
  <2>3. Carries(to, connTokens, connRounds, connRecords)
    BY <2>2 DEF Conn!Picker, Carries
  <2> QED
    BY <1>4, <2>1, <2>2, <2>3, ConnTabMoves DEF Conn!OpenPicker
<1>5. CASE Conn!ListGitHubRepositories(t)
  <2>1. CASE connTokens[connPage[t].token].works
    <3>1. PICK added : added = {r \in connHosted :
                           \E i \in DOMAIN connRecords :
                               Conn!Normal(connRecords[i])
                                   = Conn!Normal([repo |-> r, form |-> "html_url"])}
      OBVIOUS
    <3>2. \A r \in added : Recorded(r, connRecords)
      BY <3>1 DEF Conn!Normal, Recorded
    <3>3. PICK to : to = Conn!Picker(added, FALSE)
      OBVIOUS
    <3>4. Carries(to, connTokens, connRounds, connRecords)
      BY <3>2, <3>3 DEF Conn!Picker, Carries
    <3>5. /\ connPage' = [connPage EXCEPT ![t] = to]
          /\ UNCHANGED <<connHour, connTokens, connRows, connRounds, connRecords>>
      BY <1>5, <2>1, <3>1, <3>3 DEF Conn!ListGitHubRepositories, Conn!Go
    <3> QED
      BY <3>4, <3>5, ConnTabMoves
  <2>2. CASE ~connTokens[connPage[t].token].works
    <3>1. PICK i : i = connPage[t].row
      OBVIOUS
    <3> QED
      BY <1>3, <1>5, <2>2, <3>1 DEF Conn!ListGitHubRepositories
  <2> QED
    BY <2>1, <2>2
<1>6. CASE Conn!ListFails(t)
  BY <1>2, <1>6 DEF Conn!ListFails, Conn!Go
<1>7. ASSUME NEW r \in RepoNames, Conn!CreateGitHubRepository(t, r)
      PROVE  ConnInv'
  <2>1. PICK i \in Conn!Found("github") :
          \/ /\ Conn!Go(t, Conn!Picker({}, TRUE))
             /\ UNCHANGED <<connHour, connTokens, connRows, connRounds, connRecords>>
          \/ Conn!Rejected(t, i)
          \/ /\ Conn!Go(t, [at |-> "import", repo |-> r, then |-> [at |-> "reload"]])
             /\ UNCHANGED <<connHour, connTokens, connRows, connRounds, connRecords>>
    BY <1>7 DEF Conn!CreateGitHubRepository
  <2>2. PICK to : to = [at |-> "import", repo |-> r, then |-> [at |-> "reload"]]
    OBVIOUS
  <2>3. Carries(to, connTokens, connRounds, connRecords)
    BY <2>2 DEF Carries, GoesOn
  <2> QED
    BY <1>2, <1>3, <2>1, <2>2, <2>3, ConnTabMoves DEF Conn!Go
<1>8. ASSUME NEW r \in RepoNames, Conn!HandleImport(t, r)
      PROVE  ConnInv'
  <2>1. PICK then : then = Conn!Picker(connPage[t].added \cup {r}, FALSE)
    OBVIOUS
  <2>2. GoesOn(then, r, connRecords)
    BY <1>1, <1>8, <2>1 DEF Conn!HandleImport, Conn!MayPick, Conn!Picker, Carries, GoesOn
  <2>3. PICK to : to = [at |-> "import", repo |-> r, then |-> then]
    OBVIOUS
  <2>4. Carries(to, connTokens, connRounds, connRecords)
    BY <2>2, <2>3 DEF Carries
  <2> QED
    BY <1>8, <2>1, <2>3, <2>4, ConnTabMoves DEF Conn!HandleImport, Conn!Go
<1> QED
  BY <1>4, <1>5, <1>6, <1>7, <1>8

(* Linear's projects are loaded, with a token refreshed on the way.        *)
LEMMA ConnLinear ==
  ASSUME ConnInv, NEW t \in Browsing,
         \/ Conn!OpenLinear(t) \/ Conn!RefreshLinearToken(t)
         \/ Conn!ListLinearProjects(t) \/ Conn!LinearFails(t)
  PROVE  ConnInv'
<1>1. Carries(Conn!Rest, connTokens, connRounds, connRecords)
  BY DEF Carries, Conn!Rest
<1>2. CASE Conn!OpenLinear(t)
  <2>1. PICK to : connPage' = [connPage EXCEPT ![t] = to] /\ to.at = "linear"
    <3>1. PICK i \in Conn!Found("linear") \ {Conn!None} :
            connPage' = [connPage EXCEPT ![t] = [at |-> "linear", row |-> i,
                            refresh |-> connRows[i].type = "oauth" /\ Conn!Expired(connRows[i])]]
      BY <1>2 DEF Conn!OpenLinear, Conn!Go
    <3>2. PICK b : b = (connRows[i].type = "oauth" /\ Conn!Expired(connRows[i]))
      OBVIOUS
    <3>3. PICK to : to = [at |-> "linear", row |-> i, refresh |-> b]
      OBVIOUS
    <3>4. connPage' = [connPage EXCEPT ![t] = to]
      BY <3>1, <3>2, <3>3, Zenon
    <3>5. to.at = "linear"
      BY <3>3
    <3> QED
      BY <3>4, <3>5
  <2>2. Carries(to, connTokens, connRounds, connRecords)
    BY <2>1 DEF Carries
  <2> QED
    BY <1>2, <2>1, <2>2, ConnTabMoves DEF Conn!OpenLinear
<1>3. CASE Conn!RefreshLinearToken(t)
  <2>1. PICK token : token = Conn!Token("linear", TRUE)
    OBVIOUS
  <2>2. token \in ConnToken /\ token.provider = "linear"
    BY <2>1 DEF Conn!Token, ConnToken, Conn!Providers
  <2>3. PICK next : next = [connPage[t] EXCEPT !.refresh = FALSE]
    OBVIOUS
  <2>4. next.at = "linear"
    BY <1>3, <2>3 DEF Conn!RefreshLinearToken
  <2>5. PICK to : to = [at |-> "find", type |-> "refreshed", provider |-> "linear",
                        token |-> Len(connTokens) + 1, next |-> next]
    OBVIOUS
  <2>6. /\ connPage' = [connPage EXCEPT ![t] = to] /\ connTokens' = Append(connTokens, token)
        /\ UNCHANGED <<connHour, connRows, connRounds, connRecords>>
    BY <1>3, <2>1, <2>3, <2>5 DEF Conn!RefreshLinearToken, Conn!Go
  <2>7. /\ to.at = "find" /\ to.token = Len(connTokens) + 1 /\ to.type = "refreshed"
        /\ to.provider = token.provider /\ to.next.at = "linear"
    BY <2>2, <2>4, <2>5
  <2> QED
    BY <2>2, <2>6, <2>7, ConnTokenAdded
<1>4. CASE Conn!ListLinearProjects(t)
  BY <1>1, <1>4, ConnTabMoves DEF Conn!ListLinearProjects, Conn!Go
<1>5. CASE Conn!LinearFails(t)
  <2>1. PICK i : i = connPage[t].row
    OBVIOUS
  <2> QED
    BY <1>1, <1>5, <2>1, ConnRowInError DEF Conn!LinearFails, Conn!Go
<1> QED
  BY <1>2, <1>3, <1>4, <1>5

(* A record is made, in steps that other tabs' steps come between.         *)
LEMMA ConnImports ==
  ASSUME ConnInv, NEW t \in Browsing,
         \/ Conn!FindRepositoryByUrl(t)
         \/ \E r \in RepoNames, f \in Conn!Forms : Conn!AddRepository(t, r, f)
         \/ Conn!ResolveWorkspace(t) \/ Conn!CreateWorkspace(t)
         \/ Conn!CreateRepositoryRecord(t)
  PROVE  ConnInv'
<1> DEFINE s == connPage[t]
<1>1. Carries(s, connTokens, connRounds, connRecords)
  BY DEF ConnInv
<1>2. connRecords \in Seq(ConnRecord)
  BY DEF ConnInv, ConnTypes
<1>3. ASSUME NEW to, GoesOn(to, s.repo, connRecords) /\ Recorded(s.repo, connRecords)
      PROVE  Carries(to, connTokens, connRounds, connRecords)
  BY <1>3 DEF GoesOn, Carries
<1>4. CASE Conn!FindRepositoryByUrl(t)
  <2>1. s.repo \in RepoNames /\ GoesOn(s.then, s.repo, connRecords)
    BY <1>1, <1>4 DEF Conn!FindRepositoryByUrl, Carries
  <2>2. PICK new : new = [repo |-> s.repo, form |-> "html_url", by |-> "picker",
                          known |-> Len(connRecords)]
    OBVIOUS
  <2>3. CASE \E i \in DOMAIN connRecords :
               Conn!Normal(connRecords[i]) = Conn!Normal(new)
    <3>1. PICK to : to = s.then
      OBVIOUS
    <3>2. Recorded(s.repo, connRecords)
      BY <2>2, <2>3 DEF Conn!Normal, Recorded
    <3>3. Carries(to, connTokens, connRounds, connRecords)
      BY <1>3, <2>1, <3>1, <3>2
    <3>4. connPage' = [connPage EXCEPT ![t] = to]
      BY <1>4, <2>2, <2>3, <3>1 DEF Conn!FindRepositoryByUrl, Conn!Go
    <3> HIDE DEF s
    <3> QED
      BY <1>4, <3>3, <3>4, ConnTabMoves DEF Conn!FindRepositoryByUrl
  <2>4. CASE ~\E i \in DOMAIN connRecords :
               Conn!Normal(connRecords[i]) = Conn!Normal(new)
    <3>1. PICK to : to = [at |-> "resolve", new |-> new, then |-> s.then]
      OBVIOUS
    <3>2. new \in ConnRecord
      BY <1>2, <2>1, <2>2 DEF ConnRecord, Conn!Forms
    <3>3. SeenFirst(new, connRecords)
      <4>1. \A i \in DOMAIN connRecords : connRecords[i].repo # new.repo
        BY <2>4 DEF Conn!Normal
      <4> QED
        BY <1>2, <2>2, <4>1 DEF SeenFirst
    <3>4. Carries(to, connTokens, connRounds, connRecords)
      BY <2>1, <2>2, <3>1, <3>2, <3>3 DEF Carries
    <3>5. connPage' = [connPage EXCEPT ![t] = to]
      BY <1>4, <2>2, <2>4, <3>1 DEF Conn!FindRepositoryByUrl, Conn!Go
    <3> HIDE DEF s
    <3> QED
      BY <1>4, <3>4, <3>5, ConnTabMoves DEF Conn!FindRepositoryByUrl
  <2> QED
    BY <2>3, <2>4
<1>5. ASSUME NEW r \in RepoNames, NEW f \in Conn!Forms, Conn!AddRepository(t, r, f)
      PROVE  ConnInv'
  <2>1. PICK new : new = [repo |-> r, form |-> f, by |-> "form", known |-> 0]
    OBVIOUS
  <2>2. new \in ConnRecord /\ SeenFirst(new, connRecords)
    BY <1>2, <2>1 DEF ConnRecord, SeenFirst
  <2>3. PICK to : to = [at |-> "resolve", then |-> Conn!Rest, new |-> new]
    OBVIOUS
  <2>4. Carries(to, connTokens, connRounds, connRecords)
    BY <2>2, <2>3 DEF Carries, GoesOn, Conn!Rest
  <2> QED
    BY <1>5, <2>1, <2>3, <2>4, ConnTabMoves DEF Conn!AddRepository, Conn!Go
<1>6. ASSUME s.at \in {"resolve", "settle", "create"}
      PROVE  /\ s = [at |-> s.at, new |-> s.new, then |-> s.then]
             /\ s.new \in ConnRecord /\ SeenFirst(s.new, connRecords)
             /\ GoesOn(s.then, s.new.repo, connRecords)
  BY <1>1, <1>6 DEF Carries
<1>7. ASSUME NEW step \in {"settle", "create"}, s.at \in {"resolve", "settle"}
      PROVE  Carries([s EXCEPT !.at = step], connTokens, connRounds, connRecords)
  <2>1. [s EXCEPT !.at = step] = [at |-> step, new |-> s.new, then |-> s.then]
    BY <1>6, <1>7
  <2> QED
    BY <1>6, <1>7, <2>1 DEF Carries
<1>8. CASE Conn!ResolveWorkspace(t)
  <2>1. PICK to : to = [s EXCEPT !.at = IF connWorkspace THEN "create" ELSE "settle"]
    OBVIOUS
  <2>2. Carries(to, connTokens, connRounds, connRecords)
    BY <1>7, <1>8, <2>1 DEF Conn!ResolveWorkspace
  <2>3. connPage' = [connPage EXCEPT ![t] = to]
    BY <1>8, <2>1 DEF Conn!ResolveWorkspace, Conn!Go
  <2> HIDE DEF s
  <2> QED
    BY <1>8, <2>2, <2>3, ConnTabMoves DEF Conn!ResolveWorkspace
<1>9. CASE Conn!CreateWorkspace(t)
  <2>1. PICK to : to = IF ~connWorkspace THEN [s EXCEPT !.at = "create"]
                       ELSE IF s.new.by = "picker"
                       THEN [Conn!Picker({}, FALSE) EXCEPT !.busy = TRUE]
                       ELSE Conn!Rest
    OBVIOUS
  <2>2. Carries(to, connTokens, connRounds, connRecords)
    <3>1. CASE ~connWorkspace
      BY <1>7, <1>9, <2>1, <3>1 DEF Conn!CreateWorkspace
    <3>2. CASE connWorkspace
      BY <2>1, <3>2 DEF Conn!Picker, Conn!Rest, Carries
    <3> QED
      BY <3>1, <3>2
  <2>3. connPage' = [connPage EXCEPT ![t] = to]
    BY <1>9, <2>1 DEF Conn!CreateWorkspace, Conn!Go
  <2> HIDE DEF s
  <2> QED
    BY <1>9, <2>2, <2>3, ConnTabMoves DEF Conn!CreateWorkspace
<1>10. CASE Conn!CreateRepositoryRecord(t)
  <2>1. PICK new \in ConnRecord :
          new = s.new /\ SeenFirst(new, connRecords) /\ GoesOn(s.then, new.repo, connRecords)
    BY <1>6, <1>10 DEF Conn!CreateRepositoryRecord
  <2>2. PICK to : to = s.then
    OBVIOUS
  <2>3. /\ connPage' = [connPage EXCEPT ![t] = to]
        /\ connRecords' = Append(connRecords, new)
        /\ UNCHANGED <<connHour, connTokens, connRows, connRounds>>
    BY <1>10, <2>1, <2>2 DEF Conn!CreateRepositoryRecord, Conn!Go
  <2> DEFINE n == Len(connRecords) + 1
  <2>4. /\ connRecords' \in Seq(ConnRecord) /\ DOMAIN connRecords' = DOMAIN connRecords \cup {n}
        /\ \A i \in DOMAIN connRecords : connRecords'[i] = connRecords[i]
        /\ connRecords'[n] = new /\ Len(connRecords') = n
    BY <1>2, <2>3
  <2>5. RecordsGrow(connRecords, connRecords') /\ TokensGrow(connTokens, connTokens')
    BY <1>2, <2>3, <2>4 DEF RecordsGrow, TokensGrow
  <2>6. ASSUME NEW row \in ConnRecord, SeenFirst(row, connRecords)
        PROVE  SeenFirst(row, connRecords')
    <3>1. /\ row.known \in Nat /\ row.known <= Len(connRecords)
          /\ Len(connRecords) \in Nat
      BY <1>2, <2>6 DEF SeenFirst, ConnRecord
    <3>2. row.known <= Len(connRecords')
      BY <2>4, <3>1
    <3>3. \A j \in 1 .. row.known : connRecords'[j] = connRecords[j]
      BY <1>2, <2>4, <3>1
    <3> QED
      BY <2>6, <3>2, <3>3 DEF SeenFirst
  <2>7. \A i \in DOMAIN connRecords' : SeenFirst(connRecords'[i], connRecords')
    <3>1. \A i \in DOMAIN connRecords :
            connRecords[i] \in ConnRecord /\ SeenFirst(connRecords[i], connRecords)
      BY DEF ConnInv, ConnTypes
    <3> HIDE DEF n
    <3> QED
      BY <2>1, <2>4, <2>6, <3>1
  <2>8. Carries(to, connTokens', connRounds', connRecords')
    <3>1. \A r : Recorded(r, connRecords) \/ r = new.repo => Recorded(r, connRecords')
      BY <2>4 DEF Recorded
    <3> QED
      BY <2>1, <2>2, <3>1 DEF GoesOn, Carries
  <2> HIDE DEF n, s
  <2> QED
    BY <2>3, <2>4, <2>5, <2>7, <2>8, ConnStep DEF ConnInv, ConnTypes
<1> QED
  BY <1>4, <1>5, <1>8, <1>9, <1>10

(* A provider takes a token back, and time passes.                         *)
LEMMA ConnElsewhere ==
  ASSUME ConnInv, Conn!Tick \/ \E k \in 1 .. MaxTokens : Conn!RevokeToken(k)
  PROVE  ConnInv'
<1>1. CASE Conn!Tick
  BY <1>1 DEF Conn!Tick, ConnInv, ConnTypes
<1>2. ASSUME NEW k \in 1 .. MaxTokens, Conn!RevokeToken(k)
      PROVE  ConnInv'
  <2>1. /\ k \in DOMAIN connTokens
        /\ connTokens' = [connTokens EXCEPT ![k].works = FALSE]
        /\ UNCHANGED <<connHour, connRows, connRounds, connRecords, connPage>>
    BY <1>2 DEF Conn!RevokeToken
  <2>2. /\ connTokens' = [j \in DOMAIN connTokens |-> connTokens'[j]]
        /\ \A j \in DOMAIN connTokens :
              connTokens'[j] = IF j = k THEN [connTokens[j] EXCEPT !.works = FALSE]
                               ELSE connTokens[j]
    BY <2>1
  <2>3. ASSUME NEW j \in DOMAIN connTokens
        PROVE  /\ connTokens'[j] \in ConnToken
               /\ connTokens'[j].provider = connTokens[j].provider
               /\ connTokens'[j].full = connTokens[j].full
    <3>1. connTokens[j] \in ConnToken
      BY DEF ConnInv, ConnTypes
    <3>2. PICK token : token = [connTokens[j] EXCEPT !.works = FALSE]
      OBVIOUS
    <3>3. /\ token \in ConnToken /\ token.provider = connTokens[j].provider
          /\ token.full = connTokens[j].full
      BY <3>1, <3>2 DEF ConnToken
    <3> QED
      BY <2>2, <3>1, <3>2, <3>3
  <2>4. connTokens' \in Seq(ConnToken) /\ DOMAIN connTokens' = DOMAIN connTokens
    BY <2>2, <2>3, Rewritten DEF ConnInv, ConnTypes
  <2>5. TokensGrow(connTokens, connTokens') /\ RecordsGrow(connRecords, connRecords')
    BY <2>1, <2>3, <2>4 DEF TokensGrow, RecordsGrow, ConnInv, ConnTypes
  <2>6. \A i \in DOMAIN connRows' : RowFits(connRows'[i], connTokens')
    BY <2>1, <2>5, RowStillFits DEF ConnInv
  <2>7. \A t \in Browsing : Carries(connPage'[t], connTokens', connRounds', connRecords')
    BY <2>1, <2>5, StillCarries DEF ConnInv, ConnTypes
  <2> QED
    BY <2>1, <2>4, <2>6, <2>7 DEF ConnInv, ConnTypes
<1> QED
  BY <1>1, <1>2

LEMMA ConnInit == Conn!Init => ConnInv
<1> SUFFICES ASSUME Conn!Init PROVE ConnInv
  OBVIOUS
<1>1. /\ connTokens \in Seq(ConnToken) /\ connRows \in Seq(ConnRow)
      /\ \A i \in DOMAIN connRows : RowFits(connRows[i], connTokens)
  <2>1. CASE connTokens = <<>> /\ connRows = <<>>
    BY <2>1
  <2>2. CASE /\ connTokens = <<Conn!Token("github", TRUE)>>
             /\ connRows = <<[provider |-> "github", type |-> "oauth", status |-> "connected",
                              token |-> 1, full |-> TRUE, ends |-> Conn!None]>>
    <3>1. PICK token : token = Conn!Token("github", TRUE)
      OBVIOUS
    <3>2. token \in ConnToken /\ token.provider = "github" /\ token.full
      BY <3>1 DEF Conn!Token, ConnToken, Conn!Providers
    <3>3. PICK row : row = [provider |-> "github", type |-> "oauth", status |-> "connected",
                            token |-> 1, full |-> TRUE, ends |-> Conn!None]
      OBVIOUS
    <3>4. row \in ConnRow /\ row.provider = "github" /\ row.token = 1 /\ row.status = "connected"
      BY <3>3 DEF ConnRow, Conn!Providers, Conn!Statuses, Conn!None
    <3>5. connTokens = <<token>> /\ connRows = <<row>>
      BY <2>2, <3>1, <3>3
    <3> QED
      BY <3>2, <3>4, <3>5 DEF RowFits
  <2> QED
    BY <2>1, <2>2 DEF Conn!Init
<1>2. /\ connHour \in Nat /\ connRounds \in Seq(ConnRound) /\ connRecords \in Seq(ConnRecord)
      /\ connPage = [t \in Browsing |-> connPage[t]]
      /\ \A i \in DOMAIN connRecords : SeenFirst(connRecords[i], connRecords)
  BY DEF Conn!Init
<1>3. \A t \in Browsing : connPage[t].at = "rest"
  BY DEF Conn!Init, Conn!Rest
<1>4. \A t \in Browsing : Carries(connPage[t], connTokens, connRounds, connRecords)
  BY <1>3 DEF Carries
<1> QED
  BY <1>1, <1>2, <1>4 DEF ConnInv, ConnTypes

(* In whatever order the tabs connect, disconnect and import, a connected  *)
(* row holds a token of its provider that grants what the row says, the    *)
(* picker makes no record of a repository it has seen recorded, and what   *)
(* it marks as added is there (provider-connection-service.ts,             *)
(* integration-resources.ts).                                              *)
THEOREM ConnectionsStayHonest == Spec => []ConnectionsHonest
<1> DEFINE I == part = "connect" => ConnInv
<1>1. Init => I
  BY ConnInit DEF Init
<1>2. I /\ [Next]_vars => I'
  <2>1. ASSUME I, part' = "connect", Next
        PROVE  ConnInv'
    <3>1. ConnInv /\ Conn!Next
      BY <2>1 DEF Next
    <3> QED
      BY <3>1, ConnPages, ConnConnects, ConnPicks, ConnLinear, ConnImports, ConnElsewhere
         DEF Conn!Next
  <2>2. ASSUME I, UNCHANGED vars
        PROVE  I'
    <3>1. part = "connect" => ConnInv'
      BY <2>2 DEF vars, connVars, ConnInv, ConnTypes
    <3> QED
      BY <2>2, <3>1 DEF vars
  <2> QED
    BY <2>1, <2>2
<1>3. I => ConnectionsHonest
  <2>1. ASSUME ConnInv
        PROVE  Conn!ConnectionsHonest
    <3>1. Conn!RowsFit
      <4>1. ASSUME NEW i \in DOMAIN connRows
            PROVE  /\ connRows[i].status = "connected" =>
                        /\ connRows[i].token # Conn!None
                        /\ connTokens[connRows[i].token].provider = connRows[i].provider
                        /\ connRows[i].full => connTokens[connRows[i].token].full
                   /\ connRows[i].status = "disconnected" => connRows[i].token = Conn!None
        <5>1. RowFits(connRows[i], connTokens)
          BY <2>1 DEF ConnInv
        <5>2. \A k \in DOMAIN connTokens : k # 0
          BY <2>1 DEF ConnInv, ConnTypes
        <5> QED
          BY <5>1, <5>2 DEF RowFits, Conn!None
      <4> QED
        BY <4>1 DEF Conn!RowsFit
    <3>2. Conn!NeverAgain
      BY <2>1 DEF ConnInv, SeenFirst, Conn!NeverAgain
    <3>3. Conn!AddedIsThere
      BY <2>1 DEF ConnInv, Carries, Recorded, Conn!AddedIsThere
    <3> QED
      BY <3>1, <3>2, <3>3 DEF Conn!ConnectionsHonest
  <2> QED
    BY <2>1 DEF ConnectionsHonest
<1> HIDE DEF I
<1> QED
  BY <1>1, <1>2, <1>3, PTL DEF Spec
---------------------------------------------------------------------------
(* The company's health.  A capture counts what was done before it began   *)
(* and what is done by now, in either order: what was done before it began *)
(* only becomes less, and what is done only more, unless a task is moved   *)
(* back, which the capture is told of.                                     *)

HealthSnapshot ==
    [moment : Nat, day : Nat, total : Nat, recent : Nat, passed : Nat, judged : Nat,
     reopened : BOOLEAN]

HealthVerdict == [passed : BOOLEAN, checked : BOOLEAN, at : Nat]

HealthTypes ==
    /\ healthNow \in Nat /\ healthDone \in [Measured -> Nat]
    /\ healthVerdicts \in Seq(HealthVerdict) /\ healthKept \in Seq(HealthSnapshot)
    /\ healthTicks = [d \in Ticks |-> healthTicks[d]]
    /\ \A i \in DOMAIN healthKept : healthKept[i].moment \in 0 .. healthNow

AllDone(done) == {t \in Measured : done[t] # 0}

DoneBefore(done, moment) == {t \in AllDone(done) : done[t] <= moment}

(* What a capture has read, against what is done by now.                   *)
Counts(c, done, now) ==
    c.at = "count" =>
      /\ c = [at |-> "count", moment |-> c.moment, total |-> c.total,
              recent |-> c.recent, reopened |-> c.reopened]
      /\ c.moment \in Nat /\ c.moment <= now /\ c.reopened \in BOOLEAN
      /\ c.total # <<>> => c.total[1] \in Nat
      /\ c.recent # <<>> => c.recent[1] \in Nat
      /\ ~c.reopened =>
           /\ c.total # <<>> => Cardinality(DoneBefore(done, c.moment)) <= c.total[1]
           /\ c.recent # <<>> => c.recent[1] <= Cardinality(AllDone(done))
           /\ c.total # <<>> /\ c.recent # <<>> => c.recent[1] <= c.total[1]

HealthRow(row) ==
    /\ row.day = Health!UtcDay(row.moment)
    /\ row.passed <= row.judged
    /\ row.reopened \/ row.recent <= row.total

HealthInv ==
    /\ HealthTypes
    /\ \A d \in Ticks : Counts(healthTicks[d], healthDone, healthNow)
    /\ \A i \in DOMAIN healthKept : HealthRow(healthKept[i])
    /\ \A i, j \in DOMAIN healthKept : i # j => healthKept[i].day # healthKept[j].day

LEMMA DayParts ==
  ASSUME NEW D \in Nat \ {0}, NEW m \in Nat
  PROVE  /\ m \div D \in Int /\ m % D \in Int /\ m = D * (m \div D) + (m % D)
         /\ 0 <= m % D /\ m % D < D
  OBVIOUS

LEMMA QuotientsInOrder ==
  ASSUME NEW D \in Nat \ {0}, NEW p \in Int, NEW q \in Int, NEW r \in Int, NEW s \in Int,
         0 <= r, r < D, 0 <= s, s < D, D * p + r >= D * q + s
  PROVE  p >= q
<1> SUFFICES ASSUME p + 1 <= q PROVE FALSE
  OBVIOUS
<1>1. D * (p + 1) <= D * q
  OBVIOUS
<1>2. D * (p + 1) = D * p + D
  OBVIOUS
<1> QED
  BY <1>1, <1>2

LEMMA DaysInOrder ==
  ASSUME NEW a \in Nat, NEW b \in Nat, a >= b
  PROVE  /\ Health!UtcDay(a) \in Nat /\ Health!UtcDay(b) \in Nat
         /\ Health!UtcDay(a) >= Health!UtcDay(b)
<1>1. \A m \in Nat : m \div DayLength \in Nat
  BY HealthAssumption
<1> QED
  BY <1>1, HealthAssumption, DayParts, QuotientsInOrder DEF Health!UtcDay

LEMMA SameCount == \A S : Health!Cardinality(S) = Cardinality(S)
  BY DEF Health!Cardinality, Health!IsFiniteSet, Cardinality, IsFiniteSet

LEMMA CountsAreNumbers ==
  ASSUME NEW done
  PROVE  /\ IsFiniteSet(AllDone(done)) /\ Cardinality(AllDone(done)) \in Nat
         /\ \A S \in SUBSET AllDone(done) :
              /\ IsFiniteSet(S) /\ Cardinality(S) \in Nat
              /\ Cardinality(S) <= Cardinality(AllDone(done))
<1>1. AllDone(done) \in SUBSET Measured /\ IsFiniteSet(Measured)
  BY HealthAssumption DEF AllDone
<1>2. IsFiniteSet(AllDone(done))
  BY <1>1, FS_Subset
<1>3. ASSUME NEW S \in SUBSET AllDone(done)
      PROVE  /\ IsFiniteSet(S) /\ Cardinality(S) <= Cardinality(AllDone(done))
  BY <1>2, FS_Subset
<1> QED
  BY <1>2, <1>3, FS_CardinalityType

(* Work done or edited later than the capture began.                       *)
LEMMA StillCounts ==
  ASSUME NEW now \in Nat, NEW done \in [Measured -> Nat], NEW t \in Measured,
         NEW c, Counts(c, done, now)
  PROVE  Counts(c, [done EXCEPT ![t] = now + 1], now + 1)
<1> DEFINE later == [done EXCEPT ![t] = now + 1]
<1> SUFFICES ASSUME c.at = "count" PROVE Counts(c, later, now + 1)
  BY DEF Counts
<1>1. c.moment \in Nat /\ c.moment <= now
  BY DEF Counts
<1>2. /\ AllDone(done) \in SUBSET AllDone(later)
      /\ DoneBefore(later, c.moment) \in SUBSET DoneBefore(done, c.moment)
      /\ DoneBefore(done, c.moment) \in SUBSET AllDone(done)
  BY <1>1 DEF AllDone, DoneBefore
<1>3. Cardinality(AllDone(done)) <= Cardinality(AllDone(later))
  BY <1>2, CountsAreNumbers
<1>4. Cardinality(DoneBefore(later, c.moment)) <= Cardinality(DoneBefore(done, c.moment))
  BY <1>2, CountsAreNumbers, FS_Subset
<1>5. /\ Cardinality(AllDone(done)) \in Nat /\ Cardinality(AllDone(later)) \in Nat
      /\ Cardinality(DoneBefore(done, c.moment)) \in Nat
      /\ Cardinality(DoneBefore(later, c.moment)) \in Nat
  <2>1. DoneBefore(later, c.moment) \in SUBSET AllDone(later)
    BY DEF DoneBefore
  <2> HIDE DEF later
  <2> QED
    BY <1>2, <2>1, CountsAreNumbers
<1> HIDE DEF later
<1> QED
  BY <1>1, <1>3, <1>4, <1>5 DEF Counts

LEMMA HealthWork ==
  ASSUME HealthInv,
         \/ Health!TimePasses \/ Health!RecordVerdict
         \/ \E t \in Measured : Health!Complete(t) \/ Health!Edit(t) \/ Health!Reopen(t)
  PROVE  HealthInv'
<1>1. ASSUME NEW c, NEW done, NEW now \in Nat, Counts(c, done, now)
      PROVE  Counts(c, done, now + 1)
  BY <1>1 DEF Counts
<1>2. CASE Health!TimePasses
  BY <1>1, <1>2 DEF Health!TimePasses, Health!Later, HealthInv, HealthTypes
<1>3. CASE Health!RecordVerdict
  <2>1. PICK verdict : /\ verdict \in HealthVerdict
                       /\ healthVerdicts' = Append(healthVerdicts, verdict)
    <3>1. PICK passed \in BOOLEAN, checked \in BOOLEAN :
             healthVerdicts' = Append(healthVerdicts,
                 [passed |-> passed, checked |-> checked, at |-> healthNow + 1])
      BY <1>3 DEF Health!RecordVerdict
    <3>2. PICK v : v = [passed |-> passed, checked |-> checked, at |-> healthNow + 1]
      OBVIOUS
    <3>3. v \in HealthVerdict
      BY <3>2 DEF HealthVerdict, HealthInv, HealthTypes
    <3> QED
      BY <3>1, <3>2, <3>3
  <2>2. healthVerdicts' \in Seq(HealthVerdict)
    BY <2>1 DEF HealthInv, HealthTypes
  <2> QED
    BY <1>1, <1>3, <2>2 DEF Health!RecordVerdict, Health!Later, HealthInv, HealthTypes
<1>4. ASSUME NEW t \in Measured, Health!Complete(t) \/ Health!Edit(t)
      PROVE  HealthInv'
  <2>1. /\ healthDone' = [healthDone EXCEPT ![t] = healthNow + 1]
        /\ healthNow' = healthNow + 1
        /\ UNCHANGED <<healthVerdicts, healthTicks, healthKept>>
    BY <1>4 DEF Health!Complete, Health!Edit, Health!Later
  <2>2. \A d \in Ticks : Counts(healthTicks'[d], healthDone', healthNow')
    BY <2>1, StillCounts DEF HealthInv, HealthTypes
  <2>3. HealthTypes'
    BY <2>1 DEF HealthInv, HealthTypes
  <2> QED
    BY <2>1, <2>2, <2>3 DEF HealthInv
<1>5. ASSUME NEW t \in Measured, Health!Reopen(t)
      PROVE  HealthInv'
  <2>1. /\ healthDone' = [healthDone EXCEPT ![t] = 0] /\ healthNow' = healthNow + 1
        /\ healthTicks' = [d \in Ticks |->
              IF healthTicks[d].at = "count" THEN [healthTicks[d] EXCEPT !.reopened = TRUE]
              ELSE healthTicks[d]]
        /\ UNCHANGED <<healthVerdicts, healthKept>>
    BY <1>5 DEF Health!Reopen, Health!Later
  <2>2. ASSUME NEW d \in Ticks
        PROVE  Counts(healthTicks'[d], healthDone', healthNow')
    <3>1. CASE healthTicks[d].at = "count"
      <4>1. PICK c : c = healthTicks[d]
        OBVIOUS
      <4>2. /\ c = [at |-> "count", moment |-> c.moment, total |-> c.total,
                    recent |-> c.recent, reopened |-> c.reopened]
            /\ c.moment \in Nat /\ c.moment <= healthNow
            /\ c.total # <<>> => c.total[1] \in Nat
            /\ c.recent # <<>> => c.recent[1] \in Nat
        BY <3>1, <4>1 DEF HealthInv, Counts
      <4>3. PICK new : new = [at |-> "count", moment |-> c.moment, total |-> c.total,
                              recent |-> c.recent, reopened |-> TRUE]
        OBVIOUS
      <4>4. healthTicks'[d] = new
        BY <2>1, <3>1, <4>1, <4>2, <4>3
      <4>5. healthNow' \in Nat /\ c.moment <= healthNow'
        BY <2>1, <4>2 DEF HealthInv, HealthTypes
      <4> QED
        BY <4>2, <4>3, <4>4, <4>5 DEF Counts
    <3>2. CASE healthTicks[d].at # "count"
      BY <2>1, <3>2 DEF Counts
    <3> QED
      BY <3>1, <3>2
  <2>3. HealthTypes'
    BY <2>1 DEF HealthInv, HealthTypes
  <2> QED
    BY <2>1, <2>2, <2>3 DEF HealthInv
<1> QED
  BY <1>2, <1>3, <1>4, <1>5

(* A capture goes on, and no snapshot is kept.                             *)
LEMMA HealthTickMoves ==
  ASSUME HealthInv, NEW d \in Ticks, NEW c, healthTicks' = [healthTicks EXCEPT ![d] = c],
         Counts(c, healthDone, healthNow),
         UNCHANGED <<healthNow, healthDone, healthVerdicts, healthKept>>
  PROVE  HealthInv'
<1>1. /\ healthTicks' = [u \in Ticks |-> healthTicks'[u]]
      /\ \A u \in Ticks : healthTicks'[u] = IF u = d THEN c ELSE healthTicks[u]
  BY DEF HealthInv, HealthTypes
<1>2. HealthTypes'
  BY <1>1 DEF HealthInv, HealthTypes
<1>3. \A u \in Ticks : Counts(healthTicks'[u], healthDone', healthNow')
  BY <1>1 DEF HealthInv
<1> QED
  BY <1>2, <1>3 DEF HealthInv

LEMMA JudgedAreCounted ==
  ASSUME HealthInv, NEW moment
  PROVE  LET judged == Health!JudgedUpTo(moment)
             passed == {i \in judged : healthVerdicts[i].passed}
         IN  /\ Cardinality(judged) \in Nat /\ Cardinality(passed) \in Nat
             /\ Cardinality(passed) <= Cardinality(judged)
<1> DEFINE judged == Health!JudgedUpTo(moment)
           passed == {i \in judged : healthVerdicts[i].passed}
<1>1. Len(healthVerdicts) \in Nat /\ DOMAIN healthVerdicts = 1 .. Len(healthVerdicts)
  BY DEF HealthInv, HealthTypes
<1>2. IsFiniteSet(DOMAIN healthVerdicts)
  BY <1>1, FS_Interval
<1>3. judged \in SUBSET DOMAIN healthVerdicts /\ passed \in SUBSET judged
  BY DEF Health!JudgedUpTo
<1> HIDE DEF judged, passed
<1>4. IsFiniteSet(judged)
  BY <1>2, <1>3, FS_Subset
<1>5. IsFiniteSet(passed) /\ Cardinality(passed) <= Cardinality(judged)
  BY <1>3, <1>4, FS_Subset
<1> QED
  BY <1>4, <1>5, FS_CardinalityType DEF judged, passed

LEMMA HealthCaptures ==
  ASSUME HealthInv, NEW d \in Ticks,
         \/ Health!Look(d) \/ Health!CountDone(d) \/ Health!CountRecent(d)
         \/ Health!Keep(d) \/ Health!GiveUp(d)
  PROVE  HealthInv'
<1> DEFINE c == healthTicks[d]
<1>1. Counts(c, healthDone, healthNow) /\ healthNow \in Nat
  BY DEF HealthInv, HealthTypes
<1>2. Counts(Health!Resting, healthDone, healthNow)
  BY DEF Counts, Health!Resting
<1>3. /\ Health!Done = AllDone(healthDone)
      /\ Cardinality(AllDone(healthDone)) \in Nat
      /\ \A S \in SUBSET AllDone(healthDone) :
            Cardinality(S) \in Nat /\ Cardinality(S) <= Cardinality(AllDone(healthDone))
  BY CountsAreNumbers DEF Health!Done, AllDone
<1>4. CASE Health!Look(d)
  <2>1. PICK new : new = [at |-> "count", moment |-> healthNow, total |-> <<>>, recent |-> <<>>,
                          reopened |-> FALSE]
    OBVIOUS
  <2>2. Counts(new, healthDone, healthNow)
    BY <1>1, <2>1 DEF Counts
  <2> QED
    BY <1>4, <2>1, <2>2, HealthTickMoves DEF Health!Look
<1>5. ASSUME c.at = "count"
      PROVE  /\ c = [at |-> "count", moment |-> c.moment, total |-> c.total,
                     recent |-> c.recent, reopened |-> c.reopened]
             /\ c.moment \in Nat /\ c.moment <= healthNow /\ c.reopened \in BOOLEAN
             /\ c.total # <<>> => c.total[1] \in Nat
             /\ c.recent # <<>> => c.recent[1] \in Nat
             /\ ~c.reopened =>
                  /\ c.total # <<>> =>
                        Cardinality(DoneBefore(healthDone, c.moment)) <= c.total[1]
                  /\ c.recent # <<>> => c.recent[1] <= Cardinality(AllDone(healthDone))
                  /\ c.total # <<>> /\ c.recent # <<>> => c.recent[1] <= c.total[1]
  BY <1>1, <1>5 DEF Counts
<1>6. CASE Health!CountDone(d)
  <2>1. PICK n \in Nat : n = Cardinality(AllDone(healthDone))
    BY <1>3
  <2>2. PICK new : new = [at |-> "count", moment |-> c.moment, total |-> <<n>>,
                          recent |-> c.recent, reopened |-> c.reopened]
    OBVIOUS
  <2>3. c.at = "count" /\ healthTicks' = [healthTicks EXCEPT ![d] = new]
    <3>1. c.at = "count" /\ healthTicks' = [healthTicks EXCEPT ![d].total = <<n>>]
      BY <1>3, <1>6, <2>1, SameCount DEF Health!CountDone
    <3>2. [c EXCEPT !.total = <<n>>] = new
      BY <1>5, <2>2, <3>1
    <3> QED
      BY <3>1, <3>2
  <2>4. Cardinality(DoneBefore(healthDone, c.moment)) <= n
    BY <1>3, <2>1 DEF DoneBefore
  <2>5. Counts(new, healthDone, healthNow)
    BY <1>5, <2>1, <2>2, <2>3, <2>4 DEF Counts
  <2> HIDE DEF c
  <2> QED
    BY <1>6, <2>3, <2>5, HealthTickMoves DEF Health!CountDone
<1>7. CASE Health!CountRecent(d)
  <2>1. PICK n : n = Cardinality({t \in Health!Done : Health!InWindow(healthDone[t], c.moment)})
    OBVIOUS
  <2>2. /\ n \in Nat /\ n <= Cardinality(AllDone(healthDone))
        /\ n <= Cardinality(DoneBefore(healthDone, c.moment))
        /\ Cardinality(DoneBefore(healthDone, c.moment)) \in Nat
    <3> DEFINE S == {t \in Health!Done : Health!InWindow(healthDone[t], c.moment)}
               T == DoneBefore(healthDone, c.moment)
    <3>1. S \in SUBSET T /\ T \in SUBSET AllDone(healthDone)
      BY <1>3 DEF Health!InWindow, DoneBefore
    <3> HIDE DEF S, T
    <3>2. IsFiniteSet(T) /\ S \in SUBSET AllDone(healthDone)
      BY <3>1, CountsAreNumbers
    <3> QED
      BY <1>3, <2>1, <3>1, <3>2, FS_Subset DEF S, T
  <2>3. PICK new : new = [at |-> "count", moment |-> c.moment, total |-> c.total,
                          recent |-> <<n>>, reopened |-> c.reopened]
    OBVIOUS
  <2>4. c.at = "count" /\ healthTicks' = [healthTicks EXCEPT ![d] = new]
    <3>1. c.at = "count" /\ healthTicks' = [healthTicks EXCEPT ![d].recent = <<n>>]
      BY <1>7, <2>1, SameCount DEF Health!CountRecent
    <3>2. [c EXCEPT !.recent = <<n>>] = new
      BY <1>5, <2>3, <3>1
    <3> QED
      BY <3>1, <3>2
  <2>5. Counts(new, healthDone, healthNow)
    BY <1>5, <2>2, <2>3, <2>4 DEF Counts
  <2> HIDE DEF c
  <2> QED
    BY <1>7, <2>4, <2>5, HealthTickMoves DEF Health!CountRecent
<1>8. CASE Health!GiveUp(d)
  BY <1>2, <1>8, HealthTickMoves DEF Health!GiveUp
<1>9. CASE Health!Keep(d)
  <2> DEFINE judged == Health!JudgedUpTo(c.moment)
             passed == {i \in judged : healthVerdicts[i].passed}
             old    == \E i \in DOMAIN healthKept : healthKept[i].day = Health!UtcDay(c.moment)
  <2>1. PICK row : row = [moment |-> c.moment, day |-> Health!UtcDay(c.moment),
                          total |-> c.total[1], recent |-> c.recent[1],
                          passed |-> Cardinality(passed), judged |-> Cardinality(judged),
                          reopened |-> c.reopened]
    OBVIOUS
  <2>2. /\ c.at = "count" /\ c.total # <<>> /\ c.recent # <<>>
        /\ healthKept' = IF old THEN healthKept ELSE Append(healthKept, row)
        /\ healthTicks' = [healthTicks EXCEPT ![d] = Health!Resting]
        /\ UNCHANGED <<healthNow, healthDone, healthVerdicts>>
    BY <1>9, <2>1, SameCount DEF Health!Keep
  <2>3. CASE old
    BY <1>2, <2>2, <2>3, HealthTickMoves
  <2>4. CASE ~old
    <3>1. Health!UtcDay(c.moment) \in Nat
      BY <1>5, <2>2, DaysInOrder
    <3>2. row \in HealthSnapshot /\ HealthRow(row)
      <4>1. /\ Cardinality(judged) \in Nat /\ Cardinality(passed) \in Nat
            /\ Cardinality(passed) <= Cardinality(judged)
        BY JudgedAreCounted
      <4> HIDE DEF judged, passed
      <4> QED
        BY <1>5, <2>1, <2>2, <3>1, <4>1 DEF HealthSnapshot, HealthRow
    <3> DEFINE n == Len(healthKept) + 1
    <3>3. /\ healthKept' \in Seq(HealthSnapshot)
          /\ DOMAIN healthKept' = DOMAIN healthKept \cup {n}
          /\ \A i \in DOMAIN healthKept : healthKept'[i] = healthKept[i]
          /\ healthKept'[n] = row
      BY <2>2, <2>4, <3>2 DEF HealthInv, HealthTypes
    <3>4. \A i \in DOMAIN healthKept : healthKept[i].day # row.day
      BY <2>1, <2>4
    <3>5. /\ healthTicks' = [u \in Ticks |-> healthTicks'[u]]
          /\ \A u \in Ticks :
                healthTicks'[u] = IF u = d THEN Health!Resting ELSE healthTicks[u]
      BY <2>2 DEF HealthInv, HealthTypes
    <3>6. HealthTypes'
      <4>1. row.moment \in 0 .. healthNow
        BY <1>1, <1>5, <2>1, <2>2
      <4>2. \A i \in DOMAIN healthKept' : healthKept'[i].moment \in 0 .. healthNow
        BY <3>3, <4>1 DEF HealthInv, HealthTypes
      <4> HIDE DEF n
      <4> QED
        BY <2>2, <3>3, <3>5, <4>2 DEF HealthInv, HealthTypes
    <3>7. \A u \in Ticks : Counts(healthTicks'[u], healthDone', healthNow')
      BY <1>2, <2>2, <3>5 DEF HealthInv
    <3> HIDE DEF n
    <3>8. \A i \in DOMAIN healthKept' : HealthRow(healthKept'[i])
      BY <3>2, <3>3 DEF HealthInv
    <3>9. \A i, j \in DOMAIN healthKept' : i # j => healthKept'[i].day # healthKept'[j].day
      BY <3>3, <3>4 DEF HealthInv
    <3> QED
      BY <3>6, <3>7, <3>8, <3>9 DEF HealthInv
  <2> QED
    BY <2>3, <2>4
<1> QED
  BY <1>4, <1>6, <1>7, <1>8, <1>9

(* Of some rows one is the newest: the least of how long ago they are.     *)
LEMMA NewestIs ==
  ASSUME HealthInv, NEW rows \in SUBSET DOMAIN healthKept, rows # {}
  PROVE  /\ Health!Newest(rows) \in rows
         /\ \A j \in rows : healthKept[j].moment <= healthKept[Health!Newest(rows)].moment
<1> DEFINE ages == {healthNow - healthKept[i].moment : i \in rows}
<1>1. /\ healthNow \in Nat
      /\ \A i \in rows : healthKept[i].moment \in Nat /\ healthKept[i].moment <= healthNow
  BY DEF HealthInv, HealthTypes, HealthSnapshot
<1>2. ages \subseteq Nat /\ ages # {}
  BY <1>1
<1>3. PICK age \in ages : \A other \in ages : ~(<<other, age>> \in OpToRel(<, Nat))
  BY <1>2, WFMin, NatLessThanWellFounded
<1>4. \A other \in ages : ~(other < age)
  BY <1>2, <1>3 DEF OpToRel
<1>5. PICK i \in rows : age = healthNow - healthKept[i].moment
  OBVIOUS
<1>6. ASSUME NEW j \in rows
      PROVE  healthKept[j].moment <= healthKept[i].moment
  <2>1. ~(healthNow - healthKept[j].moment < healthNow - healthKept[i].moment)
    BY <1>4, <1>5
  <2> QED
    BY <1>1, <2>1
<1> QED
  BY <1>6 DEF Health!Newest

LEMMA HealthInit == Health!Init => HealthInv
<1> SUFFICES ASSUME Health!Init PROVE HealthInv
  OBVIOUS
<1>1. HealthTypes /\ healthKept = <<>> /\ \A d \in Ticks : healthTicks[d] = Health!Resting
  BY DEF Health!Init, HealthTypes
<1> QED
  BY <1>1 DEF HealthInv, Counts, Health!Resting

(* Whatever goes on while drivers capture, and however many do, a day has  *)
(* one snapshot, the trend runs from an earlier day to a later one, and no *)
(* snapshot counts more in the window than altogether, unless it was told  *)
(* that a task had been moved back (captureCompanyHealthSnapshot).         *)
THEOREM HealthStaysHonest == Spec => []HealthHonest
<1> DEFINE I == part = "health" => HealthInv
<1>1. Init => I
  BY HealthInit DEF Init
<1>2. I /\ [Next]_vars => I'
  <2>1. ASSUME I, part' = "health", Next
        PROVE  HealthInv'
    <3>1. HealthInv /\ Health!Next
      BY <2>1 DEF Next
    <3> QED
      BY <3>1, HealthWork, HealthCaptures DEF Health!Next
  <2>2. ASSUME I, UNCHANGED vars
        PROVE  I'
    <3>1. part = "health" => HealthInv'
      BY <2>2 DEF vars, healthVars, HealthInv, HealthTypes
    <3> QED
      BY <2>2, <3>1 DEF vars
  <2> QED
    BY <2>1, <2>2
<1>3. I => HealthHonest
  <2>1. ASSUME HealthInv
        PROVE  Health!HealthHonest
    <3>1. \A i, j \in DOMAIN healthKept : i # j => healthKept[i].day # healthKept[j].day
      BY <2>1 DEF HealthInv
    <3>2. \A i \in DOMAIN healthKept :
            /\ healthKept[i].passed <= healthKept[i].judged
            /\ healthKept[i].reopened \/ healthKept[i].recent <= healthKept[i].total
      BY <2>1 DEF HealthInv, HealthRow
    <3>3. ASSUME Health!HasTrend
          PROVE  healthKept[Health!Latest].day > healthKept[Health!Previous].day
      <4> DEFINE rows == DOMAIN healthKept
                 rest == rows \ {Health!Latest}
      <4>1. 1 \in rows /\ 2 \in rows
        BY <2>1, <3>3 DEF Health!HasTrend, HealthInv, HealthTypes
      <4>2. rest \in SUBSET rows /\ rest # {}
        BY <4>1
      <4>3. Health!Latest \in rows /\ Health!Previous \in rest
        BY <2>1, <4>1, <4>2, NewestIs DEF Health!Latest, Health!Previous
      <4>4. healthKept[Health!Previous].moment <= healthKept[Health!Latest].moment
        BY <2>1, <4>1, <4>3, NewestIs DEF Health!Latest
      <4>5. PICK a \in HealthSnapshot, b \in HealthSnapshot :
              /\ a = healthKept[Health!Latest] /\ b = healthKept[Health!Previous]
              /\ a.day = Health!UtcDay(a.moment) /\ b.day = Health!UtcDay(b.moment)
              /\ a.day # b.day
        BY <2>1, <3>1, <4>3 DEF HealthInv, HealthTypes, HealthRow
      <4>6. a.moment \in Nat /\ b.moment \in Nat /\ a.moment >= b.moment
        BY <4>4, <4>5 DEF HealthSnapshot
      <4>7. a.day \in Int /\ b.day \in Int /\ a.day >= b.day
        BY <4>5, <4>6, DaysInOrder
      <4>8. a.day > b.day
        BY <4>5, <4>7
      <4> QED
        BY <4>5, <4>8
    <3> QED
      BY <3>1, <3>2, <3>3 DEF Health!HealthHonest
  <2> QED
    BY <2>1 DEF HealthHonest
<1> HIDE DEF I
<1> QED
  BY <1>1, <1>2, <1>3, PTL DEF Spec

---------------------------------------------------------------------------
(* The conversation.  A tab works on what it has read of a request while   *)
(* other tabs, deferred jobs, the CEO and the driver go on: what a message *)
(* says stays true because a request never loses its goal, its brief, what *)
(* was said of it, an approval it had or the plan its task came from; a    *)
(* note reaches the brief because one tab at a time has the conversation;  *)
(* and every heartbeat has its job, as no two messages share one.          *)

ChatPlan ==
    [status : {"none", "draft", "failed", "approved", "rejected", "applied"},
     notes : SUBSET Nat, approvedAt : BOOLEAN]

ChatRequest ==
    [status : Chat!RequestStatuses, outcome : Chat!OutcomeStatuses, goal : Nat,
     brief : SUBSET Nat, plans : Seq(ChatPlan), said : BOOLEAN,
     newest : {"none", "progress", "plan.generated", "plan.failed", "plan.approved",
               "plan.rejected", "work.created"},
     task : Chat!TaskStatuses, objective : SUBSET Nat, from : Nat, asked : SUBSET Nat,
     steered : SUBSET Nat,
     session : [live : BOOLEAN, brief : SUBSET Nat, owed : SUBSET Nat]]

ChatMessage ==
    [by : {"user", "company"}, request : Nat, note : Nat,
     says : {"goal", "received", "note", "status", "shipped", "approved"},
     promises : BOOLEAN]

ChatTypes ==
    /\ chatRequests \in Seq(ChatRequest) /\ chatThread \in Seq(ChatMessage)
    /\ chatSent \in Nat /\ chatLosses \in Nat
    /\ chatSends = [t \in ChatTabs |-> chatSends[t]]
    /\ chatJobs = [j \in Chat!Jobs |-> chatJobs[j]]

OnceApproved(r) == \E v \in DOMAIN r.plans : r.plans[v].approvedAt

(* A request in itself.                                                    *)
RequestFits(r) ==
    /\ r.status = "complete" \/ r.task = "done" => r.said
    /\ r.task # "none" => r.from # 0
    /\ r.asked # {} => r.task # "none"
    /\ r.from \in {0} \cup DOMAIN r.plans
    /\ r.session.live => r.task # "none"
    /\ \A v \in DOMAIN r.plans :
          r.plans[v].status \in {"approved", "applied"} => r.plans[v].approvedAt

(* What may be claimed of a request, and promised.                         *)
MayClaim(says, r) ==
    /\ says = "shipped" => r.said
    /\ says = "approved" => OnceApproved(r)

MessageFits(m, rs) ==
    /\ m.request \in {0} \cup DOMAIN rs
    /\ m.says \in {"note", "shipped", "approved"} \/ m.promises => m.request # 0
    /\ m.says = "goal" => \E n \in DOMAIN rs : rs[n].goal = m.note
    /\ m.says = "note" => m.note \in rs[m.request].brief
    /\ m.request # 0 => MayClaim(m.says, rs[m.request])
    /\ m.promises => rs[m.request].from # 0

(* What a tab has read, while it has the conversation or after.            *)
SendFits(s, t, lock, rs, sent) ==
    /\ s = Chat!Idle \/ (s.at \in {"start", "resolve", "attach", "read", "commit", "look",
                                  "answer", "post", "mark"} /\ s.note \in 1 .. sent)
    /\ s.at \notin {"idle", "start", "resolve"} => s.request \in DOMAIN rs
    /\ s.at = "attach" => s = [at |-> "attach", note |-> s.note, request |-> s.request]
    /\ s.at \in {"read", "commit"} => lock = t
    /\ s.at = "commit" => s.brief = rs[s.request].brief
    /\ s.at \in {"answer", "post"} => s.regenerate \in BOOLEAN
    /\ s.at = "post" =>
          /\ s.reply.says \in {"status", "shipped", "approved"} /\ s.reply.promises \in BOOLEAN
          /\ MayClaim(s.reply.says, rs[s.request])
          /\ s.reply.promises => rs[s.request].from # 0

JobFits(job, rs) ==
    \/ job = Chat!Idle
    \/ /\ job.request \in DOMAIN rs
       /\ \/ /\ job.at \in {"plan", "steer"} /\ job.regenerate \in BOOLEAN
             /\ job = [at |-> job.at, request |-> job.request, regenerate |-> job.regenerate]
          \/ /\ job.at = "ask" /\ rs[job.request].task # "none"
          \/ /\ job.at \in {"context", "draft"}
             /\ job = [at |-> job.at, request |-> job.request, version |-> job.version,
                       notes |-> job.notes]
             /\ job.version \in Nat \ {0} /\ job.notes \in SUBSET Nat

(* The job of a message that is still being sent has not been given.       *)
NotesApart(sends, jobs, sent) ==
    /\ \A t \in ChatTabs : sends[t] # Chat!Idle =>
          /\ sends[t].note \in Chat!Jobs => jobs[sends[t].note] = Chat!Idle
          /\ \A u \in ChatTabs \ {t} :
                sends[u] # Chat!Idle => sends[u].note # sends[t].note
    /\ \A j \in Chat!Jobs : j > sent => jobs[j] = Chat!Idle

(* A request that shows as being planned is being planned.                 *)
Planned(rs, jobs, losses) ==
    \A n \in DOMAIN rs : rs[n].newest = "progress" =>
        \/ losses # 0
        \/ \E j \in Chat!Jobs : jobs[j].at \in {"context", "draft"} /\ jobs[j].request = n

ChatInv ==
    /\ ChatTypes
    /\ \A n \in DOMAIN chatRequests : RequestFits(chatRequests[n])
    /\ \A i \in DOMAIN chatThread : MessageFits(chatThread[i], chatRequests)
    /\ \A t \in ChatTabs : SendFits(chatSends[t], t, chatLock, chatRequests, chatSent)
    /\ \A j \in Chat!Jobs : JobFits(chatJobs[j], chatRequests)
    /\ NotesApart(chatSends, chatJobs, chatSent)
    /\ Planned(chatRequests, chatJobs, chatLosses)

(* What no step takes from a request.                                      *)
RequestGrows(old, new) ==
    /\ new.goal = old.goal /\ old.brief \subseteq new.brief
    /\ old.said => new.said
    /\ OnceApproved(old) => OnceApproved(new)
    /\ old.from # 0 => new.from # 0
    /\ old.task # "none" => new.task # "none"

RequestsGrow(old, new) ==
    \A n \in DOMAIN old : n \in DOMAIN new /\ RequestGrows(old[n], new[n])

SameBriefs(old, new) == \A n \in DOMAIN old : new[n].brief = old[n].brief

LEMMA MessageStillFits ==
  ASSUME NEW old, NEW new, RequestsGrow(old, new), NEW m, MessageFits(m, old)
  PROVE  MessageFits(m, new)
<1>1. \A n \in DOMAIN old : n \in DOMAIN new /\ RequestGrows(old[n], new[n])
  BY DEF RequestsGrow
<1>2. m.request # 0 => m.request \in DOMAIN old
  BY DEF MessageFits
<1>3. m.request # 0 => MayClaim(m.says, new[m.request])
  BY <1>1, <1>2 DEF MessageFits, MayClaim, RequestGrows
<1> QED
  BY <1>1, <1>2, <1>3 DEF MessageFits, RequestGrows

LEMMA SendStillFits ==
  ASSUME NEW old, NEW new, RequestsGrow(old, new), SameBriefs(old, new),
         NEW sent \in Nat, NEW later \in Nat, sent <= later,
         NEW s, NEW t, NEW lock, SendFits(s, t, lock, old, sent)
  PROVE  SendFits(s, t, lock, new, later)
<1>1. \A n \in DOMAIN old :
         /\ n \in DOMAIN new /\ new[n].brief = old[n].brief
         /\ old[n].from # 0 => new[n].from # 0
         /\ \A says : MayClaim(says, old[n]) => MayClaim(says, new[n])
  BY DEF RequestsGrow, RequestGrows, SameBriefs, MayClaim
<1> QED
  BY <1>1 DEF SendFits, Chat!Idle

LEMMA JobStillFits ==
  ASSUME NEW old, NEW new, RequestsGrow(old, new), NEW job, JobFits(job, old)
  PROVE  JobFits(job, new)
  BY DEF RequestsGrow, RequestGrows, JobFits

LEMMA GrowsAlike ==
  ASSUME NEW rs
  PROVE  RequestsGrow(rs, rs) /\ SameBriefs(rs, rs)
  BY DEF RequestsGrow, RequestGrows, SameBriefs

(* One request is written over.                                            *)
LEMMA RequestWritten ==
  ASSUME ChatInv, NEW n \in DOMAIN chatRequests, NEW r \in ChatRequest,
         RequestFits(r), RequestGrows(chatRequests[n], r),
         NEW rs, rs = [chatRequests EXCEPT ![n] = r]
  PROVE  /\ rs \in Seq(ChatRequest) /\ DOMAIN rs = DOMAIN chatRequests
         /\ \A k \in DOMAIN chatRequests : rs[k] = IF k = n THEN r ELSE chatRequests[k]
         /\ RequestsGrow(chatRequests, rs)
         /\ \A k \in DOMAIN rs : RequestFits(rs[k])
<1>1. /\ rs = [k \in DOMAIN chatRequests |-> rs[k]]
      /\ \A k \in DOMAIN chatRequests : rs[k] = IF k = n THEN r ELSE chatRequests[k]
  OBVIOUS
<1>2. rs \in Seq(ChatRequest) /\ DOMAIN rs = DOMAIN chatRequests
  BY <1>1, Rewritten DEF ChatInv, ChatTypes
<1>3. RequestsGrow(chatRequests, rs)
  BY <1>1, <1>2 DEF RequestsGrow, RequestGrows
<1> QED
  BY <1>1, <1>2, <1>3 DEF ChatInv

(* One request is added.                                                   *)
RequestsWith(r, rs) ==
    /\ rs \in Seq(ChatRequest)
    /\ DOMAIN rs = DOMAIN chatRequests \cup {Len(chatRequests) + 1}
    /\ \A k \in DOMAIN chatRequests : rs[k] = chatRequests[k]
    /\ rs[Len(chatRequests) + 1] = r
    /\ RequestsGrow(chatRequests, rs) /\ SameBriefs(chatRequests, rs)
    /\ \A k \in DOMAIN rs : RequestFits(rs[k])

LEMMA RequestAdded ==
  ASSUME ChatInv, NEW r \in ChatRequest, RequestFits(r),
         NEW rs, rs = Append(chatRequests, r)
  PROVE  RequestsWith(r, rs)
<1>1. /\ rs \in Seq(ChatRequest)
      /\ DOMAIN rs = DOMAIN chatRequests \cup {Len(chatRequests) + 1}
      /\ \A k \in DOMAIN chatRequests : rs[k] = chatRequests[k]
      /\ rs[Len(chatRequests) + 1] = r
  BY DEF ChatInv, ChatTypes
<1>2. RequestsGrow(chatRequests, rs) /\ SameBriefs(chatRequests, rs)
  BY <1>1 DEF RequestsGrow, RequestGrows, SameBriefs
<1> QED
  BY <1>1, <1>2 DEF ChatInv, RequestsWith

LEMMA NotesStillApart ==
  ASSUME NEW sends, NEW sends2, NEW jobs, NEW jobs2, NEW sent \in Nat, NEW sent2 \in Nat,
         sent <= sent2, NotesApart(sends, jobs, sent),
         \A t \in ChatTabs : sends[t] # Chat!Idle => sends[t].note \in 1 .. sent,
         \A t \in ChatTabs : sends2[t] # Chat!Idle =>
             sends[t] # Chat!Idle /\ sends2[t].note = sends[t].note,
         \A j \in Chat!Jobs : jobs2[j] # Chat!Idle =>
             \/ jobs[j] # Chat!Idle
             \/ \E t \in ChatTabs : /\ sends[t] # Chat!Idle /\ sends2[t] = Chat!Idle
                                    /\ sends[t].note = j
  PROVE  NotesApart(sends2, jobs2, sent2)
<1>1. ASSUME NEW t \in ChatTabs, sends2[t] # Chat!Idle
      PROVE  /\ sends2[t].note \in Chat!Jobs => jobs2[sends2[t].note] = Chat!Idle
             /\ \A u \in ChatTabs \ {t} :
                   sends2[u] # Chat!Idle => sends2[u].note # sends2[t].note
  BY <1>1 DEF NotesApart
<1>2. ASSUME NEW j \in Chat!Jobs, j > sent2
      PROVE  jobs2[j] = Chat!Idle
  <2>1. j \in Nat /\ j > sent
    BY <1>2 DEF Chat!Jobs
  <2> QED
    BY <2>1 DEF NotesApart
<1> QED
  BY <1>1, <1>2 DEF NotesApart

LEMMA SendsHaveNotes ==
  ASSUME ChatInv, NEW t \in ChatTabs, chatSends[t] # Chat!Idle
  PROVE  chatSends[t].note \in 1 .. chatSent
  BY DEF ChatInv, SendFits

(* The CEO and the driver write a request; no tab and no job moves.        *)
RequestLeft(n, r) ==
    /\ chatRequests' = [chatRequests EXCEPT ![n] = r]
    /\ UNCHANGED <<chatThread, chatSends, chatLock, chatJobs, chatSent, chatLosses>>

LEMMA ChatRequestStep ==
  ASSUME ChatInv, NEW n \in DOMAIN chatRequests, NEW r \in ChatRequest,
         RequestFits(r), RequestGrows(chatRequests[n], r), r.brief = chatRequests[n].brief,
         r.newest = "progress" => chatRequests[n].newest = "progress",
         RequestLeft(n, r)
  PROVE  ChatInv'
<1> /\ chatRequests' = [chatRequests EXCEPT ![n] = r]
    /\ UNCHANGED <<chatThread, chatSends, chatLock, chatJobs, chatSent, chatLosses>>
  BY DEF RequestLeft
<1>1. PICK rs : rs = chatRequests'
  OBVIOUS
<1>2. /\ rs \in Seq(ChatRequest) /\ DOMAIN rs = DOMAIN chatRequests
      /\ \A k \in DOMAIN chatRequests : rs[k] = IF k = n THEN r ELSE chatRequests[k]
      /\ RequestsGrow(chatRequests, rs)
      /\ \A k \in DOMAIN rs : RequestFits(rs[k])
  BY <1>1, RequestWritten
<1>3. SameBriefs(chatRequests, rs)
  BY <1>2 DEF SameBriefs
<1>4. \A i \in DOMAIN chatThread : MessageFits(chatThread[i], rs)
  BY <1>2, MessageStillFits DEF ChatInv
<1>5. \A t \in ChatTabs : SendFits(chatSends[t], t, chatLock, rs, chatSent)
  BY <1>2, <1>3, SendStillFits DEF ChatInv, ChatTypes
<1>6. \A j \in Chat!Jobs : JobFits(chatJobs[j], rs)
  BY <1>2, JobStillFits DEF ChatInv
<1>7. Planned(rs, chatJobs, chatLosses)
  BY <1>2 DEF ChatInv, Planned
<1> QED
  BY <1>1, <1>2, <1>4, <1>5, <1>6, <1>7 DEF ChatInv, ChatTypes

(* A deferred job goes on or ends.                                         *)
JobLeft(j, job, rs, losses) ==
    /\ chatJobs' = [chatJobs EXCEPT ![j] = job]
    /\ chatRequests' = rs /\ chatLosses' = losses
    /\ UNCHANGED <<chatThread, chatSends, chatLock, chatSent>>

LEMMA ChatJobStep ==
  ASSUME ChatInv, NEW j \in Chat!Jobs, chatJobs[j] # Chat!Idle,
         NEW job, NEW rs, NEW losses \in Nat, JobLeft(j, job, rs, losses),
         rs \in Seq(ChatRequest),
         RequestsGrow(chatRequests, rs), SameBriefs(chatRequests, rs),
         DOMAIN rs = DOMAIN chatRequests,
         \A n \in DOMAIN rs : RequestFits(rs[n]),
         JobFits(job, rs),
         chatLosses <= losses,
         \A n \in DOMAIN rs : rs[n].newest = "progress" =>
             \/ chatRequests[n].newest = "progress"
             \/ job.at \in {"context", "draft"} /\ job.request = n,
         chatJobs[j].at \in {"context", "draft"} =>
             \/ losses # 0
             \/ rs[chatJobs[j].request].newest # "progress"
             \/ job.at \in {"context", "draft"} /\ job.request = chatJobs[j].request
  PROVE  ChatInv'
<1>1. /\ chatJobs' = [k \in Chat!Jobs |-> chatJobs'[k]]
      /\ \A k \in Chat!Jobs : chatJobs'[k] = IF k = j THEN job ELSE chatJobs[k]
  BY DEF ChatInv, ChatTypes, JobLeft
<1>2. \A i \in DOMAIN chatThread : MessageFits(chatThread[i], rs)
  BY MessageStillFits DEF ChatInv
<1>3. \A t \in ChatTabs : SendFits(chatSends[t], t, chatLock, rs, chatSent)
  BY SendStillFits DEF ChatInv, ChatTypes
<1>4. \A k \in Chat!Jobs : JobFits(chatJobs'[k], rs)
  BY <1>1, JobStillFits DEF ChatInv
<1>5. PICK jobs : jobs = chatJobs'
  OBVIOUS
<1>6. NotesApart(chatSends, jobs, chatSent)
  <2>1. /\ chatSent \in Nat /\ chatSent <= chatSent
        /\ NotesApart(chatSends, chatJobs, chatSent)
        /\ \A t \in ChatTabs : chatSends[t] # Chat!Idle => chatSends[t].note \in 1 .. chatSent
    BY SendsHaveNotes DEF ChatInv, ChatTypes
  <2>2. \A k \in Chat!Jobs : jobs[k] # Chat!Idle => chatJobs[k] # Chat!Idle
    BY <1>1, <1>5
  <2> QED
    BY <2>1, <2>2, NotesStillApart
<1>7. Planned(rs, jobs, losses)
  <2>1. ASSUME NEW n \in DOMAIN rs, rs[n].newest = "progress", losses = 0
        PROVE  \E k \in Chat!Jobs :
                  jobs[k].at \in {"context", "draft"} /\ jobs[k].request = n
    <3>1. CASE job.at \in {"context", "draft"} /\ job.request = n
      BY <1>1, <1>5, <3>1
    <3>2. CASE ~(job.at \in {"context", "draft"} /\ job.request = n)
      <4>1. chatRequests[n].newest = "progress" /\ chatLosses = 0
        BY <2>1, <3>2 DEF ChatInv, ChatTypes
      <4>2. PICK k \in Chat!Jobs :
              chatJobs[k].at \in {"context", "draft"} /\ chatJobs[k].request = n
        BY <2>1, <4>1 DEF ChatInv, Planned
      <4>3. k # j
        BY <2>1, <3>2, <4>2
      <4> QED
        BY <1>1, <1>5, <4>2, <4>3
    <3> QED
      BY <3>1, <3>2
  <2> QED
    BY <2>1 DEF Planned
<1>8. ChatTypes'
  BY <1>1 DEF ChatInv, ChatTypes, JobLeft
<1> QED
  BY <1>2, <1>3, <1>4, <1>5, <1>6, <1>7, <1>8 DEF ChatInv, JobLeft

(* A tab goes on with its message; requests, jobs and messages stay.       *)
LEMMA ChatTabMoves ==
  ASSUME ChatInv, NEW t \in ChatTabs, NEW s, chatSends' = [chatSends EXCEPT ![t] = s],
         chatSends[t] # Chat!Idle, s # Chat!Idle => s.note = chatSends[t].note,
         NEW lock, lock = chatLock', SendFits(s, t, lock, chatRequests, chatSent),
         \A u \in ChatTabs \ {t} : SendFits(chatSends[u], u, lock, chatRequests, chatSent),
         UNCHANGED <<chatThread, chatRequests, chatJobs, chatSent, chatLosses>>
  PROVE  ChatInv'
<1>1. /\ chatSends' = [u \in ChatTabs |-> chatSends'[u]]
      /\ \A u \in ChatTabs : chatSends'[u] = IF u = t THEN s ELSE chatSends[u]
  BY DEF ChatInv, ChatTypes
<1>2. \A u \in ChatTabs : SendFits(chatSends'[u], u, lock, chatRequests, chatSent)
  BY <1>1
<1>3. PICK sends : sends = chatSends'
  OBVIOUS
<1>4. NotesApart(sends, chatJobs, chatSent)
  <2>1. /\ chatSent \in Nat /\ chatSent <= chatSent
        /\ NotesApart(chatSends, chatJobs, chatSent)
        /\ \A u \in ChatTabs : chatSends[u] # Chat!Idle => chatSends[u].note \in 1 .. chatSent
    BY SendsHaveNotes DEF ChatInv, ChatTypes
  <2>2. \A u \in ChatTabs : sends[u] # Chat!Idle =>
            chatSends[u] # Chat!Idle /\ sends[u].note = chatSends[u].note
    BY <1>1, <1>3
  <2> QED
    BY <2>1, <2>2, NotesStillApart
<1> QED
  BY <1>1, <1>2, <1>3, <1>4 DEF ChatInv, ChatTypes

LEMMA Highest ==
  ASSUME NEW S \in SUBSET Nat, NEW n \in Nat, \A x \in S : x <= n, S # {}
  PROVE  Chat!Max(S) \in S
<1> DEFINE below == {n - x : x \in S}
<1>1. below \subseteq Nat /\ below # {}
  <2>1. \A x \in S : n - x \in Nat
    OBVIOUS
  <2> QED
    BY <2>1
<1>2. PICK least \in below : \A y \in below : ~(<<y, least>> \in OpToRel(<, Nat))
  BY <1>1, WFMin, NatLessThanWellFounded
<1>3. \A y \in below : ~(y < least)
  BY <1>1, <1>2 DEF OpToRel
<1>4. PICK x \in S : least = n - x
  OBVIOUS
<1>5. ASSUME NEW y \in S
      PROVE  x >= y
  <2>1. ~(n - y < n - x)
    BY <1>3, <1>4
  <2>2. x \in Nat /\ y \in Nat
    OBVIOUS
  <2>3. ~(y > x)
    BY <2>1, <2>2
  <2> QED
    BY <2>2, <2>3
<1>6. \E z \in S : \A y \in S : z >= y
  BY <1>5
<1> QED
  BY <1>6 DEF Chat!Max

(* The active request is one.                                              *)
LEMMA ActiveIsThere ==
  ASSUME ChatInv
  PROVE  Chat!ActiveRequest \in {0} \cup DOMAIN chatRequests
<1> DEFINE linked == {i \in DOMAIN chatThread : chatThread[i].request # 0}
<1>1. CASE linked = {}
  BY <1>1 DEF Chat!ActiveRequest
<1>2. CASE linked # {}
  <2>1. /\ linked \in SUBSET Nat /\ Len(chatThread) \in Nat
        /\ \A i \in linked : i <= Len(chatThread)
    BY DEF ChatInv, ChatTypes
  <2>2. Chat!Max(linked) \in linked
    BY <1>2, <2>1, Highest
  <2>3. chatThread[Chat!Max(linked)].request \in DOMAIN chatRequests
    BY <2>2 DEF ChatInv, MessageFits
  <2> QED
    BY <2>3 DEF Chat!ActiveRequest
<1> QED
  BY <1>1, <1>2

LEMMA ChatSending ==
  ASSUME ChatInv, NEW t \in ChatTabs, Chat!Send(t)
  PROVE  ChatInv'
<1>1. PICK s : s = [at |-> IF chatThread = <<>> THEN "start" ELSE "resolve",
                    note |-> chatSent + 1]
  OBVIOUS
<1>2. /\ chatSends' = [chatSends EXCEPT ![t] = s] /\ chatSent' = chatSent + 1
      /\ chatSends[t] = Chat!Idle
      /\ UNCHANGED <<chatThread, chatRequests, chatLock, chatJobs, chatLosses>>
  BY <1>1 DEF Chat!Send
<1>3. /\ chatSends' = [u \in ChatTabs |-> chatSends'[u]]
      /\ \A u \in ChatTabs : chatSends'[u] = IF u = t THEN s ELSE chatSends[u]
  BY <1>2 DEF ChatInv, ChatTypes
<1>4. chatSent \in Nat /\ chatSent + 1 \in Nat /\ chatSent <= chatSent + 1
  BY DEF ChatInv, ChatTypes
<1>5. SendFits(s, t, chatLock, chatRequests, chatSent + 1)
  BY <1>1, <1>4 DEF SendFits
<1>6. \A u \in ChatTabs : SendFits(chatSends[u], u, chatLock, chatRequests, chatSent + 1)
  BY <1>4, GrowsAlike, SendStillFits DEF ChatInv
<1>7. PICK sends : sends = chatSends'
  OBVIOUS
<1>8. NotesApart(sends, chatJobs, chatSent + 1)
  <2>1. \A u \in ChatTabs : chatSends[u] # Chat!Idle => chatSends[u].note \in 1 .. chatSent
    BY SendsHaveNotes
  <2>2. \A u \in ChatTabs \ {t} : sends[u] # Chat!Idle =>
           sends[u] = chatSends[u] /\ sends[u].note \in 1 .. chatSent
    BY <1>3, <1>7, <2>1
  <2>3. sends[t].note = chatSent + 1
    BY <1>1, <1>3, <1>7
  <2>4. NotesApart(chatSends, chatJobs, chatSent)
    BY DEF ChatInv
  <2>5. \A j \in Chat!Jobs : j > chatSent => chatJobs[j] = Chat!Idle
    BY <2>4 DEF NotesApart
  <2>6. \A j \in Chat!Jobs : j > chatSent + 1 => chatJobs[j] = Chat!Idle
    BY <1>4, <2>5 DEF Chat!Jobs
  <2>7. chatSent + 1 \in Chat!Jobs => chatJobs[chatSent + 1] = Chat!Idle
    BY <1>4, <2>5
  <2>8. ASSUME NEW u \in ChatTabs, sends[u] # Chat!Idle
        PROVE  /\ sends[u].note \in Chat!Jobs => chatJobs[sends[u].note] = Chat!Idle
               /\ \A v \in ChatTabs \ {u} :
                     sends[v] # Chat!Idle => sends[v].note # sends[u].note
    <3>1. CASE u = t
      BY <1>4, <2>2, <2>3, <2>7, <3>1
    <3>2. CASE u # t
      <4>1. \A v \in ChatTabs \ {u} : sends[v] # Chat!Idle => sends[v].note # sends[u].note
        BY <1>4, <2>2, <2>3, <2>4, <2>8, <3>2 DEF NotesApart
      <4> QED
        BY <2>2, <2>4, <2>8, <3>2, <4>1 DEF NotesApart
    <3> QED
      BY <3>1, <3>2
  <2> QED
    BY <2>6, <2>8 DEF NotesApart
<1>9. \A u \in ChatTabs : SendFits(sends[u], u, chatLock, chatRequests, chatSent + 1)
  BY <1>3, <1>5, <1>6, <1>7
<1> QED
  BY <1>2, <1>3, <1>4, <1>7, <1>8, <1>9 DEF ChatInv, ChatTypes

(* A plan that is approved or applied was approved once.                   *)
LEMMA PlanWasApproved ==
  ASSUME NEW r \in ChatRequest, RequestFits(r),
         Chat!PlanOf(r).status \in {"approved", "applied"}
  PROVE  r.plans # <<>> /\ Len(r.plans) \in DOMAIN r.plans /\ OnceApproved(r)
<1>1. r.plans # <<>>
  BY DEF Chat!PlanOf
<1>2. r.plans \in Seq(ChatPlan) /\ Len(r.plans) \in DOMAIN r.plans
  BY <1>1 DEF ChatRequest
<1>3. Chat!PlanOf(r) = r.plans[Len(r.plans)]
  BY <1>1 DEF Chat!PlanOf, Chat!Last
<1> QED
  BY <1>1, <1>2, <1>3 DEF RequestFits, OnceApproved

LEMMA ChatTabsMove ==
  ASSUME ChatInv, NEW t \in ChatTabs,
         \/ Chat!Resolve(t) \/ Chat!TouchConversation(t) \/ Chat!ReadOutcome(t)
         \/ Chat!LookAtPlan(t) \/ Chat!Answer(t)
  PROVE  ChatInv'
<1>1. \A u \in ChatTabs : SendFits(chatSends[u], u, chatLock, chatRequests, chatSent)
  BY DEF ChatInv
<1>2. PICK old : old = chatSends[t]
  OBVIOUS
<1>3. SendFits(old, t, chatLock, chatRequests, chatSent)
  BY <1>1, <1>2
<1>4. SendFits(Chat!Idle, t, chatLock, chatRequests, chatSent)
  BY DEF SendFits, Chat!Idle
<1>5. CASE Chat!Resolve(t)
  <2>1. PICK s : s = IF Chat!ActiveRequest = 0 THEN [at |-> "start", note |-> old.note]
                     ELSE [at |-> "attach", note |-> old.note,
                           request |-> Chat!ActiveRequest]
    OBVIOUS
  <2>2. /\ chatSends' = [chatSends EXCEPT ![t] = s] /\ old.at = "resolve"
        /\ UNCHANGED <<chatThread, chatRequests, chatLock, chatJobs, chatSent, chatLosses>>
    BY <1>2, <1>5, <2>1 DEF Chat!Resolve
  <2>3. SendFits(s, t, chatLock, chatRequests, chatSent) /\ s.note = old.note
    BY <1>3, <2>1, <2>2, ActiveIsThere DEF SendFits, Chat!Idle
  <2>4. old # Chat!Idle
    BY <2>2 DEF Chat!Idle
  <2> QED
    BY <1>1, <1>2, <2>2, <2>3, <2>4, ChatTabMoves
<1>6. CASE Chat!TouchConversation(t)
  <2>1. /\ old.at = "attach" /\ old # Chat!Idle
        /\ UNCHANGED <<chatThread, chatRequests, chatJobs, chatSent, chatLosses>>
    BY <1>2, <1>6 DEF Chat!TouchConversation, Chat!Idle
  <2>2. CASE chatDeleted
    BY <1>1, <1>2, <1>4, <1>6, <2>1, <2>2, ChatTabMoves DEF Chat!TouchConversation
  <2>3. CASE ~chatDeleted
    <3>1. PICK s : s = [old EXCEPT !.at = "read"]
      OBVIOUS
    <3>2. /\ chatSends' = [chatSends EXCEPT ![t] = s] /\ chatLock = NoTab /\ chatLock' = t
      BY <1>2, <1>6, <2>3, <3>1 DEF Chat!TouchConversation, Chat!MayLock
    <3>3. s = [at |-> "read", note |-> old.note, request |-> old.request]
      BY <1>3, <2>1, <3>1 DEF SendFits
    <3>4. SendFits(s, t, t, chatRequests, chatSent) /\ s.note = old.note
      BY <1>3, <2>1, <3>3 DEF SendFits, Chat!Idle
    <3>5. ASSUME NEW u \in ChatTabs \ {t}
          PROVE  SendFits(chatSends[u], u, t, chatRequests, chatSent)
      <4>1. u # NoTab
        BY ChatAssumption
      <4>2. chatSends[u].at \notin {"read", "commit"}
        BY <1>1, <3>2, <4>1 DEF SendFits
      <4> QED
        BY <1>1, <4>2 DEF SendFits
    <3> QED
      BY <1>2, <2>1, <3>2, <3>4, <3>5, ChatTabMoves
  <2> QED
    BY <2>2, <2>3
<1>7. CASE Chat!ReadOutcome(t)
  <2>1. PICK s : s = [at |-> "commit", note |-> old.note, request |-> old.request,
                      brief |-> chatRequests[old.request].brief]
    OBVIOUS
  <2>2. /\ chatSends' = [chatSends EXCEPT ![t] = s] /\ old.at = "read"
        /\ UNCHANGED <<chatThread, chatRequests, chatLock, chatJobs, chatSent, chatLosses>>
    BY <1>2, <1>7, <2>1 DEF Chat!ReadOutcome, ChatInv, ChatTypes
  <2>3. SendFits(s, t, chatLock, chatRequests, chatSent) /\ s.note = old.note
    BY <1>3, <2>1, <2>2 DEF SendFits, Chat!Idle
  <2>4. old # Chat!Idle
    BY <2>2 DEF Chat!Idle
  <2> QED
    BY <1>1, <1>2, <2>2, <2>3, <2>4, ChatTabMoves
<1>8. CASE Chat!LookAtPlan(t)
  <2>1. PICK s : s = [at |-> "answer", note |-> old.note, request |-> old.request,
                      regenerate |-> Chat!PlanOf(chatRequests[old.request]).status
                                        \notin {"approved", "applied"}]
    OBVIOUS
  <2>2. /\ chatSends' = [chatSends EXCEPT ![t] = s] /\ old.at = "look"
        /\ UNCHANGED <<chatThread, chatRequests, chatLock, chatJobs, chatSent, chatLosses>>
    BY <1>2, <1>8, <2>1 DEF Chat!LookAtPlan, ChatInv, ChatTypes
  <2>3. SendFits(s, t, chatLock, chatRequests, chatSent) /\ s.note = old.note
    BY <1>3, <2>1, <2>2 DEF SendFits, Chat!Idle
  <2>4. old # Chat!Idle
    BY <2>2 DEF Chat!Idle
  <2> QED
    BY <1>1, <1>2, <2>2, <2>3, <2>4, ChatTabMoves
<1>9. CASE Chat!Answer(t)
  <2>1. PICK r : r = chatRequests[old.request]
    OBVIOUS
  <2>2. PICK context : context = Chat!ReplyContext(r, old.regenerate)
    OBVIOUS
  <2>3. /\ old.at = "answer" /\ old # Chat!Idle
        /\ UNCHANGED <<chatThread, chatRequests, chatLock, chatJobs, chatSent, chatLosses>>
    BY <1>2, <1>9 DEF Chat!Answer, Chat!Idle
  <2>4. old.request \in DOMAIN chatRequests /\ old.regenerate \in BOOLEAN
    BY <1>3, <2>3 DEF SendFits, Chat!Idle
  <2>5. r \in ChatRequest /\ RequestFits(r)
    BY <2>1, <2>4 DEF ChatInv, ChatTypes
  <2>6. PICK reply \in Chat!Replies(context) :
          chatSends' = [chatSends EXCEPT ![t] =
             [at |-> "post", note |-> old.note, request |-> old.request,
              regenerate |-> old.regenerate, reply |-> reply]]
    BY <1>2, <1>9, <2>1, <2>2 DEF Chat!Answer, ChatInv, ChatTypes
  <2>7. /\ context.complete => r.said
        /\ context.approved => OnceApproved(r)
        /\ context.steers \/ context.open => r.from # 0
        /\ context.steers \in BOOLEAN /\ context.open \in BOOLEAN
    <3>1. context.complete => r.said
      BY <2>2, <2>5 DEF Chat!ReplyContext, RequestFits
    <3>2. context.approved => OnceApproved(r)
      BY <2>2, <2>5, PlanWasApproved DEF Chat!ReplyContext
    <3>3. context.steers \/ context.open => r.from # 0
      BY <2>2, <2>5 DEF Chat!ReplyContext, RequestFits, Chat!Steerable
    <3>4. context.steers \in BOOLEAN /\ context.open \in BOOLEAN
      BY <2>2, <2>4 DEF Chat!ReplyContext, Chat!Steerable
    <3> QED
      BY <3>1, <3>2, <3>3, <3>4
  <2>8. /\ reply.says \in {"status", "shipped", "approved"} /\ reply.promises \in BOOLEAN
        /\ MayClaim(reply.says, r)
        /\ reply.promises => r.from # 0
    <3>1. CASE reply = Chat!FollowUpReply(context)
      BY <2>7, <3>1 DEF Chat!FollowUpReply, MayClaim
    <3>2. CASE reply # Chat!FollowUpReply(context)
      <4>1. PICK says \in {"status", "shipped", "approved"} :
              Chat!Grounded(says, context) /\ reply = [says |-> says, promises |-> FALSE]
        BY <2>6, <3>2 DEF Chat!Replies
      <4> QED
        BY <2>7, <4>1 DEF Chat!Grounded, MayClaim
    <3> QED
      BY <3>1, <3>2
  <2>9. PICK s : s = [at |-> "post", note |-> old.note, request |-> old.request,
                      regenerate |-> old.regenerate, reply |-> reply]
    OBVIOUS
  <2>10. SendFits(s, t, chatLock, chatRequests, chatSent) /\ s.note = old.note
    BY <1>3, <2>1, <2>3, <2>4, <2>8, <2>9 DEF SendFits, Chat!Idle
  <2> QED
    BY <1>1, <1>2, <2>3, <2>6, <2>9, <2>10, ChatTabMoves
<1> QED
  BY <1>5, <1>6, <1>7, <1>8, <1>9

(* One tab goes on, and may leave its message with the job of that number. *)
TabGoesOn(t, s, old, new, given, jobs) ==
    /\ old[t] # Chat!Idle
    /\ \A u \in ChatTabs : new[u] = IF u = t THEN s ELSE old[u]
    /\ s # Chat!Idle => s.note = old[t].note
    /\ \A j \in Chat!Jobs :
          jobs[j] = given[j] \/ (given[j] = Chat!Idle /\ s = Chat!Idle /\ old[t].note = j)

LEMMA NotesGoOn ==
  ASSUME NEW t \in ChatTabs, NEW s, NEW old, NEW new, NEW given, NEW jobs,
         TabGoesOn(t, s, old, new, given, jobs),
         NEW sent \in Nat, NotesApart(old, given, sent),
         \A u \in ChatTabs : old[u] # Chat!Idle => old[u].note \in 1 .. sent
  PROVE  NotesApart(new, jobs, sent)
<1>1. \A u \in ChatTabs : new[u] # Chat!Idle => old[u] # Chat!Idle /\ new[u].note = old[u].note
  BY DEF TabGoesOn
<1>2. \A j \in Chat!Jobs : jobs[j] # Chat!Idle =>
          \/ given[j] # Chat!Idle
          \/ \E u \in ChatTabs : old[u] # Chat!Idle /\ new[u] = Chat!Idle /\ old[u].note = j
  <2>1. ASSUME NEW j \in Chat!Jobs, jobs[j] # Chat!Idle, given[j] = Chat!Idle
        PROVE  \E u \in ChatTabs : old[u] # Chat!Idle /\ new[u] = Chat!Idle /\ old[u].note = j
    <3>1. s = Chat!Idle /\ old[t].note = j
      BY <2>1 DEF TabGoesOn
    <3>2. old[t] # Chat!Idle /\ new[t] = Chat!Idle
      BY <3>1 DEF TabGoesOn
    <3> QED
      BY <3>1, <3>2
  <2> QED
    BY <2>1
<1>3. sent <= sent
  OBVIOUS
<1> QED
  BY <1>1, <1>2, <1>3, NotesStillApart

JobsGiven(t, s, jobs) ==
    /\ jobs = [j \in Chat!Jobs |-> jobs[j]]
    /\ \A j \in Chat!Jobs :
          \/ jobs[j] = chatJobs[j]
          \/ chatJobs[j] = Chat!Idle /\ s = Chat!Idle /\ chatSends[t].note = j

(* A tab goes on, writing messages and a request, or deferring a job.      *)
LEMMA ChatTabStep ==
  ASSUME ChatInv, NEW t \in ChatTabs, NEW s, chatSends' = [chatSends EXCEPT ![t] = s],
         chatSends[t] # Chat!Idle, s # Chat!Idle => s.note = chatSends[t].note,
         NEW rs, rs = chatRequests', rs \in Seq(ChatRequest),
         RequestsGrow(chatRequests, rs),
         \A n \in DOMAIN rs : RequestFits(rs[n]),
         \A n \in DOMAIN rs : rs[n].newest = "progress" =>
             n \in DOMAIN chatRequests /\ chatRequests[n].newest = "progress",
         NEW thread, thread = chatThread', thread \in Seq(ChatMessage),
         \A i \in DOMAIN thread : MessageFits(thread[i], rs),
         NEW lock, lock = chatLock', SendFits(s, t, lock, rs, chatSent),
         \A u \in ChatTabs \ {t} : SendFits(chatSends[u], u, lock, rs, chatSent),
         NEW jobs, jobs = chatJobs', JobsGiven(t, s, jobs),
         \A j \in Chat!Jobs : JobFits(jobs[j], rs),
         UNCHANGED <<chatSent, chatLosses>>
  PROVE  ChatInv'
<1>1. /\ chatSends' = [u \in ChatTabs |-> chatSends'[u]]
      /\ \A u \in ChatTabs : chatSends'[u] = IF u = t THEN s ELSE chatSends[u]
  BY DEF ChatInv, ChatTypes
<1>2. \A u \in ChatTabs : SendFits(chatSends'[u], u, lock, rs, chatSent)
  BY <1>1
<1>3. PICK sends : sends = chatSends'
  OBVIOUS
<1>4. NotesApart(sends, jobs, chatSent)
  <2>1. PICK before : before = chatSends
    OBVIOUS
  <2>2. PICK given : given = chatJobs
    OBVIOUS
  <2>3. chatSent \in Nat /\ NotesApart(before, given, chatSent) /\ before[t] # Chat!Idle
    BY <2>1, <2>2 DEF ChatInv, ChatTypes
  <2>4. \A u \in ChatTabs : before[u] # Chat!Idle => before[u].note \in 1 .. chatSent
    BY <2>1, SendsHaveNotes
  <2>5. \A u \in ChatTabs : sends[u] = IF u = t THEN s ELSE before[u]
    BY <1>1, <1>3, <2>1
  <2>6. s # Chat!Idle => s.note = before[t].note
    BY <2>1
  <2>7. TabGoesOn(t, s, before, sends, given, jobs)
    BY <2>1, <2>2, <2>3, <2>5, <2>6 DEF TabGoesOn, JobsGiven
  <2> QED
    BY <2>3, <2>4, <2>7, NotesGoOn
<1>5. Planned(rs, jobs, chatLosses)
  <2>1. ASSUME NEW n \in DOMAIN rs, rs[n].newest = "progress", chatLosses = 0
        PROVE  \E k \in Chat!Jobs :
                  jobs[k].at \in {"context", "draft"} /\ jobs[k].request = n
    <3>1. PICK k \in Chat!Jobs :
             chatJobs[k].at \in {"context", "draft"} /\ chatJobs[k].request = n
      BY <2>1 DEF ChatInv, Planned
    <3>2. chatJobs[k] # Chat!Idle
      BY <3>1 DEF Chat!Idle
    <3> QED
      BY <3>1, <3>2 DEF JobsGiven
  <2> QED
    BY <2>1 DEF Planned
<1> QED
  BY <1>1, <1>2, <1>3, <1>4, <1>5 DEF ChatInv, ChatTypes, JobsGiven

WithJob(j, job) == [chatJobs EXCEPT ![j] = job]

LEMMA Deferred ==
  ASSUME ChatInv, NEW t \in ChatTabs, chatSends[t] # Chat!Idle,
         NEW rs, RequestsGrow(chatRequests, rs), NEW job, JobFits(job, rs),
         NEW jobs, jobs = WithJob(chatSends[t].note, job)
  PROVE  /\ jobs = [j \in Chat!Jobs |-> jobs[j]]
         /\ \A j \in Chat!Jobs : JobFits(jobs[j], rs)
         /\ \A j \in Chat!Jobs :
               \/ jobs[j] = chatJobs[j]
               \/ chatJobs[j] = Chat!Idle /\ chatSends[t].note = j
<1>1. /\ jobs = [j \in Chat!Jobs |-> jobs[j]]
      /\ \A j \in Chat!Jobs :
            jobs[j] = IF j = chatSends[t].note THEN job ELSE chatJobs[j]
  BY DEF ChatInv, ChatTypes, WithJob
<1>2. \A j \in Chat!Jobs : JobFits(chatJobs[j], rs)
  BY JobStillFits DEF ChatInv
<1>3. \A j \in Chat!Jobs : j = chatSends[t].note => chatJobs[j] = Chat!Idle
  BY DEF ChatInv, NotesApart
<1> QED
  BY <1>1, <1>2, <1>3

LEMMA MessageAdded ==
  ASSUME NEW thread \in Seq(ChatMessage), NEW rs,
         \A i \in DOMAIN thread : MessageFits(thread[i], rs),
         NEW m \in ChatMessage, MessageFits(m, rs),
         NEW longer, longer = Append(thread, m)
  PROVE  longer \in Seq(ChatMessage) /\ \A i \in DOMAIN longer : MessageFits(longer[i], rs)
<1>1. /\ longer \in Seq(ChatMessage)
      /\ DOMAIN longer = DOMAIN thread \cup {Len(thread) + 1}
      /\ \A i \in DOMAIN thread : longer[i] = thread[i]
      /\ longer[Len(thread) + 1] = m
  OBVIOUS
<1> QED
  BY <1>1

LEMMA NewRequestFits ==
  ASSUME NEW note \in Nat, NEW r, r = Chat!NewRequest(note)
  PROVE  r \in ChatRequest /\ RequestFits(r) /\ r.goal = note /\ r.newest = "none"
<1>1. r.plans = <<>> /\ r.plans \in Seq(ChatPlan)
  BY DEF Chat!NewRequest
<1>2. r \in ChatRequest
  BY <1>1 DEF Chat!NewRequest, ChatRequest, Chat!RequestStatuses, Chat!OutcomeStatuses,
     Chat!TaskStatuses, Chat!NoSession
<1>3. /\ r.status = "open" /\ r.task = "none" /\ r.asked = {} /\ r.goal = note
      /\ r.newest = "none" /\ r.from = 0 /\ ~r.session.live
  BY DEF Chat!NewRequest, Chat!NoSession
<1> QED
  BY <1>1, <1>2, <1>3 DEF RequestFits

LEMMA ChatStarts ==
  ASSUME ChatInv, NEW t \in ChatTabs, Chat!Start(t)
  PROVE  ChatInv'
<1>1. \A u \in ChatTabs : SendFits(chatSends[u], u, chatLock, chatRequests, chatSent)
  BY DEF ChatInv
<1>2. PICK old : old = chatSends[t]
  OBVIOUS
<1>3. /\ old.at = "start" /\ old # Chat!Idle /\ old.note \in Nat
      /\ UNCHANGED <<chatLock, chatJobs, chatSent, chatLosses>>
  <2>1. old.at = "start" /\ old # Chat!Idle
    BY <1>2 DEF Chat!Start, Chat!Idle
  <2>2. old.note \in 1 .. chatSent /\ chatSent \in Nat
    BY <1>2, <2>1, SendsHaveNotes DEF ChatInv, ChatTypes
  <2> QED
    BY <2>1, <2>2 DEF Chat!Start
<1>4. CASE chatDeleted
  <2>1. SendFits(Chat!Idle, t, chatLock, chatRequests, chatSent)
    BY DEF SendFits, Chat!Idle
  <2> QED
    BY <1>1, <1>2, <1>3, <1>4, <2>1, ChatTabMoves DEF Chat!Start
<1>5. CASE ~chatDeleted
  <2> DEFINE n == Len(chatRequests) + 1
  <2>1. PICK r : r = Chat!NewRequest(old.note)
    OBVIOUS
  <2>2. r \in ChatRequest /\ RequestFits(r) /\ r.goal = old.note /\ r.newest = "none"
    BY <1>3, <2>1, NewRequestFits
  <2>3. PICK rs : rs = Append(chatRequests, r)
    OBVIOUS
  <2>4. /\ rs \in Seq(ChatRequest)
        /\ DOMAIN rs = DOMAIN chatRequests \cup {n}
        /\ \A k \in DOMAIN chatRequests : rs[k] = chatRequests[k]
        /\ rs[n] = r
        /\ RequestsGrow(chatRequests, rs) /\ SameBriefs(chatRequests, rs)
        /\ \A k \in DOMAIN rs : RequestFits(rs[k])
    <3>1. RequestsWith(r, rs)
      BY <2>2, <2>3, RequestAdded
    <3> QED
      BY <3>1 DEF RequestsWith
  <2>5. n \in Nat \ {0}
    BY DEF ChatInv, ChatTypes
  <2>6. PICK goal : goal = Chat!Said("user", 0, old.note, "goal")
    OBVIOUS
  <2>7. PICK received : received = Chat!Said("company", n, 0, "received")
    OBVIOUS
  <2>8. goal \in ChatMessage /\ received \in ChatMessage
    BY <1>3, <2>5, <2>6, <2>7 DEF Chat!Said, ChatMessage
  <2>9. MessageFits(goal, rs) /\ MessageFits(received, rs)
    BY <2>2, <2>4, <2>5, <2>6, <2>7 DEF Chat!Said, MessageFits, MayClaim
  <2>10. PICK thread : thread = chatThread \o <<goal, received>>
    OBVIOUS
  <2>11. thread \in Seq(ChatMessage) /\ \A i \in DOMAIN thread : MessageFits(thread[i], rs)
    <3>1. thread = Append(Append(chatThread, goal), received)
      BY <2>8, <2>10 DEF ChatInv, ChatTypes
    <3>2. PICK first : first = Append(chatThread, goal)
      OBVIOUS
    <3>3. chatThread \in Seq(ChatMessage)
          /\ \A i \in DOMAIN chatThread : MessageFits(chatThread[i], rs)
      BY <2>4, MessageStillFits DEF ChatInv, ChatTypes
    <3>4. first \in Seq(ChatMessage) /\ \A i \in DOMAIN first : MessageFits(first[i], rs)
      BY <2>8, <2>9, <3>2, <3>3, MessageAdded
    <3> QED
      BY <2>8, <2>9, <3>1, <3>2, <3>4, MessageAdded
  <2>12. PICK s : s = [at |-> "mark", note |-> old.note, request |-> n]
    OBVIOUS
  <2>13. SendFits(s, t, chatLock, rs, chatSent) /\ s.note = old.note
    <3>1. old.note \in 1 .. chatSent
      BY <1>2, <1>3, SendsHaveNotes
    <3> HIDE DEF n
    <3> QED
      BY <2>4, <2>12, <3>1 DEF SendFits
  <2>14. \A u \in ChatTabs \ {t} : SendFits(chatSends[u], u, chatLock, rs, chatSent)
    <3>1. chatSent \in Nat /\ chatSent <= chatSent
      BY DEF ChatInv, ChatTypes
    <3> HIDE DEF n
    <3>2. ASSUME NEW u \in ChatTabs \ {t}
          PROVE  SendFits(chatSends[u], u, chatLock, rs, chatSent)
      BY <1>1, <2>4, <3>1, SendStillFits
    <3> QED
      BY <3>2
  <2>15. /\ chatThread' = thread /\ chatRequests' = rs
         /\ chatSends' = [chatSends EXCEPT ![t] = s]
    BY <1>2, <1>5, <2>1, <2>3, <2>6, <2>7, <2>10, <2>12 DEF Chat!Start
  <2>16. \A k \in DOMAIN rs : rs[k].newest = "progress" =>
            k \in DOMAIN chatRequests /\ chatRequests[k].newest = "progress"
    BY <2>2, <2>4
  <2>17. PICK jobs : jobs = chatJobs
    OBVIOUS
  <2>18. JobsGiven(t, s, jobs) /\ \A j \in Chat!Jobs : JobFits(jobs[j], rs)
    BY <2>4, <2>17, JobStillFits DEF ChatInv, ChatTypes, JobsGiven
  <2>19. PICK lock : lock = chatLock
    OBVIOUS
  <2> HIDE DEF n
  <2> QED
    BY <1>2, <1>3, <2>4, <2>11, <2>13, <2>14, <2>15, <2>16, <2>17, <2>18, <2>19, ChatTabStep
<1> QED
  BY <1>4, <1>5

(* A request is marked as being planned, and its planning deferred.        *)
LEMMA ChatMarks ==
  ASSUME ChatInv, NEW t \in ChatTabs, Chat!MarkPlanning(t)
  PROVE  ChatInv'
<1>1. PICK old : old = chatSends[t]
  OBVIOUS
<1>2. /\ old.at = "mark" /\ old # Chat!Idle /\ old.request \in DOMAIN chatRequests
      /\ UNCHANGED <<chatThread, chatLock, chatSent, chatLosses>>
  <2>1. SendFits(old, t, chatLock, chatRequests, chatSent)
    BY <1>1 DEF ChatInv
  <2>2. /\ old.at = "mark" /\ old # Chat!Idle
        /\ UNCHANGED <<chatThread, chatLock, chatSent, chatLosses>>
    BY <1>1 DEF Chat!MarkPlanning, Chat!Idle
  <2> QED
    BY <2>1, <2>2 DEF SendFits
<1>3. PICK was : was = chatRequests[old.request]
  OBVIOUS
<1>4. was \in ChatRequest /\ RequestFits(was)
  BY <1>2, <1>3 DEF ChatInv, ChatTypes
<1>5. PICK r : r = [was EXCEPT !.outcome = "planning"]
  OBVIOUS
<1>6. /\ r \in ChatRequest /\ RequestFits(r) /\ RequestGrows(was, r)
      /\ r.brief = was.brief /\ r.newest = was.newest
  BY <1>4, <1>5 DEF ChatRequest, RequestFits, RequestGrows, OnceApproved,
     Chat!OutcomeStatuses
<1>7. PICK rs : rs = [chatRequests EXCEPT ![old.request] = r]
  OBVIOUS
<1>8. /\ rs \in Seq(ChatRequest) /\ DOMAIN rs = DOMAIN chatRequests
      /\ \A k \in DOMAIN chatRequests :
            rs[k] = IF k = old.request THEN r ELSE chatRequests[k]
      /\ RequestsGrow(chatRequests, rs)
      /\ \A k \in DOMAIN rs : RequestFits(rs[k])
  BY <1>2, <1>3, <1>6, <1>7, RequestWritten
<1>9. SameBriefs(chatRequests, rs)
  BY <1>3, <1>6, <1>8 DEF SameBriefs
<1>10. PICK job : job = [at |-> "plan", request |-> old.request, regenerate |-> FALSE]
  OBVIOUS
<1>11. JobFits(job, rs)
  BY <1>2, <1>8, <1>10 DEF JobFits
<1>12. PICK jobs : jobs = WithJob(chatSends[t].note, job)
  OBVIOUS
<1>13. /\ jobs = [j \in Chat!Jobs |-> jobs[j]]
       /\ \A j \in Chat!Jobs : JobFits(jobs[j], rs)
       /\ \A j \in Chat!Jobs :
             jobs[j] = chatJobs[j] \/ (chatJobs[j] = Chat!Idle /\ chatSends[t].note = j)
  <2>1. chatSends[t] # Chat!Idle
    BY <1>1, <1>2
  <2> QED
    BY <1>8, <1>11, <1>12, <2>1, Deferred
<1>14. /\ chatRequests' = rs /\ chatJobs' = jobs
       /\ chatSends' = [chatSends EXCEPT ![t] = Chat!Idle]
  BY <1>1, <1>3, <1>5, <1>7, <1>10, <1>12 DEF Chat!MarkPlanning, Chat!Defer, WithJob
<1>15. SendFits(Chat!Idle, t, chatLock, rs, chatSent)
  BY DEF SendFits, Chat!Idle
<1>16. chatSent \in Nat /\ chatSent <= chatSent
  BY DEF ChatInv, ChatTypes
<1>17. \A u \in ChatTabs \ {t} : SendFits(chatSends[u], u, chatLock, rs, chatSent)
  BY <1>8, <1>9, <1>16, SendStillFits DEF ChatInv
<1>18. /\ chatThread \in Seq(ChatMessage)
       /\ \A i \in DOMAIN chatThread : MessageFits(chatThread[i], rs)
  BY <1>8, MessageStillFits DEF ChatInv, ChatTypes
<1>19. \A k \in DOMAIN rs : rs[k].newest = "progress" =>
          k \in DOMAIN chatRequests /\ chatRequests[k].newest = "progress"
  BY <1>3, <1>6, <1>8
<1>20. PICK s : s = Chat!Idle
  OBVIOUS
<1>21. PICK thread : thread = chatThread
  OBVIOUS
<1>22. PICK lock : lock = chatLock
  OBVIOUS
<1>23. /\ chatSends' = [chatSends EXCEPT ![t] = s] /\ chatSends[t] # Chat!Idle
       /\ SendFits(s, t, lock, rs, chatSent)
       /\ \A u \in ChatTabs \ {t} : SendFits(chatSends[u], u, lock, rs, chatSent)
  BY <1>1, <1>2, <1>14, <1>15, <1>17, <1>20, <1>22
<1>24. (s # Chat!Idle => s.note = chatSends[t].note) /\ JobsGiven(t, s, jobs)
  BY <1>13, <1>20 DEF JobsGiven
<1>25. thread \in Seq(ChatMessage) /\ \A i \in DOMAIN thread : MessageFits(thread[i], rs)
  BY <1>18, <1>21
<1>26. lock = chatLock' /\ thread = chatThread' /\ rs = chatRequests' /\ jobs = chatJobs'
  BY <1>2, <1>14, <1>21, <1>22
<1> QED
  BY <1>2, <1>8, <1>13, <1>19, <1>23, <1>24, <1>25, <1>26, ChatTabStep

(* What a tab keeps that has not the conversation.                         *)
LEMMA SendWithoutTheLock ==
  ASSUME NEW old, NEW new, RequestsGrow(old, new), NEW sent,
         NEW s, NEW t, NEW lock, NEW later, SendFits(s, t, lock, old, sent),
         s.at \notin {"read", "commit"}
  PROVE  SendFits(s, t, later, new, sent)
<1>1. \A n \in DOMAIN old :
         /\ n \in DOMAIN new
         /\ old[n].from # 0 => new[n].from # 0
         /\ \A says : MayClaim(says, old[n]) => MayClaim(says, new[n])
  BY DEF RequestsGrow, RequestGrows, MayClaim
<1> QED
  BY <1>1 DEF SendFits, Chat!Idle

(* A note goes into the brief its tab has read, which is still the brief.  *)
LEMMA ChatCommits ==
  ASSUME ChatInv, NEW t \in ChatTabs, Chat!CommitNote(t)
  PROVE  ChatInv'
<1>1. PICK old : old = chatSends[t]
  OBVIOUS
<1>2. /\ old.at = "commit" /\ old # Chat!Idle /\ chatLock' = NoTab
      /\ UNCHANGED <<chatJobs, chatSent, chatLosses>>
  BY <1>1 DEF Chat!CommitNote, Chat!Idle
<1>3. /\ old.request \in DOMAIN chatRequests /\ chatLock = t
      /\ old.brief = chatRequests[old.request].brief
      /\ chatSent \in Nat /\ old.note \in 1 .. chatSent /\ old.note \in Nat
  <2>1. SendFits(old, t, chatLock, chatRequests, chatSent) /\ chatSent \in Nat
    BY <1>1 DEF ChatInv, ChatTypes
  <2>2. old.note \in 1 .. chatSent
    BY <1>2, <2>1 DEF SendFits
  <2> QED
    BY <1>2, <2>1, <2>2 DEF SendFits
<1>4. PICK was : was = chatRequests[old.request]
  OBVIOUS
<1>5. was \in ChatRequest /\ RequestFits(was)
  BY <1>3, <1>4 DEF ChatInv, ChatTypes
<1>6. PICK r : r = [was EXCEPT !.brief = old.brief \cup {old.note}]
  OBVIOUS
<1>7. /\ r \in ChatRequest /\ RequestFits(r) /\ RequestGrows(was, r)
      /\ r.brief = was.brief \cup {old.note} /\ r.newest = was.newest
  BY <1>3, <1>4, <1>5, <1>6 DEF ChatRequest, RequestFits, RequestGrows, OnceApproved
<1>8. PICK rs : rs = [chatRequests EXCEPT ![old.request] = r]
  OBVIOUS
<1>9. /\ rs \in Seq(ChatRequest) /\ DOMAIN rs = DOMAIN chatRequests
      /\ \A k \in DOMAIN chatRequests :
            rs[k] = IF k = old.request THEN r ELSE chatRequests[k]
      /\ RequestsGrow(chatRequests, rs)
      /\ \A k \in DOMAIN rs : RequestFits(rs[k])
  BY <1>3, <1>4, <1>7, <1>8, RequestWritten
<1>10. PICK m : m = Chat!Said("user", old.request, old.note, "note")
  OBVIOUS
<1>11. m \in ChatMessage /\ MessageFits(m, rs)
  <2>1. old.request \in Nat \ {0} /\ rs[old.request] = r /\ old.request \in DOMAIN rs
    BY <1>3, <1>9 DEF ChatInv, ChatTypes
  <2> QED
    BY <1>3, <1>7, <1>10, <2>1 DEF Chat!Said, ChatMessage, MessageFits, MayClaim
<1>12. PICK thread : thread = Append(chatThread, m)
  OBVIOUS
<1>13. thread \in Seq(ChatMessage) /\ \A i \in DOMAIN thread : MessageFits(thread[i], rs)
  <2>1. /\ chatThread \in Seq(ChatMessage)
        /\ \A i \in DOMAIN chatThread : MessageFits(chatThread[i], rs)
    BY <1>9, MessageStillFits DEF ChatInv, ChatTypes
  <2> QED
    BY <1>11, <1>12, <2>1, MessageAdded
<1>14. PICK s : s = [at |-> "look", note |-> old.note, request |-> old.request]
  OBVIOUS
<1>15. SendFits(s, t, NoTab, rs, chatSent) /\ s.note = old.note
  BY <1>3, <1>9, <1>14 DEF SendFits
<1>16. ASSUME NEW u \in ChatTabs \ {t}
       PROVE  SendFits(chatSends[u], u, NoTab, rs, chatSent)
  <2>1. SendFits(chatSends[u], u, chatLock, chatRequests, chatSent)
    BY DEF ChatInv
  <2>2. chatSends[u].at \notin {"read", "commit"}
    BY <1>3, <2>1 DEF SendFits
  <2> QED
    BY <1>9, <2>1, <2>2, SendWithoutTheLock
<1>17. PICK jobs : jobs = chatJobs
  OBVIOUS
<1>18. JobsGiven(t, s, jobs) /\ \A j \in Chat!Jobs : JobFits(jobs[j], rs)
  BY <1>9, <1>17, JobStillFits DEF ChatInv, ChatTypes, JobsGiven
<1>19. \A k \in DOMAIN rs : rs[k].newest = "progress" =>
          k \in DOMAIN chatRequests /\ chatRequests[k].newest = "progress"
  BY <1>4, <1>7, <1>9
<1>20. /\ chatRequests' = rs /\ chatThread' = thread
       /\ chatSends' = [chatSends EXCEPT ![t] = s]
  BY <1>1, <1>4, <1>6, <1>8, <1>10, <1>12, <1>14 DEF Chat!CommitNote
<1> QED
  BY <1>1, <1>2, <1>9, <1>13, <1>15, <1>16, <1>17, <1>18, <1>19, <1>20, ChatTabStep

(* The answer is written as it was made, and a job deferred.               *)
LEMMA ChatPosts ==
  ASSUME ChatInv, NEW t \in ChatTabs, Chat!PostAnswer(t)
  PROVE  ChatInv'
<1>1. PICK old : old = chatSends[t]
  OBVIOUS
<1>2. /\ old.at = "post" /\ old # Chat!Idle
      /\ chatSends' = [chatSends EXCEPT ![t] = Chat!Idle]
      /\ UNCHANGED <<chatRequests, chatLock, chatSent, chatLosses>>
  BY <1>1 DEF Chat!PostAnswer, Chat!Idle
<1>3. SendFits(old, t, chatLock, chatRequests, chatSent)
  BY <1>1 DEF ChatInv
<1>4. \A u \in ChatTabs : SendFits(chatSends[u], u, chatLock, chatRequests, chatSent)
  BY DEF ChatInv
<1>5. SendFits(Chat!Idle, t, chatLock, chatRequests, chatSent)
  BY DEF SendFits, Chat!Idle
<1>6. CASE chatDeleted
  <2>1. UNCHANGED <<chatThread, chatJobs>>
    BY <1>6 DEF Chat!PostAnswer
  <2> QED
    BY <1>1, <1>2, <1>4, <1>5, <2>1, ChatTabMoves
<1>7. CASE ~chatDeleted
  <2>1. /\ old.request \in DOMAIN chatRequests /\ old.request \in Nat \ {0}
        /\ old.regenerate \in BOOLEAN
        /\ old.reply.says \in {"status", "shipped", "approved"} /\ old.reply.promises \in BOOLEAN
        /\ MayClaim(old.reply.says, chatRequests[old.request])
        /\ old.reply.promises => chatRequests[old.request].from # 0
    BY <1>2, <1>3 DEF SendFits, ChatInv, ChatTypes
  <2>2. PICK rs : rs = chatRequests
    OBVIOUS
  <2>3. /\ rs \in Seq(ChatRequest) /\ RequestsGrow(chatRequests, rs)
        /\ \A n \in DOMAIN rs : RequestFits(rs[n])
    BY <2>2, GrowsAlike DEF ChatInv, ChatTypes
  <2>4. PICK m : m = [Chat!Said("company", old.request, 0, old.reply.says) EXCEPT
                         !.promises = old.reply.promises]
    OBVIOUS
  <2>5. m = [by |-> "company", request |-> old.request, note |-> 0,
             says |-> old.reply.says, promises |-> old.reply.promises]
    BY <2>4 DEF Chat!Said
  <2>6. m \in ChatMessage /\ MessageFits(m, rs)
    BY <2>1, <2>2, <2>5 DEF ChatMessage, MessageFits
  <2>7. PICK thread : thread = Append(chatThread, m)
    OBVIOUS
  <2>8. thread \in Seq(ChatMessage) /\ \A i \in DOMAIN thread : MessageFits(thread[i], rs)
    <3>1. /\ chatThread \in Seq(ChatMessage)
          /\ \A i \in DOMAIN chatThread : MessageFits(chatThread[i], rs)
      BY <2>2 DEF ChatInv, ChatTypes
    <3> QED
      BY <2>6, <2>7, <3>1, MessageAdded
  <2>9. PICK job : job = [at |-> IF old.regenerate THEN "plan" ELSE "steer",
                          request |-> old.request, regenerate |-> TRUE]
    OBVIOUS
  <2>10. JobFits(job, rs)
    BY <2>1, <2>2, <2>9 DEF JobFits
  <2>11. PICK jobs : jobs = WithJob(chatSends[t].note, job)
    OBVIOUS
  <2>12. /\ jobs = [j \in Chat!Jobs |-> jobs[j]]
         /\ \A j \in Chat!Jobs : JobFits(jobs[j], rs)
         /\ \A j \in Chat!Jobs :
               jobs[j] = chatJobs[j] \/ (chatJobs[j] = Chat!Idle /\ chatSends[t].note = j)
    <3>1. chatSends[t] # Chat!Idle
      BY <1>1, <1>2
    <3> QED
      BY <2>3, <2>10, <2>11, <3>1, Deferred
  <2>13. chatThread' = thread /\ chatJobs' = jobs
    BY <1>1, <1>7, <2>4, <2>7, <2>9, <2>11 DEF Chat!PostAnswer, Chat!Defer, WithJob
  <2>14. PICK s : s = Chat!Idle
    OBVIOUS
  <2>15. PICK lock : lock = chatLock
    OBVIOUS
  <2>16. /\ chatSends' = [chatSends EXCEPT ![t] = s] /\ chatSends[t] # Chat!Idle
         /\ SendFits(s, t, lock, rs, chatSent)
         /\ \A u \in ChatTabs \ {t} : SendFits(chatSends[u], u, lock, rs, chatSent)
    BY <1>1, <1>2, <1>4, <1>5, <2>2, <2>14, <2>15
  <2>17. (s # Chat!Idle => s.note = chatSends[t].note) /\ JobsGiven(t, s, jobs)
    BY <2>12, <2>14 DEF JobsGiven
  <2>18. lock = chatLock' /\ thread = chatThread' /\ rs = chatRequests' /\ jobs = chatJobs'
    BY <1>2, <2>2, <2>13, <2>15
  <2>19. \A k \in DOMAIN rs : rs[k].newest = "progress" =>
            k \in DOMAIN chatRequests /\ chatRequests[k].newest = "progress"
    BY <2>2
  <2> QED
    BY <1>2, <2>3, <2>8, <2>12, <2>16, <2>17, <2>18, <2>19, ChatTabStep
<1> QED
  BY <1>6, <1>7

(* The request form: a request, and the job of its own number.             *)
LEMMA ChatSubmits ==
  ASSUME ChatInv, Chat!SubmitRequest
  PROVE  ChatInv'
<1> DEFINE n == Len(chatRequests) + 1
<1>1. chatSent \in Nat /\ chatSent + 1 \in Nat /\ chatSent <= chatSent + 1 /\ n \in Nat \ {0}
  BY DEF ChatInv, ChatTypes
<1>2. PICK r : r = Chat!NewRequest(chatSent + 1)
  OBVIOUS
<1>3. r \in ChatRequest /\ RequestFits(r) /\ r.newest = "none"
  BY <1>1, <1>2, NewRequestFits
<1>4. PICK rs : rs = Append(chatRequests, r)
  OBVIOUS
<1>5. /\ rs \in Seq(ChatRequest)
      /\ DOMAIN rs = DOMAIN chatRequests \cup {n}
      /\ \A k \in DOMAIN chatRequests : rs[k] = chatRequests[k]
      /\ rs[n] = r
      /\ RequestsGrow(chatRequests, rs) /\ SameBriefs(chatRequests, rs)
      /\ \A k \in DOMAIN rs : RequestFits(rs[k])
  <2>1. RequestsWith(r, rs)
    BY <1>3, <1>4, RequestAdded
  <2> QED
    BY <2>1 DEF RequestsWith
<1>6. PICK job : job = [at |-> "plan", request |-> n, regenerate |-> FALSE]
  OBVIOUS
<1>7. JobFits(job, rs)
  BY <1>5, <1>6 DEF JobFits
<1>8. PICK jobs : jobs = [chatJobs EXCEPT ![chatSent + 1] = job]
  OBVIOUS
<1>9. /\ jobs = [j \in Chat!Jobs |-> jobs[j]]
      /\ \A j \in Chat!Jobs : jobs[j] = IF j = chatSent + 1 THEN job ELSE chatJobs[j]
  BY <1>8 DEF ChatInv, ChatTypes
<1>10. /\ chatRequests' = rs /\ chatJobs' = jobs /\ chatSent' = chatSent + 1
       /\ UNCHANGED <<chatThread, chatSends, chatLock, chatLosses>>
  BY <1>2, <1>4, <1>6, <1>8 DEF Chat!SubmitRequest, Chat!Defer
<1> HIDE DEF n
<1>11. \A i \in DOMAIN chatThread : MessageFits(chatThread[i], rs)
  BY <1>5, MessageStillFits DEF ChatInv
<1>12. \A t \in ChatTabs : SendFits(chatSends[t], t, chatLock, rs, chatSent + 1)
  <2>1. ASSUME NEW t \in ChatTabs
        PROVE  SendFits(chatSends[t], t, chatLock, rs, chatSent + 1)
    <3>1. SendFits(chatSends[t], t, chatLock, chatRequests, chatSent)
      BY DEF ChatInv
    <3> QED
      BY <1>1, <1>5, <3>1, SendStillFits
  <2> QED
    BY <2>1
<1>13. \A j \in Chat!Jobs : JobFits(jobs[j], rs)
  BY <1>5, <1>7, <1>9, JobStillFits DEF ChatInv
<1>14. NotesApart(chatSends, chatJobs, chatSent)
  BY DEF ChatInv
<1>15. NotesApart(chatSends, jobs, chatSent + 1)
  <2>1. ASSUME NEW t \in ChatTabs, chatSends[t] # Chat!Idle
        PROVE  /\ chatSends[t].note \in Chat!Jobs => jobs[chatSends[t].note] = Chat!Idle
               /\ \A u \in ChatTabs \ {t} :
                     chatSends[u] # Chat!Idle => chatSends[u].note # chatSends[t].note
    <3>1. chatSends[t].note # chatSent + 1
      BY <1>1, <2>1, SendsHaveNotes
    <3> QED
      BY <1>9, <1>14, <2>1, <3>1 DEF NotesApart
  <2>2. ASSUME NEW j \in Chat!Jobs, j > chatSent + 1
        PROVE  jobs[j] = Chat!Idle
    <3>1. j # chatSent + 1 /\ j > chatSent
      BY <1>1, <2>2 DEF Chat!Jobs
    <3> QED
      BY <1>9, <1>14, <3>1 DEF NotesApart
  <2> QED
    BY <2>1, <2>2 DEF NotesApart
<1>16. Planned(rs, jobs, chatLosses)
  <2>1. ASSUME NEW k \in DOMAIN rs, rs[k].newest = "progress", chatLosses = 0
        PROVE  \E j \in Chat!Jobs : jobs[j].at \in {"context", "draft"} /\ jobs[j].request = k
    <3>1. k \in DOMAIN chatRequests /\ chatRequests[k].newest = "progress"
      BY <1>3, <1>5, <2>1
    <3>2. PICK j \in Chat!Jobs :
             chatJobs[j].at \in {"context", "draft"} /\ chatJobs[j].request = k
      BY <2>1, <3>1 DEF ChatInv, Planned
    <3>3. j # chatSent + 1
      <4>1. chatJobs[j] # Chat!Idle
        BY <3>2 DEF Chat!Idle
      <4>2. j = chatSent + 1 => j > chatSent
        BY <1>1
      <4> QED
        BY <1>14, <4>1, <4>2 DEF NotesApart
    <3> QED
      BY <1>9, <3>2, <3>3
  <2> QED
    BY <2>1 DEF Planned
<1> QED
  BY <1>1, <1>5, <1>9, <1>10, <1>11, <1>12, <1>13, <1>15, <1>16 DEF ChatInv, ChatTypes

LEMMA ChatDeletes ==
  ASSUME ChatInv, Chat!DeleteConversation
  PROVE  ChatInv'
<1>1. /\ chatThread' = <<>> /\ chatThread' \in Seq(ChatMessage) /\ DOMAIN chatThread' = {}
      /\ UNCHANGED <<chatRequests, chatSends, chatLock, chatJobs, chatSent, chatLosses>>
  BY DEF Chat!DeleteConversation
<1> QED
  BY <1>1 DEF ChatInv, ChatTypes

---------------------------------------------------------------------------
(* The steps of the deferred jobs.                                         *)

(* The request of a job, and what the writing of it keeps.                 *)
LEMMA ChatJobWrites ==
  ASSUME ChatInv, NEW n \in DOMAIN chatRequests, NEW r \in ChatRequest,
         RequestFits(r), RequestGrows(chatRequests[n], r), r.brief = chatRequests[n].brief,
         NEW rs, rs = [chatRequests EXCEPT ![n] = r]
  PROVE  /\ rs \in Seq(ChatRequest) /\ DOMAIN rs = DOMAIN chatRequests
         /\ \A k \in DOMAIN chatRequests : rs[k] = IF k = n THEN r ELSE chatRequests[k]
         /\ RequestsGrow(chatRequests, rs) /\ SameBriefs(chatRequests, rs)
         /\ \A k \in DOMAIN rs : RequestFits(rs[k])
<1>1. /\ rs \in Seq(ChatRequest) /\ DOMAIN rs = DOMAIN chatRequests
      /\ \A k \in DOMAIN chatRequests : rs[k] = IF k = n THEN r ELSE chatRequests[k]
      /\ RequestsGrow(chatRequests, rs)
      /\ \A k \in DOMAIN rs : RequestFits(rs[k])
  BY RequestWritten
<1> QED
  BY <1>1 DEF SameBriefs

(* A job ends without having written anything.                             *)
LEMMA ChatJobEnds ==
  ASSUME ChatInv, NEW j \in Chat!Jobs, chatJobs[j] # Chat!Idle,
         chatJobs' = [chatJobs EXCEPT ![j] = Chat!Idle],
         NEW losses \in Nat, losses = chatLosses', chatLosses <= losses,
         chatJobs[j].at \in {"context", "draft"} => losses # 0,
         UNCHANGED <<chatThread, chatRequests, chatSends, chatLock, chatSent>>
  PROVE  ChatInv'
<1>1. PICK rs : rs = chatRequests
  OBVIOUS
<1>2. /\ rs = chatRequests' /\ rs \in Seq(ChatRequest) /\ DOMAIN rs = DOMAIN chatRequests
      /\ RequestsGrow(chatRequests, rs) /\ SameBriefs(chatRequests, rs)
      /\ \A n \in DOMAIN rs : RequestFits(rs[n])
      /\ \A n \in DOMAIN rs : rs[n].newest = "progress" => chatRequests[n].newest = "progress"
  BY <1>1, GrowsAlike DEF ChatInv, ChatTypes
<1>3. PICK job : job = Chat!Idle
  OBVIOUS
<1>4. JobFits(job, rs) /\ JobLeft(j, job, rs, losses)
  BY <1>2, <1>3 DEF JobFits, JobLeft
<1>5. /\ \A n \in DOMAIN rs : rs[n].newest = "progress" =>
             \/ chatRequests[n].newest = "progress"
             \/ job.at \in {"context", "draft"} /\ job.request = n
      /\ chatJobs[j].at \in {"context", "draft"} =>
             \/ losses # 0
             \/ rs[chatJobs[j].request].newest # "progress"
             \/ job.at \in {"context", "draft"} /\ job.request = chatJobs[j].request
  BY <1>2
<1> QED
  BY <1>2, <1>4, <1>5, ChatJobStep

LEMMA ChatPlans ==
  ASSUME ChatInv, NEW j \in Chat!Jobs, Chat!BeginPlan(j) \/ Chat!BeginDraft(j)
  PROVE  ChatInv'
<1>1. PICK old : old = chatJobs[j]
  OBVIOUS
<1>2. JobFits(old, chatRequests)
  BY <1>1 DEF ChatInv
<1>3. /\ old # Chat!Idle /\ chatLosses \in Nat /\ chatLosses <= chatLosses
      /\ old.at \in {"plan", "context"}
      /\ UNCHANGED <<chatThread, chatSends, chatLock, chatSent, chatLosses>>
  <2>1. /\ old.at \in {"plan", "context"}
        /\ UNCHANGED <<chatThread, chatSends, chatLock, chatSent, chatLosses>>
    BY <1>1 DEF Chat!BeginPlan, Chat!BeginDraft
  <2>2. chatLosses \in Nat /\ chatLosses <= chatLosses
    BY DEF ChatInv, ChatTypes
  <2> QED
    BY <2>1, <2>2 DEF Chat!Idle
<1>4. old.request \in DOMAIN chatRequests
  BY <1>2, <1>3 DEF JobFits
<1>5. PICK was : was = chatRequests[old.request]
  OBVIOUS
<1>6. was \in ChatRequest /\ RequestFits(was)
  BY <1>4, <1>5 DEF ChatInv, ChatTypes
<1>7. PICK r : r = [was EXCEPT !.newest = "progress"]
  OBVIOUS
<1>8. /\ r \in ChatRequest /\ RequestFits(r) /\ RequestGrows(was, r)
      /\ r.brief = was.brief
  BY <1>6, <1>7 DEF ChatRequest, RequestFits, RequestGrows, OnceApproved
<1>9. PICK rs : rs = [chatRequests EXCEPT ![old.request] = r]
  OBVIOUS
<1>10. /\ rs \in Seq(ChatRequest) /\ DOMAIN rs = DOMAIN chatRequests
       /\ \A k \in DOMAIN chatRequests :
             rs[k] = IF k = old.request THEN r ELSE chatRequests[k]
       /\ RequestsGrow(chatRequests, rs) /\ SameBriefs(chatRequests, rs)
       /\ \A k \in DOMAIN rs : RequestFits(rs[k])
  BY <1>4, <1>5, <1>8, <1>9, ChatJobWrites
<1>11. ASSUME NEW job, chatJobs' = [chatJobs EXCEPT ![j] = job], chatRequests' = rs,
              JobFits(job, rs), job.at \in {"context", "draft"}, job.request = old.request
       PROVE  ChatInv'
  <2>1. \A n \in DOMAIN rs : rs[n].newest = "progress" =>
           \/ chatRequests[n].newest = "progress"
           \/ job.at \in {"context", "draft"} /\ job.request = n
    BY <1>10, <1>11
  <2>2. JobLeft(j, job, rs, chatLosses)
    BY <1>3, <1>11 DEF JobLeft
  <2> QED
    BY <1>1, <1>3, <1>10, <1>11, <2>1, <2>2, ChatJobStep
<1>12. CASE Chat!BeginPlan(j)
  <2> DEFINE more == IF Chat!PlanOf(was).status \in {"none", "rejected"} THEN 1 ELSE 0
  <2> DEFINE version == Len(was.plans) + more
  <2>1. old.at = "plan"
    BY <1>1, <1>12 DEF Chat!BeginPlan
  <2>2. version \in Nat \ {0}
    <3>1. was.plans \in Seq(ChatPlan) /\ Len(was.plans) \in Nat
      BY <1>6 DEF ChatRequest
    <3>2. CASE was.plans = <<>>
      <4>1. Len(was.plans) = 0 /\ Chat!PlanOf(was).status = "none"
        BY <3>2 DEF Chat!PlanOf
      <4>2. more = 1
        BY <4>1
      <4> HIDE DEF more
      <4> QED
        BY <4>1, <4>2
    <3>3. CASE was.plans # <<>>
      <4>1. Len(was.plans) \in Nat \ {0}
        BY <3>1, <3>3
      <4>2. more \in {0, 1}
        OBVIOUS
      <4> HIDE DEF more
      <4> QED
        BY <4>1, <4>2
    <3> QED
      BY <3>2, <3>3
  <2>3. \/ /\ chatJobs' = [chatJobs EXCEPT ![j] =
                [at |-> "context", request |-> old.request, version |-> version,
                 notes |-> {was.goal} \cup was.brief]]
           /\ chatRequests' = rs
        \/ chatJobs' = [chatJobs EXCEPT ![j] = Chat!Idle] /\ UNCHANGED chatRequests
    BY <1>1, <1>5, <1>7, <1>9, <1>12 DEF Chat!BeginPlan, ChatInv, ChatTypes
  <2> HIDE DEF version, more
  <2>4. PICK job : job = [at |-> "context", request |-> old.request, version |-> version,
                          notes |-> {was.goal} \cup was.brief]
    OBVIOUS
  <2>5. was.goal \in Nat /\ was.brief \in SUBSET Nat
    BY <1>6 DEF ChatRequest
  <2>6. /\ JobFits(job, rs)
        /\ job.at \in {"context", "draft"} /\ job.request = old.request
    BY <1>4, <1>10, <2>2, <2>4, <2>5 DEF JobFits
  <2>7. CASE chatJobs' = [chatJobs EXCEPT ![j] = job] /\ chatRequests' = rs
    BY <1>11, <2>6, <2>7
  <2>8. CASE chatJobs' = [chatJobs EXCEPT ![j] = Chat!Idle] /\ UNCHANGED chatRequests
    <3>1. chatJobs[j].at \notin {"context", "draft"}
      BY <1>1, <2>1
    <3> QED
      BY <1>1, <1>3, <2>8, <3>1, ChatJobEnds
  <2> QED
    BY <2>3, <2>4, <2>7, <2>8
<1>13. CASE Chat!BeginDraft(j)
  <2>1. PICK job : job = [old EXCEPT !.at = "draft"]
    OBVIOUS
  <2>2. /\ old.at = "context"
        /\ chatJobs' = [chatJobs EXCEPT ![j] = job] /\ chatRequests' = rs
    BY <1>1, <1>5, <1>7, <1>9, <1>13, <2>1 DEF Chat!BeginDraft
  <2>3. /\ old = [at |-> "context", request |-> old.request, version |-> old.version,
                  notes |-> old.notes]
        /\ old.version \in Nat \ {0} /\ old.notes \in SUBSET Nat
    BY <1>2, <1>3, <2>2 DEF JobFits
  <2>4. job = [at |-> "draft", request |-> old.request, version |-> old.version,
               notes |-> old.notes]
    BY <2>1, <2>3
  <2>5. JobFits(job, rs) /\ job.at \in {"context", "draft"} /\ job.request = old.request
    BY <1>4, <1>10, <2>3, <2>4 DEF JobFits
  <2> QED
    BY <1>11, <2>2, <2>5
<1> QED
  BY <1>12, <1>13

(* A version is written, whatever it was; no approval it had is lost.      *)
LEMMA ChatPersists ==
  ASSUME ChatInv, NEW j \in Chat!Jobs, Chat!PersistPlan(j)
  PROVE  ChatInv'
<1>1. PICK old : old = chatJobs[j]
  OBVIOUS
<1>2. JobFits(old, chatRequests)
  BY <1>1 DEF ChatInv
<1>3. old.at = "draft" /\ UNCHANGED <<chatThread, chatSends, chatLock, chatSent, chatLosses>>
  BY <1>1 DEF Chat!PersistPlan
<1>4. old # Chat!Idle /\ chatLosses \in Nat /\ chatLosses <= chatLosses
  <2>1. chatLosses \in Nat
    BY DEF ChatInv, ChatTypes
  <2> QED
    BY <1>3, <2>1 DEF Chat!Idle
<1>5. /\ old.request \in DOMAIN chatRequests
      /\ old.version \in Nat \ {0} /\ old.notes \in SUBSET Nat
  BY <1>2, <1>3, <1>4 DEF JobFits
<1>6. PICK was : was = chatRequests[old.request]
  OBVIOUS
<1>7. /\ was \in ChatRequest /\ RequestFits(was) /\ was.plans \in Seq(ChatPlan)
      /\ \A v \in DOMAIN was.plans : was.plans[v] \in ChatPlan
  <2>1. was \in ChatRequest /\ RequestFits(was)
    BY <1>5, <1>6 DEF ChatInv, ChatTypes
  <2>2. PICK plans : plans = was.plans
    OBVIOUS
  <2>3. plans \in Seq(ChatPlan)
    BY <2>1, <2>2 DEF ChatRequest
  <2>4. \A v \in DOMAIN plans : plans[v] \in ChatPlan
    BY <2>3
  <2> QED
    BY <2>1, <2>2, <2>3, <2>4
<1>8. PICK before : before = IF old.version <= Len(was.plans) THEN was.plans[old.version]
                             ELSE [status |-> "none", notes |-> {}, approvedAt |-> FALSE]
  OBVIOUS
<1>9. before \in ChatPlan
  <2>1. CASE old.version <= Len(was.plans)
    <3>1. old.version \in DOMAIN was.plans
      BY <1>5, <1>7, <2>1
    <3> QED
      BY <1>7, <1>8, <2>1, <3>1
  <2>2. CASE ~(old.version <= Len(was.plans))
    BY <1>8, <2>2 DEF ChatPlan
  <2> QED
    BY <2>1, <2>2
<1>10. PICK ok \in BOOLEAN :
         /\ chatRequests' = [chatRequests EXCEPT ![old.request] = [was EXCEPT
               !.plans = IF old.version <= Len(@)
                         THEN [@ EXCEPT ![old.version] =
                                 [before EXCEPT !.status = IF ok THEN "draft" ELSE "failed",
                                                !.notes = IF ok THEN old.notes ELSE @]]
                         ELSE Append(@, [before EXCEPT
                                           !.status = IF ok THEN "draft" ELSE "failed",
                                           !.notes = IF ok THEN old.notes ELSE @]),
               !.outcome = IF ok THEN "planned" ELSE "needs_clarification",
               !.status = "open",
               !.newest = IF ok THEN "plan.generated" ELSE "plan.failed"]]
         /\ chatJobs' = [chatJobs EXCEPT ![j] = Chat!Idle]
  BY <1>1, <1>6, <1>8 DEF Chat!PersistPlan
<1>11. PICK plan : plan = [before EXCEPT !.status = IF ok THEN "draft" ELSE "failed",
                                         !.notes = IF ok THEN old.notes ELSE @]
  OBVIOUS
<1>12. /\ plan \in ChatPlan /\ plan.approvedAt = before.approvedAt
       /\ plan.status \notin {"approved", "applied"}
  BY <1>5, <1>9, <1>11 DEF ChatPlan
<1>13. PICK plans : plans = IF old.version <= Len(was.plans)
                            THEN [was.plans EXCEPT ![old.version] = plan]
                            ELSE Append(was.plans, plan)
  OBVIOUS
<1>14. /\ plans \in Seq(ChatPlan) /\ DOMAIN was.plans \subseteq DOMAIN plans
       /\ \A v \in DOMAIN plans :
             plans[v] = plan \/ (v \in DOMAIN was.plans /\ plans[v] = was.plans[v])
       /\ \A v \in DOMAIN was.plans : was.plans[v].approvedAt => plans[v].approvedAt
  <2>1. CASE old.version <= Len(was.plans)
    <3>1. old.version \in DOMAIN was.plans /\ before = was.plans[old.version]
      BY <1>5, <1>7, <1>8, <2>1
    <3>2. /\ plans = [v \in DOMAIN was.plans |-> plans[v]]
          /\ \A v \in DOMAIN was.plans :
                plans[v] = IF v = old.version THEN plan ELSE was.plans[v]
      BY <1>13, <2>1, <3>1
    <3>3. \A v \in DOMAIN was.plans : plans[v] \in ChatPlan
      BY <1>7, <1>12, <3>2
    <3>4. plans \in Seq(ChatPlan) /\ DOMAIN plans = DOMAIN was.plans
      BY <1>7, <3>2, <3>3, Rewritten
    <3> QED
      BY <1>12, <3>1, <3>2, <3>4
  <2>2. CASE ~(old.version <= Len(was.plans))
    <3>1. plans = Append(was.plans, plan)
      BY <1>13, <2>2
    <3>2. /\ plans \in Seq(ChatPlan)
          /\ DOMAIN plans = DOMAIN was.plans \cup {Len(was.plans) + 1}
          /\ \A v \in DOMAIN was.plans : plans[v] = was.plans[v]
          /\ plans[Len(was.plans) + 1] = plan
      BY <1>7, <1>12, <3>1
    <3> QED
      BY <3>2
  <2> QED
    BY <2>1, <2>2
<1>15. PICK r : r = [was EXCEPT !.plans = plans,
                       !.outcome = IF ok THEN "planned" ELSE "needs_clarification",
                       !.status = "open",
                       !.newest = IF ok THEN "plan.generated" ELSE "plan.failed"]
  OBVIOUS
<1>16. /\ r \in ChatRequest /\ r.brief = was.brief /\ r.newest # "progress"
       /\ r.plans = plans /\ r.status = "open" /\ r.task = was.task /\ r.said = was.said
       /\ r.from = was.from /\ r.asked = was.asked /\ r.session = was.session
       /\ r.goal = was.goal
  BY <1>7, <1>14, <1>15 DEF ChatRequest, Chat!RequestStatuses, Chat!OutcomeStatuses
<1>17. RequestFits(r)
  BY <1>7, <1>12, <1>14, <1>16 DEF RequestFits
<1>18. RequestGrows(was, r)
  BY <1>14, <1>16 DEF RequestGrows, OnceApproved
<1>19. PICK rs : rs = [chatRequests EXCEPT ![old.request] = r]
  OBVIOUS
<1>20. /\ rs \in Seq(ChatRequest) /\ DOMAIN rs = DOMAIN chatRequests
       /\ \A k \in DOMAIN chatRequests :
             rs[k] = IF k = old.request THEN r ELSE chatRequests[k]
       /\ RequestsGrow(chatRequests, rs) /\ SameBriefs(chatRequests, rs)
       /\ \A k \in DOMAIN rs : RequestFits(rs[k])
  BY <1>5, <1>6, <1>16, <1>17, <1>18, <1>19, ChatJobWrites
<1>21. PICK job : job = Chat!Idle
  OBVIOUS
<1>22. chatRequests' = rs
  BY <1>10, <1>11, <1>13, <1>15, <1>19
<1>23. JobFits(job, rs) /\ JobLeft(j, job, rs, chatLosses)
  BY <1>3, <1>10, <1>21, <1>22 DEF JobFits, JobLeft
<1>24. \A n \in DOMAIN rs : rs[n].newest = "progress" => chatRequests[n].newest = "progress"
  BY <1>16, <1>20
<1>25. rs[old.request].newest # "progress"
  BY <1>5, <1>16, <1>20
<1> QED
  BY <1>1, <1>4, <1>20, <1>23, <1>24, <1>25, ChatJobStep

(* A note is routed to the work, or not.                                   *)
LEMMA ChatSteers ==
  ASSUME ChatInv, NEW j \in Chat!Jobs, Chat!PickSteered(j) \/ Chat!AskForChange(j)
  PROVE  ChatInv'
<1>1. PICK old : old = chatJobs[j]
  OBVIOUS
<1>2. JobFits(old, chatRequests)
  BY <1>1 DEF ChatInv
<1>3. /\ old.at \in {"steer", "ask"}
      /\ UNCHANGED <<chatThread, chatSends, chatLock, chatSent, chatLosses>>
  BY <1>1 DEF Chat!PickSteered, Chat!AskForChange
<1>4. old # Chat!Idle /\ chatLosses \in Nat /\ chatLosses <= chatLosses
  <2>1. chatLosses \in Nat
    BY DEF ChatInv, ChatTypes
  <2> QED
    BY <1>3, <2>1 DEF Chat!Idle
<1>5. /\ old.request \in DOMAIN chatRequests
      /\ old.at = "steer" =>
            old = [at |-> "steer", request |-> old.request, regenerate |-> old.regenerate]
      /\ old.at = "ask" => chatRequests[old.request].task # "none"
  BY <1>2, <1>3, <1>4 DEF JobFits
<1>6. PICK was : was = chatRequests[old.request]
  OBVIOUS
<1>7. was \in ChatRequest /\ RequestFits(was) /\ j \in Nat
  BY <1>5, <1>6 DEF ChatInv, ChatTypes, Chat!Jobs
<1>8. ASSUME NEW r \in ChatRequest, RequestFits(r), RequestGrows(was, r),
             r.brief = was.brief, r.newest = was.newest,
             chatRequests' = [chatRequests EXCEPT ![old.request] = r],
             chatJobs' = [chatJobs EXCEPT ![j] = Chat!Idle]
      PROVE  ChatInv'
  <2>1. PICK rs : rs = [chatRequests EXCEPT ![old.request] = r]
    OBVIOUS
  <2>2. /\ rs \in Seq(ChatRequest) /\ DOMAIN rs = DOMAIN chatRequests
        /\ \A k \in DOMAIN chatRequests :
              rs[k] = IF k = old.request THEN r ELSE chatRequests[k]
        /\ RequestsGrow(chatRequests, rs) /\ SameBriefs(chatRequests, rs)
        /\ \A k \in DOMAIN rs : RequestFits(rs[k])
    BY <1>5, <1>6, <1>8, <2>1, ChatJobWrites
  <2>3. PICK job : job = Chat!Idle
    OBVIOUS
  <2>4. JobFits(job, rs) /\ JobLeft(j, job, rs, chatLosses)
    BY <1>3, <1>8, <2>1, <2>3 DEF JobFits, JobLeft
  <2>5. \A n \in DOMAIN rs : rs[n].newest = "progress" => chatRequests[n].newest = "progress"
    BY <1>6, <1>8, <2>2
  <2>6. chatJobs[j].at \notin {"context", "draft"}
    BY <1>1, <1>3
  <2> QED
    BY <1>1, <1>4, <2>2, <2>4, <2>5, <2>6, ChatJobStep
<1>9. CASE Chat!PickSteered(j) /\ Chat!Steerable(was) /\ was.asked = {}
  <2>1. PICK rs : rs = chatRequests
    OBVIOUS
  <2>2. /\ rs \in Seq(ChatRequest) /\ DOMAIN rs = DOMAIN chatRequests
        /\ RequestsGrow(chatRequests, rs) /\ SameBriefs(chatRequests, rs)
        /\ \A n \in DOMAIN rs : RequestFits(rs[n])
        /\ \A n \in DOMAIN rs : rs[n].newest = "progress" => chatRequests[n].newest = "progress"
    BY <2>1, GrowsAlike DEF ChatInv, ChatTypes
  <2>3. PICK job : job = [old EXCEPT !.at = "ask"]
    OBVIOUS
  <2>4. /\ old.at = "steer" /\ UNCHANGED chatRequests
        /\ chatJobs' = [chatJobs EXCEPT ![j] = job]
    BY <1>1, <1>6, <1>9, <2>3 DEF Chat!PickSteered
  <2>5. job = [at |-> "ask", request |-> old.request, regenerate |-> old.regenerate]
    BY <1>5, <2>3, <2>4
  <2>6. JobFits(job, rs)
    BY <1>5, <1>6, <1>9, <2>1, <2>5 DEF JobFits, Chat!Steerable
  <2>7. JobLeft(j, job, rs, chatLosses)
    BY <1>3, <2>1, <2>4 DEF JobLeft
  <2>8. chatJobs[j].at \notin {"context", "draft"}
    BY <1>1, <1>3
  <2> QED
    BY <1>1, <1>4, <2>2, <2>6, <2>7, <2>8, ChatJobStep
<1>10. CASE Chat!PickSteered(j) /\ ~(Chat!Steerable(was) /\ was.asked = {})
  <2>1. PICK r : r = [was EXCEPT !.steered = IF was.asked = {} THEN @ ELSE @ \cup {j}]
    OBVIOUS
  <2>2. /\ r \in ChatRequest /\ RequestFits(r) /\ RequestGrows(was, r)
        /\ r.brief = was.brief /\ r.newest = was.newest
    BY <1>7, <2>1 DEF ChatRequest, RequestFits, RequestGrows, OnceApproved
  <2>3. /\ chatRequests' = [chatRequests EXCEPT ![old.request] = r]
        /\ chatJobs' = [chatJobs EXCEPT ![j] = Chat!Idle]
    BY <1>1, <1>6, <1>10, <2>1 DEF Chat!PickSteered
  <2> QED
    BY <1>8, <2>2, <2>3
<1>11. CASE Chat!AskForChange(j)
  <2>1. PICK r : r = [was EXCEPT !.asked = @ \cup {j}, !.steered = @ \cup {j},
                         !.task = IF @ = "done" THEN @ ELSE "in-progress"]
    OBVIOUS
  <2>2. was.task # "none"
    BY <1>1, <1>5, <1>6, <1>11 DEF Chat!AskForChange
  <2>3. /\ r \in ChatRequest /\ RequestFits(r) /\ RequestGrows(was, r)
        /\ r.brief = was.brief /\ r.newest = was.newest
    BY <1>7, <2>1, <2>2 DEF ChatRequest, RequestFits, RequestGrows, OnceApproved,
       Chat!TaskStatuses
  <2>4. /\ chatRequests' = [chatRequests EXCEPT ![old.request] = r]
        /\ chatJobs' = [chatJobs EXCEPT ![j] = Chat!Idle]
    BY <1>1, <1>6, <1>11, <2>1 DEF Chat!AskForChange
  <2> QED
    BY <1>8, <2>3, <2>4
<1> QED
  BY <1>9, <1>10, <1>11

LEMMA ChatLoses ==
  ASSUME ChatInv, NEW j \in Chat!Jobs, Chat!LoseJob(j)
  PROVE  ChatInv'
<1>1. PICK losses : losses = chatLosses + 1
  OBVIOUS
<1>2. losses \in Nat /\ chatLosses <= losses /\ losses # 0
  BY <1>1 DEF ChatInv, ChatTypes
<1>3. /\ chatJobs[j] # Chat!Idle /\ losses = chatLosses'
      /\ chatJobs' = [chatJobs EXCEPT ![j] = Chat!Idle]
      /\ UNCHANGED <<chatThread, chatRequests, chatSends, chatLock, chatSent>>
  BY <1>1 DEF Chat!LoseJob
<1> QED
  BY <1>2, <1>3, ChatJobEnds

---------------------------------------------------------------------------
(* The steps of the CEO and the driver.                                    *)

(* The newest plan of a request that has one, and another status for it.   *)
LEMMA PlanSet ==
  ASSUME NEW was \in ChatRequest, was.plans # <<>>, NEW plan \in ChatPlan,
         was.plans[Len(was.plans)].approvedAt => plan.approvedAt,
         NEW plans, plans = [was.plans EXCEPT ![Len(was.plans)] = plan]
  PROVE  /\ plans \in Seq(ChatPlan) /\ DOMAIN plans = DOMAIN was.plans
         /\ Len(was.plans) \in DOMAIN was.plans
         /\ \A v \in DOMAIN plans : plans[v] = IF v = Len(was.plans) THEN plan ELSE was.plans[v]
         /\ \A v \in DOMAIN plans : was.plans[v].approvedAt => plans[v].approvedAt
<1>1. PICK old : old = was.plans
  OBVIOUS
<1>2. old \in Seq(ChatPlan) /\ old # <<>>
  BY <1>1 DEF ChatRequest
<1>3. Len(old) \in DOMAIN old /\ \A v \in DOMAIN old : old[v] \in ChatPlan
  BY <1>2
<1>4. /\ plans = [v \in DOMAIN old |-> plans[v]]
      /\ \A v \in DOMAIN old : plans[v] = IF v = Len(old) THEN plan ELSE old[v]
  BY <1>1
<1>5. \A v \in DOMAIN old : plans[v] \in ChatPlan
  BY <1>3, <1>4
<1>6. plans \in Seq(ChatPlan) /\ DOMAIN plans = DOMAIN old
  <2>1. Len(old) \in Nat /\ DOMAIN old = 1 .. Len(old)
    BY <1>2
  <2>2. /\ plans = [v \in 1 .. Len(old) |-> plans[v]] /\ DOMAIN plans = DOMAIN old
        /\ \A v \in 1 .. Len(old) : plans[v] \in ChatPlan
    BY <1>4, <1>5, <2>1
  <2>3. plans \in [1 .. Len(old) -> ChatPlan]
    BY <2>2
  <2> QED
    BY <2>1, <2>2, <2>3, SeqDef
<1> QED
  BY <1>1, <1>3, <1>4, <1>6

(* The newest plan is the last.                                            *)
LEMMA NewestPlan ==
  ASSUME NEW r \in ChatRequest, Chat!PlanOf(r).status # "none"
  PROVE  /\ r.plans # <<>> /\ Chat!PlanOf(r) = r.plans[Len(r.plans)]
         /\ Chat!PlanOf(r) \in ChatPlan /\ Len(r.plans) \in DOMAIN r.plans
         /\ Len(r.plans) \in Nat \ {0}
<1>1. PICK plans : plans = r.plans
  OBVIOUS
<1>2. plans \in Seq(ChatPlan)
  BY <1>1 DEF ChatRequest
<1>3. plans # <<>>
  BY <1>1 DEF Chat!PlanOf
<1>4. Chat!PlanOf(r) = plans[Len(plans)]
  BY <1>1, <1>3 DEF Chat!PlanOf, Chat!Last
<1>5. Len(plans) \in DOMAIN plans /\ Len(plans) \in Nat \ {0}
  BY <1>2, <1>3
<1> QED
  BY <1>1, <1>2, <1>3, <1>4, <1>5

LEMMA ChatDecides ==
  ASSUME ChatInv, NEW n \in DOMAIN chatRequests, Chat!Decide(n)
  PROVE  ChatInv'
<1>1. PICK was : was = chatRequests[n]
  OBVIOUS
<1>2. was \in ChatRequest /\ RequestFits(was)
  BY <1>1 DEF ChatInv, ChatTypes
<1>3. Chat!PlanOf(was).status = "draft"
  BY <1>1 DEF Chat!Decide
<1>4. PICK newest : newest = was.plans[Len(was.plans)]
  OBVIOUS
<1>5. newest \in ChatPlan /\ was.plans # <<>>
  BY <1>2, <1>3, <1>4, NewestPlan
<1>6. ASSUME NEW plan \in ChatPlan, newest.approvedAt => plan.approvedAt,
             plan.status \in {"approved", "applied"} => plan.approvedAt,
             NEW outcome \in Chat!OutcomeStatuses, NEW type \in {"plan.approved", "plan.rejected"},
             NEW r, r = [was EXCEPT !.plans[Len(was.plans)] = plan, !.outcome = outcome,
                                    !.newest = type],
             RequestLeft(n, r)
      PROVE  ChatInv'
  <2>1. PICK plans : plans = [was.plans EXCEPT ![Len(was.plans)] = plan]
    OBVIOUS
  <2>2. /\ plans \in Seq(ChatPlan) /\ DOMAIN plans = DOMAIN was.plans
        /\ \A v \in DOMAIN plans :
              plans[v] = IF v = Len(was.plans) THEN plan ELSE was.plans[v]
        /\ \A v \in DOMAIN plans : was.plans[v].approvedAt => plans[v].approvedAt
    BY <1>2, <1>4, <1>5, <1>6, <2>1, PlanSet
  <2>3. r = [was EXCEPT !.plans = plans, !.outcome = outcome, !.newest = type]
    BY <1>2, <1>6, <2>1 DEF ChatRequest
  <2>4. /\ r \in ChatRequest /\ r.brief = was.brief /\ r.newest # "progress"
        /\ r.plans = plans /\ r.status = was.status /\ r.task = was.task
        /\ r.said = was.said /\ r.from = was.from /\ r.asked = was.asked
        /\ r.session = was.session /\ r.goal = was.goal
    BY <1>2, <1>6, <2>2, <2>3 DEF ChatRequest
  <2>5. RequestFits(r)
    BY <1>2, <1>6, <2>2, <2>4 DEF RequestFits
  <2>6. RequestGrows(was, r)
    BY <2>2, <2>4 DEF RequestGrows, OnceApproved
  <2> QED
    BY <1>1, <1>6, <2>4, <2>5, <2>6, ChatRequestStep
<1>7. CASE chatRequests' = [chatRequests EXCEPT ![n] =
               [Chat!SetPlan(was, "approved") EXCEPT
                  !.plans[Len(was.plans)].approvedAt = TRUE, !.outcome = "approved",
                  !.newest = "plan.approved"]]
  <2>1. PICK plan : plan = [newest EXCEPT !.status = "approved", !.approvedAt = TRUE]
    OBVIOUS
  <2>2. plan \in ChatPlan /\ plan.approvedAt
    BY <1>5, <2>1 DEF ChatPlan
  <2>3. PICK r : r = [was EXCEPT !.plans[Len(was.plans)] = plan, !.outcome = "approved",
                                 !.newest = "plan.approved"]
    OBVIOUS
  <2>4. RequestLeft(n, r)
    <3>1. PICK last : last = Len(was.plans)
      OBVIOUS
    <3>2. PICK plans : plans = was.plans
      OBVIOUS
    <3>3. plans \in Seq(ChatPlan) /\ last \in DOMAIN plans /\ plans[last] = newest
      BY <1>2, <1>3, <1>4, <3>1, <3>2, NewestPlan DEF ChatRequest
    <3>4. PICK set : set = [plans EXCEPT ![last].status = "approved"]
      OBVIOUS
    <3>5. PICK between : between = [was EXCEPT !.plans = set]
      OBVIOUS
    <3>6. between = Chat!SetPlan(was, "approved") /\ between.plans = set
      BY <1>2, <3>1, <3>2, <3>4, <3>5 DEF Chat!SetPlan, ChatRequest
    <3>7. [set EXCEPT ![last].approvedAt = TRUE] = [plans EXCEPT ![last] = plan]
      BY <1>5, <2>1, <3>3, <3>4 DEF ChatPlan
    <3>8. PICK x : x = [Chat!SetPlan(was, "approved") EXCEPT
                           !.plans[last].approvedAt = TRUE, !.outcome = "approved",
                           !.newest = "plan.approved"]
      OBVIOUS
    <3>9. x = [between EXCEPT !.plans = [plans EXCEPT ![last] = plan],
                              !.outcome = "approved", !.newest = "plan.approved"]
      BY <3>6, <3>7, <3>8
    <3>10. r = [was EXCEPT !.plans = [plans EXCEPT ![last] = plan], !.outcome = "approved",
                           !.newest = "plan.approved"]
      BY <2>3, <3>1, <3>2
    <3>11. x = r
      BY <1>2, <3>5, <3>9, <3>10 DEF ChatRequest
    <3>12. chatRequests' = [chatRequests EXCEPT ![n] = x]
      BY <1>7, <3>1, <3>8
    <3> QED
      BY <3>11, <3>12 DEF Chat!Decide, RequestLeft
  <2>5. "approved" \in Chat!OutcomeStatuses
    BY DEF Chat!OutcomeStatuses
  <2> QED
    BY <1>6, <2>2, <2>3, <2>4, <2>5
<1>8. CASE chatRequests' = [chatRequests EXCEPT ![n] =
               [Chat!SetPlan(was, "rejected") EXCEPT !.outcome = "rejected",
                  !.newest = "plan.rejected"]]
  <2>1. PICK plan : plan = [newest EXCEPT !.status = "rejected"]
    OBVIOUS
  <2>2. plan \in ChatPlan /\ plan.status = "rejected" /\ plan.approvedAt = newest.approvedAt
    BY <1>5, <2>1 DEF ChatPlan
  <2>3. PICK r : r = [was EXCEPT !.plans[Len(was.plans)] = plan, !.outcome = "rejected",
                                 !.newest = "plan.rejected"]
    OBVIOUS
  <2>4. RequestLeft(n, r)
    BY <1>1, <1>2, <1>3, <1>4, <1>5, <1>8, <2>1, <2>3, NewestPlan
    DEF Chat!Decide, Chat!SetPlan, RequestLeft, ChatRequest
  <2>5. "rejected" \in Chat!OutcomeStatuses
    BY DEF Chat!OutcomeStatuses
  <2> QED
    BY <1>6, <2>2, <2>3, <2>4, <2>5
<1> QED
  BY <1>1, <1>7, <1>8 DEF Chat!Decide

LEMMA ChatApplies ==
  ASSUME ChatInv, NEW n \in DOMAIN chatRequests, Chat!ApplyPlan(n)
  PROVE  ChatInv'
<1>1. PICK was : was = chatRequests[n]
  OBVIOUS
<1>2. was \in ChatRequest /\ RequestFits(was)
  BY <1>1 DEF ChatInv, ChatTypes
<1>3. Chat!PlanOf(was).status = "approved"
  BY <1>1 DEF Chat!ApplyPlan
<1>4. PICK newest : newest = was.plans[Len(was.plans)]
  OBVIOUS
<1>5. /\ newest \in ChatPlan /\ was.plans # <<>> /\ newest = Chat!PlanOf(was)
      /\ Len(was.plans) \in DOMAIN was.plans /\ Len(was.plans) \in Nat \ {0}
  BY <1>2, <1>3, <1>4, NewestPlan
<1>6. newest.approvedAt
  BY <1>2, <1>3, <1>4, <1>5 DEF RequestFits
<1>7. PICK plan : plan = [newest EXCEPT !.status = "applied"]
  OBVIOUS
<1>8. plan \in ChatPlan /\ plan.approvedAt
  BY <1>5, <1>6, <1>7 DEF ChatPlan
<1>9. PICK plans : plans = [was.plans EXCEPT ![Len(was.plans)] = plan]
  OBVIOUS
<1>10. /\ plans \in Seq(ChatPlan) /\ DOMAIN plans = DOMAIN was.plans
       /\ \A v \in DOMAIN plans :
             plans[v] = IF v = Len(was.plans) THEN plan ELSE was.plans[v]
       /\ \A v \in DOMAIN plans : was.plans[v].approvedAt => plans[v].approvedAt
  BY <1>2, <1>5, <1>8, <1>9, PlanSet
<1>11. PICK r : r = [was EXCEPT !.plans = plans, !.outcome = "in_delivery",
                       !.newest = "work.created",
                       !.task = IF @ = "none" THEN "todo" ELSE @,
                       !.objective = newest.notes, !.from = Len(was.plans)]
  OBVIOUS
<1>12. /\ r \in ChatRequest /\ r.brief = was.brief /\ r.newest # "progress"
       /\ r.plans = plans /\ r.status = was.status
       /\ r.task = IF was.task = "none" THEN "todo" ELSE was.task
       /\ r.said = was.said /\ r.from = Len(was.plans) /\ r.asked = was.asked
       /\ r.session = was.session /\ r.goal = was.goal
  <2>1. PICK task : task = IF was.task = "none" THEN "todo" ELSE was.task
    OBVIOUS
  <2>2. /\ task \in Chat!TaskStatuses /\ "in_delivery" \in Chat!OutcomeStatuses
        /\ newest.notes \in SUBSET Nat /\ Len(was.plans) \in Nat
    BY <1>2, <1>5, <2>1 DEF ChatRequest, ChatPlan, Chat!OutcomeStatuses, Chat!TaskStatuses
  <2>3. r = [was EXCEPT !.plans = plans, !.outcome = "in_delivery",
                !.newest = "work.created", !.task = task, !.objective = newest.notes,
                !.from = Len(was.plans)]
    BY <1>2, <1>11, <2>1 DEF ChatRequest
  <2>4. r \in ChatRequest
    BY <1>2, <1>10, <2>2, <2>3 DEF ChatRequest
  <2> QED
    BY <1>2, <2>1, <2>3, <2>4 DEF ChatRequest
<1>13. RequestFits(r)
  BY <1>2, <1>5, <1>8, <1>10, <1>12 DEF RequestFits
<1>14. RequestGrows(was, r)
  BY <1>5, <1>10, <1>12 DEF RequestGrows, OnceApproved
<1>15. chatRequests' = [chatRequests EXCEPT ![n] = r]
  <2>1. plans = [was.plans EXCEPT ![Len(was.plans)].status = "applied"]
    BY <1>4, <1>7, <1>9
  <2>2. PICK set : set = [was EXCEPT !.plans = plans]
    OBVIOUS
  <2>3. set = Chat!SetPlan(was, "applied")
    BY <2>1, <2>2 DEF Chat!SetPlan
  <2>4. chatRequests' = [chatRequests EXCEPT ![n] =
           [set EXCEPT !.outcome = "in_delivery", !.newest = "work.created",
                       !.task = IF @ = "none" THEN "todo" ELSE @,
                       !.objective = newest.notes, !.from = Len(was.plans)]]
    BY <1>1, <1>5, <2>3 DEF Chat!ApplyPlan
  <2>5. [set EXCEPT !.outcome = "in_delivery", !.newest = "work.created",
                    !.task = IF @ = "none" THEN "todo" ELSE @,
                    !.objective = newest.notes, !.from = Len(was.plans)] = r
    BY <1>2, <1>11, <2>2 DEF ChatRequest
  <2> QED
    BY <2>4, <2>5
<1>16. RequestLeft(n, r)
  BY <1>15 DEF Chat!ApplyPlan, RequestLeft
<1> QED
  BY <1>1, <1>12, <1>13, <1>14, <1>16, ChatRequestStep

LEMMA ChatWorks ==
  ASSUME ChatInv, NEW n \in DOMAIN chatRequests,
         \/ Chat!PrepareSession(n) \/ Chat!FinishSession(n)
         \/ Chat!PassGates(n) \/ Chat!AdvanceRequest(n)
  PROVE  ChatInv'
<1>1. PICK was : was = chatRequests[n]
  OBVIOUS
<1>2. was \in ChatRequest /\ RequestFits(was)
  BY <1>1 DEF ChatInv, ChatTypes
<1>3. CASE Chat!PrepareSession(n)
  <2>1. was.task # "none" /\ was.from \in DOMAIN was.plans
    BY <1>1, <1>2, <1>3 DEF Chat!PrepareSession, RequestFits
  <2>2. was.plans[was.from].notes \in SUBSET Nat
    <3>1. PICK plans : plans = was.plans
      OBVIOUS
    <3>2. plans \in Seq(ChatPlan)
      BY <1>2, <3>1 DEF ChatRequest
    <3>3. plans[was.from] \in ChatPlan
      BY <2>1, <3>1, <3>2
    <3> QED
      BY <3>1, <3>3 DEF ChatPlan
  <2>3. PICK session : session = [live |-> TRUE, brief |-> Chat!BriefOf(was),
                                  owed |-> was.steered]
    OBVIOUS
  <2>4. session \in [live : BOOLEAN, brief : SUBSET Nat, owed : SUBSET Nat]
    BY <1>2, <2>2, <2>3 DEF ChatRequest, Chat!BriefOf, Chat!ReworkSection,
       Chat!ObjectiveSection, Chat!PlanSection
  <2>5. PICK r : r = [was EXCEPT !.session = session]
    OBVIOUS
  <2>6. /\ r \in ChatRequest /\ RequestFits(r) /\ RequestGrows(was, r)
        /\ r.brief = was.brief /\ r.newest = was.newest
    BY <1>2, <2>1, <2>4, <2>5 DEF ChatRequest, RequestFits, RequestGrows, OnceApproved
  <2>7. RequestLeft(n, r)
    BY <1>1, <1>3, <2>3, <2>5 DEF Chat!PrepareSession, RequestLeft
  <2> QED
    BY <1>1, <2>6, <2>7, ChatRequestStep
<1>4. CASE Chat!FinishSession(n)
  <2>1. was.session.live /\ was.from # 0
    BY <1>1, <1>2, <1>4 DEF Chat!FinishSession, RequestFits
  <2>2. PICK r : r = [was EXCEPT !.session = Chat!NoSession, !.task = "in-review"]
    OBVIOUS
  <2>3. /\ r \in ChatRequest /\ RequestFits(r) /\ RequestGrows(was, r)
        /\ r.brief = was.brief /\ r.newest = was.newest
    BY <1>2, <2>1, <2>2 DEF ChatRequest, RequestFits, RequestGrows, OnceApproved,
       Chat!NoSession, Chat!TaskStatuses
  <2>4. RequestLeft(n, r)
    <3>1. chatRequests' = [chatRequests EXCEPT ![n] =
             [was EXCEPT !.session = Chat!NoSession, !.task = "in-review"]]
      BY <1>1, <1>4 DEF Chat!FinishSession, ChatInv, ChatTypes
    <3> QED
      BY <1>4, <2>2, <3>1 DEF Chat!FinishSession, RequestLeft
  <2> QED
    BY <1>1, <2>3, <2>4, ChatRequestStep
<1>5. CASE Chat!PassGates(n)
  <2>1. was.task = "in-review" /\ ~was.session.live
    BY <1>1, <1>5 DEF Chat!PassGates
  <2>2. PICK r : r = [was EXCEPT !.asked = {}, !.steered = {}, !.task = "done",
                         !.outcome = IF @ \in Chat!TerminalOutcome THEN @ ELSE "completed",
                         !.status = IF was.outcome \in Chat!TerminalOutcome THEN @
                                    ELSE "complete",
                         !.said = TRUE]
    OBVIOUS
  <2>3. /\ r \in ChatRequest /\ RequestFits(r) /\ RequestGrows(was, r)
        /\ r.brief = was.brief /\ r.newest = was.newest
    BY <1>2, <2>1, <2>2 DEF ChatRequest, RequestFits, RequestGrows, OnceApproved,
       Chat!TaskStatuses, Chat!OutcomeStatuses, Chat!RequestStatuses
  <2>4. RequestLeft(n, r)
    BY <1>1, <1>5, <2>2 DEF Chat!PassGates, RequestLeft
  <2> QED
    BY <1>1, <2>3, <2>4, ChatRequestStep
<1>6. CASE Chat!AdvanceRequest(n)
  <2>1. PICK s \in Chat!RequestStatuses :
          chatRequests' = [chatRequests EXCEPT ![n] =
             [was EXCEPT !.status = s, !.said = @ \/ s = "complete"]]
    BY <1>1, <1>6 DEF Chat!AdvanceRequest, ChatInv, ChatTypes
  <2>2. PICK r : r = [was EXCEPT !.status = s, !.said = @ \/ s = "complete"]
    OBVIOUS
  <2>3. /\ r \in ChatRequest /\ RequestFits(r) /\ RequestGrows(was, r)
        /\ r.brief = was.brief /\ r.newest = was.newest
    BY <1>2, <2>1, <2>2 DEF ChatRequest, RequestFits, RequestGrows, OnceApproved
  <2>4. RequestLeft(n, r)
    BY <1>6, <2>1, <2>2 DEF Chat!AdvanceRequest, RequestLeft
  <2> QED
    BY <1>1, <2>3, <2>4, ChatRequestStep
<1> QED
  BY <1>3, <1>4, <1>5, <1>6

---------------------------------------------------------------------------
LEMMA ChatBegins ==
  ASSUME Chat!Init
  PROVE  ChatInv
<1>1. /\ chatThread = <<>> /\ chatThread \in Seq(ChatMessage) /\ DOMAIN chatThread = {}
      /\ chatRequests = <<>> /\ chatRequests \in Seq(ChatRequest) /\ DOMAIN chatRequests = {}
  BY DEF Chat!Init
<1>2. /\ chatSends = [t \in ChatTabs |-> Chat!Idle] /\ chatJobs = [j \in Chat!Jobs |-> Chat!Idle]
      /\ chatSent = 0 /\ chatLosses = 0
  BY DEF Chat!Init
<1>3. \A t \in ChatTabs : SendFits(chatSends[t], t, chatLock, chatRequests, chatSent)
  BY <1>2 DEF SendFits, Chat!Idle
<1>4. \A j \in Chat!Jobs : JobFits(chatJobs[j], chatRequests)
  BY <1>2 DEF JobFits
<1>5. NotesApart(chatSends, chatJobs, chatSent)
  BY <1>2 DEF NotesApart
<1>6. Planned(chatRequests, chatJobs, chatLosses)
  BY <1>1 DEF Planned
<1>7. ChatTypes
  BY <1>1, <1>2 DEF ChatTypes
<1> QED
  BY <1>1, <1>3, <1>4, <1>5, <1>6, <1>7 DEF ChatInv

LEMMA ChatGoesOn ==
  ASSUME ChatInv, Chat!Next
  PROVE  ChatInv'
<1>1. ASSUME NEW t \in ChatTabs,
             \/ Chat!Send(t) \/ Chat!Resolve(t) \/ Chat!Start(t) \/ Chat!MarkPlanning(t)
             \/ Chat!TouchConversation(t) \/ Chat!ReadOutcome(t) \/ Chat!CommitNote(t)
             \/ Chat!LookAtPlan(t) \/ Chat!Answer(t) \/ Chat!PostAnswer(t)
      PROVE  ChatInv'
  BY <1>1, ChatSending, ChatTabsMove, ChatStarts, ChatMarks, ChatCommits, ChatPosts
<1>2. ASSUME NEW j \in Chat!Jobs,
             \/ Chat!BeginPlan(j) \/ Chat!BeginDraft(j) \/ Chat!PersistPlan(j)
             \/ Chat!PickSteered(j) \/ Chat!AskForChange(j) \/ Chat!LoseJob(j)
      PROVE  ChatInv'
  BY <1>2, ChatPlans, ChatPersists, ChatSteers, ChatLoses
<1>3. ASSUME NEW n \in DOMAIN chatRequests,
             \/ Chat!Decide(n) \/ Chat!ApplyPlan(n) \/ Chat!PrepareSession(n)
             \/ Chat!FinishSession(n) \/ Chat!PassGates(n) \/ Chat!AdvanceRequest(n)
      PROVE  ChatInv'
  BY <1>3, ChatDecides, ChatApplies, ChatWorks
<1> QED
  BY <1>1, <1>2, <1>3, ChatSubmits, ChatDeletes DEF Chat!Next

(* What the property says of a thread follows from its messages.           *)
LEMMA ChatInvKeepsThread ==
  ASSUME ChatInv
  PROVE  Chat!ThreadKept
<1>1. ASSUME NEW i \in DOMAIN chatThread
      PROVE  LET m == chatThread[i] IN
             /\ m.says = "goal" => \E n \in DOMAIN chatRequests : chatRequests[n].goal = m.note
             /\ m.says = "note" => m.note \in chatRequests[m.request].brief
             /\ m.says = "shipped" =>
                   chatRequests[m.request].task = "done" \/ chatRequests[m.request].said
             /\ m.says = "approved" =>
                   \E v \in DOMAIN chatRequests[m.request].plans :
                       chatRequests[m.request].plans[v].approvedAt
             /\ m.promises => chatRequests[m.request].from # 0
  <2>1. MessageFits(chatThread[i], chatRequests)
    BY DEF ChatInv
  <2> QED
    BY <2>1 DEF MessageFits, MayClaim, OnceApproved
<1>2. ASSUME chatLosses = 0, \A j \in Chat!Jobs : chatJobs[j].at \notin {"context", "draft"}
      PROVE  Chat!Drafting = {}
  <2>1. ASSUME NEW n \in Chat!Scope
        PROVE  n \in DOMAIN chatRequests
    BY <2>1 DEF Chat!Scope, ChatInv, MessageFits
  <2>2. \A n \in DOMAIN chatRequests : chatRequests[n].newest # "progress"
    BY <1>2 DEF ChatInv, Planned
  <2> QED
    BY <2>1, <2>2 DEF Chat!Drafting, Chat!Activity
<1> QED
  BY <1>1, <1>2 DEF Chat!ThreadKept

(* Whatever several tabs send at once, a message of the thread is the goal *)
(* of a request or on the brief of the one it was attached to; an answer   *)
(* says in the guard's wordings only what some row has said, and promises  *)
(* a change only of work there is; and a thread whose planning has ended   *)
(* does not show it as going on (chat-followup-service.ts,                 *)
(* chat-reply-grounding.ts, chat-activity.ts).                             *)
THEOREM ThreadStaysKept == Spec => []ThreadKept
<1> DEFINE I == part = "chat" => ChatInv
<1>1. Init => I
  BY ChatBegins DEF Init
<1>2. I /\ [Next]_vars => I'
  <2>1. ASSUME I, part' = "chat", Next
        PROVE  ChatInv'
    <3>1. ChatInv /\ Chat!Next
      BY <2>1 DEF Next
    <3> QED
      BY <3>1, ChatGoesOn
  <2>2. ASSUME I, UNCHANGED vars
        PROVE  I'
    <3>1. part = "chat" => ChatInv'
      BY <2>2 DEF vars, chatVars, ChatInv, ChatTypes
    <3> QED
      BY <2>2, <3>1 DEF vars
  <2> QED
    BY <2>1, <2>2
<1>3. I => ThreadKept
  BY ChatInvKeepsThread DEF ThreadKept
<1> HIDE DEF I
<1> QED
  BY <1>1, <1>2, <1>3, PTL DEF Spec
=============================================================================
