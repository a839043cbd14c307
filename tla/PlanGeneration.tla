--------------------------- MODULE PlanGeneration ---------------------------
(***************************************************************************)
(* From the CEO's request to a planning draft and on to the tasks that are *)
(* worked off: the deterministic generator (lib/planning-generator.ts),    *)
(* the AI planner with its checks and its fallback (lib/planning), the     *)
(* rows a plan becomes (plan-application-service.ts), and their selection, *)
(* taken from TaskSelection.                                               *)
(*                                                                         *)
(* Texts are left out: of a list of sentences its length is kept, of a     *)
(* request what the checks find in it.  Roles are those of the blueprints. *)
(***************************************************************************)
EXTENDS TaskSelection, FiniteSets, Integers

CONSTANTS
    Requests,    (* the requests looked at: records, see RequestOK          *)
    AiPlans,     (* what a model may answer: drafts, see AiDraft            *)
    Nobody       (* no employee                                             *)

VARIABLES
    request,     (* the outcome and what the company has                    *)
    stage,       (* "asked", "planned", "failed" or "applied"               *)
    result,      (* the draft, and which planner it is from                 *)
    rows         (* the Task rows, as TaskSelection wants them              *)

vars == <<request, stage, result, rows>>

Roles == {"Product Manager", "Tech Lead", "Backend Engineer",
          "Frontend Engineer", "Reviewer", "QA Engineer", "Release Manager"}

RequestOK(r) ==
    /\ r.flaws \subseteq {"empty", "short", "vague", "unsupported"}
    /\ r.words \subseteq {"repository-intelligence", "security", "performance", "documentation"}
    /\ r.hired \subseteq Roles
    /\ r.repositories \in Nat /\ r.files \in Nat /\ r.memory \in Nat
    /\ r.constrained \in BOOLEAN
    /\ r.provider \in {"ai", "deterministic"}

---------------------------------------------------------------------------
(* The deterministic generator.                                            *)

(* validateOutcomeForPlanning: the first flaw is the reason.               *)
Refusal(r) ==
    CASE "empty" \in r.flaws -> "empty"
      [] "empty" \notin r.flaws /\ "short" \in r.flaws -> "short"
      [] r.flaws \cap {"empty", "short"} = {} /\ "vague" \in r.flaws -> "vague"
      [] r.flaws = {"unsupported"} -> "unsupported"
      [] OTHER -> "none"

(* Only one of the templates has a plan of its own.                        *)
Template(r) ==
    IF "repository-intelligence" \in r.words
    THEN "repository-intelligence" ELSE "general-engineering"

Blueprint(role, deps, points, kind) ==
    [role |-> role, deps |-> deps, points |-> points, kind |-> kind, criteria |-> 2]

(* A blueprint without a kind is an implementation.                        *)
Build(role, deps, points) == Blueprint(role, deps, points, "implementation")
Study(role, deps, points) == Blueprint(role, deps, points, "analysis")

SourceModel == [id |-> "source-model", owner |-> "Backend Engineer",
    order |-> <<"inspect", "manager", "manifests", "routing", "database">>,
    tasks |-> [inspect   |-> Build("Backend Engineer", {}, 3),
               manager   |-> Build("Backend Engineer", {"inspect"}, 2),
               manifests |-> Build("Backend Engineer", {"manager"}, 3),
               routing   |-> Build("Tech Lead", {"manifests"}, 3),
               database  |-> Build("Backend Engineer", {"manifests"}, 3)]]

ApiRiskSummary == [id |-> "api-risk-summary", owner |-> "Tech Lead",
    order |-> <<"api", "risks">>,
    tasks |-> [api   |-> Build("Backend Engineer", {"routing"}, 3),
               risks |-> Build("Reviewer", {"api", "database"}, 3)]]

IntelligenceUi == [id |-> "repository-intelligence-ui", owner |-> "Frontend Engineer",
    order |-> <<"ui", "coverage">>,
    tasks |-> [ui       |-> Build("Frontend Engineer", {"risks"}, 3),
               coverage |-> Build("QA Engineer", {"ui"}, 2)]]

OutcomeDefinition == [id |-> "outcome-definition", owner |-> "Product Manager",
    order |-> <<"brief">>,
    tasks |-> [brief |-> Study("Product Manager", {}, 2)]]

TechnicalDesign == [id |-> "technical-design", owner |-> "Tech Lead",
    order |-> <<"touchpoints", "contracts", "workflow", "implement">>,
    tasks |-> [touchpoints |-> Study("Tech Lead", {"brief"}, 3),
               contracts   |-> Study("Backend Engineer", {"touchpoints"}, 3),
               workflow    |-> Study("Frontend Engineer", {"contracts"}, 3),
               implement   |-> Build("Backend Engineer", {"workflow"}, 5)]]

QualityRelease == [id |-> "quality-release", owner |-> "QA Engineer",
    order |-> <<"checklist", "release">>,
    tasks |-> [checklist |-> Study("Reviewer", {"implement"}, 2),
               release   |-> Study("QA Engineer", {"checklist"}, 2)]]

FeatureBlueprints(template) ==
    IF template = "repository-intelligence"
    THEN <<SourceModel, ApiRiskSummary, IntelligenceUi>>
    ELSE <<OutcomeDefinition, TechnicalDesign, QualityRelease>>

(* One milestone per feature, each with criteria of its own.               *)
Milestones(template) == [f \in 1 .. 3 |-> [order |-> f, criteria |-> 2]]

(* findEmployeeForRole: by role name, title, name or responsibilities; one *)
(* employee per role here.                                                 *)
EmployeeFor(role, r) == IF role \in r.hired THEN role ELSE Nobody

Feature(blueprints, f, r) ==
    LET b == blueprints[f]
    IN  [id |-> b.id, owner |-> b.owner, employee |-> EmployeeFor(b.owner, r),
         order |-> f, criteria |-> 2,
         deps |-> IF f > 1 THEN {blueprints[f - 1].id} ELSE {}]

(* The hints each blueprint of the repository plan has: modules, criteria. *)
HintedModules(id) ==
    IF id \in {"manager", "api"} THEN 3 ELSE 2
HintedCriteria == 2

Lesser(a, b) == IF a <= b THEN a ELSE b

(* enrichTaskWithRepositoryContext                                         *)
Enriched(id, task, r) ==
    IF r.repositories = 0 \/ Template(r) # "repository-intelligence" THEN task
    ELSE [task EXCEPT !.context = @ + 2 + HintedModules(id) + Lesser(r.files, 8),
                      !.criteria = Lesser(@ + HintedCriteria + 1, 6),
                      !.definitionOfDone = @ + 1]

Task(feature, id, order, r) ==
    LET b == feature.tasks[id]
    IN  Enriched(id, [feature |-> feature.id, role |-> b.role, kind |-> b.kind,
                      employee |-> EmployeeFor(b.role, r), deps |-> b.deps,
                      criteria |-> b.criteria, definitionOfDone |-> 3,
                      context |-> 3, order |-> order, points |-> b.points,
                      described |-> TRUE], r)

(* Mutated form: the features do not take part in the numbers.             *)
OrderByTask(f, t) == t

OrderOfTask(f, t) == (f - 1) * 10 + t

Positions(blueprints) ==
    {p \in (DOMAIN blueprints) \X (1 .. 9) : p[2] \in DOMAIN blueprints[p[1]].order}

Tasks(r) ==
    LET bs == FeatureBlueprints(Template(r))
        at(id) == CHOOSE p \in Positions(bs) : bs[p[1]].order[p[2]] = id
    IN  [id \in {bs[p[1]].order[p[2]] : p \in Positions(bs)} |->
            Task(bs[at(id)[1]], id, OrderOfTask(at(id)[1], at(id)[2]), r)]

(* buildDependencies                                                       *)
Dependencies(r, features) ==
    {[id |-> "approval", blocks |-> features, before |-> 99]}
    \cup (IF r.repositories = 0
          THEN {[id |-> "repository-context", blocks |-> features, before |-> 1]}
          ELSE {[id |-> "metadata-freshness",
                 blocks |-> {FeatureBlueprints(Template(r))[f].id : f \in 1 .. 2},
                 before |-> 1]})
    \cup (IF Template(r) # "repository-intelligence" THEN {}
          ELSE {[id |-> "manifest-fixtures",
                 blocks |-> {"manager", "routing", "database"}, before |-> 2]})

(* How many sentences each of the plan's lists gets.                       *)
More(r, n) == IF Template(r) = "repository-intelligence" THEN n ELSE 0

MemoryAssumptions(r) == Lesser(r.memory, 5)
Assumptions(r) == 3 + More(r, 2) + MemoryAssumptions(r)
Risks(r) == 2 + More(r, 1)
OpenQuestions(r) ==
    2 + (IF r.constrained THEN 0 ELSE 1)
      + (IF r.repositories = 0 THEN 1 ELSE 0) + More(r, 1)
ReviewCheckpoints(r) == 3 + More(r, 1)
QaChecks(r) == 4 + More(r, 1)
ReleaseCriteria(r) == 4

(* One row per role that some task wants.                                  *)
Assignments(tasks, r) ==
    {[role |-> role, employee |-> EmployeeFor(role, r),
      tasks |-> {t \in DOMAIN tasks : tasks[t].role = role}] :
        role \in {tasks[t].role : t \in DOMAIN tasks}}

Deterministic(r) ==
    LET bs       == FeatureBlueprints(Template(r))
        features == [f \in DOMAIN bs |-> Feature(bs, f, r)]
        tasks    == Tasks(r)
    IN  [projects |-> <<[owner |-> EmployeeFor("Product Manager", r),
                         milestones |-> Milestones(Template(r))]>>,
         features |-> features, tasks |-> tasks,
         assignments  |-> Assignments(tasks, r),
         dependencies |-> Dependencies(r, {features[f].id : f \in DOMAIN features}),
         assumptions |-> Assumptions(r), risks |-> Risks(r),
         questions |-> OpenQuestions(r), review |-> ReviewCheckpoints(r),
         qa |-> QaChecks(r), release |-> ReleaseCriteria(r)]

---------------------------------------------------------------------------
(* The checks of a draft.                                                  *)

(* validatePlanningDraftQuality, the codes of its issues.                  *)
ProjectIssues(d) ==
    (IF d.projects = <<>> THEN {"missing-project"} ELSE {})
    \cup UNION {IF d.projects[p].milestones = <<>> THEN {"missing-milestones"}
                ELSE IF \A m \in DOMAIN d.projects[p].milestones :
                            d.projects[p].milestones[m].criteria > 0
                THEN {} ELSE {"missing-milestone-acceptance"} : p \in DOMAIN d.projects}

FeatureIssues(d) ==
    (IF d.features = <<>> THEN {"missing-features"} ELSE {})
    \cup {"missing-feature-acceptance" : f \in {g \in DOMAIN d.features : d.features[g].criteria = 0}}

TaskIssuesOf(t) ==
    (IF t.described THEN {} ELSE {"task-description-too-short"})
    \cup (IF t.criteria < 2 THEN {"insufficient-task-acceptance"} ELSE {})
    \cup (IF t.definitionOfDone = 0 THEN {"missing-definition-of-done"} ELSE {})
    \cup (IF t.context = 0 THEN {"missing-required-context"} ELSE {})

TaskIssues(d) ==
    (IF d.tasks = <<>> THEN {"missing-tasks"} ELSE {})
    \cup UNION {TaskIssuesOf(d.tasks[t]) : t \in DOMAIN d.tasks}

PlanIssues(d) ==
    (IF 0 \in {d.risks, d.assumptions, d.questions, d.review, d.qa, d.release}
        \/ d.dependencies = {} THEN {"missing-section"} ELSE {})

QualityIssues(d) == ProjectIssues(d) \cup FeatureIssues(d) \cup TaskIssues(d) \cup PlanIssues(d)

Named(d) ==
    {d.projects[p].owner : p \in DOMAIN d.projects}
    \cup {d.features[f].employee : f \in DOMAIN d.features}
    \cup {d.tasks[t].employee : t \in DOMAIN d.tasks}
    \cup {a.employee : a \in d.assignments}

(* checkPlanGrounding: everybody named is in the company.                  *)
Grounded(d, r) == Named(d) \subseteq r.hired \cup {Nobody}

---------------------------------------------------------------------------
(* The planners.                                                           *)

Failure == [status |-> "failed", planner |-> "deterministic", paid |-> FALSE]

(* DeterministicPlanningAdapter.                                           *)
FromGenerator(r) ==
    IF Refusal(r) # "none" THEN Failure
    ELSE [status |-> "success", planner |-> "deterministic", paid |-> FALSE,
          draft |-> Deterministic(r)]

(* fallbackWith: the tokens are on the result, unless the fallback fails.  *)
Fallback(r, paid) ==
    LET plain == FromGenerator(r)
    IN  IF plain.status # "success" THEN plain ELSE [plain EXCEPT !.paid = paid]

Trusted(d, r) == QualityIssues(d) = {} /\ Grounded(d, r)

(* planningDraftSchema, of what a model may get wrong: a kind is one of    *)
(* two or left out, an order and points are numbers, if not always         *)
(* sensible ones.                                                          *)
Parses(d) ==
    \A t \in DOMAIN d.tasks :
        /\ d.tasks[t].kind \in {"implementation", "analysis", "none"}
        /\ d.tasks[t].order \in Int /\ d.tasks[t].points \in Int

(* parseAiPlanningDraft: the answers that come through it as drafts.       *)
ParsedDrafts == {d \in AiPlans : Parses(d)}

(* AiPlanningAdapter: no completion costs nothing, one with no draft in it *)
(* does, and a draft is used when it is trusted.                           *)
FromAi(r) ==
    {Fallback(r, FALSE), Fallback(r, TRUE)}
    \cup {IF Trusted(d, r)
          THEN [status |-> "success", planner |-> "ai", paid |-> TRUE, draft |-> d]
          ELSE Fallback(r, TRUE) : d \in ParsedDrafts}

Results(r) == IF r.provider = "ai" THEN FromAi(r) ELSE {FromGenerator(r)}

---------------------------------------------------------------------------
(* What becomes of a plan.                                                 *)

(* classifyTaskKind, for a task of an AI plan that has no kind.            *)
AnalysisOnlyRoles == {"Reviewer", "QA Engineer", "Product Manager"}

KindOf(t) ==
    IF t.kind # "none" THEN t.kind
    ELSE IF t.role \in AnalysisOnlyRoles THEN "analysis" ELSE "implementation"

HasImplementation(d) ==
    \E t \in DOMAIN d.tasks : KindOf(d.tasks[t]) = "implementation"

(* Only these become rows; all of them where there is no implementation.   *)
Applied(d) ==
    {t \in DOMAIN d.tasks : HasImplementation(d) => KindOf(d.tasks[t]) = "implementation"}

PriorityOf(points) ==
    IF points >= 8 THEN "high" ELSE IF points >= 5 THEN "medium" ELSE "low"

(* The draft as the selection reads it, kinds stamped.                     *)
Items(d) ==
    [t \in DOMAIN d.tasks |-> [deps |-> d.tasks[t].deps, order |-> d.tasks[t].order,
                               kind |-> KindOf(d.tasks[t])]]

Drafts == <<[status |-> "applied", items |-> Items(result.draft)]>>

(* The place of a task among those that become rows, which are created in  *)
(* the order of the plan.                                                  *)
Place(d, t) == Cardinality({u \in Applied(d) : d.tasks[u].order <= d.tasks[t].order})

RowsOf(d) ==
    {[id |-> Place(d, t), status |-> "todo", plan |-> 1, item |-> t, rework |-> FALSE,
      priority |-> PriorityOf(d.tasks[t].points)] : t \in Applied(d)}

Init ==
    /\ request \in Requests
    /\ stage = "asked"
    /\ result = Failure
    /\ rows = {}

Generate ==
    /\ stage = "asked"
    /\ result' \in Results(request)
    /\ stage' = IF result'.status = "success" THEN "planned" ELSE "failed"
    /\ UNCHANGED <<request, rows>>

Apply ==
    /\ stage = "planned"
    /\ stage' = "applied"
    /\ rows' = RowsOf(result.draft)
    /\ UNCHANGED <<request, result>>

Next0 == SelectNextForCompany(rows, Drafts)

(* The selected task is delivered, or it is stuck and blocked.             *)
Deliver ==
    /\ stage = "applied"
    /\ Next0.task # NoTask
    /\ \E end \in {"done", "blocked"} :
        rows' = {IF row.id = Next0.task THEN [row EXCEPT !.status = end] ELSE row : row \in rows}
    /\ UNCHANGED <<request, stage, result>>

Next == Generate \/ Apply \/ Deliver

Spec == Init /\ [][Next]_vars

---------------------------------------------------------------------------
StatusOf(item) == (CHOOSE row \in rows : row.item = item).status
HasRow(item) == \E row \in rows : row.item = item

TypeOK ==
    /\ RequestOK(request)
    /\ stage \in {"asked", "planned", "failed", "applied"}
    /\ result.status \in {"success", "failed"}
    /\ \A row \in rows : row.status \in {"todo", "done", "blocked"}

(* The generator's own plans, worked off one selected task after the other,*)
(* come to their end - nothing is left but what is blocked or waits for it *)
(* - and in the order of the dependencies and of the plan's numbers        *)
(* (estimatedExecutionOrder, and the note in plan-application-service.ts   *)
(* that a skipped analysis task strands nobody).                           *)
PlanRunsThrough ==
    (stage = "applied" /\ result.planner = "deterministic") =>
        /\ \A row \in rows : \A dep \in result.draft.tasks[row.item].deps :
              /\ dep \in DOMAIN result.draft.tasks
              /\ result.draft.tasks[dep].order < result.draft.tasks[row.item].order
              /\ (row.status # "todo" /\ HasRow(dep)) => StatusOf(dep) = "done"
        /\ Next0.task = NoTask =>
              \A row \in rows : row.status = "todo" =>
                  \E dep \in result.draft.tasks[row.item].deps :
                      HasRow(dep) /\ StatusOf(dep) # "done"
============================================================================
