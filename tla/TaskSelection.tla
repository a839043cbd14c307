-------------------------- MODULE TaskSelection --------------------------
(***************************************************************************)
(* Which task the driver takes next (apps/web/src/lib/task-selection.ts    *)
(* and task-selection-service.ts): a pure function of the task rows and    *)
(* the planning drafts of one company.                                     *)
(*                                                                         *)
(* A row is [id, status, priority, plan, item, rework]: tasks are numbered *)
(* in order of createdAt (equal ones by title), plan is the index of the   *)
(* row's draft, 0 for a task created outside planning, and rework says     *)
(* that a change request on it is open.  A draft is [status, items], items *)
(* a function from its plan items to [deps, order, kind].                  *)
(***************************************************************************)
EXTENDS Naturals, Sequences

CONSTANTS
    NoTask,   (* "no task"                                                  *)
    NoItem    (* the planItemId of a task that has none                     *)

Settled == {"blocked", "done", "in-review", "in-progress", "cancelled"}

(* Number.MAX_SAFE_INTEGER, the order of what no plan orders: a bound      *)
(* above every order a plan gives.                                         *)
Unordered == 1000

Ranks == [urgent |-> 0, high |-> 1, medium |-> 2, low |-> 3]

PriorityRank(p) == IF p \in DOMAIN Ranks THEN Ranks[p] ELSE Ranks.medium

IsApprovedOrApplied(status) == status \in {"approved", "applied"}

(* Mutated form: a todo only, as before rework re-entered the loop.        *)
IsFreshCandidate(c) == c.status = "todo"

IsExecutableCandidate(c) ==
    \/ c.status = "todo"
    \/ c.status = "in-progress" /\ c.rework

(* A plan-linked task needs its plan approved, a planless one a rework.    *)
IsSelectableCandidate(c, drafts) ==
    IF c.plan # 0 THEN IsApprovedOrApplied(drafts[c.plan].status) ELSE c.rework

(* Mutated form: an analysis item, which never becomes a task, blocks.     *)
AllItemsBlock(meta) == {}

NonBlocking(meta) == {i \in DOMAIN meta : meta[i].kind = "analysis"}

DependenciesOf(c, meta) == IF c.item \in DOMAIN meta THEN meta[c.item].deps ELSE {}

IsReady(c, completed, meta) ==
    DependenciesOf(c, meta) \subseteq completed \cup NonBlocking(meta)

OrderOf(c, meta) == IF c.item \in DOMAIN meta THEN meta[c.item].order ELSE Unordered

(* compareTaskCandidates: priority, then planned order, then age.          *)
Precedes(a, b, meta) ==
    \/ PriorityRank(a.priority) < PriorityRank(b.priority)
    \/ /\ PriorityRank(a.priority) = PriorityRank(b.priority)
       /\ \/ OrderOf(a, meta) < OrderOf(b, meta)
          \/ /\ OrderOf(a, meta) = OrderOf(b, meta)
             /\ a.id < b.id

SelectNext(cands, completed, meta, drafts) ==
    LET eligible   == {c \in cands : IsSelectableCandidate(c, drafts)}
        executable == {c \in eligible : IsExecutableCandidate(c)}
        ready      == {c \in executable : IsReady(c, completed, meta)}
        first      == CHOOSE c \in ready :
                         \A d \in ready \ {c} : Precedes(c, d, meta)
        none(why)  == [task |-> NoTask, reason |-> why]
    IN  CASE eligible = {} -> none("no_approved_plans")
          [] eligible # {} /\ executable = {} ->
                IF \A c \in eligible : c.status \in Settled
                THEN none("all_blocked_by_status") ELSE none("no_executable_tasks")
          [] executable # {} /\ ready = {} -> none("all_blocked_by_dependencies")
          [] OTHER -> [task |-> first.id, reason |-> "selected"]

---------------------------------------------------------------------------
(* The service: what is fetched, and one map for all the drafts.           *)

Fetched(rows, drafts) ==
    {r \in rows : IF r.plan # 0 THEN IsApprovedOrApplied(drafts[r.plan].status)
                  ELSE r.status \in {"in-progress", "todo"}}

(* buildGeneratedTaskMetadata: an item of several drafts has the metadata  *)
(* of the last of them.                                                    *)
Metadata(drafts) ==
    LET having(i) == {k \in DOMAIN drafts :
            IsApprovedOrApplied(drafts[k].status) /\ i \in DOMAIN drafts[k].items}
        items == {i \in UNION {DOMAIN drafts[k].items : k \in DOMAIN drafts} :
                    having(i) # {}}
    IN  [i \in items |->
            LET last == CHOOSE k \in having(i) : \A j \in having(i) : j <= k
            IN  drafts[last].items[i]]

CompletedItems(rows, drafts) ==
    {r.item : r \in {f \in Fetched(rows, drafts) : f.status = "done"}} \ {NoItem}

Candidates(rows, drafts) ==
    {r \in Fetched(rows, drafts) : r.plan # 0 \/ r.rework}

SelectNextForCompany(rows, drafts) ==
    SelectNext(Candidates(rows, drafts), CompletedItems(rows, drafts),
               Metadata(drafts), drafts)
============================================================================
