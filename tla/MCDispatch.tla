---------------------------- MODULE MCDispatch ----------------------------
(* One plan: an analysis item, which holds nobody up, a task to start and  *)
(* one whose first delivery waits at the gates.                            *)
EXTENDS Dispatch

Item(deps, order, kind) == [deps |-> deps, order |-> order, kind |-> kind]

MCRows ==
    << [status |-> "todo",      priority |-> "high", plan |-> 1, item |-> "api"],
       [status |-> "in-review", priority |-> "high", plan |-> 1, item |-> "ui"] >>

(* The same plan before anything has run.                                  *)
MCFreshRows == [t \in DOMAIN MCRows |-> [MCRows[t] EXCEPT !.status = "todo"]]

MCDrafts ==
    << [status |-> "applied",
        items  |-> [study |-> Item({}, 1, "analysis"),
                    api   |-> Item({"study"}, 2, "implementation"),
                    ui    |-> Item({"study"}, 3, "implementation")]] >>
============================================================================
