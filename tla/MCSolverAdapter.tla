---------------------------- MODULE MCSolverAdapter ----------------------------
(* Instances of SolverAdapter for TLC.                                     *)
EXTENDS SolverAdapter

CONSTANTS a, b, c

Three == {a, b, c}

(* Models over three states whose first action goes anywhere or faults,    *)
(* and whose second leads to c, faults or is disabled.                     *)
FaultyModels ==
  {m \in [init : {a}, step : [Three -> [Actions -> Three \cup {Disabled, Fault}]]] :
     \A s \in Three : m.step[s][2] \in {Disabled, Fault, c}}

(* Without faults, and b is never left by the second action.               *)
SmallModels ==
  {m \in FaultyModels :
     /\ \A s \in Three : Fault \notin {m.step[s][1], m.step[s][2]}
     /\ m.step[c][1] = c}

StateQuery(k, holds) ==
  [kind |-> k, holds |-> holds, stepHolds |-> {}, stepFaulty |-> {}, on |-> {}, scope |-> {},
   scenario |-> {}, faulty |-> {}]

Invariants == {StateQuery("invariant", {a, b}), StateQuery("invariant", {a})}
Asked == Invariants \cup {StateQuery("invariant", {b, c}), StateQuery("cover", {c})}

(* Every transition has an action id of its own, or they share one.        *)
OwnNames == [i \in Actions |-> i]
SharedName == [i \in Actions |-> 1]

Plan(bound) == [strategy |-> "bfs", max_depth |-> bound, max_states |-> {}, timed |-> FALSE]

Asking(models, namings, queries, plans, backends) ==
  [model : models, names : namings, query : queries, plan : plans, backend : backends]

AllInputs ==
  Asking(FaultyModels, {OwnNames}, Asked, {Plan({}), Plan({1})}, {"sat-varisat"})
    \cup Asking(FaultyModels, {SharedName}, Invariants, {Plan({2})}, {"smt-cvc5"})
    \cup Asking(SmallModels, {OwnNames, SharedName}, Invariants, {Plan({})},
                {"command", "smt-cvc5", "mock-bmc"})

(* Every status, and one nobody knows; up to two actions, one of which the *)
(* model does not have; a level and a reason, none, or a word nobody knows.*)
ActionLists == UNION {[1..n -> Actions \cup {Unnamed}] : n \in 0..2}
AnyReply ==
  [status : Statuses \cup {"MAYBE"}, actions : ActionLists,
   level : {{}, {"complete"}, {"certain"}}, why : {{}, {"TIME_LIMIT_REACHED"}, {"TIRED"}}]
================================================================================
