--------------------------- MODULE MCTemporalCheck ----------------------------
(* Instances of TemporalCheck for TLC.                                     *)
EXTENDS TemporalCheck, TLC

CONSTANTS a, b, c

Three == {a, b, c}

State(S) == [op |-> "state", holds |-> S, faulty |-> {}]
P == State({c})
Q == State({a, b})
PartlyQ == [op |-> "state", holds |-> {a, b}, faulty |-> {c}]
Unary(op, f) == [op |-> op, arg |-> f]
Boolean == [op |-> "boolean"]

AlwaysQ == Unary("always", Q)
EventuallyP == Unary("eventually", P)
NextQ == Unary("next", Q)
QUntilP == [op |-> "until", left |-> Q, right |-> P]
NextQUntilP == [op |-> "until", left |-> NextQ, right |-> P]
AlwaysQUntilP == [op |-> "until", left |-> AlwaysQ, right |-> P]
Nested == {Unary("always", EventuallyP), Unary("eventually", AlwaysQ), NextQUntilP,
           Unary("next", QUntilP), Unary("next", AlwaysQ), AlwaysQUntilP}

Undefined == {Unary("always", Boolean), Unary("next", PartlyQ)}

MCAsked == {AlwaysQ, EventuallyP, NextQ, QUntilP} \cup Undefined \cup Nested
MCFormulas == MCAsked \cup {P, Q, PartlyQ, Boolean}
OnlyEventually == {EventuallyP}
MCHeight ==
  [f \in MCFormulas |->
     IF f.op \in {"state", "boolean"} THEN 0 ELSE IF f \in Nested THEN 2 ELSE 1]

AllModels ==
  [init : {a}, step : [Three -> [Actions -> Three \cup {Disabled}]]]

(* c has at most one successor; a and b have any two.                      *)
BranchingModels == {m \in AllModels : m.step[c][2] = Disabled}

(* No cycle but self-loops: every other step goes to a later state.        *)
Later(s) == IF s = a THEN {a, b, c} ELSE IF s = b THEN {b, c} ELSE {c}
AcyclicModels == {m \in AllModels : \A s \in Three : Successors(m, s) \subseteq Later(s)}

TemporalQuery ==
  [kind |-> "temporal", holds |-> {}, stepHolds |-> {}, stepFaulty |-> {}, on |-> {}, scope |-> {},
   scenario |-> {}, faulty |-> {}]

Free == [strategy |-> "bfs", max_depth |-> {}, max_states |-> {}, timed |-> FALSE]
Bounded ==
  [strategy : Strategies, max_depth : {{0}, {1}}, max_states : {{}}, timed : {FALSE}]

Asking(models, plans) == [model : models, query : {TemporalQuery}, plan : plans]

AllInputs == Asking(BranchingModels, {Free}) \cup Asking(AcyclicModels, Bounded)

(* The second action only leads to c or is disabled.                       *)
CyclicInputs ==
  Asking({m \in AllModels : \A s \in Three : m.step[s][2] \in {Disabled, c}}, {Free})
===============================================================================
