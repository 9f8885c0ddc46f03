----------------------------- MODULE TemporalCheck -----------------------------
(***************************************************************************)
(* engine::explicit::temporal_result and what it calls: a temporal         *)
(* property is evaluated on the graph that ExplicitSearch leaves behind,   *)
(* and a failure is located by walking from the initial node.              *)
(*                                                                         *)
(* Formulas are trees of records: op is "state" (with the states on which  *)
(* the expression holds and those on which it has no boolean value),       *)
(* "always", "eventually", "next" (with arg), "until" (with left and       *)
(* right), or "boolean", a boolean operator applied to a temporal formula, *)
(* which eval_expr refuses.                                                *)
(***************************************************************************)
EXTENDS ExplicitSearch, TemporalSemantics

CONSTANTS
  Formulas,  \* every formula and subformula
  Height,    \* of each formula, its height as a tree
  Asked      \* those that may be asked

ASSUME FormulasAssumption ==
  /\ Asked \subseteq Formulas
  /\ Height \in [Formulas -> Nat]
  /\ \A f \in Formulas :
       /\ f.op \in {"state", "boolean", "always", "eventually", "next", "until"}
       /\ f.op = "state" => f.holds \subseteq States /\ f.faulty \subseteq States
       /\ f.op \in {"always", "eventually", "next"} =>
            f.arg \in Formulas /\ Height[f.arg] < Height[f]
       /\ f.op = "until" =>
            /\ f.left \in Formulas /\ Height[f.left] < Height[f]
            /\ f.right \in Formulas /\ Height[f.right] < Height[f]

VARIABLES
  formula,  \* property.expr
  walk      \* temporal_failure_index: the formula and node it has come to

tvars == <<vars, formula, walk>>

NoWalk == [at |-> 0, f |-> formula]

TInit == Init /\ query.kind = "temporal" /\ formula \in Asked /\ walk = NoWalk

Indices == 1..Len(nodes)
Children(i) == {edges[i][k] : k \in DOMAIN edges[i]}

(* Mutant: a node without successors satisfies eventually and until.       *)
HoldsVacuously(op, l, r, set, i) ==
  CASE op = "always"     -> i \in r /\ Children(i) \subseteq set
    [] op = "eventually" -> i \in r \/ Children(i) \subseteq set
    [] op = "until"      -> i \in r \/ (i \in l /\ Children(i) \subseteq set)

(* What one pass of a fixpoint loop writes at node i, from the truth l and *)
(* r of the operands and the set computed so far.                          *)
HoldsAt(op, l, r, set, i) ==
  CASE op = "always"     -> i \in r /\ Children(i) \subseteq set
    [] op = "eventually" -> i \in r \/ (Children(i) # {} /\ Children(i) \subseteq set)
    [] op = "until"      -> i \in r \/ (i \in l /\ Children(i) # {} /\ Children(i) \subseteq set)

(* One pass over the nodes, which updates the set in place.                *)
OnePass(op, l, r, set) ==
  LET after[k \in 0..Len(nodes)] ==
        IF k = 0 THEN set
        ELSE IF HoldsAt(op, l, r, after[k - 1], k)
             THEN after[k - 1] \cup {k} ELSE after[k - 1] \ {k}
  IN  after[Len(nodes)]

(* Mutant: one pass, whether or not it changed something.                  *)
StabilisedInOnePass(op, l, r) == OnePass(op, l, r, r)

(* The loop passes over the nodes until a pass changes nothing; a pass that*)
(* changes something moves a node for good, so Len(nodes) are enough.      *)
Stabilised(op, l, r) ==
  LET pass[p \in 0..Len(nodes)] == IF p = 0 THEN r ELSE OnePass(op, l, r, pass[p - 1])
  IN  pass[Len(nodes)]

(* temporal_truth_set: the nodes on which f is true, from the truth of its *)
(* operands.                                                               *)
Truth(truth, f) ==
  CASE f.op = "state" -> {i \in Indices : nodes[i].state \in f.holds}
    [] f.op = "next"  -> {i \in Indices : Children(i) # {} /\ Children(i) \subseteq truth[f.arg]}
    [] f.op = "until" -> Stabilised("until", truth[f.left], truth[f.right])
    [] f.op \in {"always", "eventually"} -> Stabilised(f.op, {}, truth[f.arg])
    [] f.op = "boolean" -> {}

TruthSet == LET truth[f \in Formulas] == Truth(truth, f) IN truth

(* The evaluation of f meets an error: it looks at every node.             *)
Unevaluable == NoValue({nodes[i].state : i \in Indices}, Formulas)

-------------------------------------------------------------------------------
Evaluating == pc = "temporal" /\ walk.at = 0

Rest == UNCHANGED <<inputs, graph, marks, cursor, expired, formula>>

FailTemporalEvaluation ==
  /\ Evaluating /\ Unevaluable[formula]
  /\ Error("evaluation")
  /\ Rest /\ UNCHANGED walk

ProveTemporal ==
  /\ Evaluating /\ ~Unevaluable[formula]
  /\ 1 \in TruthSet[formula]
  /\ Answer("pass", FinalAssurance, "proved", FALSE, 0)
  /\ Rest /\ UNCHANGED walk

BeginWalk ==
  /\ Evaluating /\ ~Unevaluable[formula]
  /\ 1 \notin TruthSet[formula]
  /\ walk' = [at |-> 1, f |-> formula]
  /\ Rest /\ UNCHANGED <<pc, outcome>>

(* Mutant: the first child, failing or not.                                *)
FirstChild(i, S) == {edges[i][k] : k \in DOMAIN edges[i] \cap {1}}

(* The first child outside S, the one find() returns.                      *)
FirstOutside(i, S) ==
  LET outside == {k \in DOMAIN edges[i] : edges[i][k] \notin S}
  IN  {edges[i][k] : k \in {k \in outside : \A j \in outside : k <= j}}

(* The operand the failure lies in here, if it lies in the node itself.    *)
Inward(f, i) ==
  CASE f.op = "always" /\ i \notin TruthSet[f.arg] -> {f.arg}
    [] f.op = "until" /\ i \notin TruthSet[f.right] /\ i \notin TruthSet[f.left] -> {f.left}
    [] OTHER -> {}

(* The child the walk goes to, and the formula it looks for there.         *)
Onward(f, i) ==
  CASE f.op = "always"                                  -> FirstOutside(i, TruthSet[f])
    [] f.op = "eventually" /\ i \notin TruthSet[f.arg]  -> FirstOutside(i, TruthSet[f])
    [] f.op = "until" /\ i \notin TruthSet[f.right]     -> FirstOutside(i, TruthSet[f])
    [] f.op = "next"                                    -> FirstOutside(i, TruthSet[f.arg])
    [] OTHER -> {}

Walking == pc = "temporal" /\ walk.at # 0

Descend ==
  /\ Walking
  /\ \E g \in Inward(walk.f, walk.at) : walk' = [walk EXCEPT !.f = g]
  /\ Rest /\ UNCHANGED <<pc, outcome>>

(* At a child, next looks for a failure of its operand, and so does always *)
(* (the recursive call names the operand, which shadows the formula); the  *)
(* other two look for a failure of the whole formula.                      *)
Carried(f) == IF f.op \in {"next", "always"} THEN f.arg ELSE f

Follow ==
  /\ Walking
  /\ Inward(walk.f, walk.at) = {}
  /\ \E child \in Onward(walk.f, walk.at) \ {walk.at} :
       walk' = [at |-> child, f |-> Carried(walk.f)]
  /\ Rest /\ UNCHANGED <<pc, outcome>>

(* Nowhere to go, or the child is the node itself.                         *)
ReportTemporal ==
  /\ Walking
  /\ Inward(walk.f, walk.at) = {}
  /\ Onward(walk.f, walk.at) \subseteq {walk.at}
  /\ Answer("fail", EarlyAssurance, "temporal", FALSE, walk.at)
  /\ Rest /\ UNCHANGED walk

TemporalStep ==
  \/ FailTemporalEvaluation \/ ProveTemporal \/ BeginWalk
  \/ Descend \/ Follow \/ ReportTemporal

TNext ==
  \/ Next /\ UNCHANGED <<formula, walk>>
  \/ TemporalStep

TSpec == TInit /\ [][TNext]_tvars

TFairSpec == TSpec /\ WF_tvars((SearchStep /\ UNCHANGED <<formula, walk>>) \/ TemporalStep)

-------------------------------------------------------------------------------
(* On the whole reachable graph the computed truth sets are the meaning of *)
(* every formula, nested operators and states without successors included. *)
TruthSetIsMeaning ==
  pc = "temporal" /\ ~cut =>
    \A f \in Formulas :
      {nodes[i].state : i \in TruthSet[f]} = Meaning(model, Formulas)[f] \cap Reachable(model)

(* The verdict of an unbounded run is the meaning of the formula in the    *)
(* initial state, and there is one only if the formula has a meaning       *)
(* throughout.                                                             *)
TemporalVerdictCorrect ==
  pc = "done" /\ ~cut =>
    LET holds == model.init \in Meaning(model, Formulas)[formula]
    IN  /\ outcome.reason = "proved" => holds
        /\ outcome.reason = "temporal" => ~holds
        /\ outcome.reason \in {"proved", "temporal"} =>
             ~NoValue(Reachable(model), Formulas)[formula]

(* A bounded breadth-first pass of `always` over a state formula speaks for*)
(* every state within max_depth.                                           *)
BoundedAlwaysCoversDepth ==
  outcome.reason = "proved" /\ formula.op = "always" /\ formula.arg.op = "state"
    /\ plan.strategy = "bfs" =>
      \A d \in plan.max_depth : Within(model, d) \subseteq formula.arg.holds

(* The walk for f may go on from an always, and then carries the operand,  *)
(* which need not fail where it goes.                                      *)
Strays ==
  LET may[f \in Formulas] ==
        \/ f.op = "always"
        \/ f.op = "next" /\ may[f.arg]
        \/ f.op = "until" /\ may[f.left]
  IN  may

(* Unless it may stray, the walk is at a node where the formula it carries *)
(* fails: what it reports is a failure of what was asked.                  *)
WalkStaysInFailure ==
  pc = "temporal" /\ walk.at # 0 /\ ~Strays[formula] => walk.at \notin TruthSet[walk.f]

(* Both: the verdict is right, and the failure is shown where it is.       *)
TemporalVerdictLocated == TemporalVerdictCorrect /\ WalkStaysInFailure

(* The walk, and so the run, ends.                                         *)
TTerminates == <>(pc = "done")
================================================================================
