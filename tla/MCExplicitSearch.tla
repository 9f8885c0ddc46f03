--------------------------- MODULE MCExplicitSearch ---------------------------
(* Instances of ExplicitSearch for TLC.                                    *)
EXTENDS ExplicitSearchInvariant, TLC

CONSTANTS a, b, c, d, e

Three == {a, b, c}
Five == {a, b, c, d, e}

(* All states are Five; a model over Three never gets to the others.       *)
Stuck == [i \in Actions |-> Disabled]
Model(step) ==
  [init |-> a, step |-> [s \in Five |-> IF s \in DOMAIN step THEN step[s] ELSE Stuck]]

StateQuery(k, holds) ==
  [kind |-> k, holds |-> holds, stepHolds |-> {}, stepFaulty |-> {}, on |-> {}, scope |-> {},
   scenario |-> {}, faulty |-> {}]

Plan(strategy, depth, states, timed) ==
  [strategy |-> strategy, max_depth |-> depth, max_states |-> states, timed |-> timed]

Asking(models, queries, plans) == [model : models, query : queries, plan : plans]

(* Every model over three states and two actions that may be disabled, but *)
(* that c has one successor at most.                                       *)
BranchingModels ==
  {Model(t) : t \in {u \in [Three -> [Actions -> Three \cup {Disabled}]] : u[c][2] = Disabled}}

PlainQueries ==
  {StateQuery("invariant", {a, b, d, e}), StateQuery("cover", {c}),
   StateQuery("deadlock_freedom", {})}

PlainPlans ==
  {Plan("bfs", {}, {}, FALSE), Plan("dfs", {}, {2}, FALSE), Plan("bfs", {1}, {2}, FALSE),
   Plan("dfs", {1}, {}, FALSE)}

-------------------------------------------------------------------------------
(* Models whose first action may fault and whose second leads to c or is   *)
(* disabled, asked every kind of question, filtered and unfiltered, under  *)
(* clocks and limits.                                                      *)
FaultyModels ==
  {Model(t) : t \in {u \in [Three -> [Actions -> Three \cup {Disabled, Fault}]] :
                      u[c][2] = Disabled /\ \A s \in {a, b} : u[s][2] \in {Disabled, c}}}

FilteredQueries ==
  {[StateQuery("invariant", {a, b}) EXCEPT !.scenario = {{a, b}}],
   [StateQuery("invariant", {a}) EXCEPT !.scope = {{b}}, !.scenario = {{b, c}}],
   [StateQuery("reachability", {c}) EXCEPT !.faulty = {b}],
   [StateQuery("cover", {b}) EXCEPT !.scope = {{c}}],
   [StateQuery("deadlock_freedom", {}) EXCEPT !.scenario = {{c}}]}

StepQuery(scope, scenario) ==
  [StateQuery("transition", {}) EXCEPT
     !.on = {1}, !.stepHolds = Three \X {a, b}, !.scope = scope, !.scenario = scenario]

StepQueries ==
  {StepQuery({}, {}), StepQuery({}, {{b}}), StepQuery({{b} \X Three}, {{b}}),
   [StepQuery({}, {}) EXCEPT !.on = Actions, !.stepFaulty = {<<a, b>>, <<b, c>>}]}

TimedPlans ==
  {Plan("bfs", {}, {2}, TRUE), Plan("dfs", {1}, {1}, TRUE), Plan("bfs", {1}, {}, FALSE)}

AskedQueries == FilteredQueries \cup StepQueries \cup {StateQuery("temporal", {})}

-------------------------------------------------------------------------------
(* d and e lie beyond b and c, every way that leads onward.                *)
Row(x, y) == [i \in Actions |-> IF i = 1 THEN x ELSE y]

Ladders ==
  {Model(a :> Row(b, c) @@ b :> Row(x, v) @@ c :> Row(y, w) @@ d :> Row(z, Disabled)) :
     x, y \in {d, e}, v, w \in {c, Disabled, b}, z \in {e, Disabled}}

LadderQueries == {StateQuery("invariant", Five \ {h}) : h \in {c, d, e}}
                   \cup {StateQuery("deadlock_freedom", {})}
LadderPlans == {Plan(s, depth, {}, FALSE) : s \in Strategies, depth \in {{}, {2}}}

AllInputs ==
  Asking(BranchingModels, PlainQueries, PlainPlans)
    \cup Asking(FaultyModels, AskedQueries, TimedPlans)
    \cup Asking(Ladders, LadderQueries, LadderPlans)

===============================================================================
