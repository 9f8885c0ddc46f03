--------------------------- MODULE TransitionSystem ---------------------------
(***************************************************************************)
(* The finite transition system every backend of `valid` works on: a       *)
(* lowered model (ModelIr) reduced to its initial state and, for each      *)
(* state and action, what kernel::transition answers.  Expressions are     *)
(* abstracted to the states (or steps) on which they evaluate to true;     *)
(* actions are numbered in the order of model.actions, the order in which  *)
(* every engine tries them.                                                *)
(***************************************************************************)
EXTENDS Integers, Sequences, FiniteSets

CONSTANTS
  States,      \* the values a MachineState can take
  NumActions,  \* model.actions.len()
  Disabled,    \* Ok(None): the guard is false
  Fault        \* Err(_): guard or update cannot be evaluated, or leaves its type

ASSUME StatesAssumption ==
  /\ Disabled \notin States
  /\ Fault \notin States
  /\ Disabled # Fault

ASSUME ActionsAssumption == NumActions \in Nat

Actions == 1..NumActions

(* A model as the kernel shows it to an engine.                            *)
ModelType ==
  [init : States, step : [States -> [Actions -> States \cup {Disabled, Fault}]]]

(* apply_action_transition.                                                *)
ApplyAction(m, s, a) == m.step[s][a]

Enabled(m, s, a) == ApplyAction(m, s, a) \in States

Successors(m, s) == {ApplyAction(m, s, a) : a \in Actions} \cap States

(* A state in which no action has a successor.                             *)
Deadlocked(m, s) == \A a \in Actions : ApplyAction(m, s, a) = Disabled

(* C contains the initial state and every step from C stays in C.          *)
Closed(m, C) == m.init \in C /\ \A s \in C : Successors(m, s) \subseteq C

(* The least such set: what any number of steps can reach.  Stated without *)
(* recursion so that it can be reasoned about for every set of states.     *)
Reachable(m) == {s \in States : \A C \in SUBSET States : Closed(m, C) => s \in C}

(* The states within k steps of the initial state.                         *)
Within(m, k) ==
  LET ring[n \in 0..k] ==
        IF n = 0 THEN {m.init}
        ELSE ring[n - 1] \cup UNION {Successors(m, s) : s \in ring[n - 1]}
  IN  ring[k]

-------------------------------------------------------------------------------
(* What a run asks: a property together with the scenario the plan         *)
(* selects.  An optional value is a set with at most one element.          *)
(*   holds     the states on which property.expr is true                   *)
(*   stepHolds the steps on which it is true, for a transition property    *)
(*   stepFaulty  those on which it, or its scope, cannot be evaluated      *)
(*   on        the transitions whose action id is property.action_filter   *)
(*   scope     property.scope: a set of states, or of steps for a          *)
(*             transition property (its `when:` is lowered over prev_/next_)*)
(*   scenario  the states on which the selected scenario is true           *)
(*   faulty    the states on which one of these cannot be evaluated        *)
Kinds == {"invariant", "reachability", "cover", "deadlock_freedom",
          "transition", "temporal"}

Optional(S) == {o \in SUBSET S : \A x, y \in o : x = y}

QueryType ==
  [kind : Kinds, holds : SUBSET States, stepHolds : SUBSET (States \X States),
   stepFaulty : SUBSET (States \X States), on : SUBSET Actions,
   scope : Optional(SUBSET States) \cup Optional(SUBSET (States \X States)),
   scenario : Optional(SUBSET States), faulty : SUBSET States]

Strategies == {"bfs", "dfs"}

(* RunPlan; timed: time_limit_ms is given.                                 *)
PlanType ==
  [strategy : Strategies, max_depth : Optional(Nat), max_states : Optional(Nat),
   timed : BOOLEAN]

(* The filter is on: some states are outside what the run asks about.      *)
Filtered(q) == q.scenario # {} \/ q.scope # {}

InScenario(q, s) == \A S \in q.scenario : s \in S

(* scoped_state_matches, where it has a value: see MatchFaults.            *)
Matches(q, s) == InScenario(q, s) /\ \A S \in q.scope : s \in S

(* The scope of a transition property speaks of prev_ and next_ fields,    *)
(* which a single state does not have; the scenario is evaluated first.    *)
ScopeUndefined(q, s) == q.kind = "transition" /\ q.scope # {} /\ InScenario(q, s)

(* Mutant: a transition property's scope is not evaluated on states.       *)
MatchFaultsWithoutScope(q, s) == s \in q.faulty

MatchFaults(q, s) == s \in q.faulty \/ ScopeUndefined(q, s)

(* transition_in_scope, where it has a value: see StepFaults.              *)
StepInScope(q, s, a, t) ==
  /\ q.kind = "transition"
  /\ a \in q.on
  /\ InScenario(q, s)
  /\ \A S \in q.scope : <<s, t>> \in S

(* The step is looked at, and its scope or the property has no value on it.*)
StepFaults(q, s, a, t) ==
  q.kind = "transition" /\ a \in q.on /\ InScenario(q, s) /\ <<s, t>> \in q.stepFaulty

(* property_triggered on a state that matches.                             *)
Triggered(q, s) ==
  \/ q.kind = "invariant" /\ s \notin q.holds
  \/ q.kind \in {"reachability", "cover"} /\ s \in q.holds

(* The step breaks the transition property.                                *)
StepViolates(q, s, a, t) ==
  /\ StepInScope(q, s, a, t)
  /\ ~StepFaults(q, s, a, t)
  /\ <<s, t>> \notin q.stepHolds

(* The state is objectionable, or for a cover a witness: by itself, by     *)
(* being stuck, or by one of its steps.                                    *)
Decides(m, q, s) ==
  \/ Matches(q, s) /\ Triggered(q, s)
  \/ q.kind = "deadlock_freedom" /\ Matches(q, s) /\ Deadlocked(m, s)
  \/ \E a \in Actions : Enabled(m, s, a) /\ StepViolates(q, s, a, ApplyAction(m, s, a))

DecidingStates(m, q) == {s \in Reachable(m) : Decides(m, q, s)}

(* Something that has to be evaluated at the state has no value: what is   *)
(* asked of the state itself, an action, or what is asked of one of its    *)
(* steps.                                                                  *)
Faulty(m, q, s) ==
  \/ s \in q.faulty
  \/ ScopeUndefined(q, s)
  \/ \E a \in Actions : ApplyAction(m, s, a) = Fault
  \/ \E a \in Actions : Enabled(m, s, a) /\ StepFaults(q, s, a, ApplyAction(m, s, a))
===============================================================================
