--------------------------- MODULE DistinguishSearch ---------------------------
(***************************************************************************)
(* distinguish::find_distinguishing_trace: a breadth-first search through  *)
(* the states two candidate models share, for the first action on which    *)
(* they part.  States of the two models are compared by their named maps,  *)
(* so that both sides use one set of States; a node of the search is a     *)
(* state in which both models are after the same actions.                  *)
(***************************************************************************)
EXTENDS TransitionSystem

CONSTANTS
  NumIds,  \* collect_action_ids().len()
  Inputs   \* what is compared: see InputType

(* Action ids are numbered in the order of collect_action_ids.             *)
Ids == 1..NumIds

(* A side is a model, its transitions' ids and a property.                 *)
(* property: the states on which it holds, if one was asked for;           *)
(* unevaluable: those on which it has no Boolean value.                    *)
SideType ==
  [model : ModelType, names : [Actions -> Ids], property : Optional(SUBSET States),
   unevaluable : SUBSET States]

InputType == [left : SideType, right : SideType, max_depth : Nat]

ASSUME DistinguishAssumption ==
  /\ NumIds \in Nat
  /\ Inputs \subseteq InputType

VARIABLES
  left, right, max_depth,  \* the arguments
  queue,    \* the nodes to expand: a state and the steps that led to it
  visited,  \* the states that were queued
  next,     \* the action id the head of the queue is about to try
  pc, result

arguments == <<left, right, max_depth>>
vars == <<arguments, queue, visited, next, pc, result>>

NodeType == [state : States, trace : Seq([id : Ids, state : States])]

(* A DistinguishingTrace: the shared steps, and where each side is after   *)
(* the last action, which is none for a comparison of initial states.      *)
Trace(kind, shared, id, l, r) ==
  [kind |-> kind, shared |-> shared, id |-> id, left |-> l, right |-> r]

Pending == [kind |-> "pending"]

Init ==
  /\ \E i \in Inputs : left = i.left /\ right = i.right /\ max_depth = i.max_depth
  /\ queue = <<>> /\ visited = {} /\ next = 1
  /\ pc = "start"
  /\ result = Pending

Return(r) ==
  /\ result' = r
  /\ pc' = "done"
  /\ UNCHANGED <<arguments, queue, visited, next>>

-------------------------------------------------------------------------------
(* eval_property: whether each side that has a property satisfies it.      *)
Evaluates(side, s) == side.property = {} \/ s \notin side.unevaluable
Satisfies(side, s) == \A holds \in side.property : s \in holds

(* property_diverges: both sides have one, and they disagree.              *)
PropertyDiverges(s) ==
  /\ left.property # {} /\ right.property # {}
  /\ Satisfies(left, s) # Satisfies(right, s)

(* collect_variants: what the transitions of this id lead to.              *)
Answers(side, s, id) == {ApplyAction(side.model, s, a) : a \in {b \in Actions : side.names[b] = id}}
Variants(side, s, id) == Answers(side, s, id) \cap States
Collects(side, s, id) ==
  /\ Fault \notin Answers(side, s, id)
  /\ \A t \in Variants(side, s, id) : Evaluates(side, t)

-------------------------------------------------------------------------------
(* Before the search: the initial states, then the properties there.       *)
FailInitial ==
  /\ pc = "start"
  /\ ~(Evaluates(left, left.model.init) /\ Evaluates(right, right.model.init))
  /\ Return([kind |-> "error"])

Comparable ==
  /\ pc = "start"
  /\ Evaluates(left, left.model.init) /\ Evaluates(right, right.model.init)

DivergeInitially ==
  /\ Comparable
  /\ left.model.init # right.model.init
  /\ Return(Trace("initial_state", <<>>, 0, left.model.init, right.model.init))

DisagreeInitially ==
  /\ Comparable
  /\ left.model.init = right.model.init
  /\ PropertyDiverges(left.model.init)
  /\ Return(Trace("property_value", <<>>, 0, left.model.init, right.model.init))

Begin ==
  /\ Comparable
  /\ left.model.init = right.model.init
  /\ ~PropertyDiverges(left.model.init)
  /\ queue' = <<[state |-> left.model.init, trace |-> <<>>]>>
  /\ visited' = {left.model.init}
  /\ pc' = "node"
  /\ UNCHANGED <<arguments, next, result>>

-------------------------------------------------------------------------------
Node == Head(queue)
Depth == Len(Node.trace)

(* Mutant: the bound counts states rather than actions.                    *)
AtBoundOfStates == Depth + 1 >= max_depth

(* A node at the bound is dropped.                                         *)
AtBound == Depth >= max_depth

DropNode ==
  /\ pc = "node" /\ queue # <<>>
  /\ AtBound
  /\ queue' = Tail(queue)
  /\ UNCHANGED <<arguments, visited, next, pc, result>>

PopNode ==
  /\ pc = "node" /\ queue # <<>>
  /\ ~AtBound
  /\ next' = 1
  /\ pc' = "action"
  /\ UNCHANGED <<arguments, queue, visited, result>>

FindNothing ==
  /\ pc = "node" /\ queue = <<>>
  /\ Return([kind |-> "none"])

L == Variants(left, Node.state, next)
R == Variants(right, Node.state, next)

Compared ==
  /\ pc = "action" /\ next \in Ids
  /\ Collects(left, Node.state, next) /\ Collects(right, Node.state, next)

FailVariant ==
  /\ pc = "action" /\ next \in Ids
  /\ ~(Collects(left, Node.state, next) /\ Collects(right, Node.state, next))
  /\ Return([kind |-> "error"])

(* Enabled on one side only; the other side stays where it is.             *)
DivergeAvailability ==
  /\ Compared
  /\ (L = {}) # (R = {})
  /\ \E l \in IF L = {} THEN {Node.state} ELSE L, r \in IF R = {} THEN {Node.state} ELSE R :
       Return(Trace("action_availability", Node.trace, next, l, r))

(* Mutant: any successor.                                                  *)
AnyChoice(mine, other) == mine

(* Enabled on both, with different successors: one that the other side     *)
(* lacks, or where there is none any of them.                              *)
Choices(mine, other) == IF mine \subseteq other THEN mine ELSE mine \ other

DivergeTransition ==
  /\ Compared
  /\ L # {} /\ R # {} /\ L # R
  /\ \E l \in Choices(L, R), r \in Choices(R, L) :
       Return(Trace("state_transition", Node.trace, next, l, r))

(* The same successors, on one of which the properties disagree.           *)
DivergeProperty ==
  /\ Compared
  /\ L = R
  /\ \E t \in L : PropertyDiverges(t) /\ Return(Trace("property_value", Node.trace, next, t, t))

Lists(S) == {f \in [1..Cardinality(S) -> S] : \A i, j \in DOMAIN f : f[i] = f[j] => i = j}

Child(t) == [state |-> t, trace |-> Append(Node.trace, [id |-> next, state |-> t])]

(* Mutant: new nodes go right behind the one being expanded.               *)
EnqueuedFirst(new) ==
  <<Node>> \o [i \in DOMAIN new |-> Child(new[i])] \o Tail(queue)

(* New nodes join the queue's end, in the order of their keys.             *)
Enqueued(new) == queue \o [i \in DOMAIN new |-> Child(new[i])]

Fresh(S) == S \ visited

Share ==
  /\ Compared
  /\ L = R
  /\ \A t \in L : ~PropertyDiverges(t)
  /\ \E new \in Lists(Fresh(L)) : queue' = Enqueued(new)
  /\ visited' = visited \cup L
  /\ next' = next + 1
  /\ UNCHANGED <<arguments, pc, result>>

(* Mutant: the node is looked at and not taken off.                        *)
FinishKeeping ==
  /\ pc = "action" /\ next \notin Ids
  /\ pc' = "node"
  /\ UNCHANGED <<arguments, queue, visited, next, result>>

FinishNode ==
  /\ pc = "action" /\ next \notin Ids
  /\ queue' = Tail(queue)
  /\ pc' = "node"
  /\ UNCHANGED <<arguments, visited, next, result>>

Next ==
  \/ FailInitial \/ DivergeInitially \/ DisagreeInitially \/ Begin
  \/ DropNode \/ PopNode \/ FindNothing
  \/ FailVariant \/ DivergeAvailability \/ DivergeTransition \/ DivergeProperty
  \/ Share \/ FinishNode

Spec == Init /\ [][Next]_vars
FairSpec == Spec /\ WF_vars(Next)

-------------------------------------------------------------------------------
(* What it is for two models to part at a state they share: on the         *)
(* availability of an action, on where it leads, or on the property there. *)
PartAt(s) ==
  \E id \in Ids :
    \/ Variants(left, s, id) # Variants(right, s, id)
    \/ \E t \in Variants(left, s, id) : PropertyDiverges(t)

(* What fewer than k shared actions lead to, as long as nothing parts.     *)
SharedBefore(k) == IF k = 0 THEN {} ELSE Within(left.model, k - 1)

PartInitially ==
  left.model.init # right.model.init \/ PropertyDiverges(left.model.init)

Found == result.kind \in {"initial_state", "action_availability", "state_transition", "property_value"}

(* review-workflow.md: the divergence found is one of the shortest.  The   *)
(* models agree on everything that fewer actions lead to, although the     *)
(* search visits every state once and compares sets of variants.           *)
ShortestDivergence ==
  Found /\ result.id # 0 =>
    /\ ~PartInitially
    /\ \A s \in SharedBefore(Len(result.shared)) : ~PartAt(s)

(* The shared prefix is a run of both models, and what the last checkpoint *)
(* shows can be seen: two different states, or a disabled action, or one   *)
(* state on which the properties disagree.                                 *)
TraceIsReplayable ==
  Found /\ result.id # 0 =>
    LET at[i \in 0..Len(result.shared)] == IF i = 0 THEN left.model.init ELSE result.shared[i].state
        last == at[Len(result.shared)]
    IN
    /\ \A side \in {left, right} :
         \A i \in 1..Len(result.shared) :
           at[i] \in Variants(side, at[i - 1], result.shared[i].id)
    /\ CASE result.kind = "action_availability" ->
              (Variants(left, last, result.id) = {}) # (Variants(right, last, result.id) = {})
         [] result.kind = "state_transition" ->
              /\ result.left # result.right
              /\ result.left \in Variants(left, last, result.id)
              /\ result.right \in Variants(right, last, result.id)
         [] result.kind = "property_value" ->
              result.left = result.right /\ PropertyDiverges(result.left)

(* Both: the divergence can be seen, and not sooner.                       *)
DivergenceIsShortest == TraceIsReplayable /\ ShortestDivergence

(* "No distinguishing trace found within depth n" means that the models    *)
(* agree on all runs of up to n actions, errors included.                  *)
NothingMeansAgreement ==
  result.kind = "none" =>
    /\ ~PartInitially
    /\ \A s \in SharedBefore(max_depth) :
         ~PartAt(s) /\ \A id \in Ids : Collects(left, s, id) /\ Collects(right, s, id)

(* The comparison comes to an end.                                         *)
Compares == <>(pc = "done")
================================================================================
