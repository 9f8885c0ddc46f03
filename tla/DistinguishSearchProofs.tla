------------------------ MODULE DistinguishSearchProofs ------------------------
(***************************************************************************)
(* For any two models, properties and bound, a reported divergence can be  *)
(* replayed and is one of the shortest, and finding nothing means that the *)
(* models agree on everything within the bound.                            *)
(***************************************************************************)
EXTENDS DistinguishSearch, TransitionSystemProofs, FiniteSetTheorems, TLAPS

(* Where both models are after i steps of a trace.                         *)
At(trace, i) == IF i = 0 THEN left.model.init ELSE trace[i].state

IsRun(trace) ==
  \A side \in {left, right} : \A i \in 1..Len(trace) :
    At(trace, i) \in Variants(side, At(trace, i - 1), trace[i].id)

(* A node is where the run of both models that its trace is has led.       *)
IsNode(n) ==
  n \in NodeType /\ IsRun(n.trace) /\ n.state = At(n.trace, Len(n.trace))

(* Everything in the queue is such a node, and the one in hand its head.   *)
QueueInv ==
  /\ queue \in Seq(NodeType) /\ \A k \in 1..Len(queue) : IsNode(queue[k])
  /\ next \in Nat /\ left.model.init \in States
  /\ pc \in {"start", "node", "action", "done"}
  /\ pc = "action" => queue # <<>>

(* Nothing is answered before the end, and the end can be replayed.        *)
ResultInv == (pc # "done" => result = Pending) /\ TraceIsReplayable

ReplayInv == QueueInv /\ ResultInv

-------------------------------------------------------------------------------
(* Nothing is queued before the initial states have been compared.         *)
LEMMA InitReplay == Init => ReplayInv
<1> SUFFICES ASSUME Init PROVE ReplayInv
  OBVIOUS
<1>1. /\ queue = <<>> /\ next = 1 /\ pc = "start" /\ result = Pending
      /\ left.model.init \in States
  BY DistinguishAssumption DEF Init, InputType, SideType, ModelType
<1> QED BY <1>1 DEF ReplayInv, QueueInv, ResultInv, TraceIsReplayable, Found, Pending

(* Only finitely many states can follow.                                   *)
LEMMA VariantsFinite ==
  ASSUME NEW side, NEW s, NEW id
  PROVE  IsFiniteSet(Variants(side, s, id))
<1> DEFINE acts == {x \in Actions : side.names[x] = id}
           all == {ApplyAction(side.model, s, x) : x \in acts}
<1>1. IsFiniteSet(Actions)
  BY ActionsAssumption, FS_Interval DEF Actions
<1>2. IsFiniteSet(acts)
  BY <1>1, FS_Subset
<1>3. Variants(side, s, id) \subseteq all
  BY DEF Variants, Answers
<1> HIDE DEF acts
<1>4. [x \in acts |-> ApplyAction(side.model, s, x)] \in Surjection(acts, all)
  BY DEF Surjection
<1>5. IsFiniteSet(all)
  BY <1>2, <1>4, FS_Surjection
<1> HIDE DEF all
<1> QED BY <1>3, <1>5, FS_Subset

(* The head of the queue, as the node in hand.                             *)
LEMMA HeadIsNode ==
  ASSUME QueueInv, queue # <<>>
  PROVE  /\ IsNode(Node) /\ Node.trace \in Seq([id : Ids, state : States]) /\ Node.state \in States
         /\ Tail(queue) \in Seq(NodeType) /\ \A k \in 1..Len(Tail(queue)) : IsNode(Tail(queue)[k])
<1>1. /\ queue \in Seq(NodeType) /\ Len(queue) \in Nat \ {0}
      /\ \A k \in 1..Len(queue) : IsNode(queue[k])
  BY DEF QueueInv
<1>2. Node = queue[1] /\ 1 \in 1..Len(queue)
  BY <1>1 DEF Node
<1>3. /\ Tail(queue) \in Seq(NodeType) /\ Len(Tail(queue)) = Len(queue) - 1
      /\ \A k \in 1..Len(Tail(queue)) : Tail(queue)[k] = queue[k + 1] /\ k + 1 \in 1..Len(queue)
  BY <1>1
<1> QED BY <1>1, <1>2, <1>3 DEF IsNode, NodeType

(* A step that both models take leads on to a node.                        *)
LEMMA ChildIsNode ==
  ASSUME QueueInv, queue # <<>>, next \in Ids, L = R, NEW t \in L
  PROVE  IsNode(Child(t))
<1> DEFINE tr == Node.trace
           n == Len(tr)
           step == [id |-> next, state |-> t]
           longer == Append(tr, step)
<1>1. IsNode(Node) /\ tr \in Seq([id : Ids, state : States]) /\ n \in Nat
  BY HeadIsNode
<1>2. t \in Variants(left, Node.state, next) /\ t \in Variants(right, Node.state, next) /\ t \in States
  BY DEF L, R, Variants
<1>3. /\ longer \in Seq([id : Ids, state : States]) /\ Len(longer) = n + 1
      /\ longer[n + 1] = step /\ \A i \in 1..n : longer[i] = tr[i]
  BY <1>1, <1>2
<1> HIDE DEF longer
<1>4. Child(t) = [state |-> t, trace |-> longer]
  BY DEF Child, longer
<1>5. Child(t) \in NodeType
  BY <1>2, <1>3, <1>4 DEF NodeType
<1>6. \A i \in 0..n : At(longer, i) = At(tr, i)
  BY <1>1, <1>3 DEF At
<1>7. At(longer, n + 1) = t /\ Node.state = At(longer, n)
  BY <1>1, <1>3, <1>6 DEF At, IsNode
<1>8. ASSUME NEW side \in {left, right}, NEW i \in 1..(n + 1)
      PROVE  At(longer, i) \in Variants(side, At(longer, i - 1), longer[i].id)
  <2>1. CASE i = n + 1
    BY <1>1, <1>2, <1>3, <1>7, <2>1
  <2>2. CASE i \in 1..n
    <3>1. At(tr, i) \in Variants(side, At(tr, i - 1), tr[i].id)
      BY <1>1, <2>2 DEF IsNode, IsRun
    <3> QED BY <1>1, <1>3, <1>6, <2>2, <3>1
  <2> QED BY <1>1, <2>1, <2>2
<1>9. IsRun(longer)
  BY <1>3, <1>8 DEF IsRun
<1> QED BY <1>3, <1>4, <1>5, <1>7, <1>9 DEF IsNode

(* A node is one as long as the same models are compared.                  *)
LEMMA SameModels ==
  ASSUME UNCHANGED <<left, right>>, NEW n, IsNode(n)
  PROVE  IsNode(n)'
<1>1. \A trace, i : At(trace, i)' = At(trace, i)
  BY DEF At
<1>2. ASSUME NEW side \in {left', right'}, NEW i \in 1..Len(n.trace)
      PROVE  At(n.trace, i)' \in Variants(side, At(n.trace, i - 1)', n.trace[i].id)
  BY <1>1, <1>2 DEF IsNode, IsRun
<1>3. IsRun(n.trace)'
  BY <1>2 DEF IsRun
<1> QED BY <1>1, <1>3 DEF IsNode

(* A list of a finite set misses none of its members.                      *)
LEMMA ListsCover ==
  ASSUME NEW S, IsFiniteSet(S), NEW f \in Lists(S)
  PROVE  /\ Cardinality(S) \in Nat /\ DOMAIN f = 1..Cardinality(S)
         /\ \A i \in DOMAIN f : f[i] \in S
         /\ \A t \in S : \E i \in DOMAIN f : f[i] = t
<1>1. Cardinality(S) \in Nat
  BY FS_CardinalityType
<1> DEFINE I == 1..Cardinality(S)
<1>2. f \in [I -> S] /\ \A i, j \in I : f[i] = f[j] => i = j
  BY DEF Lists
<1>3. IsFiniteSet(I) /\ Cardinality(I) = Cardinality(S)
  BY <1>1, FS_Interval
<1>4. f \in Injection(I, S)
  BY <1>2 DEF Injection, IsInjective
<1>5. f \in Surjection(I, S)
  BY <1>3, <1>4, FS_Injection
<1> QED BY <1>1, <1>2, <1>5 DEF Surjection

(* Enqueued appends a node for each new state.                             *)
LEMMA ShareFacts ==
  ASSUME QueueInv, Share
  PROVE  /\ pc = "action" /\ next \in Ids /\ L = R /\ queue # <<>> /\ next' = next + 1
         /\ UNCHANGED <<left, right, max_depth, pc, result>>
         /\ queue' \in Seq(NodeType) /\ Len(queue) <= Len(queue')
         /\ \A k \in 1..Len(queue) : queue'[k] = queue[k]
         /\ \A k \in 1..Len(queue') : k \in 1..Len(queue) \/ \E t \in Fresh(L) : queue'[k] = Child(t)
         /\ \A t \in Fresh(L) : \E k \in 1..Len(queue') : queue'[k] = Child(t)
<1>1. pc = "action" /\ next \in Ids /\ L = R /\ queue # <<>> /\ queue \in Seq(NodeType)
  BY DEF Share, Compared, QueueInv
<1>2. PICK new \in Lists(Fresh(L)) : queue' = Enqueued(new)
  BY DEF Share
<1>3. IsFiniteSet(Fresh(L)) /\ Fresh(L) \subseteq L
  BY VariantsFinite, FS_Subset DEF L, Fresh
<1>4. /\ Cardinality(Fresh(L)) \in Nat /\ DOMAIN new = 1..Cardinality(Fresh(L))
      /\ \A i \in DOMAIN new : new[i] \in Fresh(L)
      /\ \A t \in Fresh(L) : \E i \in DOMAIN new : new[i] = t
  BY <1>3, ListsCover
<1> DEFINE more == [i \in DOMAIN new |-> Child(new[i])]
<1>5. \A i \in DOMAIN new : Child(new[i]) \in NodeType
  BY <1>1, <1>3, <1>4, ChildIsNode DEF IsNode
<1>6. /\ more \in Seq(NodeType) /\ Len(more) \in Nat /\ DOMAIN new = 1..Len(more)
      /\ \A i \in 1..Len(more) : more[i] = Child(new[i])
  BY <1>4, <1>5
<1>7. queue' = queue \o more
  BY <1>2 DEF Enqueued
<1> HIDE DEF more
<1>8. /\ queue' \in Seq(NodeType) /\ Len(queue') = Len(queue) + Len(more) /\ Len(queue) \in Nat
      /\ \A k \in 1..Len(queue) : queue'[k] = queue[k]
      /\ \A k \in 1..Len(more) : queue'[Len(queue) + k] = more[k]
  BY <1>1, <1>6, <1>7
<1>9. ASSUME NEW k \in 1..Len(queue'), k \notin 1..Len(queue)
      PROVE  \E t \in Fresh(L) : queue'[k] = Child(t)
  <2>1. k - Len(queue) \in 1..Len(more) /\ k = Len(queue) + (k - Len(queue))
    BY <1>6, <1>8, <1>9
  <2>2. queue'[k] = more[k - Len(queue)]
    BY <1>8, <2>1
  <2> QED BY <1>4, <1>6, <2>1, <2>2
<1>10. ASSUME NEW t \in Fresh(L) PROVE \E k \in 1..Len(queue') : queue'[k] = Child(t)
  <2> PICK i \in DOMAIN new : new[i] = t
    BY <1>4
  <2>1. Len(queue) + i \in 1..Len(queue') /\ queue'[Len(queue) + i] = Child(t)
    BY <1>6, <1>8
  <2> QED BY <2>1
<1>11. Len(queue) <= Len(queue')
  BY <1>6, <1>8
<1>12. UNCHANGED <<left, right, max_depth, pc, result>> /\ next' = next + 1
  BY DEF Share, arguments
<1> QED BY <1>1, <1>8, <1>9, <1>10, <1>11, <1>12

(* They are nodes as well.                                                 *)
LEMMA ShareKeeps == ASSUME QueueInv, Share PROVE QueueInv'
<1>1. /\ queue' \in Seq(NodeType) /\ UNCHANGED <<left, right, pc>> /\ next' = next + 1 /\ queue # <<>>
      /\ Len(queue) <= Len(queue') /\ pc = "action"
  BY ShareFacts
<1>2. \A k \in 1..Len(queue') : IsNode(queue'[k])
  <2>1. \A t \in Fresh(L) : IsNode(Child(t))
    BY ShareFacts, ChildIsNode DEF Fresh
  <2> QED BY <2>1, ShareFacts DEF QueueInv
<1>3. queue' # <<>>
  BY <1>1 DEF QueueInv
<1> QED BY <1>1, <1>2, <1>3, SameModels DEF QueueInv

(* The other steps take the head off, look at it, or answer.               *)
LEMMA QueueStep == QueueInv /\ [Next]_vars => QueueInv'
<1> SUFFICES ASSUME QueueInv, [Next]_vars PROVE QueueInv'
  OBVIOUS
<1> USE DEF Return, arguments
<1>1. CASE Share
  BY <1>1, ShareKeeps
<1>2. CASE Begin
  <2>1. /\ queue' = <<[state |-> left.model.init, trace |-> <<>>]>> /\ UNCHANGED <<left, right, next>>
        /\ pc' = "node"
    BY <1>2 DEF Begin
  <2>2. left.model.init \in States /\ next \in Nat
    BY DEF QueueInv
  <2>3. queue' \in Seq(NodeType) /\ Len(queue') = 1 /\ IsNode(queue'[1])
    BY <2>1, <2>2 DEF IsNode, IsRun, At, NodeType
  <2> QED BY <2>1, <2>2, <2>3, SameModels DEF QueueInv
<1>3. CASE DropNode \/ FinishNode
  <2>1. queue # <<>> /\ queue' = Tail(queue) /\ pc' = "node" /\ UNCHANGED <<left, right, next>>
    BY <1>3 DEF DropNode, FinishNode, QueueInv
  <2>2. queue' \in Seq(NodeType) /\ \A k \in 1..Len(queue') : IsNode(queue'[k])
    BY <2>1, HeadIsNode
  <2> QED BY <2>1, <2>2, SameModels DEF QueueInv
<1>4. CASE PopNode
  <2>1. UNCHANGED <<left, right, queue>> /\ queue # <<>> /\ next' = 1 /\ pc' = "action"
    BY <1>4 DEF PopNode
  <2> QED BY <2>1, SameModels DEF QueueInv
<1>5. CASE \/ FailInitial \/ DivergeInitially \/ DisagreeInitially \/ FindNothing \/ FailVariant
           \/ DivergeAvailability \/ DivergeTransition \/ DivergeProperty
  <2>1. UNCHANGED <<left, right, queue, next>> /\ pc' = "done"
    BY <1>5 DEF FailInitial, DivergeInitially, DisagreeInitially, FindNothing, FailVariant,
                DivergeAvailability, DivergeTransition, DivergeProperty
  <2> QED BY <2>1, SameModels DEF QueueInv
<1>6. CASE UNCHANGED vars
  <2>1. UNCHANGED <<left, right, queue, next, pc>>
    BY <1>6 DEF vars
  <2> QED BY <2>1, SameModels DEF QueueInv
<1> QED BY <1>1, <1>2, <1>3, <1>4, <1>5, <1>6 DEF Next

-------------------------------------------------------------------------------
(* A trace that is a run, with what its last checkpoint shows, is what the *)
(* property asks for.                                                      *)
LEMMA ReplayableEnd ==
  ASSUME NEW kind, NEW id, NEW l, NEW r, NEW shared,
         shared \in Seq([id : Ids, state : States]), IsRun(shared),
         result' = Trace(kind, shared, id, l, r), UNCHANGED <<left, right>>,
         \/ /\ kind = "action_availability"
            /\ (Variants(left, At(shared, Len(shared)), id) = {})
                 # (Variants(right, At(shared, Len(shared)), id) = {})
         \/ /\ kind = "state_transition"
            /\ l # r /\ l \in Variants(left, At(shared, Len(shared)), id)
            /\ r \in Variants(right, At(shared, Len(shared)), id)
         \/ kind = "property_value" /\ l = r /\ PropertyDiverges(l)
  PROVE  TraceIsReplayable'
<1>1. /\ result'.kind = kind /\ result'.shared = shared /\ result'.id = id
      /\ result'.left = l /\ result'.right = r /\ left' = left /\ right' = right
  BY DEF Trace
<1> DEFINE at == [i \in 0..Len(result'.shared) |->
                    IF i = 0 THEN left'.model.init ELSE result'.shared[i].state]
           last == at[Len(result'.shared)]
<1>2. Len(shared) \in Nat /\ \A i \in 0..Len(shared) : at[i] = At(shared, i)
  BY <1>1 DEF At
<1>3. last = At(shared, Len(shared))
  BY <1>1, <1>2
<1> HIDE DEF at, last
<1>4. ASSUME NEW side \in {left', right'}, NEW i \in 1..Len(result'.shared)
      PROVE  at[i] \in Variants(side, at[i - 1], result'.shared[i].id)
  <2>1. i \in 0..Len(shared) /\ i - 1 \in 0..Len(shared)
    BY <1>1, <1>2
  <2> QED BY <1>1, <1>2, <2>1 DEF IsRun
<1>5. \A t : PropertyDiverges(t)' = PropertyDiverges(t)
  BY <1>1 DEF PropertyDiverges, Satisfies
<1>6. (CASE result'.kind = "action_availability" ->
              (Variants(left', last, result'.id) = {}) # (Variants(right', last, result'.id) = {})
         [] result'.kind = "state_transition" ->
              /\ result'.left # result'.right
              /\ result'.left \in Variants(left', last, result'.id)
              /\ result'.right \in Variants(right', last, result'.id)
         [] result'.kind = "property_value" ->
              result'.left = result'.right /\ PropertyDiverges(result.left)')
  <2>1. PropertyDiverges(result.left)' = PropertyDiverges(l)
    BY <1>1 DEF PropertyDiverges, Satisfies
  <2> QED BY <1>1, <1>3, <2>1
<1> QED BY <1>4, <1>6 DEF TraceIsReplayable, at, last

(* Nothing is answered before the end, and what is can be replayed.        *)
LEMMA ResultStep == ReplayInv /\ [Next]_vars => ResultInv'
<1> SUFFICES ASSUME ReplayInv, [Next]_vars PROVE ResultInv'
  OBVIOUS
<1> USE DEF Return, arguments
<1>0. QueueInv /\ ResultInv
  BY DEF ReplayInv
<1>1. CASE Begin \/ DropNode \/ PopNode \/ Share \/ FinishNode
  <2>1. result' = Pending
    BY <1>0, <1>1 DEF ResultInv, Begin, DropNode, PopNode, Share, FinishNode, Comparable, Compared
  <2> QED BY <2>1 DEF ResultInv, TraceIsReplayable, Found, Pending
<1>2. CASE FailInitial \/ FailVariant \/ FindNothing
  <2>1. pc' = "done" /\ result'.kind \in {"error", "none"}
    BY <1>2 DEF FailInitial, FailVariant, FindNothing
  <2> QED BY <2>1 DEF ResultInv, TraceIsReplayable, Found
<1>3. CASE DivergeInitially \/ DisagreeInitially
  <2>1. pc' = "done" /\ result'.id = 0
    BY <1>3 DEF DivergeInitially, DisagreeInitially, Trace
  <2> QED BY <2>1 DEF ResultInv, TraceIsReplayable, Found
<1>4. ASSUME DivergeAvailability \/ DivergeTransition \/ DivergeProperty
      PROVE  /\ queue # <<>> /\ Node.trace \in Seq([id : Ids, state : States]) /\ IsRun(Node.trace)
             /\ Node.state = At(Node.trace, Len(Node.trace)) /\ UNCHANGED <<left, right>> /\ pc' = "done"
  <2>1. pc = "action" /\ UNCHANGED <<left, right>> /\ pc' = "done"
    BY <1>4 DEF DivergeAvailability, DivergeTransition, DivergeProperty, Compared
  <2> QED BY <1>0, <2>1, HeadIsNode DEF QueueInv, IsNode
<1>5. CASE DivergeAvailability
  <2>1. PICK l, r : result' = Trace("action_availability", Node.trace, next, l, r)
    BY <1>5 DEF DivergeAvailability
  <2>2. (L = {}) # (R = {})
    BY <1>5 DEF DivergeAvailability
  <2>3. TraceIsReplayable'
    BY <1>4, <1>5, <2>1, <2>2, ReplayableEnd DEF L, R
  <2> QED BY <1>4, <1>5, <2>3 DEF ResultInv
<1>6. CASE DivergeTransition
  <2>1. PICK l \in Choices(L, R), r \in Choices(R, L) :
          result' = Trace("state_transition", Node.trace, next, l, r)
    BY <1>6 DEF DivergeTransition
  <2>2. L # R /\ l \in L /\ r \in R /\ l # r
    BY <1>6, <2>1 DEF DivergeTransition, Choices
  <2>3. TraceIsReplayable'
    BY <1>4, <1>6, <2>1, <2>2, ReplayableEnd DEF L, R
  <2> QED BY <1>4, <1>6, <2>3 DEF ResultInv
<1>7. CASE DivergeProperty
  <2>1. PICK t \in L : PropertyDiverges(t) /\ result' = Trace("property_value", Node.trace, next, t, t)
    BY <1>7 DEF DivergeProperty
  <2>2. TraceIsReplayable'
    BY <1>4, <1>7, <2>1, ReplayableEnd
  <2> QED BY <1>4, <1>7, <2>2 DEF ResultInv
<1>8. CASE UNCHANGED vars
  <2>1. UNCHANGED <<left, right, pc, result>>
    BY <1>8 DEF vars
  <2>2. TraceIsReplayable
    BY <1>0 DEF ResultInv
  <2>3. TraceIsReplayable'
    BY <2>1, <2>2, ZenonT(60) DEF TraceIsReplayable, Found, PropertyDiverges, Satisfies
  <2> QED BY <1>0, <2>1, <2>3 DEF ResultInv
<1> QED BY <1>1, <1>2, <1>3, <1>5, <1>6, <1>7, <1>8 DEF Next

(* The queue is one of nodes, and an answer can be replayed.               *)
LEMMA Replays == Spec => []ReplayInv
<1>1. ReplayInv /\ [Next]_vars => ReplayInv'
  BY QueueStep, ResultStep DEF ReplayInv
<1> QED BY InitReplay, <1>1, PTL DEF Spec

(* TraceIsReplayable, for any two models, properties and bound: the shared *)
(* steps are a run of both, and what is said to differ after them differs. *)
THEOREM DivergenceIsReplayable == Spec => []TraceIsReplayable
<1>1. ReplayInv => TraceIsReplayable
  BY DEF ReplayInv, ResultInv
<1> QED BY Replays, <1>1, PTL

-------------------------------------------------------------------------------
(* Why nothing nearer is overlooked: the queue is in the order of depth,   *)
(* what is less deep than its head has been compared without a difference, *)
(* and so has every state the search has seen that no longer waits.        *)
Exploring == pc \in {"node", "action"}

(* The models agree on the action from the state, and where it leads has   *)
(* been seen.                                                              *)
Followed(s, id) ==
  /\ Collects(left, s, id) /\ Collects(right, s, id)
  /\ Variants(left, s, id) = Variants(right, s, id)
  /\ \A t \in Variants(left, s, id) : ~PropertyDiverges(t) /\ t \in visited

AllFollowed(s) == \A id \in Ids : Followed(s, id)

Waiting(s) == \E k \in 1..Len(queue) : queue[k].state = s

Level == IF queue = <<>> THEN max_depth ELSE Len(queue[1].trace)

Typed ==
  /\ left \in SideType /\ right \in SideType /\ max_depth \in Nat
  /\ visited \subseteq States /\ next >= 1

Entered == ~PartInitially /\ left.model.init \in visited

Ordered ==
  /\ \A i, j \in 1..Len(queue) : i <= j => Len(queue[i].trace) <= Len(queue[j].trace)
  /\ \A k \in 1..Len(queue) : Len(queue[k].trace) <= max_depth /\ Len(queue[k].trace) <= Level + 1
  /\ pc = "action" => Level < max_depth

NearFollowed == \A j \in Nat : j < Level => \A s \in Within(left.model, j) : AllFollowed(s)

SeenFollowed == Level < max_depth => \A s \in visited : Waiting(s) \/ AllFollowed(s)

(* A node is queued at the depth its state is first reached at.            *)
QueuedFar ==
  \A k \in 1..Len(queue) : \A j \in Nat :
    j < Len(queue[k].trace) => queue[k].state \notin Within(left.model, j)

HeadFollowed == pc = "action" => \A id \in Ids : id < next => Followed(Node.state, id)

Near == Entered /\ Ordered /\ NearFollowed /\ SeenFollowed /\ QueuedFar /\ HeadFollowed

AgreeInv == Typed /\ (Exploring => Near) /\ ShortestDivergence /\ NothingMeansAgreement

(* The queue and its head.                                                 *)
LEMMA QueueFacts ==
  ASSUME QueueInv
  PROVE  /\ Len(queue) \in Nat /\ (queue # <<>> => 1 \in 1..Len(queue) /\ Node = queue[1])
         /\ \A k \in 1..Len(queue) : Len(queue[k].trace) \in Nat /\ queue[k].state \in States
<1>1. queue \in Seq(NodeType) /\ Len(queue) \in Nat
  BY DEF QueueInv
<1>2. \A k \in 1..Len(queue) : queue[k] \in NodeType
  BY <1>1
<1>3. \A k \in 1..Len(queue) : Len(queue[k].trace) \in Nat /\ queue[k].state \in States
  BY <1>2 DEF NodeType
<1>4. queue # <<>> => 1 \in 1..Len(queue) /\ Node = queue[1]
  BY <1>1 DEF Node
<1> QED BY <1>1, <1>3, <1>4

(* The level is a depth within the bound.                                  *)
LEMMA LevelType ==
  ASSUME QueueInv, Typed, Ordered
  PROVE  Level \in Nat /\ Level <= max_depth
<1>1. CASE queue = <<>>
  BY <1>1 DEF Level, Typed
<1>2. CASE queue # <<>>
  BY <1>2, QueueFacts DEF Level, Ordered
<1> QED BY <1>1, <1>2

(* Every step of a model has an action id.                                 *)
LEMMA StepsHaveIds ==
  ASSUME NEW side \in SideType, NEW s, NEW t \in Successors(side.model, s)
  PROVE  \E id \in Ids : t \in Variants(side, s, id)
<1>1. PICK x \in Actions : t = ApplyAction(side.model, s, x) /\ t \in States
  BY DEF Successors
<1>2. side.names[x] \in Ids
  BY DEF SideType
<1> QED BY <1>1, <1>2 DEF Variants, Answers

(* Where everything has been followed, every successor has been seen.      *)
LEMMA FollowedSeen ==
  ASSUME Typed, NEW s, AllFollowed(s)
  PROVE  Successors(left.model, s) \subseteq visited
<1> SUFFICES ASSUME NEW t \in Successors(left.model, s) PROVE t \in visited
  OBVIOUS
<1>1. PICK id \in Ids : t \in Variants(left, s, id)
  BY StepsHaveIds DEF Typed
<1> QED BY <1>1 DEF AllFollowed, Followed

(* The states up to the level have been seen.                              *)
LEMMA NearSeen ==
  ASSUME QueueInv, Typed, Near, NEW j \in 0..Level
  PROVE  Within(left.model, j) \subseteq visited
<1>1. Level \in Nat
  BY LevelType DEF Near
<1>2. \A k \in Nat : k < Level => \A s \in Within(left.model, k) : Successors(left.model, s) \subseteq visited
  BY FollowedSeen DEF Near, NearFollowed
<1>3. left.model.init \in visited
  BY DEF Near, Entered
<1> HIDE DEF Level
<1> QED BY <1>1, <1>2, <1>3, WithinCovered

(* What has been followed stays so.                                        *)
LEMMA FollowedStays ==
  ASSUME UNCHANGED <<left, right>>, visited \subseteq visited', NEW s
  PROVE  /\ \A id : Followed(s, id) => Followed(s, id)'
         /\ AllFollowed(s) => AllFollowed(s)'
<1>1. \A t : PropertyDiverges(t)' = PropertyDiverges(t)
  BY DEF PropertyDiverges, Satisfies
<1>2. ASSUME NEW id, Followed(s, id) PROVE Followed(s, id)'
  BY <1>1, <1>2 DEF Followed, Collects, Variants, Answers, Evaluates
<1> QED BY <1>2 DEF AllFollowed

(* What was said of the arguments stays true of them.                      *)
LEMMA SameArguments ==
  ASSUME UNCHANGED <<left, right, max_depth>>
  PROVE  /\ \A t : PropertyDiverges(t)' = PropertyDiverges(t)
         /\ PartInitially' = PartInitially
<1>1. \A t : PropertyDiverges(t)' = PropertyDiverges(t)
  BY DEF PropertyDiverges, Satisfies
<1>2. PartInitially' = PartInitially
  BY DEF PartInitially, PropertyDiverges, Satisfies
<1> QED BY <1>1, <1>2

(* A comparison without a difference queues what is new one level deeper.  *)
LEMMA ShareNear == ASSUME QueueInv, Typed, Near, Share PROVE Near'
<1> USE DEF Near
<1>0. /\ pc = "action" /\ next \in Ids /\ L = R /\ queue # <<>> /\ next' = next + 1 /\ next \in Nat
      /\ UNCHANGED <<left, right, max_depth, pc>> /\ visited' = visited \cup L
      /\ Len(queue) \in Nat /\ Len(queue') \in Nat /\ Len(queue) <= Len(queue')
      /\ \A k \in 1..Len(queue) : queue'[k] = queue[k]
      /\ \A k \in 1..Len(queue') : k \in 1..Len(queue) \/ \E t \in Fresh(L) : queue'[k] = Child(t)
      /\ \A t \in Fresh(L) : \E k \in 1..Len(queue') : queue'[k] = Child(t)
  BY ShareFacts, QueueFacts DEF Share, QueueInv
<1>1. /\ 1 \in 1..Len(queue) /\ Node = queue[1] /\ Level = Len(Node.trace) /\ Level \in Nat /\ Level < max_depth
      /\ queue' # <<>> /\ Node' = Node /\ Level' = Level
  <2>1. 1 \in 1..Len(queue) /\ Node = queue[1] /\ Len(queue[1].trace) \in Nat
    BY <1>0, QueueFacts
  <2>2. queue' # <<>> /\ queue'[1] = queue[1] /\ Node' = queue'[1]
    BY <1>0, <2>1, ShareFacts DEF Node
  <2> QED BY <1>0, <2>1, <2>2 DEF Level, Ordered
<1>2. \A t \in Fresh(L) : Child(t).state = t /\ Len(Child(t).trace) = Level + 1 /\ t \notin visited
  <2>1. Node.trace \in Seq([id : Ids, state : States])
    BY <1>0, HeadIsNode
  <2>2. \A t \in Fresh(L) : t \in States
    BY DEF Fresh, L, Variants
  <2> QED BY <1>0, <1>1, <2>1, <2>2 DEF Child, Fresh
<1>3. ASSUME NEW s PROVE (Waiting(s) => Waiting(s)') /\ (s \in Fresh(L) => Waiting(s)')
  <2>1. Waiting(s) => Waiting(s)'
    BY <1>0 DEF Waiting
  <2>2. s \in Fresh(L) => Waiting(s)'
    BY <1>0, <1>2 DEF Waiting
  <2> QED BY <2>1, <2>2
<1>4. Entered'
  BY <1>0, SameArguments DEF Entered
<1>5. Ordered'
  <2>1. \A k \in 1..Len(queue') : Len(queue'[k].trace) <= Level + 1 /\ Len(queue'[k].trace) \in Nat
    BY <1>0, <1>1, <1>2, QueueFacts DEF Ordered
  <2>2. ASSUME NEW i \in 1..Len(queue'), NEW j \in 1..Len(queue'), i <= j
        PROVE  Len(queue'[i].trace) <= Len(queue'[j].trace)
    <3>1. CASE j \in 1..Len(queue)
      <4>1. i \in 1..Len(queue)
        BY <1>0, <2>2, <3>1
      <4> QED BY <1>0, <2>2, <3>1, <4>1 DEF Ordered
    <3>2. CASE j \notin 1..Len(queue)
      <4>1. Len(queue'[j].trace) = Level + 1
        BY <1>0, <1>2, <3>2
      <4> QED BY <2>1, <4>1
    <3> QED BY <3>1, <3>2
  <2>3. \A k \in 1..Len(queue') : Len(queue'[k].trace) <= max_depth'
    BY <1>0, <1>1, <2>1 DEF Typed
  <2> QED BY <1>0, <1>1, <2>1, <2>2, <2>3 DEF Ordered
<1>6. NearFollowed'
  <2>1. \A s : AllFollowed(s) => AllFollowed(s)'
    BY <1>0, FollowedStays
  <2> QED BY <1>0, <1>1, <2>1 DEF NearFollowed
<1>7. SeenFollowed'
  <2> SUFFICES ASSUME NEW s \in visited' PROVE Waiting(s)' \/ AllFollowed(s)'
    BY DEF SeenFollowed
  <2>1. CASE s \in visited
    BY <1>0, <1>1, <1>3, <2>1, FollowedStays DEF SeenFollowed
  <2>2. CASE s \notin visited
    BY <1>0, <1>3, <2>2 DEF Fresh
  <2> QED BY <2>1, <2>2
<1>8. QueuedFar'
  <2> SUFFICES ASSUME NEW k \in 1..Len(queue'), NEW j \in Nat, j < Len(queue'[k].trace)
               PROVE  queue'[k].state \notin Within(left.model, j)
    BY <1>0 DEF QueuedFar
  <2>1. CASE k \in 1..Len(queue)
    BY <1>0, <2>1 DEF QueuedFar
  <2>2. ASSUME NEW t \in Fresh(L), queue'[k] = Child(t) PROVE queue'[k].state \notin Within(left.model, j)
    <3>1. queue'[k].state \notin visited /\ j \in 0..Level
      BY <1>1, <1>2, <2>2
    <3> QED BY <3>1, NearSeen
  <2> QED BY <1>0, <2>1, <2>2
<1>9. HeadFollowed'
  <2>1. ASSUME NEW s, s = Node.state, NEW id, id = next PROVE Followed(s, id)'
    <3>1. /\ Collects(left, s, id) /\ Collects(right, s, id)
          /\ Variants(left, s, id) = Variants(right, s, id)
          /\ \A t \in Variants(left, s, id) : ~PropertyDiverges(t) /\ t \in visited'
      BY <1>0, <2>1 DEF Share, Compared, L, R
    <3> QED BY <1>0, <3>1, SameArguments DEF Followed
  <2>2. \A id \in Ids : id < next => Followed(Node.state, id)'
    <3>1. \A s : \A id : Followed(s, id) => Followed(s, id)'
      BY <1>0, FollowedStays
    <3>2. \A id \in Ids : id < next => Followed(queue[1].state, id)
      BY <1>0, <1>1 DEF HeadFollowed
    <3>3. Node'.state = queue[1].state
      BY <1>1
    <3> QED BY <3>1, <3>2, <3>3
  <2>3. \A id \in Ids : id < next' => id < next \/ id = next
    BY <1>0 DEF Ids
  <2>4. ASSUME NEW id \in Ids, id < next' PROVE Followed(Node.state, id)'
    <3>1. Node.state' = Node.state
      BY <1>1
    <3> QED BY <2>1, <2>2, <2>3, <2>4, <3>1
  <2> QED BY <2>4 DEF HeadFollowed
<1> QED BY <1>4, <1>5, <1>6, <1>7, <1>8, <1>9

(* Taking the head off: it has been followed, unless it is at the bound.   *)
LEMMA LeaveNear == ASSUME QueueInv, Typed, Near, DropNode \/ FinishNode PROVE Near'
<1> USE DEF Near
<1>0. /\ queue # <<>> /\ queue' = Tail(queue) /\ pc' = "node"
      /\ UNCHANGED <<left, right, max_depth, visited>>
      /\ (pc = "action" /\ next \notin Ids) \/ AtBound
  BY DEF DropNode, FinishNode, QueueInv, arguments
<1>1. /\ 1 \in 1..Len(queue) /\ Node = queue[1] /\ Len(queue) \in Nat
      /\ Level = Len(Node.trace) /\ Level \in Nat /\ Level <= max_depth /\ max_depth \in Nat
  BY <1>0, QueueFacts, LevelType DEF Level, Typed
<1>2. /\ Len(queue') = Len(queue) - 1
      /\ \A k \in 1..Len(queue') : queue'[k] = queue[k + 1] /\ k + 1 \in 1..Len(queue)
  <2>1. queue \in Seq(NodeType)
    BY DEF QueueInv
  <2> QED BY <1>0, <1>1, <2>1
<1>3. \A k \in 1..Len(queue) : Len(queue[k].trace) \in Nat
  BY QueueFacts
<1>4. /\ queue' = <<>> => Level' = max_depth
      /\ queue' # <<>> => 1 \in 1..Len(queue') /\ Level' = Len(queue[2].trace) /\ 2 \in 1..Len(queue)
  <2>1. queue' # <<>> => 1 \in 1..Len(queue')
    <3>1. queue' \in Seq(NodeType)
      BY <1>0, HeadIsNode
    <3> QED BY <3>1
  <2> QED BY <1>0, <1>2, <2>1 DEF Level
<1>5. /\ Level' \in Nat /\ Level <= Level' /\ Level' <= max_depth
      /\ queue' # <<>> => Level' <= Level + 1
  BY <1>1, <1>3, <1>4 DEF Ordered
<1>6. Level < max_depth => AllFollowed(Node.state)
  <2> SUFFICES ASSUME Level < max_depth PROVE AllFollowed(Node.state)
    OBVIOUS
  <2>1. pc = "action" /\ next \notin Ids
    BY <1>0, <1>1 DEF AtBound, Depth
  <2>2. \A id \in Ids : id < next
    BY <2>1, DistinguishAssumption DEF Typed, QueueInv, Ids
  <2> QED BY <2>1, <2>2 DEF HeadFollowed, AllFollowed
<1>7. Level < max_depth => \A s \in visited : Waiting(s)' \/ AllFollowed(s)
  <2> SUFFICES ASSUME Level < max_depth, NEW s \in visited, ~AllFollowed(s) PROVE Waiting(s)'
    OBVIOUS
  <2>1. PICK k \in 1..Len(queue) : queue[k].state = s
    BY DEF SeenFollowed, Waiting
  <2>2. k # 1
    BY <1>1, <1>6, <2>1
  <2>3. k - 1 \in 1..Len(queue') /\ queue'[k - 1].state = s
    BY <1>1, <1>2, <2>1, <2>2
  <2> QED BY <2>3 DEF Waiting
<1>8. \A s : AllFollowed(s) => AllFollowed(s)'
  BY <1>0, FollowedStays
<1>9. Entered'
  BY <1>0, SameArguments DEF Entered
<1>10. Ordered'
  <2>1. ASSUME NEW i \in 1..Len(queue'), NEW j \in 1..Len(queue'), i <= j
        PROVE  Len(queue'[i].trace) <= Len(queue'[j].trace)
    <3>1. i + 1 \in 1..Len(queue) /\ j + 1 \in 1..Len(queue) /\ i + 1 <= j + 1
      BY <1>2, <2>1
    <3>2. Len(queue[i + 1].trace) <= Len(queue[j + 1].trace)
      BY <3>1 DEF Ordered
    <3> QED BY <1>2, <3>2
  <2>2. ASSUME NEW k \in 1..Len(queue')
        PROVE  Len(queue'[k].trace) <= max_depth' /\ Len(queue'[k].trace) <= Level' + 1
    <3>1. Len(queue[k + 1].trace) <= max_depth /\ Len(queue[k + 1].trace) <= Level + 1
      BY <1>2 DEF Ordered
    <3> QED BY <1>0, <1>1, <1>2, <1>3, <1>5, <3>1
  <2> QED BY <1>0, <2>1, <2>2 DEF Ordered
<1>11. QueuedFar'
  <2> SUFFICES ASSUME NEW k \in 1..Len(queue'), NEW j \in Nat, j < Len(queue'[k].trace)
               PROVE  queue'[k].state \notin Within(left.model, j)
    BY <1>0 DEF QueuedFar
  <2> QED BY <1>2 DEF QueuedFar
<1>12. NearFollowed'
  <2> SUFFICES ASSUME NEW j \in Nat, j < Level', NEW s \in Within(left.model, j) PROVE AllFollowed(s)
    BY <1>0, <1>8 DEF NearFollowed
  <2>1. CASE j < Level
    BY <2>1 DEF NearFollowed
  <2>2. CASE ~(j < Level) /\ queue' # <<>>
    <3>1. j = Level /\ Level < max_depth
      BY <1>1, <1>5, <2>2
    <3>2. s \in visited
      BY <1>1, <3>1, NearSeen
    <3>3. ~Waiting(s)'
      <4> SUFFICES ASSUME NEW k \in 1..Len(queue'), queue'[k].state = s PROVE FALSE
        BY DEF Waiting
      <4>1. Len(queue'[1].trace) <= Len(queue'[k].trace) /\ Level' = Len(queue'[1].trace)
        BY <1>2, <1>4, <1>10, <2>2 DEF Ordered
      <4>2. j < Len(queue'[k].trace)
        BY <1>2, <1>3, <1>5, <4>1
      <4> QED BY <1>0, <1>11, <4>2 DEF QueuedFar
    <3> QED BY <1>7, <3>1, <3>2, <3>3
  <2>3. CASE ~(j < Level) /\ queue' = <<>>
    <3>1. Level < max_depth
      BY <1>1, <1>5, <2>3
    <3>2. \A t \in visited : AllFollowed(t)
      BY <1>7, <2>3, <3>1 DEF Waiting
    <3>3. Closed(left.model, visited)
      BY <3>2, FollowedSeen DEF Closed, Entered
    <3>4. left.model \in ModelType /\ visited \in SUBSET States
      BY DEF Typed, SideType
    <3>5. s \in visited
      BY <3>3, <3>4, WithinReachable, ClosedCoversReachable
    <3> QED BY <3>2, <3>5
  <2> QED BY <2>1, <2>2, <2>3
<1>13. SeenFollowed'
  BY <1>0, <1>1, <1>5, <1>7, <1>8 DEF SeenFollowed
<1>14. HeadFollowed'
  BY <1>0 DEF HeadFollowed
<1> QED BY <1>9, <1>10, <1>11, <1>12, <1>13, <1>14

(* The search begins with the initial state in hand and nothing nearer.    *)
LEMMA BeginNear == ASSUME QueueInv, Typed, Begin PROVE Near'
<1>0. /\ queue' = <<[state |-> left.model.init, trace |-> <<>>]>> /\ visited' = {left.model.init}
      /\ pc' = "node" /\ UNCHANGED <<left, right, max_depth>> /\ ~PartInitially
      /\ max_depth \in Nat
  BY DEF Begin, Comparable, PartInitially, arguments, Typed
<1>1. /\ Len(queue') = 1 /\ queue'[1].trace = <<>> /\ queue'[1].state = left.model.init
      /\ Len(queue'[1].trace) = 0 /\ queue' # <<>> /\ Level' = 0
  BY <1>0 DEF Level
<1>2. Entered'
  BY <1>0, SameArguments DEF Entered
<1>3. Ordered'
  BY <1>0, <1>1 DEF Ordered
<1>4. NearFollowed' /\ QueuedFar' /\ SeenFollowed' /\ HeadFollowed'
  BY <1>0, <1>1 DEF NearFollowed, QueuedFar, SeenFollowed, HeadFollowed, Waiting
<1> QED BY <1>2, <1>3, <1>4 DEF Near

(* Taking a node in hand changes nothing that has been gathered.           *)
LEMMA PopNear == ASSUME QueueInv, Typed, Near, PopNode PROVE Near'
<1>0. /\ UNCHANGED <<left, right, max_depth, queue, visited>> /\ queue # <<>> /\ ~AtBound /\ next' = 1
  BY DEF PopNode, arguments
<1>1. Level' = Level /\ Level < max_depth
  <2>1. Len(queue[1].trace) \in Nat /\ max_depth \in Nat /\ Node = queue[1]
    BY <1>0, QueueFacts DEF Typed
  <2> QED BY <1>0, <2>1 DEF Level, AtBound, Depth
<1>2. \A s : AllFollowed(s) => AllFollowed(s)'
  BY <1>0, FollowedStays
<1>3. Entered'
  BY <1>0, SameArguments DEF Near, Entered
<1>4. Ordered'
  BY <1>0, <1>1 DEF Near, Ordered
<1>5. NearFollowed' /\ QueuedFar' /\ SeenFollowed'
  BY <1>0, <1>1, <1>2 DEF Near, NearFollowed, QueuedFar, SeenFollowed, Waiting
<1>6. HeadFollowed'
  BY <1>0 DEF HeadFollowed, Ids
<1> QED BY <1>3, <1>4, <1>5, <1>6 DEF Near

(* The arguments and what has been seen keep their types.                  *)
LEMMA TypedStep == QueueInv /\ Typed /\ [Next]_vars => Typed'
<1> SUFFICES ASSUME QueueInv, Typed, [Next]_vars PROVE Typed'
  OBVIOUS
<1> USE DEF Return, arguments
<1>1. UNCHANGED <<left, right, max_depth>>
  BY DEF Next, vars, FailInitial, DivergeInitially, DisagreeInitially, Begin, DropNode, PopNode, FindNothing,
     FailVariant, DivergeAvailability, DivergeTransition, DivergeProperty, Share, FinishNode
<1>2. CASE Share
  <2>1. visited' = visited \cup L /\ next' = next + 1 /\ L \subseteq States /\ next \in Nat
    BY <1>2 DEF Share, L, Variants, QueueInv
  <2> QED BY <1>1, <2>1 DEF Typed
<1>3. CASE Begin
  BY <1>1, <1>3 DEF Typed, Begin, QueueInv
<1>4. CASE PopNode
  BY <1>1, <1>4 DEF Typed, PopNode
<1>5. CASE ~Share /\ ~Begin /\ ~PopNode
  <2>1. UNCHANGED <<visited, next>>
    BY <1>5 DEF Next, vars, FailInitial, DivergeInitially, DisagreeInitially, DropNode, FindNothing,
       FailVariant, DivergeAvailability, DivergeTransition, DivergeProperty, FinishNode
  <2> QED BY <1>1, <2>1 DEF Typed
<1> QED BY <1>2, <1>3, <1>4, <1>5

(* While it goes on, the search is near to no difference.                  *)
LEMMA NearStep == QueueInv /\ Typed /\ (Exploring => Near) /\ [Next]_vars => (Exploring' => Near')
<1> SUFFICES ASSUME QueueInv, Typed, Exploring => Near, [Next]_vars, Exploring' PROVE Near'
  OBVIOUS
<1>1. CASE Begin
  BY <1>1, BeginNear
<1>2. CASE Share
  <2>1. Exploring
    BY <1>2 DEF Share, Compared, Exploring
  <2> QED BY <1>2, <2>1, ShareNear
<1>3. CASE DropNode \/ FinishNode
  <2>1. Exploring
    BY <1>3 DEF DropNode, FinishNode, Exploring
  <2> QED BY <1>3, <2>1, LeaveNear
<1>4. CASE PopNode
  <2>1. Exploring
    BY <1>4 DEF PopNode, Exploring
  <2> QED BY <1>4, <2>1, PopNear
<1>5. CASE \/ FailInitial \/ DivergeInitially \/ DisagreeInitially \/ FindNothing \/ FailVariant
           \/ DivergeAvailability \/ DivergeTransition \/ DivergeProperty
  BY <1>5 DEF FailInitial, DivergeInitially, DisagreeInitially, FindNothing, FailVariant,
     DivergeAvailability, DivergeTransition, DivergeProperty, Return, Exploring
<1>6. CASE UNCHANGED vars
  <2>1. UNCHANGED <<left, right, max_depth, queue, visited, next, pc>> /\ visited \subseteq visited'
    BY <1>6 DEF vars, arguments
  <2>2. Near
    BY <2>1 DEF Exploring
  <2>3. \A s : (AllFollowed(s) => AllFollowed(s)') /\ \A id : Followed(s, id) => Followed(s, id)'
    BY <2>1, FollowedStays
  <2>4. Entered' /\ Ordered'
    BY <2>1, <2>2, SameArguments DEF Near, Entered, Ordered, Level
  <2>5. NearFollowed' /\ SeenFollowed' /\ QueuedFar'
    BY <2>1, <2>2, <2>3 DEF Near, NearFollowed, SeenFollowed, QueuedFar, Level, Waiting
  <2>6. HeadFollowed'
    <3>1. Node' = Node
      BY <2>1 DEF Node
    <3> QED BY <2>1, <2>2, <2>3, <3>1 DEF Near, HeadFollowed
  <2> QED BY <2>4, <2>5, <2>6 DEF Near
<1> QED BY <1>1, <1>2, <1>3, <1>4, <1>5, <1>6 DEF Next

(* Where everything has been followed, nothing parts and nothing fails.    *)
LEMMA FollowedAgrees ==
  ASSUME NEW s, AllFollowed(s)
  PROVE  ~PartAt(s) /\ \A id \in Ids : Collects(left, s, id) /\ Collects(right, s, id)
BY DEF AllFollowed, Followed, PartAt

(* What fewer actions lead to than the head of the queue took.             *)
LEMMA BeforeLevel ==
  ASSUME QueueInv, Typed, Near, NEW s \in SharedBefore(Level)
  PROVE  AllFollowed(s)
<1>1. Level \in Nat
  BY LevelType DEF Near
<1>2. Level # 0 /\ Level - 1 \in Nat /\ Level - 1 < Level /\ s \in Within(left.model, Level - 1)
  BY <1>1 DEF SharedBefore
<1> QED BY <1>2 DEF Near, NearFollowed

(* What is answered is the nearest there is.                               *)
LEMMA NearestStep ==
  QueueInv /\ ResultInv /\ AgreeInv /\ [Next]_vars => ShortestDivergence' /\ NothingMeansAgreement'
<1> SUFFICES ASSUME QueueInv, ResultInv, AgreeInv, [Next]_vars
             PROVE  ShortestDivergence' /\ NothingMeansAgreement'
  OBVIOUS
<1> USE DEF Return, arguments
<1>0. Typed /\ (Exploring => Near) /\ ShortestDivergence /\ NothingMeansAgreement
  BY DEF AgreeInv
<1>1. UNCHANGED <<left, right, max_depth>>
  BY DEF Next, vars, FailInitial, DivergeInitially, DisagreeInitially, Begin, DropNode, PopNode, FindNothing,
     FailVariant, DivergeAvailability, DivergeTransition, DivergeProperty, Share, FinishNode
<1>2. /\ PartInitially' = PartInitially /\ \A s : PartAt(s)' = PartAt(s)
      /\ \A k : SharedBefore(k)' = SharedBefore(k)
      /\ \A s, id : /\ Collects(left', s, id) = Collects(left, s, id)
                    /\ Collects(right', s, id) = Collects(right, s, id)
  BY <1>1, SameArguments DEF PartAt, SharedBefore
<1>3. CASE UNCHANGED result
  BY <1>0, <1>1, <1>2, <1>3 DEF ShortestDivergence, NothingMeansAgreement, Found
<1>4. CASE FailInitial \/ FailVariant
  <2>1. result'.kind = "error"
    BY <1>4 DEF FailInitial, FailVariant
  <2> QED BY <2>1 DEF ShortestDivergence, NothingMeansAgreement, Found
<1>5. CASE DivergeInitially \/ DisagreeInitially
  <2>1. result'.id = 0 /\ result'.kind # "none"
    BY <1>5 DEF DivergeInitially, DisagreeInitially, Trace
  <2> QED BY <2>1 DEF ShortestDivergence, NothingMeansAgreement
<1>6. CASE FindNothing
  <2>1. result'.kind = "none" /\ queue = <<>> /\ Exploring
    BY <1>6 DEF FindNothing, Exploring
  <2>2. Near /\ Level = max_depth
    BY <1>0, <2>1 DEF Level
  <2>3. \A s \in SharedBefore(max_depth) :
          ~PartAt(s) /\ \A id \in Ids : Collects(left, s, id) /\ Collects(right, s, id)
    BY <1>0, <2>2, BeforeLevel, FollowedAgrees
  <2>4. NothingMeansAgreement'
    BY <1>1, <1>2, <2>2, <2>3 DEF NothingMeansAgreement, Near, Entered
  <2> QED BY <2>1, <2>4 DEF ShortestDivergence, Found
<1>7. CASE DivergeAvailability \/ DivergeTransition \/ DivergeProperty
  <2>1. /\ result'.shared = Node.trace /\ pc = "action"
        /\ result'.kind \in {"action_availability", "state_transition", "property_value"}
    BY <1>7 DEF DivergeAvailability, DivergeTransition, DivergeProperty, Compared, Trace
  <2>2. Near /\ Level = Len(Node.trace)
    <3>1. queue # <<>> /\ Exploring
      BY <2>1 DEF QueueInv, Exploring
    <3> QED BY <1>0, <3>1, QueueFacts DEF Level
  <2>3. \A s \in SharedBefore(Len(Node.trace)) : ~PartAt(s)
    BY <1>0, <2>2, BeforeLevel, FollowedAgrees
  <2>4. ShortestDivergence'
    BY <1>1, <1>2, <2>1, <2>2, <2>3 DEF ShortestDivergence, Near, Entered
  <2> QED BY <2>1, <2>4 DEF NothingMeansAgreement
<1>8. \/ UNCHANGED result \/ FailInitial \/ FailVariant \/ DivergeInitially \/ DisagreeInitially
      \/ FindNothing \/ DivergeAvailability \/ DivergeTransition \/ DivergeProperty
  BY DEF Next, vars, Begin, DropNode, PopNode, Share, FinishNode
<1> QED BY <1>3, <1>4, <1>5, <1>6, <1>7, <1>8

(* Nothing is queued, seen or answered at first.                           *)
LEMMA InitAgree == Init => AgreeInv
<1> SUFFICES ASSUME Init PROVE AgreeInv
  OBVIOUS
<1>1. /\ left \in SideType /\ right \in SideType /\ max_depth \in Nat /\ visited = {} /\ next = 1
      /\ pc = "start" /\ result.kind = "pending"
  BY DistinguishAssumption DEF Init, InputType, Pending
<1> QED BY <1>1 DEF AgreeInv, Typed, Exploring, ShortestDivergence, NothingMeansAgreement, Found

(* The queue is near to no difference throughout.                          *)
LEMMA Agrees == Spec => []AgreeInv
<1>1. ReplayInv /\ AgreeInv /\ [Next]_vars => AgreeInv'
  BY TypedStep, NearStep, NearestStep DEF ReplayInv, AgreeInv
<1> QED BY InitAgree, Replays, <1>1, PTL DEF Spec

(* DivergenceIsShortest, for any two models, properties and bound: the     *)
(* divergence find_distinguishing_trace reports can be replayed, and the   *)
(* models agree on everything that fewer shared actions lead to.           *)
THEOREM DivergenceShortest == Spec => []DivergenceIsShortest
<1>1. ReplayInv /\ AgreeInv => DivergenceIsShortest
  BY DEF ReplayInv, ResultInv, AgreeInv, DivergenceIsShortest
<1> QED BY Replays, Agrees, <1>1, PTL

(* NothingMeansAgreement, for any two models, properties and bound: where  *)
(* no trace was found, the models agree at every state that fewer than     *)
(* max_depth shared actions lead to, and nothing there is an error.        *)
THEOREM NothingAgrees == Spec => []NothingMeansAgreement
<1>1. AgreeInv => NothingMeansAgreement
  BY DEF AgreeInv
<1> QED BY Agrees, <1>1, PTL

================================================================================
