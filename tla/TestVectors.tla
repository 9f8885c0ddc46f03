------------------------------ MODULE TestVectors ------------------------------
(***************************************************************************)
(* testgen: test vectors for a property, made from the trace of its check  *)
(* or from an exploration of the model, one strategy at a time; the        *)
(* suppression of vectors that differ only cosmetically; the minimisation  *)
(* of a counterexample; and the generated test, which replays the ids of a *)
(* vector with `valid replay` and compares what comes out.                 *)
(***************************************************************************)
EXTENDS TransitionSystem, SequencesExt

CONSTANTS
  Inputs,       \* requests: see RequestType
  SampleSize,   \* vectors of the strategy random, 5 in the code
  FallbackSize  \* random vectors where there is no synthetic witness, 3 in the code

ExploringStrategies == {"guard", "path", "boundary", "random", "enablement"}
SyntheticStrategies == {"transition", "witness"}
TestStrategies ==
  ExploringStrategies \cup SyntheticStrategies \cup {"counterexample", "deadlock", "minimize"}

TraceKinds == {"counterexample", "witness", "deadlock", "trace"}

(*   names    action_id of each action; several may share one              *)
(*   tags     its path tags                                                *)
(*   holds    the states on which the property is true, faulty: an error   *)
(*   trace    the evidence of the check, if it left any: see IsEvidence    *)
(*   limits   for each end of a bounded field's range, the states at it    *)
RequestType ==
  [model : ModelType, names : [Actions -> Nat], tags : [Actions -> SUBSET STRING],
   kind : Kinds, holds : SUBSET States, faulty : SUBSET States,
   strategy : TestStrategies, focus : Optional(Nat),
   trace : Optional([kind : TraceKinds, path : Seq(Actions)]),
   limits : Seq(SUBSET States)]

(* The states of a run of m; once it leaves the model it does not return.  *)
RunOf(m, steps) ==
  LET state[n \in 0..Len(steps)] ==
        IF n = 0 THEN m.init
        ELSE LET s == state[n - 1]
             IN  IF s \in States THEN ApplyAction(m, s, steps[n]) ELSE Disabled
  IN  state

(* The trace is a run, and of an invariant's violation or of a witness it  *)
(* ends as such: what the engines make of it (TraceIsEvidence).            *)
IsEvidence(r, t) ==
  LET end == RunOf(r.model, t.path)[Len(t.path)] IN
  /\ end \in States
  /\ t.kind = "counterexample" /\ r.kind = "invariant" => end \notin r.holds
  /\ t.kind = "witness" => end \in r.holds \ r.faulty

ASSUME TestgenAssumption ==
  /\ \A r \in Inputs :
       /\ r \in RequestType
       /\ \A x \in Actions : IsFiniteSet(r.tags[x])
       /\ \A t \in r.trace : IsEvidence(r, t)
  /\ SampleSize \in Nat /\ FallbackSize \in Nat

VARIABLES
  request,
  nodes,    \* Vec<ModelNode>: state, parent, via_action_index
  current,  \* the node popped last; the queue is what follows it in nodes
  next,     \* the action about to be tried there, 0 between two nodes
  built,    \* the vectors, in the order they were made
  kept,     \* those prioritize_test_vectors lets through
  path,     \* current.actions of minimize_counterexample_vector
  start,    \* the step it removes next
  pc, error

exploration == <<nodes, current, next>>
reduction == <<path, start>>
vars == <<request, exploration, built, kept, reduction, pc, error>>

Model == request.model
Id(a) == request.names[a]

Init ==
  /\ request \in Inputs
  /\ nodes = <<[state |-> request.model.init, parent |-> 0, via |-> 0]>>
  /\ current = 0 /\ next = 0
  /\ built = <<>> /\ kept = <<>>
  /\ path = <<>> /\ start = 1
  /\ pc = "begin" /\ error = "none"

Fail(why) == pc' = "done" /\ error' = why

Holds(s) == s \in request.holds \ request.faulty

-------------------------------------------------------------------------------
(* Replay, by id.                                                          *)

(* apply_action: one answer of the actions of that id, or none; more is an *)
(* error, and so is an id no action has.                                   *)
ApplyId(s, id) ==
  LET answers == {ApplyAction(Model, s, a) : a \in {x \in Actions : Id(x) = id}}
      successors == answers \ {Disabled}
  IN  IF answers = {} \/ Fault \in answers \/ Cardinality(successors) > 1 THEN Fault
      ELSE IF successors = {} THEN Disabled
      ELSE CHOOSE t \in successors : TRUE

(* replay_actions; a disabled step is an error.                            *)
Replayed(steps) ==
  LET state[n \in 0..Len(steps)] ==
        IF n = 0 THEN Model.init
        ELSE LET s == state[n - 1]
                 t == ApplyId(s, Id(steps[n]))
             IN  IF s \in States /\ t \in States THEN t ELSE Fault
  IN  state

(* The state after the first k steps.                                      *)
After(steps, k) == Replayed(steps)[k]

-------------------------------------------------------------------------------
(* A vector.  about is expected_path: the decisions the test wants to see. *)

DecisionsOf(a, enabled) ==
  [id : {Id(a)}, part : {"guard"} \cup (IF enabled THEN {"update"} ELSE {}),
   tags : {request.tags[a]}]

AlongPath(steps) == UNION {DecisionsOf(steps[k], TRUE) : k \in DOMAIN steps}

(* Path::from_legacy_tags.                                                 *)
LegacyDecision(tag) == {[id |-> 0, part |-> "legacy", tags |-> {tag}]}

TagsOf(decisions) == UNION {d.tags : d \in decisions}

Vector(strategy, steps, states, focus, enabled, holds, about) ==
  [strategy |-> strategy, path |-> steps, states |-> states, focus |-> focus,
   enabled |-> enabled, holds |-> holds, about |-> about]

Ids(steps) == [k \in DOMAIN steps |-> Id(steps[k])]

(* The states after each step of a run of the model.                       *)
StatesAlong(steps) ==
  LET run == RunOf(Model, steps) IN [n \in 1..Len(steps) |-> run[n]]

(* The first of each key, in order.                                        *)
FirstOfEach(vectors, Key(_)) ==
  FlattenSeq([k \in DOMAIN vectors |->
                IF \E j \in 1..(k - 1) : Key(vectors[j]) = Key(vectors[k]) THEN <<>>
                ELSE <<vectors[k]>>])

-------------------------------------------------------------------------------
(* Vectors from the trace of the check.                                    *)

(* build_counterexample_vector, build_witness_vector, build_deadlock_vector*)
(* on the traces testgen_source passes to them.                            *)
Accepts(t) ==
  \/ request.strategy = "counterexample" /\ t.path # <<>> /\ t.kind # "witness"
  \/ request.strategy = "witness" /\ t.path # <<>> /\ t.kind # "counterexample"
  \/ request.strategy = "deadlock" /\ t.kind = "deadlock"

TraceVectors ==
  SetToSeq({Vector(request.strategy, t.path, StatesAlong(t.path), {}, {},
                   {request.strategy = "witness"}, AlongPath(t.path)) :
              t \in {x \in request.trace : Accepts(x)}})

Synthetic(steps) ==
  LET states == StatesAlong(steps) IN
  IF Last(states) \in States /\ \A k \in DOMAIN states : states[k] \in States /\ Holds(states[k])
  THEN <<Vector("witness", steps, states, {}, {}, {TRUE}, AlongPath(steps))>>
  ELSE <<>>

(* build_synthetic_witness_vectors: one or two steps from the initial state*)
(* through states that satisfy the property.                               *)
SyntheticVectors ==
  LET from(a) ==
        IF Synthetic(<<a>>) = <<>> THEN <<>>
        ELSE Synthetic(<<a>>) \o FlattenSeq([b \in Actions |-> Synthetic(<<a, b>>)])
  IN  FirstOfEach(FlattenSeq([a \in Actions |-> from(a)]), LAMBDA v : Ids(v.path))

-------------------------------------------------------------------------------
(* Vectors from an exploration.                                            *)

(* Mutant: the route misses its last step.                                 *)
RouteShort(i) ==
  LET route[n \in 1..Len(nodes)] ==
        IF nodes[n].parent = 0 THEN <<>> ELSE Append(route[nodes[n].parent], nodes[n].via)
  IN  IF nodes[i].parent = 0 THEN <<>> ELSE route[nodes[i].parent]

(* build_model_path: the parents, from the root.                           *)
Route(i) ==
  LET route[n \in 1..Len(nodes)] ==
        IF nodes[n].parent = 0 THEN <<>> ELSE Append(route[nodes[n].parent], nodes[n].via)
  IN  route[i]

(* build_model_vector_for_node; without steps the state itself is expected.*)
NodeVector(i, focus, enabled, about) ==
  LET steps == Route(i) IN
  Vector(request.strategy, steps,
         IF steps = <<>> THEN <<nodes[i].state>> ELSE StatesAlong(steps),
         focus, enabled, {Holds(nodes[i].state)},
         IF about = {} THEN AlongPath(steps) ELSE about)

(* Mutant: the node found last.                                            *)
Latest(I) == {i \in I : \A j \in I : i >= j}

Earliest(I) == {i \in I : \A j \in I : i <= j}

Named(S, Make(_)) == IF S = {} THEN <<>> ELSE <<Make(CHOOSE x \in S : TRUE)>>

NodeOf(s) == CHOOSE i \in DOMAIN nodes : nodes[i].state = s

(* The first node with an edge of that action, and the first without a     *)
(* successor under it.                                                     *)
FirstEdge(a) == Earliest({i \in DOMAIN nodes : Enabled(Model, nodes[i].state, a)})
FirstBlocked(a) == Earliest({i \in DOMAIN nodes : ~Enabled(Model, nodes[i].state, a)})

BehindEdge(i, a) == NodeOf(ApplyAction(Model, nodes[i].state, a))

(* The vector of the enabled outcome ends behind the step.                 *)
GuardVectorsOf(a) ==
  Named(FirstEdge(a),
        LAMBDA i : NodeVector(BehindEdge(i, a), {Id(a)}, {TRUE}, DecisionsOf(a, TRUE)))
  \o Named(FirstBlocked(a),
           LAMBDA i : NodeVector(i, {Id(a)}, {FALSE}, DecisionsOf(a, FALSE)))

GuardVectors ==
  FirstOfEach(FlattenSeq([a \in Actions |-> GuardVectorsOf(a)]),
              LAMBDA v : <<v.focus, v.enabled, Ids(v.path)>>)

PathVectors ==
  LET of(a, tag) ==
        Named(FirstEdge(a),
              LAMBDA i : NodeVector(BehindEdge(i, a), {Id(a)}, {TRUE}, LegacyDecision(tag)))
      all(a) == LET tags == SetToSeq(request.tags[a])
                IN  FlattenSeq([k \in DOMAIN tags |-> of(a, tags[k])])
  IN  FirstOfEach(FlattenSeq([a \in Actions |-> all(a)]),
                  LAMBDA v : <<v.about, v.focus, Ids(v.path)>>)

BoundaryVectors ==
  LET at(S) == Named(Earliest({i \in DOMAIN nodes : nodes[i].state \in S}),
                     LAMBDA i : NodeVector(i, {}, {}, {}))
  IN  FlattenSeq([k \in DOMAIN request.limits |-> at(request.limits[k])])

(* The candidates are ordered by a hash, that is anyhow.                   *)
RandomVectors(limit) ==
  LET size == IF limit < Len(nodes) - 1 THEN limit ELSE Len(nodes) - 1
      vectors(I) == LET order == SetToSeq(I)
                    IN  [k \in DOMAIN order |-> NodeVector(order[k], {}, {}, {})]
  IN  {vectors(I) : I \in {J \in SUBSET (2..Len(nodes)) : Cardinality(J) = size}}

(* The first action with the wanted id is looked at, and no other.         *)
EnablementVectors(id) ==
  LET first == CHOOSE x \in Actions : Id(x) = id /\ \A y \in 1..(x - 1) : Id(y) # id
      reached == Named(FirstEdge(first),
                       LAMBDA i : NodeVector(i, {id}, {TRUE}, DecisionsOf(first, TRUE)))
  IN  IF reached # <<>> THEN reached ELSE <<NodeVector(1, {id}, {FALSE}, DecisionsOf(first, FALSE))>>

(* build_model_deadlock_vector.                                            *)
DeadlockVector(i) ==
  [NodeVector(i, {}, {}, {}) EXCEPT !.holds = {FALSE}, !.about = {}]

-------------------------------------------------------------------------------
(* prioritize_test_vectors: the key leaves out the action a vector is      *)
(* about and repetitions of an id along its path.                          *)
NoveltyKey(v) ==
  <<FirstOfEach(Ids(v.path), LAMBDA id : id), v.enabled, TagsOf(v.about)>>

Deliver(vectors) ==
  /\ built' = vectors
  /\ kept' = FirstOfEach(vectors, NoveltyKey)
  /\ pc' = "done"
  /\ UNCHANGED <<request, exploration, reduction, error>>

(* testgen_source: a trace is used before the model is explored.           *)
UseTrace ==
  /\ pc = "begin"
  /\ TraceVectors # <<>> \/ request.strategy = "counterexample"
  /\ Deliver(TraceVectors)

UseSynthetic ==
  /\ pc = "begin" /\ request.strategy \in SyntheticStrategies
  /\ TraceVectors = <<>>
  /\ SyntheticVectors # <<>>
  /\ Deliver(SyntheticVectors)

RefuseEnablement ==
  /\ pc = "begin" /\ request.strategy = "enablement"
  /\ request.focus = {}
  /\ Fail("focus")
  /\ UNCHANGED <<request, exploration, built, kept, reduction>>

Explores ==
  CASE request.strategy = "enablement" -> request.focus # {}
    [] request.strategy \in SyntheticStrategies -> TraceVectors = <<>> /\ SyntheticVectors = <<>>
    [] request.strategy = "deadlock" -> TraceVectors = <<>>
    [] OTHER -> request.strategy \in ExploringStrategies

BeginExploration ==
  /\ pc = "begin"
  /\ Explores
  /\ pc' = "explore"
  /\ UNCHANGED <<request, exploration, built, kept, reduction, error>>

-------------------------------------------------------------------------------
(* explore_model, and the search of build_model_deadlock_vectors, which    *)
(* visits the same nodes in the same order.                                *)

PopNode ==
  /\ pc = "explore" /\ next = 0
  /\ current < Len(nodes)
  /\ current' = current + 1 /\ next' = 1
  /\ UNCHANGED <<request, nodes, built, kept, reduction, pc, error>>

Trying == pc = "explore" /\ next \in Actions

Target == ApplyAction(Model, nodes[current].state, next)

Known == \E i \in DOMAIN nodes : nodes[i].state = Target

FailExploration ==
  /\ Trying
  /\ Target = Fault
  /\ Fail("transition")
  /\ UNCHANGED <<request, exploration, built, kept, reduction>>

SkipAction ==
  /\ Trying
  /\ Target = Disabled \/ Known
  /\ next' = next + 1
  /\ UNCHANGED <<request, nodes, current, built, kept, reduction, pc, error>>

AddNode ==
  /\ Trying
  /\ Target \in States /\ ~Known
  /\ nodes' = Append(nodes, [state |-> Target, parent |-> current, via |-> next])
  /\ next' = next + 1
  /\ UNCHANGED <<request, current, built, kept, reduction, pc, error>>

Tried == pc = "explore" /\ next = NumActions + 1

Barren == \A i \in DOMAIN nodes : nodes[i].parent # current

(* The first node without a new successor; of a finite model there is one. *)
FindDeadlock ==
  /\ Tried
  /\ request.strategy = "deadlock" /\ Barren
  /\ Deliver(<<DeadlockVector(current)>>)

FinishNode ==
  /\ Tried
  /\ request.strategy = "deadlock" => ~Barren
  /\ next' = 0
  /\ UNCHANGED <<request, nodes, current, built, kept, reduction, pc, error>>

Explored == pc = "explore" /\ next = 0 /\ current = Len(nodes)

KnownFocus == \A id \in request.focus : \E a \in Actions : Id(a) = id

RefuseFocus ==
  /\ Explored
  /\ request.strategy = "enablement" /\ ~KnownFocus
  /\ Fail("action")
  /\ UNCHANGED <<request, exploration, built, kept, reduction>>

BuildVectors ==
  /\ Explored
  /\ \/ request.strategy = "guard" /\ Deliver(GuardVectors)
     \/ request.strategy = "path" /\ Deliver(PathVectors)
     \/ request.strategy = "boundary" /\ Deliver(BoundaryVectors)
     \/ /\ request.strategy = "enablement" /\ KnownFocus
        /\ \E id \in request.focus : Deliver(EnablementVectors(id))
     \/ request.strategy = "random" /\ \E vs \in RandomVectors(SampleSize) : Deliver(vs)
     \/ /\ request.strategy \in SyntheticStrategies
        /\ \E vs \in RandomVectors(FallbackSize) : Deliver(vs)

-------------------------------------------------------------------------------
(* minimize_source and minimize_counterexample_vector.                     *)

Minimizable ==
  \E t \in request.trace :
    t.path # <<>> /\ t.kind # "witness" /\ request.kind = "invariant"

RefuseMinimization ==
  /\ pc = "begin" /\ request.strategy = "minimize"
  /\ ~Minimizable
  /\ Fail("minimize")
  /\ UNCHANGED <<request, exploration, built, kept, reduction>>

BeginMinimization ==
  /\ pc = "begin" /\ request.strategy = "minimize"
  /\ Minimizable
  /\ \E t \in request.trace : path' = t.path
  /\ pc' = "minimize"
  /\ UNCHANGED <<request, exploration, built, kept, start, error>>

(* reproduces_failure replays ever longer prefixes, the empty one first:   *)
(* the first that violates the property or cannot be replayed decides.     *)
Outcome(steps) ==
  LET trouble == {k \in 0..Len(steps) : ~Holds(After(steps, k))}
      first == CHOOSE k \in trouble : \A j \in trouble : k <= j
  IN  IF trouble = {} THEN "no"
      ELSE IF After(steps, first) \in States \ request.faulty THEN "yes"
      ELSE "error"

Removing == pc = "minimize" /\ start \in DOMAIN path

Candidate == RemoveAt(path, start)

DropStep ==
  /\ Removing
  /\ Candidate # <<>> /\ Outcome(Candidate) = "yes"
  /\ path' = Candidate /\ start' = 1
  /\ UNCHANGED <<request, exploration, built, kept, pc, error>>

(* Mutant: the step behind a kept one is passed over.                      *)
KeepStepSkipping ==
  /\ Removing
  /\ Candidate = <<>> \/ Outcome(Candidate) = "no"
  /\ start' = start + 2
  /\ UNCHANGED <<request, exploration, built, kept, path, pc, error>>

KeepStep ==
  /\ Removing
  /\ Candidate = <<>> \/ Outcome(Candidate) = "no"
  /\ start' = start + 1
  /\ UNCHANGED <<request, exploration, built, kept, path, pc, error>>

(* A step that was enabled only by the removed one ends the minimisation.  *)
AbortRemoval ==
  /\ Removing
  /\ Candidate # <<>> /\ Outcome(Candidate) = "error"
  /\ Fail("replay")
  /\ UNCHANGED <<request, exploration, built, kept, reduction>>

FinishMinimization ==
  /\ pc = "minimize" /\ start \notin DOMAIN path
  /\ pc' = "done"
  /\ UNCHANGED <<request, exploration, built, kept, reduction, error>>

Next ==
  \/ UseTrace \/ UseSynthetic \/ RefuseEnablement \/ BeginExploration
  \/ PopNode \/ FailExploration \/ SkipAction \/ AddNode \/ FindDeadlock \/ FinishNode
  \/ RefuseFocus \/ BuildVectors
  \/ RefuseMinimization \/ BeginMinimization \/ DropStep \/ KeepStep \/ AbortRemoval
  \/ FinishMinimization

Spec == Init /\ [][Next]_vars

-------------------------------------------------------------------------------
DistinctIds == \A a, b \in Actions : Id(a) = Id(b) => a = b

(* The check's trace says what its kind promises of the property.          *)
EvidenceFits ==
  \A t \in request.trace :
    \/ t.kind = "counterexample" /\ request.kind = "invariant"
    \/ t.kind = "witness" /\ request.kind \in {"cover", "reachability"}

(* Where every action has an id of its own, a vector replays to the very   *)
(* state it expects, with the value of the property it expects, and an     *)
(* action it calls blocked is blocked there.  (What a vector says of the   *)
(* property after a deadlock, and of an action after its own step, where   *)
(* generated tests ask for it to be enabled still, is not claimed.)        *)
Replays(v) ==
  LET end == After(v.path, Len(v.path)) IN
  /\ end \in States
  /\ v.states # <<>> => Last(v.states) = end
  /\ v.enabled = {FALSE} => \A id \in v.focus : ApplyId(end, id) = Disabled
  /\ EvidenceFits /\ request.strategy # "deadlock" => v.holds = {Holds(end)}

VectorsReplay == DistinctIds => \A k \in DOMAIN built : Replays(built[k])

(* testgen-strategies.md: the vector of an enablement is the shortest trace*)
(* that enables the action; it calls it unreachable only if no reachable   *)
(* state enables it.                                                       *)
EnablementShortest ==
  request.strategy = "enablement" /\ built # <<>> /\ DistinctIds =>
    LET v == built[1]
        enabling == {s \in Reachable(Model) : \E a \in Actions : Id(a) \in v.focus /\ Enabled(Model, s, a)}
    IN  IF v.enabled = {TRUE}
        THEN /\ After(v.path, Len(v.path)) \in enabling
             /\ v.path # <<>> => Within(Model, Len(v.path) - 1) \cap enabling = {}
        ELSE enabling = {}

(* Both: a generated vector keeps what it says of the model it came from.  *)
VectorsHold == VectorsReplay /\ EnablementShortest

(* A minimised counterexample still fails, and would not if any single     *)
(* step were removed.                                                      *)
MinimizedStillFails ==
  \A t \in request.trace :
    request.strategy = "minimize" /\ pc = "done" /\ error = "none" /\ Outcome(t.path) = "yes" =>
      /\ Outcome(path) = "yes"
      /\ Len(path) > 1 => \A i \in DOMAIN path : Outcome(RemoveAt(path, i)) # "yes"

===============================================================================
