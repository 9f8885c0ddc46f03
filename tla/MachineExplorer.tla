---------------------------- MODULE MachineExplorer ----------------------------
(***************************************************************************)
(* modeling: machines declared in Rust.  A machine has a list of initial   *)
(* states, and a step function that gives a list of successors; it is      *)
(* explored by a search of its own, which stops at the first state where   *)
(* the property fails, and the verdict, the coverage, the explanation and  *)
(* the test vectors are all read off what was explored until then.         *)
(***************************************************************************)
EXTENDS Naturals, FiniteSets, Sequences, SequencesExt

CONSTANTS
  States,
  NumActions,  \* Action::all(), in order
  SampleSize,  \* vectors of the strategy random, 5 in the code
  Requests     \* see RequestType

Actions == 1..NumActions

Strategies ==
  {"property", "counterexample", "deadlock", "witness", "enablement", "path", "guard", "boundary",
   "random"}
Queries == {"check", "coverage", "explain"} \cup Strategies

MachineType == [init : Seq(States), step : [States -> [Actions -> Seq(States)]]]

(*   guarded  whether the machine declares its transitions, with guards    *)
(*   holds    the states where the property holds; of deadlock_freedom the *)
(*            states with a successor                                      *)
(*   limits   for each end of a bounded field's range, the states at it    *)
(* What is asked makes no difference to the search, and is left open until *)
(* that is over.                                                           *)
RequestType ==
  [machine : MachineType, guarded : BOOLEAN, kind : {"invariant", "deadlock_freedom"},
   holds : SUBSET States, limits : SUBSET SUBSET States]

Enabled(machine, s, a) == machine.step[s][a] # <<>>
Moves(machine, s, t) == \E a \in Actions : t \in Range(machine.step[s][a])

(* Checked by the module that instantiates this one.                       *)
MachineAssumption ==
  /\ NumActions \in Nat \ {0} /\ SampleSize \in Nat
  /\ \A r \in Requests :
       /\ r \in RequestType /\ r.machine.init # <<>>
       /\ r.kind = "deadlock_freedom" =>
            r.holds = {s \in States : \E a \in Actions : Enabled(r.machine, s, a)}

VARIABLES
  request,
  nodes,    \* ModelingNode: state, parent, via_action, depth
  edges,    \* ModelingEdge: from_index, to_index, action
  current,  \* the node popped last; the frontier is what follows it in nodes
  next,     \* the action to be tried there, 0 between two nodes
  tried,    \* explored_transitions
  failure,  \* failure_index, 0 for none
  query,    \* what is asked, none before
  answer

exploration == <<nodes, edges, current, next, tried, failure>>
vars == <<request, exploration, query, answer>>

Machine == request.machine

(* Mutant: only one initial state is explored.                             *)
RootsFirst == <<Machine.init[1]>>

(* The initial states, each once.                                          *)
Roots == FoldLeft(LAMBDA roots, s : IF Contains(roots, s) THEN roots ELSE Append(roots, s),
                  <<>>, Machine.init)

Init ==
  /\ request \in Requests
  /\ nodes = [k \in DOMAIN Roots |-> [state |-> Roots[k], parent |-> 0, via |-> 0, depth |-> 0]]
  /\ edges = <<>>
  /\ current = 0 /\ next = 0 /\ tried = 0 /\ failure = 0
  /\ query = "none" /\ answer = <<>>

-------------------------------------------------------------------------------
(* explore_machine.                                                        *)

StateOf(n) == nodes[n].state
Exploring == failure = 0 /\ query = "none"

Pop ==
  /\ Exploring /\ next = 0
  /\ current < Len(nodes)
  /\ current' = current + 1
  /\ IF StateOf(current') \in request.holds
     THEN next' = 1 /\ UNCHANGED failure
     ELSE failure' = current' /\ UNCHANGED next
  /\ UNCHANGED <<request, nodes, edges, tried, query, answer>>

(* A successor that is not visited yet becomes a node of the frontier.     *)
Found(known, t) ==
  IF \E n \in DOMAIN known : known[n].state = t THEN known
  ELSE Append(known, [state |-> t, parent |-> current, via |-> next,
                      depth |-> nodes[current].depth + 1])

IndexOf(known, t) == CHOOSE n \in DOMAIN known : known[n].state = t

(* One action at the current node, and an edge for each of its successors. *)
TryAction ==
  /\ Exploring /\ next # 0
  /\ LET successors == Machine.step[StateOf(current)][next] IN
       /\ nodes' = FoldLeft(Found, nodes, successors)
       /\ edges' = edges \o [k \in DOMAIN successors |->
            [from |-> current, to |-> IndexOf(nodes', successors[k]), action |-> next]]
  /\ tried' = tried + 1
  /\ next' = IF next < NumActions THEN next + 1 ELSE 0
  /\ UNCHANGED <<request, current, failure, query, answer>>

Explored == query = "none" /\ (failure # 0 \/ (current = Len(nodes) /\ next = 0))

-------------------------------------------------------------------------------
(* build_trace: the node and its ancestors, oldest first.                  *)

Ancestry[n \in Nat] == IF n = 0 THEN <<>> ELSE Append(Ancestry[nodes[n].parent], n)

TraceTo(n) == Tail(Ancestry[n])
Ids(trace) == [k \in DOMAIN trace |-> nodes[trace[k]].via]
Observed(trace) == [k \in DOMAIN trace |-> StateOf(trace[k])]

Reply(q, r) == query' = q /\ answer' = r /\ UNCHANGED <<request, exploration>>

(* check_machine_property: FAIL with the trace, or PASS; explain_machine   *)
(* of a failure says by which action and how often that was taken, and has *)
(* nothing to say of a trace without steps.                                *)
Check ==
  /\ Explored
  /\ Reply("check", IF failure = 0 THEN [status |-> "PASS", trace |-> <<>>]
           ELSE [status |-> "FAIL", trace |-> TraceTo(failure)])

Taken(a) == {k \in DOMAIN edges : edges[k].action = a}

Explain ==
  /\ Explored
  /\ Reply("explain", IF failure = 0 \/ TraceTo(failure) = <<>> THEN [status |-> "error"]
           ELSE [status |-> "explained", action |-> nodes[failure].via,
                 executions |-> Cardinality(Taken(nodes[failure].via))])

(* collect_machine_coverage: guards at every node, popped or not; actions  *)
(* from the edges.                                                         *)
GuardTrue == {a \in Actions : \E n \in DOMAIN nodes : Enabled(Machine, StateOf(n), a)}
GuardFalse == {a \in Actions : \E n \in DOMAIN nodes : ~Enabled(Machine, StateOf(n), a)}

Coverage ==
  /\ Explored
  /\ Reply("coverage", [status |-> "covered", actions |-> {a \in Actions : Taken(a) # {}},
            guardTrue |-> GuardTrue, guardFalse |-> GuardFalse,
            full |-> ((Cardinality(GuardTrue \cap GuardFalse) * 100) \div NumActions),
            histogram |-> [d \in {nodes[n].depth : n \in DOMAIN nodes} |->
                             Cardinality({n \in DOMAIN nodes : nodes[n].depth = d})],
            steps |-> Len(edges),
            repeated |-> Cardinality({k \in DOMAIN edges : edges[k].to <= edges[k].from})])

-------------------------------------------------------------------------------
(* The test vectors.                                                       *)

(* build_machine_vector_for_node; the vector starts at the first node.     *)
VectorFor(n, focus, enabled) ==
  [initial |-> StateOf(1), ids |-> Ids(TraceTo(n)),
   observed |-> IF TraceTo(n) = <<>> THEN <<StateOf(n)>> ELSE Observed(TraceTo(n)),
   holds |-> StateOf(n) \in request.holds, focus |-> focus, enabled |-> enabled]

(* build_counterexample_vector: none of a trace without steps.             *)
CounterexampleVectors ==
  IF failure = 0 \/ TraceTo(failure) = <<>> THEN {}
  ELSE {[initial |-> StateOf(Ancestry[failure][1]), ids |-> Ids(TraceTo(failure)),
         observed |-> Observed(TraceTo(failure)), holds |-> FALSE, focus |-> 0, enabled |-> "none"]}

FirstEdge(a) == CHOOSE k \in Taken(a) : \A j \in Taken(a) : k <= j

(* Of each action its first edge, from where that starts.                  *)
WitnessVectors ==
  IF failure # 0 THEN {}
  ELSE {LET e == edges[FirstEdge(a)] IN
        [initial |-> StateOf(e.from), ids |-> <<a>>, observed |-> <<StateOf(e.to)>>,
         holds |-> TRUE, focus |-> a, enabled |-> "true"] : a \in {x \in Actions : Taken(x) # {}}}

FirstOf(N) == CHOOSE n \in N : \A m \in N : n <= m

(* Mutant: the first node that is not the initial one.                     *)
EnablementVectorsLater(focus) ==
  LET N == {n \in DOMAIN nodes : n > 1 /\ Enabled(Machine, StateOf(n), focus)} IN
  IF N # {} THEN {VectorFor(FirstOf(N), focus, "true")}
  ELSE {VectorFor(1, focus, "false")}

EnablementVectors(focus) ==
  LET N == {n \in DOMAIN nodes : Enabled(Machine, StateOf(n), focus)} IN
  IF N # {} THEN {VectorFor(FirstOf(N), focus, "true")}
  ELSE {VectorFor(1, focus, "false")}

(* The node behind the first edge of each action.                          *)
TakenVectors ==
  {VectorFor(edges[FirstEdge(a)].to, a, "true") : a \in {x \in Actions : Taken(x) # {}}}

BlockedVectors ==
  {LET N == {n \in DOMAIN nodes : ~Enabled(Machine, StateOf(n), a)} IN
   VectorFor(FirstOf(N), a, "false") : a \in GuardFalse}

BoundaryVectors ==
  {VectorFor(FirstOf(N), 0, "none") :
     N \in {{n \in DOMAIN nodes : StateOf(n) \in limit} : limit \in request.limits} \ {{}}}

(* The nodes with the least hashes: any of them.                           *)
Samples ==
  LET later == DOMAIN nodes \ {1} IN
  {sample \in SUBSET later :
     Cardinality(sample) = IF Cardinality(later) < SampleSize THEN Cardinality(later) ELSE SampleSize}

(* Without declared guards there are none to cover.                        *)
FallsBack(strategy) == strategy = "guard" /\ ~request.guarded

VectorSets(strategy) ==
  CASE strategy = "property" -> {CounterexampleVectors \cup WitnessVectors}
    [] strategy = "counterexample" -> {CounterexampleVectors}
    [] strategy = "deadlock" ->
         {IF request.kind = "deadlock_freedom" THEN CounterexampleVectors ELSE {}}
    [] strategy = "witness" \/ FallsBack(strategy) -> {WitnessVectors}
    [] strategy = "enablement" -> {EnablementVectors(focus) : focus \in Actions}
    [] strategy = "path" -> {TakenVectors}
    [] strategy = "guard" /\ request.guarded -> {TakenVectors \cup BlockedVectors}
    [] strategy = "boundary" -> {BoundaryVectors}
    [] strategy = "random" -> {{VectorFor(n, 0, "none") : n \in sample} : sample \in Samples}

BuildVectors ==
  /\ Explored
  /\ \E strategy \in Strategies :
       \E vectors \in VectorSets(strategy) : Reply(strategy, [status |-> "vectors", vectors |-> vectors])

Next == Pop \/ TryAction \/ Check \/ Explain \/ Coverage \/ BuildVectors

Spec == Init /\ [][Next]_vars

(* replay_machine_actions: from the first initial state, and of each step  *)
(* the first successor.                                                    *)
Replay(ids) ==
  FoldLeft(LAMBDA s, a : IF s = <<>> \/ ~Enabled(Machine, s[1], a) THEN <<>>
                         ELSE <<Machine.step[s[1]][a][1]>>,
           <<Machine.init[1]>>, ids)

-------------------------------------------------------------------------------
(* What the machine does, without a search.                                *)

(* The states a run of at most n steps leads to.                           *)
Within[n \in Nat] ==
  IF n = 0 THEN Range(Machine.init)
  ELSE LET near == Within[n - 1] IN near \cup {t \in States : \E s \in near : Moves(Machine, s, t)}

Reachable == Within[Cardinality(States)]
Distance(s) == CHOOSE n \in 0..Cardinality(States) : s \in Within[n] /\ (n = 0 \/ s \notin Within[n - 1])

Violating == Reachable \ request.holds

IsRun(run) ==
  /\ StateOf(run[1]) \in Range(Machine.init)
  /\ \A k \in 2..Len(run) :
       StateOf(run[k]) \in Range(Machine.step[StateOf(run[k - 1])][nodes[run[k]].via])

(* The search has not missed a violation, whichever of several initial     *)
(* states and successors leads to it, and what it shows is a shortest run. *)
VerdictExact ==
  /\ failure = 0 <=> Violating = {}
  /\ failure = 0 => tried = Cardinality(Reachable) * NumActions
  /\ failure # 0 => StateOf(failure) \in Violating /\ IsRun(Ancestry[failure])
  /\ failure # 0 => \A s \in Violating : Len(TraceTo(failure)) <= Distance(s)

(* A guard that coverage reports was true, or false, somewhere the machine *)
(* can be; and where no failure cut the search short, the statistics are   *)
(* those of the whole reachable machine.                                   *)
CoverageExact ==
  LET reachable == Reachable
      On(a) == {s \in reachable : Enabled(Machine, s, a)}
      on == {a \in Actions : On(a) # {}}
      off == {a \in Actions : On(a) # reachable}
  IN  /\ answer.actions \subseteq answer.guardTrue
      /\ answer.guardTrue \subseteq on /\ answer.guardFalse \subseteq off
      /\ failure = 0 =>
           /\ answer.actions = on /\ answer.guardTrue = on /\ answer.guardFalse = off
           /\ \A depth \in DOMAIN answer.histogram :
                answer.histogram[depth] = Cardinality({s \in reachable : Distance(s) = depth})

(* valid check, coverage and explain of a Rust machine: the verdict, the   *)
(* statistics and the explanation are about the machine, and not about the *)
(* order in which it was searched.                                         *)
MachineAnswersExact ==
  /\ query # "none" => VerdictExact
  /\ query = "coverage" => CoverageExact
  /\ query = "explain" => (answer.status = "error" <=> failure = 0 \/ StateOf(failure) \in Range(Machine.init))

Functional ==
  Len(Roots) = 1 /\ \A s \in States : \A a \in Actions : Len(Machine.step[s][a]) <= 1

ReplaysAsExpected(v) ==
  /\ Replay(v.ids) = <<Last(v.observed)>>
  /\ v.holds <=> Last(v.observed) \in request.holds
  /\ v.enabled = "false" => ~Enabled(Machine, Last(v.observed), v.focus)

IsWitness(v) ==
  /\ v.observed[1] \in Range(Machine.step[v.initial][v.ids[1]])
  /\ {v.initial, v.observed[1]} \subseteq Reachable \cap request.holds

ShortestEnabling(v) ==
  LET enabling == {s \in Reachable : Enabled(Machine, s, v.focus)} IN
  IF v.enabled = "true"
  THEN Last(v.observed) \in enabling /\ \A s \in enabling : Len(v.ids) <= Distance(s)
  ELSE failure = 0 => enabling = {}

(* Of a machine with one initial state and at most one successor for each  *)
(* action, a vector replays to what it expects, and an action it calls     *)
(* blocked is blocked there.  A one-step witness is a step of any machine; *)
(* an enablement vector is a shortest way to enable its action, or there   *)
(* is none; and a violation behind a step always gives a counterexample.   *)
MachineVectorsReplay ==
  query \in Strategies =>
    /\ \A v \in answer.vectors :
         IF failure = 0 /\ (query \in {"property", "witness"} \/ FallsBack(query)) THEN IsWitness(v)
         ELSE Functional => ReplaysAsExpected(v)
    /\ query = "enablement" => \A v \in answer.vectors : ShortestEnabling(v)
    /\ query \in {"property", "counterexample"} /\ Violating # {} =>
         answer.vectors # {} \/ ~(Range(Machine.init) \subseteq request.holds)

(* Both: a Rust machine is answered for exactly, by verdicts and vectors.  *)
MachineExact == MachineAnswersExact /\ MachineVectorsReplay
===============================================================================
