---------------------------- MODULE ExplicitSearch ----------------------------
(***************************************************************************)
(* engine::explicit::run_explicit: the worklist search that decides a      *)
(* property over the reachable states of a model.  One step of this        *)
(* specification is one pop of the frontier, or one iteration of the loop  *)
(* over model.actions; the clock runs beside it.                           *)
(***************************************************************************)
EXTENDS TransitionSystem

CONSTANT
  Inputs  \* what may be asked: a model, a property and scenario, and a RunPlan

ASSUME InputsAssumption ==
  Inputs \subseteq [model : ModelType, query : QueryType, plan : PlanType]

VARIABLES
  model, query, plan,  \* the arguments
  nodes,               \* Vec<NodeRecord>: state, depth, parent and action
  edges,               \* per node, the indices of its successors in order
  frontier,            \* VecDeque of node indices
  visited,             \* HashMap from state to node index
  cut,                 \* bounded_frontier_cut
  sawState, sawStep,   \* matched_states > 0, matched_transitions > 0
  current, nextAction, \* node_index and the action_index about to be tried
  anyEnabled,          \* enabled > 0
  expired,             \* the time limit has passed
  pc, outcome          \* where the search is, and the CheckOutcome

inputs == <<model, query, plan>>
graph == <<nodes, edges, frontier, visited>>
marks == <<cut, sawState, sawStep>>
cursor == <<current, nextAction, anyEnabled>>
vars == <<inputs, graph, marks, cursor, expired, pc, outcome>>

NodeType == [state : States, depth : Nat, parent : Nat, via : Nat]

Pending == [status |-> "pending", assurance |-> "none", vacuous |-> FALSE,
            reason |-> "none", end |-> 0]

Reasons ==
  {"none", "violated", "deadlock", "cover_reached", "exhausted", "cover_unreached",
   "time_limit", "state_limit", "evaluation", "transition", "temporal", "proved"}

OutcomeType ==
  [status : {"pending", "pass", "fail", "unknown", "error"},
   assurance : {"none", "complete", "bounded", "incomplete"},
   vacuous : BOOLEAN, reason : Reasons, end : Nat]

Init ==
  /\ \E i \in Inputs : model = i.model /\ query = i.query /\ plan = i.plan
  /\ nodes = <<[state |-> model.init, depth |-> 0, parent |-> 0, via |-> 0]>>
  /\ edges = << <<>> >>
  /\ frontier = <<1>>
  /\ visited = [s \in {model.init} |-> 1]
  /\ cut = FALSE /\ sawState = FALSE /\ sawStep = FALSE
  /\ current = 0 /\ nextAction = 0 /\ anyEnabled = FALSE
  /\ expired = FALSE
  /\ pc = "pop"
  /\ outcome = Pending

-------------------------------------------------------------------------------
(* Results.  end is the node a trace leads to, 0 when there is no trace.   *)

Answer(status, assurance, reason, vacuous, end) ==
  /\ outcome' = [status |-> status, assurance |-> assurance, vacuous |-> vacuous,
                 reason |-> reason, end |-> end]
  /\ pc' = "done"

(* fail_result, deadlock_result and cover_hit_result grade by the plan.    *)
EarlyAssurance == IF plan.max_depth = {} THEN "complete" ELSE "bounded"

FinalAssurance == IF plan.max_depth # {} /\ cut THEN "bounded" ELSE "complete"

Stop(reason) == Answer("unknown", "incomplete", reason, FALSE, Len(nodes))

Error(reason) == Answer("error", "incomplete", reason, FALSE, 0)

(* Mutant: the node beyond the bound is kept.                               *)
DepthBoundOffByOne(depth) == \E d \in plan.max_depth : depth + 1 >= d

(* hit_depth_bound and the two halves of resource_limits_hit, which looks  *)
(* at the clock first and so never reports the states once time is up.     *)
AtDepthBound(depth) == \E d \in plan.max_depth : depth >= d
OverBudget(seen) == ~expired /\ \E limit \in plan.max_states : seen > limit

-------------------------------------------------------------------------------
(* Taking a node from the frontier.                                        *)

(* Mutant: pop_back whatever the strategy.                                 *)
PositionOfLast == Len(frontier)

(* pop_next: pop_front under Bfs, pop_back under Dfs.                       *)
Position == IF plan.strategy = "bfs" THEN 1 ELSE Len(frontier)

Popped ==
  [k \in 1..(Len(frontier) - 1) |-> frontier[IF k < Position THEN k ELSE k + 1]]

PopNext(i) ==
  /\ pc = "pop"
  /\ frontier # <<>>
  /\ i = frontier[Position]
  /\ frontier' = Popped
  /\ UNCHANGED <<inputs, nodes, edges, visited, cut, sawStep, expired>>

StopAtTimeLimit ==
  \E i \in 1..Len(nodes) :
    /\ PopNext(i)
    /\ expired
    /\ Stop("time_limit")
    /\ UNCHANGED <<sawState, cursor>>

FailEvaluation ==
  \E i \in 1..Len(nodes) :
    /\ PopNext(i)
    /\ ~expired
    /\ MatchFaults(query, nodes[i].state)
    /\ Error("evaluation")
    /\ UNCHANGED <<sawState, cursor>>

(* The popped state decides the property: a violation, or a cover witness. *)
ReportState ==
  \E i \in 1..Len(nodes) : LET s == nodes[i].state IN
    /\ PopNext(i)
    /\ ~expired
    /\ ~MatchFaults(query, s) /\ Matches(query, s) /\ Triggered(query, s)
    /\ sawState' = TRUE
    /\ IF query.kind = "cover"
       THEN Answer("pass", EarlyAssurance, "cover_reached", FALSE, i)
       ELSE Answer("fail", EarlyAssurance, "violated", FALSE, i)
    /\ UNCHANGED cursor

BeginExpansion ==
  \E i \in 1..Len(nodes) : LET s == nodes[i].state IN
    /\ PopNext(i)
    /\ ~expired
    /\ ~MatchFaults(query, s) /\ ~(Matches(query, s) /\ Triggered(query, s))
    /\ sawState' = (sawState \/ Matches(query, s))
    /\ current' = i /\ nextAction' = 1 /\ anyEnabled' = FALSE
    /\ pc' = "expand"
    /\ UNCHANGED outcome

-------------------------------------------------------------------------------
(* The loop over model.actions for the current node.                       *)

Source == nodes[current].state
Target == ApplyAction(model, Source, nextAction)

(* Mutant: the parent is the newest node.                                  *)
ChildOfNewest == [state |-> Target, depth |-> nodes[current].depth + 1,
                  parent |-> Len(nodes), via |-> nextAction]

Child == [state |-> Target, depth |-> nodes[current].depth + 1,
          parent |-> current, via |-> nextAction]

Trying == pc = "expand" /\ nextAction \in Actions

FailApply ==
  /\ Trying
  /\ Target = Fault
  /\ Error("transition")
  /\ UNCHANGED <<inputs, graph, marks, cursor, expired>>

(* Mutant: the loop does not go on to the next action.                     *)
SkipDisabledForever == Trying /\ Target = Disabled /\ UNCHANGED vars

SkipDisabled ==
  /\ Trying
  /\ Target = Disabled
  /\ nextAction' = nextAction + 1
  /\ UNCHANGED <<inputs, graph, marks, current, anyEnabled, expired, pc, outcome>>

(* The scope of the property, or the property, has no value on the step.   *)
FailStep ==
  /\ Trying
  /\ Target \in States
  /\ StepFaults(query, Source, nextAction, Target)
  /\ Error("evaluation")
  /\ UNCHANGED <<inputs, graph, marks, cursor, expired>>

(* A step that breaks the property ends the run; its target is appended    *)
(* to the copy of nodes the trace is built from, whatever its depth.       *)
ReportStep ==
  /\ Trying
  /\ Target \in States
  /\ StepViolates(query, Source, nextAction, Target)
  /\ nodes' = Append(nodes, Child)
  /\ anyEnabled' = TRUE /\ sawStep' = TRUE
  /\ Answer("fail", EarlyAssurance, "violated", FALSE, Len(nodes) + 1)
  /\ UNCHANGED <<inputs, edges, frontier, visited, cut, sawState, current,
                 nextAction, expired>>

(* What every enabled, unobjectionable step does before it is recorded.    *)
Take ==
  /\ Trying
  /\ Target \in States
  /\ ~StepFaults(query, Source, nextAction, Target)
  /\ ~StepViolates(query, Source, nextAction, Target)
  /\ anyEnabled' = TRUE
  /\ sawStep' = (sawStep \/ StepInScope(query, Source, nextAction, Target))
  /\ UNCHANGED <<inputs, sawState, current, expired>>

(* Mutant: nothing records that the bound cut a step off.                  *)
CutSilently ==
  /\ Take
  /\ AtDepthBound(nodes[current].depth)
  /\ nextAction' = nextAction + 1
  /\ UNCHANGED <<graph, cut, pc, outcome>>

CutAtDepthBound ==
  /\ Take
  /\ AtDepthBound(nodes[current].depth)
  /\ cut' = TRUE
  /\ nextAction' = nextAction + 1
  /\ UNCHANGED <<graph, pc, outcome>>

(* Mutant: only steps to new states become edges.                          *)
MeetVisitedWithoutEdge ==
  /\ Take
  /\ ~AtDepthBound(nodes[current].depth)
  /\ Target \in DOMAIN visited
  /\ nextAction' = nextAction + 1
  /\ UNCHANGED <<graph, cut, pc, outcome>>

MeetVisited ==
  /\ Take
  /\ ~AtDepthBound(nodes[current].depth)
  /\ Target \in DOMAIN visited
  /\ edges' = [edges EXCEPT ![current] = Append(@, visited[Target])]
  /\ nextAction' = nextAction + 1
  /\ UNCHANGED <<nodes, frontier, visited, cut, pc, outcome>>

(* A new state is marked visited, and counted, before it becomes a node.   *)
Discover ==
  /\ Take
  /\ ~AtDepthBound(nodes[current].depth)
  /\ Target \notin DOMAIN visited
  /\ visited' = [s \in DOMAIN visited \cup {Target} |->
                   IF s = Target THEN Len(nodes) + 1 ELSE visited[s]]
  /\ UNCHANGED cut

StopAtStateLimit ==
  /\ Discover
  /\ OverBudget(Cardinality(DOMAIN visited) + 1)
  /\ Stop("state_limit")
  /\ UNCHANGED <<nodes, edges, frontier, nextAction>>

AddNode ==
  /\ Discover
  /\ ~OverBudget(Cardinality(DOMAIN visited) + 1)
  /\ nodes' = Append(nodes, Child)
  /\ edges' = Append([edges EXCEPT ![current] = Append(@, Len(nodes) + 1)], <<>>)
  /\ frontier' = Append(frontier, Len(nodes) + 1)
  /\ nextAction' = nextAction + 1
  /\ UNCHANGED <<pc, outcome>>

-------------------------------------------------------------------------------
(* After the last action.                                                  *)

Tried == pc = "expand" /\ nextAction \notin Actions

(* Mutant: a node without recorded edges is taken for a deadlock.          *)
IsDeadlockByEdges ==
  query.kind = "deadlock_freedom" /\ edges[current] = <<>> /\ Matches(query, Source)

IsDeadlock ==
  query.kind = "deadlock_freedom" /\ ~anyEnabled /\ Matches(query, Source)

ReportDeadlock ==
  /\ Tried
  /\ IsDeadlock
  /\ Answer("fail", EarlyAssurance, "deadlock", FALSE, current)
  /\ UNCHANGED <<inputs, graph, marks, cursor, expired>>

FinishNode ==
  /\ Tried
  /\ ~IsDeadlock
  /\ pc' = "pop"
  /\ current' = 0 /\ nextAction' = 0 /\ anyEnabled' = FALSE
  /\ UNCHANGED <<inputs, graph, marks, expired, outcome>>

(* The frontier is empty: everything within the bounds has been seen.      *)
Vacuous ==
  IF query.kind = "transition" THEN ~sawStep ELSE ~sawState /\ Filtered(query)

Conclude ==
  /\ pc = "pop"
  /\ frontier = <<>>
  /\ query.kind # "temporal"
  /\ IF query.kind = "cover"
     THEN Answer("fail", FinalAssurance, "cover_unreached", Vacuous, 0)
     ELSE Answer("pass", FinalAssurance, "exhausted", Vacuous, 0)
  /\ UNCHANGED <<inputs, graph, marks, cursor, expired>>

(* A temporal property is evaluated on the finished graph (TemporalCheck). *)
HandToTemporal ==
  /\ pc = "pop"
  /\ frontier = <<>>
  /\ query.kind = "temporal"
  /\ pc' = "temporal"
  /\ UNCHANGED <<inputs, graph, marks, cursor, expired, outcome>>

(* start.elapsed() reaches time_limit_ms at any moment.                    *)
Tick ==
  /\ plan.timed /\ ~expired /\ pc # "done"
  /\ expired' = TRUE
  /\ UNCHANGED <<inputs, graph, marks, cursor, pc, outcome>>

SearchStep ==
  \/ StopAtTimeLimit \/ FailEvaluation \/ ReportState \/ BeginExpansion
  \/ FailApply \/ SkipDisabled \/ FailStep \/ ReportStep
  \/ CutAtDepthBound \/ MeetVisited \/ StopAtStateLimit \/ AddNode
  \/ ReportDeadlock \/ FinishNode \/ Conclude \/ HandToTemporal

Next == SearchStep \/ Tick

Spec == Init /\ [][Next]_vars

(* run_explicit is one synchronous call: it keeps executing.               *)
FairSpec == Spec /\ WF_vars(SearchStep)

-------------------------------------------------------------------------------
(* Types: every index points at a node, and a pending run has no answer.   *)
TypeOK ==
  /\ model \in ModelType /\ query \in QueryType /\ plan \in PlanType
  /\ nodes \in Seq(NodeType) /\ Len(nodes) >= 1
  /\ edges \in Seq(Seq(Nat))
  /\ frontier \in Seq(Nat) /\ \A k \in 1..Len(frontier) : frontier[k] \in 1..Len(nodes)
  /\ DOMAIN visited \subseteq States /\ \A s \in DOMAIN visited : visited[s] \in Nat
  /\ cut \in BOOLEAN /\ sawState \in BOOLEAN /\ sawStep \in BOOLEAN
  /\ current \in 0..Len(nodes) /\ nextAction \in Nat /\ anyEnabled \in BOOLEAN
  /\ expired \in BOOLEAN
  /\ pc \in {"pop", "expand", "temporal", "done"}
  /\ pc = "expand" => current # 0
  /\ outcome \in OutcomeType /\ outcome.end <= Len(nodes)
  /\ pc = "done" <=> outcome.status # "pending"

Contract == INSTANCE VerdictContract WITH
  verdict <- [status |-> outcome.status, assurance |-> outcome.assurance,
              vacuous |-> outcome.vacuous, reason |-> outcome.reason]

(* run_explicit answers once, and only with what the reachable states      *)
(* justify: a failure is reachable, a complete pass overlooked nothing, a  *)
(* bounded breadth-first pass nothing within max_depth, the vacuity flag   *)
(* is exact, unknown means a limit, and an error a reachable fault.        *)
ImplementsContract == Contract!Spec

Deciding == DecidingStates(model, query)
FoundIt == outcome.reason \in {"violated", "deadlock", "cover_reached"}
Exhaustive == outcome.reason \in {"exhausted", "cover_unreached"}

(* build_trace follows parents: each node is one real step of the model    *)
(* after its parent, so every trace starts in the initial state.           *)
NodesFollowModel ==
  \A i \in 1..Len(nodes) : LET n == nodes[i] IN
    IF i = 1 THEN n.state = model.init /\ n.depth = 0 /\ n.parent = 0
    ELSE /\ n.parent \in 1..(i - 1)
         /\ n.via \in Actions
         /\ ApplyAction(model, nodes[n.parent].state, n.via) = n.state
         /\ n.depth = nodes[n.parent].depth + 1

(* A reported trace is a run of the model from its initial state, and its  *)
(* last state (or step) exhibits what was reported.                        *)
TraceIsEvidence ==
  /\ NodesFollowModel
  /\ FoundIt =>
       LET last == nodes[outcome.end] IN
       IF query.kind = "transition"
       THEN StepViolates(query, nodes[last.parent].state, last.via, last.state)
       ELSE Decides(model, query, last.state)

(* Under Bfs the trace is as short as the model permits: no state nearer   *)
(* to the initial one decides the property.                                *)
ShortestUnderBfs ==
  FoundIt /\ plan.strategy = "bfs" =>
    LET depth == nodes[outcome.end].depth - (IF query.kind = "transition" THEN 1 ELSE 0)
    IN  depth > 0 => Within(model, depth - 1) \cap Deciding = {}

(* Both: what is reported is evidence, and no longer than it has to be.    *)
TraceIsShortestEvidence == TraceIsEvidence /\ ShortestUnderBfs

(* The graph handed to the temporal evaluation is the reachable graph, edge*)
(* by edge, unless the depth bound cut it.                                 *)
GraphIsReachableGraph ==
  pc = "temporal" /\ ~cut =>
    /\ DOMAIN visited = Reachable(model)
    /\ \A i \in 1..Len(nodes) :
         {nodes[edges[i][k]].state : k \in DOMAIN edges[i]} = Successors(model, nodes[i].state)

(* A run ends: every model here is finite and visited only grows.          *)
Terminates == <>(pc \in {"temporal", "done"})

===============================================================================
