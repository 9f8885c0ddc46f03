------------------------ MODULE ExplicitSearchInvariant ------------------------
(***************************************************************************)
(* Why the search is right, as an inductive invariant: at any moment the   *)
(* nodes that are neither waiting nor being expanded are settled, so that  *)
(* an empty frontier leaves a closed set of harmless states.               *)
(***************************************************************************)
EXTENDS ExplicitSearch

Searching == pc \in {"pop", "expand", "temporal"}

Shape ==
  /\ pc = "expand" => current \in 1..Len(nodes) /\ nextAction \in 1..(NumActions + 1)
  /\ pc \in {"pop", "temporal"} => current = 0
  /\ pc = "temporal" => frontier = <<>>
  /\ Searching => Len(edges) = Len(nodes)
  /\ cut => plan.max_depth # {}

(* visited is the inverse of nodes.                                        *)
Indexed ==
  Searching =>
    /\ \A s \in DOMAIN visited :
         visited[s] \in 1..Len(nodes) /\ nodes[visited[s]].state = s
    /\ \A i \in 1..Len(nodes) :
         nodes[i].state \in DOMAIN visited /\ visited[nodes[i].state] = i

NodesReachable ==
  /\ nodes[1].state = model.init
  /\ \A i \in 1..Len(nodes) : nodes[i].state \in Reachable(model)

(* Nothing about the step by action x from state s is left to do.          *)
StepSettled(s, x) ==
  LET t == ApplyAction(model, s, x) IN
  /\ t # Fault
  /\ t \in States =>
       /\ ~StepFaults(query, s, x, t) /\ ~StepViolates(query, s, x, t)
       /\ cut \/ t \in DOMAIN visited

StateHarmless(s) ==
  ~MatchFaults(query, s) /\ ~(Matches(query, s) /\ Triggered(query, s))

Settled(i) ==
  LET s == nodes[i].state IN
  /\ StateHarmless(s)
  /\ \A x \in Actions : StepSettled(s, x)
  /\ ~(query.kind = "deadlock_freedom" /\ Matches(query, s) /\ Deadlocked(model, s))

Waiting(i) == \E k \in 1..Len(frontier) : frontier[k] = i

AllSettled ==
  Searching => \A i \in 1..Len(nodes) : i = current \/ Waiting(i) \/ Settled(i)

(* The node being expanded is settled up to the action about to be tried.  *)
CurrentSettled ==
  pc = "expand" =>
    /\ StateHarmless(nodes[current].state)
    /\ \A x \in 1..(nextAction - 1) : StepSettled(nodes[current].state, x)
    /\ anyEnabled <=> \E x \in 1..(nextAction - 1) : Enabled(model, nodes[current].state, x)

(* What the settled nodes are for: the answer is never wrong.  Whatever was*)
(* found is reachable, and a complete exhaustion has overlooked nothing.   *)
VerdictSound ==
  /\ FoundIt => Deciding # {}
  /\ Exhaustive /\ outcome.assurance = "complete" => Deciding = {}

(* What has been settled: the search cannot be wrong.                      *)
SettledInv ==
  /\ TypeOK
  /\ Shape
  /\ Indexed
  /\ NodesReachable
  /\ AllSettled
  /\ CurrentSettled
  /\ VerdictSound

-------------------------------------------------------------------------------
(* Every edge is a step of the model.                                      *)
EdgesAreSteps ==
  Searching =>
    \A i \in 1..Len(nodes) : \A k \in DOMAIN edges[i] :
      /\ edges[i][k] \in 1..Len(nodes)
      /\ nodes[edges[i][k]].state \in Successors(model, nodes[i].state)

(* An edge of node i stands for the step by action x.                      *)
Drawn(i, x) ==
  LET t == ApplyAction(model, nodes[i].state, x) IN
  t \in States => \E k \in DOMAIN edges[i] : nodes[edges[i][k]].state = t

(* Unless the bound has cut something, a node that is neither waiting nor  *)
(* being expanded has an edge for every step, and the one being expanded   *)
(* one for every step that has been tried.                                 *)
StepsAreEdges ==
  Searching /\ ~cut =>
    /\ \A i \in 1..Len(nodes) : i = current \/ Waiting(i) \/ \A x \in Actions : Drawn(i, x)
    /\ pc = "expand" => \A x \in 1..(nextAction - 1) : Drawn(current, x)

GraphInv == EdgesAreSteps /\ StepsAreEdges

-------------------------------------------------------------------------------
(* Under Bfs the waiting nodes are the newest, and the node at the front   *)
(* is at most one level above the deepest.                                 *)
Waits == Len(nodes) - Len(frontier)
Front == IF pc = "expand" THEN current ELSE Waits + 1

LevelByLevel ==
  Searching /\ plan.strategy = "bfs" =>
    /\ \A k \in 1..Len(frontier) : frontier[k] = Waits + k
    /\ pc = "expand" => current = Waits
    /\ \A i, j \in 1..Len(nodes) : i <= j => nodes[i].depth <= nodes[j].depth
    /\ pc = "expand" \/ frontier # <<>> =>
         \A i \in 1..Len(nodes) : nodes[i].depth <= nodes[Front].depth + 1

(* No node lies beyond the bound.                                          *)
NodesWithinBound ==
  Searching => \A i \in 1..Len(nodes) : \A d \in plan.max_depth : nodes[i].depth <= d

(* The step by action x from node i is accounted for: it is remembered if  *)
(* it was asked about, and followed unless the node is at the bound.       *)
Recorded(i, x) ==
  LET s == nodes[i].state  t == ApplyAction(model, s, x) IN
  t \in States =>
    /\ StepInScope(query, s, x, t) => sawStep
    /\ \/ AtDepthBound(nodes[i].depth)
       \/ /\ t \in DOMAIN visited
          /\ plan.strategy = "bfs" => nodes[visited[t]].depth <= nodes[i].depth + 1

AllRecorded ==
  Searching =>
    /\ \A i \in 1..Len(nodes) : i = current \/ Waiting(i) \/ \A x \in Actions : Recorded(i, x)
    /\ pc = "expand" => \A x \in 1..(nextAction - 1) : Recorded(current, x)
    /\ \A i \in 1..Len(nodes) : Waiting(i) \/ (Matches(query, nodes[i].state) => sawState)

(* The marks the vacuity of an answer is read from speak of something real.*)
MarksMean ==
  /\ sawState => \E s \in Reachable(model) : Matches(query, s)
  /\ sawStep => \E s \in Reachable(model), x \in Actions :
       Enabled(model, s, x) /\ StepInScope(query, s, x, ApplyAction(model, s, x))

Unanswered == (pc # "done" => outcome = Pending) /\ (expired => plan.timed)

AccountInv ==
  /\ NodesFollowModel
  /\ LevelByLevel
  /\ NodesWithinBound
  /\ AllRecorded
  /\ MarksMean
  /\ Unanswered

SearchInv == SettledInv /\ GraphInv /\ AccountInv
===============================================================================
