------------------------- MODULE ExplicitSearchProofs -------------------------
(***************************************************************************)
(* Proofs about ExplicitSearch, for every model, property and plan, and    *)
(* about TemporalCheck, which evaluates on the graph the search leaves.    *)
(***************************************************************************)
EXTENDS ExplicitSearchInvariant, TemporalCheck, TransitionSystemProofs, SequenceTheorems, TLAPS

(* pop_front and pop_back take one index and leave every other one.        *)
LEMMA PopFacts ==
  ASSUME TypeOK, NEW i \in 1..Len(nodes), PopNext(i)
  PROVE  /\ frontier' \in Seq(Nat)
         /\ \A k \in 1..Len(frontier') : frontier'[k] \in 1..Len(nodes)
         /\ \A k \in 1..Len(frontier) :
              frontier[k] = i \/ \E j \in 1..Len(frontier') : frontier'[j] = frontier[k]
<1>1. frontier \in Seq(Nat) /\ Len(frontier) \in Nat \ {0}
  BY DEF TypeOK, PopNext
<1>2. \A k \in 1..Len(frontier) : frontier[k] \in 1..Len(nodes)
  BY DEF TypeOK
<1>3. Position \in 1..Len(frontier)
  BY <1>1 DEF Position
<1>4. frontier' = Popped /\ i = frontier[Position]
  BY DEF PopNext
<1> DEFINE p == Position
           n == Len(frontier)
<1>5. /\ frontier' \in Seq(Nat) /\ Len(frontier') = n - 1
      /\ \A k \in 1..(n - 1) : k < p => frontier'[k] = frontier[k]
      /\ \A k \in 1..(n - 1) : ~(k < p) => frontier'[k] = frontier[k + 1]
  BY <1>1, <1>3, <1>4 DEF Popped
<1> HIDE DEF p
<1>6. \A k \in 1..Len(frontier') : frontier'[k] \in 1..Len(nodes)
  <2> TAKE k \in 1..Len(frontier')
  <2>1. k \in 1..(n - 1) /\ k \in 1..n /\ k + 1 \in 1..n
    BY <1>1, <1>5
  <2>2. frontier'[k] = frontier[k] \/ frontier'[k] = frontier[k + 1]
    BY <1>5, <2>1
  <2> QED BY <1>2, <2>1, <2>2
<1>7. ASSUME NEW k \in 1..Len(frontier), frontier[k] # i
      PROVE  \E j \in 1..Len(frontier') : frontier'[j] = frontier[k]
  <2>0. k # p /\ p \in 1..n
    BY <1>3, <1>4, <1>7 DEF p
  <2>1. CASE k < p
    <3>1. k \in 1..Len(frontier') /\ frontier'[k] = frontier[k]
      BY <1>1, <1>5, <2>0, <2>1
    <3> QED BY <3>1
  <2>2. CASE k > p
    <3> DEFINE j == k - 1
    <3>1. j \in 1..(n - 1) /\ ~(j < p) /\ j + 1 = k
      BY <1>1, <2>0, <2>2
    <3> HIDE DEF j
    <3>2. j \in 1..Len(frontier') /\ frontier'[j] = frontier[k]
      BY <1>5, <3>1
    <3> QED BY <3>2
  <2> QED BY <1>1, <2>0, <2>1, <2>2
<1> QED BY <1>5, <1>6, <1>7

(* The search starts with the initial node waiting and nothing settled.    *)
LEMMA InitInv == Init => SettledInv
<1> SUFFICES ASSUME Init PROVE SettledInv
  OBVIOUS
<1>i. model \in ModelType /\ query \in QueryType /\ plan \in PlanType
  BY InputsAssumption DEF Init
<1> USE DEF Init
<1>0. /\ Len(nodes) = 1 /\ nodes[1].state = model.init
      /\ Len(frontier) = 1 /\ frontier[1] = 1
      /\ model.init \in States /\ model.init \in Reachable(model)
  BY <1>i, InitialNode
<1>1. TypeOK
  <2>1. nodes \in Seq(NodeType) /\ Len(nodes) >= 1
    BY <1>0 DEF NodeType
  <2>2. edges \in Seq(Seq(Nat))
    OBVIOUS
  <2>3. DOMAIN visited \subseteq States /\ \A s \in DOMAIN visited : visited[s] \in Nat
    BY <1>0
  <2>4. outcome \in OutcomeType /\ outcome.end <= Len(nodes) /\ outcome.status = "pending"
    BY <1>0 DEF OutcomeType, Reasons, Pending
  <2>5. frontier \in Seq(Nat) /\ \A k \in 1..Len(frontier) : frontier[k] \in 1..Len(nodes)
    BY <1>0
  <2>6. current \in 0..Len(nodes) /\ nextAction \in Nat /\ pc = "pop"
    BY <1>0
  <2>7. /\ anyEnabled \in BOOLEAN /\ expired \in BOOLEAN
        /\ cut \in BOOLEAN /\ sawState \in BOOLEAN /\ sawStep \in BOOLEAN
    BY Zenon
  <2>8. model \in ModelType /\ query \in QueryType /\ plan \in PlanType
    BY <1>i
  <2> HIDE DEF Init
  <2> QED BY <1>0, <2>1, <2>2, <2>3, <2>4, <2>5, <2>6, <2>7, <2>8 DEF TypeOK
<1>2. Shape
  BY <1>0 DEF Shape
<1>3. Indexed
  BY <1>0 DEF Indexed
<1>4. NodesReachable
  BY <1>0 DEF NodesReachable
<1>5. AllSettled
  BY <1>0 DEF AllSettled, Waiting
<1>6. CurrentSettled
  BY DEF CurrentSettled
<1>7. VerdictSound
  BY DEF VerdictSound, FoundIt, Exhaustive, Pending
<1> QED BY <1>1, <1>2, <1>3, <1>4, <1>5, <1>6, <1>7 DEF SettledInv

-------------------------------------------------------------------------------
(* An answer is well-formed and ends the run.                              *)
LEMMA AnswerType ==
  ASSUME NEW status \in {"pass", "fail", "unknown", "error"},
         NEW assurance \in {"complete", "bounded", "incomplete"},
         NEW reason \in Reasons, NEW vacuous \in BOOLEAN, NEW end \in Nat,
         Answer(status, assurance, reason, vacuous, end)
  PROVE  /\ outcome' \in OutcomeType
         /\ outcome'.end = end /\ outcome'.status = status /\ outcome'.status # "pending"
         /\ outcome'.reason = reason /\ outcome'.assurance = assurance
         /\ pc' = "done"
BY DEF Answer, OutcomeType

(* fail_result and the final assurance grade a run as complete or bounded. *)
LEMMA AssuranceType ==
  /\ EarlyAssurance \in {"complete", "bounded", "incomplete"}
  /\ FinalAssurance \in {"complete", "bounded", "incomplete"}
BY DEF EarlyAssurance, FinalAssurance

(* The vacuity flag is a Boolean.                                          *)
LEMMA VacuousType == TypeOK => Vacuous \in BOOLEAN
BY DEF Vacuous, Filtered, TypeOK

(* The node a step creates.                                                *)
LEMMA ChildType ==
  ASSUME TypeOK, Trying, Target \in States
  PROVE  /\ current \in 1..Len(nodes)
         /\ Child \in NodeType
         /\ Child.state = Target
         /\ Append(nodes, Child) \in Seq(NodeType)
         /\ Len(Append(nodes, Child)) = Len(nodes) + 1
         /\ \A i \in 1..Len(nodes) : Append(nodes, Child)[i] = nodes[i]
         /\ Append(nodes, Child)[Len(nodes) + 1] = Child
<1>1. current \in 1..Len(nodes) /\ nodes \in Seq(NodeType) /\ nextAction \in Nat
  BY DEF TypeOK, Trying
<1>2. Child \in NodeType /\ Child.state = Target
  <2>1. nodes[current] \in NodeType
    BY <1>1
  <2>2. nodes[current].depth \in Nat
    BY <2>1 DEF NodeType
  <2> QED BY <1>1, <2>2 DEF Child, NodeType
<1> QED BY <1>1, <1>2

(* The part of TypeOK that only an answer or a new node can disturb.       *)
LEMMA TypeOfAnswer ==
  ASSUME TypeOK, UNCHANGED <<inputs, edges, visited, cut, current, nextAction, expired>>,
         nodes' \in Seq(NodeType), Len(nodes') >= Len(nodes),
         frontier' \in Seq(Nat),
         \A k \in 1..Len(frontier') : frontier'[k] \in 1..Len(nodes),
         sawState' \in BOOLEAN, sawStep' \in BOOLEAN, anyEnabled' \in BOOLEAN,
         outcome' \in OutcomeType, outcome'.end <= Len(nodes'),
         outcome'.status # "pending", pc' = "done"
  PROVE  TypeOK'
<1>1. Len(nodes) \in Nat /\ Len(nodes') \in Nat /\ Len(nodes) >= 1
  BY DEF TypeOK
<1>2. \A k \in 1..Len(frontier') : frontier'[k] \in 1..Len(nodes')
  BY <1>1
<1>3. current' \in 0..Len(nodes')
  BY <1>1 DEF TypeOK
<1> QED BY <1>1, <1>2, <1>3 DEF TypeOK, inputs

(* Every step of run_explicit keeps every index inside its vector.         *)
LEMMA TypeStep == TypeOK /\ Shape /\ Next => TypeOK'
<1> SUFFICES ASSUME TypeOK, Shape, Next PROVE TypeOK'
  OBVIOUS
<1> Len(nodes) \in Nat /\ Len(nodes) >= 1 /\ nodes \in Seq(NodeType)
  BY DEF TypeOK
<1> \A k \in 1..Len(frontier) : frontier[k] \in 1..Len(nodes)
  BY DEF TypeOK
<1>1. CASE StopAtTimeLimit
  <2> PICK i \in 1..Len(nodes) : PopNext(i) /\ Stop("time_limit") /\ UNCHANGED <<sawState, cursor>>
    BY <1>1 DEF StopAtTimeLimit
  <2>1. /\ outcome' \in OutcomeType /\ outcome'.end = Len(nodes)
        /\ outcome'.status # "pending" /\ pc' = "done"
    BY AnswerType DEF Stop, Reasons
  <2>2. /\ UNCHANGED <<inputs, nodes, edges, visited, cut, current, nextAction, expired>>
        /\ sawState' \in BOOLEAN /\ sawStep' \in BOOLEAN /\ anyEnabled' \in BOOLEAN
    BY DEF PopNext, cursor, TypeOK
  <2> QED BY <2>1, <2>2, PopFacts, TypeOfAnswer
<1>2. CASE FailEvaluation
  <2> PICK i \in 1..Len(nodes) : PopNext(i) /\ Error("evaluation") /\ UNCHANGED <<sawState, cursor>>
    BY <1>2 DEF FailEvaluation
  <2>1. /\ outcome' \in OutcomeType /\ outcome'.end = 0
        /\ outcome'.status # "pending" /\ pc' = "done"
    BY AnswerType DEF Error, Reasons
  <2>2. /\ UNCHANGED <<inputs, nodes, edges, visited, cut, current, nextAction, expired>>
        /\ sawState' \in BOOLEAN /\ sawStep' \in BOOLEAN /\ anyEnabled' \in BOOLEAN
    BY DEF PopNext, cursor, TypeOK
  <2> QED BY <2>1, <2>2, PopFacts, TypeOfAnswer
<1>3. CASE ReportState
  <2> PICK i \in 1..Len(nodes) :
        /\ PopNext(i) /\ sawState' = TRUE /\ UNCHANGED cursor
        /\ \/ Answer("pass", EarlyAssurance, "cover_reached", FALSE, i)
           \/ Answer("fail", EarlyAssurance, "violated", FALSE, i)
    BY <1>3 DEF ReportState
  <2>1. /\ outcome' \in OutcomeType /\ outcome'.end = i
        /\ outcome'.status # "pending" /\ pc' = "done"
    <3>1. CASE Answer("pass", EarlyAssurance, "cover_reached", FALSE, i)
      BY <3>1, AssuranceType DEF Answer, OutcomeType, Reasons
    <3>2. CASE Answer("fail", EarlyAssurance, "violated", FALSE, i)
      BY <3>2, AssuranceType DEF Answer, OutcomeType, Reasons
    <3> QED BY <3>1, <3>2
  <2>2. /\ UNCHANGED <<inputs, nodes, edges, visited, cut, current, nextAction, expired>>
        /\ sawState' \in BOOLEAN /\ sawStep' \in BOOLEAN /\ anyEnabled' \in BOOLEAN
    BY DEF PopNext, cursor, TypeOK
  <2> QED BY <2>1, <2>2, PopFacts, TypeOfAnswer
<1>4. CASE BeginExpansion
  <2> PICK i \in 1..Len(nodes) :
        /\ PopNext(i) /\ sawState' = (sawState \/ Matches(query, nodes[i].state))
        /\ current' = i /\ nextAction' = 1 /\ anyEnabled' = FALSE
        /\ pc' = "expand" /\ UNCHANGED outcome
    BY <1>4 DEF BeginExpansion
  <2>1. sawState' \in BOOLEAN
    BY DEF TypeOK
  <2>2. /\ UNCHANGED <<inputs, nodes, edges, visited, cut, sawStep, expired, outcome>>
        /\ pc = "pop"
    BY DEF PopNext
  <2>3. /\ frontier' \in Seq(Nat)
        /\ \A k \in 1..Len(frontier') : frontier'[k] \in 1..Len(nodes)
    BY PopFacts
  <2>4. current' \in 1..Len(nodes) /\ nextAction' \in Nat /\ anyEnabled' \in BOOLEAN
    OBVIOUS
  <2> QED BY <2>1, <2>2, <2>3, <2>4 DEF TypeOK, inputs
<1>5. CASE FailApply \/ FailStep
  <2>1. /\ outcome' \in OutcomeType /\ outcome'.end = 0
        /\ outcome'.status # "pending" /\ pc' = "done"
    BY <1>5, AnswerType DEF FailApply, FailStep, Error, Reasons
  <2>2. UNCHANGED <<inputs, graph, marks, cursor, expired>>
    BY <1>5 DEF FailApply, FailStep
  <2> QED BY <2>1, <2>2 DEF TypeOK, inputs, graph, marks, cursor
<1>6. CASE SkipDisabled
  BY <1>6 DEF SkipDisabled, Trying, TypeOK, inputs, graph, marks
<1>7. CASE ReportStep
  <2>1. /\ outcome' \in OutcomeType /\ outcome'.end = Len(nodes) + 1
        /\ outcome'.status # "pending" /\ pc' = "done"
    <3>1. Answer("fail", EarlyAssurance, "violated", FALSE, Len(nodes) + 1)
      BY <1>7 DEF ReportStep
    <3> QED BY <3>1, AssuranceType DEF Answer, OutcomeType, Reasons
  <2>2. /\ UNCHANGED <<inputs, edges, frontier, visited, cut, sawState, current, nextAction, expired>>
        /\ anyEnabled' = TRUE /\ sawStep' = TRUE
        /\ nodes' = Append(nodes, Child) /\ Trying /\ Target \in States
    BY <1>7 DEF ReportStep
  <2>3. nodes' \in Seq(NodeType) /\ Len(nodes') = Len(nodes) + 1
    BY <2>2, ChildType
  <2>4. frontier' \in Seq(Nat) /\ \A k \in 1..Len(frontier') : frontier'[k] \in 1..Len(nodes)
    BY <2>2 DEF TypeOK
  <2>5. sawState' \in BOOLEAN /\ sawStep' \in BOOLEAN /\ anyEnabled' \in BOOLEAN
    BY <2>2 DEF TypeOK
  <2> QED BY <2>1, <2>2, <2>3, <2>4, <2>5, TypeOfAnswer
<1>8. CASE CutAtDepthBound
  <2>1. sawStep' \in BOOLEAN
    BY <1>8 DEF CutAtDepthBound, Take, TypeOK, StepInScope, InScenario
  <2> QED BY <1>8, <2>1 DEF CutAtDepthBound, Take, Trying, TypeOK, inputs, graph
<1>9. CASE MeetVisited
  <2>1. sawStep' \in BOOLEAN
    BY <1>9 DEF MeetVisited, Take, TypeOK, StepInScope, InScenario
  <2>2. edges' \in Seq(Seq(Nat))
    <3>1. current \in 1..Len(edges) /\ edges \in Seq(Seq(Nat)) /\ visited[Target] \in Nat
      BY <1>9 DEF MeetVisited, Take, Trying, TypeOK, Shape, Searching
    <3>2. edges[current] \in Seq(Nat)
      BY <3>1
    <3>3. Append(edges[current], visited[Target]) \in Seq(Nat)
      BY <3>1, <3>2
    <3> QED BY <1>9, <3>1, <3>3 DEF MeetVisited
  <2> QED BY <1>9, <2>1, <2>2 DEF MeetVisited, Take, Trying, TypeOK, inputs
<1>10. CASE StopAtStateLimit
  <2>1. /\ outcome' \in OutcomeType /\ outcome'.end = Len(nodes)
        /\ outcome'.status # "pending" /\ pc' = "done"
    BY <1>10, AnswerType DEF StopAtStateLimit, Stop, Reasons
  <2>2. /\ UNCHANGED <<inputs, nodes, edges, frontier, cut, sawState, current, nextAction, expired>>
        /\ anyEnabled' = TRUE
        /\ sawStep' = (sawStep \/ StepInScope(query, Source, nextAction, Target))
    BY <1>10 DEF StopAtStateLimit, Discover, Take
  <2>3. sawStep' \in BOOLEAN
    BY <2>2 DEF TypeOK, StepInScope, InScenario
  <2>4. DOMAIN visited' \subseteq States /\ \A s \in DOMAIN visited' : visited'[s] \in Nat
    BY <1>10 DEF StopAtStateLimit, Discover, Take, TypeOK
  <2> QED BY <2>1, <2>2, <2>3, <2>4 DEF TypeOK, inputs
<1>11. CASE AddNode
  <2>1. Discover /\ Take /\ Trying /\ Target \in States
    BY <1>11 DEF AddNode, Discover, Take
  <2>2. nodes' = Append(nodes, Child) /\ frontier' = Append(frontier, Len(nodes) + 1)
        /\ edges' = Append([edges EXCEPT ![current] = Append(@, Len(nodes) + 1)], <<>>)
        /\ nextAction' = nextAction + 1 /\ UNCHANGED <<pc, outcome>>
    BY <1>11 DEF AddNode
  <2>3. nodes' \in Seq(NodeType) /\ Len(nodes') = Len(nodes) + 1
    BY <2>1, <2>2, ChildType
  <2>4. frontier' \in Seq(Nat) /\ \A k \in 1..Len(frontier') : frontier'[k] \in 1..Len(nodes')
    BY <2>2, <2>3 DEF TypeOK
  <2>5. edges' \in Seq(Seq(Nat))
    <3>1. current \in 1..Len(edges) /\ edges \in Seq(Seq(Nat))
      BY <2>1 DEF Trying, TypeOK, Shape, Searching
    <3>2. edges[current] \in Seq(Nat)
      BY <3>1
    <3>3. Append(edges[current], Len(nodes) + 1) \in Seq(Nat)
      BY <3>2
    <3>4. [edges EXCEPT ![current] = Append(@, Len(nodes) + 1)] \in Seq(Seq(Nat))
      BY <3>1, <3>3
    <3> QED BY <2>2, <3>4
  <2>6. DOMAIN visited' \subseteq States /\ \A s \in DOMAIN visited' : visited'[s] \in Nat
    BY <2>1 DEF Discover, TypeOK
  <2>7. sawStep' \in BOOLEAN /\ anyEnabled' \in BOOLEAN
    BY <2>1 DEF Take, TypeOK, StepInScope, InScenario
  <2>8. UNCHANGED <<inputs, cut, sawState, current, expired>> /\ nextAction \in Nat
    BY <2>1 DEF Discover, Take, TypeOK
  <2>9. current' \in 0..Len(nodes') /\ Len(nodes') >= 1
    BY <2>3, <2>8 DEF TypeOK
  <2>10. outcome'.end <= Len(nodes') /\ outcome' \in OutcomeType
    BY <2>2, <2>3 DEF TypeOK, OutcomeType
  <2>11. /\ pc' \in {"pop", "expand", "temporal", "done"}
         /\ pc' = "expand" => current' # 0
         /\ pc' = "done" <=> outcome'.status # "pending"
    BY <2>2, <2>8 DEF TypeOK
  <2>12. cut' \in BOOLEAN /\ sawState' \in BOOLEAN /\ expired' \in BOOLEAN
    BY <2>8 DEF TypeOK
  <2>13. model' \in ModelType /\ query' \in QueryType /\ plan' \in PlanType /\ nextAction' \in Nat
    BY <2>2, <2>8 DEF TypeOK, inputs
  <2> QED BY <2>3, <2>4, <2>5, <2>6, <2>7, <2>9, <2>10, <2>11, <2>12, <2>13 DEF TypeOK
<1>12. CASE ReportDeadlock
  <2>1. /\ outcome' \in OutcomeType /\ outcome'.end = current
        /\ outcome'.status # "pending" /\ pc' = "done"
    <3>1. current \in Nat
      BY DEF TypeOK
    <3> QED BY <1>12, <3>1, AnswerType, AssuranceType DEF ReportDeadlock, Reasons
  <2>2. UNCHANGED <<inputs, graph, marks, cursor, expired>>
    BY <1>12 DEF ReportDeadlock
  <2> QED BY <2>1, <2>2 DEF TypeOK, inputs, graph, marks, cursor
<1>13. CASE FinishNode
  <2>1. /\ UNCHANGED <<inputs, graph, marks, expired, outcome>>
        /\ pc = "expand" /\ pc' = "pop"
        /\ current' = 0 /\ nextAction' = 0 /\ anyEnabled' = FALSE
    BY <1>13 DEF FinishNode, Tried
  <2>2. current' \in 0..Len(nodes) /\ nextAction' \in Nat
    BY <2>1
  <2>3. anyEnabled' \in BOOLEAN
    BY <2>1
  <2> QED BY <2>1, <2>2, <2>3 DEF TypeOK, inputs, graph, marks
<1>14. CASE Conclude
  <2>1. /\ outcome' \in OutcomeType /\ outcome'.end = 0
        /\ outcome'.status # "pending" /\ pc' = "done"
    BY <1>14, AnswerType, AssuranceType, VacuousType DEF Conclude, Reasons
  <2>2. UNCHANGED <<inputs, graph, marks, cursor, expired>>
    BY <1>14 DEF Conclude
  <2> QED BY <2>1, <2>2 DEF TypeOK, inputs, graph, marks, cursor
<1>15. CASE HandToTemporal
  BY <1>15 DEF HandToTemporal, TypeOK, inputs, graph, marks, cursor
<1>16. CASE Tick
  BY <1>16 DEF Tick, TypeOK, inputs, graph, marks, cursor
<1> QED BY <1>1, <1>2, <1>3, <1>4, <1>5, <1>6, <1>7, <1>8, <1>9, <1>10, <1>11,
           <1>12, <1>13, <1>14, <1>15, <1>16 DEF Next, SearchStep

-------------------------------------------------------------------------------
(* The steps that answer, and the steps that go on.                        *)
Ending ==
  \/ StopAtTimeLimit \/ FailEvaluation \/ ReportState \/ FailApply \/ FailStep \/ ReportStep
  \/ StopAtStateLimit \/ ReportDeadlock \/ Conclude

(* A step that answers ends the search.                                    *)
LEMMA EndingStep ==
  ASSUME Ending
  PROVE  pc' = "done" /\ UNCHANGED <<model, query, plan, cut>>
<1> USE DEF Answer, Stop, Error, PopNext, inputs, graph, marks, cursor
<1>1. CASE StopAtTimeLimit
  BY <1>1 DEF StopAtTimeLimit
<1>2. CASE FailEvaluation
  BY <1>2 DEF FailEvaluation
<1>3. CASE ReportState
  BY <1>3 DEF ReportState
<1>4. CASE FailApply \/ FailStep
  BY <1>4 DEF FailApply, FailStep
<1>5. CASE ReportStep
  BY <1>5 DEF ReportStep
<1>6. CASE StopAtStateLimit
  BY <1>6 DEF StopAtStateLimit, Discover, Take
<1>7. CASE ReportDeadlock
  BY <1>7 DEF ReportDeadlock
<1>8. CASE Conclude
  BY <1>8 DEF Conclude
<1> QED BY <1>1, <1>2, <1>3, <1>4, <1>5, <1>6, <1>7, <1>8 DEF Ending

(* A step answers, or leaves the answer open.                              *)
LEMMA NextSplit ==
  Next => \/ Ending \/ BeginExpansion \/ SkipDisabled \/ CutAtDepthBound \/ MeetVisited
          \/ AddNode \/ FinishNode \/ HandToTemporal \/ Tick
BY DEF Next, SearchStep, Ending

(* What AddNode does, with its type facts at hand.                         *)
LEMMA AddNodeFacts ==
  ASSUME TypeOK, AddNode
  PROVE  /\ Trying /\ Target \in States /\ Target \notin DOMAIN visited
         /\ ~StepFaults(query, Source, nextAction, Target)
         /\ ~StepViolates(query, Source, nextAction, Target)
         /\ UNCHANGED <<model, query, plan, cut, sawState, current, expired, pc, outcome>>
         /\ nextAction' = nextAction + 1 /\ anyEnabled' = TRUE
         /\ Len(nodes) \in Nat /\ Len(nodes') = Len(nodes) + 1
         /\ \A i \in 1..Len(nodes) : nodes'[i] = nodes[i]
         /\ nodes'[Len(nodes) + 1].state = Target
         /\ DOMAIN visited' = DOMAIN visited \cup {Target}
         /\ visited'[Target] = Len(nodes) + 1
         /\ \A s \in DOMAIN visited : visited'[s] = visited[s]
         /\ Len(frontier') = Len(frontier) + 1
         /\ \A k \in 1..Len(frontier) : frontier'[k] = frontier[k]
         /\ frontier'[Len(frontier) + 1] = Len(nodes) + 1
         /\ Len(edges') = Len(edges) + 1
<1>1. /\ Trying /\ Target \in States /\ Target \notin DOMAIN visited
      /\ ~StepFaults(query, Source, nextAction, Target)
      /\ ~StepViolates(query, Source, nextAction, Target)
      /\ UNCHANGED <<model, query, plan, cut, sawState, current, expired, pc, outcome>>
      /\ nextAction' = nextAction + 1 /\ anyEnabled' = TRUE
  BY DEF AddNode, Discover, Take, inputs
<1>2. nodes' = Append(nodes, Child) /\ Len(nodes) \in Nat
  BY DEF AddNode, TypeOK
<1>3. /\ Len(nodes') = Len(nodes) + 1
      /\ \A i \in 1..Len(nodes) : nodes'[i] = nodes[i]
      /\ nodes'[Len(nodes) + 1].state = Target
  BY <1>1, <1>2, ChildType
<1>4. visited' = [s \in DOMAIN visited \cup {Target} |->
                   IF s = Target THEN Len(nodes) + 1 ELSE visited[s]]
  BY DEF AddNode, Discover
<1>5. /\ DOMAIN visited' = DOMAIN visited \cup {Target}
      /\ visited'[Target] = Len(nodes) + 1
      /\ \A s \in DOMAIN visited : visited'[s] = visited[s]
  BY <1>1, <1>4
<1>6. /\ Len(frontier') = Len(frontier) + 1
      /\ \A k \in 1..Len(frontier) : frontier'[k] = frontier[k]
      /\ frontier'[Len(frontier) + 1] = Len(nodes) + 1
  <2>1. frontier \in Seq(Nat) /\ frontier' = Append(frontier, Len(nodes) + 1)
    BY DEF AddNode, TypeOK
  <2> QED BY <1>2, <2>1
<1>7. Len(edges') = Len(edges) + 1
  <2> DEFINE linked == [edges EXCEPT ![current] = Append(@, Len(nodes) + 1)]
  <2>1. edges \in Seq(Seq(Nat)) /\ edges' = Append(linked, <<>>)
    BY DEF AddNode, TypeOK
  <2>2. DOMAIN linked = 1..Len(edges) /\ Len(edges) \in Nat
    BY <2>1
  <2>3. linked \in Seq({linked[k] : k \in 1..Len(edges)}) /\ Len(linked) = Len(edges)
    <3> DEFINE S == {linked[k] : k \in 1..Len(edges)}
    <3>1. \A k \in 1..Len(edges) : linked[k] \in S
      OBVIOUS
    <3>2. linked = [k \in 1..Len(edges) |-> linked[k]]
      BY <2>2
    <3> HIDE DEF linked, S
    <3>3. [k \in 1..Len(edges) |-> linked[k]] \in Seq(S)
      BY <2>2, <3>1, IsASeq
    <3> QED BY <2>2, <3>2, <3>3 DEF S
  <2> HIDE DEF linked
  <2> QED BY <2>1, <2>3
<1> QED BY <1>1, <1>2, <1>3, <1>5, <1>6, <1>7

(* Every step keeps the bookkeeping of the loop consistent with where it is.*)
LEMMA ShapeStep == TypeOK /\ Shape /\ Next => Shape'
<1> SUFFICES ASSUME TypeOK, Shape, Next PROVE Shape'
  OBVIOUS
<1> NumActions \in Nat /\ Len(nodes) \in Nat
  BY ActionsAssumption DEF TypeOK
<1>1. CASE Ending
  BY <1>1, EndingStep DEF Shape, Searching
<1>2. CASE BeginExpansion
  <2> PICK i \in 1..Len(nodes) :
        PopNext(i) /\ current' = i /\ nextAction' = 1 /\ pc' = "expand"
    BY <1>2 DEF BeginExpansion
  <2> QED BY DEF PopNext, Shape, Searching, inputs
<1>3. CASE SkipDisabled
  BY <1>3 DEF SkipDisabled, Trying, Actions, Shape, Searching, TypeOK, inputs, graph, marks
<1>4. CASE CutAtDepthBound
  <2>1. plan.max_depth # {}
    BY <1>4 DEF CutAtDepthBound, AtDepthBound
  <2> QED BY <1>4, <2>1 DEF CutAtDepthBound, Take, Trying, Actions, Shape, Searching,
                           TypeOK, inputs, graph
<1>5. CASE MeetVisited
  <2>1. Len(edges') = Len(edges)
    BY <1>5 DEF MeetVisited, TypeOK
  <2> QED BY <1>5, <2>1 DEF MeetVisited, Take, Trying, Actions, Shape, Searching,
                           TypeOK, inputs
<1>6. CASE AddNode
  <2>1. nextAction \in 1..NumActions /\ current \in 1..Len(nodes) /\ pc = "expand"
    BY <1>6, AddNodeFacts DEF Trying, Actions, Shape
  <2>2. Len(edges) = Len(nodes)
    BY <2>1 DEF Shape, Searching
  <2> QED BY <1>6, <2>1, <2>2, AddNodeFacts DEF Shape, Searching
<1>7. CASE FinishNode
  BY <1>7 DEF FinishNode, Tried, Shape, Searching, inputs, graph, marks
<1>8. CASE HandToTemporal
  BY <1>8 DEF HandToTemporal, Shape, Searching, inputs, graph, marks, cursor
<1>9. CASE Tick
  BY <1>9 DEF Tick, Shape, Searching, inputs, graph, marks, cursor
<1> QED BY NextSplit, <1>1, <1>2, <1>3, <1>4, <1>5, <1>6, <1>7, <1>8, <1>9

-------------------------------------------------------------------------------
(* Steps that leave the graph as it is.                                    *)
LEMMA SameGraph ==
  ASSUME BeginExpansion \/ SkipDisabled \/ CutAtDepthBound \/ MeetVisited
           \/ FinishNode \/ HandToTemporal \/ Tick
  PROVE  UNCHANGED <<model, query, plan, nodes, visited, outcome>>
<1> USE DEF PopNext, Take, inputs, graph, marks, cursor
<1>1. CASE BeginExpansion
  BY <1>1 DEF BeginExpansion
<1>2. CASE SkipDisabled \/ CutAtDepthBound \/ MeetVisited
  BY <1>2 DEF SkipDisabled, CutAtDepthBound, MeetVisited
<1>3. CASE FinishNode \/ HandToTemporal \/ Tick
  BY <1>3 DEF FinishNode, HandToTemporal, Tick
<1> QED BY <1>1, <1>2, <1>3

(* visited.insert and nodes.push happen together or the run ends.          *)
LEMMA IndexedStep == SettledInv /\ Next => Indexed'
<1> SUFFICES ASSUME SettledInv, Next PROVE Indexed'
  OBVIOUS
<1> TypeOK /\ Shape /\ Indexed
  BY DEF SettledInv
<1>1. CASE Ending
  BY <1>1, EndingStep DEF Indexed, Searching
<1>2. CASE AddNode
  <2> Searching /\ Len(nodes) \in Nat
    BY <1>2, AddNodeFacts DEF Trying, Searching
  <2>1. ASSUME NEW s \in DOMAIN visited'
        PROVE  visited'[s] \in 1..Len(nodes') /\ nodes'[visited'[s]].state = s
    <3>1. CASE s = Target
      BY <1>2, <3>1, AddNodeFacts
    <3>2. CASE s \in DOMAIN visited
      <4>1. visited'[s] = visited[s] /\ visited[s] \in 1..Len(nodes)
            /\ nodes[visited[s]].state = s
        BY <1>2, <3>2, AddNodeFacts DEF Indexed
      <4>2. nodes'[visited[s]] = nodes[visited[s]] /\ Len(nodes') = Len(nodes) + 1
        BY <1>2, <4>1, AddNodeFacts
      <4> QED BY <4>1, <4>2
    <3> QED BY <1>2, <2>1, <3>1, <3>2, AddNodeFacts
  <2>2. ASSUME NEW i \in 1..Len(nodes')
        PROVE  nodes'[i].state \in DOMAIN visited' /\ visited'[nodes'[i].state] = i
    <3>1. CASE i = Len(nodes) + 1
      BY <1>2, <3>1, AddNodeFacts
    <3>2. CASE i \in 1..Len(nodes)
      <4>1. nodes'[i] = nodes[i] /\ nodes[i].state \in DOMAIN visited
            /\ visited[nodes[i].state] = i
        BY <1>2, <3>2, AddNodeFacts DEF Indexed
      <4> QED BY <1>2, <4>1, AddNodeFacts
    <3>3. i = Len(nodes) + 1 \/ i \in 1..Len(nodes)
      BY <1>2, <2>2, AddNodeFacts
    <3> QED BY <3>1, <3>2, <3>3
  <2> QED BY <2>1, <2>2 DEF Indexed
<1>3. ASSUME ~Ending, ~AddNode PROVE Indexed'
  <2>1. UNCHANGED <<nodes, visited>>
    BY <1>3, NextSplit, SameGraph
  <2>2. Searching
    BY <1>3, NextSplit DEF BeginExpansion, PopNext, SkipDisabled, CutAtDepthBound, MeetVisited,
       Take, Trying, FinishNode, Tried, HandToTemporal, Tick, Searching, TypeOK
  <2> QED BY <2>1, <2>2 DEF Indexed
<1> QED BY <1>1, <1>2, <1>3

(* Only a step of the model adds a node, so nodes stay reachable.          *)
LEMMA NodesReachableStep == SettledInv /\ Next => NodesReachable'
<1> SUFFICES ASSUME SettledInv, Next PROVE NodesReachable'
  OBVIOUS
<1> TypeOK /\ NodesReachable /\ model \in ModelType
  BY DEF SettledInv, TypeOK
<1>1. ASSUME nodes' = Append(nodes, Child), Trying, Target \in States, model' = model
      PROVE  NodesReachable'
  <2>1. Source \in Reachable(model) /\ nextAction \in Actions
    BY <1>1, ChildType DEF NodesReachable, Source, Trying
  <2>2. Target \in Reachable(model)
    BY <1>1, <2>1, ReachableStep DEF Target
  <2>3. ASSUME NEW i \in 1..Len(nodes') PROVE nodes'[i].state \in Reachable(model)
    <3>1. i \in 1..Len(nodes) \/ i = Len(nodes) + 1
      BY <1>1, <2>3, ChildType DEF TypeOK
    <3> QED BY <1>1, <2>2, <3>1, ChildType DEF NodesReachable
  <2>4. nodes'[1].state = model.init
    <3>1. 1 \in 1..Len(nodes)
      BY DEF TypeOK
    <3> QED BY <1>1, <3>1, ChildType DEF NodesReachable
  <2> QED BY <1>1, <2>3, <2>4 DEF NodesReachable, Reachable
<1>2. ASSUME nodes' = nodes, model' = model PROVE NodesReachable'
  BY <1>2 DEF NodesReachable, Reachable
<1>3. CASE AddNode
  BY <1>1, <1>3, AddNodeFacts DEF AddNode
<1>4. CASE ReportStep
  BY <1>1, <1>4 DEF ReportStep, inputs
<1>5. CASE Ending /\ ~ReportStep
  BY <1>2, <1>5 DEF Ending, StopAtTimeLimit, FailEvaluation, ReportState, FailApply, FailStep,
     StopAtStateLimit, Discover, Take, ReportDeadlock, Conclude, PopNext, inputs, graph
<1>6. CASE ~Ending /\ ~AddNode
  BY <1>2, <1>6, NextSplit, SameGraph
<1> QED BY <1>3, <1>4, <1>5, <1>6

-------------------------------------------------------------------------------
(* A settled node stays settled: visited only grows, and cut is never      *)
(* taken back.                                                             *)
LEMMA SettledStays ==
  ASSUME NEW i, Settled(i), model' = model, query' = query,
         nodes'[i] = nodes[i], cut => cut', DOMAIN visited \subseteq DOMAIN visited'
  PROVE  Settled(i)'
BY DEF Settled, StateHarmless, StepSettled

(* A node leaves the worklist only when nothing about it is left to do.    *)
LEMMA AllSettledStep == SettledInv /\ Next => AllSettled'
<1> SUFFICES ASSUME SettledInv, Next PROVE AllSettled'
  OBVIOUS
<1> TypeOK /\ Shape /\ AllSettled /\ CurrentSettled
  BY DEF SettledInv
<1> NumActions \in Nat /\ Len(nodes) \in Nat /\ Len(frontier) \in Nat
  BY ActionsAssumption DEF TypeOK
<1>1. CASE Ending
  BY <1>1, EndingStep DEF AllSettled, Searching
<1>2. CASE BeginExpansion
  <2> PICK i \in 1..Len(nodes) : PopNext(i) /\ current' = i
    BY <1>2 DEF BeginExpansion
  <2>1. /\ UNCHANGED <<model, query, nodes, visited, cut>>
        /\ Searching /\ current = 0
    BY DEF PopNext, inputs, Searching, Shape
  <2>2. ASSUME NEW j \in 1..Len(nodes)
        PROVE  j = current' \/ Waiting(j)' \/ Settled(j)'
    <3>1. Waiting(j) \/ Settled(j)
      BY <2>1 DEF AllSettled
    <3>2. CASE Waiting(j)
      <4> PICK k \in 1..Len(frontier) : frontier[k] = j
        BY <3>2 DEF Waiting
      <4> QED BY PopFacts DEF Waiting
    <3>3. CASE Settled(j)
      BY <2>1, <3>3, SettledStays
    <3> QED BY <3>1, <3>2, <3>3
  <2> QED BY <2>1, <2>2 DEF AllSettled
<1>3. CASE SkipDisabled \/ CutAtDepthBound \/ MeetVisited
  <2>1. /\ UNCHANGED <<model, query, nodes, visited, frontier, current>>
        /\ cut => cut'
        /\ Searching
    BY <1>3 DEF SkipDisabled, CutAtDepthBound, MeetVisited, Take, Trying, Searching,
       inputs, graph, marks
  <2>2. ASSUME NEW j \in 1..Len(nodes)
        PROVE  j = current' \/ Waiting(j)' \/ Settled(j)'
    <3>1. j = current \/ Waiting(j) \/ Settled(j)
      BY <2>1 DEF AllSettled
    <3>2. CASE Settled(j)
      BY <2>1, <3>2, SettledStays
    <3>3. CASE Waiting(j) \/ j = current
      BY <2>1, <3>3 DEF Waiting
    <3> QED BY <3>1, <3>2, <3>3
  <2> QED BY <2>1, <2>2 DEF AllSettled
<1>4. CASE AddNode
  <2>1. ASSUME NEW j \in 1..Len(nodes')
        PROVE  j = current' \/ Waiting(j)' \/ Settled(j)'
    <3>1. CASE j = Len(nodes) + 1
      <4>1. Len(frontier) + 1 \in 1..Len(frontier')
        BY <1>4, AddNodeFacts
      <4> QED BY <1>4, <3>1, <4>1, AddNodeFacts DEF Waiting
    <3>2. CASE j \in 1..Len(nodes)
      <4>1. j = current \/ Waiting(j) \/ Settled(j)
        BY <1>4, <3>2, AddNodeFacts DEF AllSettled, Trying, Searching
      <4>2. CASE Waiting(j)
        <5> PICK k \in 1..Len(frontier) : frontier[k] = j
          BY <4>2 DEF Waiting
        <5>1. k \in 1..Len(frontier') /\ frontier'[k] = j
          BY <1>4, AddNodeFacts
        <5> QED BY <5>1 DEF Waiting
      <4>3. CASE Settled(j)
        BY <1>4, <3>2, <4>3, AddNodeFacts, SettledStays
      <4> QED BY <1>4, <4>1, <4>2, <4>3, AddNodeFacts
    <3>3. j = Len(nodes) + 1 \/ j \in 1..Len(nodes)
      BY <1>4, <2>1, AddNodeFacts
    <3> QED BY <3>1, <3>2, <3>3
  <2> QED BY <2>1 DEF AllSettled
<1>5. CASE FinishNode
  <2>1. /\ UNCHANGED <<model, query, nodes, visited, frontier, cut>>
        /\ pc = "expand" /\ nextAction \notin Actions /\ ~IsDeadlock
    BY <1>5 DEF FinishNode, Tried, inputs, graph, marks
  <2>2. nextAction - 1 = NumActions
    BY <2>1 DEF Shape, Actions
  <2>3. Settled(current)
    <3>1. /\ StateHarmless(nodes[current].state)
          /\ \A x \in Actions : StepSettled(nodes[current].state, x)
          /\ anyEnabled <=> \E x \in Actions : Enabled(model, nodes[current].state, x)
      BY <2>1, <2>2 DEF CurrentSettled, Actions
    <3>2. anyEnabled => ~Deadlocked(model, nodes[current].state)
      BY <3>1, StatesAssumption DEF Enabled, Deadlocked
    <3> QED BY <2>1, <3>1, <3>2 DEF Settled, IsDeadlock, Source
  <2>4. ASSUME NEW j \in 1..Len(nodes) PROVE Waiting(j)' \/ Settled(j)'
    BY <2>1, <2>3, SettledStays DEF AllSettled, Searching, Waiting
  <2> QED BY <2>1, <2>4 DEF AllSettled
<1>6. CASE HandToTemporal \/ Tick
  <2>1. /\ UNCHANGED <<model, query, nodes, visited, frontier, current, cut>>
        /\ Searching
    BY <1>6 DEF HandToTemporal, Tick, TypeOK, Searching, inputs, graph, marks, cursor
  <2>2. ASSUME NEW j \in 1..Len(nodes)
        PROVE  j = current' \/ Waiting(j)' \/ Settled(j)'
    <3>1. j = current \/ Waiting(j) \/ Settled(j)
      BY <2>1 DEF AllSettled
    <3>2. CASE Settled(j)
      BY <2>1, <3>2, SettledStays
    <3>3. CASE Waiting(j) \/ j = current
      BY <2>1, <3>3 DEF Waiting
    <3> QED BY <3>1, <3>2, <3>3
  <2> QED BY <2>1, <2>2 DEF AllSettled
<1> QED BY NextSplit, <1>1, <1>2, <1>3, <1>4, <1>5, <1>6

(* The loop over model.actions settles its node one action at a time.      *)
LEMMA CurrentSettledStep == SettledInv /\ Next => CurrentSettled'
<1> SUFFICES ASSUME SettledInv, Next, pc' = "expand" PROVE CurrentSettled'
  BY DEF CurrentSettled
<1> TypeOK /\ Shape /\ CurrentSettled
  BY DEF SettledInv
<1>1. CASE BeginExpansion
  <2> PICK i \in 1..Len(nodes) :
        /\ PopNext(i) /\ StateHarmless(nodes[i].state)
        /\ current' = i /\ nextAction' = 1 /\ anyEnabled' = FALSE
    BY <1>1 DEF BeginExpansion, StateHarmless
  <2> QED BY DEF PopNext, inputs, CurrentSettled, StateHarmless
<1>2. ASSUME Trying, nextAction' = nextAction + 1, UNCHANGED <<model, query, current>>,
             nodes'[current] = nodes[current], cut => cut',
             DOMAIN visited \subseteq DOMAIN visited',
             Target # Fault,
             Target \in States =>
               /\ ~StepFaults(query, Source, nextAction, Target)
               /\ ~StepViolates(query, Source, nextAction, Target)
               /\ cut' \/ Target \in DOMAIN visited',
             anyEnabled' <=> anyEnabled \/ Target \in States
      PROVE  CurrentSettled'
  <2> DEFINE s == nodes[current].state
  <2>1. /\ StateHarmless(s)
        /\ \A x \in 1..(nextAction - 1) : StepSettled(s, x)
        /\ anyEnabled <=> \E x \in 1..(nextAction - 1) : Enabled(model, s, x)
        /\ nextAction \in Nat
    BY <1>2 DEF CurrentSettled, Trying, TypeOK
  <2>2. nodes'[current'].state = s /\ nextAction' - 1 = nextAction
    BY <1>2, <2>1
  <2>3. StateHarmless(s)'
    BY <1>2, <2>1 DEF StateHarmless
  <2>4. \A x \in 1..nextAction : StepSettled(s, x)'
    <3> TAKE x \in 1..nextAction
    <3>1. CASE x = nextAction
      BY <1>2, <3>1 DEF Source, Target, StepSettled
    <3>2. CASE x \in 1..(nextAction - 1)
      BY <1>2, <2>1, <3>2 DEF StepSettled
    <3> QED BY <2>1, <3>1, <3>2
  <2>5. anyEnabled' <=> \E x \in 1..nextAction : Enabled(model, s, x)
    <3>1. Target \in States <=> Enabled(model, s, nextAction)
      BY DEF Target, Source, Enabled
    <3>2. \A x \in 1..nextAction : x = nextAction \/ x \in 1..(nextAction - 1)
      BY <2>1
    <3>3. nextAction \in 1..nextAction /\ \A x \in 1..(nextAction - 1) : x \in 1..nextAction
      BY <1>2, <2>1 DEF Trying, Actions
    <3> QED BY <1>2, <2>1, <3>1, <3>2, <3>3
  <2> QED BY <1>2, <2>2, <2>3, <2>4, <2>5 DEF CurrentSettled, Enabled, StepSettled, StateHarmless
<1>3. CASE SkipDisabled
  <2>1. /\ Trying /\ Target = Disabled /\ nextAction' = nextAction + 1
        /\ UNCHANGED <<model, query, current, nodes, visited, cut, anyEnabled>>
    BY <1>3 DEF SkipDisabled, inputs, graph, marks
  <2> QED BY <1>2, <2>1, StatesAssumption
<1>4. CASE CutAtDepthBound
  <2>1. /\ Trying /\ Target \in States /\ nextAction' = nextAction + 1 /\ cut' = TRUE
        /\ ~StepFaults(query, Source, nextAction, Target)
        /\ ~StepViolates(query, Source, nextAction, Target) /\ anyEnabled' = TRUE
        /\ UNCHANGED <<model, query, current, nodes, visited>>
    BY <1>4 DEF CutAtDepthBound, Take, inputs, graph
  <2> QED BY <1>2, <2>1, StatesAssumption
<1>5. CASE MeetVisited
  <2>1. /\ Trying /\ Target \in States /\ nextAction' = nextAction + 1
        /\ Target \in DOMAIN visited
        /\ ~StepFaults(query, Source, nextAction, Target)
        /\ ~StepViolates(query, Source, nextAction, Target) /\ anyEnabled' = TRUE
        /\ UNCHANGED <<model, query, current, nodes, visited, cut>>
    BY <1>5 DEF MeetVisited, Take, inputs
  <2> QED BY <1>2, <2>1, StatesAssumption
<1>6. CASE AddNode
  <2>1. current \in 1..Len(nodes)
    BY <1>6, AddNodeFacts, ChildType
  <2> QED BY <1>2, <1>6, <2>1, AddNodeFacts, StatesAssumption
<1>7. CASE Tick
  BY <1>7 DEF Tick, CurrentSettled, StateHarmless, StepSettled, inputs, graph, marks, cursor
<1>8. CASE Ending \/ FinishNode \/ HandToTemporal
  BY <1>8, EndingStep DEF FinishNode, HandToTemporal
<1> QED BY NextSplit, <1>1, <1>3, <1>4, <1>5, <1>6, <1>7, <1>8

(* A node all of whose actions are disabled decides deadlock freedom.      *)
LEMMA DeadlockDecides ==
  ASSUME SettledInv, Tried, IsDeadlock
  PROVE  /\ current \in 1..Len(nodes) /\ Source \in Reachable(model)
         /\ Decides(model, query, Source)
<1>0. /\ Shape /\ NodesReachable /\ CurrentSettled /\ model \in ModelType /\ NumActions \in Nat
      /\ pc = "expand"
  BY ActionsAssumption DEF SettledInv, TypeOK, Tried
<1>1. nextAction - 1 = NumActions /\ current \in 1..Len(nodes)
  BY <1>0 DEF Shape, Actions, Tried
<1>2. /\ \A x \in Actions : StepSettled(Source, x)
      /\ \A x \in Actions : ~Enabled(model, Source, x)
  BY <1>0, <1>1 DEF CurrentSettled, Actions, Source, IsDeadlock
<1>3. Source \in Reachable(model) /\ Source \in States
  BY <1>0, <1>1 DEF NodesReachable, Source, Reachable
<1>4. Deadlocked(model, Source)
  BY <1>0, <1>2, <1>3, ApplyType DEF StepSettled, Enabled, Deadlocked
<1> QED BY <1>1, <1>3, <1>4 DEF Decides, IsDeadlock

(* Nothing settled decides the property.                                   *)
LEMMA SettledDecidesNot ==
  ASSUME NEW i, Settled(i)
  PROVE  ~Decides(model, query, nodes[i].state) /\ ~Faulty(model, query, nodes[i].state)
BY DEF Settled, StateHarmless, StepSettled, Decides, Faulty, MatchFaults, Enabled

(* An empty frontier, with nothing cut, leaves every reachable state       *)
(* visited and settled.                                                    *)
LEMMA Exhaustion ==
  ASSUME SettledInv, pc = "pop", frontier = <<>>
  PROVE  /\ \A i \in 1..Len(nodes) : Settled(i)
         /\ ~cut => \A s \in Reachable(model) : \E i \in 1..Len(nodes) : nodes[i].state = s
<1>0. /\ TypeOK /\ Shape /\ Indexed /\ NodesReachable /\ AllSettled /\ model \in ModelType
      /\ Searching /\ current = 0
  BY DEF SettledInv, TypeOK, Searching, Shape
<1>1. \A i \in 1..Len(nodes) : Settled(i)
  BY <1>0 DEF AllSettled, Waiting
<1> DEFINE seen == DOMAIN visited
<1>2. \A s \in seen : \E i \in 1..Len(nodes) : nodes[i].state = s
  BY <1>0 DEF Indexed
<1>3. ASSUME ~cut PROVE Reachable(model) \subseteq seen
  <2>1. model.init \in seen
    <3>1. 1 \in 1..Len(nodes)
      BY <1>0 DEF TypeOK
    <3> QED BY <1>0, <3>1 DEF NodesReachable, Indexed
  <2>2. \A s \in seen : \A x \in Actions : StepSettled(s, x)
    BY <1>1, <1>2 DEF Settled
  <2>3. Closed(model, seen) /\ seen \subseteq States
    BY <1>0, <1>3, <2>1, <2>2 DEF Closed, Successors, StepSettled, TypeOK
  <2> QED BY <1>0, <2>3, ClosedCoversReachable
<1> QED BY <1>1, <1>2, <1>3

(* An answer is given only where the settled nodes justify it.             *)
LEMMA VerdictStep == SettledInv /\ Next => VerdictSound'
<1> SUFFICES ASSUME SettledInv, Next PROVE VerdictSound'
  OBVIOUS
<1> TypeOK /\ Shape /\ Indexed /\ NodesReachable /\ AllSettled /\ CurrentSettled /\ VerdictSound
  BY DEF SettledInv
<1> model \in ModelType /\ NumActions \in Nat /\ Len(nodes) \in Nat
  BY ActionsAssumption DEF TypeOK
<1>1. ASSUME UNCHANGED <<model, query, outcome>> PROVE VerdictSound'
  BY <1>1 DEF VerdictSound, FoundIt, Exhaustive, Deciding
<1>2. ASSUME UNCHANGED <<model, query>>,
             outcome'.reason \notin {"violated", "deadlock", "cover_reached",
                                     "exhausted", "cover_unreached"}
      PROVE  VerdictSound'
  BY <1>2 DEF VerdictSound, FoundIt, Exhaustive
<1>3. ASSUME UNCHANGED <<model, query>>, NEW s \in Reachable(model), Decides(model, query, s),
             outcome'.reason \notin {"exhausted", "cover_unreached"}
      PROVE  VerdictSound'
  BY <1>3 DEF VerdictSound, FoundIt, Exhaustive, Deciding, DecidingStates
<1>4. CASE StopAtTimeLimit
  BY <1>2, <1>4 DEF StopAtTimeLimit, PopNext, Stop, Answer, inputs
<1>5. CASE FailEvaluation
  BY <1>2, <1>5 DEF FailEvaluation, PopNext, Error, Answer, inputs
<1>6. CASE ReportState
  <2> PICK i \in 1..Len(nodes) :
        /\ PopNext(i)
        /\ Matches(query, nodes[i].state) /\ Triggered(query, nodes[i].state)
        /\ \/ Answer("pass", EarlyAssurance, "cover_reached", FALSE, i)
           \/ Answer("fail", EarlyAssurance, "violated", FALSE, i)
    BY <1>6 DEF ReportState
  <2>1. nodes[i].state \in Reachable(model) /\ Decides(model, query, nodes[i].state)
    BY DEF NodesReachable, Decides
  <2>2. outcome'.reason \in {"cover_reached", "violated"} /\ UNCHANGED <<model, query>>
    BY DEF Answer, PopNext, inputs
  <2> QED BY <1>3, <2>1, <2>2
<1>7. CASE FailApply \/ FailStep
  BY <1>2, <1>7 DEF FailApply, FailStep, Error, Answer, inputs
<1>8. CASE ReportStep
  <2>1. /\ Trying /\ Target \in States /\ StepViolates(query, Source, nextAction, Target)
        /\ UNCHANGED <<model, query>> /\ outcome'.reason = "violated"
    BY <1>8 DEF ReportStep, Answer, inputs
  <2>2. Source \in Reachable(model)
    BY <2>1, ChildType DEF NodesReachable, Source
  <2>3. Decides(model, query, Source)
    BY <2>1 DEF Decides, Enabled, Target, Trying
  <2> QED BY <1>3, <2>1, <2>2, <2>3
<1>9. CASE StopAtStateLimit
  BY <1>2, <1>9 DEF StopAtStateLimit, Discover, Take, Stop, Answer, inputs
<1>10. CASE ReportDeadlock
  <2>1. Tried /\ IsDeadlock /\ UNCHANGED <<model, query>> /\ outcome'.reason = "deadlock"
    BY <1>10 DEF ReportDeadlock, Answer, inputs
  <2> QED BY <1>3, <2>1, DeadlockDecides
<1>11. CASE Conclude
  <2>1. /\ UNCHANGED <<model, query>> /\ pc = "pop" /\ frontier = <<>>
        /\ outcome'.reason \in {"exhausted", "cover_unreached"}
        /\ outcome'.assurance = FinalAssurance
    BY <1>11 DEF Conclude, Answer, inputs
  <2>2. ASSUME outcome'.assurance = "complete" PROVE Deciding = {}
    <3>1. ~cut
      BY <2>1, <2>2 DEF FinalAssurance, Shape
    <3>2. \A s \in Reachable(model) : ~Decides(model, query, s)
      BY <2>1, <3>1, Exhaustion, SettledDecidesNot
    <3> QED BY <3>2 DEF Deciding, DecidingStates
  <2> QED BY <2>1, <2>2 DEF VerdictSound, FoundIt, Exhaustive, Deciding
<1>12. CASE ~Ending
  <2>1. UNCHANGED <<model, query, outcome>>
    BY <1>12, NextSplit, SameGraph, AddNodeFacts
  <2> QED BY <1>1, <2>1
<1> QED BY <1>4, <1>5, <1>6, <1>7, <1>8, <1>9, <1>10, <1>11, <1>12 DEF Ending

(* The invariant is inductive.                                             *)
LEMMA SettledStep == SettledInv /\ [Next]_vars => SettledInv'
<1> SUFFICES ASSUME SettledInv, [Next]_vars PROVE SettledInv'
  OBVIOUS
<1>1. CASE Next
  <2>1. TypeOK /\ Shape
    BY DEF SettledInv
  <2> QED BY <1>1, <2>1, TypeStep, ShapeStep, IndexedStep, NodesReachableStep,
             AllSettledStep, CurrentSettledStep, VerdictStep DEF SettledInv
<1>2. CASE UNCHANGED vars
  <2> USE <1>2 DEF vars, inputs, graph, marks, cursor
  <2>1. TypeOK' /\ Shape'
    BY DEF SettledInv, TypeOK, Shape, Searching
  <2>2. Indexed' /\ NodesReachable' /\ VerdictSound'
    BY DEF SettledInv, Indexed, Searching, NodesReachable, Reachable, VerdictSound,
       FoundIt, Exhaustive, Deciding
  <2>3. CurrentSettled'
    BY DEF SettledInv, CurrentSettled, StateHarmless, StepSettled
  <2>4. AllSettled'
    BY DEF SettledInv, AllSettled, Searching, Waiting, Settled, StateHarmless, StepSettled
  <2> QED BY <2>1, <2>2, <2>3, <2>4 DEF SettledInv
<1> QED BY <1>1, <1>2

-------------------------------------------------------------------------------
(* What is settled stays so.                                               *)
LEMMA Settles == Spec => []SettledInv
BY InitInv, SettledStep, PTL DEF Spec

(* run_explicit keeps its data in shape for every model, property and plan.*)
THEOREM TypeCorrect == Spec => []TypeOK
<1>1. SettledInv => TypeOK
  BY DEF SettledInv
<1> QED BY Settles, <1>1, PTL

-------------------------------------------------------------------------------
(* The graph.                                                              *)

(* edges has one list for each node.                                       *)
LEMMA EdgesType ==
  ASSUME TypeOK, Shape, Searching
  PROVE  /\ Len(nodes) \in Nat /\ Len(nodes) >= 1 /\ edges \in Seq(Seq(Nat)) /\ Len(edges) = Len(nodes)
         /\ \A i \in 1..Len(nodes) : edges[i] \in Seq(Nat)
<1>1. /\ Len(nodes) \in Nat /\ Len(nodes) >= 1
      /\ edges \in Seq(Seq(Nat)) /\ Len(edges) = Len(nodes)
  BY DEF TypeOK, Shape
<1> QED BY <1>1

(* Nodes and edges are only added.                                         *)
Grows ==
  /\ model' = model /\ Len(nodes') \in Nat /\ Len(nodes) \in Nat /\ Len(nodes) <= Len(nodes')
  /\ \A i \in 1..Len(nodes) :
       /\ nodes'[i] = nodes[i]
       /\ \A k \in DOMAIN edges[i] : k \in DOMAIN edges'[i] /\ edges'[i][k] = edges[i][k]

(* What is drawn stays drawn.                                              *)
LEMMA DrawnStays ==
  ASSUME Grows, EdgesAreSteps, Searching, NEW i \in 1..Len(nodes), NEW x, Drawn(i, x)
  PROVE  Drawn(i, x)'
<1> DEFINE t == ApplyAction(model, nodes[i].state, x)
<1>1. t' = t
  BY DEF Grows, ApplyAction
<1>2. ASSUME t \in States
      PROVE  \E k \in DOMAIN edges'[i] : nodes'[edges'[i][k]].state = t
  <2>1. PICK k \in DOMAIN edges[i] : nodes[edges[i][k]].state = t
    BY <1>2 DEF Drawn
  <2>2. edges[i][k] \in 1..Len(nodes)
    BY DEF EdgesAreSteps
  <2> QED BY <2>1, <2>2 DEF Grows
<1> QED BY <1>1, <1>2 DEF Drawn

(* The graph starts as one node without edges.                             *)
LEMMA InitGraph == Init => GraphInv
<1> SUFFICES ASSUME Init PROVE GraphInv
  OBVIOUS
<1>1. /\ Len(nodes) = 1 /\ Len(frontier) = 1 /\ frontier[1] = 1 /\ DOMAIN edges[1] = {}
      /\ pc = "pop"
  BY DEF Init
<1> QED BY <1>1 DEF GraphInv, EdgesAreSteps, StepsAreEdges, Waiting

(* The edge that MeetVisited and AddNode draw: from the node in hand to    *)
(* the one that holds the target.                                          *)
LEMMA OneEdge ==
  ASSUME SettledInv, GraphInv, Trying, Target \in States, Grows, Searching', current' = current,
         cut' = cut, nextAction' = nextAction + 1, pc' = "expand",
         NEW j \in 1..Len(nodes'), nodes'[j].state = Target,
         edges'[current] = Append(edges[current], j),
         \A i \in 1..Len(nodes') :
           i = current \/ (i \in 1..Len(nodes) /\ edges'[i] = edges[i]) \/ edges'[i] = <<>>,
         \A i \in 1..Len(nodes') : i \notin 1..Len(nodes) => Waiting(i)',
         \A i \in 1..Len(nodes) : Waiting(i) => Waiting(i)'
  PROVE  GraphInv'
<1>1. /\ Searching /\ TypeOK /\ Shape /\ current \in 1..Len(nodes) /\ nextAction \in Actions
      /\ EdgesAreSteps /\ StepsAreEdges /\ pc = "expand"
      /\ edges[current] \in Seq(Nat) /\ nextAction \in Nat
  BY EdgesType DEF SettledInv, GraphInv, Trying, Searching, Shape, Actions
<1>2. /\ edges'[current][Len(edges[current]) + 1] = j
      /\ DOMAIN edges'[current] = DOMAIN edges[current] \cup {Len(edges[current]) + 1}
      /\ \A k \in DOMAIN edges[current] : edges'[current][k] = edges[current][k]
  BY <1>1
<1>3. Target \in Successors(model, nodes[current].state)
  BY <1>1 DEF Successors, Target, Source
<1>4. EdgesAreSteps'
  <2> SUFFICES ASSUME NEW i \in 1..Len(nodes'), NEW k \in DOMAIN edges'[i]
               PROVE  /\ edges'[i][k] \in 1..Len(nodes')
                      /\ nodes'[edges'[i][k]].state \in Successors(model', nodes'[i].state)
    BY DEF EdgesAreSteps
  <2>1. CASE i = current /\ k = Len(edges[current]) + 1
    BY <1>1, <1>2, <1>3, <2>1 DEF Grows
  <2>2. CASE i \in 1..Len(nodes) /\ k \in DOMAIN edges[i] /\ edges'[i][k] = edges[i][k]
    <3>1. edges[i][k] \in 1..Len(nodes) /\ nodes[edges[i][k]].state \in Successors(model, nodes[i].state)
      BY <1>1, <2>2 DEF EdgesAreSteps
    <3>2. nodes'[edges[i][k]] = nodes[edges[i][k]] /\ nodes'[i] = nodes[i] /\ model' = model
      BY <2>2, <3>1 DEF Grows
    <3>3. edges[i][k] \in 1..Len(nodes')
      BY <3>1 DEF Grows
    <3> QED BY <2>2, <3>1, <3>2, <3>3
  <2>3. CASE edges'[i] = <<>>
    BY <2>3
  <2>4. CASE i = current
    BY <1>1, <1>2, <2>1, <2>2, <2>4
  <2>5. CASE i \in 1..Len(nodes) /\ edges'[i] = edges[i]
    BY <2>2, <2>5
  <2> QED BY <2>3, <2>4, <2>5
<1>5. ASSUME NEW x, x = nextAction PROVE Drawn(current, x)'
  <2>1. ApplyAction(model', nodes'[current].state, x) = Target
    BY <1>1, <1>5 DEF Grows, Target, Source, ApplyAction
  <2> QED BY <1>2, <2>1 DEF Drawn
<1>6. StepsAreEdges'
  <2> SUFFICES ASSUME ~cut'
               PROVE  /\ \A i \in 1..Len(nodes') :
                           i = current' \/ Waiting(i)' \/ \A x \in Actions : Drawn(i, x)'
                      /\ \A x \in 1..(nextAction' - 1) : Drawn(current, x)'
    BY DEF StepsAreEdges, Drawn
  <2>1. ASSUME NEW i \in 1..Len(nodes'), i # current, ~Waiting(i)', NEW x \in Actions
        PROVE  Drawn(i, x)'
    BY <1>1, <2>1, DrawnStays DEF StepsAreEdges
  <2>2. ASSUME NEW x \in 1..(nextAction' - 1) PROVE Drawn(current, x)'
    <3>1. CASE x = nextAction
      BY <1>5, <3>1
    <3>2. CASE x \in 1..(nextAction - 1)
      BY <1>1, <3>2, DrawnStays DEF StepsAreEdges
    <3> QED BY <1>1, <3>1, <3>2
  <2> QED BY <2>1, <2>2
<1> QED BY <1>4, <1>6 DEF GraphInv

(* An edge to a node already known is added to those of the node in hand.  *)
LEMMA MeetVisitedEdges ==
  ASSUME TypeOK, Shape, MeetVisited
  PROVE  /\ edges'[current] = Append(edges[current], visited[Target])
         /\ \A i \in 1..Len(nodes) : i = current \/ edges'[i] = edges[i]
         /\ UNCHANGED nodes /\ Grows
<1>1. pc = "expand" /\ Searching /\ current \in 1..Len(nodes)
  BY DEF MeetVisited, Take, Trying, Searching, Shape
<1>2. /\ UNCHANGED <<model, nodes>>
      /\ edges' = [edges EXCEPT ![current] = Append(@, visited[Target])]
  BY DEF MeetVisited, Take, inputs
<1>3. /\ edges'[current] = Append(edges[current], visited[Target])
      /\ \A i \in 1..Len(nodes) : i = current \/ edges'[i] = edges[i]
      /\ edges[current] \in Seq(Nat)
  BY <1>1, <1>2, EdgesType
<1>4. \A k \in DOMAIN edges[current] : k \in DOMAIN edges'[current] /\ edges'[current][k] = edges[current][k]
  BY <1>3
<1>5. \A i \in 1..Len(nodes) : \A k \in DOMAIN edges[i] :
        k \in DOMAIN edges'[i] /\ edges'[i][k] = edges[i][k]
  BY <1>3, <1>4
<1> QED BY <1>2, <1>3, <1>5 DEF Grows, TypeOK

(* What the step draws is the one edge to the node that holds the target.  *)
LEMMA MeetVisitedStep == ASSUME SettledInv, GraphInv, MeetVisited PROVE GraphInv'
<1>1. TypeOK /\ Shape /\ Indexed /\ Trying /\ Target \in States /\ Target \in DOMAIN visited
  BY DEF SettledInv, MeetVisited, Take
<1>2. Searching /\ current \in 1..Len(nodes) /\ pc = "expand"
  BY <1>1 DEF Trying, Searching, Shape
<1>3. UNCHANGED <<model, nodes, frontier, cut, current, pc>> /\ nextAction' = nextAction + 1
  BY DEF MeetVisited, Take, inputs
<1>4. /\ edges'[current] = Append(edges[current], visited[Target])
      /\ \A i \in 1..Len(nodes) : i = current \/ edges'[i] = edges[i]
      /\ Grows
  BY <1>1, MeetVisitedEdges
<1>5. visited[Target] \in 1..Len(nodes) /\ nodes[visited[Target]].state = Target
  BY <1>1, <1>2 DEF Indexed
<1>6. Searching' /\ \A i \in 1..Len(nodes) : Waiting(i) => Waiting(i)'
  BY <1>2, <1>3 DEF Searching, Waiting
<1> QED BY <1>1, <1>2, <1>3, <1>4, <1>5, <1>6, OneEdge

(* AddNode adds an edge to those of the node in hand, and a node without.  *)
LEMMA AddNodeEdges ==
  ASSUME TypeOK, Shape, AddNode
  PROVE  LET n == Len(nodes) IN
         /\ n \in Nat /\ Len(nodes') = n + 1 /\ nodes'[n + 1].state = Target
         /\ \A i \in 1..n : nodes'[i] = nodes[i]
         /\ edges[current] \in Seq(Nat)
         /\ edges'[current] = Append(edges[current], n + 1)
         /\ \A i \in 1..n : i = current \/ edges'[i] = edges[i]
         /\ edges'[n + 1] = <<>>
         /\ Grows
<1>1. Trying /\ Target \in States
  BY AddNodeFacts
<1>2. Searching /\ current \in 1..Len(nodes) /\ UNCHANGED model
  BY <1>1, AddNodeFacts DEF Trying, Searching, Shape
<1> DEFINE linked == [edges EXCEPT ![current] = Append(@, Len(nodes) + 1)]
           n == Len(nodes)
<1>3. /\ n \in Nat /\ edges \in Seq(Seq(Nat)) /\ Len(edges) = n
      /\ \A i \in 1..n : edges[i] \in Seq(Nat)
  BY <1>2, EdgesType
<1>4. edges' = Append(linked, <<>>)
  BY DEF AddNode
<1>5. linked \in Seq(Seq(Nat)) /\ Len(linked) = n
  <2>1. Append(edges[current], n + 1) \in Seq(Nat)
    BY <1>2, <1>3
  <2> QED BY <1>2, <1>3, <2>1
<1>6. linked[current] = Append(edges[current], n + 1) /\ \A i \in 1..n : i # current => linked[i] = edges[i]
  BY <1>2, <1>3
<1> HIDE DEF linked
<1>7. (\A i \in 1..n : edges'[i] = linked[i]) /\ edges'[n + 1] = <<>>
  <2>1. Len(linked) = n /\ n \in Nat
    BY <1>3, <1>5
  <2> HIDE DEF n
  <2> QED BY <1>4, <1>5, <2>1
<1>8. /\ edges'[current] = Append(edges[current], n + 1)
      /\ \A i \in 1..n : i = current \/ edges'[i] = edges[i]
      /\ Len(nodes') = n + 1 /\ nodes'[n + 1].state = Target
      /\ \A i \in 1..n : nodes'[i] = nodes[i]
  BY <1>2, <1>6, <1>7, AddNodeFacts
<1>9. \A k \in DOMAIN edges[current] : k \in DOMAIN edges'[current] /\ edges'[current][k] = edges[current][k]
  <2> DEFINE row == edges[current]
  <2>1. row \in Seq(Nat) /\ edges'[current] = Append(row, n + 1)
    BY <1>2, <1>3, <1>8
  <2> HIDE DEF row, n
  <2>2. \A k \in DOMAIN row : k \in DOMAIN Append(row, n + 1) /\ Append(row, n + 1)[k] = row[k]
    BY <2>1
  <2> QED BY <2>1, <2>2 DEF row
<1>10. Grows
  <2>1. \A i \in 1..n : \A k \in DOMAIN edges[i] : k \in DOMAIN edges'[i] /\ edges'[i][k] = edges[i][k]
    BY <1>8, <1>9
  <2>2. Len(nodes') \in Nat /\ n <= Len(nodes')
    BY <1>3, <1>8
  <2> QED BY <1>2, <1>3, <1>8, <2>1, <2>2 DEF Grows
<1> QED BY <1>2, <1>3, <1>7, <1>8, <1>10

(* AddNode draws one edge, to the node it adds, which waits.               *)
LEMMA AddNodeStep == ASSUME SettledInv, GraphInv, AddNode PROVE GraphInv'
<1>1. TypeOK /\ Shape /\ Trying /\ Target \in States
  BY AddNodeFacts DEF SettledInv
<1>2. /\ Searching /\ current \in 1..Len(nodes) /\ pc = "expand"
      /\ UNCHANGED <<model, cut, current, pc>> /\ nextAction' = nextAction + 1
  BY <1>1, AddNodeFacts DEF Trying, Searching, Shape
<1> DEFINE n == Len(nodes)
<1>3. /\ n \in Nat /\ Len(nodes') = n + 1 /\ nodes'[n + 1].state = Target
      /\ \A i \in 1..n : nodes'[i] = nodes[i]
      /\ edges'[current] = Append(edges[current], n + 1)
      /\ \A i \in 1..n : i = current \/ edges'[i] = edges[i]
      /\ edges'[n + 1] = <<>>
      /\ Grows
  BY <1>1, AddNodeEdges
<1>4. /\ \A i \in 1..n : Waiting(i) => Waiting(i)'
      /\ \A i \in 1..Len(nodes') : i \notin 1..n => Waiting(i)'
  <2>1. /\ Len(frontier) \in Nat /\ Len(frontier') = Len(frontier) + 1
        /\ \A k \in 1..Len(frontier) : frontier'[k] = frontier[k]
        /\ frontier'[Len(frontier) + 1] = n + 1
    <3>1. Len(frontier) \in Nat
      BY <1>1 DEF TypeOK
    <3> QED BY <1>1, <3>1, AddNodeFacts
  <2>2. \A i \in 1..n : Waiting(i) => Waiting(i)'
    BY <2>1 DEF Waiting
  <2>3. ASSUME NEW i, i = n + 1 PROVE Waiting(i)'
    BY <2>1, <2>3 DEF Waiting
  <2>4. \A i \in 1..Len(nodes') : i \notin 1..n => i = n + 1
    BY <1>3
  <2> QED BY <2>2, <2>3, <2>4
<1>5. \A i \in 1..Len(nodes') :
        i = current \/ (i \in 1..n /\ edges'[i] = edges[i]) \/ edges'[i] = <<>>
  <2>1. \A i \in 1..Len(nodes') : i \in 1..n \/ i = n + 1
    BY <1>3
  <2> QED BY <1>3, <2>1
<1>6. n + 1 \in 1..Len(nodes') /\ Searching' /\ pc' = "expand"
  BY <1>2, <1>3 DEF Searching
<1> QED BY <1>1, <1>2, <1>3, <1>4, <1>5, <1>6, OneEdge

(* A step that leaves the graph as it is keeps what was drawn.             *)
LEMMA GraphStays ==
  ASSUME GraphInv, UNCHANGED <<model, nodes, edges>>, Searching
  PROVE  EdgesAreSteps' /\ \A i \in 1..Len(nodes) : \A x : Drawn(i, x) => Drawn(i, x)'
BY DEF GraphInv, EdgesAreSteps, Drawn, Searching

(* Every edge drawn is a step, and every step tried is drawn.              *)
LEMMA GraphStep == SettledInv /\ GraphInv /\ Next => GraphInv'
<1> SUFFICES ASSUME SettledInv, GraphInv, Next PROVE GraphInv'
  OBVIOUS
<1> TypeOK /\ Shape /\ StepsAreEdges /\ Len(nodes) \in Nat
  BY DEF SettledInv, GraphInv, TypeOK
<1>1. CASE Ending
  BY <1>1, EndingStep DEF GraphInv, EdgesAreSteps, StepsAreEdges, Searching
<1>2. CASE BeginExpansion
  <2> PICK i \in 1..Len(nodes) :
        PopNext(i) /\ current' = i /\ nextAction' = 1 /\ pc' = "expand" /\ UNCHANGED cut
    BY <1>2 DEF BeginExpansion, PopNext
  <2>1. Searching /\ current = 0 /\ UNCHANGED <<model, nodes, edges>>
    BY DEF PopNext, Searching, Shape, inputs
  <2>2. \A j \in 1..Len(nodes) : j = i \/ (Waiting(j) => Waiting(j)')
    BY PopFacts DEF Waiting
  <2> QED BY <2>1, <2>2, GraphStays DEF GraphInv, StepsAreEdges
<1>3. CASE SkipDisabled
  <2>1. /\ UNCHANGED <<model, nodes, edges, frontier, cut, current, pc>> /\ Searching
        /\ nextAction' = nextAction + 1 /\ nextAction \in Nat
    BY <1>3 DEF SkipDisabled, Trying, Searching, TypeOK, inputs, graph, marks
  <2>2. ASSUME NEW x, x = nextAction PROVE Drawn(current, x)
    BY <1>3, <2>2, StatesAssumption DEF SkipDisabled, Drawn, Target, Source
  <2>3. current \in 1..Len(nodes)
    BY <1>3 DEF SkipDisabled, Trying, Shape
  <2>4. \A x \in 1..(nextAction' - 1) : x \in 1..(nextAction - 1) \/ x = nextAction
    BY <2>1
  <2> QED BY <2>1, <2>2, <2>3, <2>4, GraphStays DEF GraphInv, StepsAreEdges, Waiting, Searching
<1>4. CASE CutAtDepthBound
  <2>1. UNCHANGED <<model, nodes, edges>> /\ Searching /\ cut' = TRUE
    BY <1>4 DEF CutAtDepthBound, Take, Trying, Searching, inputs, graph
  <2> QED BY <2>1, GraphStays DEF GraphInv, StepsAreEdges
<1>5. CASE MeetVisited
  BY <1>5, MeetVisitedStep
<1>6. CASE AddNode
  BY <1>6, AddNodeStep
<1>7. CASE FinishNode
  <2>1. /\ UNCHANGED <<model, nodes, edges, frontier, cut>> /\ Searching
        /\ pc = "expand" /\ pc' = "pop" /\ nextAction \notin Actions
    BY <1>7 DEF FinishNode, Tried, Searching, inputs, graph, marks
  <2>2. current \in 1..Len(nodes) /\ Actions \subseteq 1..(nextAction - 1)
    BY <2>1, ActionsAssumption DEF Shape, Actions
  <2> QED BY <2>1, <2>2, GraphStays DEF GraphInv, StepsAreEdges, Waiting, Searching
<1>8. CASE HandToTemporal \/ Tick
  <2>1. /\ UNCHANGED <<model, nodes, edges, frontier, cut, current, nextAction>>
        /\ Searching' => Searching /\ (pc' = "expand" => pc = "expand")
    BY <1>8 DEF HandToTemporal, Tick, Searching, inputs, graph, marks, cursor
  <2>2. pc = "expand" => current \in 1..Len(nodes)
    BY DEF Shape
  <2>3. CASE Searching
    BY <2>1, <2>2, <2>3, GraphStays DEF GraphInv, StepsAreEdges, Waiting
  <2>4. CASE ~Searching
    BY <2>1, <2>4 DEF GraphInv, StepsAreEdges, EdgesAreSteps
  <2> QED BY <2>3, <2>4
<1> QED BY NextSplit, <1>1, <1>2, <1>3, <1>4, <1>5, <1>6, <1>7, <1>8

(* The edges stay right.                                                   *)
LEMMA DrawnStep == SettledInv /\ GraphInv /\ [Next]_vars => GraphInv'
<1> SUFFICES ASSUME SettledInv, GraphInv, UNCHANGED vars PROVE GraphInv'
  BY GraphStep
<1>1. UNCHANGED <<model, nodes, edges, frontier, cut, current, nextAction, pc>>
  BY DEF vars, inputs, graph, marks, cursor
<1>2. Searching' = Searching /\ (pc = "expand" => current \in 1..Len(nodes))
  BY <1>1 DEF SettledInv, Shape, Searching
<1>3. CASE Searching
  BY <1>1, <1>2, <1>3, GraphStays DEF GraphInv, StepsAreEdges, Waiting
<1>4. CASE ~Searching
  BY <1>2, <1>4 DEF GraphInv, StepsAreEdges, EdgesAreSteps
<1> QED BY <1>3, <1>4

(* The edges are right throughout.                                         *)
LEMMA Draws == Spec => []GraphInv
<1>1. Init => GraphInv
  BY InitGraph
<1> QED BY Settles, <1>1, DrawnStep, PTL DEF Spec

(* Once the frontier is empty, every step of every node is an edge.        *)
LEMMA GraphReached == SettledInv /\ GraphInv => GraphIsReachableGraph
<1> SUFFICES ASSUME SettledInv, GraphInv, pc = "temporal", ~cut
             PROVE  /\ DOMAIN visited = Reachable(model)
                    /\ \A i \in 1..Len(nodes) :
                         {nodes[edges[i][k]].state : k \in DOMAIN edges[i]}
                           = Successors(model, nodes[i].state)
  BY DEF GraphIsReachableGraph
<1>1. /\ TypeOK /\ Shape /\ Indexed /\ NodesReachable /\ EdgesAreSteps
      /\ StepsAreEdges /\ Searching /\ current = 0 /\ frontier = <<>>
      /\ Len(nodes) \in Nat /\ Len(nodes) >= 1
  BY DEF SettledInv, GraphInv, Searching, Shape, TypeOK
<1>2. \A i \in 1..Len(nodes) : \A x \in Actions : Drawn(i, x)
  BY <1>1 DEF StepsAreEdges, Waiting
<1>3. ASSUME NEW i \in 1..Len(nodes), NEW t \in Successors(model, nodes[i].state)
      PROVE  \E k \in DOMAIN edges[i] : nodes[edges[i][k]].state = t
  BY <1>2, <1>3 DEF Successors, Drawn
<1>4. \A i \in 1..Len(nodes) :
        {nodes[edges[i][k]].state : k \in DOMAIN edges[i]} = Successors(model, nodes[i].state)
  BY <1>1, <1>3 DEF EdgesAreSteps
<1>5. DOMAIN visited \subseteq Reachable(model)
  BY <1>1 DEF Indexed, NodesReachable
<1>6. Closed(model, DOMAIN visited) /\ DOMAIN visited \subseteq States
  <2>1. model.init \in DOMAIN visited
    BY <1>1 DEF Indexed, NodesReachable
  <2>2. ASSUME NEW s \in DOMAIN visited, NEW t \in Successors(model, s) PROVE t \in DOMAIN visited
    <3>1. visited[s] \in 1..Len(nodes) /\ nodes[visited[s]].state = s
      BY <1>1 DEF Indexed
    <3>2. PICK k \in DOMAIN edges[visited[s]] : nodes[edges[visited[s]][k]].state = t
      BY <1>3, <3>1, <2>2
    <3>3. edges[visited[s]][k] \in 1..Len(nodes)
      BY <1>1, <3>1 DEF EdgesAreSteps
    <3> QED BY <1>1, <3>2, <3>3 DEF Indexed
  <2>3. DOMAIN visited \subseteq States
    BY <1>1 DEF TypeOK
  <2> QED BY <2>1, <2>2, <2>3 DEF Closed
<1>7. Reachable(model) \subseteq DOMAIN visited
  BY <1>1, <1>6, ClosedCoversReachable DEF TypeOK
<1> QED BY <1>4, <1>5, <1>7

(* GraphIsReachableGraph: the nodes are the reachable states and the edges *)
(* their steps, unless the bound has cut something off.                    *)
THEOREM GraphCorrect == Spec => []GraphIsReachableGraph
BY Settles, Draws, GraphReached, PTL

-------------------------------------------------------------------------------
(* The account of what has been followed, asked about and left waiting.    *)

(* A node, a mark and an index entry stay as they are.                     *)
Keeps ==
  /\ UNCHANGED <<model, query, plan>>
  /\ Len(nodes) \in Nat /\ Len(nodes') \in Nat /\ Len(nodes) <= Len(nodes')
  /\ \A i \in 1..Len(nodes) : nodes'[i] = nodes[i]
  /\ \A s \in DOMAIN visited : s \in DOMAIN visited' /\ visited'[s] = visited[s]
  /\ (sawStep => sawStep') /\ (sawState => sawState')

(* The node AddNode makes.                                                 *)
LEMMA NewNode ==
  ASSUME TypeOK, AddNode
  PROVE  /\ nodes'[Len(nodes) + 1] = Child
         /\ current \in 1..Len(nodes) /\ nodes[current].depth \in Nat
         /\ Child.depth = nodes[current].depth + 1
         /\ ~AtDepthBound(nodes[current].depth)
         /\ sawStep' = (sawStep \/ StepInScope(query, Source, nextAction, Target))
<1>1. Trying /\ Target \in States /\ nodes' = Append(nodes, Child)
  BY AddNodeFacts DEF AddNode
<1>2. nodes \in Seq(NodeType) /\ current \in 1..Len(nodes)
  BY <1>1, ChildType DEF TypeOK
<1>3. nodes[current].depth \in Nat
  <2>1. nodes[current] \in NodeType
    BY <1>2
  <2> QED BY <2>1 DEF NodeType
<1> QED BY <1>1, <1>2, <1>3, ChildType DEF Child, AddNode, Discover, Take

(* A step that does not answer keeps what has been gathered.               *)
LEMMA GoingOnKeeps ==
  ASSUME TypeOK, Next, ~Ending
  PROVE  Keeps /\ UNCHANGED outcome
<1>0. Len(nodes) \in Nat
  BY DEF TypeOK
<1>1. CASE BeginExpansion
  <2>1. PICK i \in 1..Len(nodes) :
          UNCHANGED sawStep /\ sawState' = (sawState \/ Matches(query, nodes[i].state))
    BY <1>1 DEF BeginExpansion, PopNext
  <2>2. sawState => sawState'
    BY <2>1
  <2> QED BY <1>0, <1>1, <2>1, <2>2, SameGraph DEF Keeps
<1>4. CASE FinishNode \/ HandToTemporal \/ Tick \/ SkipDisabled
  <2>1. UNCHANGED <<sawStep, sawState>>
    BY <1>4 DEF FinishNode, HandToTemporal, Tick, SkipDisabled, marks
  <2> QED BY <1>0, <1>4, <2>1, SameGraph DEF Keeps
<1>2. CASE CutAtDepthBound \/ MeetVisited
  <2>1. UNCHANGED sawState /\ sawStep' = (sawStep \/ StepInScope(query, Source, nextAction, Target))
    BY <1>2 DEF CutAtDepthBound, MeetVisited, Take
  <2>2. sawStep => sawStep'
    BY <2>1
  <2> QED BY <1>0, <1>2, <2>1, <2>2, SameGraph DEF Keeps
<1>3. CASE AddNode
  <2>1. /\ UNCHANGED <<model, query, plan, sawState, outcome>> /\ Len(nodes') = Len(nodes) + 1
        /\ \A i \in 1..Len(nodes) : nodes'[i] = nodes[i]
        /\ DOMAIN visited' = DOMAIN visited \cup {Target}
        /\ \A s \in DOMAIN visited : visited'[s] = visited[s]
    BY <1>3, AddNodeFacts
  <2>2. sawStep => sawStep'
    BY <1>3, NewNode
  <2> QED BY <1>0, <2>1, <2>2 DEF Keeps
<1> QED BY <1>1, <1>2, <1>3, <1>4, NextSplit

(* The account opens with nothing followed, asked about or answered.       *)
LEMMA InitAccount == Init => AccountInv /\ TraceIsShortestEvidence
<1> SUFFICES ASSUME Init PROVE AccountInv /\ TraceIsShortestEvidence
  OBVIOUS
<1>1. /\ Len(nodes) = 1 /\ nodes[1].depth = 0 /\ nodes[1].state = model.init /\ nodes[1].parent = 0
      /\ Len(frontier) = 1 /\ frontier[1] = 1 /\ pc = "pop" /\ outcome = Pending
      /\ sawState = FALSE /\ sawStep = FALSE /\ expired = FALSE
  BY DEF Init
<1>2. plan \in PlanType
  BY InputsAssumption DEF Init
<1>3. LevelByLevel
  BY <1>1 DEF LevelByLevel, Waits, Front
<1>4. NodesWithinBound
  BY <1>1, <1>2 DEF NodesWithinBound, PlanType, Optional
<1>5. AllRecorded
  BY <1>1 DEF AllRecorded, Waiting
<1>6. MarksMean /\ Unanswered
  BY <1>1 DEF MarksMean, Unanswered
<1>7. ~FoundIt
  BY <1>1 DEF FoundIt, Pending
<1>8. NodesFollowModel
  BY <1>1 DEF NodesFollowModel
<1> QED BY <1>3, <1>4, <1>5, <1>6, <1>7, <1>8
        DEF AccountInv, TraceIsShortestEvidence, TraceIsEvidence, ShortestUnderBfs

(* Breadth-first, the search takes the oldest of the waiting nodes, which  *)
(* are the newest ones, and what it adds is one level below.               *)
LEMMA LevelStep == SettledInv /\ LevelByLevel /\ Next => LevelByLevel'
<1> SUFFICES ASSUME SettledInv, LevelByLevel, Next, Searching', plan'.strategy = "bfs" PROVE LevelByLevel'
  BY DEF LevelByLevel
<1>0. /\ TypeOK /\ Shape /\ nodes \in Seq(NodeType) /\ Len(nodes) \in Nat /\ frontier \in Seq(Nat)
      /\ Len(frontier) \in Nat /\ \A i \in 1..Len(nodes) : nodes[i].depth \in Nat
  <2>1. TypeOK /\ Shape /\ nodes \in Seq(NodeType) /\ frontier \in Seq(Nat)
    BY DEF SettledInv, TypeOK
  <2>2. \A i \in 1..Len(nodes) : nodes[i] \in NodeType
    BY <2>1
  <2> QED BY <2>1, <2>2 DEF NodeType
<1>1. CASE Ending
  BY <1>1, EndingStep DEF Searching
<1>2. CASE BeginExpansion
  <2> PICK i \in 1..Len(nodes) : PopNext(i) /\ current' = i /\ pc' = "expand"
    BY <1>2 DEF BeginExpansion
  <2>1. /\ pc = "pop" /\ frontier # <<>> /\ i = frontier[Position] /\ frontier' = Popped
        /\ UNCHANGED <<nodes, plan>> /\ Searching
    BY DEF PopNext, inputs, Searching
  <2>2. Position = 1 /\ plan.strategy = "bfs"
    BY <2>1 DEF Position
  <2>3. Len(frontier') = Len(frontier) - 1 /\ \A k \in 1..Len(frontier') : frontier'[k] = frontier[k + 1]
    BY <1>0, <2>1, <2>2 DEF Popped
  <2>4. /\ \A k \in 1..Len(frontier) : frontier[k] = Waits + k
        /\ \A m, n \in 1..Len(nodes) : m <= n => nodes[m].depth <= nodes[n].depth
        /\ \A m \in 1..Len(nodes) : nodes[m].depth <= nodes[Waits + 1].depth + 1
    BY <2>1, <2>2 DEF LevelByLevel, Front
  <2>5. Waits' = Waits + 1 /\ Waits \in Int /\ i = Waits + 1 /\ Front' = i
    BY <1>0, <2>1, <2>2, <2>3, <2>4 DEF Waits, Front
  <2>6. \A k \in 1..Len(frontier') : frontier'[k] = Waits' + k
    <3> TAKE k \in 1..Len(frontier')
    <3>1. k + 1 \in 1..Len(frontier)
      BY <1>0, <2>3
    <3> QED BY <2>3, <2>4, <2>5, <3>1
  <2> QED BY <2>1, <2>4, <2>5, <2>6 DEF LevelByLevel
<1>3. CASE SkipDisabled \/ CutAtDepthBound \/ MeetVisited \/ Tick
  <2>1. UNCHANGED <<plan, nodes, frontier, current, pc>>
    BY <1>3 DEF SkipDisabled, CutAtDepthBound, MeetVisited, Tick, Take, inputs, graph, cursor
  <2> QED BY <2>1 DEF LevelByLevel, Searching, Waits, Front
<1>4. CASE AddNode
  <2>1. /\ UNCHANGED <<plan, current, pc>> /\ pc = "expand" /\ Searching
        /\ Len(nodes') = Len(nodes) + 1 /\ \A i \in 1..Len(nodes) : nodes'[i] = nodes[i]
        /\ Len(frontier') = Len(frontier) + 1
        /\ \A k \in 1..Len(frontier) : frontier'[k] = frontier[k]
        /\ frontier'[Len(frontier) + 1] = Len(nodes) + 1
    BY <1>0, <1>4, AddNodeFacts DEF Trying, Searching
  <2>2. /\ nodes'[Len(nodes) + 1].depth = nodes[current].depth + 1
        /\ current \in 1..Len(nodes)
    BY <1>0, <1>4, NewNode
  <2>3. /\ \A k \in 1..Len(frontier) : frontier[k] = Waits + k
        /\ current = Waits
        /\ \A m, n \in 1..Len(nodes) : m <= n => nodes[m].depth <= nodes[n].depth
        /\ \A m \in 1..Len(nodes) : nodes[m].depth <= nodes[current].depth + 1
    BY <2>1 DEF LevelByLevel, Front
  <2>4. Waits' = Waits /\ Waits \in Int /\ Front' = current
    BY <1>0, <2>1 DEF Waits, Front
  <2>5. \A k \in 1..Len(frontier') : frontier'[k] = Waits' + k
    <3>1. \A k \in 1..Len(frontier') : k \in 1..Len(frontier) \/ k = Len(frontier) + 1
      BY <1>0, <2>1
    <3>2. Waits + (Len(frontier) + 1) = Len(nodes) + 1
      BY <1>0 DEF Waits
    <3> QED BY <2>1, <2>3, <2>4, <3>1, <3>2
  <2>6. \A m \in 1..Len(nodes') : m \in 1..Len(nodes) \/ m = Len(nodes) + 1
    BY <1>0, <2>1
  <2>7. ASSUME NEW m \in 1..Len(nodes'), NEW n \in 1..Len(nodes'), m <= n
        PROVE  nodes'[m].depth <= nodes'[n].depth
    <3>1. CASE n \in 1..Len(nodes)
      <4>1. m \in 1..Len(nodes)
        BY <1>0, <2>7, <3>1
      <4> QED BY <2>1, <2>3, <2>7, <3>1, <4>1
    <3>2. CASE n = Len(nodes) + 1 /\ m \in 1..Len(nodes)
      BY <2>1, <2>2, <2>3, <3>2
    <3>3. CASE n = Len(nodes) + 1 /\ m = n
      BY <1>0, <2>2, <3>3
    <3> QED BY <2>6, <3>1, <3>2, <3>3
  <2>8. ASSUME NEW m \in 1..Len(nodes') PROVE nodes'[m].depth <= nodes'[current].depth + 1
    <3>1. nodes'[current] = nodes[current] /\ nodes[current].depth \in Nat
      BY <1>0, <2>1, <2>2
    <3>2. CASE m \in 1..Len(nodes)
      BY <2>1, <2>3, <3>1, <3>2
    <3>3. CASE m = Len(nodes) + 1
      BY <2>2, <3>1, <3>3
    <3> QED BY <2>6, <3>2, <3>3
  <2> QED BY <2>1, <2>3, <2>4, <2>5, <2>7, <2>8 DEF LevelByLevel
<1>5. CASE FinishNode
  <2>1. UNCHANGED <<plan, nodes, frontier>> /\ pc = "expand" /\ pc' = "pop" /\ Searching
    BY <1>5 DEF FinishNode, Tried, Searching, inputs, graph
  <2>2. current \in 1..Len(nodes)
    BY <1>0, <2>1 DEF Shape
  <2>3. /\ \A k \in 1..Len(frontier) : frontier[k] = Waits + k
        /\ current = Waits
        /\ \A m, n \in 1..Len(nodes) : m <= n => nodes[m].depth <= nodes[n].depth
        /\ \A m \in 1..Len(nodes) : nodes[m].depth <= nodes[current].depth + 1
    BY <2>1 DEF LevelByLevel, Front
  <2>4. Waits' = Waits /\ Front' = Waits + 1
    BY <2>1 DEF Waits, Front
  <2>5. ASSUME frontier # <<>> PROVE \A m \in 1..Len(nodes) : nodes[m].depth <= nodes[Waits + 1].depth + 1
    <3>1. Len(frontier) >= 1
      BY <1>0, <2>5
    <3>2. current + 1 \in 1..Len(nodes)
      BY <1>0, <2>2, <2>3, <3>1 DEF Waits
    <3>3. nodes[current].depth <= nodes[current + 1].depth
      BY <2>2, <2>3, <3>2
    <3> QED BY <1>0, <2>2, <2>3, <3>2, <3>3
  <2> QED BY <2>1, <2>3, <2>4, <2>5 DEF LevelByLevel
<1>6. CASE HandToTemporal
  <2>1. UNCHANGED <<plan, nodes, frontier>> /\ pc' = "temporal" /\ Searching /\ frontier = <<>>
    BY <1>6 DEF HandToTemporal, Searching, inputs, graph
  <2> QED BY <2>1 DEF LevelByLevel, Waits
<1> QED BY NextSplit, <1>1, <1>2, <1>3, <1>4, <1>5, <1>6

(* A node is added one level below one that is not at the bound.           *)
LEMMA BoundStep == SettledInv /\ NodesWithinBound /\ Next => NodesWithinBound'
<1> SUFFICES ASSUME SettledInv, NodesWithinBound, Next, Searching' PROVE NodesWithinBound'
  BY DEF NodesWithinBound
<1>0. TypeOK /\ Len(nodes) \in Nat /\ \A d \in plan.max_depth : d \in Nat
  BY DEF SettledInv, TypeOK, PlanType, Optional
<1>1. CASE Ending
  BY <1>1, EndingStep DEF Searching
<1>2. CASE AddNode
  <2>1. /\ UNCHANGED plan /\ Searching /\ Len(nodes') = Len(nodes) + 1
        /\ \A i \in 1..Len(nodes) : nodes'[i] = nodes[i]
    BY <1>0, <1>2, AddNodeFacts DEF Trying, Searching
  <2>2. \A d \in plan.max_depth : nodes'[Len(nodes) + 1].depth <= d
    BY <1>0, <1>2, NewNode DEF AtDepthBound
  <2>3. \A i \in 1..Len(nodes') : i \in 1..Len(nodes) \/ i = Len(nodes) + 1
    BY <1>0, <2>1
  <2> QED BY <2>1, <2>2, <2>3 DEF NodesWithinBound
<1>3. CASE ~Ending /\ ~AddNode
  <2>1. UNCHANGED <<plan, nodes>> /\ (Searching' => Searching)
    BY <1>3, NextSplit, SameGraph DEF BeginExpansion, SkipDisabled, CutAtDepthBound, MeetVisited, Take,
       Trying, PopNext, FinishNode, Tried, HandToTemporal, Tick, Searching
  <2> QED BY <2>1 DEF NodesWithinBound
<1> QED BY <1>1, <1>2, <1>3

(* What has been recorded stays so.                                        *)
LEMMA RecordedStays ==
  ASSUME SettledInv, Searching, Keeps, NEW i \in 1..Len(nodes), NEW x, Recorded(i, x)
  PROVE  Recorded(i, x)'
<1> DEFINE s == nodes[i].state
           t == ApplyAction(model, s, x)
<1>1. nodes'[i] = nodes[i] /\ model' = model /\ query' = query /\ plan' = plan
  BY DEF Keeps
<1>2. t' = t /\ s' = s
  BY <1>1 DEF ApplyAction
<1>3. StepInScope(query', s, x, t) <=> StepInScope(query, s, x, t)
  BY <1>1
<1>4. ASSUME t \in States PROVE StepInScope(query, s, x, t) => sawStep'
  BY <1>4 DEF Recorded, Keeps
<1>5. AtDepthBound(nodes[i].depth) => AtDepthBound(nodes[i].depth)'
  BY <1>1 DEF AtDepthBound
<1>6. ASSUME t \in DOMAIN visited
      PROVE  t \in DOMAIN visited' /\ nodes'[visited'[t]] = nodes[visited[t]]
  <2>1. visited[t] \in 1..Len(nodes)
    BY <1>6 DEF SettledInv, Indexed
  <2> QED BY <1>6, <2>1 DEF Keeps
<1> QED BY <1>1, <1>2, <1>3, <1>4, <1>5, <1>6 DEF Recorded

(* One more action of the node in hand is recorded.                        *)
LEMMA OneRecorded ==
  ASSUME SettledInv, AllRecorded, Trying, Keeps, UNCHANGED current, pc' = "expand",
         nextAction' = nextAction + 1, \A x : x = nextAction => Recorded(current, x)',
         \A i \in 1..Len(nodes) : Waiting(i) => Waiting(i)',
         \A i \in 1..Len(nodes') : i \in 1..Len(nodes) \/ Waiting(i)'
  PROVE  AllRecorded'
<1>1. Searching /\ pc = "expand" /\ current \in 1..Len(nodes) /\ nextAction \in Nat
  BY DEF SettledInv, Trying, Searching, Shape, TypeOK
<1>2. ASSUME NEW i \in 1..Len(nodes'), i # current, ~Waiting(i)', NEW x \in Actions
      PROVE  Recorded(i, x)'
  BY <1>1, <1>2, RecordedStays DEF AllRecorded
<1>3. ASSUME NEW x \in 1..nextAction PROVE Recorded(current, x)'
  <2>1. CASE x = nextAction
    BY <2>1
  <2>2. CASE x \in 1..(nextAction - 1)
    BY <1>1, <2>2, RecordedStays DEF AllRecorded
  <2> QED BY <1>1, <2>1, <2>2
<1>4. ASSUME NEW i \in 1..Len(nodes'), ~Waiting(i)', Matches(query', nodes'[i].state) PROVE sawState'
  <2>1. i \in 1..Len(nodes) /\ ~Waiting(i) /\ nodes'[i] = nodes[i] /\ query' = query
    BY <1>4 DEF Keeps
  <2> QED BY <1>1, <1>4, <2>1 DEF AllRecorded, Keeps
<1>5. nextAction' - 1 = nextAction
  BY <1>1
<1> QED BY <1>2, <1>3, <1>4, <1>5 DEF AllRecorded

(* Every step tried is accounted for.                                      *)
LEMMA RecordStep == SettledInv /\ AccountInv /\ Next => AllRecorded'
<1> SUFFICES ASSUME SettledInv, AccountInv, Next, Searching' PROVE AllRecorded'
  BY DEF AllRecorded
<1>0. /\ TypeOK /\ Shape /\ Indexed /\ AllRecorded /\ LevelByLevel /\ Len(nodes) \in Nat
      /\ NumActions \in Nat
  BY ActionsAssumption DEF SettledInv, AccountInv, TypeOK
<1>1. CASE Ending
  BY <1>1, EndingStep DEF Searching
<1> SUFFICES ASSUME ~Ending PROVE AllRecorded'
  BY <1>1
<1>K. Keeps
  BY <1>0, GoingOnKeeps
<1>2. CASE BeginExpansion
  <2> PICK i \in 1..Len(nodes) :
        /\ PopNext(i) /\ current' = i /\ nextAction' = 1 /\ pc' = "expand"
        /\ sawState' = (sawState \/ Matches(query, nodes[i].state))
    BY <1>2 DEF BeginExpansion
  <2>1. Searching /\ current = 0 /\ UNCHANGED <<query, nodes>>
    BY <1>0 DEF PopNext, Searching, Shape, inputs
  <2>2. \A j \in 1..Len(nodes) : j = i \/ (Waiting(j) => Waiting(j)')
    BY <1>0, PopFacts DEF Waiting
  <2>3. ASSUME NEW j \in 1..Len(nodes'), j # i, ~Waiting(j)', NEW x \in Actions PROVE Recorded(j, x)'
    BY <1>0, <1>K, <2>1, <2>2, <2>3, RecordedStays DEF AllRecorded
  <2>4. \A j \in 1..Len(nodes') : Waiting(j)' \/ (Matches(query', nodes'[j].state) => sawState')
    BY <1>0, <2>1, <2>2 DEF AllRecorded
  <2>5. nextAction' - 1 = 0
    OBVIOUS
  <2> QED BY <2>3, <2>4, <2>5 DEF AllRecorded
<1>3. CASE SkipDisabled
  <2>1. /\ Trying /\ Target = Disabled /\ pc' = "expand" /\ nextAction' = nextAction + 1
        /\ UNCHANGED <<model, nodes, frontier, current>>
    BY <1>3 DEF SkipDisabled, Trying, inputs, graph
  <2>2. ASSUME NEW x, x = nextAction PROVE Recorded(current, x)'
    <3>1. ApplyAction(model', nodes'[current'].state, x) \notin States
      BY <2>1, <2>2, StatesAssumption DEF Target, Source, ApplyAction
    <3> QED BY <3>1 DEF Recorded
  <2> QED BY <1>0, <1>K, <2>1, <2>2, OneRecorded DEF Waiting
<1>4. CASE CutAtDepthBound
  <2>1. /\ Trying /\ pc' = "expand" /\ nextAction' = nextAction + 1 /\ AtDepthBound(nodes[current].depth)
        /\ UNCHANGED <<model, query, plan, nodes, frontier, current>>
        /\ sawStep' = (sawStep \/ StepInScope(query, Source, nextAction, Target))
    BY <1>4 DEF CutAtDepthBound, Take, Trying, inputs, graph
  <2>2. ASSUME NEW x, x = nextAction PROVE Recorded(current, x)'
    <3>1. ApplyAction(model', nodes'[current'].state, x) = Target /\ nodes'[current'].state = Source
      BY <2>1, <2>2 DEF Target, Source, ApplyAction
    <3>2. StepInScope(query', Source, x, Target) => sawStep'
      BY <2>1, <2>2
    <3>3. AtDepthBound(nodes[current].depth)'
      BY <2>1 DEF AtDepthBound
    <3> QED BY <3>1, <3>2, <3>3 DEF Recorded
  <2> QED BY <1>0, <1>K, <2>1, <2>2, OneRecorded DEF Waiting
<1>5. CASE MeetVisited
  <2>1. /\ Trying /\ pc = "expand" /\ pc' = "expand" /\ nextAction' = nextAction + 1
        /\ Target \in DOMAIN visited
        /\ UNCHANGED <<model, query, plan, nodes, visited, frontier, current>>
        /\ sawStep' = (sawStep \/ StepInScope(query, Source, nextAction, Target))
    BY <1>5 DEF MeetVisited, Take, Trying, inputs
  <2>2. plan.strategy = "bfs" => nodes[visited[Target]].depth <= nodes[current].depth + 1
    <3>1. visited[Target] \in 1..Len(nodes) /\ Searching
      BY <1>0, <2>1 DEF Indexed, Searching
    <3> QED BY <1>0, <2>1, <3>1 DEF LevelByLevel, Front
  <2>3. ASSUME NEW x, x = nextAction PROVE Recorded(current, x)'
    <3>1. ApplyAction(model', nodes'[current'].state, x) = Target /\ nodes'[current'].state = Source
      BY <2>1, <2>3 DEF Target, Source, ApplyAction
    <3>2. StepInScope(query', Source, x, Target) => sawStep'
      BY <2>1, <2>3
    <3> QED BY <2>1, <2>2, <3>1, <3>2 DEF Recorded
  <2> QED BY <1>0, <1>K, <2>1, <2>3, OneRecorded DEF Waiting
<1>6. CASE AddNode
  <2>1. /\ Trying /\ pc' = "expand" /\ nextAction' = nextAction + 1
        /\ UNCHANGED <<model, query, plan, current>>
        /\ Len(nodes') = Len(nodes) + 1 /\ \A i \in 1..Len(nodes) : nodes'[i] = nodes[i]
        /\ Target \in DOMAIN visited' /\ visited'[Target] = Len(nodes) + 1
        /\ \A k \in 1..Len(frontier) : frontier'[k] = frontier[k]
        /\ Len(frontier') = Len(frontier) + 1 /\ frontier'[Len(frontier) + 1] = Len(nodes) + 1
    BY <1>0, <1>6, AddNodeFacts DEF Trying
  <2>2. /\ sawStep' = (sawStep \/ StepInScope(query, Source, nextAction, Target))
        /\ current \in 1..Len(nodes) /\ nodes[current].depth \in Nat
        /\ nodes'[Len(nodes) + 1].depth = nodes[current].depth + 1
    BY <1>0, <1>6, NewNode
  <2>3. ASSUME NEW x, x = nextAction PROVE Recorded(current, x)'
    <3>1. ApplyAction(model', nodes'[current'].state, x) = Target /\ nodes'[current'] = nodes[current]
          /\ nodes'[current'].state = Source
      BY <2>1, <2>2, <2>3 DEF Target, Source, ApplyAction
    <3>2. StepInScope(query', Source, x, Target) => sawStep'
      BY <2>1, <2>2, <2>3
    <3>3. nodes'[visited'[Target]].depth <= nodes'[current'].depth + 1
      BY <2>1, <2>2, <3>1
    <3> QED BY <2>1, <3>1, <3>2, <3>3 DEF Recorded
  <2>4. Len(frontier) \in Nat
    BY <1>0 DEF TypeOK
  <2>5. \A i \in 1..Len(nodes) : Waiting(i) => Waiting(i)'
    BY <2>1, <2>4 DEF Waiting
  <2>6. ASSUME NEW i \in 1..Len(nodes'), i \notin 1..Len(nodes) PROVE Waiting(i)'
    <3>1. i = Len(nodes) + 1 /\ Len(frontier) + 1 \in 1..Len(frontier')
      BY <1>0, <2>1, <2>4, <2>6
    <3> QED BY <2>1, <3>1 DEF Waiting
  <2> QED BY <1>0, <1>K, <2>1, <2>3, <2>5, <2>6, OneRecorded
<1>7. CASE FinishNode
  <2>1. /\ UNCHANGED <<model, query, plan, nodes, visited, frontier, sawState>> /\ Searching
        /\ pc = "expand" /\ pc' = "pop" /\ nextAction \notin Actions
    BY <1>7 DEF FinishNode, Tried, Searching, inputs, graph, marks
  <2>2. current \in 1..Len(nodes) /\ Actions \subseteq 1..(nextAction - 1)
    BY <1>0, <2>1 DEF Shape, Actions
  <2>3. ASSUME NEW i \in 1..Len(nodes), ~Waiting(i), NEW x \in Actions PROVE Recorded(i, x)
    BY <1>0, <2>1, <2>2, <2>3 DEF AllRecorded
  <2>4. ASSUME NEW i \in 1..Len(nodes'), ~Waiting(i)', NEW x \in Actions PROVE Recorded(i, x)'
    BY <1>0, <1>K, <2>1, <2>3, <2>4, RecordedStays DEF Waiting
  <2> QED BY <1>0, <2>1, <2>4 DEF AllRecorded, Waiting
<1>8. CASE HandToTemporal \/ Tick
  <2>1. /\ UNCHANGED <<model, query, plan, nodes, visited, frontier, current, nextAction, sawState>>
        /\ Searching /\ (pc' = "expand" => pc = "expand")
    BY <1>8 DEF HandToTemporal, Tick, Searching, inputs, graph, marks, cursor
  <2>2. pc = "expand" => current \in 1..Len(nodes)
    BY <1>0 DEF Shape
  <2>3. ASSUME NEW i \in 1..Len(nodes), NEW x, Recorded(i, x) PROVE Recorded(i, x)'
    BY <1>K, <2>1, <2>3, RecordedStays
  <2>4. ASSUME NEW i \in 1..Len(nodes'), i # current', ~Waiting(i)', NEW x \in Actions
        PROVE  Recorded(i, x)'
    BY <1>0, <2>1, <2>3, <2>4 DEF AllRecorded, Waiting
  <2>5. ASSUME pc' = "expand", NEW x \in 1..(nextAction' - 1), NEW i, i = current PROVE Recorded(i, x)'
    BY <1>0, <2>1, <2>2, <2>3, <2>5 DEF AllRecorded
  <2>6. pc' = "expand" => \A x \in 1..(nextAction' - 1) : Recorded(current, x)'
    BY <2>1, <2>5
  <2> QED BY <1>0, <2>1, <2>4, <2>6 DEF AllRecorded, Waiting
<1> QED BY NextSplit, <1>2, <1>3, <1>4, <1>5, <1>6, <1>7, <1>8

(* A step the property is about, from the node in hand.                    *)
LEMMA StepAskedAbout ==
  ASSUME SettledInv, Trying, Target \in States, StepInScope(query, Source, nextAction, Target)
  PROVE  \E s \in Reachable(model), x \in Actions :
           Enabled(model, s, x) /\ StepInScope(query, s, x, ApplyAction(model, s, x))
<1>1. Source \in Reachable(model) /\ nextAction \in Actions
  BY ChildType DEF SettledInv, NodesReachable, Source, Trying
<1>2. ApplyAction(model, Source, nextAction) = Target
  BY DEF Target
<1> QED BY <1>1, <1>2 DEF Enabled

(* matched_states and matched_transitions only count what is there.        *)
LEMMA MarksStep == SettledInv /\ MarksMean /\ Next => MarksMean'
<1> SUFFICES ASSUME SettledInv, MarksMean, Next PROVE MarksMean'
  OBVIOUS
<1>0. TypeOK /\ NodesReachable
  BY DEF SettledInv
<1>1. UNCHANGED <<model, query>>
  <2>1. CASE Ending
    BY <2>1, EndingStep
  <2>2. CASE ~Ending
    BY <1>0, <2>2, GoingOnKeeps DEF Keeps
  <2> QED BY <2>1, <2>2
<1>2. sawState' => \E s \in Reachable(model) : Matches(query, s)
  <2>1. CASE UNCHANGED sawState
    BY <2>1 DEF MarksMean
  <2>2. CASE ReportState
    <3> PICK i \in 1..Len(nodes) : Matches(query, nodes[i].state)
      BY <2>2 DEF ReportState
    <3> QED BY <1>0 DEF NodesReachable
  <2>3. CASE BeginExpansion
    <3> PICK i \in 1..Len(nodes) : sawState' = (sawState \/ Matches(query, nodes[i].state))
      BY <2>3 DEF BeginExpansion
    <3>1. nodes[i].state \in Reachable(model)
      BY <1>0 DEF NodesReachable
    <3> QED BY <3>1 DEF MarksMean
  <2>4. UNCHANGED sawState \/ ReportState \/ BeginExpansion
    BY DEF Next, SearchStep, StopAtTimeLimit, FailEvaluation, FailApply, FailStep, SkipDisabled, ReportStep,
       CutAtDepthBound, MeetVisited, StopAtStateLimit, AddNode, Discover, Take, ReportDeadlock,
       FinishNode, Conclude, HandToTemporal, Tick, marks
  <2> QED BY <2>1, <2>2, <2>3, <2>4
<1>3. sawStep' => \E s \in Reachable(model), x \in Actions :
        Enabled(model, s, x) /\ StepInScope(query, s, x, ApplyAction(model, s, x))
  <2>1. CASE UNCHANGED sawStep
    BY <2>1 DEF MarksMean
  <2>2. CASE Take
    <3>1. CASE StepInScope(query, Source, nextAction, Target)
      BY <2>2, <3>1, StepAskedAbout DEF Take
    <3>2. CASE ~StepInScope(query, Source, nextAction, Target)
      <4>1. sawStep' => sawStep
        BY <2>2, <3>2 DEF Take
      <4> QED BY <4>1 DEF MarksMean
    <3> QED BY <3>1, <3>2
  <2>3. CASE ReportStep
    <3>1. Trying /\ Target \in States /\ StepInScope(query, Source, nextAction, Target)
      BY <2>3 DEF ReportStep, StepViolates
    <3> QED BY <3>1, StepAskedAbout
  <2>4. UNCHANGED sawStep \/ Take \/ ReportStep
    BY DEF Next, SearchStep, StopAtTimeLimit, FailEvaluation, ReportState, BeginExpansion, PopNext,
       FailApply, FailStep, SkipDisabled, CutAtDepthBound, MeetVisited, StopAtStateLimit, AddNode, Discover,
       ReportDeadlock, FinishNode, Conclude, HandToTemporal, Tick, marks
  <2> QED BY <2>1, <2>2, <2>3, <2>4
<1> QED BY <1>1, <1>2, <1>3 DEF MarksMean, Enabled

(* There is no answer before the end, and no timeout without a clock.      *)
LEMMA UnansweredStep == TypeOK /\ Unanswered /\ Next => Unanswered'
<1> SUFFICES ASSUME TypeOK, Unanswered, Next PROVE Unanswered'
  OBVIOUS
<1>1. UNCHANGED plan /\ pc # "done" /\ (expired' => plan.timed)
  <2>1. CASE Tick
    BY <2>1 DEF Tick, inputs
  <2>2. CASE SearchStep
    <3>1. UNCHANGED <<plan, expired>>
      BY <2>2 DEF SearchStep, StopAtTimeLimit, FailEvaluation, ReportState, BeginExpansion, PopNext,
         FailApply, FailStep, SkipDisabled, ReportStep, CutAtDepthBound, MeetVisited, StopAtStateLimit, AddNode,
         Discover, Take, ReportDeadlock, FinishNode, Conclude, HandToTemporal, inputs
    <3>2. pc \in {"pop", "expand"}
      BY <2>2 DEF SearchStep, StopAtTimeLimit, FailEvaluation, ReportState, BeginExpansion, PopNext,
         FailApply, FailStep, SkipDisabled, ReportStep, CutAtDepthBound, MeetVisited, StopAtStateLimit, AddNode,
         Discover, Take, Trying, Tried, ReportDeadlock, FinishNode, Conclude, HandToTemporal
    <3> QED BY <3>1, <3>2 DEF Unanswered
  <2> QED BY <2>1, <2>2 DEF Next
<1>2. CASE Ending
  BY <1>1, <1>2, EndingStep DEF Unanswered
<1>3. CASE ~Ending
  BY <1>1, <1>3, GoingOnKeeps DEF Unanswered
<1> QED BY <1>2, <1>3

(* Where every node less than c steps deep is settled, the states less     *)
(* than c steps away are among the nodes, none of them too deep.           *)
LEMMA NearIsKnown ==
  ASSUME SettledInv, AccountInv, Searching, plan.strategy = "bfs", NEW c \in Nat,
         \A d \in plan.max_depth : c <= d + 1,
         \A i \in 1..Len(nodes) : nodes[i].depth < c => i # current /\ ~Waiting(i)
  PROVE  \A j \in Nat : j < c =>
           \A s \in Within(model, j) : \E i \in 1..Len(nodes) : nodes[i].state = s /\ nodes[i].depth <= j
<1> DEFINE Known(s, j) == \E i \in 1..Len(nodes) : nodes[i].state = s /\ nodes[i].depth <= j
           T == {j \in Nat : j < c => \A s \in Within(model, j) : Known(s, j)}
<1>0. /\ TypeOK /\ Indexed /\ NodesReachable /\ AllRecorded /\ Len(nodes) \in Nat /\ Len(nodes) >= 1
      /\ \A i \in 1..Len(nodes) : nodes[i].depth \in Nat
      /\ \A d \in plan.max_depth : d \in Nat
  <2>1. TypeOK /\ Indexed /\ NodesReachable /\ AllRecorded /\ nodes \in Seq(NodeType) /\ Len(nodes) >= 1
    BY DEF SettledInv, AccountInv, TypeOK
  <2>2. \A i \in 1..Len(nodes) : nodes[i] \in NodeType
    BY <2>1
  <2>3. \A d \in plan.max_depth : d \in Nat
    BY <2>1 DEF TypeOK, PlanType, Optional
  <2> QED BY <2>1, <2>2, <2>3 DEF NodeType
<1>1. 0 \in T
  <2>1. Within(model, 0) = {model.init}
    BY WithinZero
  <2>2. nodes[1].state = model.init /\ 1 \in 1..Len(nodes) /\ nodes[1].depth <= 0
    BY <1>0 DEF AccountInv, NodesFollowModel
  <2> QED BY <2>1, <2>2
<1>2. ASSUME NEW j \in T PROVE j + 1 \in T
  <2> SUFFICES ASSUME j + 1 < c, NEW t \in Within(model, j + 1) PROVE Known(t, j + 1)
    OBVIOUS
  <2>1. CASE t \in Within(model, j)
    <3> PICK i \in 1..Len(nodes) : nodes[i].state = t /\ nodes[i].depth <= j
      BY <2>1
    <3>1. nodes[i].depth <= j + 1
      BY <1>0
    <3> QED BY <3>1
  <2>2. ASSUME NEW s \in Within(model, j), t \in Successors(model, s) PROVE Known(t, j + 1)
    <3> PICK i \in 1..Len(nodes) : nodes[i].state = s /\ nodes[i].depth <= j
      BY <2>2
    <3> PICK x \in Actions : t = ApplyAction(model, s, x) /\ t \in States
      BY <2>2 DEF Successors
    <3>1. nodes[i].depth < c /\ nodes[i].depth \in Nat
      BY <1>0
    <3>2. Recorded(i, x)
      BY <1>0, <3>1 DEF AllRecorded
    <3>3. ~AtDepthBound(nodes[i].depth)
      BY <1>0, <3>1 DEF AtDepthBound
    <3>4. t \in DOMAIN visited /\ nodes[visited[t]].depth <= nodes[i].depth + 1
      BY <3>2, <3>3 DEF Recorded
    <3>5. visited[t] \in 1..Len(nodes) /\ nodes[visited[t]].state = t
      BY <1>0, <3>4 DEF Indexed
    <3>6. nodes[visited[t]].depth <= j + 1
      BY <1>0, <3>1, <3>4, <3>5
    <3> QED BY <3>5, <3>6
  <2> QED BY <2>1, <2>2, WithinNext
<1>3. T = Nat
  <2> HIDE DEF T
  <2>1. T \in SUBSET Nat
    BY DEF T
  <2> QED BY <1>1, <1>2, <2>1, InductionInSetForm
<1> QED BY <1>3

(* ... and none of them decides the property.                              *)
LEMMA NearDecidesNot ==
  ASSUME SettledInv, AccountInv, Searching, plan.strategy = "bfs", NEW c \in Nat,
         \A d \in plan.max_depth : c <= d + 1,
         \A i \in 1..Len(nodes) : nodes[i].depth < c => i # current /\ ~Waiting(i),
         NEW j \in Nat, j < c
  PROVE  /\ Within(model, j) \cap Deciding = {}
         /\ \A s \in Within(model, j) : ~Decides(model, query, s) /\ ~Faulty(model, query, s)
<1> SUFFICES ASSUME NEW s \in Within(model, j)
             PROVE  ~Decides(model, query, s) /\ ~Faulty(model, query, s)
  BY DEF Deciding, DecidingStates
<1>1. PICK i \in 1..Len(nodes) : nodes[i].state = s /\ nodes[i].depth <= j
  BY NearIsKnown
<1>2. nodes[i].depth < c
  <2>1. nodes \in Seq(NodeType)
    BY DEF SettledInv, TypeOK
  <2>2. nodes[i] \in NodeType
    BY <2>1
  <2>3. nodes[i].depth \in Nat
    BY <2>2 DEF NodeType
  <2> QED BY <1>1, <2>3
<1>3. Settled(i)
  BY <1>2 DEF SettledInv, AllSettled
<1> QED BY <1>1, <1>3, SettledDecidesNot

(* The nodes above the one at the front are settled.                       *)
LEMMA AboveFront ==
  ASSUME SettledInv, AccountInv, Searching, plan.strategy = "bfs", pc = "expand" \/ frontier # <<>>
  PROVE  /\ Front \in 1..Len(nodes) /\ nodes[Front].depth \in Nat
         /\ pc = "pop" => Front = frontier[1]
         /\ \A d \in plan.max_depth : nodes[Front].depth <= d + 1
         /\ \A i \in 1..Len(nodes) : nodes[i].depth < nodes[Front].depth => i # current /\ ~Waiting(i)
<1>0. /\ TypeOK /\ Shape /\ LevelByLevel /\ NodesWithinBound /\ nodes \in Seq(NodeType)
      /\ Len(nodes) \in Nat /\ frontier \in Seq(Nat) /\ Len(frontier) \in Nat
      /\ \A d \in plan.max_depth : d \in Nat
  BY DEF SettledInv, AccountInv, TypeOK, PlanType, Optional
<1>1. /\ \A k \in 1..Len(frontier) : frontier[k] = Waits + k /\ frontier[k] \in 1..Len(nodes)
      /\ pc = "expand" => current = Waits /\ current \in 1..Len(nodes)
      /\ pc # "expand" => current = 0
      /\ \A i, j \in 1..Len(nodes) : i <= j => nodes[i].depth <= nodes[j].depth
  BY <1>0 DEF LevelByLevel, TypeOK, Shape, Searching
<1>2. Front \in 1..Len(nodes) /\ (pc = "expand" => Front = Waits) /\ (pc # "expand" => Front = Waits + 1)
  <2>1. CASE pc = "expand"
    BY <1>1, <2>1 DEF Front
  <2>2. CASE pc # "expand"
    <3>1. 1 \in 1..Len(frontier)
      BY <1>0, <2>2
    <3> QED BY <1>1, <2>2, <3>1 DEF Front
  <2> QED BY <2>1, <2>2
<1>3. nodes[Front].depth \in Nat /\ \A i \in 1..Len(nodes) : nodes[i].depth \in Nat
  <2>1. \A i \in 1..Len(nodes) : nodes[i] \in NodeType
    BY <1>0
  <2> QED BY <1>2, <2>1 DEF NodeType
<1>4. pc = "pop" => Front = frontier[1]
  <2>1. pc = "pop" => 1 \in 1..Len(frontier)
    BY <1>0
  <2> QED BY <1>1, <1>2, <2>1
<1>5. \A d \in plan.max_depth : nodes[Front].depth <= d + 1
  <2>1. \A d \in plan.max_depth : nodes[Front].depth <= d
    BY <1>0, <1>2 DEF NodesWithinBound
  <2> QED BY <1>0, <1>3, <2>1
<1>6. ASSUME NEW i \in 1..Len(nodes), nodes[i].depth < nodes[Front].depth PROVE i # current /\ ~Waiting(i)
  <2>1. ~(Front <= i)
    <3>1. Front <= i => nodes[Front].depth <= nodes[i].depth
      BY <1>1, <1>2
    <3> QED BY <1>3, <1>6, <3>1
  <2>2. ~Waiting(i)
    <3>1. \A k \in 1..Len(frontier) : Front <= frontier[k]
      BY <1>0, <1>1, <1>2 DEF Waits
    <3> QED BY <2>1, <3>1 DEF Waiting
  <2>3. i # current
    BY <1>1, <1>2, <2>1
  <2> QED BY <2>2, <2>3
<1> QED BY <1>2, <1>3, <1>4, <1>5, <1>6

(* Each node is a step of the model after its parent.                      *)
LEMMA FollowStep == SettledInv /\ NodesFollowModel /\ Next => NodesFollowModel'
<1> SUFFICES ASSUME SettledInv, NodesFollowModel, Next PROVE NodesFollowModel'
  OBVIOUS
<1>0. TypeOK /\ NodesReachable /\ nodes \in Seq(NodeType) /\ Len(nodes) \in Nat /\ Len(nodes) >= 1
  BY DEF SettledInv, TypeOK
<1>1. CASE UNCHANGED <<model, nodes>>
  BY <1>1 DEF NodesFollowModel
<1>2. CASE AddNode \/ ReportStep
  <2>1. Trying /\ Target \in States /\ nodes' = Append(nodes, Child) /\ model' = model
    BY <1>2 DEF AddNode, Discover, Take, ReportStep, inputs
  <2>2. /\ current \in 1..Len(nodes) /\ Len(nodes') = Len(nodes) + 1
        /\ \A i \in 1..Len(nodes) : nodes'[i] = nodes[i]
        /\ nodes'[Len(nodes) + 1] = Child
    BY <1>0, <2>1, ChildType
  <2>3. /\ Child.parent = current /\ Child.via = nextAction /\ nextAction \in Actions
        /\ Child.depth = nodes[current].depth + 1
        /\ ApplyAction(model, nodes[current].state, nextAction) = Child.state
    BY <2>1 DEF Child, Trying, Target, Source
  <2>4. ASSUME NEW i \in 1..Len(nodes')
        PROVE  LET n == nodes'[i] IN
               IF i = 1 THEN n.state = model'.init /\ n.depth = 0 /\ n.parent = 0
               ELSE /\ n.parent \in 1..(i - 1)
                    /\ n.via \in Actions
                    /\ ApplyAction(model', nodes'[n.parent].state, n.via) = n.state
                    /\ n.depth = nodes'[n.parent].depth + 1
    <3>1. CASE i = Len(nodes) + 1
      <4>1. i # 1 /\ current \in 1..(i - 1)
        BY <1>0, <2>2, <3>1
      <4> QED BY <2>1, <2>2, <2>3, <3>1, <4>1
    <3>2. CASE i \in 1..Len(nodes)
      <4>1. nodes'[i] = nodes[i] /\ (i # 1 => nodes[i].parent \in 1..Len(nodes))
        BY <1>0, <2>2, <3>2 DEF NodesFollowModel
      <4>2. i # 1 => nodes'[nodes[i].parent] = nodes[nodes[i].parent]
        BY <2>2, <4>1
      <4> QED BY <2>1, <3>2, <4>1, <4>2 DEF NodesFollowModel
    <3> QED BY <1>0, <2>2, <3>1, <3>2
  <2> QED BY <2>4 DEF NodesFollowModel
<1>3. UNCHANGED <<model, nodes>> \/ AddNode \/ ReportStep
  <2>1. CASE Ending
    BY <2>1 DEF Ending, StopAtTimeLimit, FailEvaluation, ReportState, PopNext, FailApply, FailStep,
       StopAtStateLimit, Discover, Take, ReportDeadlock, Conclude, inputs, graph
  <2> QED BY <2>1, NextSplit, SameGraph
<1> QED BY <1>1, <1>2, <1>3

(* No state nearer than the node at the front decides the property.        *)
LEMMA NothingNearer ==
  ASSUME SettledInv, AccountInv, Searching, plan.strategy = "bfs", pc = "expand" \/ frontier # <<>>,
         nodes[Front].depth > 0
  PROVE  Within(model, nodes[Front].depth - 1) \cap Deciding = {}
<1> DEFINE c == nodes[Front].depth
<1>1. /\ c \in Nat /\ c - 1 \in Nat /\ c - 1 < c
      /\ \A d \in plan.max_depth : c <= d + 1
      /\ \A i \in 1..Len(nodes) : nodes[i].depth < c => i # current /\ ~Waiting(i)
  BY AboveFront
<1> QED BY <1>1, NearDecidesNot

(* Evidence: what is reported is at the end of the trace, and nothing      *)
(* nearer would have done.                                                 *)
LEMMA EvidenceStep == SettledInv /\ AccountInv /\ Next => TraceIsShortestEvidence'
<1> SUFFICES ASSUME SettledInv, AccountInv, Next PROVE TraceIsShortestEvidence'
  OBVIOUS
<1>0. /\ TypeOK /\ Shape /\ NodesReachable /\ NodesFollowModel /\ nodes \in Seq(NodeType)
      /\ Len(nodes) \in Nat /\ Len(nodes) >= 1
  BY DEF SettledInv, AccountInv, TypeOK
<1>1. NodesFollowModel'
  BY <1>0, FollowStep
<1>2. ASSUME ~FoundIt' PROVE TraceIsShortestEvidence'
  BY <1>1, <1>2 DEF TraceIsShortestEvidence, TraceIsEvidence, ShortestUnderBfs
<1>3. ASSUME outcome'.reason \notin {"violated", "deadlock", "cover_reached"} PROVE TraceIsShortestEvidence'
  BY <1>2, <1>3 DEF FoundIt
<1>4. CASE ReportState
  <2> PICK i \in 1..Len(nodes) :
        /\ PopNext(i)
        /\ Matches(query, nodes[i].state) /\ Triggered(query, nodes[i].state)
        /\ \/ Answer("pass", EarlyAssurance, "cover_reached", FALSE, i)
           \/ Answer("fail", EarlyAssurance, "violated", FALSE, i)
    BY <1>4 DEF ReportState
  <2>1. /\ pc = "pop" /\ frontier # <<>> /\ i = frontier[Position] /\ Searching
        /\ UNCHANGED <<model, query, plan, nodes>> /\ outcome'.end = i
    BY DEF PopNext, inputs, Searching, Answer
  <2>2. Decides(model, query, nodes[i].state) /\ query.kind # "transition"
    BY DEF Decides, Triggered
  <2>3. TraceIsEvidence'
    BY <1>1, <2>1, <2>2 DEF TraceIsEvidence
  <2>4. plan.strategy = "bfs" => i = Front
    BY <2>1, AboveFront DEF Position
  <2>5. ShortestUnderBfs'
    <3> SUFFICES ASSUME plan.strategy = "bfs", nodes[i].depth > 0
                 PROVE  Within(model, nodes[i].depth - 1) \cap Deciding = {}
      <4>1. nodes[i].depth \in Nat
        <5>1. nodes[i] \in NodeType
          BY <1>0
        <5> QED BY <5>1 DEF NodeType
      <4> QED BY <2>1, <2>2, <4>1 DEF ShortestUnderBfs, Deciding
    <3> QED BY <2>1, <2>4, NothingNearer
  <2> QED BY <2>3, <2>5 DEF TraceIsShortestEvidence
<1>5. CASE ReportStep
  <2>1. /\ Trying /\ Target \in States /\ StepViolates(query, Source, nextAction, Target)
        /\ nodes' = Append(nodes, Child) /\ UNCHANGED <<model, query, plan>>
        /\ outcome'.end = Len(nodes) + 1 /\ Searching /\ pc = "expand"
    BY <1>5 DEF ReportStep, Answer, inputs, Trying, Searching
  <2>2. /\ current \in 1..Len(nodes) /\ nodes[current].depth \in Nat
        /\ nodes'[Len(nodes) + 1] = Child /\ nodes'[current] = nodes[current]
    <3>1. current \in 1..Len(nodes)
      BY <1>0, <2>1, ChildType
    <3>2. nodes[current] \in NodeType
      BY <1>0, <3>1
    <3> QED BY <1>0, <2>1, <3>1, <3>2, ChildType DEF NodeType
  <2>3. query.kind = "transition"
    BY <2>1 DEF StepViolates, StepInScope
  <2>4. TraceIsEvidence'
    BY <1>1, <2>1, <2>2, <2>3 DEF TraceIsEvidence, Child, Source
  <2>5. ShortestUnderBfs'
    <3> SUFFICES ASSUME plan.strategy = "bfs", nodes[current].depth > 0
                 PROVE  Within(model, nodes[current].depth - 1) \cap Deciding = {}
      <4>1. nodes'[outcome'.end].depth - 1 = nodes[current].depth
        BY <2>1, <2>2 DEF Child
      <4> QED BY <2>1, <2>2, <2>3, <4>1 DEF ShortestUnderBfs, Deciding
    <3>1. Front = current
      BY <2>1 DEF Front
    <3> QED BY <2>1, <3>1, NothingNearer
  <2> QED BY <2>4, <2>5 DEF TraceIsShortestEvidence
<1>6. CASE ReportDeadlock
  <2>1. /\ Tried /\ IsDeadlock /\ UNCHANGED <<model, query, plan, nodes>>
        /\ outcome'.end = current /\ Searching /\ pc = "expand"
    BY <1>6 DEF ReportDeadlock, Answer, inputs, graph, Tried, Searching
  <2>2. /\ current \in 1..Len(nodes) /\ Decides(model, query, nodes[current].state)
        /\ query.kind # "transition"
    BY <2>1, DeadlockDecides DEF Source, IsDeadlock
  <2>3. TraceIsEvidence'
    BY <1>1, <2>1, <2>2 DEF TraceIsEvidence
  <2>4. ShortestUnderBfs'
    <3> SUFFICES ASSUME plan.strategy = "bfs", nodes[current].depth > 0
                 PROVE  Within(model, nodes[current].depth - 1) \cap Deciding = {}
      <4>1. nodes[current].depth \in Nat
        <5>1. nodes[current] \in NodeType
          BY <1>0, <2>2
        <5> QED BY <5>1 DEF NodeType
      <4> QED BY <2>1, <2>2, <4>1 DEF ShortestUnderBfs, Deciding
    <3>1. Front = current
      BY <2>1 DEF Front
    <3> QED BY <2>1, <3>1, NothingNearer
  <2> QED BY <2>3, <2>4 DEF TraceIsShortestEvidence
<1>7. CASE StopAtTimeLimit \/ FailEvaluation \/ FailApply \/ FailStep \/ StopAtStateLimit \/ Conclude
  BY <1>3, <1>7 DEF StopAtTimeLimit, FailEvaluation, FailApply, FailStep, StopAtStateLimit, Conclude,
     Stop, Error, Answer
<1>8. CASE ~Ending
  <2>1. outcome' = Pending
    <3>1. pc # "done"
      BY <1>0, <1>8, NextSplit DEF BeginExpansion, PopNext, SkipDisabled, CutAtDepthBound, MeetVisited,
         AddNode, Discover, Take, Trying, FinishNode, Tried, HandToTemporal, Tick
    <3> QED BY <1>0, <1>8, <3>1, GoingOnKeeps DEF AccountInv, Unanswered
  <2> QED BY <1>3, <2>1 DEF Pending
<1> QED BY <1>4, <1>5, <1>6, <1>7, <1>8 DEF Ending

(* Nothing the account speaks of changes in a stuttering step.             *)
LEMMA AccountStays == AccountInv /\ TraceIsShortestEvidence /\ UNCHANGED vars
                        => AccountInv' /\ TraceIsShortestEvidence'
<1> SUFFICES ASSUME AccountInv, TraceIsShortestEvidence, UNCHANGED vars
             PROVE  AccountInv' /\ TraceIsShortestEvidence'
  OBVIOUS
<1> USE DEF vars, inputs, graph, marks, cursor
<1>1. NodesFollowModel' /\ NodesWithinBound' /\ Unanswered'
  BY DEF AccountInv, NodesFollowModel, NodesWithinBound, Unanswered, Searching
<1>2. LevelByLevel'
  BY DEF AccountInv, LevelByLevel, Waits, Front, Searching
<1>3. AllRecorded'
  BY DEF AccountInv, AllRecorded, Recorded, Waiting, Searching, AtDepthBound
<1>4. MarksMean'
  BY DEF AccountInv, MarksMean
<1>5. TraceIsEvidence'
  BY <1>1 DEF TraceIsShortestEvidence, TraceIsEvidence, FoundIt
<1>6. ShortestUnderBfs'
  BY DEF TraceIsShortestEvidence, ShortestUnderBfs, FoundIt, Deciding
<1> QED BY <1>1, <1>2, <1>3, <1>4, <1>5, <1>6 DEF AccountInv, TraceIsShortestEvidence

(* The account and the evidence stay right.                                *)
LEMMA AccountStep ==
  SettledInv /\ AccountInv /\ TraceIsShortestEvidence /\ [Next]_vars
    => AccountInv' /\ TraceIsShortestEvidence'
<1> SUFFICES ASSUME SettledInv, AccountInv, TraceIsShortestEvidence, [Next]_vars
             PROVE  AccountInv' /\ TraceIsShortestEvidence'
  OBVIOUS
<1>1. CASE Next
  <2>1. TypeOK /\ LevelByLevel /\ NodesWithinBound /\ MarksMean /\ Unanswered /\ NodesFollowModel
    BY DEF SettledInv, AccountInv
  <2> QED BY <1>1, <2>1, FollowStep, LevelStep, BoundStep, RecordStep, MarksStep, UnansweredStep,
             EvidenceStep DEF AccountInv
<1>2. CASE UNCHANGED vars
  BY <1>2, AccountStays
<1> QED BY <1>1, <1>2

(* The account and the evidence are right throughout.                      *)
LEMMA Accounts == Spec => [](AccountInv /\ TraceIsShortestEvidence)
BY Settles, InitAccount, AccountStep, PTL DEF Spec

(* The inductive invariant the runs check: nodes that are neither waiting  *)
(* nor being expanded are settled, the edges are the steps tried, and the  *)
(* account of levels, followed steps and marks is right.                   *)
THEOREM Inductive == Spec => []SearchInv
<1>1. SettledInv /\ GraphInv /\ AccountInv => SearchInv
  BY DEF SearchInv
<1> QED BY Settles, Draws, Accounts, <1>1, PTL

(* build_trace is evidence, for every model, property and plan: each node  *)
(* is one step of the model after its parent, the end of the trace shows   *)
(* what was reported, and under Bfs no state nearer to the initial one     *)
(* would have decided the property.                                        *)
THEOREM TraceCorrect == Spec => []TraceIsShortestEvidence
BY Accounts, PTL

-------------------------------------------------------------------------------
(* The contract.                                                           *)

(* The contract speaks of the same transition system.                      *)
LEMMA SameSystem ==
  ASSUME NEW m, NEW q
  PROVE  /\ Contract!Actions = Actions /\ Contract!Reachable(m) = Reachable(m)
         /\ \A s, a : Contract!ApplyAction(m, s, a) = ApplyAction(m, s, a)
         /\ \A s, a : Contract!Enabled(m, s, a) <=> Enabled(m, s, a)
         /\ \A k : Contract!Within(m, k) = Within(m, k)
<1> USE DEF Contract!Actions, Actions, Contract!ApplyAction, ApplyAction
<1>1. Contract!Reachable(m) = Reachable(m)
  BY DEF Contract!Reachable, Reachable, Contract!Closed, Closed, Contract!Successors, Successors
<1>2. \A s, a : Contract!Enabled(m, s, a) <=> Enabled(m, s, a)
  BY DEF Contract!Enabled, Enabled
<1>3. \A k : Contract!Within(m, k) = Within(m, k)
  BY DEF Contract!Within, Within, Contract!Successors, Successors
<1> QED BY <1>1, <1>2, <1>3

(* ... and of the same questions.                                          *)
LEMMA SameQuestions ==
  ASSUME NEW m, NEW q
  PROVE  /\ Contract!DecidingStates(m, q) = DecidingStates(m, q)
         /\ \A s : Contract!Faulty(m, q, s) <=> Faulty(m, q, s)
         /\ \A s : Contract!Decides(m, q, s) <=> Decides(m, q, s)
         /\ \A s : Contract!Matches(q, s) <=> Matches(q, s)
         /\ Contract!Filtered(q) <=> Filtered(q)
         /\ \A s, a, t : Contract!StepInScope(q, s, a, t) <=> StepInScope(q, s, a, t)
<1> USE DEF Contract!InScenario, InScenario
<1>1. \A s : Contract!Matches(q, s) <=> Matches(q, s)
  BY DEF Contract!Matches, Matches
<1>2. \A s, a, t : Contract!StepInScope(q, s, a, t) <=> StepInScope(q, s, a, t)
  BY DEF Contract!StepInScope, StepInScope
<1>3. \A s : Contract!Faulty(m, q, s) <=> Faulty(m, q, s)
  <2>1. /\ \A s : Contract!ScopeUndefined(q, s) <=> ScopeUndefined(q, s)
        /\ \A s, a, t : Contract!StepFaults(q, s, a, t) <=> StepFaults(q, s, a, t)
    BY DEF Contract!ScopeUndefined, ScopeUndefined, Contract!StepFaults, StepFaults
  <2> QED BY <2>1, SameSystem DEF Contract!Faulty, Faulty
<1>4. \A s : Contract!Decides(m, q, s) <=> Decides(m, q, s)
  <2>1. \A s : Contract!Triggered(q, s) <=> Triggered(q, s)
    BY DEF Contract!Triggered, Triggered
  <2>2. \A s : Contract!Deadlocked(m, s) <=> Deadlocked(m, s)
    BY SameSystem DEF Contract!Deadlocked, Deadlocked
  <2>3. \A s, a, t : Contract!StepViolates(q, s, a, t) <=> StepViolates(q, s, a, t)
    BY <1>2 DEF Contract!StepViolates, StepViolates, Contract!StepFaults, StepFaults
  <2>4. /\ Contract!Actions = Actions
        /\ \A s, a : Contract!ApplyAction(m, s, a) = ApplyAction(m, s, a)
        /\ \A s, a : Contract!Enabled(m, s, a) <=> Enabled(m, s, a)
    BY SameSystem
  <2> QED BY <1>1, <2>1, <2>2, <2>3, <2>4 DEF Contract!Decides, Decides
<1>5. Contract!DecidingStates(m, q) = DecidingStates(m, q)
  BY <1>4, SameSystem DEF Contract!DecidingStates, DecidingStates
<1>6. Contract!Filtered(q) <=> Filtered(q)
  BY DEF Contract!Filtered, Filtered
<1> QED BY <1>1, <1>2, <1>3, <1>4, <1>5, <1>6

(* An answer the contract accepts, given where none had been, is its step. *)
LEMMA AnswerDecides ==
  ASSUME outcome = Pending, UNCHANGED <<model, query, plan>>,
         NEW v, v = [status |-> outcome'.status, assurance |-> outcome'.assurance,
                     vacuous |-> outcome'.vacuous, reason |-> outcome'.reason],
         v \in Contract!VerdictType, Contract!Justified(model, query, plan, v)
  PROVE  Contract!Decide
BY DEF Contract!Decide, Contract!NoVerdict, Pending

(* What is found justifies the answer.                                     *)
LEMMA FoundJustified ==
  ASSUME NEW v, v.assurance = EarlyAssurance, Deciding # {},
         <<v.status, v.reason>> \in {<<"fail", "violated">>, <<"fail", "deadlock">>,
                                     <<"pass", "cover_reached">>}
  PROVE  Contract!Justified(model, query, plan, v)
BY SameQuestions DEF Contract!Justified, Contract!Found, EarlyAssurance, Deciding

(* A vacuous answer is one to a question nothing reachable is asked by.    *)
LEMMA VacuityExact ==
  ASSUME SettledInv, AccountInv, pc = "pop", frontier = <<>>, ~cut
  PROVE  Vacuous <=> Contract!NothingAsked(model, query)
                       /\ (query.kind = "transition" \/ Filtered(query))
<1>0. /\ TypeOK /\ Searching /\ current = 0 /\ AllRecorded /\ MarksMean
  BY DEF SettledInv, AccountInv, Searching, Shape
<1>1. /\ \A i \in 1..Len(nodes) : \A x \in Actions : Recorded(i, x)
      /\ \A i \in 1..Len(nodes) : Matches(query, nodes[i].state) => sawState
  BY <1>0 DEF AllRecorded, Waiting
<1>2. \A s \in Reachable(model) : \E i \in 1..Len(nodes) : nodes[i].state = s
  BY Exhaustion
<1>3. CASE query.kind = "transition"
  <2>1. Contract!NothingAsked(model, query) <=>
          \A s \in Reachable(model) : \A x \in Actions :
            Enabled(model, s, x) => ~StepInScope(query, s, x, ApplyAction(model, s, x))
    <3>1. /\ Contract!Reachable(model) = Reachable(model) /\ Contract!Actions = Actions
          /\ \A s, x : Contract!ApplyAction(model, s, x) = ApplyAction(model, s, x)
          /\ \A s, x : Contract!Enabled(model, s, x) <=> Enabled(model, s, x)
          /\ \A s, x, t : Contract!StepInScope(query, s, x, t) <=> StepInScope(query, s, x, t)
      BY SameSystem, SameQuestions
    <3>2. Contract!NothingAsked(model, query) <=>
            \A s \in Reachable(model) : \A x \in Actions :
              Contract!Enabled(model, s, x)
                => ~Contract!StepInScope(query, s, x, Contract!ApplyAction(model, s, x))
      BY <1>3, <3>1 DEF Contract!NothingAsked
    <3> QED BY <3>1, <3>2
  <2>2. ASSUME ~sawStep, NEW s \in Reachable(model), NEW x \in Actions, Enabled(model, s, x)
        PROVE  ~StepInScope(query, s, x, ApplyAction(model, s, x))
    <3> PICK i \in 1..Len(nodes) : nodes[i].state = s
      BY <1>2
    <3> QED BY <1>1, <2>2 DEF Recorded, Enabled
  <2> QED BY <1>0, <1>3, <2>1, <2>2 DEF Vacuous, MarksMean
<1>4. CASE query.kind # "transition"
  <2>1. Contract!NothingAsked(model, query) <=> \A s \in Reachable(model) : ~Matches(query, s)
    BY <1>4, SameSystem, SameQuestions DEF Contract!NothingAsked
  <2>2. sawState <=> \E s \in Reachable(model) : Matches(query, s)
    BY <1>0, <1>1, <1>2 DEF MarksMean
  <2> QED BY <1>0, <1>4, <2>1, <2>2 DEF Vacuous
<1> QED BY <1>3, <1>4

(* An empty frontier justifies the negative answer as far as it is graded. *)
LEMMA ExhaustionJustified ==
  ASSUME SettledInv, AccountInv, pc = "pop", frontier = <<>>,
         NEW v, v.assurance = FinalAssurance, v.vacuous = Vacuous,
         <<v.status, v.reason>> \in {<<"pass", "exhausted">>, <<"fail", "cover_unreached">>}
  PROVE  Contract!Justified(model, query, plan, v)
<1>0. /\ TypeOK /\ Shape /\ NodesReachable /\ Searching /\ current = 0 /\ Len(nodes) >= 1
      /\ \A i \in 1..Len(nodes) : i # current /\ ~Waiting(i)
  BY DEF SettledInv, TypeOK, Searching, Shape, Waiting
<1>1. v.assurance = "bounded" => plan.max_depth # {}
  BY DEF FinalAssurance
<1>2. v.assurance = "complete" => ~cut
  BY <1>0 DEF FinalAssurance, Shape
<1>3. ASSUME ~cut, NEW s \in Reachable(model) PROVE ~Decides(model, query, s) /\ ~Faulty(model, query, s)
  <2> PICK i \in 1..Len(nodes) : nodes[i].state = s
    BY <1>3, Exhaustion
  <2>1. Settled(i)
    BY Exhaustion
  <2> QED BY <2>1, SettledDecidesNot
<1>4. \A s \in Contract!Covered(model, plan, v.assurance) :
        ~Decides(model, query, s) /\ ~Faulty(model, query, s)
  <2>1. CASE v.assurance = "complete"
    <3>1. Contract!Covered(model, plan, v.assurance) = Reachable(model)
      BY <2>1, SameSystem DEF Contract!Covered
    <3> QED BY <1>2, <1>3, <2>1, <3>1
  <2>2. CASE v.assurance # "complete" /\ plan.strategy = "bfs"
    <3>1. Contract!Covered(model, plan, v.assurance) = UNION {Within(model, d) : d \in plan.max_depth}
      BY <2>2, SameSystem DEF Contract!Covered
    <3>2. ASSUME NEW d \in plan.max_depth, NEW s \in Within(model, d)
          PROVE  ~Decides(model, query, s) /\ ~Faulty(model, query, s)
      <4>1. /\ plan.max_depth \in Optional(Nat)
        BY <1>0 DEF TypeOK, PlanType
      <4>2. d \in Nat /\ d + 1 \in Nat /\ d < d + 1 /\ \A e \in plan.max_depth : d + 1 <= e + 1
        BY <4>1 DEF Optional
      <4> QED BY <1>0, <2>2, <4>2, NearDecidesNot
    <3> QED BY <3>1, <3>2
  <2>3. CASE v.assurance # "complete" /\ plan.strategy # "bfs"
    <3>1. Contract!Covered(model, plan, v.assurance) = {model.init}
      BY <2>3 DEF Contract!Covered
    <3>2. 1 \in 1..Len(nodes) /\ nodes[1].state = model.init /\ Settled(1)
      <4>1. 1 \in 1..Len(nodes)
        BY <1>0 DEF TypeOK
      <4> QED BY <1>0, <4>1, Exhaustion DEF NodesReachable
    <3> QED BY <3>1, <3>2, SettledDecidesNot
  <2> QED BY <2>1, <2>2, <2>3
<1>5. ASSUME v.assurance = "complete"
      PROVE  v.vacuous <=> Contract!NothingAsked(model, query)
                             /\ (query.kind = "transition" \/ Contract!Filtered(query))
  BY <1>2, <1>5, VacuityExact, SameQuestions
<1>6. <<v.status, v.reason>> \in Contract!Exhausted
  BY DEF Contract!Exhausted
<1>7. \A s \in Contract!Covered(model, plan, v.assurance) :
        ~Contract!Decides(model, query, s) /\ ~Contract!Faulty(model, query, s)
  BY <1>4, SameQuestions
<1> QED BY <1>1, <1>5, <1>6, <1>7 DEF Contract!Justified

(* Stopping at the budget: the states seen, and the one more, are there.   *)
LEMMA BudgetJustified ==
  ASSUME IsFiniteSet(States), SettledInv, StopAtStateLimit
  PROVE  \E limit \in plan.max_states : Cardinality(Reachable(model)) > limit
<1> DEFINE seen == DOMAIN visited
<1>0. /\ TypeOK /\ Indexed /\ NodesReachable /\ model \in ModelType /\ seen \subseteq States
      /\ pc = "expand" /\ Trying /\ Target \in States /\ Target \notin seen /\ Searching
  BY DEF SettledInv, TypeOK, StopAtStateLimit, Discover, Take, Trying, Searching
<1>1. PICK limit \in plan.max_states : Cardinality(seen) + 1 > limit
  BY DEF StopAtStateLimit, OverBudget
<1>2. seen \subseteq Reachable(model)
  BY <1>0 DEF Indexed, NodesReachable
<1>3. Target \in Reachable(model)
  <2>1. Source \in Reachable(model) /\ nextAction \in Actions
    BY <1>0, ChildType DEF NodesReachable, Source, Trying
  <2> QED BY <1>0, <2>1, ReachableStep DEF Target
<1>4. IsFiniteSet(seen) /\ IsFiniteSet(Reachable(model))
  BY <1>0, FS_Subset DEF Reachable
<1>5. Cardinality(seen \cup {Target}) = Cardinality(seen) + 1 /\ IsFiniteSet(seen \cup {Target})
  BY <1>0, <1>4, FS_AddElement
<1>6. Cardinality(seen \cup {Target}) <= Cardinality(Reachable(model))
  <2>1. seen \cup {Target} \subseteq Reachable(model)
    BY <1>2, <1>3
  <2> QED BY <1>4, <2>1, FS_Subset
<1>7. Cardinality(seen) \in Nat /\ Cardinality(Reachable(model)) \in Nat /\ limit \in Nat
  BY <1>0, <1>4, FS_CardinalityType DEF TypeOK, PlanType, Optional
<1> QED BY <1>1, <1>5, <1>6, <1>7

(* Each answering step is the one step of the contract.                    *)
LEMMA DecideStep ==
  ASSUME IsFiniteSet(States), SettledInv, AccountInv, Next, Ending
  PROVE  Contract!Decide
<1> DEFINE v == [status |-> outcome'.status, assurance |-> outcome'.assurance,
                 vacuous |-> outcome'.vacuous, reason |-> outcome'.reason]
<1>0. /\ TypeOK /\ NodesReachable /\ Unanswered /\ UNCHANGED <<model, query, plan>>
  BY EndingStep DEF SettledInv, AccountInv
<1>1. outcome = Pending
  <2>1. pc \in {"pop", "expand"}
    BY DEF Ending, StopAtTimeLimit, FailEvaluation, ReportState, PopNext, FailApply, FailStep, ReportStep,
       StopAtStateLimit, Discover, Take, Trying, ReportDeadlock, Tried, Conclude
  <2> QED BY <1>0, <2>1 DEF Unanswered
<1> SUFFICES v \in Contract!VerdictType /\ Contract!Justified(model, query, plan, v)
  BY <1>0, <1>1, AnswerDecides
<1>2. ASSUME NEW status, NEW assurance, NEW reason, NEW vacuous, NEW end,
             Answer(status, assurance, reason, vacuous, end)
      PROVE  v.status = status /\ v.assurance = assurance /\ v.reason = reason /\ v.vacuous = vacuous
  BY <1>2 DEF Answer
<1>3. ASSUME NEW status \in {"pass", "fail", "unknown", "error"},
             NEW assurance \in {"complete", "bounded", "incomplete"}, NEW vacuous \in BOOLEAN,
             NEW reason \in {"violated", "deadlock", "cover_reached", "exhausted", "cover_unreached",
                             "time_limit", "state_limit", "evaluation", "transition"},
             v.status = status, v.assurance = assurance, v.reason = reason, v.vacuous = vacuous
      PROVE  v \in Contract!VerdictType
  BY <1>3 DEF Contract!VerdictType
<1>4. VerdictSound'
  BY VerdictStep
<1> HIDE DEF v
<1>5. CASE StopAtTimeLimit
  <2>1. Stop("time_limit") /\ expired
    BY <1>5 DEF StopAtTimeLimit
  <2>2. v.status = "unknown" /\ v.assurance = "incomplete" /\ v.reason = "time_limit" /\ v.vacuous = FALSE
    BY <1>2, <2>1 DEF Stop
  <2>3. plan.timed
    BY <1>0, <2>1 DEF Unanswered
  <2> QED BY <1>3, <2>2, <2>3 DEF Contract!Justified
<1>6. CASE StopAtStateLimit
  <2>1. Stop("state_limit")
    BY <1>6 DEF StopAtStateLimit
  <2>2. v.status = "unknown" /\ v.assurance = "incomplete" /\ v.reason = "state_limit" /\ v.vacuous = FALSE
    BY <1>2, <2>1 DEF Stop
  <2>3. \E limit \in plan.max_states : Contract!Cardinality(Contract!Reachable(model)) > limit
    <3>1. Contract!Reachable(model) = Reachable(model)
      BY SameSystem
    <3>2. \A S : Contract!Cardinality(S) = Cardinality(S)
      BY DEF Contract!Cardinality, Cardinality, Contract!IsFiniteSet, IsFiniteSet
    <3> QED BY <1>6, <3>1, <3>2, BudgetJustified
  <2>4. v.assurance # "bounded" /\ <<v.status, v.reason>> = <<"unknown", "state_limit">>
    BY <2>2
  <2>5. Contract!Justified(model, query, plan, v)
    BY <2>3, <2>4 DEF Contract!Justified
  <2> QED BY <1>3, <2>2, <2>5
<1>7. CASE FailEvaluation \/ FailApply \/ FailStep
  <2>1. Error("evaluation") \/ Error("transition")
    BY <1>7 DEF FailEvaluation, FailApply, FailStep
  <2>2. /\ v.status = "error" /\ v.assurance = "incomplete" /\ v.vacuous = FALSE
        /\ v.reason \in {"evaluation", "transition"}
    BY <1>2, <2>1 DEF Error
  <2>3. \E s \in Reachable(model) : Faulty(model, query, s)
    <3>1. CASE FailEvaluation
      <4> PICK i \in 1..Len(nodes) : MatchFaults(query, nodes[i].state)
        BY <3>1 DEF FailEvaluation
      <4> QED BY <1>0 DEF NodesReachable, MatchFaults, Faulty
    <3>2. CASE FailApply \/ FailStep
      <4>1. Source \in Reachable(model) /\ nextAction \in Actions
        <5>1. Trying /\ current \in 1..Len(nodes)
          BY <1>0, <3>2 DEF FailApply, FailStep, Trying, TypeOK
        <5> QED BY <1>0, <5>1 DEF NodesReachable, Source, Trying
      <4> QED BY <3>2, <4>1 DEF FailApply, FailStep, Target, Enabled, Faulty
    <3> QED BY <1>7, <3>1, <3>2
  <2>4. \E s \in Contract!Reachable(model) : Contract!Faulty(model, query, s)
    BY <2>3, SameSystem, SameQuestions
  <2> QED BY <1>3, <2>2, <2>4 DEF Contract!Justified
<1>8. CASE ReportState \/ ReportStep \/ ReportDeadlock
  <2>1. \E i : \/ Answer("pass", EarlyAssurance, "cover_reached", FALSE, i)
               \/ Answer("fail", EarlyAssurance, "violated", FALSE, i)
               \/ Answer("fail", EarlyAssurance, "deadlock", FALSE, i)
    BY <1>8 DEF ReportState, ReportStep, ReportDeadlock
  <2>2. /\ <<v.status, v.reason>> \in {<<"fail", "violated">>, <<"fail", "deadlock">>,
                                       <<"pass", "cover_reached">>}
        /\ v.assurance = EarlyAssurance /\ v.vacuous = FALSE
    BY <1>2, <2>1
  <2>3. Deciding # {}
    <3>1. FoundIt'
      BY <2>2 DEF v, FoundIt
    <3> QED BY <1>0, <1>4, <3>1 DEF VerdictSound, Deciding
  <2> QED BY <1>3, <2>2, <2>3, FoundJustified, AssuranceType
<1>9. CASE Conclude
  <2>1. /\ pc = "pop" /\ frontier = <<>>
        /\ \/ Answer("fail", FinalAssurance, "cover_unreached", Vacuous, 0)
           \/ Answer("pass", FinalAssurance, "exhausted", Vacuous, 0)
    BY <1>9 DEF Conclude
  <2>2. /\ <<v.status, v.reason>> \in {<<"pass", "exhausted">>, <<"fail", "cover_unreached">>}
        /\ v.assurance = FinalAssurance /\ v.vacuous = Vacuous
    BY <1>2, <2>1
  <2> QED BY <1>0, <1>3, <2>1, <2>2, ExhaustionJustified, AssuranceType, VacuousType
<1> QED BY <1>5, <1>6, <1>7, <1>8, <1>9 DEF Ending

(* run_explicit keeps the contract of a check, for every model of finitely *)
(* many states, every property, strategy and limit: it answers once, and   *)
(* only with what the reachable states justify.                            *)
THEOREM Refines ==
  ASSUME IsFiniteSet(States)
  PROVE  Spec => ImplementsContract
<1>1. Init => Contract!Init
  BY DEF Init, Pending, Contract!Init, Contract!NoVerdict
<1>2. SettledInv /\ AccountInv /\ [Next]_vars => [Contract!Decide]_(Contract!vars)
  <2> SUFFICES ASSUME SettledInv, AccountInv, [Next]_vars
               PROVE  [Contract!Decide]_(Contract!vars)
    OBVIOUS
  <2>1. CASE Next /\ Ending
    BY <2>1, DecideStep
  <2>2. CASE Next /\ ~Ending
    <3>1. UNCHANGED <<model, query, plan, outcome>>
      BY <2>2, GoingOnKeeps DEF SettledInv, Keeps
    <3> QED BY <3>1 DEF Contract!vars
  <2>3. CASE UNCHANGED vars
    BY <2>3 DEF vars, inputs, Contract!vars
  <2> QED BY <2>1, <2>2, <2>3
<1>3. []SettledInv /\ []AccountInv /\ [][Next]_vars => [][Contract!Decide]_(Contract!vars)
  BY <1>2, PTL
<1> QED BY Settles, Accounts, <1>1, <1>3, PTL DEF Spec, ImplementsContract, Contract!Spec

-------------------------------------------------------------------------------
(* Recursive definitions, and loops that update a set in place.            *)

(* A recursive definition over F, of which g is one step, that looks only  *)
(* at what is lower.                                                       *)
LooksBelow(F, height, V, g) ==
  \A t, u \in [F -> V] : \A f \in F :
    (\A e \in F : height[e] < height[f] => t[e] = u[e]) => g[t][f] = g[u][f]

(* h is what it defines.                                                   *)
Solves(F, V, g, h) == h \in [F -> V] /\ \A f \in F : h[f] = g[h][f]

(* Such a definition defines something: values are settled height by       *)
(* height, and joined.                                                     *)
LEMMA RecursionExists ==
  ASSUME NEW F, NEW height, height \in [F -> Nat], NEW V, NEW v, v \in V,
         NEW g, g \in [[F -> V] -> [F -> V]], LooksBelow(F, height, V, g)
  PROVE  \E h : Solves(F, V, g, h)
<1> USE DEF LooksBelow
<1> DEFINE Right(k, t) == \A f \in F : height[f] < k => t[f] = g[t][f]
<1>1. \A k \in Nat : \E t \in [F -> V] : Right(k, t)
  <2> DEFINE T == {k \in Nat : \E t \in [F -> V] : Right(k, t)}
  <2>1. 0 \in T
    <3>1. [f \in F |-> v] \in [F -> V] /\ Right(0, [f \in F |-> v])
      OBVIOUS
    <3> HIDE DEF Right
    <3> QED BY <3>1
  <2>2. ASSUME NEW k \in T PROVE k + 1 \in T
    <3> PICK t \in [F -> V] : Right(k, t)
      OBVIOUS
    <3>1. g[t] \in [F -> V]
      OBVIOUS
    <3>2. ASSUME NEW f \in F, height[f] < k + 1 PROVE g[t][f] = g[g[t]][f]
      <4>1. \A e \in F : height[e] < height[f] => t[e] = g[t][e]
        BY <3>2
      <4> QED BY <3>1, <4>1
    <3>3. Right(k + 1, g[t])
      BY <3>2
    <3> HIDE DEF Right
    <3> QED BY <3>1, <3>3
  <2>3. T = Nat
    <3> HIDE DEF Right
    <3>1. T \in SUBSET Nat
      OBVIOUS
    <3> HIDE DEF T
    <3> QED BY <2>1, <2>2, <3>1, InductionInSetForm
  <2> QED BY <2>3
<1>2. ASSUME NEW t \in [F -> V], NEW u \in [F -> V], NEW k \in Nat, Right(k, t),
             NEW j \in Nat, Right(j, u), NEW f \in F, height[f] < k, height[f] < j
      PROVE  t[f] = u[f]
  <2> DEFINE T == {n \in Nat : \A e \in F : height[e] < n /\ height[e] < k /\ height[e] < j => t[e] = u[e]}
  <2>1. 0 \in T
    OBVIOUS
  <2>2. ASSUME NEW n \in T PROVE n + 1 \in T
    <3> SUFFICES ASSUME NEW e \in F, height[e] < n + 1, height[e] < k, height[e] < j
                 PROVE  t[e] = u[e]
      OBVIOUS
    <3>1. \A d \in F : height[d] < height[e] => t[d] = u[d]
      OBVIOUS
    <3>2. g[t][e] = g[u][e]
      BY <3>1
    <3> QED BY <1>2, <3>2
  <2>3. T = Nat
    <3>1. T \in SUBSET Nat
      OBVIOUS
    <3> HIDE DEF T
    <3> QED BY <2>1, <2>2, <3>1, InductionInSetForm
  <2>4. height[f] + 1 \in T
    BY <2>3
  <2> QED BY <1>2, <2>4
<1> DEFINE Chosen(f) == CHOOSE t \in [F -> V] : Right(height[f] + 1, t)
           h == [f \in F |-> Chosen(f)[f]]
<1>3. \A f \in F : Chosen(f) \in [F -> V] /\ Right(height[f] + 1, Chosen(f))
  <2> SUFFICES ASSUME NEW f \in F PROVE Chosen(f) \in [F -> V] /\ Right(height[f] + 1, Chosen(f))
    OBVIOUS
  <2> HIDE DEF Right
  <2>1. height[f] + 1 \in Nat
    OBVIOUS
  <2> QED BY <1>1, <2>1
<1>4. h \in [F -> V]
  <2> HIDE DEF Chosen
  <2> QED BY <1>3
<1>5. ASSUME NEW f \in F PROVE h[f] = g[h][f]
  <2>1. ASSUME NEW e \in F, height[e] < height[f] PROVE h[e] = Chosen(f)[e]
    <3>1. /\ height[e] + 1 \in Nat /\ height[f] + 1 \in Nat
          /\ height[e] < height[e] + 1 /\ height[e] < height[f] + 1
      BY <2>1
    <3> HIDE DEF Chosen, Right
    <3>2. Chosen(e)[e] = Chosen(f)[e]
      BY <1>2, <1>3, <3>1
    <3> QED BY <3>2
  <2>2. Chosen(f) \in [F -> V] /\ Chosen(f)[f] = g[Chosen(f)][f]
    <3>1. height[f] < height[f] + 1
      OBVIOUS
    <3> HIDE DEF Chosen
    <3> QED BY <1>3, <3>1
  <2> HIDE DEF Chosen
  <2>3. h[f] = Chosen(f)[f]
    OBVIOUS
  <2> HIDE DEF h
  <2>4. g[h][f] = g[Chosen(f)][f]
    BY <1>4, <2>1, <2>2
  <2> QED BY <2>2, <2>3, <2>4
<1> HIDE DEF h
<1> QED BY <1>4, <1>5 DEF Solves

(* What holds of a formula whenever it holds of all lower ones, holds of   *)
(* all.                                                                    *)
LEMMA HeightInduction ==
  ASSUME NEW W \in SUBSET Formulas,
         \A f \in Formulas :
           (\A e \in Formulas : Height[e] < Height[f] => e \in W) => f \in W
  PROVE  W = Formulas
<1> DEFINE T == {n \in Nat : \A f \in Formulas : Height[f] < n => f \in W}
<1>0. Height \in [Formulas -> Nat]
  BY FormulasAssumption
<1>1. 0 \in T
  BY <1>0
<1>2. ASSUME NEW n \in T PROVE n + 1 \in T
  <2> SUFFICES ASSUME NEW f \in Formulas, Height[f] < n + 1 PROVE f \in W
    OBVIOUS
  <2>1. \A e \in Formulas : Height[e] < Height[f] => Height[e] < n
    BY <1>0
  <2> QED BY <2>1
<1>3. T = Nat
  <2>1. T \in SUBSET Nat
    OBVIOUS
  <2> HIDE DEF T
  <2> QED BY <1>1, <1>2, <2>1, InductionInSetForm
<1>4. ASSUME NEW f \in Formulas PROVE f \in W
  <2>1. Height[f] + 1 \in T /\ Height[f] < Height[f] + 1
    BY <1>0, <1>3
  <2> QED BY <2>1
<1> QED BY <1>4

-------------------------------------------------------------------------------
(* a records one pass over 1..n that updates a set in place: its k-th      *)
(* state differs from the one before at k at most.                         *)
IsPass(n, h, S, a) ==
  /\ a \in [0..n -> SUBSET (1..n)]
  /\ a[0] = S
  /\ \A k \in 1..n : a[k] = IF k \in h[a[k - 1]] THEN a[k - 1] \cup {k} ELSE a[k - 1] \ {k}

(* What a pass writes can only grow with the set it looks at.              *)
Monotone(n, h) ==
  /\ h \in [SUBSET (1..n) -> SUBSET (1..n)]
  /\ \A A, B \in SUBSET (1..n) : A \subseteq B => h[A] \subseteq h[B]

(* A pass over a set it can only add to adds nothing that a fixpoint above *)
(* the set does without, and changes nothing only at a fixpoint.           *)
LEMMA PassGrows ==
  ASSUME NEW n \in Nat, NEW h, Monotone(n, h), NEW S \in SUBSET (1..n), S \subseteq h[S],
         NEW a, IsPass(n, h, S, a)
  PROVE  /\ a[n] \in SUBSET (1..n)
         /\ S \subseteq a[n]
         /\ a[n] \subseteq h[a[n]]
         /\ \A Q \in SUBSET (1..n) : S \subseteq Q /\ h[Q] \subseteq Q => a[n] \subseteq Q
         /\ a[n] = S => h[S] = S
<1> DEFINE A(k) == /\ \A j \in 0..k : a[j] \subseteq a[k]
                   /\ a[k] \subseteq h[a[k]]
                   /\ \A Q \in SUBSET (1..n) : S \subseteq Q /\ h[Q] \subseteq Q => a[k] \subseteq Q
                   /\ \A j \in 1..k : j \in h[a[j - 1]] => j \in a[k]
           T == {k \in Nat : k <= n => A(k)}
<1>0. /\ a[0] = S
      /\ \A k \in 0..n : a[k] \in SUBSET (1..n) /\ h[a[k]] \in SUBSET (1..n)
      /\ \A k \in 1..n : a[k] = IF k \in h[a[k - 1]] THEN a[k - 1] \cup {k} ELSE a[k - 1] \ {k}
      /\ \A B, C \in SUBSET (1..n) : B \subseteq C => h[B] \subseteq h[C]
  BY DEF IsPass, Monotone
<1>1. 0 \in T
  BY <1>0
<1>2. ASSUME NEW k \in T PROVE k + 1 \in T
  <2> SUFFICES ASSUME k + 1 <= n PROVE A(k + 1)
    OBVIOUS
  <2>1. /\ k \in 0..n /\ k + 1 \in 1..n /\ (k + 1) - 1 = k /\ k + 1 \in 0..n
        /\ a[k] \in SUBSET (1..n) /\ a[k + 1] \in SUBSET (1..n) /\ A(k)
    BY <1>0
  <2>2. a[k + 1] = IF k + 1 \in h[a[k]] THEN a[k] \cup {k + 1} ELSE a[k] \ {k + 1}
    BY <1>0, <2>1
  <2>3. a[k + 1] = a[k] \cup ({k + 1} \cap h[a[k]])
    <3>1. k + 1 \in a[k] => k + 1 \in h[a[k]]
      BY <2>1
    <3> QED BY <2>2, <3>1
  <2>4. a[k] \subseteq a[k + 1] /\ h[a[k]] \subseteq h[a[k + 1]]
    BY <1>0, <2>1, <2>3
  <2>5. \A j \in 0..(k + 1) : a[j] \subseteq a[k + 1]
    BY <2>1, <2>4
  <2>6. a[k + 1] \subseteq h[a[k + 1]]
    BY <2>1, <2>3, <2>4
  <2>7. ASSUME NEW Q \in SUBSET (1..n), S \subseteq Q, h[Q] \subseteq Q PROVE a[k + 1] \subseteq Q
    <3>1. a[k] \subseteq Q
      BY <2>1, <2>7
    <3>2. h[a[k]] \subseteq h[Q]
      BY <1>0, <2>1, <3>1
    <3> QED BY <2>3, <2>7, <3>1, <3>2
  <2>8. ASSUME NEW j \in 1..(k + 1), j \in h[a[j - 1]] PROVE j \in a[k + 1]
    <3>1. CASE j = k + 1
      BY <2>1, <2>3, <2>8, <3>1
    <3>2. CASE j # k + 1
      <4>1. j \in 1..k
        BY <3>2
      <4> QED BY <2>1, <2>4, <2>8, <4>1
    <3> QED BY <3>1, <3>2
  <2> QED BY <2>5, <2>6, <2>7, <2>8
<1>3. T = Nat
  <2>1. T \in SUBSET Nat
    OBVIOUS
  <2> HIDE DEF T
  <2> QED BY <1>1, <1>2, <2>1, InductionInSetForm
<1>4. A(n) /\ 0 \in 0..n /\ n \in 0..n
  BY <1>3
<1>5. ASSUME a[n] = S PROVE h[S] = S
  <2> SUFFICES ASSUME NEW j \in h[S] PROVE j \in S
    OBVIOUS
  <2>1. j \in 1..n /\ j - 1 \in 0..n
    BY <1>0 DEF Monotone
  <2>2. a[j - 1] = S
    <3>1. a[j - 1] \subseteq S
      BY <1>4, <1>5, <2>1
    <3>2. S \subseteq a[j - 1]
      <4>1. j - 1 \in Nat /\ j - 1 <= n /\ 0 \in 0..(j - 1)
        BY <2>1
      <4>2. A(j - 1)
        BY <1>3, <4>1
      <4> QED BY <1>0, <4>1, <4>2
    <3> QED BY <3>1, <3>2
  <2> QED BY <1>4, <1>5, <2>1, <2>2
<1> QED BY <1>0, <1>4, <1>5

(* A pass changes nothing at a fixpoint.                                   *)
LEMMA FixpointStays ==
  ASSUME NEW n \in Nat, NEW h, NEW S \in SUBSET (1..n), h[S] = S, NEW a, IsPass(n, h, S, a)
  PROVE  a[n] = S
<1> DEFINE T == {k \in Nat : k <= n => a[k] = S}
<1>1. 0 \in T
  BY DEF IsPass
<1>2. ASSUME NEW k \in T PROVE k + 1 \in T
  <2> SUFFICES ASSUME k + 1 <= n PROVE a[k + 1] = S
    OBVIOUS
  <2>1. k + 1 \in 1..n /\ (k + 1) - 1 = k /\ a[k] = S
    OBVIOUS
  <2>2. a[k + 1] = IF k + 1 \in h[S] THEN S \cup {k + 1} ELSE S \ {k + 1}
    BY <2>1 DEF IsPass
  <2> QED BY <2>2
<1>3. T = Nat
  <2>1. T \in SUBSET Nat
    OBVIOUS
  <2> HIDE DEF T
  <2> QED BY <1>1, <1>2, <2>1, InductionInSetForm
<1> QED BY <1>3

(* A proper subset has fewer elements.                                     *)
LEMMA SmallerSubset ==
  ASSUME NEW S, IsFiniteSet(S), NEW U \in SUBSET S, U # S
  PROVE  /\ IsFiniteSet(U) /\ Cardinality(U) \in Nat /\ Cardinality(S) \in Nat
         /\ Cardinality(U) < Cardinality(S)
<1>1. IsFiniteSet(U) /\ Cardinality(U) <= Cardinality(S) /\ Cardinality(U) # Cardinality(S)
  BY FS_Subset
<1>2. Cardinality(U) \in Nat /\ Cardinality(S) \in Nat
  BY <1>1, FS_CardinalityType
<1> QED BY <1>1, <1>2

(* p records n passes, one after the other.                                *)
IsRounds(n, h, r, p) ==
  /\ p \in [0..n -> SUBSET (1..n)]
  /\ p[0] = r
  /\ \A k \in 1..n : \E a : IsPass(n, h, p[k - 1], a) /\ p[k] = a[n]

(* A pass only adds to r.                                                  *)
Adds(h, r) == r \subseteq h[r]

(* X is the least fixpoint above r.                                        *)
LeastAbove(n, h, r, X) ==
  /\ r \subseteq X
  /\ h[X] = X
  /\ \A Q \in SUBSET (1..n) : r \subseteq Q /\ h[Q] \subseteq Q => X \subseteq Q

(* n passes reach the least fixpoint above a set they can only add to: one *)
(* that changes something adds one of n elements.                          *)
LEMMA RoundsGrow ==
  ASSUME NEW n, n \in Nat, NEW h, Monotone(n, h), NEW r, r \in SUBSET (1..n), Adds(h, r),
         NEW p, IsRounds(n, h, r, p)
  PROVE  LeastAbove(n, h, r, p[n])
<1> USE DEF Adds
<1> DEFINE B(k) == /\ p[k] \in SUBSET (1..n)
                   /\ r \subseteq p[k]
                   /\ p[k] \subseteq h[p[k]]
                   /\ \A Q \in SUBSET (1..n) : r \subseteq Q /\ h[Q] \subseteq Q => p[k] \subseteq Q
                   /\ h[p[k]] = p[k] \/ Cardinality(p[k]) >= k
           T == {k \in Nat : k <= n => B(k)}
<1>0. IsFiniteSet(1..n) /\ Cardinality(1..n) = n
  <2>1. 0 \in Int /\ 1 \in Int /\ n \in Int
    OBVIOUS
  <2> QED BY <2>1, FS_Interval
<1>1. 0 \in T
  <2>1. p[0] = r /\ p[0] \in SUBSET (1..n)
    BY DEF IsRounds
  <2>2. Cardinality(r) \in Nat
    <3>1. IsFiniteSet(r)
      BY <1>0, FS_Subset
    <3> QED BY <3>1, FS_CardinalityType
  <2>3. Cardinality(r) >= 0
    BY <2>2
  <2> QED BY <2>1, <2>3
<1>2. ASSUME NEW k \in T PROVE k + 1 \in T
  <2> SUFFICES ASSUME k + 1 <= n PROVE B(k + 1)
    OBVIOUS
  <2>1. k + 1 \in 1..n /\ (k + 1) - 1 = k /\ B(k)
    OBVIOUS
  <2>2. PICK a : IsPass(n, h, p[k], a) /\ p[k + 1] = a[n]
    BY <2>1 DEF IsRounds
  <2>3. /\ a[n] \in SUBSET (1..n)
        /\ p[k] \subseteq a[n]
        /\ a[n] \subseteq h[a[n]]
        /\ \A Q \in SUBSET (1..n) : p[k] \subseteq Q /\ h[Q] \subseteq Q => a[n] \subseteq Q
        /\ a[n] = p[k] => h[p[k]] = p[k]
    <3>1. p[k] \in SUBSET (1..n) /\ p[k] \subseteq h[p[k]]
      BY <2>1
    <3> HIDE DEF T
    <3> QED BY <2>2, <3>1, PassGrows
  <2>4. h[p[k + 1]] = p[k + 1] \/ Cardinality(p[k + 1]) >= k + 1
    <3>1. CASE h[p[k]] = p[k]
      <4>1. a[n] = p[k]
        BY <2>1, <2>2, <3>1, FixpointStays
      <4> QED BY <2>2, <3>1, <4>1
    <3>2. CASE h[p[k]] # p[k]
      <4>1. a[n] # p[k] /\ p[k] \subseteq a[n] /\ a[n] \subseteq 1..n
        BY <2>3, <3>2
      <4>2. IsFiniteSet(a[n])
        BY <1>0, <4>1, FS_Subset
      <4>3. Cardinality(p[k]) < Cardinality(a[n]) /\ Cardinality(p[k]) \in Nat /\ Cardinality(a[n]) \in Nat
        BY <4>1, <4>2, SmallerSubset
      <4>5. Cardinality(p[k]) >= k
        BY <2>1, <3>2
      <4> QED BY <2>2, <4>3, <4>5
    <3> QED BY <3>1, <3>2
  <2>5. \A Q \in SUBSET (1..n) : r \subseteq Q /\ h[Q] \subseteq Q => p[k + 1] \subseteq Q
    BY <2>1, <2>2, <2>3
  <2> QED BY <2>1, <2>2, <2>3, <2>4, <2>5
<1>3. T = Nat
  <2>1. T \in SUBSET Nat
    OBVIOUS
  <2> HIDE DEF T
  <2> QED BY <1>1, <1>2, <2>1, InductionInSetForm
<1>4. B(n)
  BY <1>3
<1>5. h[p[n]] = p[n]
  <2> SUFFICES ASSUME Cardinality(p[n]) >= n PROVE h[p[n]] = p[n]
    BY <1>4
  <2>1. p[n] \subseteq 1..n
    BY <1>4
  <2>2. p[n] = 1..n
    <3> SUFFICES ASSUME p[n] # 1..n PROVE FALSE
      OBVIOUS
    <3>1. Cardinality(p[n]) < n /\ Cardinality(p[n]) \in Nat
      BY <1>0, <2>1, SmallerSubset
    <3> QED BY <3>1
  <2>3. h[p[n]] \subseteq 1..n
    BY <1>4 DEF Monotone
  <2> QED BY <1>4, <2>2, <2>3
<1> QED BY <1>4, <1>5 DEF LeastAbove

(* ... and the greatest one below a set they can only take from, which is  *)
(* the same for the complements.                                           *)
LEMMA RoundsShrink ==
  ASSUME NEW n \in Nat, NEW h, Monotone(n, h), NEW r \in SUBSET (1..n), h[r] \subseteq r,
         NEW p, IsRounds(n, h, r, p)
  PROVE  /\ p[n] \subseteq r
         /\ h[p[n]] = p[n]
         /\ \A Q \in SUBSET (1..n) : Q \subseteq r /\ Q \subseteq h[Q] => Q \subseteq p[n]
<1> DEFINE I == 1..n
           g == [X \in SUBSET I |-> I \ h[I \ X]]
           q == [k \in 0..n |-> I \ p[k]]
<1>0. /\ h \in [SUBSET I -> SUBSET I]
      /\ \A A, B \in SUBSET I : A \subseteq B => h[A] \subseteq h[B]
      /\ p \in [0..n -> SUBSET I] /\ p[0] = r
      /\ \A k \in 1..n : \E a : IsPass(n, h, p[k - 1], a) /\ p[k] = a[n]
      /\ n \in 0..n
  BY DEF Monotone, IsRounds
<1>1. \A X \in SUBSET I : I \ X \in SUBSET I /\ I \ (I \ X) = X
  OBVIOUS
<1>2. Monotone(n, g)
  <2>1. g \in [SUBSET I -> SUBSET I]
    OBVIOUS
  <2>2. ASSUME NEW A \in SUBSET I, NEW B \in SUBSET I, A \subseteq B PROVE g[A] \subseteq g[B]
    <3>1. h[I \ B] \subseteq h[I \ A]
      <4>1. I \ B \in SUBSET I /\ I \ A \in SUBSET I /\ I \ B \subseteq I \ A
        BY <2>2
      <4> HIDE DEF I
      <4> QED BY <1>0, <4>1
    <3> QED BY <3>1
  <2> HIDE DEF g
  <2> QED BY <2>1, <2>2 DEF Monotone
<1>3. I \ r \in SUBSET I /\ I \ r \subseteq g[I \ r]
  BY <1>1
<1>4. IsRounds(n, g, I \ r, q)
  <2>1. q \in [0..n -> SUBSET I] /\ q[0] = I \ r
    BY <1>0
  <2>2. ASSUME NEW k \in 1..n PROVE \E b : IsPass(n, g, q[k - 1], b) /\ q[k] = b[n]
    <3> PICK a : IsPass(n, h, p[k - 1], a) /\ p[k] = a[n]
      BY <1>0
    <3> DEFINE b == [j \in 0..n |-> I \ a[j]]
    <3>1. k - 1 \in 0..n /\ k \in 0..n
      OBVIOUS
    <3>2. b \in [0..n -> SUBSET I] /\ b[0] = q[k - 1] /\ q[k] = b[n]
      BY <1>0, <3>1 DEF IsPass
    <3>3. ASSUME NEW j \in 1..n
          PROVE  b[j] = IF j \in g[b[j - 1]] THEN b[j - 1] \cup {j} ELSE b[j - 1] \ {j}
      <4>1. j - 1 \in 0..n /\ j \in 0..n /\ j \in I
        OBVIOUS
      <4>2. /\ a[j - 1] \in SUBSET I
            /\ a[j] = IF j \in h[a[j - 1]] THEN a[j - 1] \cup {j} ELSE a[j - 1] \ {j}
        BY <4>1 DEF IsPass
      <4>3. b[j - 1] = I \ a[j - 1] /\ b[j] = I \ a[j]
        BY <4>1
      <4>4. g[b[j - 1]] = I \ h[a[j - 1]]
        BY <1>1, <4>2, <4>3
      <4> QED BY <4>1, <4>2, <4>3, <4>4
    <3> HIDE DEF b, q, g
    <3> QED BY <3>2, <3>3 DEF IsPass
  <2> HIDE DEF q, g
  <2> QED BY <2>1, <2>2 DEF IsRounds
<1>5. /\ I \ r \subseteq q[n]
      /\ g[q[n]] = q[n]
      /\ \A Q \in SUBSET I : I \ r \subseteq Q /\ g[Q] \subseteq Q => q[n] \subseteq Q
  <2> DEFINE s == I \ r
  <2>1. s \in SUBSET (1..n) /\ Adds(g, s)
    BY <1>3 DEF Adds
  <2>2. IsRounds(n, g, s, q)
    BY <1>4
  <2> HIDE DEF s, q, g
  <2>3. LeastAbove(n, g, s, q[n])
    BY <1>2, <2>1, <2>2, RoundsGrow
  <2> QED BY <2>3 DEF s, LeastAbove
<1>6. p[n] \in SUBSET I /\ q[n] = I \ p[n] /\ I \ q[n] = p[n] /\ h[p[n]] \in SUBSET I
  BY <1>0
<1>7. h[p[n]] = p[n]
  <2>1. g[q[n]] = I \ h[p[n]]
    BY <1>6
  <2> QED BY <1>5, <1>6, <2>1
<1>8. ASSUME NEW Q \in SUBSET I, Q \subseteq r, Q \subseteq h[Q] PROVE Q \subseteq p[n]
  <2>1. g[I \ Q] = I \ h[Q]
    BY <1>1
  <2>2. q[n] \subseteq I \ Q
    BY <1>5, <1>8, <2>1
  <2> QED BY <1>6, <2>2
<1> QED BY <1>5, <1>6, <1>7, <1>8

-------------------------------------------------------------------------------
(* The operators whose truth is found by passes.                           *)
LoopOps == {"always", "eventually", "until"}

(* What a pass would write if it did not look at what it has written.      *)
Sweep(op, l, r) == [X \in SUBSET Indices |-> {i \in Indices : HoldsAt(op, l, r, X, i)}]

(* It grows with the set it looks at, for each of the loops.               *)
LEMMA SweepMonotone ==
  ASSUME Len(nodes) \in Nat, NEW op \in LoopOps, NEW l, NEW r
  PROVE  Monotone(Len(nodes), Sweep(op, l, r))
<1> DEFINE h == Sweep(op, l, r)
<1>1. h \in [SUBSET Indices -> SUBSET Indices]
  BY DEF Sweep
<1>2. ASSUME NEW A \in SUBSET Indices, NEW B \in SUBSET Indices, A \subseteq B PROVE h[A] \subseteq h[B]
  <2>1. CASE op = "always"
    BY <1>2, <2>1 DEF Sweep, HoldsAt
  <2>2. CASE op = "eventually"
    BY <1>2, <2>2 DEF Sweep, HoldsAt
  <2>3. CASE op = "until"
    BY <1>2, <2>3 DEF Sweep, HoldsAt
  <2> QED BY <2>1, <2>2, <2>3 DEF LoopOps
<1> HIDE DEF h
<1>3. h \in [SUBSET (1..Len(nodes)) -> SUBSET (1..Len(nodes))]
      /\ \A A, B \in SUBSET (1..Len(nodes)) : A \subseteq B => h[A] \subseteq h[B]
  BY <1>1, <1>2 DEF Indices
<1> QED BY <1>3 DEF Monotone, h

(* OnePass is a pass in the sense of PassGrows.                            *)
LEMMA OnePassIsPass ==
  ASSUME Len(nodes) \in Nat, NEW op \in LoopOps, NEW l, NEW r, NEW S \in SUBSET Indices
  PROVE  \E a : IsPass(Len(nodes), Sweep(op, l, r), S, a) /\ OnePass(op, l, r, S) = a[Len(nodes)]
<1> DEFINE n == Len(nodes)
           Moved(k, X) == IF HoldsAt(op, l, r, X, k) THEN X \cup {k} ELSE X \ {k}
           g == [k \in 1..n |-> [X \in SUBSET Indices |-> Moved(k, X)]]
           Is(f) == f = [k \in 0..n |-> IF k = 0 THEN S ELSE Moved(k, f[k - 1])]
           c == CHOOSE f : Is(f)
<1>1. \A k \in 1..n : \A X \in SUBSET Indices : g[k][X] = Moved(k, X) /\ Moved(k, X) \in SUBSET Indices
  BY DEF Indices
<1>2. PICK f : Iterates(n, SUBSET Indices, S, g, f)
  <2>1. \A k \in 1..n : \A X \in SUBSET Indices : g[k][X] \in SUBSET Indices
    BY <1>1
  <2> HIDE DEF g
  <2> QED BY <2>1, IterationExists
<1>3. Is(f)
  <2>1. f \in [0..n -> SUBSET Indices] /\ f[0] = S
    BY <1>2 DEF Iterates
  <2>2. ASSUME NEW k \in 0..n, k # 0 PROVE f[k] = Moved(k, f[k - 1])
    <3>1. k \in 1..n /\ k - 1 \in 0..n /\ f[k - 1] \in SUBSET Indices
      BY <2>1, <2>2
    <3>2. f[k] = g[k][f[k - 1]]
      BY <1>2, <3>1 DEF Iterates
    <3> HIDE DEF g, Moved
    <3> QED BY <1>1, <3>1, <3>2
  <2> HIDE DEF Moved
  <2> QED BY <2>1, <2>2
<1>4. Is(c)
  <2> HIDE DEF Is
  <2> QED BY <1>3
<1>5. OnePass(op, l, r, S) = c[n]
  BY DEF OnePass
<1>6. c \in [0..n -> SUBSET Indices]
  <2> DEFINE T == {k \in Nat : k <= n => c[k] \in SUBSET Indices}
  <2> HIDE DEF c
  <2>1. c[0] = S /\ \A k \in 1..n : c[k] = Moved(k, c[k - 1])
    <3> HIDE DEF Moved
    <3> QED BY <1>4
  <2>6. \A k \in 1..n : \A X \in SUBSET Indices : Moved(k, X) \in SUBSET Indices
    BY <1>1
  <2> HIDE DEF Moved, g
  <2>2. 0 \in T
    BY <2>1
  <2>3. ASSUME NEW k \in T PROVE k + 1 \in T
    <3> SUFFICES ASSUME k + 1 <= n PROVE c[k + 1] \in SUBSET Indices
      OBVIOUS
    <3>1. k + 1 \in 1..n /\ (k + 1) - 1 = k /\ c[k] \in SUBSET Indices
      OBVIOUS
    <3>2. c[k + 1] = Moved(k + 1, c[k])
      BY <2>1, <3>1
    <3> QED BY <2>6, <3>1, <3>2
  <2>4. T = Nat
    <3>1. T \in SUBSET Nat
      OBVIOUS
    <3> HIDE DEF T
    <3> QED BY <2>2, <2>3, <3>1, InductionInSetForm
  <2>5. \A k \in 0..n : c[k] \in SUBSET Indices
    BY <2>4
  <2> HIDE DEF T
  <2> QED BY <1>4, <2>5
<1>7. IsPass(n, Sweep(op, l, r), S, c)
  <2> DEFINE h == Sweep(op, l, r)
  <2> HIDE DEF c
  <2>1. c[0] = S /\ \A k \in 1..n : c[k] = Moved(k, c[k - 1])
    <3> HIDE DEF Moved
    <3> QED BY <1>4
  <2>2. ASSUME NEW k \in 1..n
        PROVE  c[k] = IF k \in h[c[k - 1]] THEN c[k - 1] \cup {k} ELSE c[k - 1] \ {k}
    <3>1. k - 1 \in 0..n /\ c[k - 1] \in SUBSET Indices /\ k \in Indices
      BY <1>6 DEF Indices
    <3>2. k \in h[c[k - 1]] <=> HoldsAt(op, l, r, c[k - 1], k)
      BY <3>1 DEF Sweep
    <3> QED BY <2>1, <3>2
  <2>3. c \in [0..n -> SUBSET (1..n)]
    BY <1>6 DEF Indices
  <2> HIDE DEF h
  <2> QED BY <2>1, <2>2, <2>3 DEF IsPass, h
<1> HIDE DEF c
<1> QED BY <1>5, <1>7

(* Stabilised is Len(nodes) of them.                                       *)
LEMMA StabilisedIsRounds ==
  ASSUME Len(nodes) \in Nat, NEW op \in LoopOps, NEW l, NEW r \in SUBSET Indices
  PROVE  \E p : /\ IsRounds(Len(nodes), Sweep(op, l, r), r, p)
                /\ Stabilised(op, l, r) = p[Len(nodes)]
<1> DEFINE n == Len(nodes)
           One(X) == OnePass(op, l, r, X)
           g == [k \in 1..n |-> [X \in SUBSET Indices |-> One(X)]]
           Is(f) == f = [k \in 0..n |-> IF k = 0 THEN r ELSE One(f[k - 1])]
           c == CHOOSE f : Is(f)
<1>1. \A X \in SUBSET Indices : One(X) \in SUBSET Indices
  <2> SUFFICES ASSUME NEW X \in SUBSET Indices PROVE One(X) \in SUBSET Indices
    OBVIOUS
  <2> PICK a : IsPass(n, Sweep(op, l, r), X, a) /\ One(X) = a[n]
    BY OnePassIsPass
  <2> HIDE DEF One
  <2> QED BY DEF IsPass, Indices
<1>2. PICK f : Iterates(n, SUBSET Indices, r, g, f)
  <2>1. \A k \in 1..n : \A X \in SUBSET Indices : g[k][X] \in SUBSET Indices
    BY <1>1
  <2> HIDE DEF g
  <2> QED BY <2>1, IterationExists
<1>3. Is(f)
  <2>1. f \in [0..n -> SUBSET Indices] /\ f[0] = r
    BY <1>2 DEF Iterates
  <2>2. ASSUME NEW k \in 0..n, k # 0 PROVE f[k] = One(f[k - 1])
    <3>1. k \in 1..n /\ k - 1 \in 0..n /\ f[k - 1] \in SUBSET Indices
      BY <2>1, <2>2
    <3>2. f[k] = g[k][f[k - 1]]
      BY <1>2, <3>1 DEF Iterates
    <3> HIDE DEF One
    <3> QED BY <3>1, <3>2
  <2> HIDE DEF One
  <2> QED BY <2>1, <2>2
<1>4. Is(c)
  <2> HIDE DEF Is
  <2> QED BY <1>3
<1>5. Stabilised(op, l, r) = c[n]
  BY DEF Stabilised
<1> HIDE DEF c
<1>6. c[0] = r /\ \A k \in 1..n : c[k] = One(c[k - 1])
  <2> HIDE DEF One
  <2> QED BY <1>4
<1>7. c \in [0..n -> SUBSET Indices]
  <2> DEFINE T == {k \in Nat : k <= n => c[k] \in SUBSET Indices}
  <2> HIDE DEF One
  <2>2. 0 \in T
    BY <1>6
  <2>3. ASSUME NEW k \in T PROVE k + 1 \in T
    <3> SUFFICES ASSUME k + 1 <= n PROVE c[k + 1] \in SUBSET Indices
      OBVIOUS
    <3>1. k + 1 \in 1..n /\ (k + 1) - 1 = k /\ c[k] \in SUBSET Indices
      OBVIOUS
    <3> QED BY <1>1, <1>6, <3>1
  <2>4. T = Nat
    <3>1. T \in SUBSET Nat
      OBVIOUS
    <3> HIDE DEF T
    <3> QED BY <2>2, <2>3, <3>1, InductionInSetForm
  <2>5. \A k \in 0..n : c[k] \in SUBSET Indices
    BY <2>4
  <2> HIDE DEF T
  <2> QED BY <1>4, <2>5
<1>8. ASSUME NEW k \in 1..n
      PROVE  \E a : IsPass(n, Sweep(op, l, r), c[k - 1], a) /\ c[k] = a[n]
  <2>1. k - 1 \in 0..n /\ c[k - 1] \in SUBSET Indices
    BY <1>7
  <2>2. c[k] = One(c[k - 1])
    BY <1>6
  <2> QED BY <2>1, <2>2, OnePassIsPass
<1>9. IsRounds(n, Sweep(op, l, r), r, c)
  <2>1. c \in [0..n -> SUBSET (1..n)]
    BY <1>7 DEF Indices
  <2> QED BY <1>6, <1>8, <2>1 DEF IsRounds
<1> QED BY <1>5, <1>9

(* The loops of eventually and until end at the least fixpoint,            *)
LEMMA LeastFixpoint ==
  ASSUME Len(nodes) \in Nat, NEW op \in {"eventually", "until"}, NEW l, NEW r \in SUBSET Indices
  PROVE  LET X == Stabilised(op, l, r)  h == Sweep(op, l, r) IN
         /\ X \in SUBSET Indices
         /\ h[X] = X
         /\ \A Q \in SUBSET Indices : r \subseteq Q /\ h[Q] \subseteq Q => X \subseteq Q
<1> DEFINE h == Sweep(op, l, r)
<1>1. op \in LoopOps
  BY DEF LoopOps
<1>2. PICK p : IsRounds(Len(nodes), h, r, p) /\ Stabilised(op, l, r) = p[Len(nodes)]
  BY <1>1, StabilisedIsRounds
<1>3. r \subseteq h[r]
  <2>1. CASE op = "eventually"
    BY <2>1 DEF Sweep, HoldsAt
  <2>2. CASE op = "until"
    BY <2>2 DEF Sweep, HoldsAt
  <2> QED BY <2>1, <2>2
<1>4. Monotone(Len(nodes), h)
  BY <1>1, SweepMonotone
<1> DEFINE n == Len(nodes)
<1>5. /\ n \in Nat /\ Monotone(n, h) /\ r \in SUBSET (1..n) /\ r \subseteq h[r] /\ IsRounds(n, h, r, p)
      /\ Indices = 1..n /\ Stabilised(op, l, r) = p[n]
  BY <1>2, <1>3, <1>4 DEF Indices
<1> HIDE DEF h, n
<1>6. LeastAbove(n, h, r, p[n])
  <2>1. n \in Nat /\ r \in SUBSET (1..n) /\ Monotone(n, h) /\ IsRounds(n, h, r, p)
    BY <1>5
  <2>2. Adds(h, r)
    BY <1>5 DEF Adds
  <2> QED BY <2>1, <2>2, RoundsGrow
<1>7. p[n] \in SUBSET (1..n)
  BY <1>5 DEF IsRounds
<1> QED BY <1>5, <1>6, <1>7 DEF h, LeastAbove

(* the loop of always at the greatest.                                     *)
LEMMA GreatestFixpoint ==
  ASSUME Len(nodes) \in Nat, NEW l, NEW r \in SUBSET Indices
  PROVE  LET X == Stabilised("always", l, r)  h == Sweep("always", l, r) IN
         /\ X \in SUBSET Indices
         /\ h[X] = X
         /\ \A Q \in SUBSET Indices : Q \subseteq r /\ Q \subseteq h[Q] => Q \subseteq X
<1> DEFINE h == Sweep("always", l, r)
<1>1. "always" \in LoopOps
  BY DEF LoopOps
<1>2. PICK p : IsRounds(Len(nodes), h, r, p) /\ Stabilised("always", l, r) = p[Len(nodes)]
  BY <1>1, StabilisedIsRounds
<1>3. h[r] \subseteq r
  BY DEF Sweep, HoldsAt
<1>4. Monotone(Len(nodes), h)
  BY <1>1, SweepMonotone
<1> HIDE DEF h
<1>5. r \in SUBSET (1..Len(nodes))
  BY DEF Indices
<1>6. /\ h[p[Len(nodes)]] = p[Len(nodes)]
      /\ \A Q \in SUBSET (1..Len(nodes)) : Q \subseteq r /\ Q \subseteq h[Q] => Q \subseteq p[Len(nodes)]
  BY <1>2, <1>3, <1>4, <1>5, RoundsShrink
<1>7. p[Len(nodes)] \in SUBSET (1..Len(nodes))
  BY <1>2 DEF IsRounds
<1> QED BY <1>2, <1>6, <1>7 DEF h, Indices

-------------------------------------------------------------------------------
(* Paths.                                                                  *)

(* A path inside S starts in S, and goes on with every step to S.          *)
LEMMA InsideBasics ==
  ASSUME NEW m, NEW S, NEW s
  PROVE  /\ ReachInside(m, S, s) \subseteq S
         /\ s \in S => s \in ReachInside(m, S, s)
         /\ \A t \in ReachInside(m, S, s) : s \in S /\ Successors(m, t) \cap S \subseteq ReachInside(m, S, s)
BY DEF ReachInside

(* A set that no step inside S leaves has all that such paths reach.       *)
LEMMA InsideLeast ==
  ASSUME NEW m, NEW S, NEW s, NEW C, C \cap S \in SUBSET S, s \in C,
         \A x \in C \cap S : Successors(m, x) \cap S \subseteq C
  PROVE  ReachInside(m, S, s) \subseteq C
<1> DEFINE D == C \cap S
<1>1. ASSUME s \in S PROVE s \in D /\ D \in SUBSET S /\ \A x \in D : Successors(m, x) \cap S \subseteq D
  BY <1>1
<1> HIDE DEF D
<1>2. s \in S => ReachInside(m, S, s) \subseteq D
  BY <1>1 DEF ReachInside
<1>3. s \notin S => ReachInside(m, S, s) = {}
  BY DEF ReachInside
<1> QED BY <1>2, <1>3 DEF D

(* Paths can be put together.                                              *)
LEMMA InsideTransitive ==
  ASSUME NEW m, NEW S, NEW s, NEW t \in ReachInside(m, S, s)
  PROVE  ReachInside(m, S, t) \subseteq ReachInside(m, S, s)
<1> DEFINE C == ReachInside(m, S, s)
<1>1. C \cap S \in SUBSET S /\ t \in C /\ \A x \in C \cap S : Successors(m, x) \cap S \subseteq C
  BY InsideBasics
<1> HIDE DEF C
<1>2. ReachInside(m, S, t) \subseteq C
  BY <1>1, InsideLeast
<1> QED BY <1>2 DEF C

(* A path inside a part of S is inside S.                                  *)
LEMMA InsideWider ==
  ASSUME NEW m, NEW S, NEW W \in SUBSET S, NEW s
  PROVE  ReachInside(m, W, s) \subseteq ReachInside(m, S, s)
<1> DEFINE C == ReachInside(m, S, s)
<1>1. ASSUME s \in W
      PROVE  C \cap W \in SUBSET W /\ s \in C /\ \A x \in C \cap W : Successors(m, x) \cap W \subseteq C
  BY <1>1, InsideBasics
<1> HIDE DEF C
<1>2. s \in W => ReachInside(m, W, s) \subseteq C
  BY <1>1, InsideLeast
<1>3. s \notin W => ReachInside(m, W, s) = {}
  BY DEF ReachInside
<1> QED BY <1>2, <1>3 DEF C

(* Where a path leads, it leads at once or from its second state.          *)
LEMMA InsideFirstStep ==
  ASSUME NEW m, NEW S, NEW s, NEW t \in ReachInside(m, S, s)
  PROVE  t = s \/ \E x \in Successors(m, s) \cap S : t \in ReachInside(m, S, x)
<1> DEFINE C == {s} \cup UNION {ReachInside(m, S, x) : x \in Successors(m, s) \cap S}
<1>1. ASSUME NEW y \in C \cap S PROVE Successors(m, y) \cap S \subseteq C
  <2>1. CASE y = s
    <3>1. \A x \in Successors(m, s) \cap S : x \in ReachInside(m, S, x)
      BY InsideBasics
    <3> QED BY <2>1, <3>1
  <2>2. ASSUME NEW x \in Successors(m, s) \cap S, y \in ReachInside(m, S, x)
        PROVE  Successors(m, y) \cap S \subseteq C
    <3>1. Successors(m, y) \cap S \subseteq ReachInside(m, S, x)
      BY <2>2, InsideBasics
    <3> QED BY <3>1
  <2> QED BY <2>1, <2>2
<1>2. s \in C /\ C \cap S \in SUBSET S
  OBVIOUS
<1>3. t \in C
  <2> HIDE DEF C
  <2>1. ReachInside(m, S, s) \subseteq C
    BY <1>1, <1>2, InsideLeast
  <2> QED BY <2>1
<1> QED BY <1>3

(* A path that can always go on inside finitely many states comes back to  *)
(* one of them: to one from which the fewest states can be reached.        *)
LEMMA Lasso ==
  ASSUME NEW m, NEW S, NEW W \in SUBSET S, IsFiniteSet(W), W # {},
         \A t \in W : Successors(m, t) \cap W # {}
  PROVE  \E t \in W : \E x \in Successors(m, t) : t \in ReachInside(m, S, x)
<1> DEFINE R(t) == ReachInside(m, W, t)
           Sizes == {Cardinality(R(t)) : t \in W}
<1>1. \A t \in W : R(t) \subseteq W /\ IsFiniteSet(R(t)) /\ Cardinality(R(t)) \in Nat
  <2> SUFFICES ASSUME NEW t \in W PROVE R(t) \subseteq W /\ IsFiniteSet(R(t)) /\ Cardinality(R(t)) \in Nat
    OBVIOUS
  <2>1. R(t) \subseteq W
    BY InsideBasics
  <2>2. IsFiniteSet(R(t))
    BY <2>1, FS_Subset
  <2> QED BY <2>1, <2>2, FS_CardinalityType
<1>2. PICK least \in Sizes : \A k \in Sizes : least <= k
  <2>1. Sizes \in SUBSET Nat /\ Sizes # {}
    BY <1>1
  <2> HIDE DEF Sizes
  <2> QED BY <2>1, LeastNumber
<1>3. PICK t \in W : least = Cardinality(R(t))
  BY <1>2
<1>4. PICK x \in Successors(m, t) : x \in W
  OBVIOUS
<1>5. t \in R(t) /\ x \in R(t)
  BY <1>4, InsideBasics
<1>6. R(x) \subseteq R(t)
  BY <1>5, InsideTransitive
<1>7. Cardinality(R(t)) <= Cardinality(R(x))
  BY <1>2, <1>3, <1>4
<1>8. R(x) = R(t)
  <2> HIDE DEF R
  <2> SUFFICES ASSUME R(x) # R(t) PROVE FALSE
    OBVIOUS
  <2>1. /\ Cardinality(R(x)) < Cardinality(R(t))
        /\ Cardinality(R(x)) \in Nat /\ Cardinality(R(t)) \in Nat
    BY <1>1, <1>6, SmallerSubset
  <2> QED BY <1>7, <2>1
<1>9. t \in ReachInside(m, S, x)
  BY <1>5, <1>8, InsideWider
<1> QED BY <1>9

-------------------------------------------------------------------------------
(* The nodes and edges are a graph of the model.                           *)
MirrorsModel ==
  /\ Len(nodes) \in Nat
  /\ \A i \in Indices :
       /\ nodes[i].state \in States
       /\ Children(i) \subseteq Indices
       /\ {nodes[j].state : j \in Children(i)} = Successors(model, nodes[i].state)

(* The nodes whose state is in P.                                          *)
Where(P) == {i \in Indices : nodes[i].state \in P}

(* The children of a node stand for the successors of its state.           *)
LEMMA MirrorFacts ==
  ASSUME MirrorsModel, NEW i \in Indices
  PROVE  /\ Children(i) = {} <=> Successors(model, nodes[i].state) = {}
         /\ \A j \in Children(i) : j \in Indices /\ nodes[j].state \in Successors(model, nodes[i].state)
         /\ \A x \in Successors(model, nodes[i].state) : \E j \in Children(i) : nodes[j].state = x
<1>1. Children(i) \subseteq Indices
      /\ {nodes[j].state : j \in Children(i)} = Successors(model, nodes[i].state)
  BY DEF MirrorsModel
<1> QED BY <1>1

(* The least fixpoint of until is its meaning by paths. A fixpoint has     *)
(* what the paths promise, one step at a time; what a path promises but    *)
(* the fixpoint lacks would go on for ever inside left without right.      *)
LEMMA UntilIsMeaning ==
  ASSUME MirrorsModel, NEW L, NEW P
  PROVE  Stabilised("until", Where(L), Where(P)) = Where(UntilOf(model, L, P))
<1> DEFINE l == Where(L)
           r == Where(P)
           h == Sweep("until", l, r)
           X == Stabilised("until", l, r)
           S == L \ P
           Q == Where(UntilOf(model, L, P))
           st(i) == nodes[i].state
<1>0. Len(nodes) \in Nat /\ r \in SUBSET Indices /\ Q \in SUBSET Indices
  BY DEF MirrorsModel, Where
<1>1. /\ X \in SUBSET Indices
      /\ h[X] = X
      /\ \A Y \in SUBSET Indices : r \subseteq Y /\ h[Y] \subseteq Y => X \subseteq Y
  <2> HIDE DEF l, r
  <2> QED BY <1>0, LeastFixpoint
<1>2. ASSUME NEW Y \in SUBSET Indices, NEW i \in Indices
      PROVE  i \in h[Y] <=> i \in r \/ (i \in l /\ Children(i) # {} /\ Children(i) \subseteq Y)
  <2> HIDE DEF l, r
  <2>1. i \in h[Y] <=> HoldsAt("until", l, r, Y, i)
    BY DEF Sweep
  <2> QED BY <2>1 DEF HoldsAt
<1>3. \A s : s \in UntilOf(model, L, P) <=>
        /\ s \in States /\ s \in L \cup P
        /\ ~CanStay(model, S, s)
        /\ \A t \in ReachInside(model, S, s) : Successors(model, t) \subseteq L \cup P
  BY DEF UntilOf
<1>4. r \subseteq Q
  <2> SUFFICES ASSUME NEW i \in r PROVE st(i) \in UntilOf(model, L, P)
    BY <1>0 DEF Where
  <2>1. st(i) \in P /\ st(i) \in States
    BY DEF Where, MirrorsModel
  <2>2. ReachInside(model, S, st(i)) = {}
    BY <2>1 DEF ReachInside
  <2>3. ~CanStay(model, S, st(i))
    BY <2>2 DEF CanStay
  <2> QED BY <1>3, <2>1, <2>2, <2>3
<1>5. h[Q] \subseteq Q
  <2> SUFFICES ASSUME NEW i \in Indices, i \in h[Q], i \notin Q PROVE FALSE
    <3>1. h[Q] \subseteq Indices
      BY <1>0 DEF Sweep
    <3> QED BY <3>1
  <2>1. i \in l /\ Children(i) # {} /\ Children(i) \subseteq Q
    BY <1>0, <1>2, <1>4
  <2> DEFINE s == st(i)
  <2>2. s \in L /\ s \in States /\ s \notin P
    BY <1>4, <2>1 DEF Where, MirrorsModel
  <2>3. ASSUME NEW x \in Successors(model, s) PROVE x \in UntilOf(model, L, P)
    <3> PICK j \in Children(i) : st(j) = x
      BY MirrorFacts
    <3> QED BY <2>1 DEF Where
  <2>4. Successors(model, s) # {}
    BY <2>1, MirrorFacts
  <2>5. ~CanStay(model, S, s)
    <3> SUFFICES ASSUME NEW t \in ReachInside(model, S, s),
                        \/ Successors(model, t) = {}
                        \/ \E x \in Successors(model, t) : t \in ReachInside(model, S, x)
                 PROVE  FALSE
      BY DEF CanStay
    <3>1. \A x \in Successors(model, s) : t \notin ReachInside(model, S, x)
      BY <1>3, <2>3 DEF CanStay
    <3>2. t = s
      BY <3>1, InsideFirstStep
    <3> QED BY <2>4, <3>1, <3>2
  <2>6. ASSUME NEW t \in ReachInside(model, S, s) PROVE Successors(model, t) \subseteq L \cup P
    <3>1. CASE t = s
      BY <1>3, <2>3, <3>1
    <3>2. ASSUME NEW x \in Successors(model, s), t \in ReachInside(model, S, x)
          PROVE  Successors(model, t) \subseteq L \cup P
      BY <1>3, <2>3, <3>2
    <3> QED BY <3>1, <3>2, InsideFirstStep
  <2>7. s \in UntilOf(model, L, P)
    BY <1>3, <2>2, <2>5, <2>6
  <2> QED BY <2>7 DEF Where
<1>6. X \subseteq Q
  <2> HIDE DEF h, Q, r
  <2> QED BY <1>0, <1>1, <1>4, <1>5
<1>7. ASSUME NEW i \in Q, i \notin X PROVE FALSE
  <2> DEFINE s == st(i)
             W == {t \in ReachInside(model, S, s) : \E j \in Indices : j \notin X /\ st(j) = t}
  <2>1. /\ i \in Indices /\ s \in L \cup P /\ ~CanStay(model, S, s)
        /\ \A t \in ReachInside(model, S, s) : Successors(model, t) \subseteq L \cup P
    BY <1>3 DEF Where
  <2>2. ASSUME NEW j \in Indices, j \notin X
        PROVE  j \notin r /\ (st(j) \in L => Children(j) = {} \/ \E k \in Children(j) : k \notin X)
    <3>1. ~(j \in r \/ (j \in l /\ Children(j) # {} /\ Children(j) \subseteq X))
      <4> HIDE DEF X, h
      <4> QED BY <1>1, <1>2, <2>2
    <3> QED BY <2>2, <3>1 DEF Where
  <2>3. s \in W
    <3>1. s \in S
      BY <1>7, <2>1, <2>2 DEF Where
    <3> QED BY <1>7, <2>1, <3>1, InsideBasics
  <2>4. IsFiniteSet(W)
    <3>1. W \subseteq {st(j) : j \in Indices}
      OBVIOUS
    <3>2. IsFiniteSet(Indices)
      <4>1. 1 \in Int /\ Len(nodes) \in Int
        BY <1>0
      <4> QED BY <4>1, FS_Interval DEF Indices
    <3>3. IsFiniteSet({st(j) : j \in Indices})
      <4> DEFINE image == {st(j) : j \in Indices}
                 f == [j \in Indices |-> st(j)]
      <4>1. f \in Surjection(Indices, image)
        BY DEF Surjection
      <4> HIDE DEF f, image
      <4>2. IsFiniteSet(image)
        BY <3>2, <4>1, FS_Surjection
      <4> QED BY <4>2 DEF image
    <3> HIDE DEF W
    <3> QED BY <3>1, <3>3, FS_Subset
  <2>5. ASSUME NEW t \in W PROVE Successors(model, t) \cap W # {}
    <3>1. t \in ReachInside(model, S, s) /\ t \in S
      BY InsideBasics
    <3> PICK j \in Indices : j \notin X /\ st(j) = t
      OBVIOUS
    <3>2. Successors(model, t) # {}
      BY <2>1, <3>1 DEF CanStay
    <3> PICK k \in Children(j) : k \notin X
      BY <2>2, <3>1, <3>2, MirrorFacts
    <3>3. k \in Indices /\ st(k) \in Successors(model, t)
      BY MirrorFacts
    <3>4. st(k) \in S
      <4>1. st(k) \in L \cup P
        BY <2>1, <3>1, <3>3
      <4>2. k \notin r
        BY <2>2, <3>3
      <4> QED BY <3>3, <4>1, <4>2 DEF Where
    <3>5. st(k) \in ReachInside(model, S, s)
      BY <3>1, <3>3, <3>4, InsideBasics
    <3> QED BY <3>3, <3>5
  <2>6. W \in SUBSET S
    BY InsideBasics
  <2>7. \E t \in W : \E x \in Successors(model, t) : t \in ReachInside(model, S, x)
    <3> HIDE DEF W, S
    <3> QED BY <2>3, <2>4, <2>5, <2>6, Lasso
  <2> QED BY <2>1, <2>7 DEF CanStay
<1> QED BY <1>6, <1>7

(* Eventually is until with nothing to hold before.                        *)
LEMMA EventuallyIsMeaning ==
  ASSUME MirrorsModel, NEW P
  PROVE  Stabilised("eventually", {}, Where(P)) = Where(EventuallyOf(model, P))
<1> DEFINE r == Where(P)
           all == Where(States)
           h == Sweep("until", all, r)
           g == Sweep("eventually", {}, r)
           X == Stabilised("until", all, r)
           Y == Stabilised("eventually", {}, r)
<1>0. Len(nodes) \in Nat /\ r \in SUBSET Indices /\ all = Indices
  BY DEF MirrorsModel, Where
<1>1. ASSUME NEW Z \in SUBSET Indices PROVE g[Z] = h[Z]
  <2> HIDE DEF r
  <2>1. \A i \in Indices : HoldsAt("until", all, r, Z, i) <=> HoldsAt("eventually", {}, r, Z, i)
    BY <1>0 DEF HoldsAt
  <2> HIDE DEF all
  <2> QED BY <2>1 DEF Sweep
<1>2. /\ X \in SUBSET Indices /\ h[X] = X
      /\ \A Q \in SUBSET Indices : r \subseteq Q /\ h[Q] \subseteq Q => X \subseteq Q
  <2> HIDE DEF r, all
  <2> QED BY <1>0, LeastFixpoint
<1>3. /\ Y \in SUBSET Indices /\ g[Y] = Y
      /\ \A Q \in SUBSET Indices : r \subseteq Q /\ g[Q] \subseteq Q => Y \subseteq Q
  <2> HIDE DEF r
  <2> QED BY <1>0, LeastFixpoint
<1>4. r \subseteq h[X] /\ r \subseteq g[Y]
  <2> HIDE DEF X, Y
  <2> QED BY <1>0, <1>2, <1>3 DEF Sweep, HoldsAt
<1>5. X = Y
  <2> HIDE DEF X, Y, h, g, r
  <2>1. X \subseteq Y
    BY <1>1, <1>2, <1>3, <1>4
  <2>2. Y \subseteq X
    BY <1>1, <1>2, <1>3, <1>4
  <2> QED BY <2>1, <2>2
<1>6. X = Where(UntilOf(model, States, P))
  BY UntilIsMeaning
<1>7. UntilOf(model, States, P) = EventuallyOf(model, P)
  <2>1. \A t : Successors(model, t) \subseteq States
    BY DEF Successors
  <2> QED BY <2>1 DEF UntilOf, EventuallyOf
<1> QED BY <1>5, <1>6, <1>7

(* The greatest fixpoint of always is what no path leaves.                 *)
LEMMA AlwaysIsMeaning ==
  ASSUME MirrorsModel, NEW P
  PROVE  Stabilised("always", {}, Where(P)) = Where(AlwaysOf(model, P))
<1> DEFINE r == Where(P)
           h == Sweep("always", {}, r)
           X == Stabilised("always", {}, r)
           Q == Where(AlwaysOf(model, P))
           st(i) == nodes[i].state
<1>0. Len(nodes) \in Nat /\ r \in SUBSET Indices /\ Q \in SUBSET Indices
  BY DEF MirrorsModel, Where
<1>1. /\ X \in SUBSET Indices
      /\ h[X] = X
      /\ \A Y \in SUBSET Indices : Y \subseteq r /\ Y \subseteq h[Y] => Y \subseteq X
  <2> HIDE DEF r
  <2> QED BY <1>0, GreatestFixpoint
<1>2. ASSUME NEW Y \in SUBSET Indices, NEW i \in Indices
      PROVE  i \in h[Y] <=> i \in r /\ Children(i) \subseteq Y
  <2> HIDE DEF r
  <2>1. i \in h[Y] <=> HoldsAt("always", {}, r, Y, i)
    BY DEF Sweep
  <2> QED BY <2>1 DEF HoldsAt
<1>3. \A i \in Indices : st(i) \in ReachInside(model, States, st(i)) /\ st(i) \in States
  BY InsideBasics DEF MirrorsModel
<1>4. ASSUME NEW i \in Q PROVE i \in r /\ Children(i) \subseteq Q
  <2>1. i \in Indices /\ ReachInside(model, States, st(i)) \subseteq P
    BY DEF Where, AlwaysOf
  <2>2. i \in r
    BY <1>3, <2>1 DEF Where
  <2>3. ASSUME NEW j \in Children(i) PROVE j \in Q
    <3>1. j \in Indices /\ st(j) \in Successors(model, st(i)) /\ st(j) \in States
      BY <1>3, <2>1, MirrorFacts
    <3>2. st(j) \in ReachInside(model, States, st(i))
      BY <1>3, <2>1, <3>1, InsideBasics
    <3>3. ReachInside(model, States, st(j)) \subseteq P
      BY <2>1, <3>2, InsideTransitive
    <3> QED BY <3>1, <3>3 DEF Where, AlwaysOf
  <2> QED BY <2>2, <2>3
<1>5. Q \subseteq X
  <2>1. Q \subseteq r /\ Q \subseteq h[Q]
    <3> HIDE DEF Q, h, r
    <3> QED BY <1>0, <1>2, <1>4
  <2> HIDE DEF Q, h, r
  <2> QED BY <1>0, <1>1, <2>1
<1>6. ASSUME NEW i \in X PROVE i \in Q
  <2> DEFINE C == {st(j) : j \in X}
  <2>1. ASSUME NEW j \in X PROVE j \in Indices /\ j \in r /\ Children(j) \subseteq X
    <3> HIDE DEF X, h, r
    <3> QED BY <1>1, <1>2
  <2>2. st(i) \in C /\ C \cap States \in SUBSET States
    OBVIOUS
  <2>3. \A x \in C \cap States : Successors(model, x) \cap States \subseteq C
    <3> SUFFICES ASSUME NEW j \in X, NEW y \in Successors(model, st(j)) PROVE y \in C
      OBVIOUS
    <3> PICK k \in Children(j) : st(k) = y
      BY <2>1, MirrorFacts
    <3> QED BY <2>1
  <2>4. ReachInside(model, States, st(i)) \subseteq C
    <3> HIDE DEF C
    <3> QED BY <2>2, <2>3, InsideLeast
  <2>5. C \subseteq P
    BY <2>1 DEF Where
  <2> QED BY <1>3, <2>1, <2>4, <2>5 DEF Where, AlwaysOf
<1> QED BY <1>5, <1>6

(* Next needs a successor.                                                 *)
LEMMA NextIsMeaning ==
  ASSUME MirrorsModel, NEW P
  PROVE  {i \in Indices : Children(i) # {} /\ Children(i) \subseteq Where(P)} = Where(NextOf(model, P))
<1> SUFFICES ASSUME NEW i \in Indices
             PROVE  Children(i) # {} /\ Children(i) \subseteq Where(P)
                      <=> nodes[i].state \in NextOf(model, P)
  BY DEF Where
<1>1. Children(i) \subseteq Where(P) <=> Successors(model, nodes[i].state) \subseteq P
  BY MirrorFacts DEF Where
<1>2. Children(i) # {} <=> Successors(model, nodes[i].state) # {}
  BY MirrorFacts
<1> QED BY <1>1, <1>2 DEF NextOf, MirrorsModel

-------------------------------------------------------------------------------
(* The operators of formulas.                                              *)
Ops == {"state", "boolean", "always", "eventually", "next", "until"}

(* What FormulasAssumption says of one formula.                            *)
LEMMA FormulaFacts ==
  ASSUME NEW f \in Formulas
  PROVE  /\ f.op \in Ops
         /\ f.op = "state" => f.holds \subseteq States
         /\ f.op \in {"always", "eventually", "next"} =>
              f.arg \in Formulas /\ Height[f.arg] < Height[f]
         /\ f.op = "until" =>
              /\ f.left \in Formulas /\ Height[f.left] < Height[f]
              /\ f.right \in Formulas /\ Height[f.right] < Height[f]
BY FormulasAssumption DEF Ops

(* The loops yield nodes.                                                  *)
LEMMA StabilisedType ==
  ASSUME Len(nodes) \in Nat, NEW op \in LoopOps, NEW l, NEW r \in SUBSET Indices
  PROVE  Stabilised(op, l, r) \in SUBSET Indices
<1>1. CASE op = "always"
  BY <1>1, GreatestFixpoint
<1>2. CASE op # "always"
  <2>1. op \in {"eventually", "until"}
    BY <1>2 DEF LoopOps
  <2> QED BY <2>1, LeastFixpoint
<1> QED BY <1>1, <1>2

(* The truth sets are computed from those of the operands,                 *)
LEMMA TruthSetEquations ==
  ASSUME Len(nodes) \in Nat, NEW f \in Formulas
  PROVE  /\ f.op = "state" => TruthSet[f] = {i \in Indices : nodes[i].state \in f.holds}
         /\ f.op = "next" =>
              TruthSet[f] = {i \in Indices : Children(i) # {} /\ Children(i) \subseteq TruthSet[f.arg]}
         /\ f.op = "until" =>
              TruthSet[f] = Stabilised("until", TruthSet[f.left], TruthSet[f.right])
         /\ f.op = "always" => TruthSet[f] = Stabilised("always", {}, TruthSet[f.arg])
         /\ f.op = "eventually" => TruthSet[f] = Stabilised("eventually", {}, TruthSet[f.arg])
         /\ f.op = "boolean" => TruthSet[f] = {}
<1> DEFINE V == SUBSET Indices
           Of(t, e) == Truth(t, e)
           g == [t \in [Formulas -> V] |-> [e \in Formulas |-> Of(t, e)]]
           Is(t) == t = [e \in Formulas |-> Of(t, e)]
           c == CHOOSE t : Is(t)
<1>5. TruthSet = c
  BY DEF TruthSet
<1>1. ASSUME NEW t \in [Formulas -> V], NEW e \in Formulas PROVE Of(t, e) \in V
  <2>1. CASE e.op = "state"
    BY <2>1 DEF Truth
  <2>2. CASE e.op = "next"
    BY <2>2 DEF Truth
  <2>3. CASE e.op = "until"
    <3>1. t[e.left] \in SUBSET Indices /\ t[e.right] \in SUBSET Indices /\ "until" \in LoopOps
      BY <2>3, FormulaFacts DEF Truth, LoopOps
    <3>2. Stabilised("until", t[e.left], t[e.right]) \in SUBSET Indices
      BY <3>1, StabilisedType
    <3> QED BY <2>3, <3>2 DEF Truth
  <2>4. CASE e.op \in {"always", "eventually"}
    <3>1. t[e.arg] \in SUBSET Indices /\ e.op \in LoopOps
      BY <2>4, FormulaFacts DEF Truth, LoopOps
    <3>2. Stabilised(e.op, {}, t[e.arg]) \in SUBSET Indices
      BY <3>1, StabilisedType
    <3> QED BY <2>4, <3>2 DEF Truth
  <2>5. CASE e.op = "boolean"
    BY <2>5 DEF Truth
  <2> HIDE DEF Of, V
  <2> QED BY <2>1, <2>2, <2>3, <2>4, <2>5, FormulaFacts DEF Ops
<1>2. ASSUME NEW t \in [Formulas -> V], NEW u \in [Formulas -> V], NEW e \in Formulas,
             \A d \in Formulas : Height[d] < Height[e] => t[d] = u[d]
      PROVE  Of(t, e) = Of(u, e)
  <2>1. /\ e.op \in {"always", "eventually", "next"} => t[e.arg] = u[e.arg]
        /\ e.op = "until" => t[e.left] = u[e.left] /\ t[e.right] = u[e.right]
    BY <1>2, FormulaFacts
  <2>2. CASE e.op \in {"state", "boolean"}
    BY <2>2 DEF Truth
  <2>3. CASE e.op = "next"
    BY <2>1, <2>3 DEF Truth
  <2>4. CASE e.op = "until"
    BY <2>1, <2>4 DEF Truth
  <2>5. CASE e.op \in {"always", "eventually"}
    BY <2>1, <2>5 DEF Truth
  <2> HIDE DEF Of
  <2> QED BY <2>2, <2>3, <2>4, <2>5, FormulaFacts DEF Ops
<1> HIDE DEF Of
<1>3. \E t : Is(t)
  <2>1. g \in [[Formulas -> V] -> [Formulas -> V]]
    <3> HIDE DEF V
    <3> QED BY <1>1
  <2>2. LooksBelow(Formulas, Height, V, g)
    <3> HIDE DEF V
    <3> QED BY <1>2 DEF LooksBelow
  <2>3. {} \in V
    OBVIOUS
  <2>6. Height \in [Formulas -> Nat]
    BY FormulasAssumption
  <2>4. PICK t : Solves(Formulas, V, g, t)
    <3> HIDE DEF g, V
    <3> QED BY <2>1, <2>2, <2>3, <2>6, RecursionExists
  <2>5. t = [e \in Formulas |-> Of(t, e)]
    <3> HIDE DEF V
    <3> QED BY <2>4 DEF Solves
  <2> QED BY <2>5
<1>4. Is(c)
  <2> HIDE DEF Is
  <2> QED BY <1>3
<1> HIDE DEF c
<1>6. TruthSet[f] = Of(TruthSet, f)
  BY <1>4, <1>5
<1> QED BY <1>6 DEF Of, Truth

(* and so are the meanings,                                                *)
LEMMA MeaningEquations ==
  ASSUME NEW m, NEW f \in Formulas
  PROVE  LET M == Meaning(m, Formulas) IN
         /\ f.op = "state" => M[f] = f.holds
         /\ f.op = "always" => M[f] = AlwaysOf(m, M[f.arg])
         /\ f.op = "eventually" => M[f] = EventuallyOf(m, M[f.arg])
         /\ f.op = "next" => M[f] = NextOf(m, M[f.arg])
         /\ f.op = "until" => M[f] = UntilOf(m, M[f.left], M[f.right])
         /\ f.op = "boolean" => M[f] = {}
<1> DEFINE V == SUBSET States
           Of(t, e) == MeaningOf(m, t, e)
           g == [t \in [Formulas -> V] |-> [e \in Formulas |-> Of(t, e)]]
           Is(t) == t = [e \in Formulas |-> Of(t, e)]
           c == CHOOSE t : Is(t)
<1>5. Meaning(m, Formulas) = c
  BY DEF Meaning
<1>1. ASSUME NEW t \in [Formulas -> V], NEW e \in Formulas PROVE Of(t, e) \in V
  <2>1. CASE e.op = "state"
    BY <2>1, FormulaFacts DEF MeaningOf
  <2>2. CASE e.op = "always"
    BY <2>2 DEF MeaningOf, AlwaysOf
  <2>3. CASE e.op = "eventually"
    BY <2>3 DEF MeaningOf, EventuallyOf
  <2>4. CASE e.op = "next"
    BY <2>4 DEF MeaningOf, NextOf
  <2>5. CASE e.op = "until"
    BY <2>5 DEF MeaningOf, UntilOf
  <2>6. CASE e.op = "boolean"
    BY <2>6 DEF MeaningOf
  <2> HIDE DEF Of, V
  <2> QED BY <2>1, <2>2, <2>3, <2>4, <2>5, <2>6, FormulaFacts DEF Ops
<1>2. ASSUME NEW t \in [Formulas -> V], NEW u \in [Formulas -> V], NEW e \in Formulas,
             \A d \in Formulas : Height[d] < Height[e] => t[d] = u[d]
      PROVE  Of(t, e) = Of(u, e)
  <2>1. /\ e.op \in {"always", "eventually", "next"} => t[e.arg] = u[e.arg]
        /\ e.op = "until" => t[e.left] = u[e.left] /\ t[e.right] = u[e.right]
    BY <1>2, FormulaFacts
  <2>2. CASE e.op \in {"state", "boolean"}
    BY <2>2 DEF MeaningOf
  <2>3. CASE e.op \in {"always", "eventually", "next"}
    BY <2>1, <2>3 DEF MeaningOf
  <2>4. CASE e.op = "until"
    BY <2>1, <2>4 DEF MeaningOf
  <2> HIDE DEF Of
  <2> QED BY <2>2, <2>3, <2>4, FormulaFacts DEF Ops
<1> HIDE DEF Of
<1>3. \E t : Is(t)
  <2>1. g \in [[Formulas -> V] -> [Formulas -> V]]
    <3> HIDE DEF V
    <3> QED BY <1>1
  <2>2. LooksBelow(Formulas, Height, V, g)
    <3> HIDE DEF V
    <3> QED BY <1>2 DEF LooksBelow
  <2>3. {} \in V
    OBVIOUS
  <2>6. Height \in [Formulas -> Nat]
    BY FormulasAssumption
  <2>4. PICK t : Solves(Formulas, V, g, t)
    <3> HIDE DEF g, V
    <3> QED BY <2>1, <2>2, <2>3, <2>6, RecursionExists
  <2>5. t = [e \in Formulas |-> Of(t, e)]
    <3> HIDE DEF V
    <3> QED BY <2>4 DEF Solves
  <2> QED BY <2>5
<1>4. Is(c)
  <2> HIDE DEF Is
  <2> QED BY <1>3
<1> HIDE DEF c
<1>6. Meaning(m, Formulas)[f] = Of(Meaning(m, Formulas), f)
  BY <1>4, <1>5
<1> QED BY <1>6 DEF Of, MeaningOf

(* and whether the walk may stray.                                         *)
LEMMA StraysEquations ==
  ASSUME NEW f \in Formulas
  PROVE  /\ f.op = "always" => Strays[f]
         /\ f.op = "next" => (Strays[f] <=> Strays[f.arg])
         /\ f.op = "until" => (Strays[f] <=> Strays[f.left])
<1> DEFINE Of(t, e) == \/ e.op = "always"
                       \/ e.op = "next" /\ t[e.arg]
                       \/ e.op = "until" /\ t[e.left]
           g == [t \in [Formulas -> BOOLEAN] |-> [e \in Formulas |-> Of(t, e)]]
           Is(t) == t = [e \in Formulas |-> Of(t, e)]
           c == CHOOSE t : Is(t)
<1>5. Strays = c
  BY DEF Strays
<1>1. ASSUME NEW t \in [Formulas -> BOOLEAN], NEW e \in Formulas PROVE Of(t, e) \in BOOLEAN
  BY FormulaFacts
<1>2. ASSUME NEW t \in [Formulas -> BOOLEAN], NEW u \in [Formulas -> BOOLEAN], NEW e \in Formulas,
             \A d \in Formulas : Height[d] < Height[e] => t[d] = u[d]
      PROVE  Of(t, e) = Of(u, e)
  <2>1. /\ e.op = "next" => t[e.arg] = u[e.arg]
        /\ e.op = "until" => t[e.left] = u[e.left]
    BY <1>2, FormulaFacts
  <2> QED BY <2>1
<1> HIDE DEF Of
<1>3. \E t : Is(t)
  <2>1. g \in [[Formulas -> BOOLEAN] -> [Formulas -> BOOLEAN]]
    BY <1>1
  <2>2. LooksBelow(Formulas, Height, BOOLEAN, g)
    BY <1>2 DEF LooksBelow
  <2>3. FALSE \in BOOLEAN
    OBVIOUS
  <2>6. Height \in [Formulas -> Nat]
    BY FormulasAssumption
  <2>4. PICK t : Solves(Formulas, BOOLEAN, g, t)
    <3> HIDE DEF g
    <3> QED BY <2>1, <2>2, <2>3, <2>6, RecursionExists
  <2>5. t = [e \in Formulas |-> Of(t, e)]
    BY <2>4 DEF Solves
  <2> QED BY <2>5
<1>4. Is(c)
  <2> HIDE DEF Is
  <2> QED BY <1>3
<1> HIDE DEF c
<1>6. Strays[f] = Of(Strays, f)
  BY <1>4, <1>5
<1> QED BY <1>6, FormulaFacts DEF Of

(* On a graph of the model, the nodes on which a formula is computed to be *)
(* true are those whose states it means, formula by formula.               *)
LEMMA TruthIsMeaning ==
  ASSUME MirrorsModel, NEW f \in Formulas
  PROVE  TruthSet[f] = Where(Meaning(model, Formulas)[f])
<1> DEFINE M == Meaning(model, Formulas)
           W == {e \in Formulas : TruthSet[e] = Where(M[e])}
<1>0. Len(nodes) \in Nat
  BY DEF MirrorsModel
<1>1. ASSUME NEW e \in Formulas, \A d \in Formulas : Height[d] < Height[e] => d \in W
      PROVE  e \in W
  <2> HIDE DEF M
  <2>1. /\ e.op \in {"always", "eventually", "next"} => TruthSet[e.arg] = Where(M[e.arg])
        /\ e.op = "until" => TruthSet[e.left] = Where(M[e.left]) /\ TruthSet[e.right] = Where(M[e.right])
    BY <1>1, FormulaFacts
  <2> USE DEF M
  <2>2. CASE e.op = "state"
    BY <1>0, <2>2, TruthSetEquations, MeaningEquations DEF Where
  <2>3. CASE e.op = "boolean"
    BY <1>0, <2>3, TruthSetEquations, MeaningEquations DEF Where
  <2>4. CASE e.op = "next"
    <3> DEFINE P == M[e.arg]
    <3>1. TruthSet[e] = {i \in Indices : Children(i) # {} /\ Children(i) \subseteq Where(P)}
      BY <1>0, <2>1, <2>4, TruthSetEquations
    <3>2. M[e] = NextOf(model, P)
      BY <2>4, MeaningEquations
    <3> HIDE DEF P, M
    <3> QED BY <3>1, <3>2, NextIsMeaning
  <2>5. CASE e.op = "always"
    BY <1>0, <2>1, <2>5, TruthSetEquations, MeaningEquations, AlwaysIsMeaning
  <2>6. CASE e.op = "eventually"
    BY <1>0, <2>1, <2>6, TruthSetEquations, MeaningEquations, EventuallyIsMeaning
  <2>7. CASE e.op = "until"
    BY <1>0, <2>1, <2>7, TruthSetEquations, MeaningEquations, UntilIsMeaning
  <2> QED BY <2>2, <2>3, <2>4, <2>5, <2>6, <2>7, FormulaFacts DEF Ops
<1>2. W \in SUBSET Formulas
  OBVIOUS
<1>3. W = Formulas
  <2> HIDE DEF W
  <2> QED BY <1>1, <1>2, HeightInduction
<1> QED BY <1>3

-------------------------------------------------------------------------------
(* The step by which a node was found is an edge.                          *)
ParentsAreEdges ==
  Searching =>
    \A i \in 1..Len(nodes) : i # 1 =>
      \E k \in DOMAIN edges[nodes[i].parent] : edges[nodes[i].parent][k] = i

(* It becomes one when the node does.                                      *)
LEMMA ParentsStep ==
  ASSUME TypeOK, Shape, NodesFollowModel, ParentsAreEdges, Next
  PROVE  ParentsAreEdges'
<1>0. Len(nodes) \in Nat
  BY DEF TypeOK
<1>1. ASSUME Searching, Grows, nodes' = nodes PROVE ParentsAreEdges'
  <2> SUFFICES ASSUME NEW i \in 1..Len(nodes), i # 1
               PROVE  \E k \in DOMAIN edges'[nodes[i].parent] : edges'[nodes[i].parent][k] = i
    BY <1>1 DEF ParentsAreEdges
  <2>1. nodes[i].parent \in 1..Len(nodes)
    <3>1. nodes[i].parent \in 1..(i - 1)
      BY DEF NodesFollowModel
    <3> QED BY <1>0, <3>1
  <2>2. PICK k \in DOMAIN edges[nodes[i].parent] : edges[nodes[i].parent][k] = i
    BY <1>1 DEF ParentsAreEdges
  <2> QED BY <1>1, <2>1, <2>2 DEF Grows
<1>2. CASE Ending
  BY <1>2, EndingStep DEF ParentsAreEdges, Searching
<1>3. CASE BeginExpansion \/ SkipDisabled \/ CutAtDepthBound \/ FinishNode \/ HandToTemporal \/ Tick
  <2>1. UNCHANGED <<nodes, edges>> /\ (Searching' => Searching)
    BY <1>3 DEF BeginExpansion, PopNext, SkipDisabled, CutAtDepthBound, Take, Trying, Tried, FinishNode,
       HandToTemporal, Tick, graph, Searching
  <2> QED BY <2>1 DEF ParentsAreEdges
<1>4. CASE MeetVisited
  <2>1. Searching /\ Grows /\ UNCHANGED nodes
    BY <1>4, MeetVisitedEdges DEF MeetVisited, Take, Trying, Searching
  <2> QED BY <1>1, <2>1
<1>5. CASE AddNode
  <2> DEFINE n == Len(nodes)
  <2>1. /\ Searching /\ current \in 1..n
        /\ n \in Nat /\ Len(nodes') = n + 1
        /\ \A i \in 1..n : nodes'[i] = nodes[i]
        /\ edges[current] \in Seq(Nat)
        /\ edges'[current] = Append(edges[current], n + 1)
        /\ Grows /\ nodes'[n + 1] = Child
    BY <1>5, AddNodeEdges, NewNode DEF AddNode, Discover, Take, Trying, Searching
  <2>2. Child.parent = current
    BY DEF Child
  <2> SUFFICES ASSUME NEW i \in 1..(n + 1), i # 1
               PROVE  \E k \in DOMAIN edges'[nodes'[i].parent] : edges'[nodes'[i].parent][k] = i
    BY <2>1 DEF ParentsAreEdges
  <2>3. CASE i = n + 1
    <3> DEFINE row == edges[current]
    <3>1. Len(row) + 1 \in DOMAIN Append(row, n + 1) /\ Append(row, n + 1)[Len(row) + 1] = n + 1
      <4>1. row \in Seq(Nat)
        BY <2>1
      <4> HIDE DEF row, n
      <4> QED BY <4>1
    <3> QED BY <2>1, <2>2, <2>3, <3>1
  <2>4. CASE i # n + 1
    <3>1. i \in 1..n /\ nodes'[i] = nodes[i]
      BY <2>1, <2>4
    <3>2. nodes[i].parent \in 1..n
      <4>1. nodes[i].parent \in 1..(i - 1)
        BY <3>1 DEF NodesFollowModel
      <4> QED BY <1>0, <3>1, <4>1
    <3>3. PICK k \in DOMAIN edges[nodes[i].parent] : edges[nodes[i].parent][k] = i
      BY <2>1, <3>1 DEF ParentsAreEdges
    <3> QED BY <2>1, <3>1, <3>2, <3>3 DEF Grows
  <2> QED BY <2>3, <2>4
<1> QED BY NextSplit, <1>2, <1>3, <1>4, <1>5

-------------------------------------------------------------------------------
(* The graph the search hands over is one of the model, with every         *)
(* reachable state.                                                        *)
LEMMA ReachedMirrors ==
  ASSUME SettledInv, GraphInv, pc = "temporal", ~cut
  PROVE  MirrorsModel /\ {nodes[i].state : i \in Indices} = Reachable(model)
<1>1. /\ TypeOK /\ Indexed /\ EdgesAreSteps /\ Searching /\ nodes \in Seq(NodeType)
      /\ DOMAIN visited = Reachable(model)
      /\ \A i \in 1..Len(nodes) :
           {nodes[edges[i][k]].state : k \in DOMAIN edges[i]} = Successors(model, nodes[i].state)
  BY GraphReached DEF SettledInv, GraphInv, GraphIsReachableGraph, TypeOK, Searching
<1>2. \A i \in Indices : nodes[i] \in NodeType
  BY <1>1 DEF Indices
<1>3. ASSUME NEW i \in Indices
      PROVE  /\ Children(i) \subseteq Indices
             /\ {nodes[j].state : j \in Children(i)} = Successors(model, nodes[i].state)
  <2>1. Children(i) \subseteq Indices
    BY <1>1 DEF EdgesAreSteps, Children, Indices
  <2>2. {nodes[j].state : j \in Children(i)} = {nodes[edges[i][k]].state : k \in DOMAIN edges[i]}
    BY DEF Children
  <2> QED BY <1>1, <2>1, <2>2 DEF Indices
<1>4. MirrorsModel
  <2>1. Len(nodes) \in Nat
    BY <1>1
  <2>2. \A i \in Indices : nodes[i].state \in States
    BY <1>2 DEF NodeType
  <2> QED BY <1>3, <2>1, <2>2 DEF MirrorsModel
<1>5. {nodes[i].state : i \in Indices} = Reachable(model)
  BY <1>1 DEF Indexed, Indices
<1> QED BY <1>4, <1>5

(* So the truth sets computed on it are right.                             *)
LEMMA TruthReached == SettledInv /\ GraphInv => TruthSetIsMeaning
<1> SUFFICES ASSUME SettledInv, GraphInv, pc = "temporal", ~cut, NEW f \in Formulas
             PROVE  {nodes[i].state : i \in TruthSet[f]} = Meaning(model, Formulas)[f] \cap Reachable(model)
  BY DEF TruthSetIsMeaning
<1>1. TruthSet[f] = Where(Meaning(model, Formulas)[f])
  BY ReachedMirrors, TruthIsMeaning
<1>2. {nodes[i].state : i \in Indices} = Reachable(model)
  BY ReachedMirrors
<1> QED BY <1>1, <1>2 DEF Where

(* Where always holds at node 1, its operand holds at every node: each is  *)
(* a child of its parent, and so comes after node 1.                       *)
LEMMA AlwaysCovers ==
  ASSUME Len(nodes) \in Nat, NodesFollowModel, ParentsAreEdges, Searching,
         NEW f \in Formulas, f.op = "always", f.arg.op = "state", 1 \in TruthSet[f]
  PROVE  \A i \in Indices : nodes[i].state \in f.arg.holds
<1> DEFINE r == TruthSet[f.arg]
           h == Sweep("always", {}, r)
           X == TruthSet[f]
<1>1. /\ f.arg \in Formulas /\ r = {i \in Indices : nodes[i].state \in f.arg.holds}
      /\ X = Stabilised("always", {}, r)
  BY FormulaFacts, TruthSetEquations
<1>2. X \in SUBSET Indices /\ h[X] = X
  <2>1. r \in SUBSET Indices
    BY <1>1
  <2> HIDE DEF r, X
  <2> QED BY <1>1, <2>1, GreatestFixpoint
<1>3. \A i \in X : i \in r /\ Children(i) \subseteq X
  <2> HIDE DEF r, X
  <2>1. \A i \in X : HoldsAt("always", {}, r, X, i)
    BY <1>2 DEF Sweep
  <2> QED BY <2>1 DEF HoldsAt
<1> DEFINE T == {n \in Nat : \A i \in 1..n : i \in Indices => i \in X}
<1>4. 0 \in T
  OBVIOUS
<1>5. ASSUME NEW n \in T PROVE n + 1 \in T
  <2> SUFFICES ASSUME n + 1 \in Indices PROVE n + 1 \in X
    OBVIOUS
  <2>1. CASE n + 1 = 1
    BY <2>1
  <2>2. CASE n + 1 # 1
    <3> DEFINE p == nodes[n + 1].parent
    <3>1. p \in 1..n /\ p \in Indices
      <4>1. p \in 1..((n + 1) - 1)
        BY <2>2 DEF NodesFollowModel, Indices
      <4> QED BY <4>1 DEF Indices
    <3>2. \E k \in DOMAIN edges[p] : edges[p][k] = n + 1
      BY <2>2 DEF ParentsAreEdges, Indices
    <3>3. n + 1 \in Children(p)
      BY <3>2 DEF Children
    <3> QED BY <1>3, <3>1, <3>3
  <2> QED BY <2>1, <2>2
<1>6. T = Nat
  <2>1. T \in SUBSET Nat
    OBVIOUS
  <2> HIDE DEF T
  <2> QED BY <1>4, <1>5, <2>1, InductionInSetForm
<1>7. \A i \in Indices : i \in X
  <2>1. Len(nodes) \in T
    BY <1>6
  <2> QED BY <2>1 DEF Indices
<1> QED BY <1>1, <1>3, <1>7

(* Breadth-first, every state within the bound is a node.                  *)
LEMMA BoundCovered ==
  ASSUME SettledInv, AccountInv, pc = "temporal", plan.strategy = "bfs", NEW d \in plan.max_depth,
         NEW s \in Within(model, d)
  PROVE  \E i \in Indices : nodes[i].state = s
<1>1. Searching /\ current = 0 /\ frontier = <<>> /\ plan.max_depth \in Optional(Nat)
  BY DEF SettledInv, Shape, Searching, TypeOK, PlanType
<1>2. d \in Nat /\ d + 1 \in Nat /\ d < d + 1 /\ \A e \in plan.max_depth : d + 1 <= e + 1
  BY <1>1 DEF Optional
<1>3. \A i \in 1..Len(nodes) : i # current /\ ~Waiting(i)
  BY <1>1 DEF Waiting
<1>4. \E i \in 1..Len(nodes) : nodes[i].state = s /\ nodes[i].depth <= d
  BY <1>1, <1>2, <1>3, NearIsKnown
<1> QED BY <1>4 DEF Indices

-------------------------------------------------------------------------------
(* The walk to a failure, and the verdict.                                 *)

(* The walk is at a node, for a formula; it began because what was asked   *)
(* fails at node 1; and unless it may stray, it is where its formula       *)
(* fails.                                                                  *)
WalkFails ==
  /\ walk \in [at : Nat, f : Formulas]
  /\ pc \in {"pop", "expand"} => walk.at = 0
  /\ Walking =>
       /\ 1 \notin TruthSet[formula] /\ ~Unevaluable[formula]
       /\ walk.at \in Indices
       /\ ~Strays[formula] => ~Strays[walk.f] /\ walk.at \notin TruthSet[walk.f]

(* The truth sets, and whether there are any, depend on the graph alone.   *)
LEMMA SameTruth == UNCHANGED <<nodes, edges>> => UNCHANGED <<TruthSet, Unevaluable, Indices>>
BY DEF TruthSet, Truth, Unevaluable, Indices, Children, Stabilised, OnePass, HoldsAt

(* A walk that has not moved fails where it did.                           *)
LEMMA WalkStays ==
  ASSUME WalkFails, UNCHANGED <<nodes, edges, pc, formula, walk>>
  PROVE  WalkFails'
BY SameTruth DEF WalkFails, Walking

(* The child find() returns lies outside.                                  *)
LEMMA OutsideFacts ==
  ASSUME NEW i, NEW S, NEW child \in FirstOutside(i, S)
  PROVE  child \in Children(i) /\ child \notin S
BY DEF FirstOutside, Children

(* temporal_failure_index goes on with the operand of always, or with the  *)
(* left one of until, which fails here.                                    *)
LEMMA InwardFacts ==
  ASSUME NEW f \in Formulas, NEW i, NEW g \in Inward(f, i)
  PROVE  \/ f.op = "always" /\ g = f.arg
         \/ f.op = "until" /\ g = f.left /\ i \notin TruthSet[g]
<1>1. CASE f.op = "always" /\ i \notin TruthSet[f.arg]
  BY <1>1 DEF Inward
<1>2. CASE f.op = "until" /\ i \notin TruthSet[f.right] /\ i \notin TruthSet[f.left]
  BY <1>2 DEF Inward
<1> QED BY <1>1, <1>2 DEF Inward

(* It goes on to a child where what it carries fails, unless it leaves an  *)
(* always.                                                                 *)
LEMMA OnwardFacts ==
  ASSUME NEW f \in Formulas, NEW i, NEW child \in Onward(f, i)
  PROVE  /\ child \in Children(i)
         /\ \/ f.op = "always" /\ Carried(f) = f.arg
            \/ f.op = "next" /\ Carried(f) = f.arg /\ child \notin TruthSet[Carried(f)]
            \/ f.op \in {"eventually", "until"} /\ Carried(f) = f /\ child \notin TruthSet[Carried(f)]
<1>1. CASE f.op = "always"
  <2>1. child \in FirstOutside(i, TruthSet[f])
    BY <1>1 DEF Onward
  <2> QED BY <1>1, <2>1, OutsideFacts DEF Carried
<1>2. CASE f.op = "eventually" /\ i \notin TruthSet[f.arg]
  <2>1. child \in FirstOutside(i, TruthSet[f])
    BY <1>2 DEF Onward
  <2> QED BY <1>2, <2>1, OutsideFacts DEF Carried
<1>3. CASE f.op = "until" /\ i \notin TruthSet[f.right]
  <2>1. child \in FirstOutside(i, TruthSet[f])
    BY <1>3 DEF Onward
  <2> QED BY <1>3, <2>1, OutsideFacts DEF Carried
<1>4. CASE f.op = "next"
  <2>1. child \in FirstOutside(i, TruthSet[f.arg])
    BY <1>4 DEF Onward
  <2> QED BY <1>4, <2>1, OutsideFacts DEF Carried
<1> QED BY <1>1, <1>2, <1>3, <1>4 DEF Onward

(* So the walk stays where its formula fails, one call after the other.    *)
LEMMA WalkGoesOn ==
  ASSUME SettledInv, EdgesAreSteps, WalkFails, formula \in Asked, BeginWalk \/ Descend \/ Follow
  PROVE  UNCHANGED <<vars, formula>> /\ WalkFails'
<1>1. UNCHANGED <<vars, formula>> /\ pc = "temporal"
  BY DEF BeginWalk, Descend, Follow, Rest, Evaluating, Walking, vars
<1>2. UNCHANGED <<nodes, edges, TruthSet, Unevaluable, Indices, formula, pc>>
  BY <1>1, SameTruth DEF vars, graph
<1>3. Searching /\ 1 \in Indices /\ Indices = 1..Len(nodes) /\ Indices \in SUBSET Nat /\ formula \in Formulas
  <2>1. Len(nodes) \in Nat /\ Len(nodes) >= 1
    BY DEF SettledInv, TypeOK
  <2> QED BY <1>1, <2>1, FormulasAssumption DEF Searching, Indices
<1> SUFFICES /\ walk' \in [at : Indices, f : Formulas]
             /\ 1 \notin TruthSet[formula] /\ ~Unevaluable[formula]
             /\ ~Strays[formula] => ~Strays[walk'.f] /\ walk'.at \notin TruthSet[walk'.f]
  BY <1>1, <1>2, <1>3 DEF WalkFails, Walking
<1>4. CASE BeginWalk
  BY <1>3, <1>4 DEF BeginWalk
<1>5. ASSUME Walking
      PROVE  /\ walk.at \in Indices /\ walk.f \in Formulas
             /\ 1 \notin TruthSet[formula] /\ ~Unevaluable[formula]
             /\ walk = [at |-> walk.at, f |-> walk.f]
             /\ ~Strays[formula] => ~Strays[walk.f] /\ walk.at \notin TruthSet[walk.f]
  BY <1>5 DEF WalkFails
<1>6. CASE Descend
  <2> PICK g \in Inward(walk.f, walk.at) : walk' = [walk EXCEPT !.f = g]
    BY <1>6 DEF Descend
  <2>1. Walking
    BY <1>6 DEF Descend
  <2>2. walk' = [at |-> walk.at, f |-> g]
    BY <1>5, <2>1
  <2>3. \/ walk.f.op = "always" /\ g = walk.f.arg
        \/ walk.f.op = "until" /\ g = walk.f.left /\ walk.at \notin TruthSet[g]
    BY <1>5, <2>1, InwardFacts
  <2>4. g \in Formulas /\ (~Strays[walk.f] => ~Strays[g] /\ walk.at \notin TruthSet[g])
    BY <1>5, <2>1, <2>3, FormulaFacts, StraysEquations
  <2> QED BY <1>5, <2>1, <2>2, <2>4
<1>7. CASE Follow
  <2> PICK child \in Onward(walk.f, walk.at) : walk' = [at |-> child, f |-> Carried(walk.f)]
    BY <1>7 DEF Follow
  <2>1. Walking
    BY <1>7 DEF Follow
  <2> DEFINE f == walk.f
             g == Carried(f)
  <2>2. f \in Formulas /\ walk.at \in Indices
    BY <1>5, <2>1
  <2>3. /\ child \in Children(walk.at)
        /\ \/ f.op = "always" /\ g = f.arg
           \/ f.op = "next" /\ g = f.arg /\ child \notin TruthSet[g]
           \/ f.op \in {"eventually", "until"} /\ g = f /\ child \notin TruthSet[g]
    <3> HIDE DEF f
    <3> QED BY <2>2, OnwardFacts DEF f
  <2>4. child \in Indices
    BY <1>3, <2>2, <2>3 DEF EdgesAreSteps, Children
  <2>5. g \in Formulas /\ (~Strays[f] => ~Strays[g] /\ child \notin TruthSet[g])
    <3> HIDE DEF f, g
    <3> QED BY <2>2, <2>3, FormulaFacts, StraysEquations
  <2> QED BY <1>5, <2>1, <2>4, <2>5
<1> QED BY <1>4, <1>6, <1>7

-------------------------------------------------------------------------------
(* The inductive invariant: that of the search, the walk, and the verdict. *)
TemporalInv ==
  /\ SettledInv
  /\ GraphInv
  /\ AccountInv
  /\ TraceIsShortestEvidence
  /\ ParentsAreEdges
  /\ formula \in Asked
  /\ WalkFails
  /\ TemporalVerdictCorrect
  /\ BoundedAlwaysCoversDepth

(* It holds where the search begins,                                       *)
LEMMA InitTemporal == TInit => TemporalInv
<1> SUFFICES ASSUME TInit PROVE TemporalInv
  OBVIOUS
<1>1. SettledInv /\ GraphInv /\ AccountInv /\ TraceIsShortestEvidence
  BY InitInv, InitGraph, InitAccount DEF TInit
<1>2. Len(nodes) = 1 /\ pc = "pop" /\ outcome.reason = "none"
  BY DEF TInit, Init, Pending
<1>3. formula \in Asked /\ walk = [at |-> 0, f |-> formula]
  BY DEF TInit, NoWalk
<1>4. WalkFails
  BY <1>2, <1>3, FormulasAssumption DEF WalkFails, Walking
<1>5. ParentsAreEdges
  BY <1>2 DEF ParentsAreEdges
<1> QED BY <1>1, <1>2, <1>3, <1>4, <1>5 DEF TemporalInv, TemporalVerdictCorrect, BoundedAlwaysCoversDepth

(* (an answer of the search itself says nothing of a temporal formula,     *)
LEMMA SearchAnswers ==
  ASSUME Ending
  PROVE  outcome'.reason \notin {"proved", "temporal"}
<1> USE DEF Answer, Stop, Error
<1>1. CASE StopAtTimeLimit
  BY <1>1 DEF StopAtTimeLimit
<1>2. CASE FailEvaluation
  BY <1>2 DEF FailEvaluation
<1>3. CASE ReportState
  BY <1>3 DEF ReportState
<1>4. CASE FailApply \/ FailStep
  BY <1>4 DEF FailApply, FailStep
<1>5. CASE ReportStep
  BY <1>5 DEF ReportStep
<1>6. CASE StopAtStateLimit
  BY <1>6 DEF StopAtStateLimit
<1>7. CASE ReportDeadlock
  BY <1>7 DEF ReportDeadlock
<1>8. CASE Conclude
  BY <1>8 DEF Conclude
<1> QED BY <1>1, <1>2, <1>3, <1>4, <1>5, <1>6, <1>7, <1>8 DEF Ending

(* and the search is over once it hands over the graph: only its clock     *)
(* still runs)                                                             *)
LEMMA TemporalIsLast ==
  ASSUME Next
  PROVE  \/ Tick /\ pc # "done" /\ UNCHANGED <<nodes, edges, pc>>
         \/ pc \in {"pop", "expand"}
<1>1. CASE Tick
  BY <1>1 DEF Tick, graph
<1>2. CASE SearchStep
  BY <1>2 DEF SearchStep, StopAtTimeLimit, FailEvaluation, ReportState, BeginExpansion, PopNext,
     FailApply, FailStep, SkipDisabled, ReportStep, CutAtDepthBound, MeetVisited, StopAtStateLimit, AddNode,
     Discover, Take, Trying, Tried, ReportDeadlock, FinishNode, Conclude, HandToTemporal
<1> QED BY <1>1, <1>2 DEF Next

(* is kept by a step of the search,                                        *)
LEMMA SearchKeepsTemporal ==
  ASSUME TemporalInv, Next, UNCHANGED <<formula, walk>>
  PROVE  TemporalInv'
<1>1. /\ SettledInv /\ GraphInv /\ AccountInv /\ TraceIsShortestEvidence /\ ParentsAreEdges
      /\ TypeOK /\ Shape /\ NodesFollowModel
  BY DEF TemporalInv, SettledInv, AccountInv
<1>2. SettledInv' /\ GraphInv'
  BY <1>1, SettledStep, DrawnStep
<1>3. AccountInv' /\ TraceIsShortestEvidence'
  BY <1>1, AccountStep
<1>4. ParentsAreEdges'
  BY <1>1, ParentsStep
<1>5. WalkFails'
  <2>1. CASE Tick /\ UNCHANGED <<nodes, edges, pc>>
    BY <2>1, WalkStays DEF TemporalInv
  <2>2. CASE pc \in {"pop", "expand"}
    <3>1. walk' \in [at : Nat, f : Formulas] /\ walk'.at = 0
      BY <2>2 DEF TemporalInv, WalkFails
    <3> QED BY <3>1 DEF WalkFails, Walking
  <2> QED BY <2>1, <2>2, TemporalIsLast
<1>6. pc # "done"
  BY TemporalIsLast
<1>7. CASE Ending
  <2>1. outcome'.reason \notin {"proved", "temporal"}
    BY <1>7, SearchAnswers
  <2> QED BY <1>2, <1>3, <1>4, <1>5, <2>1 DEF TemporalInv, TemporalVerdictCorrect, BoundedAlwaysCoversDepth
<1>8. CASE ~Ending
  <2>1. UNCHANGED outcome /\ outcome = Pending
    BY <1>1, <1>6, <1>8, GoingOnKeeps DEF AccountInv, Unanswered
  <2>2. outcome'.reason = "none"
    BY <2>1 DEF Pending
  <2> QED BY <1>2, <1>3, <1>4, <1>5, <2>2 DEF TemporalInv, TemporalVerdictCorrect, BoundedAlwaysCoversDepth
<1> QED BY <1>7, <1>8

(* by a step of the walk, which leaves the search as it is,                *)
LEMMA WalkKeepsTemporal ==
  ASSUME TemporalInv, UNCHANGED <<vars, formula>>, WalkFails'
  PROVE  TemporalInv'
<1>1. SettledInv /\ GraphInv /\ AccountInv /\ TraceIsShortestEvidence
  BY DEF TemporalInv
<1>2. SettledInv' /\ GraphInv' /\ AccountInv' /\ TraceIsShortestEvidence'
  BY <1>1, SettledStep, DrawnStep, AccountStep
<1>3. ParentsAreEdges' /\ TemporalVerdictCorrect' /\ BoundedAlwaysCoversDepth' /\ formula' \in Asked
  BY DEF TemporalInv, ParentsAreEdges, TemporalVerdictCorrect, BoundedAlwaysCoversDepth, Searching,
     vars, inputs, graph, marks
<1> QED BY <1>2, <1>3 DEF TemporalInv

-------------------------------------------------------------------------------
(* (an answer of temporal_result,                                          *)
Evaluated ==
  /\ pc = "temporal" /\ pc' = "done" /\ UNCHANGED <<inputs, graph, marks, cursor, expired, formula>>
  /\ outcome' \in OutcomeType /\ outcome'.status # "pending" /\ outcome'.end <= Len(nodes)
  /\ outcome'.reason \in {"evaluation", "proved", "temporal"}

(* which finds and exhausts nothing in the sense of the search,            *)
LEMMA EvaluatedKeeps ==
  ASSUME TemporalInv, Evaluated
  PROVE  /\ SettledInv' /\ GraphInv' /\ AccountInv' /\ TraceIsShortestEvidence'
         /\ ParentsAreEdges' /\ formula' \in Asked
<1> USE DEF Evaluated, inputs, graph, marks, cursor
<1>1. SettledInv /\ GraphInv /\ AccountInv /\ TraceIsShortestEvidence
  BY DEF TemporalInv
<1>2. ~Searching' /\ pc' = "done"
  BY DEF Searching
<1>3. ~FoundIt' /\ ~Exhaustive'
  BY DEF FoundIt, Exhaustive
<1>4. TypeOK' /\ Shape'
  BY <1>1, <1>2 DEF SettledInv, TypeOK, Shape
<1>5. SettledInv'
  <2>1. NodesReachable'
    BY <1>1 DEF SettledInv, NodesReachable
  <2> QED BY <1>2, <1>3, <1>4, <2>1 DEF SettledInv, Indexed, AllSettled, CurrentSettled, VerdictSound
<1>6. GraphInv' /\ ParentsAreEdges' /\ formula' \in Asked
  BY <1>2 DEF GraphInv, EdgesAreSteps, StepsAreEdges, ParentsAreEdges, TemporalInv
<1>7. AccountInv'
  <2>1. NodesFollowModel' /\ MarksMean' /\ Unanswered'
    BY <1>1, <1>2 DEF AccountInv, NodesFollowModel, MarksMean, Unanswered
  <2> QED BY <1>2, <2>1 DEF AccountInv, LevelByLevel, NodesWithinBound, AllRecorded
<1>8. TraceIsShortestEvidence'
  BY <1>3, <1>7 DEF TraceIsShortestEvidence, TraceIsEvidence, ShortestUnderBfs, AccountInv
<1> QED BY <1>5, <1>6, <1>7, <1>8

-------------------------------------------------------------------------------
(* read from the truth at node 1, which is the meaning at the initial      *)
(* state)                                                                  *)
LEMMA InitialTruth ==
  ASSUME SettledInv, GraphInv, pc = "temporal", ~cut, NEW f \in Formulas
  PROVE  1 \in TruthSet[f] <=> model.init \in Meaning(model, Formulas)[f]
<1>1. 1 \in Indices /\ nodes[1].state = model.init
  <2>1. Len(nodes) \in Nat /\ Len(nodes) >= 1
    BY DEF SettledInv, TypeOK
  <2> QED BY <2>1 DEF SettledInv, NodesReachable, Indices
<1>2. TruthSet[f] = Where(Meaning(model, Formulas)[f])
  BY ReachedMirrors, TruthIsMeaning
<1> QED BY <1>1, <1>2 DEF Where

(* by such an answer,                                                      *)
LEMMA AnswerKeepsTemporal ==
  ASSUME TemporalInv, FailTemporalEvaluation \/ ProveTemporal \/ ReportTemporal
  PROVE  TemporalInv'
<1>1. /\ SettledInv /\ GraphInv /\ AccountInv /\ WalkFails /\ ParentsAreEdges
      /\ TypeOK /\ NodesFollowModel /\ Len(nodes) \in Nat /\ formula \in Formulas
  BY FormulasAssumption DEF TemporalInv, SettledInv, AccountInv, TypeOK
<1>2. /\ pc = "temporal" /\ pc' = "done" /\ Searching
      /\ UNCHANGED <<inputs, graph, marks, cursor, expired, formula, walk>>
  BY DEF FailTemporalEvaluation, ProveTemporal, ReportTemporal, Evaluating, Walking, Error, Answer,
     Rest, Searching
<1>3. /\ outcome' \in OutcomeType /\ outcome'.status # "pending" /\ outcome'.end <= Len(nodes)
      /\ outcome'.reason \in {"evaluation", "proved", "temporal"}
  <2>1. CASE FailTemporalEvaluation
    <3>1. Answer("error", "incomplete", "evaluation", FALSE, 0)
      BY <2>1 DEF FailTemporalEvaluation, Error
    <3> QED BY <1>1, <3>1 DEF Answer, OutcomeType, Reasons
  <2>2. CASE ProveTemporal
    <3>1. Answer("pass", FinalAssurance, "proved", FALSE, 0)
      BY <2>2 DEF ProveTemporal
    <3> QED BY <1>1, <3>1, AssuranceType DEF Answer, OutcomeType, Reasons
  <2>3. CASE ReportTemporal
    <3>1. Answer("fail", EarlyAssurance, "temporal", FALSE, walk.at) /\ Walking
      BY <2>3 DEF ReportTemporal
    <3>2. walk.at \in 1..Len(nodes)
      BY <1>1, <3>1 DEF WalkFails, Indices
    <3>3. walk.at \in Nat /\ walk.at <= Len(nodes)
      BY <1>1, <3>2
    <3> QED BY <3>1, <3>3, AnswerType, AssuranceType DEF Reasons
  <2> QED BY <2>1, <2>2, <2>3
<1>4. Evaluated
  BY <1>2, <1>3 DEF Evaluated
<1>5. WalkFails'
  BY <1>1, <1>2 DEF WalkFails, Walking
<1>6. /\ outcome'.reason = "proved" => 1 \in TruthSet[formula]
      /\ outcome'.reason = "temporal" => 1 \notin TruthSet[formula]
      /\ outcome'.reason \in {"proved", "temporal"} => ~Unevaluable[formula]
  <2>1. CASE FailTemporalEvaluation
    BY <2>1 DEF FailTemporalEvaluation, Error, Answer
  <2>2. CASE ProveTemporal
    BY <2>2 DEF ProveTemporal, Answer
  <2>3. CASE ReportTemporal
    BY <1>1, <2>3 DEF ReportTemporal, Answer, WalkFails
  <2> QED BY <2>1, <2>2, <2>3
<1>7. TemporalVerdictCorrect'
  <2>1. ~cut => (1 \in TruthSet[formula] <=> model.init \in Meaning(model, Formulas)[formula])
    BY <1>1, <1>2, InitialTruth
  <2>2. UNCHANGED <<cut, model, formula>>
    BY <1>2 DEF inputs, marks
  <2>3. ~cut => {nodes[i].state : i \in Indices} = Reachable(model)
    BY <1>1, <1>2, ReachedMirrors
  <2>4. ~cut => Unevaluable = NoValue(Reachable(model), Formulas)
    BY <2>3 DEF Unevaluable
  <2> QED BY <1>6, <2>1, <2>2, <2>4 DEF TemporalVerdictCorrect
<1>8. BoundedAlwaysCoversDepth'
  <2>1. UNCHANGED <<model, plan, formula>>
    BY <1>2 DEF inputs
  <2> SUFFICES ASSUME 1 \in TruthSet[formula], formula.op = "always", formula.arg.op = "state",
                      plan.strategy = "bfs", NEW d \in plan.max_depth, NEW s \in Within(model, d)
               PROVE  s \in formula.arg.holds
    BY <1>6, <2>1 DEF BoundedAlwaysCoversDepth
  <2>2. PICK i \in Indices : nodes[i].state = s
    BY <1>1, <1>2, BoundCovered
  <2> QED BY <1>1, <1>2, <2>2, AlwaysCovers
<1> QED BY <1>4, <1>5, <1>7, <1>8, EvaluatedKeeps DEF TemporalInv

(* and so by every step.                                                   *)
LEMMA TemporalStepKeeps == TemporalInv /\ [TNext]_tvars => TemporalInv'
<1> SUFFICES ASSUME TemporalInv, [TNext]_tvars PROVE TemporalInv'
  OBVIOUS
<1>1. CASE Next /\ UNCHANGED <<formula, walk>>
  BY <1>1, SearchKeepsTemporal
<1>2. CASE FailTemporalEvaluation \/ ProveTemporal \/ ReportTemporal
  BY <1>2, AnswerKeepsTemporal
<1>3. CASE BeginWalk \/ Descend \/ Follow
  <2>1. UNCHANGED <<vars, formula>> /\ WalkFails'
    BY <1>3, WalkGoesOn DEF TemporalInv, GraphInv
  <2> QED BY <2>1, WalkKeepsTemporal
<1>4. CASE UNCHANGED tvars
  <2>1. UNCHANGED <<vars, formula>> /\ UNCHANGED <<nodes, edges, pc, formula, walk>>
    BY <1>4 DEF tvars, vars, graph
  <2>2. WalkFails'
    BY <2>1, WalkStays DEF TemporalInv
  <2> QED BY <2>1, <2>2, WalkKeepsTemporal
<1> QED BY <1>1, <1>2, <1>3, <1>4 DEF TNext, TemporalStep

(* It holds throughout.                                                    *)
LEMMA Evaluates == TSpec => []TemporalInv
BY InitTemporal, TemporalStepKeeps, PTL DEF TSpec

(* temporal_truth_set computes what the formulas mean: once the search has *)
(* handed over a graph that the depth bound did not cut, the nodes on      *)
(* which a formula is computed to be true are those with the reachable     *)
(* states in which it holds by its paths, for every model, every formula,  *)
(* nested operators included, and every strategy.                          *)
THEOREM TruthSetCorrect == TSpec => []TruthSetIsMeaning
<1>1. TemporalInv => TruthSetIsMeaning
  BY TruthReached DEF TemporalInv
<1> QED BY Evaluates, <1>1, PTL

(* The verdict of temporal_result on an uncut graph is the meaning of the  *)
(* formula in the initial state, and a failure that temporal_failure_index *)
(* locates, unless an always made it stray, is at a node where what it was *)
(* looking for fails; for every model, formula and plan.                   *)
THEOREM TemporalVerdictsCorrect == TSpec => []TemporalVerdictLocated
<1>1. TemporalInv => TemporalVerdictLocated
  BY DEF TemporalInv, TemporalVerdictLocated, WalkStaysInFailure, WalkFails, Walking
<1> QED BY Evaluates, <1>1, PTL

(* A proof of `always` over a state formula covers every state within      *)
(* max_depth under Bfs, cut or not; for every model and plan.              *)
THEOREM BoundedAlwaysCorrect == TSpec => []BoundedAlwaysCoversDepth
<1>1. TemporalInv => BoundedAlwaysCoversDepth
  BY DEF TemporalInv
<1> QED BY Evaluates, <1>1, PTL

===============================================================================
