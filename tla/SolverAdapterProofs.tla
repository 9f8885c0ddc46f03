-------------------------- MODULE SolverAdapterProofs --------------------------
(***************************************************************************)
(* What the adapters promise, for every model, naming, plan and reply.     *)
(*                                                                         *)
(* AdapterInv is about all who speak the protocol: a solver may print what *)
(* it likes, and a FAIL still comes with a run of the model.  The replay   *)
(* is a loop of its own, so that the invariant speaks of the part replayed *)
(* so far; that the loop ran to its end is what a report adds.             *)
(*                                                                         *)
(* SolverInv is about the bounded encodings: the depths left behind had no *)
(* assignment, and the replay retraces the run of the one found, although  *)
(* it had only the names.  That a barren depth says something about the    *)
(* states within it is BarrenHolds: a first violation would be the end of  *)
(* an assignment.                                                          *)
(***************************************************************************)
EXTENDS SolverAdapter, TransitionSystemProofs, SequenceTheorems, TLAPS

Ids == Actions \cup {Unnamed}

(* Each step of t is a transition of the model with the name in ids.       *)
Follows(t, ids) ==
  \A i \in 1..(Len(t) - 1) :
    \E x \in Actions : names[x] = ids[i] /\ ApplyAction(model, t[i], x) = t[i + 1]

(* What holds of the replay at every step of it.                           *)
ReplayInv ==
  /\ reply.actions \in Seq(Ids)
  /\ replayed \in Seq(States)
  /\ replayed # <<>> =>
       /\ reply.actions # <<>>
       /\ Len(replayed) <= Len(reply.actions) + 1
       /\ replayed[1] = model.init
       /\ Follows(replayed, reply.actions)

(* A FAIL reports the replay, and the replay was complete.                 *)
ReportInv ==
  backend \in Protocol /\ outcome.status = "fail" =>
    /\ outcome.trace = replayed
    /\ replayed # <<>>
    /\ Len(replayed) = Len(reply.actions) + 1

AdapterInv ==
  /\ model \in ModelType /\ names \in [Actions -> Actions]
  /\ depth \in Nat
  /\ pc \in {"ask", "normalize"} => replayed = <<>>
  /\ pc = "replay" /\ reply.actions # <<>> => replayed # <<>>
  /\ pc # "done" => outcome.status = "pending"
  /\ ReplayInv
  /\ ReportInv

(* The invariant holds initially: nothing has been asked.                  *)
LEMMA AdapterInit == Init => AdapterInv
<1> SUFFICES ASSUME Init PROVE AdapterInv
  OBVIOUS
<1>1. model \in ModelType /\ names \in [Actions -> Actions]
  BY AdapterAssumption DEF Init, InputType
<1> QED
  BY <1>1 DEF Init, NoReply, Pending, AdapterInv, ReplayInv, ReportInv, Follows, Ids

(* The transitions of a name lead to states, when they lead to one state.  *)
LEMMA VariantIsStep ==
  ASSUME NEW s, NEW id, NEW t \in States, Variants(s, id) = {t}
  PROVE  \E x \in Actions : names[x] = id /\ ApplyAction(model, s, x) = t
  BY DEF Variants

(* One more replayed step extends the run.                                 *)
LEMMA ReplayExtends ==
  ASSUME AdapterInv, ReplayStep
  PROVE  AdapterInv'
<1> USE DEF Replaying, Position
<1>1. PICK t \in States :
        /\ Led(reply.actions[Len(replayed)]) = {t}
        /\ replayed' = Append(replayed, t)
  BY DEF ReplayStep
<1>2. /\ replayed \in Seq(States) /\ reply.actions \in Seq(Ids)
      /\ 0 < Len(replayed) /\ Len(replayed) <= Len(reply.actions)
      /\ pc = "replay" /\ pc' = pc /\ reply' = reply /\ outcome' = outcome
      /\ UNCHANGED <<model, names, query, plan, backend, depth>>
  BY DEF ReplayStep, AdapterInv, ReplayInv, arguments
<1>3. /\ replayed' \in Seq(States)
      /\ Len(replayed') = Len(replayed) + 1
      /\ \A i \in 1..Len(replayed) : replayed'[i] = replayed[i]
      /\ replayed'[Len(replayed) + 1] = t
  BY <1>1, <1>2
<1>4. replayed # <<>> /\ replayed' # <<>>
  BY <1>2, <1>3
<1>5. PICK x \in Actions :
        names[x] = reply.actions[Len(replayed)] /\ ApplyAction(model, replayed[Len(replayed)], x) = t
  BY <1>1, VariantIsStep DEF Led
<1>6. Follows(replayed, reply.actions)'
  <2> SUFFICES ASSUME NEW i \in 1..Len(replayed)
               PROVE  \E y \in Actions : /\ names[y] = reply.actions[i]
                                         /\ ApplyAction(model, replayed'[i], y) = replayed'[i + 1]
    <3>1. Len(replayed') - 1 = Len(replayed) /\ names' = names /\ model' = model /\ reply' = reply
      BY <1>2, <1>3
    <3> QED  BY <3>1 DEF Follows, ApplyAction
  <2>1. CASE i = Len(replayed)
    BY <2>1, <1>2, <1>3, <1>5
  <2>2. CASE i < Len(replayed)
    <3>1. i \in 1..(Len(replayed) - 1) /\ i + 1 \in 1..Len(replayed)
      BY <2>2, <1>2
    <3>2. PICK y \in Actions :
            names[y] = reply.actions[i] /\ ApplyAction(model, replayed[i], y) = replayed[i + 1]
      BY <3>1, <1>4 DEF AdapterInv, ReplayInv, Follows
    <3> QED  BY <3>1, <3>2, <1>3
  <2> QED  BY <2>1, <2>2, <1>2
<1>7. ReplayInv'
  <2>1. replayed'[1] = model'.init
    BY <1>2, <1>3, <1>4 DEF AdapterInv, ReplayInv
  <2> QED  BY <2>1, <1>2, <1>3, <1>4, <1>6 DEF AdapterInv, ReplayInv
<1>8. outcome.status = "pending"
  BY <1>2 DEF AdapterInv
<1> QED  BY <1>2, <1>4, <1>7, <1>8 DEF AdapterInv, ReportInv

(* Normalisation starts the replay at the initial state.                   *)
LEMMA NormalizeStarts ==
  ASSUME AdapterInv, Normalize
  PROVE  AdapterInv'
<1>1. replayed = <<>> /\ UNCHANGED <<model, names, query, plan, backend, depth, reply>>
  BY DEF AdapterInv, Normalize, arguments
<1>2. CASE reply.level \subseteq Levels /\ reply.actions # <<>>
  <2>1. replayed' = <<model.init>> /\ pc' = "replay" /\ outcome' = outcome
    BY <1>2 DEF Normalize
  <2>2. model.init \in States /\ Len(reply.actions) \in Nat
    BY DEF AdapterInv, ReplayInv, ModelType
  <2>3. /\ replayed' \in Seq(States) /\ Len(replayed') = 1 /\ replayed'[1] = model.init
        /\ replayed' # <<>>
    BY <2>1, <2>2
  <2>4. Follows(replayed, reply.actions)'
    BY <2>3 DEF Follows
  <2>5. outcome.status = "pending"
    BY DEF AdapterInv, Normalize
  <2> QED  BY <1>1, <1>2, <2>1, <2>2, <2>3, <2>4, <2>5 DEF AdapterInv, ReplayInv, ReportInv
<1>3. CASE reply.level \subseteq Levels /\ reply.actions = <<>>
  <2>1. replayed' = <<>> /\ pc' = "replay" /\ outcome' = outcome
    BY <1>3 DEF Normalize
  <2> QED  BY <1>1, <1>3, <2>1 DEF AdapterInv, ReplayInv, ReportInv, Normalize
<1>4. CASE ~(reply.level \subseteq Levels)
  BY <1>1, <1>4 DEF AdapterInv, ReplayInv, ReportInv, Normalize, Error, Answer
<1> QED  BY <1>2, <1>3, <1>4

(* An answer that is no FAIL keeps the invariant.                          *)
LEMMA OtherAnswers ==
  ASSUME AdapterInv, NEW v, NEW l, NEW t, Answer(v, l, t), v # "fail",
         UNCHANGED <<arguments, depth, reply, replayed>>
  PROVE  AdapterInv'
  BY DEF AdapterInv, ReplayInv, ReportInv, Follows, ApplyAction, Answer, arguments

(* A FAIL is reported when the replay has reached its end.                 *)
LEMMA FailReports ==
  ASSUME AdapterInv, ReportFail
  PROVE  AdapterInv'
<1>1. CASE replayed = <<>>
  BY <1>1, OtherAnswers DEF ReportFail, Error
<1>2. CASE replayed # <<>>
  <2>1. /\ Answer("fail", Level, replayed)
        /\ UNCHANGED <<arguments, depth, reply, replayed>>
    BY <1>2 DEF ReportFail
  <2>2. Len(replayed) = Len(reply.actions) + 1
    BY <1>2 DEF ReportFail, ReplayDone, Position, AdapterInv, ReplayInv
  <2> QED  BY <1>2, <2>1, <2>2
           DEF AdapterInv, ReplayInv, ReportInv, Follows, ApplyAction, Answer, arguments
<1> QED  BY <1>1, <1>2

(* The reply to a question is a list of action ids.                        *)
LEMMA AssignmentReplies ==
  ASSUME AdapterInv, FindAssignment
  PROVE  AdapterInv'
<1>1. PICK choice \in [1..depth -> Actions] :
        reply' = [status |-> "FAIL", actions |-> [i \in 1..depth |-> names[choice[i]]],
                  level |-> {"bounded"}, why |-> {}]
  BY DEF FindAssignment, Assignments
<1>2. names \in [Actions -> Actions] /\ depth \in Nat
  BY DEF AdapterInv
<1>3. [i \in 1..depth |-> names[choice[i]]] \in Seq(Ids)
  BY <1>2 DEF Ids
<1>4. reply'.actions \in Seq(Ids)
  BY <1>1, <1>3
<1> QED  BY <1>4 DEF FindAssignment, CanAsk, AdapterInv, ReplayInv, ReportInv, arguments

(* What a command prints is a list of action ids as well.                  *)
LEMMA CommandReplies ==
  ASSUME AdapterInv, RunCommand
  PROVE  AdapterInv'
<1>1. reply'.actions \in Seq(Ids)
  BY AdapterAssumption DEF RunCommand, ReplyType, Ids
<1> QED  BY <1>1 DEF RunCommand, AdapterInv, ReplayInv, ReportInv, arguments

(* mock-bmc does not speak the protocol.                                   *)
LEMMA DelegateKeeps ==
  ASSUME AdapterInv, DelegateToExplicit
  PROVE  AdapterInv'
<1>1. backend' \notin Protocol
  BY DEF DelegateToExplicit, Protocol, Encoded, arguments
<1>2. pc' = "done" /\ UNCHANGED <<model, names, depth, reply, replayed>>
  BY DEF DelegateToExplicit, Answer, arguments
<1> QED  BY <1>1, <1>2 DEF AdapterInv, ReplayInv, ReportInv, Follows, ApplyAction

(* Every step of an adapter keeps the invariant.                           *)
LEMMA AdapterStep == AdapterInv /\ [Next]_vars => AdapterInv'
<1> SUFFICES ASSUME AdapterInv, [Next]_vars PROVE AdapterInv'
  OBVIOUS
<1>1. CASE RejectKind
  BY <1>1, OtherAnswers DEF RejectKind, Error
<1>2. CASE FindAssignment
  BY <1>2, AssignmentReplies
<1>3. CASE Deepen
  BY <1>3 DEF Deepen, CanAsk, AdapterInv, ReplayInv, ReportInv, arguments
<1>4. CASE ReachHorizon
  BY <1>4 DEF ReachHorizon, CanAsk, AdapterInv, ReplayInv, ReportInv, arguments
<1>5. CASE SayUnknown
  BY <1>5 DEF SayUnknown, CanAsk, AdapterInv, ReplayInv, ReportInv, arguments
<1>6. CASE SolverFails
  BY <1>6, OtherAnswers DEF SolverFails, Error
<1>7. CASE RunCommand
  BY <1>7, CommandReplies
<1>8. CASE Normalize
  BY <1>8, NormalizeStarts
<1>9. CASE ReplayStep
  BY <1>9, ReplayExtends
<1>10. CASE RefuseReplay
  BY <1>10, OtherAnswers DEF RefuseReplay, Error
<1>11. CASE ReportPass
  BY <1>11, OtherAnswers DEF ReportPass
<1>12. CASE ReportFail
  BY <1>12, FailReports
<1>13. CASE ReportUnknown
  <2>1. CASE reply.why \subseteq UnknownReasons
    BY <1>13, <2>1, OtherAnswers DEF ReportUnknown
  <2>2. CASE ~(reply.why \subseteq UnknownReasons)
    BY <1>13, <2>2, OtherAnswers DEF ReportUnknown, Error
  <2> QED BY <2>1, <2>2
<1>14. CASE RejectStatus
  BY <1>14, OtherAnswers DEF RejectStatus, Error
<1>15. CASE DelegateToExplicit
  BY <1>15, DelegateKeeps
<1>16. CASE UNCHANGED vars
  BY <1>16 DEF vars, arguments, AdapterInv, ReplayInv, ReportInv, Follows, ApplyAction
<1> QED  BY <1>1, <1>2, <1>3, <1>4, <1>5, <1>6, <1>7, <1>8, <1>9, <1>10, <1>11, <1>12,
            <1>13, <1>14, <1>15, <1>16 DEF Next

(* The invariant is as strong as the property.                             *)
LEMMA AdapterInvSuffices == AdapterInv => FailIsReplayable
<1> SUFFICES ASSUME AdapterInv, backend \in Protocol, outcome.status = "fail"
             PROVE  /\ Len(outcome.trace) = Len(reply.actions) + 1
                    /\ Len(outcome.trace) > 1
                    /\ outcome.trace[1] = model.init
                    /\ Follows(outcome.trace, reply.actions)
  BY DEF FailIsReplayable, Follows
<1>1. /\ outcome.trace = replayed /\ replayed # <<>>
      /\ Len(replayed) = Len(reply.actions) + 1
      /\ reply.actions \in Seq(Ids) /\ reply.actions # <<>>
      /\ replayed[1] = model.init /\ Follows(replayed, reply.actions)
  BY DEF AdapterInv, ReplayInv, ReportInv
<1>2. Len(reply.actions) > 0
  BY <1>1
<1> QED  BY <1>1, <1>2

(* The replay is a run of the model, and a FAIL reports all of it.         *)
LEMMA Adapts == Spec => []AdapterInv
<1> QED  BY AdapterInit, AdapterStep, PTL DEF Spec

(* Whatever a solver or a command prints, a FAIL that normalize_protocol_- *)
(* result lets through comes with a run of the model from its initial      *)
(* state that takes the actions it named.                                  *)
THEOREM FailsAreReplayable == Spec => []FailIsReplayable
BY Adapts, AdapterInvSuffices, PTL
-------------------------------------------------------------------------------
(* What the encodings answer.  No depth below the one asked about has an   *)
(* assignment; what is replayed is the run of the assignment found, al-    *)
(* though only its names were printed.                                     *)
Retraced(choice) == \A i \in 1..Len(replayed) : replayed[i] = Run(choice)[i - 1]

Barren == \A k \in Nat : k < depth => Assignments(k) = {}

Found ==
  \E choice \in Assignments(depth) :
    reply.actions = [i \in 1..depth |-> names[choice[i]]] /\ Retraced(choice)

ReplyMeans ==
  /\ reply.status = "FAIL" => Found /\ reply.level = {"bounded"}
  /\ reply.status = "PASS" =>
       /\ depth >= Horizon /\ Assignments(depth) = {}
       /\ reply.actions = <<>> /\ reply.level = {"bounded"}

Stage ==
  /\ pc = "ask" => reply = NoReply
  /\ pc \in {"normalize", "replay"} =>
       \/ reply.status \in {"FAIL", "PASS"}
       \/ backend = "smt-cvc5" /\ reply.status = "UNKNOWN"

OutcomeMeans ==
  /\ outcome.status = "fail" => reply.status = "FAIL"
  /\ outcome.status = "pass" => reply.status = "PASS" /\ outcome.assurance = "bounded"

(* What sat-varisat is asked where it cannot fail, but for a violation in  *)
(* the initial state.                                                      *)
Decidable == backend = "sat-varisat" /\ query.kind = "invariant" /\ Distinct(names)

NeverFails ==
  Decidable /\ pc = "done" =>
    \/ outcome.status \in {"pass", "fail"}
    \/ outcome.status = "error" /\ model.init \notin query.holds

SolverInv ==
  backend \in Encoded =>
    /\ plan \in PlanType /\ depth <= Horizon
    /\ Barren /\ ReplyMeans /\ Stage /\ OutcomeMeans /\ NeverFails

(* What Run builds, up to the n-th step of a choice.                       *)
IsRunTo(choice, n, f) ==
  f = [i \in 0..n |->
         IF i = 0 THEN model.init
         ELSE IF f[i - 1] \in States THEN ApplyAction(model, f[i - 1], choice[i])
         ELSE f[i - 1]]

(* There is such a run to every step.                                      *)
LEMMA RunsExist ==
  ASSUME NEW choice, NEW k \in Nat
  PROVE  \E f : IsRunTo(choice, k, f)
<1> DEFINE T == {n \in Nat : \E f : IsRunTo(choice, n, f)}
<1>1. 0 \in T
  <2> DEFINE f == [i \in 0..0 |-> model.init]
  <2>1. \A i \in 0..0 : i = 0
    OBVIOUS
  <2>2. IsRunTo(choice, 0, f)
    BY <2>1 DEF IsRunTo
  <2> QED BY <2>2
<1>2. ASSUME NEW n \in T PROVE n + 1 \in T
  <2> PICK f : IsRunTo(choice, n, f)
    OBVIOUS
  <2> DEFINE last == IF f[n] \in States THEN ApplyAction(model, f[n], choice[n + 1]) ELSE f[n]
             g == [i \in 0..(n + 1) |-> IF i = n + 1 THEN last ELSE f[i]]
  <2>1. \A i \in 0..n :
          f[i] = IF i = 0 THEN model.init
                 ELSE IF f[i - 1] \in States THEN ApplyAction(model, f[i - 1], choice[i])
                 ELSE f[i - 1]
    BY DEF IsRunTo
  <2>2. ASSUME NEW i \in 0..(n + 1)
        PROVE  g[i] = IF i = 0 THEN model.init
                      ELSE IF g[i - 1] \in States THEN ApplyAction(model, g[i - 1], choice[i])
                      ELSE g[i - 1]
    <3>1. CASE i = n + 1
      <4>1. g[i] = last /\ i # 0 /\ i - 1 = n /\ g[i - 1] = f[n]
        BY <3>1
      <4> QED BY <3>1, <4>1
    <3>2. CASE i \in 0..n
      <4>1. g[i] = f[i] /\ (i # 0 => g[i - 1] = f[i - 1])
        BY <3>2
      <4> HIDE DEF g
      <4> QED BY <2>1, <3>2, <4>1
    <3> QED BY <3>1, <3>2
  <2>3. IsRunTo(choice, n + 1, g)
    <3>1. g = [i \in 0..(n + 1) |-> g[i]]
      OBVIOUS
    <3> HIDE DEF g
    <3> QED BY <2>2, <3>1 DEF IsRunTo
  <2> QED BY <2>3
<1>3. T = Nat
  <2> HIDE DEF T
  <2>1. T \in SUBSET Nat
    BY DEF T
  <2> QED BY <1>1, <1>2, <2>1, InductionInSetForm
<1> QED BY <1>3

(* A run begins in the initial state and goes where the choice leads.      *)
LEMMA RunSteps ==
  ASSUME NEW choice, Len(choice) \in Nat
  PROVE  /\ Run(choice)[0] = model.init
         /\ \A i \in 1..Len(choice) :
              Run(choice)[i] = IF Run(choice)[i - 1] \in States
                               THEN ApplyAction(model, Run(choice)[i - 1], choice[i])
                               ELSE Run(choice)[i - 1]
<1> DEFINE at == CHOOSE f : IsRunTo(choice, Len(choice), f)
<1>1. IsRunTo(choice, Len(choice), at)
  BY RunsExist
<1>2. Run(choice) = at
  BY DEF Run, IsRunTo
<1> HIDE DEF at
<1>3. 0 \in 0..Len(choice) /\ \A i \in 1..Len(choice) : i \in 0..Len(choice) /\ i # 0
  OBVIOUS
<1> QED BY <1>1, <1>2, <1>3 DEF IsRunTo

(* A choice of k transitions is a sequence of them.                        *)
LEMMA ChoiceIsSeq ==
  ASSUME NEW k \in Nat, NEW choice \in [1..k -> Actions]
  PROVE  choice \in Seq(Actions) /\ Len(choice) = k
<1>1. choice \in Seq(Actions)
  OBVIOUS
<1> QED BY <1>1

(* One transition more does not change the run so far.                     *)
LEMMA RunExtends ==
  ASSUME NEW k \in Nat, NEW choice \in [1..k -> Actions], NEW x \in Actions
  PROVE  /\ Append(choice, x) \in [1..(k + 1) -> Actions]
         /\ \A i \in 0..k : Run(Append(choice, x))[i] = Run(choice)[i]
         /\ Run(choice)[k] \in States =>
              Run(Append(choice, x))[k + 1] = ApplyAction(model, Run(choice)[k], x)
<1> DEFINE longer == Append(choice, x)
<1>1. /\ choice \in Seq(Actions) /\ Len(choice) = k
      /\ longer \in Seq(Actions) /\ Len(longer) = k + 1 /\ longer[k + 1] = x
      /\ \A i \in 1..k : longer[i] = choice[i]
  BY ChoiceIsSeq
<1>2. longer \in [1..(k + 1) -> Actions]
  BY <1>1, LenProperties
<1> HIDE DEF longer
<1>0. Len(longer) \in Nat /\ Len(choice) \in Nat
  BY <1>1
<1> DEFINE T == {n \in Nat : n <= k => Run(longer)[n] = Run(choice)[n]}
<1>3. 0 \in T
  BY <1>1, RunSteps
<1>4. ASSUME NEW n \in T PROVE n + 1 \in T
  <2> SUFFICES ASSUME n + 1 <= k PROVE Run(longer)[n + 1] = Run(choice)[n + 1]
    OBVIOUS
  <2>1. /\ Run(longer)[n] = Run(choice)[n] /\ (n + 1) - 1 = n /\ longer[n + 1] = choice[n + 1]
        /\ n + 1 \in 1..Len(longer) /\ n + 1 \in 1..Len(choice)
    BY <1>1
  <2>2. Run(longer)[n + 1] = IF Run(longer)[n] \in States
                             THEN ApplyAction(model, Run(longer)[n], longer[n + 1])
                             ELSE Run(longer)[n]
    <3> DEFINE i == n + 1
    <3>1. i \in 1..Len(longer) /\ i - 1 = n
      BY <2>1
    <3>2. Run(longer)[i] = IF Run(longer)[i - 1] \in States
                           THEN ApplyAction(model, Run(longer)[i - 1], longer[i])
                           ELSE Run(longer)[i - 1]
      <4> HIDE DEF i
      <4> QED BY <1>0, <3>1, RunSteps
    <3> QED BY <3>1, <3>2
  <2>3. Run(choice)[n + 1] = IF Run(choice)[n] \in States
                             THEN ApplyAction(model, Run(choice)[n], choice[n + 1])
                             ELSE Run(choice)[n]
    <3> DEFINE i == n + 1
    <3>1. i \in 1..Len(choice) /\ i - 1 = n
      BY <2>1
    <3>2. Run(choice)[i] = IF Run(choice)[i - 1] \in States
                           THEN ApplyAction(model, Run(choice)[i - 1], choice[i])
                           ELSE Run(choice)[i - 1]
      <4> HIDE DEF i
      <4> QED BY <1>0, <3>1, RunSteps
    <3> QED BY <3>1, <3>2
  <2> QED BY <2>1, <2>2, <2>3
<1>5. T = Nat
  <2> HIDE DEF T
  <2>1. T \in SUBSET Nat
    BY DEF T
  <2> QED BY <1>3, <1>4, <2>1, InductionInSetForm
<1>6. \A i \in 0..k : Run(longer)[i] = Run(choice)[i]
  BY <1>5
<1>7. Run(longer)[k + 1] = IF Run(longer)[k] \in States
                           THEN ApplyAction(model, Run(longer)[k], longer[k + 1])
                           ELSE Run(longer)[k]
  <2>1. k + 1 \in 1..Len(longer) /\ (k + 1) - 1 = k
    BY <1>1
  <2> QED BY <1>1, <2>1, RunSteps
<1> QED BY <1>1, <1>2, <1>6, <1>7 DEF longer

(* A run through states stays as near as it is long.                       *)
LEMMA RunIsNear ==
  ASSUME NEW k \in Nat, NEW choice \in [1..k -> Actions],
         \A i \in 0..k : Run(choice)[i] \in States
  PROVE  Run(choice)[k] \in Within(model, k)
<1> DEFINE T == {n \in Nat : n <= k => Run(choice)[n] \in Within(model, n)}
<1>1. Len(choice) = k
  BY ChoiceIsSeq
<1>2. 0 \in T
  BY <1>1, RunSteps, WithinZero
<1>3. ASSUME NEW n \in T PROVE n + 1 \in T
  <2> SUFFICES ASSUME n + 1 <= k PROVE Run(choice)[n + 1] \in Within(model, n + 1)
    OBVIOUS
  <2>1. /\ n + 1 \in 1..Len(choice) /\ (n + 1) - 1 = n /\ choice[n + 1] \in Actions
        /\ Run(choice)[n] \in States /\ Run(choice)[n + 1] \in States
        /\ Run(choice)[n] \in Within(model, n)
    BY <1>1
  <2>2. Run(choice)[n + 1] = ApplyAction(model, Run(choice)[n], choice[n + 1])
    BY <1>1, <2>1, RunSteps
  <2>3. Run(choice)[n + 1] \in Successors(model, Run(choice)[n])
    BY <2>1, <2>2 DEF Successors
  <2>4. Within(model, n + 1) = Within(model, n) \cup UNION {Successors(model, s) : s \in Within(model, n)}
    BY WithinNext
  <2> QED BY <2>1, <2>3, <2>4
<1>4. T = Nat
  <2> HIDE DEF T
  <2>1. T \in SUBSET Nat
    BY DEF T
  <2> QED BY <1>2, <1>3, <2>1, InductionInSetForm
<1> QED BY <1>4

(* Where no depth below d has an assignment, the invariant holds on all    *)
(* that fewer than d steps reach.                                          *)
LEMMA BarrenHolds ==
  ASSUME model \in ModelType, NEW d \in Nat, \A k \in Nat : k < d => Assignments(k) = {}
  PROVE  \A j \in Nat : j < d => Within(model, j) \subseteq query.holds
<1> DEFINE Clean(k, choice) == \A i \in 0..k : Run(choice)[i] \in States /\ Run(choice)[i] \in query.holds
           LedTo(s, j) == \E k \in 0..j : \E choice \in [1..k -> Actions] :
                          Clean(k, choice) /\ Run(choice)[k] = s
           T == {j \in Nat : j < d => \A s \in Within(model, j) : LedTo(s, j)}
<1>1. 0 \in T
  <2> SUFFICES ASSUME 0 < d, NEW s \in Within(model, 0) PROVE LedTo(s, 0)
    OBVIOUS
  <2> DEFINE none == [i \in 1..0 |-> i]
  <2>1. none \in [1..0 -> Actions]
    OBVIOUS
  <2> HIDE DEF none
  <2>2. Len(none) = 0
    BY <2>1, ChoiceIsSeq
  <2>3. Run(none)[0] = model.init /\ model.init = s /\ model.init \in States
    BY <2>2, RunSteps, WithinZero DEF ModelType
  <2>4. \A i \in 0..0 : i = 0
    OBVIOUS
  <2>5. none \notin Assignments(0)
    OBVIOUS
  <2>6. model.init \in query.holds
    BY <2>1, <2>3, <2>4, <2>5 DEF Assignments
  <2>7. Clean(0, none) /\ Run(none)[0] = s
    BY <2>3, <2>4, <2>6
  <2>8. 0 \in 0..0
    OBVIOUS
  <2> HIDE DEF Clean
  <2> QED BY <2>1, <2>7, <2>8
<1>2. ASSUME NEW j \in T PROVE j + 1 \in T
  <2> SUFFICES ASSUME j + 1 < d, NEW t \in Within(model, j + 1) PROVE LedTo(t, j + 1)
    OBVIOUS
  <2>0. \A s \in Within(model, j) : LedTo(s, j)
    OBVIOUS
  <2>1. CASE t \in Within(model, j)
    <3>1. LedTo(t, j)
      BY <2>0, <2>1
    <3>2. \A k \in 0..j : k \in 0..(j + 1)
      OBVIOUS
    <3> QED BY <3>1, <3>2
  <2>2. ASSUME NEW s \in Within(model, j), t \in Successors(model, s) PROVE LedTo(t, j + 1)
    <3> PICK k \in 0..j : \E choice \in [1..k -> Actions] : Clean(k, choice) /\ Run(choice)[k] = s
      BY <2>0
    <3> PICK choice \in [1..k -> Actions] : Clean(k, choice) /\ Run(choice)[k] = s
      OBVIOUS
    <3> PICK x \in Actions : t = ApplyAction(model, s, x) /\ t \in States
      BY <2>2 DEF Successors
    <3> DEFINE longer == Append(choice, x)
    <3>1. /\ longer \in [1..(k + 1) -> Actions]
          /\ \A i \in 0..k : Run(longer)[i] = Run(choice)[i]
          /\ Run(longer)[k + 1] = t
      BY RunExtends
    <3> HIDE DEF longer
    <3>2. k + 1 \in 0..(j + 1) /\ k + 1 < d /\ k + 1 \in Nat /\ (k + 1) - 1 = k
      OBVIOUS
    <3>3. \A i \in 0..(k + 1) : i \in 0..k \/ i = k + 1
      OBVIOUS
    <3>4. \A i \in 0..(k + 1) : Run(longer)[i] \in States
      BY <3>1, <3>3
    <3>5. \A i \in 0..k : Run(longer)[i] \in query.holds
      BY <3>1
    <3>6. t \in query.holds
      <4>1. longer \notin Assignments(k + 1)
        BY <3>2
      <4> QED BY <3>1, <3>2, <3>4, <3>5, <4>1 DEF Assignments
    <3>7. Clean(k + 1, longer)
      BY <3>1, <3>3, <3>4, <3>5, <3>6
    <3> QED BY <3>1, <3>2, <3>7
  <2> QED BY <2>1, <2>2, WithinNext
<1>3. T = Nat
  <2> HIDE DEF T
  <2>1. T \in SUBSET Nat
    BY DEF T
  <2> QED BY <1>1, <1>2, <2>1, InductionInSetForm
<1>4. ASSUME NEW j \in Nat, j < d, NEW s \in Within(model, j) PROVE s \in query.holds
  <2>1. LedTo(s, j)
    BY <1>3, <1>4
  <2> QED BY <2>1
<1> QED BY <1>4

(* The horizon is a number of steps.                                       *)
LEMMA HorizonIsNat ==
  ASSUME plan \in PlanType
  PROVE  Horizon \in Nat
<1>1. plan.max_depth \in Optional(Nat)
  BY DEF PlanType
<1>2. plan.max_depth # {} => Horizon \in plan.max_depth /\ plan.max_depth \subseteq Nat
  BY <1>1 DEF Horizon, Optional
<1>3. plan.max_depth = {} => Horizon = SolverHorizon
  BY DEF Horizon
<1> QED BY <1>2, <1>3, AdapterAssumption

(* What is asked does not change while it is answered.                     *)
LEMMA SameQuestion ==
  ASSUME UNCHANGED arguments
  PROVE  /\ backend' = backend /\ plan' = plan /\ names' = names
         /\ Horizon' = Horizon
         /\ \A choice : Run(choice)' = Run(choice)
         /\ \A k : Assignments(k)' = Assignments(k)
         /\ Decidable' = Decidable
  BY DEF arguments, Horizon, Assignments, Run, ApplyAction, Decidable

(* Nothing has been asked yet.                                             *)
LEMMA SolverInit == Init => SolverInv
<1> SUFFICES ASSUME Init PROVE SolverInv
  OBVIOUS
<1>1. plan \in PlanType
  BY AdapterAssumption DEF Init, InputType
<1>2. Horizon \in Nat
  BY <1>1, HorizonIsNat
<1>3. depth = 0 /\ reply = NoReply /\ pc = "ask" /\ outcome = Pending
  BY DEF Init
<1>4. Barren
  BY <1>3 DEF Barren
<1>5. ReplyMeans /\ Stage /\ OutcomeMeans /\ NeverFails
  BY <1>3 DEF ReplyMeans, Stage, OutcomeMeans, NeverFails, NoReply, Pending
<1> QED BY <1>1, <1>2, <1>3, <1>4, <1>5 DEF SolverInv

(* An answer keeps the invariant when it says what the reply said.         *)
LEMMA AnswerSettles ==
  ASSUME SolverInv, backend \in Encoded, NEW v, NEW l, NEW t, Answer(v, l, t),
         UNCHANGED <<arguments, depth, reply, replayed>>,
         v = "fail" => reply.status = "FAIL",
         v = "pass" => reply.status = "PASS" /\ l = "bounded",
         Decidable => v \in {"pass", "fail"} \/ (v = "error" /\ model.init \notin query.holds)
  PROVE  SolverInv'
<1>1. /\ UNCHANGED arguments /\ depth' = depth /\ reply' = reply /\ replayed' = replayed
      /\ pc' = "done" /\ outcome'.status = v /\ outcome'.assurance = l
      /\ UNCHANGED <<model, query>>
  BY DEF Answer, arguments
<1>2. /\ plan' = plan /\ names' = names /\ Horizon' = Horizon
      /\ \A choice : Run(choice)' = Run(choice)
      /\ \A k : Assignments(k)' = Assignments(k)
      /\ Decidable' = Decidable
  BY <1>1, SameQuestion
<1>3. plan \in PlanType /\ depth <= Horizon /\ Barren /\ ReplyMeans
  BY DEF SolverInv
<1>4. Barren'
  BY <1>1, <1>2, <1>3 DEF Barren
<1>5. Found => Found'
  BY <1>1, <1>2 DEF Found, Retraced
<1>6. ReplyMeans'
  BY <1>1, <1>2, <1>3, <1>5 DEF ReplyMeans
<1>7. Stage' /\ OutcomeMeans' /\ NeverFails'
  BY <1>1, <1>2 DEF Stage, OutcomeMeans, NeverFails
<1> QED BY <1>1, <1>2, <1>3, <1>4, <1>6, <1>7 DEF SolverInv

(* An error keeps it, where an error is possible.                          *)
LEMMA ErrorSettles ==
  ASSUME SolverInv, backend \in Encoded, Error, Decidable => model.init \notin query.holds,
         UNCHANGED <<arguments, depth, reply, replayed>>
  PROVE  SolverInv'
  BY AnswerSettles DEF Error

(* A reply to a question keeps it when it means what it says.              *)
LEMMA ReplySettles ==
  ASSUME SolverInv, AdapterInv, backend \in Encoded, CanAsk, pc' = "normalize",
         UNCHANGED <<arguments, depth, replayed, outcome>>,
         ReplyMeans',
         \/ reply'.status \in {"FAIL", "PASS"}
         \/ backend = "smt-cvc5" /\ reply'.status = "UNKNOWN"
  PROVE  SolverInv'
<1>1. /\ UNCHANGED arguments /\ depth' = depth /\ outcome' = outcome /\ pc = "ask"
  BY DEF CanAsk
<1>2. /\ plan' = plan /\ backend' = backend /\ Horizon' = Horizon
      /\ \A k : Assignments(k)' = Assignments(k)
  BY <1>1, SameQuestion
<1>3. plan \in PlanType /\ depth <= Horizon /\ Barren
  BY DEF SolverInv
<1>4. Barren'
  BY <1>1, <1>2, <1>3 DEF Barren
<1>5. outcome'.status = "pending"
  BY <1>1 DEF AdapterInv
<1>6. Stage' /\ OutcomeMeans' /\ NeverFails'
  BY <1>2, <1>5 DEF Stage, OutcomeMeans, NeverFails
<1> QED BY <1>1, <1>2, <1>3, <1>4, <1>6 DEF SolverInv

(* A satisfiable depth is answered with the names of its assignment.       *)
LEMMA AssignmentFound ==
  ASSUME SolverInv, AdapterInv, FindAssignment
  PROVE  SolverInv'
<1>1. /\ CanAsk /\ backend \in Encoded /\ pc' = "normalize"
      /\ UNCHANGED <<arguments, depth, replayed, outcome>> /\ pc = "ask"
  BY DEF FindAssignment, CanAsk
<1>2. PICK choice \in Assignments(depth) :
        reply' = [status |-> "FAIL", actions |-> [i \in 1..depth |-> names[choice[i]]],
                  level |-> {"bounded"}, why |-> {}]
  BY DEF FindAssignment
<1>3. depth' = depth /\ names' = names /\ \A k : Assignments(k)' = Assignments(k)
  BY <1>1, SameQuestion
<1>4. replayed' = <<>>
  BY <1>1 DEF AdapterInv
<1>5. Retraced(choice)'
  BY <1>4 DEF Retraced
<1>6. Found'
  <2>1. choice \in Assignments(depth)' /\ reply'.actions = [i \in 1..depth |-> names[choice[i]]]
    BY <1>2, <1>3
  <2> QED BY <1>3, <1>5, <2>1 DEF Found
<1>7. ReplyMeans'
  BY <1>2, <1>6 DEF ReplyMeans
<1> QED BY <1>1, <1>2, <1>7, ReplySettles

(* An unsatisfiable depth is left behind.                                  *)
LEMMA DepthIsBarren ==
  ASSUME SolverInv, AdapterInv, Deepen
  PROVE  SolverInv'
<1>1. /\ UNCHANGED arguments /\ reply' = reply /\ pc' = pc /\ outcome' = outcome
      /\ pc = "ask" /\ backend \in Encoded /\ depth < Horizon /\ depth' = depth + 1
      /\ Assignments(depth) = {}
  BY DEF Deepen, CanAsk
<1>2. /\ plan' = plan /\ Horizon' = Horizon /\ backend' = backend
      /\ \A k : Assignments(k)' = Assignments(k)
  BY <1>1, SameQuestion
<1>3. plan \in PlanType /\ Barren /\ Stage /\ OutcomeMeans /\ depth \in Nat
  BY <1>1 DEF SolverInv, AdapterInv
<1>4. Horizon \in Nat /\ depth' <= Horizon'
  BY <1>1, <1>2, <1>3, HorizonIsNat
<1>5. Barren'
  <2>1. \A k \in Nat : k < depth + 1 => k < depth \/ k = depth
    BY <1>3
  <2> QED BY <1>1, <1>2, <1>3, <2>1 DEF Barren
<1>6. reply' = NoReply /\ pc' = "ask" /\ outcome'.status = "pending"
  BY <1>1, <1>3 DEF Stage, AdapterInv
<1>7. ReplyMeans' /\ Stage' /\ OutcomeMeans' /\ NeverFails'
  BY <1>6 DEF ReplyMeans, Stage, OutcomeMeans, NeverFails, NoReply
<1> QED BY <1>2, <1>3, <1>4, <1>5, <1>7 DEF SolverInv

(* No depth has an assignment, up to the horizon and with it.              *)
LEMMA HorizonIsBarren ==
  ASSUME SolverInv, AdapterInv, ReachHorizon
  PROVE  SolverInv'
<1>1. /\ CanAsk /\ backend \in Encoded /\ pc' = "normalize"
      /\ UNCHANGED <<arguments, depth, replayed, outcome>>
      /\ Assignments(depth) = {} /\ depth >= Horizon
      /\ reply' = [status |-> "PASS", actions |-> <<>>, level |-> {"bounded"}, why |-> {}]
  BY DEF ReachHorizon, CanAsk
<1>2. depth' = depth /\ Horizon' = Horizon /\ \A k : Assignments(k)' = Assignments(k)
  BY <1>1, SameQuestion
<1>3. ReplyMeans'
  BY <1>1, <1>2 DEF ReplyMeans
<1> QED BY <1>1, <1>3, ReplySettles

(* cvc5 gave up: nothing is claimed.                                       *)
LEMMA UnknownIsSaid ==
  ASSUME SolverInv, AdapterInv, SayUnknown
  PROVE  SolverInv'
<1>1. /\ CanAsk /\ backend \in Encoded /\ backend = "smt-cvc5" /\ pc' = "normalize"
      /\ UNCHANGED <<arguments, depth, replayed, outcome>>
      /\ reply' = [status |-> "UNKNOWN", actions |-> <<>>, level |-> {"incomplete"},
                   why |-> {"ENGINE_ABORTED"}]
  BY DEF SayUnknown, CanAsk
<1>2. ReplyMeans'
  BY <1>1 DEF ReplyMeans
<1> QED BY <1>1, <1>2, ReplySettles

(* The replay of a found run starts where the run does.                    *)
LEMMA RetraceStarts ==
  ASSUME SolverInv, AdapterInv, backend \in Encoded, Normalize
  PROVE  SolverInv'
<1>1. /\ UNCHANGED arguments /\ depth' = depth /\ reply' = reply /\ pc = "normalize"
  BY DEF Normalize
<1>2. plan \in PlanType /\ depth <= Horizon /\ Barren /\ ReplyMeans /\ Stage
  BY DEF SolverInv
<1>3. CASE reply.level \subseteq Levels
  <2>1. /\ replayed' = IF reply.actions = <<>> THEN <<>> ELSE <<model.init>>
        /\ pc' = "replay" /\ outcome' = outcome
    BY <1>3 DEF Normalize
  <2>2. /\ plan' = plan /\ backend' = backend /\ names' = names /\ Horizon' = Horizon
        /\ \A choice : Run(choice)' = Run(choice)
        /\ \A k : Assignments(k)' = Assignments(k)
    BY <1>1, SameQuestion
  <2>3. Barren'
    BY <1>1, <1>2, <2>2 DEF Barren
  <2>4. ASSUME Found PROVE Found'
    <3> PICK choice \in Assignments(depth) :
          reply.actions = [i \in 1..depth |-> names[choice[i]]]
      BY <2>4 DEF Found
    <3>1. depth \in Nat /\ choice \in [1..depth -> Actions]
      BY DEF AdapterInv, Assignments
    <3>2. Run(choice)[0] = model.init
      BY <3>1, ChoiceIsSeq, RunSteps
    <3>3. Retraced(choice)'
      <4>1. CASE replayed' = <<>>
        BY <4>1 DEF Retraced
      <4>2. CASE replayed' = <<model.init>>
        <5>1. Len(replayed') = 1 /\ replayed'[1] = model.init /\ \A i \in 1..1 : i = 1 /\ i - 1 = 0
          BY <4>2
        <5> QED BY <2>2, <3>2, <5>1 DEF Retraced
      <4> QED BY <2>1, <4>1, <4>2
    <3> QED BY <1>1, <2>2, <3>3 DEF Found
  <2>5. ReplyMeans'
    BY <1>1, <1>2, <2>2, <2>4 DEF ReplyMeans
  <2>6. outcome'.status = "pending"
    BY <1>1, <2>1 DEF AdapterInv
  <2>7. Stage' /\ OutcomeMeans' /\ NeverFails'
    BY <1>1, <1>2, <2>1, <2>2, <2>6 DEF Stage, OutcomeMeans, NeverFails
  <2> QED BY <1>1, <1>2, <2>2, <2>3, <2>5, <2>7 DEF SolverInv
<1>4. CASE ~(reply.level \subseteq Levels)
  <2>1. Error /\ replayed' = replayed
    BY <1>4 DEF Normalize
  <2>2. ~Decidable
    BY <1>1, <1>2, <1>4 DEF Decidable, Stage, ReplyMeans, Levels
  <2> QED BY <1>1, <2>1, <2>2, ErrorSettles
<1> QED BY <1>3, <1>4

(* Among the variants of a printed name is the step the solver chose.      *)
LEMMA ChosenIsVariant ==
  ASSUME SolverInv, AdapterInv, Replaying,
         NEW choice \in Assignments(depth),
         reply.actions = [i \in 1..depth |-> names[choice[i]]], Retraced(choice)
  PROVE  /\ Position \in 1..depth
         /\ choice[Position] \in Actions
         /\ reply.actions[Position] = names[choice[Position]]
         /\ replayed[Position] = Run(choice)[Position - 1]
         /\ ApplyAction(model, replayed[Position], choice[Position]) = Run(choice)[Position]
         /\ Run(choice)[Position] \in States
         /\ Run(choice)[Position] \in Led(reply.actions[Position])
<1>1. depth \in Nat /\ choice \in [1..depth -> Actions] /\ Len(reply.actions) = depth
      /\ \A i \in 0..depth : Run(choice)[i] \in States
  BY DEF AdapterInv, Assignments
<1>2. Len(replayed) \in Nat
  BY DEF AdapterInv, ReplayInv
<1>3. Position \in 1..depth /\ Position = Len(replayed)
  BY <1>1, <1>2 DEF Replaying, Position
<1>4. choice[Position] \in Actions /\ reply.actions[Position] = names[choice[Position]]
  BY <1>1, <1>3
<1>5. replayed[Position] = Run(choice)[Position - 1]
  BY <1>3 DEF Retraced
<1>6. Position - 1 \in 0..depth /\ Position \in 0..depth
  BY <1>1, <1>3
<1>7. Run(choice)[Position - 1] \in States /\ Run(choice)[Position] \in States
  BY <1>1, <1>6
<1>8. Len(choice) = depth /\ Len(choice) \in Nat
  BY <1>1, ChoiceIsSeq
<1>9. Run(choice)[Position] = ApplyAction(model, Run(choice)[Position - 1], choice[Position])
  BY <1>3, <1>7, <1>8, RunSteps
<1>10. Run(choice)[Position] # Disabled
  BY <1>7, StatesAssumption
<1>11. Run(choice)[Position] \in Variants(replayed[Position], reply.actions[Position])
  BY <1>4, <1>5, <1>9, <1>10 DEF Variants
<1> QED BY <1>3, <1>4, <1>5, <1>7, <1>9, <1>11 DEF Led

(* A replayed step is the one the solver chose.                            *)
LEMMA RetraceGoesOn ==
  ASSUME SolverInv, AdapterInv, backend \in Encoded, ReplayStep
  PROVE  SolverInv'
<1>1. /\ UNCHANGED arguments /\ depth' = depth /\ reply' = reply /\ pc = "replay"
      /\ pc' = pc /\ outcome' = outcome /\ Replaying
  BY DEF ReplayStep, Replaying
<1>2. PICK t \in States :
        Led(reply.actions[Position]) = {t} /\ replayed' = Append(replayed, t)
  BY DEF ReplayStep
<1>3. plan \in PlanType /\ depth <= Horizon /\ Barren /\ ReplyMeans /\ Stage
      /\ OutcomeMeans /\ NeverFails
  BY DEF SolverInv
<1>4. /\ plan' = plan /\ backend' = backend /\ names' = names /\ Horizon' = Horizon
      /\ \A choice : Run(choice)' = Run(choice)
      /\ \A k : Assignments(k)' = Assignments(k)
      /\ Decidable' = Decidable
  BY <1>1, SameQuestion
<1>5. Barren'
  BY <1>1, <1>3, <1>4 DEF Barren
<1>6. ASSUME Found PROVE Found'
  <2> PICK choice \in Assignments(depth) :
        reply.actions = [i \in 1..depth |-> names[choice[i]]] /\ Retraced(choice)
    BY <1>6 DEF Found
  <2>1. Run(choice)[Position] = t
    BY <1>1, <1>2, ChosenIsVariant
  <2>2. replayed \in Seq(States)
    BY DEF AdapterInv, ReplayInv
  <2>3. /\ Len(replayed) \in Nat /\ Len(replayed') = Len(replayed) + 1
        /\ replayed'[Len(replayed) + 1] = t
        /\ \A i \in 1..Len(replayed) : replayed'[i] = replayed[i]
    BY <1>2, <2>2
  <2>4. ASSUME NEW i \in 1..Len(replayed') PROVE replayed'[i] = Run(choice)[i - 1]
    <3>1. CASE i \in 1..Len(replayed)
      BY <2>3, <3>1 DEF Retraced
    <3>2. CASE i = Len(replayed) + 1
      <4>1. i - 1 = Position
        BY <2>3, <3>2 DEF Position
      <4> QED BY <2>1, <2>3, <3>2, <4>1
    <3> QED BY <2>3, <3>1, <3>2
  <2>5. Retraced(choice)'
    BY <1>4, <2>4 DEF Retraced
  <2> QED BY <1>1, <1>4, <2>5 DEF Found
<1>7. ReplyMeans'
  BY <1>1, <1>3, <1>4, <1>6 DEF ReplyMeans
<1>8. Stage'
  BY <1>1, <1>3, <1>4 DEF Stage
<1>9. OutcomeMeans'
  BY <1>1, <1>3 DEF OutcomeMeans
<1>10. NeverFails'
  BY <1>1 DEF NeverFails
<1> QED BY <1>1, <1>3, <1>4, <1>5, <1>7, <1>8, <1>9, <1>10 DEF SolverInv

(* Where every name is one transition's, the replay is not refused.        *)
LEMMA RefusalIsAmbiguity ==
  ASSUME SolverInv, AdapterInv, backend \in Encoded, RefuseReplay
  PROVE  ~Decidable
<1> SUFFICES ASSUME Decidable PROVE FALSE
  OBVIOUS
<1>1. Replaying /\ pc = "replay" /\ ReplyMeans /\ Stage
      /\ ~ \E t \in States : Led(reply.actions[Position]) = {t}
  BY DEF RefuseReplay, Replaying, SolverInv
<1>2. reply.status # "PASS"
  <2>1. Len(replayed) \in Nat
    BY DEF AdapterInv, ReplayInv
  <2>2. reply.actions # <<>>
    BY <1>1, <2>1 DEF Replaying, Position
  <2> QED BY <1>1, <2>2 DEF ReplyMeans
<1>3. Found
  BY <1>1, <1>2 DEF Stage, ReplyMeans, Decidable
<1> PICK choice \in Assignments(depth) :
      reply.actions = [i \in 1..depth |-> names[choice[i]]] /\ Retraced(choice)
  BY <1>3 DEF Found
<1> DEFINE t == Run(choice)[Position]
           y == choice[Position]
<1>4. /\ y \in Actions /\ reply.actions[Position] = names[y] /\ t \in States
      /\ ApplyAction(model, replayed[Position], y) = t
      /\ t \in Led(reply.actions[Position])
  BY <1>1, ChosenIsVariant
<1> HIDE DEF t, y
<1>5. ASSUME NEW x \in Actions, names[x] = names[y] PROVE x = y
  <2>1. names \in [Actions -> Actions] /\ Distinct(names)
    BY DEF AdapterInv, Decidable
  <2> QED BY <1>4, <1>5, <2>1 DEF Distinct
<1>6. Led(reply.actions[Position]) \subseteq {t}
  BY <1>4, <1>5 DEF Led, Variants
<1> QED BY <1>1, <1>4, <1>6

(* A FAIL is refused only when its run is the initial state.               *)
LEMMA FailHasARun ==
  ASSUME SolverInv, AdapterInv, backend \in Encoded, ReportFail, replayed = <<>>
  PROVE  model.init \notin query.holds
<1>1. pc = "replay" /\ reply.status = "FAIL" /\ reply.actions = <<>>
  BY DEF ReportFail, ReplayDone, AdapterInv
<1>2. Found
  BY <1>1 DEF SolverInv, ReplyMeans
<1> PICK choice \in Assignments(depth) : reply.actions = [i \in 1..depth |-> names[choice[i]]]
  BY <1>2 DEF Found
<1>3. depth \in Nat /\ Len(reply.actions) = depth
  BY DEF AdapterInv
<1>4. depth = 0
  BY <1>1, <1>3
<1>5. choice \in [1..0 -> Actions] /\ Run(choice)[0] \notin query.holds
  BY <1>4 DEF Assignments
<1>6. Run(choice)[0] = model.init
  BY <1>5, ChoiceIsSeq, RunSteps
<1> QED BY <1>5, <1>6

(* Every step of an encoding's adapter keeps the invariant.                *)
LEMMA SolverStep == SolverInv /\ AdapterInv /\ [Next]_vars => SolverInv'
<1> SUFFICES ASSUME SolverInv, AdapterInv, [Next]_vars PROVE SolverInv'
  OBVIOUS
<1>0. UNCHANGED arguments
  BY DEF vars, Next, RejectKind, FindAssignment, Deepen, ReachHorizon, SayUnknown, SolverFails,
         RunCommand, Normalize, ReplayStep, RefuseReplay, ReportPass, ReportFail,
         ReportUnknown, RejectStatus, DelegateToExplicit
<1>00. backend' = backend
  BY <1>0 DEF arguments
<1> SUFFICES ASSUME backend \in Encoded PROVE SolverInv'
  BY <1>00 DEF SolverInv
<1>a. ReplyMeans /\ Stage
  BY DEF SolverInv
<1>1. CASE RejectKind
  BY <1>1, ErrorSettles DEF RejectKind, Decidable
<1>2. CASE FindAssignment
  BY <1>2, AssignmentFound
<1>3. CASE Deepen
  BY <1>3, DepthIsBarren
<1>4. CASE ReachHorizon
  BY <1>4, HorizonIsBarren
<1>5. CASE SayUnknown
  BY <1>5, UnknownIsSaid
<1>6. CASE SolverFails
  BY <1>6, ErrorSettles DEF SolverFails, Decidable, Encoded, CanAsk
<1>7. CASE RunCommand
  BY <1>7 DEF RunCommand, Encoded
<1>8. CASE Normalize
  BY <1>8, RetraceStarts
<1>9. CASE ReplayStep
  BY <1>9, RetraceGoesOn
<1>10. CASE RefuseReplay
  BY <1>10, ErrorSettles, RefusalIsAmbiguity DEF RefuseReplay
<1>11. CASE ReportPass
  <2>1. reply.status = "PASS" /\ Answer("pass", Level, replayed)
        /\ UNCHANGED <<arguments, depth, reply, replayed>>
    BY <1>11 DEF ReportPass
  <2>2. reply.level = {"bounded"}
    BY <1>a, <2>1 DEF ReplyMeans
  <2>3. Level = "bounded"
    BY <2>2 DEF Level
  <2> QED BY <2>1, <2>3, AnswerSettles
<1>12. CASE ReportFail
  <2>1. CASE replayed = <<>>
    BY <1>12, <2>1, ErrorSettles, FailHasARun DEF ReportFail
  <2>2. CASE replayed # <<>>
    BY <1>12, <2>2, AnswerSettles DEF ReportFail
  <2> QED BY <2>1, <2>2
<1>13. CASE ReportUnknown
  <2>1. ~Decidable
    BY <1>13, <1>a DEF ReportUnknown, ReplayDone, Stage, Decidable
  <2>2. \/ Answer("unknown", Level, replayed)
        \/ Error
    BY <1>13 DEF ReportUnknown
  <2>3. UNCHANGED <<arguments, depth, reply, replayed>>
    BY <1>13 DEF ReportUnknown
  <2> QED BY <2>1, <2>2, <2>3, AnswerSettles, ErrorSettles
<1>14. CASE RejectStatus
  <2>1. FALSE
    BY <1>14, <1>a DEF RejectStatus, ReplayDone, Stage, Statuses
  <2> QED BY <2>1
<1>15. CASE DelegateToExplicit
  BY <1>15 DEF DelegateToExplicit, Encoded
<1>16. CASE UNCHANGED vars
  <2>1. /\ depth' = depth /\ reply' = reply /\ replayed' = replayed /\ pc' = pc
        /\ outcome' = outcome
    BY <1>16 DEF vars
  <2>2. /\ plan' = plan /\ names' = names /\ Horizon' = Horizon
        /\ \A choice : Run(choice)' = Run(choice)
        /\ \A k : Assignments(k)' = Assignments(k)
        /\ Decidable' = Decidable
    BY <1>0, SameQuestion
  <2>3. Found => Found'
    BY <2>1, <2>2 DEF Found, Retraced
  <2>4. Barren' /\ ReplyMeans'
    BY <2>1, <2>2, <2>3, <1>a DEF SolverInv, Barren, ReplyMeans
  <2>5. Stage' /\ OutcomeMeans' /\ NeverFails'
    <3>1. UNCHANGED <<model, query>>
      BY <1>0 DEF arguments
    <3> QED BY <2>1, <2>2, <3>1, <1>00 DEF SolverInv, Stage, OutcomeMeans, NeverFails
  <2>6. plan' \in PlanType /\ depth' <= Horizon'
    BY <2>1, <2>2 DEF SolverInv
  <2> QED BY <2>4, <2>5, <2>6 DEF SolverInv
<1> QED BY <1>1, <1>2, <1>3, <1>4, <1>5, <1>6, <1>7, <1>8, <1>9, <1>10, <1>11, <1>12,
           <1>13, <1>14, <1>15, <1>16 DEF Next

(* The answers of the encodings, at every step.                            *)
LEMMA Encodes == Spec => [](AdapterInv /\ SolverInv)
<1>1. Init => AdapterInv /\ SolverInv
  BY AdapterInit, SolverInit
<1>2. (AdapterInv /\ SolverInv) /\ [Next]_vars => (AdapterInv /\ SolverInv)'
  BY AdapterStep, SolverStep
<1> QED BY <1>1, <1>2, PTL DEF Spec

(* A reported FAIL is the run of an assignment at the depth asked about.   *)
LEMMA FailIsAssignment ==
  ASSUME AdapterInv, SolverInv, backend \in Encoded, outcome.status = "fail"
  PROVE  \E choice \in Assignments(depth) :
           /\ Len(outcome.trace) = depth + 1
           /\ \A i \in 1..(depth + 1) : outcome.trace[i] = Run(choice)[i - 1]
<1>1. Found
  BY DEF SolverInv, OutcomeMeans, ReplyMeans
<1> PICK choice \in Assignments(depth) :
      reply.actions = [i \in 1..depth |-> names[choice[i]]] /\ Retraced(choice)
  BY <1>1 DEF Found
<1>2. outcome.trace = replayed /\ Len(replayed) = Len(reply.actions) + 1
  BY DEF AdapterInv, ReportInv, Protocol
<1>3. depth \in Nat /\ Len(reply.actions) = depth
  BY DEF AdapterInv
<1> QED BY <1>2, <1>3 DEF Retraced

(* The counterexample of an encoding is a shortest one.                    *)
LEMMA FailIsShortest == AdapterInv /\ SolverInv => ShortestCounterexample
<1> SUFFICES ASSUME AdapterInv, SolverInv, backend \in Encoded, outcome.status = "fail"
             PROVE  /\ End(outcome.trace) \notin query.holds
                    /\ Within(model, (Len(outcome.trace) - 1) - 1) \subseteq query.holds
  BY DEF ShortestCounterexample
<1> PICK choice \in Assignments(depth) :
      /\ Len(outcome.trace) = depth + 1
      /\ \A i \in 1..(depth + 1) : outcome.trace[i] = Run(choice)[i - 1]
  BY FailIsAssignment
<1>1. depth \in Nat /\ model \in ModelType
  BY DEF AdapterInv
<1>2. depth > 0
  <2>1. FailIsReplayable
    BY AdapterInvSuffices
  <2>2. Len(outcome.trace) > 1
    BY <2>1 DEF FailIsReplayable, Protocol
  <2> QED BY <1>1, <2>2
<1>3. End(outcome.trace) = Run(choice)[depth]
  <2>1. depth + 1 \in 1..(depth + 1) /\ (depth + 1) - 1 = depth
    BY <1>1
  <2> QED BY <2>1 DEF End
<1>4. Run(choice)[depth] \notin query.holds
  BY DEF Assignments
<1>5. \A j \in Nat : j < depth => Within(model, j) \subseteq query.holds
  BY <1>1, BarrenHolds DEF SolverInv, Barren
<1>6. depth - 1 \in Nat /\ depth - 1 < depth /\ (Len(outcome.trace) - 1) - 1 = depth - 1
  BY <1>1, <1>2
<1> QED BY <1>3, <1>4, <1>5, <1>6

(* A bounded PASS has looked at every depth.                               *)
LEMMA PassLookedEverywhere == AdapterInv /\ SolverInv => PassCoversHorizon
<1> SUFFICES ASSUME AdapterInv, SolverInv, backend \in Encoded, outcome.status = "pass"
             PROVE  outcome.assurance = "bounded" /\ Within(model, Horizon) \subseteq query.holds
  BY DEF PassCoversHorizon
<1>1. /\ depth \in Nat /\ model \in ModelType /\ Horizon \in Nat
      /\ outcome.assurance = "bounded" /\ depth >= Horizon /\ Assignments(depth) = {}
      /\ depth <= Horizon /\ Barren
  BY HorizonIsNat DEF AdapterInv, SolverInv, OutcomeMeans, ReplyMeans
<1>2. depth = Horizon
  BY <1>1
<1>3. \A k \in Nat : k < depth + 1 => Assignments(k) = {}
  <2>1. \A k \in Nat : k < depth + 1 => k < depth \/ k = depth
    BY <1>1
  <2> QED BY <1>1, <2>1 DEF Barren
<1>4. depth + 1 \in Nat
  BY <1>1
<1>5. \A j \in Nat : j < depth + 1 => Within(model, j) \subseteq query.holds
  BY <1>1, <1>3, <1>4, BarrenHolds
<1>6. depth < depth + 1
  BY <1>1
<1> QED BY <1>1, <1>2, <1>5, <1>6

(* Whatever assignments the solver of sat-varisat or smt-cvc5 picks, a     *)
(* FAIL ends in a violation that no shorter run reaches, and a PASS speaks *)
(* for every state within the horizon: the answer of an encoding is        *)
(* decided by the states within its horizon, for every model and plan.     *)
THEOREM HorizonCorrect == Spec => []HorizonDecided
<1>1. AdapterInv /\ SolverInv => HorizonDecided
  BY FailIsShortest, PassLookedEverywhere DEF HorizonDecided
<1> QED BY Encodes, <1>1, PTL

(* Where its actions have names of their own, sat-varisat decides the      *)
(* invariant within its horizon: no ambiguity, no unknown, and no error    *)
(* but for a violation in the initial state.                               *)
THEOREM SatCorrect == Spec => []SatDecides
<1>1. ASSUME AdapterInv, SolverInv PROVE SatDecides
  <2> SUFFICES ASSUME Decidable, pc = "done"
               PROVE  outcome.status = IF model.init \notin query.holds THEN "error"
                                       ELSE IF Within(model, Horizon) \subseteq query.holds
                                       THEN "pass" ELSE "fail"
    BY DEF SatDecides, Decidable
  <2>1. backend \in Encoded
    BY DEF Decidable, Encoded
  <2>2. \/ outcome.status \in {"pass", "fail"}
        \/ outcome.status = "error" /\ model.init \notin query.holds
    BY <1>1, <2>1 DEF SolverInv, NeverFails
  <2>i. \A j \in Nat : model.init \in Within(model, j)
    <3> SUFFICES ASSUME NEW j \in Nat PROVE model.init \in Within(model, j)
      OBVIOUS
    <3>1. Within(model, 0) \subseteq Within(model, j) /\ Within(model, 0) = {model.init}
      BY WithinGrows, WithinZero
    <3> QED BY <3>1
  <2>3. CASE outcome.status = "pass"
    <3>1. Within(model, Horizon) \subseteq query.holds /\ Horizon \in Nat
      BY <1>1, <2>1, <2>3, PassLookedEverywhere, HorizonIsNat DEF PassCoversHorizon, SolverInv
    <3> QED BY <2>3, <2>i, <3>1
  <2>4. CASE outcome.status = "fail"
    <3> PICK choice \in Assignments(depth) : TRUE
      BY <1>1, <2>1, <2>4, FailIsAssignment
    <3>1. depth \in Nat /\ model \in ModelType /\ Horizon \in Nat /\ depth <= Horizon
      BY <1>1, <2>1, HorizonIsNat DEF AdapterInv, SolverInv
    <3>2. /\ choice \in [1..depth -> Actions] /\ \A i \in 0..depth : Run(choice)[i] \in States
          /\ Run(choice)[depth] \notin query.holds
      BY DEF Assignments
    <3>3. Run(choice)[depth] \in Within(model, depth)
      BY <3>1, <3>2, RunIsNear
    <3>4. depth \in 0..Horizon
      BY <3>1
    <3>5. Within(model, depth) \subseteq Within(model, Horizon)
      BY <3>1, <3>4, WithinGrows
    <3>6. model.init \in query.holds
      <4>1. /\ Len(outcome.trace) = depth + 1 /\ Len(outcome.trace) > 1
        BY <1>1, <2>1, <2>4, FailIsAssignment, AdapterInvSuffices DEF FailIsReplayable, Protocol
      <4>2. (Len(outcome.trace) - 1) - 1 \in Nat
        BY <3>1, <4>1
      <4>3. Within(model, (Len(outcome.trace) - 1) - 1) \subseteq query.holds
        BY <1>1, <2>1, <2>4, FailIsShortest DEF ShortestCounterexample
      <4> QED BY <2>i, <4>2, <4>3
    <3> QED BY <2>4, <3>2, <3>3, <3>5, <3>6
  <2> QED BY <2>2, <2>3, <2>4
<1> QED BY Encodes, <1>1, PTL
================================================================================
