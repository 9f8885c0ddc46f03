----------------------------- MODULE SolverAdapter -----------------------------
(***************************************************************************)
(* solver::run_with_adapter: the backends other than the explicit search.  *)
(* sat-varisat and smt-cvc5 ask a solver, depth by depth, for a run whose  *)
(* last state is the first to break the invariant; command asks a program  *)
(* that may answer anything.  Their answers are normalised alike: the      *)
(* actions are replayed on the model, and the replay becomes the trace.    *)
(* mock-bmc hands the question to the explicit search, which is            *)
(* represented by what it promises, VerdictContract.                       *)
(* Fault stands for an update that leaves its type: the encodings bound    *)
(* every state, so that to them such an action has no successor.           *)
(***************************************************************************)
EXTENDS TransitionSystem

CONSTANTS
  Inputs,          \* what is asked of which backend: see InputType
  SolverHorizon,   \* the horizon of sat-varisat and smt-cvc5 without max_depth
  MockHorizon,     \* that of mock-bmc
  Replies          \* what an external program may print

Unnamed == 0  \* an action id the model does not have

Statuses == {"PASS", "FAIL", "UNKNOWN"}
Levels == {"complete", "bounded", "incomplete"}

UnknownReasons == {"ENGINE_ABORTED", "STATE_LIMIT_REACHED", "DEPTH_LIMIT_REACHED", "TIME_LIMIT_REACHED"}

(* CommandProtocolResult; status, level and why (the reason of an UNKNOWN) *)
(* may be words nobody knows.                                              *)
ReplyType ==
  [status : STRING, actions : Seq(Actions \cup {Unnamed}), level : Optional(STRING),
   why : Optional(STRING)]

BackendNames == {"sat-varisat", "smt-cvc5", "command", "mock-bmc"}

(* names is the action_id of each transition: several may share one.       *)
InputType ==
  [model : ModelType, names : [Actions -> Actions], query : QueryType, plan : PlanType,
   backend : BackendNames]

ASSUME AdapterAssumption ==
  /\ Inputs \subseteq InputType
  /\ SolverHorizon \in Nat /\ MockHorizon \in Nat
  /\ Replies \subseteq ReplyType

VARIABLES
  model, names, query, plan, backend,  \* the arguments
  depth,     \* of the solver query about to be made
  reply,     \* the raw result
  replayed,  \* the states the replay went through
  pc, outcome

arguments == <<model, names, query, plan, backend>>
vars == <<arguments, depth, reply, replayed, pc, outcome>>

NoReply == [status |-> "none", actions |-> <<>>, level |-> {}, why |-> {}]
Pending == [status |-> "pending", assurance |-> "none", trace |-> <<>>]

Init ==
  /\ \E i \in Inputs :
       /\ model = i.model /\ names = i.names
       /\ query = i.query /\ plan = i.plan
       /\ backend = i.backend
  /\ depth = 0
  /\ reply = NoReply
  /\ replayed = <<>>
  /\ pc = "ask"
  /\ outcome = Pending

Answer(status, assurance, trace) ==
  /\ outcome' = [status |-> status, assurance |-> assurance, trace |-> trace]
  /\ pc' = "done"

(* An Err, which the callers turn into an error envelope.                  *)
Error == Answer("error", "incomplete", <<>>)

Encoded == {"sat-varisat", "smt-cvc5"}

Horizon == IF plan.max_depth = {} THEN SolverHorizon ELSE CHOOSE d \in plan.max_depth : TRUE

-------------------------------------------------------------------------------
(* The bounded encodings.                                                  *)

(* The states that a choice of one transition per step leads through; a    *)
(* step that cannot be made ends the run.                                  *)
Run(choice) ==
  LET at[i \in 0..Len(choice)] ==
        IF i = 0 THEN model.init
        ELSE IF at[i - 1] \in States THEN ApplyAction(model, at[i - 1], choice[i])
        ELSE at[i - 1]
  IN  at

(* The satisfying assignments at depth k.                                  *)
Assignments(k) ==
  {choice \in [1..k -> Actions] :
     LET at == Run(choice) IN
     /\ \A i \in 0..k : at[i] \in States
     /\ \A i \in 0..(k - 1) : at[i] \in query.holds
     /\ at[k] \notin query.holds}

(* Only invariants are encoded.                                            *)
RejectKind ==
  /\ pc = "ask" /\ backend \in Encoded
  /\ query.kind # "invariant"
  /\ Error
  /\ UNCHANGED <<arguments, depth, reply, replayed>>

CanAsk == pc = "ask" /\ backend \in Encoded /\ query.kind = "invariant"

(* Mutant: the steps are read last to first.                               *)
FindReversed ==
  /\ CanAsk
  /\ \E choice \in Assignments(depth) :
       reply' = [status |-> "FAIL", actions |-> [i \in 1..depth |-> names[choice[depth + 1 - i]]],
                 level |-> {"bounded"}, why |-> {}]
  /\ pc' = "normalize"
  /\ UNCHANGED <<arguments, depth, replayed, outcome>>

(* sat: one action id per step, read off the assignment.                   *)
FindAssignment ==
  /\ CanAsk
  /\ \E choice \in Assignments(depth) :
       reply' = [status |-> "FAIL", actions |-> [i \in 1..depth |-> names[choice[i]]],
                 level |-> {"bounded"}, why |-> {}]
  /\ pc' = "normalize"
  /\ UNCHANGED <<arguments, depth, replayed, outcome>>

(* Mutants: every other depth; the last one is left out.                   *)
DeepenByTwo ==
  /\ CanAsk
  /\ Assignments(depth) = {}
  /\ depth < Horizon
  /\ depth' = depth + 2
  /\ UNCHANGED <<arguments, reply, replayed, pc, outcome>>

ReachHorizonEarly ==
  /\ CanAsk
  /\ Assignments(depth) = {}
  /\ depth + 1 >= Horizon
  /\ reply' = [status |-> "PASS", actions |-> <<>>, level |-> {"bounded"}, why |-> {}]
  /\ pc' = "normalize"
  /\ UNCHANGED <<arguments, depth, replayed, outcome>>

(* unsat: the next depth, or a bounded pass.                               *)
Deepen ==
  /\ CanAsk
  /\ Assignments(depth) = {}
  /\ depth < Horizon
  /\ depth' = depth + 1
  /\ UNCHANGED <<arguments, reply, replayed, pc, outcome>>

ReachHorizon ==
  /\ CanAsk
  /\ Assignments(depth) = {}
  /\ depth >= Horizon
  /\ reply' = [status |-> "PASS", actions |-> <<>>, level |-> {"bounded"}, why |-> {}]
  /\ pc' = "normalize"
  /\ UNCHANGED <<arguments, depth, replayed, outcome>>

(* cvc5 may say unknown at any depth ...                                   *)
SayUnknown ==
  /\ CanAsk /\ backend = "smt-cvc5"
  /\ reply' = [status |-> "UNKNOWN", actions |-> <<>>, level |-> {"incomplete"},
               why |-> {"ENGINE_ABORTED"}]
  /\ pc' = "normalize"
  /\ UNCHANGED <<arguments, depth, replayed, outcome>>

(* ... or fail, in either of the two calls a satisfiable depth takes; and  *)
(* so may a command.                                                       *)
SolverFails ==
  /\ \/ CanAsk /\ backend = "smt-cvc5"
     \/ pc = "ask" /\ backend = "command"
  /\ Error
  /\ UNCHANGED <<arguments, depth, reply, replayed>>

(* CommandSolverAdapter::run: whatever the program prints.                 *)
RunCommand ==
  /\ pc = "ask" /\ backend = "command"
  /\ reply' \in Replies
  /\ pc' = "normalize"
  /\ UNCHANGED <<arguments, depth, replayed, outcome>>

-------------------------------------------------------------------------------
(* normalize_protocol_result and build_protocol_trace.                     *)

DefaultLevel == IF plan.max_depth # {} THEN "bounded" ELSE "incomplete"
Level == IF reply.level = {} THEN DefaultLevel ELSE CHOOSE l \in reply.level : TRUE

(* The level is parsed before anything else; without actions there is no   *)
(* trace.                                                                  *)
Normalize ==
  /\ pc = "normalize"
  /\ IF reply.level \subseteq Levels
     THEN /\ replayed' = IF reply.actions = <<>> THEN <<>> ELSE <<model.init>>
          /\ pc' = "replay"
          /\ UNCHANGED outcome
     ELSE Error /\ UNCHANGED replayed
  /\ UNCHANGED <<arguments, depth, reply>>

(* apply_action_variants: what the transitions of this name lead to.       *)
Variants(s, id) ==
  {ApplyAction(model, s, a) : a \in {b \in Actions : names[b] = id}} \ {Disabled}

Position == Len(replayed)
Replaying == pc = "replay" /\ 0 < Position /\ Position <= Len(reply.actions)
Led(id) == Variants(replayed[Position], id)

(* Mutant: several variants go unnoticed.                                  *)
RefuseDisabled ==
  /\ Replaying
  /\ Led(reply.actions[Position]) = {}
  /\ Error
  /\ UNCHANGED <<arguments, depth, reply, replayed>>

(* apply_action: exactly one state is a step ...                           *)
ReplayStep ==
  /\ Replaying
  /\ \E t \in States :
       /\ Led(reply.actions[Position]) = {t}
       /\ replayed' = Append(replayed, t)
  /\ UNCHANGED <<arguments, depth, reply, pc, outcome>>

(* ... none, several, an unknown id or a faulty one end the replay.        *)
RefuseReplay ==
  /\ Replaying
  /\ ~ \E t \in States : Led(reply.actions[Position]) = {t}
  /\ Error
  /\ UNCHANGED <<arguments, depth, reply, replayed>>

ReplayDone == pc = "replay" /\ (reply.actions = <<>> \/ Position > Len(reply.actions))

(* A FAIL without a trace is an error; so is a status nobody knows.        *)
ReportPass ==
  /\ ReplayDone /\ reply.status = "PASS"
  /\ Answer("pass", Level, replayed)
  /\ UNCHANGED <<arguments, depth, reply, replayed>>

(* Mutant: a FAIL needs no trace.                                          *)
ReportAnyFail ==
  /\ ReplayDone /\ reply.status = "FAIL"
  /\ Answer("fail", Level, replayed)
  /\ UNCHANGED <<arguments, depth, reply, replayed>>

ReportFail ==
  /\ ReplayDone /\ reply.status = "FAIL"
  /\ IF replayed = <<>> THEN Error ELSE Answer("fail", Level, replayed)
  /\ UNCHANGED <<arguments, depth, reply, replayed>>

(* The reason of an UNKNOWN is parsed last.                                *)
ReportUnknown ==
  /\ ReplayDone /\ reply.status = "UNKNOWN"
  /\ IF reply.why \subseteq UnknownReasons THEN Answer("unknown", Level, replayed) ELSE Error
  /\ UNCHANGED <<arguments, depth, reply, replayed>>

RejectStatus ==
  /\ ReplayDone /\ reply.status \notin Statuses
  /\ Error
  /\ UNCHANGED <<arguments, depth, reply, replayed>>

-------------------------------------------------------------------------------
(* mock-bmc: check_explicit on a plan with a bound and without a scenario. *)
MockPlan == IF plan.max_depth = {} THEN [plan EXCEPT !.max_depth = {MockHorizon}] ELSE plan
MockQuery == [query EXCEPT !.scenario = {}]

Contract == INSTANCE VerdictContract WITH verdict <- outcome

Promised(m, q, p) == {v \in Contract!VerdictType : Contract!Justified(m, q, p, v)}

DelegateToExplicit ==
  /\ pc = "ask" /\ backend = "mock-bmc"
  /\ \E v \in Promised(model, MockQuery, MockPlan) : Answer(v.status, v.assurance, <<>>)
  /\ UNCHANGED <<arguments, depth, reply, replayed>>

Next ==
  \/ RejectKind \/ FindAssignment \/ Deepen \/ ReachHorizon \/ SayUnknown \/ SolverFails
  \/ RunCommand \/ Normalize \/ ReplayStep \/ RefuseReplay
  \/ ReportPass \/ ReportFail \/ ReportUnknown \/ RejectStatus
  \/ DelegateToExplicit

Spec == Init /\ [][Next]_vars

(* The solver that was asked answers, or dies.                             *)
FairSpec == Spec /\ WF_vars(Next)

-------------------------------------------------------------------------------
Protocol == Encoded \cup {"command"}
End(trace) == trace[Len(trace)]

(* Whatever a solver or a command claims, a FAIL comes with a run of the   *)
(* model: from the initial state, one enabled transition per step, named   *)
(* as the reply names it.                                                  *)
FailIsReplayable ==
  backend \in Protocol /\ outcome.status = "fail" =>
    LET t == outcome.trace IN
    /\ Len(t) = Len(reply.actions) + 1 /\ Len(t) > 1
    /\ t[1] = model.init
    /\ \A i \in 1..(Len(t) - 1) :
         \E a \in Actions : names[a] = reply.actions[i] /\ ApplyAction(model, t[i], a) = t[i + 1]

(* selfcheck, varisat-explicit-parity: the counterexample of an encoding   *)
(* ends in a violation that no run reaches in fewer steps, although the    *)
(* solver chose transitions and the replay had only their names.           *)
ShortestCounterexample ==
  backend \in Encoded /\ outcome.status = "fail" =>
    LET steps == Len(outcome.trace) - 1 IN
    /\ End(outcome.trace) \notin query.holds
    /\ Within(model, steps - 1) \subseteq query.holds

(* A bounded PASS speaks for every state within the horizon.               *)
PassCoversHorizon ==
  backend \in Encoded /\ outcome.status = "pass" =>
    /\ outcome.assurance = "bounded"
    /\ Within(model, Horizon) \subseteq query.holds

(* Both: what an encoding answers is decided by the states within its      *)
(* horizon, all of them.                                                   *)
HorizonDecided == ShortestCounterexample /\ PassCoversHorizon

Distinct(f) == \A x, y \in DOMAIN f : f[x] = f[y] => x = y

(* Where every transition has its own name, sat-varisat decides the        *)
(* invariant within the horizon, and has an error in one case only: a      *)
(* violation in the initial state, whose run has no actions to show.       *)
SatDecides ==
  backend = "sat-varisat" /\ query.kind = "invariant" /\ Distinct(names) /\ pc = "done" =>
    outcome.status = IF model.init \notin query.holds THEN "error"
                     ELSE IF Within(model, Horizon) \subseteq query.holds THEN "pass" ELSE "fail"

(* Every run comes to an end.                                              *)
Answered == <>(pc = "done")
================================================================================
