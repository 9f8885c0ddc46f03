--------------------------- MODULE VerdictContract ----------------------------
(***************************************************************************)
(* What a check promises, whatever engine performs it: one verdict, and    *)
(* only a verdict the model justifies.  The conditions are stated over     *)
(* what the model can reach, never over how a search proceeds.             *)
(***************************************************************************)
EXTENDS TransitionSystem

VARIABLES model, query, plan, verdict

vars == <<model, query, plan, verdict>>

(* Nothing the run asks about is reachable.                                *)
NothingAsked(m, q) ==
  \A s \in Reachable(m) :
    IF q.kind = "transition"
    THEN \A a \in Actions :
           Enabled(m, s, a) => ~StepInScope(q, s, a, ApplyAction(m, s, a))
    ELSE ~Matches(q, s)

(* Which part of the model a conclusive negative answer speaks for.        *)
Covered(m, p, assurance) ==
  IF assurance = "complete" THEN Reachable(m)
  ELSE IF p.strategy = "bfs" THEN UNION {Within(m, d) : d \in p.max_depth}
  ELSE {m.init}

Found == {<<"fail", "violated">>, <<"fail", "deadlock">>, <<"pass", "cover_reached">>}
Exhausted == {<<"pass", "exhausted">>, <<"fail", "cover_unreached">>}

Justified(m, q, p, v) ==
  LET answer == <<v.status, v.reason>> IN
  /\ v.assurance = "bounded" => p.max_depth # {}
  /\ \/ answer \in Found /\ DecidingStates(m, q) # {}
     \/ /\ answer \in Exhausted
        /\ \A s \in Covered(m, p, v.assurance) : ~Decides(m, q, s) /\ ~Faulty(m, q, s)
        /\ v.assurance = "complete" =>
             (v.vacuous <=> NothingAsked(m, q) /\ (q.kind = "transition" \/ Filtered(q)))
     \/ answer = <<"unknown", "time_limit">> /\ p.timed
     \/ /\ answer = <<"unknown", "state_limit">>
        /\ \E limit \in p.max_states : Cardinality(Reachable(m)) > limit
     \/ v.status = "error" /\ \E s \in Reachable(m) : Faulty(m, q, s)

VerdictType ==
  [status : {"pass", "fail", "unknown", "error"},
   assurance : {"complete", "bounded", "incomplete"},
   vacuous : BOOLEAN,
   reason : {"violated", "deadlock", "cover_reached", "exhausted", "cover_unreached",
             "time_limit", "state_limit", "evaluation", "transition"}]

NoVerdict == [status |-> "pending", assurance |-> "none", vacuous |-> FALSE,
              reason |-> "none"]

Init == verdict = NoVerdict

Decide ==
  /\ verdict = NoVerdict
  /\ verdict' \in VerdictType
  /\ Justified(model, query, plan, verdict')
  /\ UNCHANGED <<model, query, plan>>

Spec == Init /\ [][Decide]_vars
===============================================================================
