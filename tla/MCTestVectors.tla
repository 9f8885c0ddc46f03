----------------------------- MODULE MCTestVectors -----------------------------
(***************************************************************************)
(* Instances of TestGeneration for TLC.                                    *)
(***************************************************************************)
EXTENDS TestGeneration

CONSTANTS a, b, c, d

Four == {a, b, c, d}

Table(p, q, r, t) ==
  [s \in Four |-> CASE s = a -> p [] s = b -> q [] s = c -> r [] s = d -> t]

Stuck == [i \in Actions |-> Disabled]
Model4(p, q, r, t) == [init |-> a, step |-> Table(p, q, r, t)]

Own == [i \in Actions |-> i]
Shared == [i \in Actions |-> 1]
Tagged == [i \in Actions |-> {"transition_path"}]
SomeTags == [i \in Actions |-> IF i = 1 THEN {"transition_path"} ELSE {"read_path", "write_path"}]

Request(m, names, tags, kind, holds, faulty, strategy, focus, trace) ==
  [model |-> m, names |-> names, tags |-> tags, kind |-> kind, holds |-> holds,
   faulty |-> faulty, strategy |-> strategy, focus |-> focus, trace |-> trace,
   limits |-> <<{a}, {b, d}, {c}>>]

(* Models of every shape: branches, loops, rejoining routes, dead ends.    *)
Shapes ==
  {Model4(p, q, r, t) :
     p \in {b, Disabled} \X {c, Disabled}, q \in {a, c, Disabled} \X {d, Disabled},
     r \in {b, Disabled} \X {a, d, Disabled}, t \in {a, Disabled} \X {c, Disabled}}

FaultyShapes ==
  {Model4(<<b, x>>, <<y, d>>, Stuck, Stuck) : x \in {c, Fault, Disabled}, y \in {a, c, Fault}}

Exploring ==
  {Request(m, Own, tags, "invariant", {a, b, d}, {}, strategy, focus, {}) :
     m \in Shapes, tags \in {SomeTags}, strategy \in ExploringStrategies \cup {"transition"},
     focus \in {{2}}}
  \cup {Request(m, names, Tagged, "invariant", {a, c}, {b}, strategy, focus, {}) :
     m \in FaultyShapes, names \in {Own, Shared},
     strategy \in ExploringStrategies \cup {"deadlock", "witness"}, focus \in {{}, {1}, {3}}}

(* Runs of the model, as the trace of a check; those of a violation end in *)
(* the first state on which the property is false.                         *)
Visits(r) == RunOf(r.model, (CHOOSE t \in r.trace : TRUE).path)

IsRun(r) == LET states == Visits(r) IN states[Cardinality(DOMAIN states) - 1] \in Four

Violates(r) ==
  LET states == Visits(r)  last == Cardinality(DOMAIN states) - 1
  IN  \A j \in 0..last : states[j] \in r.holds <=> j < last

Loops ==
  {Model4(p, q, r, t) :
     p \in {b} \X {a, c}, q \in {c, b} \X {d, a, Disabled},
     r \in {d, Disabled} \X {c, d}, t \in {d} \X {Disabled, b}}

(* A step in the middle of the way, and only that one, is superfluous.     *)
Detours ==
  {Model4(<<b, x>>, <<d, c>>, <<d, y>>, Stuck) : x \in {a, c, Disabled}, y \in {b, Disabled}}

Paths(lengths) == UNION {[1..n -> Actions] : n \in lengths}

TraceRequests(models, strategies, kind, evidence, lengths) ==
  {Request(m, Own, Tagged, kind, {a, b, c}, {}, strategy, {}, {[kind |-> e, path |-> p]}) :
     m \in models, strategy \in strategies, e \in evidence, p \in Paths(lengths)}

AllInputs ==
  Exploring
  \cup {r \in TraceRequests(Loops \cup Detours, {"minimize", "counterexample"}, "invariant", {"counterexample"}, 1..5) :
          IsRun(r) /\ Violates(r)}
  \cup {r \in TraceRequests(Loops, {"witness", "deadlock", "minimize", "counterexample"}, "cover",
                             {"witness", "deadlock", "trace"}, 0..1) : IsRun(r)}

-------------------------------------------------------------------------------
(* MachineExplorer.                                                        *)

(* A list of the states a step may lead to.                                *)
Listed(S) == SetToSeq(S)

Sets == {{}, {a}, {b}, {c}, {d}}

(* Machines whose first action is a function and whose second may branch;  *)
(* they start in one state, in two, or in one named twice.                 *)
StepsOf(first, second) ==
  [s \in Four |-> <<Listed(first[s]), Listed(second[s])>>]

Firsts == {f \in [Four -> Sets] : f[a] \subseteq {b, c} /\ f[d] = {}
                                  /\ f[b] \subseteq {c, d} /\ f[c] \subseteq {a, d}}
Seconds == {g \in [Four -> {{}, {a}, {b, c}, {d}}] : g[c] = {} /\ g[d] \subseteq {a} /\ g[b] \subseteq {d}}
MCMachines ==
  [init : {<<a>>, <<b, a>>, <<a, a>>}, step : {StepsOf(f, g) : f \in Firsts, g \in Seconds}]

CanMove(m) == {s \in Four : \E x \in Actions : m.step[s][x] # <<>>}

MCRequests ==
  UNION {[machine : {m}, guarded : {TRUE}, kind : {"invariant"},
          holds : {Four, {a, b, c}, {a}}, limits : {{{a}, {c, d}}}]
         \cup [machine : {m}, guarded : {FALSE}, kind : {"deadlock_freedom"},
               holds : {CanMove(m)}, limits : {{}}]
         : m \in MCMachines}

-------------------------------------------------------------------------------
(* RunnerProcess.                                                          *)

Perhaps(S) == {{}} \cup {{x} : x \in S}

Upto(S, n) == UNION {[1..k -> S] : k \in 0..n}

Silent == [status |-> "ok", observations |-> <<>>, property_holds |-> {}, terminal_state |-> {}]

(* Every script of up to four operations.                                  *)
AnyProgram ==
  [script : Upto({"read", "drain", "print", "complain"}, 4), success : BOOLEAN,
   response : {{Silent}}]

(* Longer answers than the pipes hold, in any order, behind a drain.       *)
Polite ==
  [script : {<<"drain">> \o s : s \in [1..4 -> {"print", "complain"}]}, success : {TRUE},
   response : {{}, {Silent}, {[Silent EXCEPT !.status = "refused"]}}]

Scripts == AnyProgram \cup Polite

NoExpectation ==
  {[expected_observations |-> <<>>, expected_output |-> <<>>, projected_state |-> {},
    expected_property_holds |-> {}]}

(* One well-behaved runner with every short answer ...                     *)
AnyAnswer ==
  [script : {<<"drain", "print">>}, success : {TRUE},
   response : {{r} : r \in [status : {"ok"}, observations : Upto(Observations, 2),
                            property_holds : {{}, {TRUE}, {FALSE}},
                            terminal_state : Perhaps(Observations)]}]

(* ... and every small expectation.                                        *)
AnyVector ==
  [expected_observations : Upto(Observations, 2), expected_output : Upto(Observations, 1),
   projected_state : Perhaps(Observations), expected_property_holds : {{}, {TRUE}}]

Asking(callers, sizes, programs, vectors) ==
  [caller : callers, size : sizes, program : programs, vector : vectors]

MCRunnerInputs ==
  Asking({"conformance", "smt"}, {1, 3}, Scripts, NoExpectation)
    \cup Asking({"command"}, {0}, Scripts, NoExpectation)
    \cup Asking({"conformance"}, {1}, AnyAnswer, AnyVector)
===============================================================================
