-------------------------- MODULE MCDistinguishSearch --------------------------
(* Instances of DistinguishSearch for TLC.                                 *)
EXTENDS DistinguishSearch

CONSTANTS a, b, c, d

Four == {a, b, c, d}

(* Models in which a leads to b and c, and both may lead to d.             *)
Table(p, q, r, t) ==
  [s \in Four |-> CASE s = a -> p [] s = b -> q [] s = c -> r [] s = d -> t]

CleanModels ==
  {[init |-> a, step |-> Table(p, q, r, t)] :
     p \in {b} \X {c, Disabled}, q \in {c, d, Disabled} \X {c, Disabled},
     r \in {d, Disabled} \X {b, Disabled}, t \in {a, Disabled} \X {Disabled}}

(* Other initial states; faults; properties that cannot be evaluated.      *)
OddModels ==
  {[init |-> i, step |-> Table(<<x, y>>, <<z, Disabled>>, <<Disabled, Disabled>>, <<Disabled, Disabled>>)] :
     i \in {a, b}, x \in {b, c, Disabled, Fault}, y \in {c, Disabled, Fault},
     z \in {b, c, Disabled, Fault}}

Own == [i \in Actions |-> i]
Shared == [i \in Actions |-> 1]

CleanSides ==
  [model : CleanModels, names : {Own, Shared}, property : {{}}, unevaluable : {{}}]
JudgedSides ==
  [model : {m \in CleanModels : m.step[c][2] = Disabled /\ m.step[b][2] = Disabled}, names : {Own},
   property : {{{a, b, c}}, {{a, b}}, {{b, c, d}}}, unevaluable : {{}}]
OddSides ==
  {side \in [model : OddModels, names : {Own}, property : {{}, {{a, b}}}, unevaluable : {{}, {b}}] :
     side.property = {} => side.unevaluable = {}}

Comparing(sides, bounds) == [left : sides, right : sides, max_depth : bounds]

AllInputs ==
  Comparing(CleanSides, {3}) \cup Comparing(JudgedSides, {1, 2}) \cup Comparing(OddSides, {2})
================================================================================
