------------------------------ MODULE Encodings -------------------------------
(* The circuits of solver/varisat.rs and the formulas of solver/smt.rs:    *)
(* what either says of one step of a lowered model.  Both refuse some      *)
(* models; of the others they should say what the kernel says.             *)
EXTENDS Expressions, FiniteSets
LOCAL INSTANCE SequencesExt

CONSTANT BitWidth    \* of a bounded integer field: 8, 16 or 32 in the code

(***************************************************************************)
(* What both share: a chain of writes to a set, relation or map field is   *)
(* read slot by slot, and the item written is a literal.                   *)
(***************************************************************************)
ItemIs(kind, e) == e.args[2].op = "literal" /\ e.args[2].value.kind = kind
ItemKind(op) == IF op \in {"rel_insert", "rel_remove", "rel_contains", "map_put", "map_contains_entry"}
                THEN "Pair" ELSE "Variant"

RECURSIVE IsChain(_, _, _)
IsChain(types, kind, e) ==
  \/ e.op = "field" /\ types[e.name].kind = kind
  \/ e.op \in Writers[kind] /\ ItemIs(ItemKind(e.op), e) /\ IsChain(types, kind, e.args[1])

(* A slot behind one write, given what it was before.                      *)
WrittenSlot(t, e, k, old) ==
  LET item == e.args[2].value IN
  CASE e.op = "insert" -> old \/ k = item.i
    [] e.op = "remove" -> old /\ k # item.i
    [] e.op = "rel_insert" -> old \/ k = Slot(t, item)
    [] e.op = "rel_remove" -> old /\ k # Slot(t, item)
    [] e.op = "map_put" -> IF k \in Group(t, item.i) THEN k = Slot(t, item) ELSE old
    [] e.op = "map_remove" -> old /\ k \notin Group(t, item.i)

FirstUpdate(m, f) ==
  LET of == {i \in DOMAIN m.updates : m.updates[i].field = f} IN
  IF of = {} THEN Field(f) ELSE m.updates[CHOOSE i \in of : \A j \in of : i <= j].value

(***************************************************************************)
(* Gates of the circuit.  A gate is a new literal and its clauses: the set  *)
(* of values the clauses leave it.                                         *)
(***************************************************************************)
EqualGate(a, b) == {z \in BOOLEAN :
  (~z \/ ~a \/ b) /\ (~z \/ a \/ ~b) /\ (z \/ ~a \/ ~b) /\ (z \/ a \/ b)}
AndGate(a, b) == {z \in BOOLEAN : (~z \/ a) /\ (~z \/ b) /\ (z \/ ~a \/ ~b)}
OrGate(a, b) == {z \in BOOLEAN : (z \/ ~a) /\ (z \/ ~b) /\ (~z \/ a \/ b)}
Equal(a, b) == CHOOSE z \in EqualGate(a, b) : TRUE
Conj(a, b) == CHOOSE z \in AndGate(a, b) : TRUE
Disj(a, b) == CHOOSE z \in OrGate(a, b) : TRUE
Xor(a, b) == ~Equal(a, b)
Mux(select, whenTrue, whenFalse) ==
  Disj(Conj(select, whenTrue), Conj(~select, whenFalse))

(* Numbers are sequences of bits, the lowest first.                        *)
BitAt(x, i) == IF i \in DOMAIN x THEN x[i] ELSE FALSE
Longer(x, y) == IF Len(x) > Len(y) THEN Len(x) ELSE Len(y)
Bits(n, width) == [i \in 1..width |-> Has(n, i - 1)]
MinBits(n) == Bits(n, CHOOSE w \in 1..MaskBits : n < 2^w /\ (w = 1 \/ n >= 2^(w - 1)))

(* Ripple carry; the carry out is a bit of the sum.                        *)
AddWithoutCarryOut(x, y) ==
  LET carry[i \in 0..Longer(x, y)] ==
        IF i = 0 THEN FALSE
        ELSE LET a == BitAt(x, i) b == BitAt(y, i) c == carry[i - 1]
             IN  Disj(Conj(a, b), Disj(Conj(a, c), Conj(b, c)))
  IN  [i \in 1..Longer(x, y) |-> Xor(Xor(BitAt(x, i), BitAt(y, i)), carry[i - 1])]
Add(x, y) ==
  LET width == Longer(x, y)
      carry[i \in 0..width] ==
        IF i = 0 THEN FALSE
        ELSE LET a == BitAt(x, i) b == BitAt(y, i) c == carry[i - 1]
             IN  Disj(Conj(a, b), Disj(Conj(a, c), Conj(b, c)))
  IN  Append([i \in 1..width |-> Xor(Xor(BitAt(x, i), BitAt(y, i)), carry[i - 1])], carry[width])

Borrows(x, y) ==
  LET borrow[i \in 0..Longer(x, y)] ==
        IF i = 0 THEN FALSE
        ELSE LET a == BitAt(x, i) b == BitAt(y, i) c == borrow[i - 1]
             IN  Disj(Conj(~a, Disj(b, c)), Conj(b, c))
  IN  borrow
LessThan(x, y) == Borrows(x, y)[Longer(x, y)]

Select(select, x, y) ==
  [i \in 1..Longer(x, y) |-> Mux(select, BitAt(x, i), BitAt(y, i))]

SaturatingSub(x, y) ==
  LET width == Longer(x, y)
      borrow == Borrows(x, y)
  IN  Select(borrow[width], [i \in 1..width |-> FALSE],
             [i \in 1..width |-> Xor(Xor(BitAt(x, i), BitAt(y, i)), borrow[i - 1])])

(* Long division, one bit of the dividend after the other, highest first.  *)
(* The shift drops the highest bit of the remainder.                       *)
Remainder(x, y) ==
  LET width == Longer(x, y)
      rest[i \in 0..width] ==
        IF i = 0 THEN [k \in 1..width |-> FALSE]
        ELSE LET shifted == <<BitAt(x, width - i + 1)>> \o SubSeq(rest[i - 1], 1, width - 1)
             IN  Select(~LessThan(shifted, y), SaturatingSub(shifted, y), shifted)
  IN  rest[width]

AllOf(gates) == FoldLeft(Conj, TRUE, gates)
AnyOf(gates) == FoldLeft(Disj, FALSE, gates)
BitsEqual(x, y) == AllOf([i \in 1..Longer(x, y) |-> Equal(BitAt(x, i), BitAt(y, i))])

(***************************************************************************)
(* sat-varisat: what it refuses.                                           *)
(***************************************************************************)
(* The least and greatest value of a numeric expression.                   *)
RECURSIVE Bounds(_, _)
Bounds(types, e) ==
  CASE e.op = "literal" -> <<e.value.i, e.value.i>>
    [] e.op = "field" -> <<types[e.name].a, types[e.name].b>>
    [] OTHER ->
         LET l == Bounds(types, e.args[1])
             r == Bounds(types, e.args[2])
             Less(x, y) == IF x < y THEN 0 ELSE x - y
         IN  CASE e.op = "+" -> <<l[1] + r[1], l[2] + r[2]>>
               [] e.op = "-" -> <<Less(l[1], r[2]), Less(l[2], r[1])>>
               [] e.op = "%" -> <<0, IF r[2] = 0 THEN 0
                                     ELSE IF l[2] < r[2] - 1 THEN l[2] ELSE r[2] - 1>>

RECURSIVE SatNumeric(_, _)
SatNumeric(types, e) ==
  \/ e.op = "literal" /\ e.value.kind = "UInt"
  \/ e.op = "field" /\ types[e.name].kind = "uint"
  \/ /\ e.op \in {"+", "-", "%"}
     /\ SatNumeric(types, e.args[1]) /\ SatNumeric(types, e.args[2])
     /\ e.op = "%" => Bounds(types, e.args[2])[1] > 0

Finite == {"set", "relation", "map"}
RECURSIVE SatPredicate(_, _)
(* The kind of value encode_expr makes of an expression.  An is_empty in    *)
(* the place of a value is asked of itself, not of its argument.            *)
SatKind(types, e) ==
  IF SatNumeric(types, e) THEN "uint"
  ELSE IF \E k \in Finite : IsChain(types, k, e) THEN CHOOSE k \in Finite : IsChain(types, k, e)
  ELSE IF e.op # "is_empty" /\ SatPredicate(types, e) THEN "bool"
  ELSE "refused"
SatPredicate(types, e) ==
  CASE e.op = "literal" -> e.value.kind = "Bool"
    [] e.op = "field" -> types[e.name].kind = "bool"
    [] e.op = "!" -> SatPredicate(types, e.args[1])
    [] e.op \in {"&&", "||"} -> SatPredicate(types, e.args[1]) /\ SatPredicate(types, e.args[2])
    [] e.op \in {"==", "!="} -> SatKind(types, e.args[1]) = SatKind(types, e.args[2])
                                /\ SatKind(types, e.args[1]) # "refused"
    [] e.op \in Comparisons -> SatNumeric(types, e.args[1]) /\ SatNumeric(types, e.args[2])
    [] e.op = "is_empty" -> \E k \in Finite : IsChain(types, k, e.args[1])
    [] e.op = "contains" -> IsChain(types, "set", e.args[1]) /\ ItemIs("Variant", e)
    [] e.op = "rel_contains" -> IsChain(types, "relation", e.args[1]) /\ ItemIs("Pair", e)
    [] e.op = "rel_intersects" ->
         IsChain(types, "relation", e.args[1]) /\ IsChain(types, "relation", e.args[2])
    [] e.op = "map_contains_key" -> IsChain(types, "map", e.args[1]) /\ ItemIs("Variant", e)
    [] e.op = "map_contains_entry" -> IsChain(types, "map", e.args[1]) /\ ItemIs("Pair", e)
    [] OTHER -> FALSE

SatAccepts(m) ==
  /\ \A f \in DOMAIN m.types : m.types[f].kind # "enum"
  /\ SatPredicate(m.types, m.guard)
  /\ \A f \in DOMAIN m.types : SatKind(m.types, FirstUpdate(m, f)) = m.types[f].kind

(***************************************************************************)
(* sat-varisat: the circuit of an expression, evaluated on a state.        *)
(***************************************************************************)
RECURSIVE SatSlot(_, _, _, _)
SatSlot(types, s, e, k) ==
  IF e.op = "field" THEN Has(s[e.name].i, k)
  ELSE WrittenSlot(TypeOf(types, e), e, k, SatSlot(types, s, e.args[1], k))
SlotBits(types, s, e) ==
  [i \in 1..Width(TypeOf(types, e)) |-> SatSlot(types, s, e, i - 1)]

RECURSIVE SatNumber(_, _, _)
SatNumber(types, s, e) ==
  CASE e.op = "literal" -> MinBits(e.value.i)
    [] e.op = "field" -> Bits(s[e.name].i, BitWidth)
    [] OTHER -> LET x == SatNumber(types, s, e.args[1])
                    y == SatNumber(types, s, e.args[2])
                IN  CASE e.op = "+" -> Add(x, y)
                      [] e.op = "-" -> SaturatingSub(x, y)
                      [] e.op = "%" -> Remainder(x, y)

RECURSIVE SatBool(_, _, _)
(* encode_expr: the literals of a value, whatever its kind.                *)
SatBits(types, s, e) ==
  CASE SatKind(types, e) = "uint" -> SatNumber(types, s, e)
    [] SatKind(types, e) = "bool" -> <<SatBool(types, s, e)>>
    [] OTHER -> SlotBits(types, s, e)
SatBool(types, s, e) ==
  LET Left == e.args[1]
      Right == e.args[2]
      x == SatNumber(types, s, Left)
      y == SatNumber(types, s, Right)
      In(k) == SatSlot(types, s, Left, k)
      of == TypeOf(types, Left)
  IN  CASE e.op = "literal" -> e.value.i = 1
        [] e.op = "field" -> s[e.name].i = 1
        [] e.op = "!" -> ~SatBool(types, s, Left)
        [] e.op = "&&" -> Conj(SatBool(types, s, Left), SatBool(types, s, Right))
        [] e.op = "||" -> Disj(SatBool(types, s, Left), SatBool(types, s, Right))
        [] e.op = "==" -> BitsEqual(SatBits(types, s, Left), SatBits(types, s, Right))
        [] e.op = "!=" -> ~BitsEqual(SatBits(types, s, Left), SatBits(types, s, Right))
        [] e.op = "<" -> LessThan(x, y)
        [] e.op = "<=" -> Disj(LessThan(x, y), BitsEqual(x, y))
        [] e.op = ">" -> LessThan(y, x)
        [] e.op = ">=" -> Disj(LessThan(y, x), BitsEqual(x, y))
        [] e.op = "is_empty" -> ~AnyOf(SlotBits(types, s, Left))
        [] e.op = "contains" -> Right.value.i < Width(of) /\ In(Right.value.i)
        [] e.op \in {"rel_contains", "map_contains_entry"} -> In(Slot(of, Right.value))
        [] e.op = "rel_intersects" ->
             AnyOf([i \in 1..Width(of) |-> Conj(In(i - 1), SatSlot(types, s, Right, i - 1))])
        [] e.op = "map_contains_key" ->
             AnyOf([j \in 1..of.b |-> In(Right.value.i * of.b + j - 1)])

(* encode_state_bounds and encode_state_invariants, on a value of a field. *)
SatWithin(t, bits, v) ==
  CASE t.kind = "uint" -> /\ ~LessThan(bits, Bits(t.a, BitWidth))
                          /\ ~LessThan(Bits(t.b, BitWidth), bits)
    [] t.kind = "map" -> \A key \in 0..(t.a - 1) : \A k, l \in Group(t, key) :
                           k < l => ~Has(v.i, k) \/ ~Has(v.i, l)
    [] OTHER -> TRUE

(* The values the step allows a field to have next.                        *)
Candidates(t) ==
  CASE t.kind = "bool" -> {Bool(FALSE), Bool(TRUE)}
    [] t.kind = "uint" -> {UInt(n) : n \in 0..(2^BitWidth - 1)}
    [] OTHER -> {UInt(n) : n \in 0..(2^Width(t) - 1)}
CandidateBits(t, v) ==
  CASE t.kind = "bool" -> <<v.i = 1>>
    [] t.kind = "uint" -> Bits(v.i, BitWidth)
    [] OTHER -> Bits(v.i, Width(t))
SatNext(m, s, f) ==
  LET t == m.types[f]
      value == SatBits(m.types, s, FirstUpdate(m, f))
      Same(bits) == \A i \in 1..Longer(bits, value) : BitAt(bits, i) = BitAt(value, i)
  IN  {v \in Candidates(t) : Same(CandidateBits(t, v)) /\ SatWithin(t, CandidateBits(t, v), v)}

AnyOfEach(next) ==
  {s \in [DOMAIN next -> UNION {next[f] : f \in DOMAIN next}] :
     \A f \in DOMAIN next : s[f] \in next[f]}

SatSteps(m, s) ==
  IF SatBool(m.types, s, m.guard)
  THEN AnyOfEach([f \in DOMAIN m.types |-> SatNext(m, s, f)]) ELSE {}

(***************************************************************************)
(* smt-cvc5: the sort of a rendered expression, and its value.             *)
(***************************************************************************)
RECURSIVE SmtSort(_, _)
SmtSort(types, e) ==
  LET Left == e.args[1]
      Right == e.args[2]
      ofLeft == TypeOf(types, Left).kind
      composite == IF ofLeft = "none" THEN TypeOf(types, Right).kind ELSE ofLeft
      Both(sort) == SmtSort(types, Left) = sort /\ SmtSort(types, Right) = sort
      If(condition, sort) == IF condition THEN sort ELSE "refused"
  IN  CASE e.op = "literal" -> IF e.value.kind = "Bool" THEN "Bool"
                               ELSE If(e.value.kind # "Pair", "Int")
        [] e.op = "field" -> CASE types[e.name].kind = "bool" -> "Bool"
                               [] types[e.name].kind \in {"relation", "map"} -> "refused"
                               [] OTHER -> "Int"
        [] e.op = "!" -> If(SmtSort(types, Left) = "Bool", "Bool")
        [] e.op \in {"&&", "||"} -> If(Both("Bool"), "Bool")
        [] e.op \in {"+", "-"} -> If(Both("Int"), "Int")
        [] e.op = "%" -> If(Both("Int") /\ Right.op = "literal" /\ Right.value.i > 0, "Int")
        [] e.op \in {"insert", "remove"} ->
             If(SmtSort(types, Left) = "Int" /\ ItemIs("Variant", e), "Int")
        [] e.op = "contains" -> If(SmtSort(types, Left) = "Int" /\ ItemIs("Variant", e), "Bool")
        [] e.op \in {"==", "!="} ->
             IF composite \in {"relation", "map"}
             THEN If(IsChain(types, composite, Left) /\ IsChain(types, composite, Right), "Bool")
             ELSE If(Both("Int") \/ Both("Bool"), "Bool")
        [] e.op \in Comparisons -> If(Both("Int"), "Bool")
        [] e.op = "is_empty" ->
             If(IF ofLeft \in {"relation", "map"} THEN IsChain(types, ofLeft, Left)
                ELSE SmtSort(types, Left) = "Int", "Bool")
        [] e.op = "rel_contains" -> If(IsChain(types, "relation", Left) /\ ItemIs("Pair", e), "Bool")
        [] e.op = "rel_intersects" ->
             If(IsChain(types, "relation", Left) /\ IsChain(types, "relation", Right), "Bool")
        [] e.op = "map_contains_key" -> If(IsChain(types, "map", Left) /\ ItemIs("Variant", e), "Bool")
        [] e.op = "map_contains_entry" -> If(IsChain(types, "map", Left) /\ ItemIs("Pair", e), "Bool")
        [] OTHER -> "refused"

SmtAccepts(m) ==
  /\ SmtSort(m.types, m.guard) = "Bool"
  /\ \A f \in DOMAIN m.types :
       LET t == m.types[f] IN
       CASE t.kind \in {"relation", "map"} -> IsChain(m.types, t.kind, FirstUpdate(m, f))
         [] OTHER -> SmtSort(m.types, FirstUpdate(m, f)) = IF t.kind = "bool" THEN "Bool" ELSE "Int"

(* A map is a pair of symbols for each key: present, and the value.        *)
RECURSIVE SmtEntry(_, _, _, _)
SmtEntryKeepingValue(types, s, e, key) ==
  LET t == TypeOf(types, e)
      old == SmtEntry(types, s, e.args[1], key)
  IN  IF e.op = "field"
      THEN LET held == {j \in 0..(t.b - 1) : Has(s[e.name].i, key * t.b + j)} IN
           [present |-> held # {}, value |-> IF held = {} THEN 0 ELSE CHOOSE j \in held : TRUE]
      ELSE IF e.args[2].value.i # key THEN old
      ELSE IF e.op = "map_put" THEN [present |-> TRUE, value |-> e.args[2].value.j]
      ELSE [old EXCEPT !.present = FALSE]
SmtEntry(types, s, e, key) ==
  LET t == TypeOf(types, e) IN
  IF e.op = "field"
  THEN LET held == {j \in 0..(t.b - 1) : Has(s[e.name].i, key * t.b + j)} IN
       [present |-> held # {}, value |-> IF held = {} THEN 0 ELSE CHOOSE j \in held : TRUE]
  ELSE IF e.args[2].value.i # key THEN SmtEntry(types, s, e.args[1], key)
  ELSE [present |-> e.op = "map_put", value |-> e.args[2].value.j]

Flag(p) == IF p THEN 1 ELSE 0

RECURSIVE Smt(_, _, _)
Smt(types, s, e) ==
  LET Left == e.args[1]
      Right == e.args[2]
      x == Smt(types, s, Left)
      y == Smt(types, s, Right)
      mask == 2^Right.value.i
      bit == (x \div mask) % 2
      t == TypeOf(types, Left)
      Entry(chain, key) == SmtEntry(types, s, chain, key)
      In(chain, k) == SatSlot(types, s, chain, k)
      Keys == 0..(t.a - 1)
      Same == CASE t.kind = "map" -> \A key \in Keys : Entry(Left, key) = Entry(Right, key)
                [] t.kind = "relation" -> \A k \in Slots(t) : In(Left, k) = In(Right, k)
                [] OTHER -> x = y
  IN  CASE e.op = "literal" -> e.value.i
        [] e.op = "field" -> s[e.name].i
        [] e.op = "!" -> 1 - x
        [] e.op = "&&" -> Flag(x = 1 /\ y = 1)
        [] e.op = "||" -> Flag(x = 1 \/ y = 1)
        [] e.op = "+" -> x + y
        [] e.op = "-" -> x - y
        [] e.op = "%" -> x % y
        [] e.op = "insert" -> x + (1 - bit) * mask
        [] e.op = "remove" -> x - bit * mask
        [] e.op = "contains" -> Flag(bit = 1)
        [] e.op = "==" -> Flag(Same)
        [] e.op = "!=" -> 1 - Flag(Same)
        [] e.op = "<" -> Flag(x < y)
        [] e.op = "<=" -> Flag(x <= y)
        [] e.op = ">" -> Flag(x > y)
        [] e.op = ">=" -> Flag(x >= y)
        [] e.op = "is_empty" ->
             Flag(CASE t.kind = "relation" -> \A k \in Slots(t) : ~In(Left, k)
                    [] t.kind = "map" -> \A key \in Keys : ~Entry(Left, key).present
                    [] OTHER -> x = 0)
        [] e.op = "rel_contains" -> Flag(In(Left, Slot(t, Right.value)))
        [] e.op = "rel_intersects" -> Flag(\E k \in Slots(t) : In(Left, k) /\ In(Right, k))
        [] e.op = "map_contains_key" -> Flag(Entry(Left, Right.value.i).present)
        [] e.op = "map_contains_entry" ->
             Flag(Entry(Left, Right.value.i) = [present |-> TRUE, value |-> Right.value.j])

SmtNext(m, s, f) ==
  LET t == m.types[f]
      e == FirstUpdate(m, f)
      value == Smt(m.types, s, e)
  IN  CASE t.kind = "relation" ->
             {v \in Candidates(t) : \A k \in Slots(t) : Has(v.i, k) = SatSlot(m.types, s, e, k)}
        [] t.kind = "map" ->
             {v \in ValuesOf(t) : \A key \in 0..(t.a - 1) :
                SmtEntry(m.types, [s EXCEPT ![f] = v], Field(f), key) = SmtEntry(m.types, s, e, key)}
        [] t.kind = "bool" -> {Bool(value = 1)}
        [] t.kind = "enum" -> {Variant(value)} \cap ValuesOf(t)
        [] OTHER -> {UInt(value)} \cap ValuesOf(t)

SmtSteps(m, s) ==
  IF Smt(m.types, s, m.guard) = 1
  THEN AnyOfEach([f \in DOMAIN m.types |-> SmtNext(m, s, f)]) ELSE {}

(***************************************************************************)
(* Adequacy.                                                               *)
(***************************************************************************)
Holds(m, s) == Eval(m.types, s, m.guard) = Bool(TRUE)

(* Clauses leave a gate one value, so that a solver has nothing to choose. *)
GatesDecide ==
  \A a, b \in BOOLEAN :
    \A outputs \in {EqualGate(a, b), AndGate(a, b), OrGate(a, b)} : Cardinality(outputs) = 1

(* The circuit of an accepted model is the model: it has a guard, or a     *)
(* property, true where the kernel has it true, and exactly the kernel's   *)
(* steps.  Code: CnfEncoder, whose arithmetic is made of gates.            *)
SatAdequate ==
  SatAccepts(model) =>
    /\ GatesDecide
    /\ SatBool(model.types, state, model.guard) = Holds(model, state)
    /\ SatSteps(model, state) = Steps(model, state)

(* The formula of an accepted model is the model, where no subtraction     *)
(* goes below zero: SMT integers do not saturate.  Code: render_expr and   *)
(* the functions that split relations and maps into symbols.               *)
SmtAdequate ==
  (SmtAccepts(model) /\ \A e \in Expressions : Defined(model.types, state, e[2])) =>
    /\ (Smt(model.types, state, model.guard) = 1) = Holds(model, state)
    /\ SmtSteps(model, state) = Steps(model, state)

(* Each backend decides the kernel's model, where it accepts it at all.    *)
EncodingsAdequate == SatAdequate /\ SmtAdequate
===============================================================================
