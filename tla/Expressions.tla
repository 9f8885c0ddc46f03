----------------------------- MODULE Expressions ------------------------------
(* What an expression of a model means: as it is written in Rust, as the   *)
(* intermediate form it is lowered to, and as the kernel evaluates that.   *)
(* A Rust model is judged twice: the explicit engine runs its closures,    *)
(* the other backends run what lower_machine_model makes of their text.    *)
EXTENDS Integers, Sequences

CONSTANTS
  Literals,    \* the literals a text may name, as a function from token to value
  Written,     \* models as their authors mean them
  Styles       \* how the authors place parentheses: "explicit", "minimal"

VARIABLES
  written,     \* the model as it is meant: [types, guard, updates]
  model,       \* the model as it was lowered
  state        \* a MachineState: a value for every field

(***************************************************************************)
(* Values, types and nodes.  Sets, relations and maps are bit masks, as in  *)
(* the code: slot (i, j) of a relation or map is bit i * b + j.            *)
(***************************************************************************)
Value(kind, i, j) == [kind |-> kind, i |-> i, j |-> j]
Bool(p) == Value("Bool", IF p THEN 1 ELSE 0, 0)
UInt(n) == Value("UInt", n, 0)
Variant(k) == Value("Variant", k, 0)
Pair(l, r) == Value("Pair", l, r)
Fault == Value("Fault", 0, 0)

(* bool; uint in a..b; enum and set of a variants; relation and map a x b  *)
Type(kind, a, b) == [kind |-> kind, a |-> a, b |-> b]
NoType == Type("none", 0, 0)
Width(t) == IF t.kind = "set" THEN t.a ELSE t.a * t.b
Slots(t) == 0..(Width(t) - 1)
MaskBits == 8          \* of a mask; 64 in the code

Node(op, args) == [op |-> op, args |-> args]
Literal(v) == [op |-> "literal", args |-> <<>>, value |-> v]
Field(f) == [op |-> "field", args |-> <<>>, name |-> f]

Has(bits, k) == (bits \div 2^k) % 2 = 1
With(bits, k) == IF Has(bits, k) THEN bits ELSE bits + 2^k
Without(bits, k) == IF Has(bits, k) THEN bits - 2^k ELSE bits
RECURSIVE Clear(_, _)
Clear(bits, K) ==
  IF K = {} THEN bits
  ELSE LET k == CHOOSE x \in K : TRUE IN Clear(Without(bits, k), K \ {k})

(***************************************************************************)
(* The kernel.                                                             *)
(***************************************************************************)
Writers ==
  [set |-> {"insert", "remove"}, relation |-> {"rel_insert", "rel_remove"},
   map |-> {"map_put", "map_remove"}]
Comparisons == {"==", "!=", "<", "<=", ">", ">="}

RECURSIVE TypeOf(_, _)
TypeOf(types, e) ==
  IF e.op = "field" THEN types[e.name]
  ELSE IF \E k \in DOMAIN Writers : e.op \in Writers[k] THEN TypeOf(types, e.args[1])
  ELSE NoType

Slot(t, pair) == pair.i * t.b + pair.j
Group(t, key) == {key * t.b + j : j \in 0..(t.b - 1)}

OnNumbers(op, x, y) ==
  CASE op = "+" -> UInt(x + y)
    [] op = "-" -> UInt(IF x < y THEN 0 ELSE x - y)
    [] op = "%" /\ y # 0 -> UInt(x % y)
    [] op = "<" -> Bool(x < y)
    [] op = "<=" -> Bool(x <= y)
    [] op = ">" -> Bool(x > y)
    [] op = ">=" -> Bool(x >= y)
    [] op = "rel_intersects" -> Bool(\E k \in 0..(MaskBits - 1) : Has(x, k) /\ Has(y, k))
    [] OTHER -> Fault

OnVariant(op, t, bits, k) ==
  CASE op = "contains" -> Bool(Has(bits, k))
    [] op = "insert" -> UInt(With(bits, k))
    [] op = "remove" -> UInt(Without(bits, k))
    [] op = "map_contains_key" /\ t.kind = "map" -> Bool(\E g \in Group(t, k) : Has(bits, g))
    [] op = "map_remove" /\ t.kind = "map" -> UInt(Clear(bits, Group(t, k)))
    [] OTHER -> Fault

OnPair(op, t, bits, pair) ==
  IF t.kind \notin {"relation", "map"} THEN Fault
  ELSE CASE op \in {"rel_contains", "map_contains_entry"} -> Bool(Has(bits, Slot(t, pair)))
         [] op = "rel_insert" -> UInt(With(bits, Slot(t, pair)))
         [] op = "rel_remove" -> UInt(Without(bits, Slot(t, pair)))
         [] op = "map_put" /\ t.kind = "map" ->
              UInt(With(Clear(bits, Group(t, pair.i)), Slot(t, pair)))
         [] OTHER -> Fault

(* Operands are evaluated first, both of them whatever the operator.       *)
Applied(op, t, v) ==
  LET kinds == [i \in DOMAIN v |-> v[i].kind] IN
  CASE \E i \in DOMAIN v : v[i] = Fault -> Fault
    [] op = "==" -> Bool(v[1] = v[2])
    [] op = "!=" -> Bool(v[1] # v[2])
    [] op = "!" /\ kinds = <<"Bool">> -> Bool(v[1].i = 0)
    [] op = "is_empty" /\ kinds = <<"UInt">> -> Bool(v[1].i = 0)
    [] op = "&&" /\ kinds = <<"Bool", "Bool">> -> Bool(v[1].i = 1 /\ v[2].i = 1)
    [] op = "||" /\ kinds = <<"Bool", "Bool">> -> Bool(v[1].i = 1 \/ v[2].i = 1)
    [] kinds = <<"UInt", "UInt">> -> OnNumbers(op, v[1].i, v[2].i)
    [] kinds = <<"UInt", "Variant">> -> OnVariant(op, t, v[1].i, v[2].i)
    [] kinds = <<"UInt", "Pair">> -> OnPair(op, t, v[1].i, v[2])
    [] OTHER -> Fault

RECURSIVE Eval(_, _, _)
Eval(types, s, e) ==
  CASE e.op = "literal" -> e.value
    [] e.op = "field" -> s[e.name]
    [] OTHER -> Applied(e.op, TypeOf(types, e.args[1]),
                        [i \in DOMAIN e.args |-> Eval(types, s, e.args[i])])

ValidValue(t, v) ==
  CASE t.kind = "bool" -> v.kind = "Bool"
    [] t.kind = "uint" -> v.kind = "UInt" /\ v.i \in t.a..t.b
    [] t.kind = "enum" -> v.kind = "Variant" /\ v.i < t.a
    [] OTHER -> v.kind = "UInt" /\ v.i < 2^Width(t)

(***************************************************************************)
(* What the author means: the tree Rust's grammar gives the text, or, the  *)
(* other way round, the text an author writes for a tree.                  *)
(***************************************************************************)
Joint == {"||", "&&", "+", "-", "%"} \cup Comparisons
Binds(op) ==
  CASE op = "||" -> 1 [] op = "&&" -> 2 [] op \in Comparisons -> 3
    [] op \in {"+", "-"} -> 4 [] op = "%" -> 5 [] OTHER -> 6

(* Under a tighter operator, or as the right operand of an equal one, Rust *)
(* needs parentheses.  An "explicit" author puts every "!" and every       *)
(* arithmetic operand in parentheses as well.                              *)
Parenthesised(style, op, operand, right) ==
  \/ Binds(operand.op) < Binds(op)
  \/ Binds(operand.op) = Binds(op) /\ (right \/ op \in Comparisons)
  \/ style = "explicit" /\ operand.op = "!"
  \/ style = "explicit" /\ operand.op \in Joint /\ op \in {"+", "-", "%"}

RECURSIVE Text(_, _)
Operand(style, op, operand, right) ==
  IF op \in Joint \cup {"!"} /\ operand.op \in Joint \cup {"!"}
     /\ (IF op = "!" THEN operand.op # "!" ELSE Parenthesised(style, op, operand, right))
  THEN <<"(">> \o Text(style, operand) \o <<")">>
  ELSE Text(style, operand)
RECURSIVE TextOfArguments(_, _)
TextOfArguments(style, args) ==
  IF Len(args) = 1 THEN Text(style, args[1])
  ELSE Text(style, args[1]) \o <<",">> \o TextOfArguments(style, Tail(args))
Text(style, tree) ==
  CASE tree.args = <<>> -> <<tree.op>>
    [] tree.op = "!" -> <<"!">> \o Operand(style, "!", tree.args[1], TRUE)
    [] tree.op \in Joint ->
         Operand(style, tree.op, tree.args[1], FALSE) \o <<tree.op>>
           \o Operand(style, tree.op, tree.args[2], TRUE)
    [] OTHER -> <<tree.op, "(">> \o TextOfArguments(style, tree.args) \o <<")">>

(***************************************************************************)
(* lower_machine_expr_with_enums.                                          *)
(***************************************************************************)
Not(e) == Node("!", <<e>>)
And(l, r) == Node("&&", <<l, r>>)
Or(l, r) == Node("||", <<l, r>>)

PairOf(l, r) == Literal(Pair(l.value.i, r.value.i))

(* A call by name, its arguments lowered.                                  *)
Called(name, a) ==
  CASE name = "implies" -> Or(Not(a[1]), a[2])
    [] name = "iff" -> Or(And(a[1], a[2]), And(Not(a[1]), Not(a[2])))
    [] name = "xor" -> And(Or(a[1], a[2]), Not(And(a[1], a[2])))
    [] Len(a) = 3 -> Node(name, <<a[1], PairOf(a[2], a[3])>>)
    [] OTHER -> Node(name, a)

(* How many parentheses are open behind the k-th token.                    *)
Depth(text, k) ==
  Len(SelectSeq(SubSeq(text, 1, k), LAMBDA t : t = "("))
    - Len(SelectSeq(SubSeq(text, 1, k), LAMBDA t : t = ")"))

RECURSIVE StripWrappingParens(_)
StripWrappingParens(text) ==
  IF text[1] = "(" /\ \A k \in 1..(Len(text) - 1) : Depth(text, k) > 0
  THEN StripWrappingParens(SubSeq(text, 2, Len(text) - 1))
  ELSE text

IsCall(text) ==
  /\ Len(text) > 2 /\ text[1] \notin {"(", "!"} /\ text[2] = "("
  /\ \A k \in 2..(Len(text) - 1) : Depth(text, k) > 0

RECURSIVE Arguments(_)
Arguments(text) ==
  LET commas == {k \in DOMAIN text : text[k] = "," /\ Depth(text, k) = 0}
      first == CHOOSE k \in commas : \A c \in commas : k <= c
  IN  IF commas = {} THEN <<text>>
      ELSE <<SubSeq(text, 1, first - 1)>> \o Arguments(SubSeq(text, first + 1, Len(text)))

(* Where a text is split: at the first occurrence, outside parentheses, of *)
(* the first of these operators that occurs there at all.                  *)
SplitsConjunctionsFirst == <<"&&", "||", "!=", ">=", "<=", ">", "<", "==", "-", "%", "+">>
Splits == <<"||", "&&", "!=", ">=", "<=", ">", "<", "==", "-", "%", "+">>
Outside(text, op) == {k \in DOMAIN text : text[k] = op /\ Depth(text, k) = 0}
SplitAt(text) ==
  LET found == {i \in DOMAIN Splits : Outside(text, Splits[i]) # {}}
      first == CHOOSE i \in found : \A j \in found : i <= j
  IN  IF found = {} THEN 0
      ELSE CHOOSE k \in Outside(text, Splits[first]) :
             \A c \in Outside(text, Splits[first]) : k <= c

RECURSIVE Lower(_)
LowerInfix(text) ==
  LET k == SplitAt(text) IN
  IF text[1] = "!" THEN Not(Lower(Tail(text)))
  ELSE IF k > 0
       THEN Node(text[k], <<Lower(SubSeq(text, 1, k - 1)), Lower(SubSeq(text, k + 1, Len(text)))>>)
       ELSE Field(text[1])
Lower(whole) ==
  LET text == StripWrappingParens(whole)
      parts == Arguments(SubSeq(text, 3, Len(text) - 1))
  IN  IF Len(text) = 1 /\ text[1] \in DOMAIN Literals THEN Literal(Literals[text[1]])
      ELSE IF IsCall(text) THEN Called(text[1], [i \in DOMAIN parts |-> Lower(parts[i])])
      ELSE LowerInfix(text)

(* The tree itself as nodes, whatever text it has; implies, iff and xor are *)
(* the functions the closures call.                                        *)
RustCall(name, a) ==
  CASE name = "iff" -> Node("==", a)
    [] name = "xor" -> Node("!=", a)
    [] OTHER -> Called(name, a)
RECURSIVE Meant(_)
Meant(tree) ==
  IF tree.args = <<>>
  THEN IF tree.op \in DOMAIN Literals THEN Literal(Literals[tree.op]) ELSE Field(tree.op)
  ELSE RustCall(tree.op, [i \in DOMAIN tree.args |-> Meant(tree.args[i])])

(* Rust has a value for it too: no subtraction below zero, which panics.   *)
RECURSIVE Defined(_, _, _)
Defined(types, s, e) ==
  /\ Eval(types, s, e) # Fault
  /\ \A i \in DOMAIN e.args : Defined(types, s, e.args[i])
  /\ e.op = "-" => Eval(types, s, e.args[1]).i >= Eval(types, s, e.args[2]).i

(***************************************************************************)
(* A run of the lowered model.                                             *)
(***************************************************************************)
LowerModel(w, style) ==
  [types |-> w.types, guard |-> Lower(Text(style, w.guard)),
   updates |-> [i \in DOMAIN w.updates |->
                  [field |-> w.updates[i].field, value |-> Lower(Text(style, w.updates[i].value))]]]

ValuesOf(t) ==
  CASE t.kind = "bool" -> {Bool(FALSE), Bool(TRUE)}
    [] t.kind = "uint" -> {UInt(n) : n \in t.a..t.b}
    [] t.kind = "enum" -> {Variant(k) : k \in 0..(t.a - 1)}
    [] OTHER -> {UInt(n) : n \in {m \in 0..(2^Width(t) - 1) :
                   t.kind = "map" => \A k, l \in Slots(t) :
                     Has(m, k) /\ Has(m, l) /\ k \div t.b = l \div t.b => k = l}}

(* apply_action_transition: every update reads the old state, and the last *)
(* update of a field counts.                                               *)
LastUpdate(m, f) ==
  LET of == {i \in DOMAIN m.updates : m.updates[i].field = f} IN
  IF of = {} THEN 0 ELSE CHOOSE i \in of : \A j \in of : j <= i
Steps(m, s) ==
  LET new == [i \in DOMAIN m.updates |-> Eval(m.types, s, m.updates[i].value)] IN
  IF /\ Eval(m.types, s, m.guard) = Bool(TRUE)
     /\ \A i \in DOMAIN new : ValidValue(m.types[m.updates[i].field], new[i])
  THEN {[f \in DOMAIN s |-> IF LastUpdate(m, f) = 0 THEN s[f] ELSE new[LastUpdate(m, f)]]}
  ELSE {}

vars == <<written, model, state>>

States(types) ==
  {s \in [DOMAIN types -> UNION {ValuesOf(types[f]) : f \in DOMAIN types}] :
     \A f \in DOMAIN types : s[f] \in ValuesOf(types[f])}

Init ==
  /\ written \in Written
  /\ \E style \in Styles : model = LowerModel(written, style)
  /\ state \in States(written.types)

Next ==
  /\ state' \in Steps(model, state)
  /\ UNCHANGED <<written, model>>

Spec == Init /\ [][Next]_vars

(* The expressions of a model, as it is meant and as it was lowered.       *)
Expressions ==
  {<<written.guard, model.guard>>}
    \cup {<<written.updates[i].value, model.updates[i].value>> : i \in DOMAIN model.updates}

(* Lowering keeps the meaning: in every state the lowered form of an       *)
(* expression has the value its author, and rustc, give it.  Code: the     *)
(* order of the cases of lower_machine_expr_with_enums, which decides what *)
(* a text without parentheses means.                                       *)
LoweringKeepsMeaning ==
  \A e \in Expressions :
    LET meant == Meant(e[1]) IN
    Defined(model.types, state, meant) =>
      Eval(model.types, state, e[2]) = Eval(model.types, state, meant)
===============================================================================
