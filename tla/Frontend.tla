------------------------------- MODULE Frontend -------------------------------
(* compile_model: a .valid file, read line by line, resolved, typechecked  *)
(* and lowered to the intermediate form.  A line is a sequence of tokens,  *)
(* and so is the text of an expression; a name of several tokens is the    *)
(* string they make.                                                       *)
EXTENDS Expressions
LOCAL INSTANCE SequencesExt

CONSTANTS
  Sources,      \* the files that are compiled
  Authored,     \* those of them as their authors wrote them; the rest is damaged
  Formulas,     \* the trees authors have in mind
  Words,        \* the tokens of letters, digits and underscores
  Valuations,   \* values for all names expressions may mention
  StepFields,   \* from the tokens prev.x and next.x to prev_x and next_x
  Numbers       \* from the tokens of numbers to their values

VARIABLES
  source,       \* the lines
  line,         \* the number of the next one
  section,      \* enum Section
  draft,        \* a ParsedModel; the last of its actions is the current one
  refused,      \* whether a line was reported
  stage,        \* "parse", "resolve", "typecheck", "lower", "done" or "refused"
  compiled      \* the ModelIr, once there is one

(***************************************************************************)
(* Lines.                                                                  *)
(***************************************************************************)
Name(text) == FoldLeft(LAMBDA x, y : x \o y, "", text)

Mentions(text, S) == \E k \in DOMAIN text : text[k] \in S
FirstOf(text, S) ==
  IF Mentions(text, S)
  THEN CHOOSE k \in DOMAIN text : text[k] \in S /\ \A j \in 1..(k - 1) : text[j] \notin S
  ELSE 0
Before(text, k) == SubSeq(text, 1, k - 1)
After(text, k) == SubSeq(text, k + 1, Len(text))
Starts(text, first) == Len(text) >= Len(first) /\ SubSeq(text, 1, Len(first)) = first
Named(text) ==
  LET k == FirstOf(text, {":"}) IN [name |-> Name(Before(text, k)), text |-> After(text, k)]

(* The first "=" of a line may be that of a comparison.                    *)
Signs == {"=", "==", "!=", "<=", ">="}
Assignment(text) ==
  LET k == FirstOf(text, Signs)
      left == CASE text[k] = "!=" -> <<"!">> [] text[k] = "<=" -> <<"<">>
                [] text[k] = ">=" -> <<">">> [] OTHER -> <<>>
  IN  [name |-> Name(Before(text, k) \o left),
       text |-> (IF text[k] = "==" THEN <<"=">> ELSE <<>>) \o After(text, k)]

Blocks == {"state", "init", "predicates", "scenarios"}
Declarations == {"property", "assume", "assert"}
IsBlock(text) == Len(text) = 2 /\ text[1] \in Blocks /\ text[2] = ":"
Declares(text) == Len(text) > 1 /\ text[1] \in {"model", "action"} \cup Declarations
IsHeader(text) == IsBlock(text) \/ Declares(text)

Action(name) == [name |-> name, role |-> "business", choices |-> <<>>, pre |-> {}, posts |-> <<>>]
KindAndText(text) ==
  IF ":" \in ToSet(text) THEN Named(text) ELSE [name |-> Name(text), text |-> <<>>]
Property(name, layer, definition) ==
  LET k == KindAndText(definition) IN
  [name |-> name, layer |-> layer, kind |-> k.name, text |-> k.text, scope |-> {}, on |-> {}]

(***************************************************************************)
(* parse_model.                                                            *)
(***************************************************************************)
Nothing ==
  [name |-> {}, state |-> <<>>, init |-> <<>>, predicates |-> <<>>, scenarios |-> <<>>,
   actions |-> <<>>, properties |-> <<>>]

Line == source[line]
Reading == stage = "parse" /\ line <= Len(source)
InBlock == Reading /\ Line # <<>> /\ ~IsHeader(Line)

ReadOn(read, next) ==
  /\ draft' = read /\ section' = next /\ line' = line + 1
  /\ UNCHANGED <<source, refused, stage, compiled>>
Report(next) ==
  /\ refused' = TRUE /\ section' = next /\ line' = line + 1
  /\ UNCHANGED <<source, draft, stage, compiled>>

SkipBlank == Reading /\ Line = <<>> /\ ReadOn(draft, section)

OpenModel ==
  /\ Reading /\ Declares(Line) /\ Line[1] = "model"
  /\ ReadOn([draft EXCEPT !.name = {Name(Tail(Line))}], "none")

OpenBlock == Reading /\ IsBlock(Line) /\ ReadOn(draft, Line[1])

OpenAction ==
  /\ Reading /\ Declares(Line) /\ Line[1] = "action"
  /\ LET name == Name(SelectSeq(Tail(Line), LAMBDA t : t # ":"))
     IN  ReadOn([draft EXCEPT !.actions = Append(@, Action(name))], "action_header")

OpenProperty ==
  /\ Reading /\ Declares(Line) /\ Line[1] \in Declarations
  /\ LET layer == IF Line[1] = "assume" THEN "assume" ELSE "assert"
         rest == Named(Tail(Line))
         declared == Property(rest.name, layer, rest.text)
     IN  IF ":" \notin ToSet(Line) THEN Report("none")
         ELSE ReadOn([draft EXCEPT !.properties = Append(@, declared)],
                     IF rest.text = <<>> THEN "property_header" ELSE "none")

(* A field, a predicate, a scenario.                                       *)
ReadNamed ==
  /\ InBlock /\ section \in {"state", "predicates", "scenarios"}
  /\ IF ":" \in ToSet(Line)
     THEN ReadOn([draft EXCEPT ![section] = Append(@, Named(Line))], section)
     ELSE Report(section)

ReadInit ==
  /\ InBlock /\ section = "init"
  /\ IF Mentions(Line, Signs)
     THEN ReadOn([draft EXCEPT !.init = Append(@, Assignment(Line))], section)
     ELSE Report(section)

(* The lines of an action: the guard and the role close the list of        *)
(* updates, a choice does not.                                             *)
InAction == InBlock /\ section \in {"action_header", "action_post"}
Current == Len(draft.actions)
Amended(part, value) == [draft EXCEPT !.actions[Current][part] = value]
Extended(part, value) == [draft EXCEPT !.actions[Current][part] = Append(@, value)]

ReadGuard ==
  /\ InAction /\ Starts(Line, <<"pre", ":">>)
  /\ ReadOn(Amended("pre", {After(Line, 2)}), "action_header")

ReadRole ==
  /\ InAction /\ Starts(Line, <<"role", ":">>)
  /\ ReadOn(Amended("role", Name(After(Line, 2))), "action_header")

ReadChoice ==
  /\ InAction /\ Starts(Line, <<"choose">>)
  /\ LET choice == Named(Tail(Line))
         values == SelectSeq(choice.text, LAMBDA t : t # ",")
     IN  IF ":" \notin ToSet(Line) \/ values = <<>> THEN Report(section)
         ELSE ReadOn(Extended("choices", [name |-> choice.name, values |-> values]), section)

OpenPosts == InAction /\ Line = <<"post", ":">> /\ ReadOn(draft, "action_post")

IsKeyed(text) ==
  \/ \E key \in {"pre", "role"} : Starts(text, <<key, ":">>)
  \/ text[1] = "choose" \/ text = <<"post", ":">>
ReadPost ==
  /\ InAction /\ ~IsKeyed(Line)
  /\ IF section = "action_post" /\ Mentions(Line, Signs)
     THEN ReadOn(Extended("posts", Assignment(Line)), section)
     ELSE Report(section)

(* The lines of a property that was opened without a definition.           *)
ReadProperty ==
  /\ InBlock /\ section = "property_header"
  /\ LET last == Len(draft.properties)
         k == KindAndText(Line)
     IN  ReadOn([draft EXCEPT !.properties[last] =
                   CASE Starts(Line, <<"when", ":">>) -> [@ EXCEPT !.scope = {After(Line, 2)}]
                     [] Starts(Line, <<"on", ":">>) -> [@ EXCEPT !.on = {Name(After(Line, 2))}]
                     [] OTHER -> [@ EXCEPT !.kind = k.name, !.text = k.text]],
                section)

ReadStray == InBlock /\ section = "none" /\ Report(section)

Pass(next, ir) ==
  /\ stage' = next /\ compiled' = ir
  /\ UNCHANGED <<source, line, section, draft, refused>>

EndParse ==
  /\ stage = "parse" /\ line > Len(source)
  /\ Pass(IF refused \/ draft.name = {} THEN "refused" ELSE "resolve", compiled)

(***************************************************************************)
(* resolve_model and typecheck_model.                                      *)
(***************************************************************************)
Distinct(items) == \A i, j \in DOMAIN items : items[i].name = items[j].name => i = j
NamesOf(items) == {items[i].name : i \in DOMAIN items}

Resolved ==
  /\ \A part \in {"state", "actions", "predicates", "scenarios", "properties"} : Distinct(draft[part])
  /\ NamesOf(draft.init) \subseteq NamesOf(draft.state)
  /\ \A a \in ToSet(draft.actions) :
       /\ Distinct(a.choices) /\ "" \notin NamesOf(a.choices)
       /\ NamesOf(a.posts) \subseteq NamesOf(draft.state)

IsBounded(text) ==
  text # <<>> /\ text[1] \in {"u8[", "u16[", "u32["} /\ Last(text) = "]" /\ ".." \in ToSet(text)

TypedAction(a) ==
  /\ a.role \in {"business", "setup"}
  /\ \A c \in ToSet(a.choices) : ToSet(c.values) \subseteq {"true", "false"} \cup DOMAIN Numbers
  /\ \A text \in a.pre : Mentions(text, {"+"}) => Mentions(text, Comparisons)
  /\ \A p \in ToSet(a.posts) : p.text # <<"unknown_expr">>

TypedProperty(p) ==
  /\ p.kind \in {"invariant", "reachability", "temporal", "cover", "transition", "deadlock_freedom"}
  /\ (p.text = <<>>) = (p.kind = "deadlock_freedom")
  /\ p.kind = "transition" => p.on # {}
  /\ p.kind \in {"deadlock_freedom", "temporal", "cover"} => p.on = {}

Typed ==
  /\ \A f \in ToSet(draft.state) : f.text = <<"bool">> \/ IsBounded(f.text)
  /\ \A i \in ToSet(draft.init) : ~Mentions(i.text, {"<", ">", "<=", ">="})
  /\ \A a \in ToSet(draft.actions) : TypedAction(a)
  /\ \A p \in ToSet(draft.properties) : TypedProperty(p)

Resolve ==
  stage = "resolve" /\ Pass(IF Resolved THEN "typecheck" ELSE "refused", compiled)
Typecheck ==
  stage = "typecheck" /\ Pass(IF Typed THEN "lower" ELSE "refused", compiled)

(***************************************************************************)
(* lower_expr: None is Unsupported, and so is what contains it.            *)
(***************************************************************************)
Unsupported == Node("unsupported", <<>>)
Made(e) == IF Unsupported \in ToSet(e.args) THEN Unsupported ELSE e

(* Parentheses open behind each token; one that opens nothing is ignored.  *)
Open(text) ==
  LET open[k \in 0..Len(text)] ==
        IF k = 0 THEN 0
        ELSE CASE text[k] = "(" -> open[k - 1] + 1
               [] text[k] = ")" -> IF open[k - 1] = 0 THEN 0 ELSE open[k - 1] - 1
               [] OTHER -> open[k - 1]
  IN  [k \in DOMAIN text |-> open[k]]
Bare(text, t) == {k \in DOMAIN text : text[k] = t /\ Open(text)[k] = 0}
FirstBare(text, t) == CHOOSE k \in Bare(text, t) : \A j \in Bare(text, t) : k <= j

RECURSIVE Unwrapped(_)
Unwrapped(text) ==
  IF /\ Len(text) > 1 /\ text[1] = "(" /\ Last(text) = ")"
     /\ \A k \in 1..(Len(text) - 1) : text[k] = ")" => Open(text)[k] > 0
  THEN Unwrapped(SubSeq(text, 2, Len(text) - 1))
  ELSE text

RECURSIVE Parts(_)
Parts(text) ==
  IF Bare(text, ",") = {} THEN <<text>>
  ELSE LET k == FirstBare(text, ",") IN <<Before(text, k)>> \o Parts(After(text, k))

Calls ==
  [implies |-> 2, iff |-> 2, xor |-> 2, always |-> 1, eventually |-> 1, next |-> 1, until |-> 2]
IsDslCall(text) ==
  /\ Len(text) > 2 /\ text[1] \in DOMAIN Calls /\ text[2] = "(" /\ Last(text) = ")"
  /\ Len(Parts(SubSeq(text, 3, Len(text) - 1))) = Calls[text[1]]

IsLiteral(text) == Len(text) = 1 /\ text[1] \in {"true", "false"} \cup DOMAIN Numbers
LowerValue(text) ==
  Literal(CASE text[1] = "true" -> Bool(TRUE) [] text[1] = "false" -> Bool(FALSE)
            [] OTHER -> UInt(Numbers[text[1]]))

LowerFieldRef(text, mode) ==
  CASE Len(text) < 2 /\ ToSet(text) \subseteq Words -> Field(Name(text))
    [] mode = "transition" /\ Len(text) = 1 /\ text[1] \in DOMAIN StepFields -> Field(StepFields[text[1]])
    [] OTHER -> Unsupported

(* The operators a text is split at, the first that occurs outside        *)
(* parentheses first; what is joined by the loosest is taken apart first.  *)
DslSplitsConjunctionsFirst == <<"&&", "||", "!=", ">=", "<=", ">", "<", "==", "-", "%", "+">>
DslSplits == <<"||", "&&", "!=", ">=", "<=", ">", "<", "==", "-", "%", "+">>

(* preds: what the names of predicates stand for, without those that are   *)
(* being replaced.                                                         *)
RECURSIVE LowerExpr(_, _, _)
LowerCall(text, preds, mode) ==
  LET args == Parts(SubSeq(text, 3, Len(text) - 1))
      lowered == [i \in DOMAIN args |-> LowerExpr(args[i], preds, mode)]
  IN  IF Unsupported \in ToSet(lowered) THEN Unsupported ELSE Called(text[1], lowered)
LowerJoint(text, preds, mode) ==
  LET found == {i \in DOMAIN DslSplits : Bare(text, DslSplits[i]) # {}}
      op == DslSplits[CHOOSE i \in found : \A j \in found : i <= j]
      k == FirstBare(text, op)
  IN  IF found = {} THEN LowerFieldRef(text, mode)
      ELSE Made(Node(op, <<LowerExpr(Before(text, k), preds, mode), LowerExpr(After(text, k), preds, mode)>>))
LowerPredicate(name, preds, mode) ==
  LowerExpr(preds[name], [p \in DOMAIN preds \ {name} |-> preds[p]], mode)
LowerExpr(whole, preds, mode) ==
  LET text == Unwrapped(whole) IN
  CASE IsLiteral(text) -> LowerValue(text)
    [] Name(text) \in DOMAIN preds /\ LowerPredicate(Name(text), preds, mode) # Unsupported ->
         LowerPredicate(Name(text), preds, mode)
    [] IsDslCall(text) -> LowerCall(text, preds, mode)
    [] Starts(text, <<"!">>) -> Made(Not(LowerExpr(Tail(text), preds, mode)))
    [] OTHER -> LowerJoint(text, preds, mode)

(***************************************************************************)
(* lower_model.                                                            *)
(***************************************************************************)
(* Every combination of the values of the choices, the first one slowest.  *)
Bindings(choices) ==
  LET Times(bindings, c) ==
        FlattenSeq([i \in DOMAIN bindings |->
                      [j \in DOMAIN c.values |-> Append(bindings[i], <<c.name, c.values[j]>>)]])
  IN  FoldLeft(Times, <<<<>>>>, choices)

Substitute(text, binding) ==
  [k \in DOMAIN text |->
     IF \E b \in ToSet(binding) : text[k] = "{{" \o b[1] \o "}}"
     THEN (CHOOSE b \in ToSet(binding) : text[k] = "{{" \o b[1] \o "}}")[2]
     ELSE text[k]]

(* A bound that is no number of the width makes the field a flag.          *)
Fits(width, t) ==
  t \in DOMAIN Numbers /\ (width = "u8[" => Numbers[t] < 2^8) /\ (width = "u16[" => Numbers[t] < 2^16)
LowerType(text) ==
  IF Len(text) = 5 /\ text[1] # "bool" /\ Fits(text[1], text[2]) /\ Fits(text[1], text[4])
  THEN Type(text[1], Numbers[text[2]], Numbers[text[4]])
  ELSE Type("bool", 0, 0)

Predicates == [p \in NamesOf(draft.predicates) |->
                 (CHOOSE d \in ToSet(draft.predicates) : d.name = p).text]
Lowered(text, mode) == LowerExpr(text, Predicates, mode)
LoweredNamed(items) ==
  [i \in DOMAIN items |-> [name |-> items[i].name, expr |-> Lowered(items[i].text, "current")]]

LowerAction(a, binding) ==
  [id |-> <<a.name, binding>>, label |-> a.name, role |-> a.role,
   reads |-> NamesOf(a.posts), writes |-> NamesOf(a.posts),
   guard |-> IF a.pre = {} THEN Literal(Bool(TRUE))
             ELSE Lowered(Substitute(CHOOSE t \in a.pre : TRUE, binding), "current"),
   updates |-> LoweredNamed([i \in DOMAIN a.posts |->
                 [a.posts[i] EXCEPT !.text = Substitute(@, binding)]])]

(* A scope of deadlock_freedom that cannot be lowered is dropped, and so   *)
(* is the filter of an invariant or a reachability property.               *)
LowerProperty(p) ==
  LET mode == IF p.kind = "transition" THEN "transition" ELSE "current"
      scope == {Lowered(t, mode) : t \in p.scope}
      none == p.kind = "deadlock_freedom"
  IN  [name |-> p.name, kind |-> p.kind, layer |-> p.layer,
       expr |-> IF none THEN Literal(Bool(TRUE)) ELSE Lowered(p.text, mode),
       scope |-> IF none THEN scope \ {Unsupported} ELSE scope,
       on |-> IF p.kind = "transition" THEN p.on ELSE {}]

LowerDraft ==
  [name |-> draft.name,
   state |-> [i \in DOMAIN draft.state |->
                [name |-> draft.state[i].name, type |-> LowerType(draft.state[i].text)]],
   init |-> [i \in DOMAIN draft.init |->
               [name |-> draft.init[i].name,
                expr |-> IF IsLiteral(draft.init[i].text) THEN LowerValue(draft.init[i].text) ELSE Unsupported]],
   actions |-> FlattenSeq([i \in DOMAIN draft.actions |->
                 LET a == draft.actions[i] bindings == Bindings(a.choices)
                 IN  [j \in DOMAIN bindings |-> LowerAction(a, bindings[j])]]),
   predicates |-> LoweredNamed(draft.predicates),
   scenarios |-> LoweredNamed(draft.scenarios),
   properties |-> [i \in DOMAIN draft.properties |-> LowerProperty(draft.properties[i])]]

ExpressionsOf(ir) ==
  {item.expr : item \in UNION {ToSet(ir.init), ToSet(ir.predicates), ToSet(ir.scenarios), ToSet(ir.properties)}}
    \cup UNION {p.scope : p \in ToSet(ir.properties)}
    \cup UNION {{a.guard} \cup {u.expr : u \in ToSet(a.updates)} : a \in ToSet(ir.actions)}

LowerAll ==
  /\ stage = "lower"
  /\ IF Unsupported \in ExpressionsOf(LowerDraft) THEN Pass("refused", compiled)
     ELSE Pass("done", {LowerDraft})

frontVars == <<source, line, section, draft, refused, stage, compiled>>

FrontInit ==
  /\ source \in Sources /\ line = 1 /\ section = "none" /\ draft = Nothing
  /\ refused = FALSE /\ stage = "parse" /\ compiled = {}

FrontNext ==
  \/ SkipBlank \/ OpenModel \/ OpenBlock \/ OpenAction \/ OpenProperty
  \/ ReadNamed \/ ReadInit \/ ReadGuard \/ ReadRole \/ ReadChoice \/ OpenPosts \/ ReadPost
  \/ ReadProperty \/ ReadStray
  \/ EndParse \/ Resolve \/ Typecheck \/ LowerAll

(***************************************************************************)
(* What a file says, whatever order it is read in: a line belongs to the   *)
(* last header above it, and what is said twice is said by the last line.  *)
(***************************************************************************)
Lines == SelectSeq([i \in DOMAIN source |-> i], LAMBDA i : source[i] # <<>>)
HeaderOf(i) ==
  LET above == {j \in 1..i : IsHeader(source[j])} IN
  IF above = {} THEN 0 ELSE CHOOSE j \in above : \A k \in above : k <= j
Headers(words) == SelectSeq(Lines, LAMBDA i : Declares(source[i]) /\ source[i][1] \in words)
Below(j) == SelectSeq(Lines, LAMBDA i : HeaderOf(i) = j /\ i # j)
Under(block) ==
  SelectSeq(Lines, LAMBDA i : ~IsHeader(source[i]) /\ HeaderOf(i) # 0
                                /\ source[HeaderOf(i)] = <<block, ":">>)
Said(at, key) ==
  LET of == {i \in ToSet(at) : Starts(source[i], <<key, ":">>)} IN
  IF of = {} THEN {} ELSE {After(source[CHOOSE i \in of : \A j \in of : j <= i], 2)}

(* Every line is below a header that takes lines, and an update below the  *)
(* "post:" of its action with neither guard nor role in between.           *)
Governs(i) ==
  {j \in ToSet(Below(HeaderOf(i))) : j < i /\ IsKeyed(source[j]) /\ source[j][1] # "choose"}
EveryLineHasItsPlace ==
  \A i \in ToSet(Lines) :
    LET header == source[HeaderOf(i)] IN
    \/ IsHeader(source[i])
    \/ HeaderOf(i) > 0 /\ (IsBlock(header) \/ (header[1] \in Declarations /\ Last(header) = ":"))
    \/ HeaderOf(i) > 0 /\ header[1] = "action"
         /\ \/ IsKeyed(source[i])
            \/ \E j \in Governs(i) : source[j][1] = "post" /\ \A k \in Governs(i) : k <= j

(* The tree an author has in mind, the choices replaced by their values    *)
(* and the predicates by what they stand for.                              *)
TreeOf(text) == {t \in Formulas : Text("explicit", t) = text}
PredicateText(p) ==
  LET i == CHOOSE i \in ToSet(Under("predicates")) : Named(source[i]).name = p IN Named(source[i]).text
RECURSIVE Intended(_, _, _)
Intended(tree, binding, preds) ==
  LET bound == {b[2] : b \in {b \in ToSet(binding) : tree.op = "{{" \o b[1] \o "}}"}}
      word == IF bound = {} THEN tree.op ELSE CHOOSE v \in bound : TRUE
  IN  CASE tree.args # <<>> ->
             RustCall(tree.op, [i \in DOMAIN tree.args |-> Intended(tree.args[i], binding, preds)])
        [] IsLiteral(<<word>>) -> LowerValue(<<word>>)
        [] word \in preds ->
             Intended(CHOOSE t \in TreeOf(PredicateText(word)) : TRUE, <<>>, preds \ {word})
        [] word \in DOMAIN StepFields -> Field(StepFields[word])
        [] OTHER -> Field(word)

Modal == {"always", "eventually", "next", "until"}
RECURSIVE SameMeaning(_, _)
SameMeaning(e, meant) ==
  \/ e = meant
  \/ /\ meant.op \in Modal /\ e.op = meant.op
     /\ \A i \in DOMAIN e.args : SameMeaning(e.args[i], meant.args[i])
  \/ /\ meant.op \notin Modal
     /\ \A s \in Valuations :
          LET types == [f \in DOMAIN s |-> NoType] IN Eval(types, s, e) = Eval(types, s, meant)
(* Nothing at all is read as the field without a name.                     *)
Says(e, text, binding) ==
  \/ text = <<>> /\ e = Field("")
  \/ \E t \in TreeOf(text) :
       SameMeaning(e, Intended(t, binding, {Named(source[i]).name : i \in ToSet(Under("predicates"))}))

SayNamed(items, at) ==
  /\ Len(items) = Len(at)
  /\ \A k \in DOMAIN at :
       LET said == Named(source[at[k]]) IN
       items[k].name = said.name /\ Says(items[k].expr, said.text, <<>>)

(* A declared type: its bounds, where they are numbers of its width.       *)
SayFields(fields, at) ==
  /\ Len(fields) = Len(at)
  /\ \A k \in DOMAIN at :
       LET said == Named(source[at[k]])
           bounds == {Numbers[t] : t \in ToSet(said.text) \cap DOMAIN Numbers}
       IN  /\ fields[k].name = said.name
           /\ IF said.text = <<"bool">> THEN fields[k].type.kind = "bool"
              ELSE \/ {fields[k].type.a, fields[k].type.b} = bounds
                   \/ \E n \in bounds : n > 255 /\ said.text[1] = "u8["

SayUpdates(updates, at, binding) ==
  /\ Len(updates) = Len(at)
  /\ \A k \in DOMAIN at :
       LET said == Assignment(source[at[k]]) IN
       updates[k].name = said.name /\ Says(updates[k].expr, said.text, binding)

(* One step for every choice of values.                                    *)
Ways(at) ==
  LET chosen == SelectSeq(at, LAMBDA i : source[i][1] = "choose")
      choice == [k \in DOMAIN chosen |-> Named(Tail(source[chosen[k]]))]
      values == [k \in DOMAIN choice |-> {<<choice[k].name, v>> : v \in ToSet(choice[k].text) \ {","}}]
  IN  {b \in [DOMAIN values -> UNION {values[k] : k \in DOMAIN values}] :
         \A k \in DOMAIN values : b[k] \in values[k]}
SayActions(actions) ==
  LET heads == Headers({"action"})
      NameAt(j) == source[j][2]
      Of(j) == {i \in DOMAIN actions : actions[i].label = NameAt(j)}
  IN  /\ ToSet(actions) = {a \in ToSet(actions) : \E j \in ToSet(heads) : a.label = NameAt(j)}
      /\ \A k, l \in DOMAIN heads : k < l => \A i \in Of(heads[k]), j \in Of(heads[l]) : i < j
      /\ \A j \in ToSet(heads) :
           LET at == Below(j) IN
           /\ {actions[i].id : i \in Of(j)} = {<<NameAt(j), b>> : b \in Ways(at)}
           /\ \A i \in Of(j) :
                LET a == actions[i] IN
                /\ {<<a.role>>} = IF Said(at, "role") = {} THEN {<<"business">>} ELSE Said(at, "role")
                /\ IF Said(at, "pre") = {} THEN a.guard = Literal(Bool(TRUE))
                   ELSE \E text \in Said(at, "pre") : Says(a.guard, text, a.id[2])
                /\ SayUpdates(a.updates, SelectSeq(at, LAMBDA x : ~IsKeyed(source[x])), a.id[2])

SayProperties(properties) ==
  LET heads == Headers(Declarations) IN
  /\ Len(properties) = Len(heads)
  /\ \A k \in DOMAIN heads :
       LET p == properties[k]
           declared == Named(Tail(source[heads[k]]))
           at == Below(heads[k])
           definitions == SelectSeq(at, LAMBDA i : source[i][1] \notin {"when", "on"})
           definition == KindAndText(IF definitions = <<>> THEN declared.text ELSE source[Last(definitions)])
       IN  /\ p.name = declared.name /\ p.kind = definition.name
           /\ p.layer = (IF source[heads[k]][1] = "assume" THEN "assume" ELSE "assert")
           /\ p.kind # "deadlock_freedom" => Says(p.expr, definition.text, <<>>)
           /\ \A scope \in p.scope : \E text \in Said(at, "when") : Says(scope, text, <<>>)
           /\ p.scope = {} => Said(at, "when") = {} \/ p.kind = "deadlock_freedom"
           /\ p.kind = "transition" => {<<a>> : a \in p.on} = Said(at, "on")

(* What an author wrote compiles; and of every file, damaged ones too,     *)
(* only what it says comes out: no line is dropped or counted under the    *)
(* wrong header, every choice of values is an action, and every expression *)
(* has its author's value in every state, predicates and choices replaced. *)
(* Code: the sections of parse_model, which a line of one kind leaves to   *)
(* the next, and the order of the cases of lower_expr.                     *)
FrontendExact ==
  /\ stage = "refused" => source \notin Authored
  /\ \A ir \in compiled :
       /\ EveryLineHasItsPlace
       /\ ir.name = {Name(Tail(source[Last(Headers({"model"}))]))}
       /\ SayFields(ir.state, Under("state"))
       /\ SayUpdates(ir.init, Under("init"), <<>>)
       /\ SayNamed(ir.predicates, Under("predicates"))
       /\ SayNamed(ir.scenarios, Under("scenarios"))
       /\ SayActions(ir.actions)
       /\ SayProperties(ir.properties)
===============================================================================
