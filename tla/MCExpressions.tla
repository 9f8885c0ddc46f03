---------------------------- MODULE MCExpressions -----------------------------
(* Instances for TLC of Encodings, for models of one action, and of        *)
(* Frontend, for files; a behaviour is of one of the two, and the variables *)
(* of the other rest.                                                      *)
EXTENDS Encodings, Frontend
LOCAL INSTANCE SequencesExt

(* Trees, as their authors mean them.                                      *)
T(name) == Node(name, <<>>)
U(op, x) == Node(op, <<x>>)
B(op, x, y) == Node(op, <<x, y>>)
C(op, x, y, z) == Node(op, <<x, y, z>>)
All2(Ops, L, R) == {B(op, x, y) : op \in Ops, x \in L, y \in R}

MCLiterals ==
  [l \in {"true", "false", "0", "1", "2", "5", "X", "Y", "Z"} |->
     CASE l = "true" -> Bool(TRUE) [] l = "false" -> Bool(FALSE)
       [] l = "0" -> UInt(0) [] l = "1" -> UInt(1) [] l = "2" -> UInt(2) [] l = "5" -> UInt(5)
       [] l = "X" -> Variant(0) [] l = "Y" -> Variant(1) [] l = "Z" -> Variant(2)]

Asks(types, guards) == [types : {types}, guard : guards, updates : {<<>>}]
Sets(types, f, values) ==
  [types : {types}, guard : {T("true")}, updates : {<<[field |-> f, value |-> v]>> : v \in values}]

Writes(types, updates) == [types : {types}, guard : {T("true")}, updates : updates]
To(f, v) == [field |-> f, value |-> v]

(* Two bounded integers and a flag.                                        *)
Counters == [n |-> Type("uint", 0, 3), k |-> Type("uint", 1, 2), p |-> Type("bool", 0, 0)]
Terms == All2({"+", "-", "%"}, {T("n"), T("k"), T("5")}, {T("n"), T("k"), T("2")})
Deep == All2({"+", "-", "%"}, All2({"+", "-", "%"}, {T("n")}, {T("k"), T("1")}), {T("k"), T("2")})
          \cup All2({"+", "-", "%"}, {T("5"), T("n")}, All2({"+", "-", "%"}, {T("n")}, {T("k"), T("2")}))
          \cup All2({"%"}, {T("n"), T("5")}, All2({"+", "-", "%"}, {T("2"), T("5"), T("k")}, {T("k"), T("n")}))
Atoms == {T("p"), U("!", T("p")), B("==", T("n"), T("k")), B("<", T("n"), T("2"))}
Compared == All2(Comparisons, {T("n"), B("+", T("n"), T("k")), B("-", T("n"), T("1"))}, {T("k"), T("2")})
Connected == All2({"&&", "||", "==", "!=", "implies", "iff", "xor"}, Atoms, Atoms)
Chained == {B(o, B(i, x, y), z) : o \in {"&&", "||"}, i \in {"&&", "||"},
              x \in {T("p"), U("!", T("p"))}, y \in {U("!", B("<", T("n"), T("k")))}, z \in Atoms}
             \cup {U("!", B(o, x, y)) : o \in {"&&", "||", "=="}, x \in Atoms, y \in Atoms}

(* A set of three variants, and another.                                   *)
Roles == [s |-> Type("set", 3, 0), p |-> Type("bool", 0, 0)]
Variants == {T("X"), T("Y"), T("Z")}
SetChains == {T("s")} \cup All2({"insert", "remove"}, {T("s")}, Variants)
               \cup All2({"insert", "remove"}, {B("insert", T("s"), T("X")), B("remove", T("s"), T("Y"))}, Variants)
SetAsked == All2({"contains"}, SetChains, {T("X"), T("Y")}) \cup {U("is_empty", c) : c \in SetChains}
              \cup All2({"==", "!="}, {T("s")}, SetChains)
              \cup {B("==", T("p"), U("is_empty", T("s"))), B("||", U("!", T("p")), U("is_empty", T("s")))}

(* An enumeration beside a set: sat-varisat refuses it.                    *)
Modes == [e |-> Type("enum", 3, 0), s |-> Type("set", 2, 0)]
ModeAsked == {B(op, x, y) : op \in {"==", "!="}, x \in {T("e")}, y \in Variants}

(* Relations and maps of two by two.                                       *)
Grants == [r |-> Type("relation", 2, 2), q |-> Type("relation", 2, 2)]
Pairs == {<<T("X"), T("Y")>>, <<T("Y"), T("X")>>, <<T("Y"), T("Y")>>}
RelChains == {T("r")} \cup {C(op, T("r"), x[1], x[2]) : op \in {"rel_insert", "rel_remove"}, x \in Pairs}
Twice == C("rel_remove", C("rel_insert", T("r"), T("X"), T("Y")), T("Y"), T("X"))
RelAsked == {C("rel_contains", c, x[1], x[2]) : c \in {T("r"), Twice}, x \in Pairs}
              \cup {U("is_empty", c) : c \in RelChains}
              \cup All2({"==", "!=", "rel_intersects"}, {T("q")}, {T("r"), Twice})

Owners == [h |-> Type("map", 2, 2), g |-> Type("map", 2, 2)]
MapChains == {T("h")} \cup {C("map_put", T("h"), x[1], x[2]) : x \in Pairs}
               \cup {B("map_remove", T("h"), x) : x \in {T("X"), T("Y")}}
               \cup {C("map_put", B("map_remove", T("h"), T("X")), T("Y"), T("X"))}
MapAsked == {C("map_contains_entry", c, x[1], x[2]) : c \in MapChains, x \in Pairs}
              \cup All2({"map_contains_key"}, MapChains, {T("X"), T("Y")})
              \cup {U("is_empty", c) : c \in MapChains}
              \cup All2({"==", "!="}, {T("g")}, MapChains)

MCWritten ==
  Asks(Counters, Compared \cup Connected \cup Chained) \cup Sets(Counters, "n", Terms \cup Deep)
    \cup Sets(Counters, "p", Atoms) \cup Sets(Counters, "k", Terms)
    \cup Writes(Counters, {<<To("n", T("k")), To("k", x)>> : x \in Terms \cup {T("n")}})
    \cup Asks(Roles, SetAsked) \cup Sets(Roles, "s", SetChains)
    \cup Asks(Modes, ModeAsked) \cup Sets(Modes, "e", {T("X"), T("Z")})
    \cup Asks(Grants, RelAsked) \cup Sets(Grants, "q", RelChains \cup {Twice})
    \cup Asks(Owners, MapAsked) \cup Sets(Owners, "g", MapChains)

(* The model of examples/iam_transition_registry.rs, its second invariant  *)
(* in the place of a guard.                                                *)
Access == [billing_read_allowed |-> Type("bool", 0, 0), session_active |-> Type("bool", 0, 0)]
IamWritten ==
  Asks(Access, {B("||", U("!", T("billing_read_allowed")), T("session_active"))})

-------------------------------------------------------------------------------
(* Frontend.                                                               *)
Low == B("<", T("n"), T("2"))
Guard == B("&&", T("low"), B("||", U("!", T("p")), B("&&", B("<=", T("{{k}}"), T("2")), T("p"))))
Loose == B("||", B("&&", T("p"), T("low")), B("==", B("+", T("n"), T("1")), B("-", T("2"), T("n"))))
Step == B("implies", T("low"), B("==", T("next.n"), B("+", T("prev.n"), T("1"))))
MCFormulas ==
  {Low, Guard, Loose, Step, B("<", T("n"), T("1")), T("next.n"), T("n"), T("p"), T("low"), T("bool"), T("setup"), T("Inc"), T("0"), T("1"),
   T("false"), B("!=", T("n"), T("0")), B("+", T("n"), T("{{k}}")), B("iff", T("p"), Low),
   B("xor", T("p"), T("low")), B("until", T("p"), U("always", T("low"))),
   U("eventually", U("next", B("implies", T("p"), T("low"))))}
AsText(tree) == Text("explicit", tree)

Counter ==
  <<<<"model", "M">>,
    <<"state", ":">>, <<"n", ":", "u8[", "0", "..", "2", "]">>, <<"p", ":", "bool">>,
    <<"init", ":">>, <<"n", "=", "0">>, <<"p", "=", "false">>,
    <<"predicates", ":">>, <<"low", ":">> \o AsText(Low),
    <<"scenarios", ":">>, <<"started", ":">> \o AsText(B("!=", T("n"), T("0"))),
    <<"action", "Inc", ":">>, <<"role", ":", "setup">>, <<"choose", "k", ":", "1", ",", "2">>,
    <<"pre", ":">> \o AsText(Guard), <<"post", ":">>,
    <<"n", "=">> \o AsText(B("+", T("n"), T("{{k}}"))), <<"p", "=">> \o AsText(B("iff", T("p"), Low)),
    <<>>,
    <<"property", "Safe", ":">>, <<"when", ":", "p">>, <<"invariant", ":">> \o AsText(Loose),
    <<"property", "Steps", ":">>, <<"transition", ":">> \o AsText(Step), <<"on", ":", "Inc">>,
    <<"assume", "Env", ":", "reachability", ":", "p">>,
    <<"assert", "Free", ":", "deadlock_freedom">>>>

(* Two choices, an action of nothing but a name, and formulas of time; the *)
(* fields come last.                                                       *)
Timed ==
  <<<<"model", "T">>, <<"init", ":">>, <<"p", "=", "false">>, <<"n", "=", "1">>,
    <<"action", "Wait">>,
    <<"action", "Inc", ":">>, <<"post", ":">>, <<"choose", "k", ":", "0", ",", "1">>,
    <<"n", "=">> \o AsText(B("+", T("n"), T("{{k}}"))),
    <<"choose", "j", ":", "true", ",", "false", ",", "2">>,
    <<"assert", "Live", ":">>, <<"temporal", ":">> \o AsText(B("until", T("p"), U("always", T("low")))),
    <<"assert", "Seen", ":", "cover", ":">> \o AsText(B("xor", T("p"), T("low"))),
    <<"assert", "Late", ":", "temporal", ":">>
       \o AsText(U("eventually", U("next", B("implies", T("p"), T("low"))))),
    <<"state", ":">>, <<"n", ":", "u16[", "0", "..", "300", "]">>, <<"p", ":", "bool">>,
    <<"predicates", ":">>, <<"low", ":">> \o AsText(Low)>>

(* A line goes missing, moves, or is there twice; another is in its place. *)
Others ==
  {<<"n", ":", "u8[", "0", "..", "300", "]">>, <<"n", ":", "u9[", "0", "..", "2", "]">>,
   <<"role", ":", "admin">>, <<"choose", "k", ":", ",">>, <<"choose", "k", ":", "n">>,
   <<"choose", "k">>, <<"pre", ":">> \o AsText(B("+", T("n"), T("{{k}}"))),
   <<"low", ":", "low">>, <<"n", "=", "unknown_expr">>, <<"n", "=", "n", "<", "1">>,
   <<"property", "Safe">>, <<"deadlock_freedom", ":", "p">>, <<"cover", ":", "p">>,
   <<"when", ":", "next.n">>, <<"invariant", ":", "next.n">>, <<"low">>}
Moved(s, i, j) ==
  LET rest == SubSeq(s, 1, i - 1) \o SubSeq(s, i + 1, Len(s)) IN InsertAt(rest, j, s[i])
Damaged(s) ==
  {Moved(s, i, j) : i, j \in DOMAIN s}
    \cup {InsertAt(s, j, s[i]) : i, j \in DOMAIN s}
    \cup {SubSeq(s, 1, i - 1) \o SubSeq(s, i + 1, Len(s)) : i \in DOMAIN s}
    \cup {[s EXCEPT ![i] = other] : i \in DOMAIN s, other \in Others}

MCAuthored == {Counter, Timed}
MCSources == UNION {Damaged(s) : s \in MCAuthored}
MCWords ==
  {"n", "p", "low", "started", "bool", "setup", "Inc", "deadlock_freedom", "0", "1", "2", "300", "true", "false"}
MCStepFields == [t \in {"prev.n", "next.n"} |-> IF t = "prev.n" THEN "prev_n" ELSE "next_n"]
MCNumbers ==
  [t \in {"0", "1", "2", "300"} |->
     CASE t = "0" -> 0 [] t = "1" -> 1 [] t = "2" -> 2 [] t = "300" -> 300]
MCValuations ==
  {[n |-> UInt(n), prev_n |-> UInt(m), next_n |-> UInt(k), p |-> Bool(a), low |-> Bool(b), bool |-> Bool(b)] :
     n, m, k \in 0..2, a, b \in BOOLEAN}

ModelRests ==
  /\ written = [types |-> <<>>, guard |-> T("true"), updates |-> <<>>]
  /\ model = LowerModel(written, "explicit")
  /\ state = <<>>
FileRests ==
  /\ source = <<>> /\ line = 1 /\ section = "none" /\ draft = Nothing
  /\ refused = FALSE /\ stage = "rests" /\ compiled = {}

EitherInit == (Init /\ FileRests) \/ (FrontInit /\ ModelRests)
EitherNext ==
  \/ Next /\ UNCHANGED frontVars
  \/ FrontNext /\ UNCHANGED vars
EitherSpec == EitherInit /\ [][EitherNext]_<<vars, frontVars>>
===============================================================================
