--------------------------- MODULE TemporalSemantics ---------------------------
(***************************************************************************)
(* What the temporal operators mean, by paths: a formula is false where    *)
(* some maximal path (infinite, or ending in a state without successors)   *)
(* refutes it.  Next is strong.  Nothing here is a fixpoint: this is the   *)
(* yardstick for TemporalCheck.                                            *)
(***************************************************************************)
EXTENDS TransitionSystem

(* The states of S that a path inside S reaches from s, s included.        *)
ReachInside(m, S, s) ==
  IF s \notin S THEN {}
  ELSE {t \in S : \A C \in SUBSET S :
          (s \in C /\ \A x \in C : Successors(m, x) \cap S \subseteq C) => t \in C}

(* A path from s can stay inside S for ever, or until it can go no further.*)
CanStay(m, S, s) ==
  \E t \in ReachInside(m, S, s) :
    \/ Successors(m, t) = {}
    \/ \E x \in Successors(m, t) : t \in ReachInside(m, S, x)

AlwaysOf(m, P) == {s \in States : ReachInside(m, States, s) \subseteq P}

EventuallyOf(m, P) == {s \in States : ~CanStay(m, States \ P, s)}

NextOf(m, P) == {s \in States : Successors(m, s) # {} /\ Successors(m, s) \subseteq P}

(* A path refutes L until P by staying in L without P, or leaving both.    *)
UntilOf(m, L, P) ==
  {s \in States :
     /\ s \in L \cup P
     /\ ~CanStay(m, L \ P, s)
     /\ \A t \in ReachInside(m, L \ P, s) : Successors(m, t) \subseteq L \cup P}

(* The meaning of f, from that of its operands.                            *)
MeaningOf(m, means, f) ==
  CASE f.op = "state"      -> f.holds
    [] f.op = "always"     -> AlwaysOf(m, means[f.arg])
    [] f.op = "eventually" -> EventuallyOf(m, means[f.arg])
    [] f.op = "next"       -> NextOf(m, means[f.arg])
    [] f.op = "until"      -> UntilOf(m, means[f.left], means[f.right])
    [] f.op = "boolean"    -> {}

Meaning(m, formulas) == LET means[f \in formulas] == MeaningOf(m, means, f) IN means

(* Somewhere in f is a boolean operator over a temporal formula, or a state*)
(* formula without a boolean value on some state of S.                     *)
NoValue(S, formulas) ==
  LET bad[f \in formulas] ==
        CASE f.op = "state"   -> f.faulty \cap S # {}
          [] f.op = "boolean" -> TRUE
          [] f.op = "until"   -> bad[f.left] \/ bad[f.right]
          [] OTHER            -> bad[f.arg]
  IN  bad
===============================================================================
