-------------------------- MODULE TestGenerationProofs --------------------------
(***************************************************************************)
(* Of the three parts that make and use test vectors: every vector of a    *)
(* model in a file replays to what it expects (VectorsCorrect), a          *)
(* minimised counterexample is minimal (MinimizationCorrect), and an       *)
(* answer of a program is judged only when all of it has been read, for    *)
(* pipes of any capacity and requests of any size (AnswerHeardOut).        *)
(***************************************************************************)
EXTENDS TestGeneration, TransitionSystemProofs, SequenceTheorems

Operations == {"read", "drain", "print", "complain"}

(* Nothing that was printed gets lost: it was read, it is in the pipe, or  *)
(* it has yet to be printed.                                               *)
PrintsKept ==
  /\ script \in Seq(Operations) /\ got \in Nat /\ stdout \in Nat
  /\ got + stdout + R!Count(script, "print") = R!Count(program.script, "print")

(* A program that was started ends only with its script, and an answer is  *)
(* there only when the program has ended and its pipe is empty.            *)
EndsWithScript == rpc \in {"write", "wait"} /\ ~running => script = <<>>
JudgedLast ==
  /\ rpc # "done" => outcome = R!Pending
  /\ outcome.kind \in {"report", "output"} => ~running /\ stdout = 0 /\ script = <<>>

RunnerInv == PrintsKept /\ EndsWithScript /\ JudgedLast

-------------------------------------------------------------------------------
(* Count, one element at a time.  RunnerProcess has FiniteSets of its own. *)
LEMMA SameCardinality == ASSUME NEW S PROVE R!Cardinality(S) = Cardinality(S)
BY DEF R!Cardinality, Cardinality

(* Nothing counts for nothing.                                             *)
LEMMA CountNothing == \A op : R!Count(<<>>, op) = 0
<1>1. \A op : {i \in DOMAIN <<>> : <<>>[i] = op} = {}
  OBVIOUS
<1> QED BY <1>1, FS_EmptySet, SameCardinality DEF R!Count

(* One operation less.                                                     *)
LEMMA CountTail ==
  ASSUME NEW s \in Seq(Operations), s # <<>>, NEW op
  PROVE  /\ R!Count(Tail(s), op) \in Nat
         /\ R!Count(s, op) = R!Count(Tail(s), op) + IF Head(s) = op THEN 1 ELSE 0
<1> DEFINE A == {i \in DOMAIN Tail(s) : Tail(s)[i] = op}
           B == {i \in DOMAIN s : s[i] = op}
           f == [i \in A |-> i + 1]
<1>1. /\ Len(s) \in Nat \ {0} /\ DOMAIN s = 1..Len(s) /\ Head(s) = s[1]
      /\ Tail(s) \in Seq(Operations) /\ DOMAIN Tail(s) = 1..(Len(s) - 1)
      /\ \A i \in 1..(Len(s) - 1) : Tail(s)[i] = s[i + 1]
  OBVIOUS
<1>2. IsFiniteSet(A) /\ IsFiniteSet(B)
  <2>1. IsFiniteSet(1..Len(s)) /\ IsFiniteSet(1..(Len(s) - 1))
    BY <1>1, FS_Interval
  <2>2. A \in SUBSET (1..(Len(s) - 1)) /\ B \in SUBSET (1..Len(s))
    BY <1>1
  <2> QED BY <2>1, <2>2, FS_Subset
<1>3. f \in Bijection(A, B \ {1})
  <2>1. f \in [A -> B \ {1}]
    BY <1>1
  <2>2. \A x, y \in A : f[x] = f[y] => x = y
    BY <1>1
  <2>3. ASSUME NEW j \in B \ {1} PROVE \E i \in A : f[i] = j
    <3>1. j - 1 \in A /\ f[j - 1] = j
      BY <1>1
    <3> QED BY <3>1
  <2> QED BY <2>1, <2>2, <2>3 DEF Bijection, Injection, Surjection, IsInjective
<1>4. Cardinality(A) = Cardinality(B \ {1})
  BY <1>2, <1>3, FS_Bijection, Zenon DEF ExistsBijection
<1>5. Cardinality(B \ {1}) = IF 1 \in B THEN Cardinality(B) - 1 ELSE Cardinality(B)
  BY <1>2, FS_RemoveElement
<1>6. Cardinality(A) \in Nat /\ Cardinality(B) \in Nat
  BY <1>2, FS_CardinalityType
<1>7. 1 \in B <=> Head(s) = op
  BY <1>1
<1>8. R!Count(s, op) = Cardinality(B) /\ R!Count(Tail(s), op) = Cardinality(A)
  BY SameCardinality DEF R!Count
<1> HIDE DEF A, B
<1> QED BY <1>4, <1>5, <1>6, <1>7, <1>8

(* A count is a number.                                                    *)
LEMMA CountType ==
  ASSUME NEW s \in Seq(Operations), NEW op
  PROVE  R!Count(s, op) \in Nat
<1>1. CASE s = <<>>
  BY <1>1, CountNothing
<1>2. CASE s # <<>>
  BY <1>2, CountTail
<1> QED BY <1>1, <1>2

-------------------------------------------------------------------------------
(* Nothing has been printed in the beginning.                              *)
LEMMA InitRunner ==
  ASSUME R!Init
  PROVE  RunnerInv
<1>1. program.script \in Seq(Operations)
  BY RunnerInputsAssumption DEF R!Init, R!RunnerAssumption, R!InputType, R!ProgramType, Operations
<1>2. R!Count(program.script, "print") \in Nat
  BY <1>1, CountType
<1> QED BY <1>1, <1>2 DEF R!Init, RunnerInv, PrintsKept, EndsWithScript, JudgedLast, R!Pending

(* The caller reads what is in the pipe, and judges when it has run dry.   *)
LEMMA CallerStep ==
  ASSUME RunnerInv, R!Caller
  PROVE  RunnerInv'
<1> USE DEF RunnerInv, PrintsKept, EndsWithScript, JudgedLast, R!Pending, R!Fails,
            R!arguments, R!pipes, R!child
<1>0. R!Count(script, "print") \in Nat
  BY CountType
<1>1. CASE R!FailSpawn \/ R!BreakPipe
  BY <1>1 DEF R!FailSpawn, R!BreakPipe
<1>2. CASE R!Spawn
  BY <1>2 DEF R!Spawn
<1>3. CASE R!Write \/ R!CloseStdin
  BY <1>3 DEF R!Write, R!CloseStdin
<1>4. CASE R!ReadStdout
  BY <1>0, <1>4 DEF R!ReadStdout
<1>5. CASE R!ReadStderr
  BY <1>5 DEF R!ReadStderr
<1>6. CASE R!FailExit \/ R!FailResponse
  BY <1>6 DEF R!FailExit, R!FailResponse
<1>7. CASE R!ReturnOutput
  BY <1>7 DEF R!ReturnOutput, R!Ended, R!Drained
<1>8. CASE R!Report
  <2>1. outcome'.kind = "report"
    BY <1>8 DEF R!Report, R!Compare
  <2> QED BY <1>8, <2>1 DEF R!Report, R!Ended, R!Drained
<1> QED BY <1>1, <1>2, <1>3, <1>4, <1>5, <1>6, <1>7, <1>8 DEF R!Caller

(* The program does what comes next in its script.                         *)
LEMMA ProgramStep ==
  ASSUME RunnerInv, R!Program
  PROVE  RunnerInv'
<1> USE DEF RunnerInv, PrintsKept, EndsWithScript, JudgedLast, R!Pending,
            R!arguments, R!pipes, R!child
<1>1. ASSUME NEW op, R!Does(op)
      PROVE  /\ running /\ Tail(script) \in Seq(Operations) /\ R!Count(Tail(script), "print") \in Nat
             /\ R!Count(script, "print") =
                  R!Count(Tail(script), "print") + IF op = "print" THEN 1 ELSE 0
  BY <1>1, CountTail DEF R!Does
<1>2. CASE R!ReadOne
  <2>1. R!Does("read")
    BY <1>2 DEF R!ReadOne
  <2> QED BY <1>1, <1>2, <2>1 DEF R!ReadOne
<1>3. CASE R!Drain
  <2>1. R!Does("drain")
    BY <1>3 DEF R!Drain
  <2>2. /\ UNCHANGED <<stdout, got, program, running, rpc, outcome>>
        /\ script' = script \/ script' = Tail(script)
    BY <1>3 DEF R!Drain
  <2>3. CASE script' = script
    BY <2>2, <2>3
  <2>4. CASE script' = Tail(script)
    BY <1>1, <2>1, <2>2, <2>4
  <2> QED BY <2>2, <2>3, <2>4
<1>4. CASE R!PrintOne
  <2>1. R!Does("print")
    BY <1>4 DEF R!PrintOne
  <2> QED BY <1>1, <1>4, <2>1 DEF R!PrintOne
<1>5. CASE R!Complain
  <2>1. R!Does("complain")
    BY <1>5 DEF R!Complain
  <2> QED BY <1>1, <1>5, <2>1 DEF R!Complain
<1>6. CASE R!Exit
  BY <1>6 DEF R!Exit
<1> QED BY <1>2, <1>3, <1>4, <1>5, <1>6 DEF R!Program

(* The invariant of the pipe, while the others work or rest.               *)
LEMMA RunnerCorrect == AnySpec => [](surface = "runner" => RunnerInv)
<1>1. AnyInit => (surface = "runner" => RunnerInv)
  BY InitRunner DEF AnyInit
<1>2. ASSUME surface = "runner" => RunnerInv, [Generate \/ Explore \/ Ask \/ Run]_allvars
      PROVE  (surface = "runner" => RunnerInv)'
  <2> SUFFICES ASSUME surface' = "runner" PROVE RunnerInv'
    OBVIOUS
  <2>1. CASE Ask
    BY <1>2, <2>1, CallerStep DEF Ask
  <2>2. CASE Run
    BY <1>2, <2>2, ProgramStep DEF Run
  <2>3. CASE UNCHANGED <<surface, rvars>>
    BY <1>2, <2>3 DEF rvars, RunnerInv, PrintsKept, EndsWithScript, JudgedLast
  <2>4. Generate \/ Explore \/ UNCHANGED allvars => UNCHANGED <<surface, rvars>>
    BY DEF Generate, Explore, allvars
  <2> QED BY <1>2, <2>1, <2>2, <2>3, <2>4
<1> QED BY <1>1, <1>2, PTL DEF AnySpec

(* Both callers and every program: what conformance compares, and what a   *)
(* solver's adapter parses, is all the program has printed, although it    *)
(* may be slow, block on a full pipe, or die before its input is written.  *)
THEOREM AnswerHeardOut == AnySpec => []AnswerIsWhole
<1>1. (surface = "runner" => RunnerInv) => AnswerIsWhole
  BY CountNothing DEF RunnerInv, PrintsKept, JudgedLast, AnswerIsWhole, R!AnswerIsWhole
<1> QED BY <1>1, RunnerCorrect, PTL

-------------------------------------------------------------------------------
(* Of whatever its elements are.                                           *)
IsSequence(s) == s \in Seq({s[k] : k \in DOMAIN s})

(* A function on 1..n is one.                                              *)
LEMMA SequenceIs ==
  ASSUME NEW n \in Nat, NEW s, s = [k \in 1..n |-> s[k]]
  PROVE  IsSequence(s) /\ Len(s) = n /\ DOMAIN s = 1..n
<1> DEFINE S == {s[k] : k \in DOMAIN s}
<1>1. DOMAIN s = 1..n
  OBVIOUS
<1>2. \A k \in 1..n : s[k] \in S
  BY <1>1
<1> HIDE DEF S
<1>3. s \in [1..n -> S]
  BY <1>2
<1>4. s \in Seq(S) /\ Len(s) = n
  BY <1>3, LenProperties, SeqDef
<1> QED BY <1>1, <1>4 DEF IsSequence, S

(* FlattenSeq puts sequences together, one after the other.                *)
LEMMA FlattenFrom ==
  ASSUME NEW S, NEW seqs \in Seq(Seq(S))
  PROVE  FlattenSeq(seqs) \in Seq(S)
<1>1. CASE Len(seqs) = 0
  BY <1>1 DEF FlattenSeq
<1>2. CASE Len(seqs) # 0
  <2> DEFINE n == Len(seqs)
             Flat(f) == f = [i \in 1..n |-> IF i = 1 THEN seqs[i] ELSE f[i - 1] \o seqs[i]]
             All == Seq(S)
             k == n - 1
             base == seqs[1]
             g == [m \in 1..k |-> [s \in All |-> s \o seqs[m + 1]]]
  <2>1. n \in Nat \ {0} /\ k \in Nat /\ \A i \in 1..n : seqs[i] \in All
    BY <1>2
  <2>2. ASSUME NEW m \in 1..k, NEW s \in All PROVE g[m][s] = s \o seqs[m + 1] /\ g[m][s] \in All
    <3>1. seqs[m + 1] \in All
      BY <2>1
    <3> QED BY <3>1, ConcatProperties
  <2>3. PICK h : Iterates(k, All, base, g, h)
    <3>1. base \in All
      BY <2>1
    <3> HIDE DEF k, All, g, base
    <3> QED BY <2>1, <2>2, <3>1, IterationExists
  <2>3a. h[0] = seqs[1] /\ (\A m \in 0..k : h[m] \in All) /\ \A m \in 1..k : h[m] = h[m - 1] \o seqs[m + 1]
    <3>1. h \in [0..k -> All] /\ h[0] = seqs[1] /\ \A m \in 1..k : h[m] = g[m][h[m - 1]]
      BY <2>3 DEF Iterates
    <3> HIDE DEF k, All, g
    <3>2. \A m \in 1..k : m - 1 \in 0..k
      BY <2>1
    <3>3. \A m \in 1..k : h[m - 1] \in All
      BY <3>1, <3>2
    <3> QED BY <2>2, <3>1, <3>3
  <2> HIDE DEF g
  <2> DEFINE f == [i \in 1..n |-> h[i - 1]]
  <2>4. \A i \in 1..n : f[i] = IF i = 1 THEN seqs[i] ELSE f[i - 1] \o seqs[i]
    <3>1. ASSUME NEW i \in 1..n, i # 1 PROVE f[i] = f[i - 1] \o seqs[i]
      <4>0. i - 1 \in 1..(n - 1) /\ (i - 1) + 1 = i /\ (i - 1) - 1 \in 0..(n - 1) /\ i - 1 \in 1..n
        BY <2>1, <3>1
      <4>2. h[i - 1] = h[(i - 1) - 1] \o seqs[i]
        BY <2>3a, <4>0
      <4> QED BY <4>0, <4>2
    <3>2. f[1] = seqs[1]
      BY <2>1, <2>3a
    <3> HIDE DEF f
    <3> QED BY <3>1, <3>2
  <2>5. Flat(f)
    <3>1. f = [i \in 1..n |-> f[i]]
      OBVIOUS
    <3> HIDE DEF f
    <3> QED BY <2>4, <3>1
  <2> DEFINE c == CHOOSE x : Flat(x)
  <2>6. Flat(c)
    <3> HIDE DEF f, Flat
    <3> QED BY <2>5
  <2>7. FlattenSeq(seqs) = c[n]
    BY <1>2 DEF FlattenSeq
  <2>8. \A i \in 1..n : c[i] = IF i = 1 THEN seqs[i] ELSE c[i - 1] \o seqs[i]
    <3> HIDE DEF c
    <3> QED BY <2>6
  <2> DEFINE T == {m \in Nat : m \in 1..n => c[m] \in Seq(S)}
  <2> HIDE DEF c, f, Flat
  <2>9. 0 \in T
    OBVIOUS
  <2>10. ASSUME NEW m \in T PROVE m + 1 \in T
    <3> SUFFICES ASSUME m + 1 \in 1..n PROVE c[m + 1] \in Seq(S)
      OBVIOUS
    <3>1. CASE m = 0
      BY <2>1, <2>8, <3>1
    <3>2. CASE m # 0
      <4>1. m \in 1..n /\ m + 1 # 1 /\ (m + 1) - 1 = m /\ c[m] \in Seq(S)
        BY <3>2
      <4>2. c[m + 1] = c[m] \o seqs[m + 1]
        BY <2>8, <4>1
      <4> QED BY <2>1, <4>1, <4>2, ConcatProperties
    <3> QED BY <3>1, <3>2
  <2>11. T = Nat
    <3> HIDE DEF T
    <3>1. T \in SUBSET Nat
      BY DEF T
    <3> QED BY <2>9, <2>10, <3>1, InductionInSetForm
  <2> QED BY <2>1, <2>7, <2>11
<1> QED BY <1>1, <1>2

(* What comes out of it stood in one of them.                              *)
LEMMA FlattenParts ==
  ASSUME NEW n \in Nat, NEW seqs, seqs = [k \in 1..n |-> seqs[k]],
         \A k \in 1..n : IsSequence(seqs[k])
  PROVE  /\ IsSequence(FlattenSeq(seqs))
         /\ \A p \in DOMAIN FlattenSeq(seqs) :
              \E k \in 1..n : \E j \in DOMAIN seqs[k] : FlattenSeq(seqs)[p] = seqs[k][j]
<1> DEFINE S == UNION {{seqs[k][j] : j \in DOMAIN seqs[k]} : k \in 1..n}
           all == FlattenSeq(seqs)
<1>1. ASSUME NEW k \in 1..n PROVE seqs[k] \in Seq(S)
  <2> DEFINE P == {seqs[k][j] : j \in DOMAIN seqs[k]}
  <2>1. seqs[k] \in Seq(P) /\ P \subseteq S
    BY DEF IsSequence
  <2> HIDE DEF P, S
  <2> QED BY <2>1
<1>2. seqs \in Seq(Seq(S))
  <2> HIDE DEF S
  <2> QED BY <1>1
<1>3. all \in Seq(S)
  <2> HIDE DEF S
  <2> QED BY <1>2, FlattenFrom
<1>4. \A p \in DOMAIN all : all[p] \in S
  <2> HIDE DEF S, all
  <2> QED BY <1>3
<1>5. all = [p \in 1..Len(all) |-> all[p]] /\ Len(all) \in Nat
  <2> HIDE DEF S, all
  <2> QED BY <1>3
<1>6. IsSequence(all)
  <2> HIDE DEF all
  <2> QED BY <1>5, SequenceIs
<1> QED BY <1>4, <1>6

Anything == States \cup {Disabled, Fault}

(* A run, step by step.                                                    *)
LEMMA RunFacts ==
  ASSUME NEW m \in ModelType, NEW steps \in Seq(Actions)
  PROVE  /\ RunOf(m, steps) \in [0..Len(steps) -> Anything]
         /\ RunOf(m, steps)[0] = m.init
         /\ \A n \in 1..Len(steps) :
              RunOf(m, steps)[n] =
                IF RunOf(m, steps)[n - 1] \in States
                THEN ApplyAction(m, RunOf(m, steps)[n - 1], steps[n]) ELSE Disabled
<1> DEFINE k == Len(steps)
           g == [n \in 1..k |-> [s \in Anything |->
                   IF s \in States THEN ApplyAction(m, s, steps[n]) ELSE Disabled]]
           Is(f) == f = [n \in 0..k |-> IF n = 0 THEN m.init
                           ELSE LET s == f[n - 1]
                                IN  IF s \in States THEN ApplyAction(m, s, steps[n]) ELSE Disabled]
           c == CHOOSE f : Is(f)
<1>1. k \in Nat /\ m.init \in Anything /\ m.init \in States
  BY DEF ModelType, Anything
<1>2. ASSUME NEW n \in 1..k, NEW s \in Anything
      PROVE  /\ g[n][s] = IF s \in States THEN ApplyAction(m, s, steps[n]) ELSE Disabled
             /\ g[n][s] \in Anything
  <2>1. g[n][s] = IF s \in States THEN ApplyAction(m, s, steps[n]) ELSE Disabled
    OBVIOUS
  <2>2. s \in States => ApplyAction(m, s, steps[n]) \in Anything
    BY ApplyType DEF Anything
  <2> HIDE DEF g
  <2> QED BY <2>1, <2>2 DEF Anything
<1>3. PICK h : Iterates(k, Anything, m.init, g, h)
  <2> HIDE DEF k, g
  <2> QED BY <1>1, <1>2, IterationExists
<1>4. /\ h \in [0..k -> Anything] /\ h[0] = m.init
      /\ \A n \in 1..k : h[n] = g[n][h[n - 1]]
  BY <1>3 DEF Iterates
<1>5. \A n \in 0..k : n # 0 => n \in 1..k /\ n - 1 \in 0..k
  BY <1>1
<1>6. Is(h)
  <2>1. \A n \in 1..k : h[n - 1] \in Anything
    <3> HIDE DEF k
    <3> QED BY <1>1, <1>4
  <2>2. \A n \in 0..k : h[n] = IF n = 0 THEN m.init
                               ELSE LET s == h[n - 1]
                                    IN  IF s \in States THEN ApplyAction(m, s, steps[n]) ELSE Disabled
    <3> HIDE DEF g, k
    <3> QED BY <1>2, <1>4, <1>5, <2>1
  <2>3. h = [n \in 0..k |-> h[n]]
    BY <1>4
  <2> QED BY <2>2, <2>3
<1>7. Is(c)
  <2> HIDE DEF Is
  <2> QED BY <1>6
<1>8. RunOf(m, steps) = c
  BY DEF RunOf
<1>9. /\ DOMAIN c = 0..k
      /\ \A n \in 0..k : c[n] = IF n = 0 THEN m.init
                               ELSE LET s == c[n - 1]
                                    IN  IF s \in States THEN ApplyAction(m, s, steps[n]) ELSE Disabled
  <2> HIDE DEF c, k
  <2> QED BY <1>7
<1> HIDE DEF c
<1>10. \A n \in 0..k : c[n] \in Anything
  <2>1. \A n \in 1..k : \A s \in States : ApplyAction(m, s, steps[n]) \in Anything
    BY ApplyType DEF Anything
  <2> HIDE DEF k
  <2> QED BY <1>1, <1>5, <1>9, <2>1 DEF Anything
<1>11. c \in [0..k -> Anything]
  <2>1. c = [n \in 0..k |-> c[n]]
    <3> HIDE DEF k
    <3> QED BY <1>7, <1>9
  <2> HIDE DEF k, Is
  <2> QED BY <1>10, <2>1
<1> QED BY <1>1, <1>8, <1>9, <1>11

(* What TestgenAssumption says of the request at hand.                     *)
LEMMA RequestFacts ==
  ASSUME request \in Inputs
  PROVE  /\ Model \in ModelType /\ Model.init \in States
         /\ request.names \in [Actions -> Nat] /\ request.strategy \in TestStrategies
         /\ request.limits \in Seq(SUBSET States)
         /\ \A x \in Actions : IsFiniteSet(request.tags[x])
         /\ \A t \in request.trace : t.path \in Seq(Actions) /\ IsEvidence(request, t)
         /\ \A x, y \in request.trace : x = y
         /\ \A id \in request.focus : id \in Nat
         /\ \A x, y \in request.focus : x = y
<1>1. request \in RequestType
  BY TestgenAssumption
<1>2. /\ request.model \in ModelType /\ request.names \in [Actions -> Nat]
      /\ request.strategy \in TestStrategies
      /\ request.limits \in Seq(SUBSET States)
      /\ request.trace \in Optional([kind : TraceKinds, path : Seq(Actions)])
      /\ request.focus \in Optional(Nat)
  BY <1>1 DEF RequestType
<1>3. request.model.init \in States
  BY <1>2 DEF ModelType
<1> QED BY <1>2, <1>3, TestgenAssumption DEF Optional, Model

(* By id is by action, where ids are distinct.                             *)
LEMMA ApplyById ==
  ASSUME request \in Inputs, DistinctIds, NEW s \in States, NEW x \in Actions
  PROVE  ApplyId(s, Id(x)) = ApplyAction(Model, s, x)
<1> DEFINE t == ApplyAction(Model, s, x)
           answers == {ApplyAction(Model, s, y) : y \in {z \in Actions : Id(z) = Id(x)}}
           successors == answers \ {Disabled}
<1>1. answers = {t}
  BY DEF DistinctIds
<1>2. t \in States \cup {Disabled, Fault}
  BY RequestFacts, ApplyType
<1>3. ApplyId(s, Id(x)) = IF answers = {} \/ Fault \in answers \/ Cardinality(successors) > 1 THEN Fault
                          ELSE IF successors = {} THEN Disabled
                          ELSE CHOOSE y \in successors : TRUE
  BY DEF ApplyId
<1> HIDE DEF answers, t
<1>4. CASE t = Disabled
  <2>1. successors = {} /\ Cardinality({}) = 0
    BY <1>1, <1>4, FS_EmptySet
  <2>2. Fault \notin answers
    BY <1>1, <1>4, StatesAssumption
  <2> QED BY <1>1, <1>3, <1>4, <2>1, <2>2 DEF t
<1>5. CASE t # Disabled
  <2>1. successors = {t} /\ Cardinality({t}) = 1
    BY <1>1, <1>5, FS_Singleton
  <2>2. (CHOOSE y \in successors : TRUE) = t
    BY <2>1
  <2> QED BY <1>1, <1>3, <2>1, <2>2 DEF t
<1> QED BY <1>4, <1>5

(* A replay, step by step.                                                 *)
LEMMA ReplayedFacts ==
  ASSUME request \in Inputs, NEW steps \in Seq(Actions)
  PROVE  /\ After(steps, 0) = Model.init
         /\ \A n \in 1..Len(steps) :
              After(steps, n) =
                LET s == After(steps, n - 1)
                    t == ApplyId(s, Id(steps[n]))
                IN  IF s \in States /\ t \in States THEN t ELSE Fault
<1> DEFINE k == Len(steps)
           S == States \cup {Fault}
           Step(s, n) == LET t == ApplyId(s, Id(steps[n]))
                         IN  IF s \in States /\ t \in States THEN t ELSE Fault
           g == [n \in 1..k |-> [s \in S |-> Step(s, n)]]
           Is(f) == f = [n \in 0..k |-> IF n = 0 THEN Model.init
                           ELSE LET s == f[n - 1]
                                    t == ApplyId(s, Id(steps[n]))
                                IN  IF s \in States /\ t \in States THEN t ELSE Fault]
           c == CHOOSE f : Is(f)
<1>1. k \in Nat /\ Model.init \in S
  BY RequestFacts
<1>2. ASSUME NEW n \in 1..k, NEW s \in S PROVE g[n][s] = Step(s, n) /\ g[n][s] \in S
  <2>1. Step(s, n) \in S
    OBVIOUS
  <2> HIDE DEF Step
  <2> QED BY <2>1
<1>3. PICK h : Iterates(k, S, Model.init, g, h)
  <2> HIDE DEF k, g, S
  <2> QED BY <1>1, <1>2, IterationExists
<1>4. /\ h \in [0..k -> S] /\ h[0] = Model.init
      /\ \A n \in 1..k : h[n] = g[n][h[n - 1]]
  BY <1>3 DEF Iterates
<1>5. \A n \in 0..k : n # 0 => n \in 1..k /\ n - 1 \in 0..k
  BY <1>1
<1>6. Is(h)
  <2>1. \A n \in 1..k : h[n - 1] \in S
    <3> HIDE DEF k, S
    <3> QED BY <1>1, <1>4
  <2>2. \A n \in 1..k : h[n] = Step(h[n - 1], n)
    <3> HIDE DEF g, k, S, Step
    <3> QED BY <1>2, <1>4, <2>1
  <2>3. h = [n \in 0..k |-> h[n]]
    BY <1>4
  <2> HIDE DEF k, g
  <2>4. \A n \in 0..k : h[n] = IF n = 0 THEN Model.init
                           ELSE LET s == h[n - 1]
                                    t == ApplyId(s, Id(steps[n]))
                                IN  IF s \in States /\ t \in States THEN t ELSE Fault
    BY <1>4, <1>5, <2>2
  <2> QED BY <2>3, <2>4
<1>7. Is(c)
  <2> HIDE DEF Is
  <2> QED BY <1>6
<1>8. \A n : After(steps, n) = c[n]
  BY DEF After, Replayed
<1>9. \A n \in 0..k : c[n] = IF n = 0 THEN Model.init ELSE Step(c[n - 1], n)
  <2> HIDE DEF c, k
  <2> QED BY <1>7
<1> HIDE DEF c
<1>10. /\ c[0] = Model.init
       /\ \A n \in 1..k : c[n] = Step(c[n - 1], n)
  <2> HIDE DEF Step
  <2> QED BY <1>1, <1>5, <1>9
<1> QED BY <1>8, <1>10

(* A run that stays in the model is what its replay finds.                 *)
LEMMA ReplayIsRun ==
  ASSUME request \in Inputs, DistinctIds, NEW steps \in Seq(Actions), NEW n \in 0..Len(steps),
         RunOf(Model, steps)[n] \in States
  PROVE  After(steps, n) = RunOf(Model, steps)[n]
<1> DEFINE run == RunOf(Model, steps)
           T == {k \in Nat : k <= Len(steps) /\ run[k] \in States => After(steps, k) = run[k]}
<1>0. Len(steps) \in Nat /\ \A k \in 1..Len(steps) : steps[k] \in Actions
  OBVIOUS
<1>1. /\ run[0] = Model.init
      /\ \A k \in 1..Len(steps) : run[k] = IF run[k - 1] \in States
                THEN ApplyAction(Model, run[k - 1], steps[k]) ELSE Disabled
  BY RunFacts, RequestFacts
<1> HIDE DEF run
<1>2. 0 \in T
  BY <1>1, ReplayedFacts
<1>3. ASSUME NEW k \in T PROVE k + 1 \in T
  <2> SUFFICES ASSUME k + 1 <= Len(steps), run[k + 1] \in States PROVE After(steps, k + 1) = run[k + 1]
    OBVIOUS
  <2>1. k + 1 \in 1..Len(steps) /\ (k + 1) - 1 = k /\ k <= Len(steps)
    BY <1>0
  <2>2. run[k] \in States /\ run[k + 1] = ApplyAction(Model, run[k], steps[k + 1])
    BY <1>1, <2>1, StatesAssumption
  <2>3. After(steps, k) = run[k]
    BY <2>1, <2>2
  <2>4. ApplyId(run[k], Id(steps[k + 1])) = run[k + 1]
    BY <1>0, <2>1, <2>2, ApplyById
  <2>5. After(steps, k + 1) =
                LET s == After(steps, (k + 1) - 1)
                    t == ApplyId(s, Id(steps[k + 1]))
                IN  IF s \in States /\ t \in States THEN t ELSE Fault
    BY <2>1, ReplayedFacts
  <2> QED BY <2>1, <2>2, <2>3, <2>4, <2>5
<1>4. T = Nat
  <2>1. T \in SUBSET Nat
    OBVIOUS
  <2> HIDE DEF T
  <2> QED BY <1>2, <1>3, <2>1, InductionInSetForm
<1>5. n \in T /\ n <= Len(steps)
  <2> HIDE DEF T
  <2> QED BY <1>0, <1>4
<1> QED BY <1>5 DEF run

(* One step more.                                                          *)
LEMMA RunLonger ==
  ASSUME NEW m \in ModelType, NEW steps \in Seq(Actions), NEW x \in Actions,
         RunOf(m, steps)[Len(steps)] \in States
  PROVE  /\ Append(steps, x) \in Seq(Actions) /\ Len(Append(steps, x)) = Len(steps) + 1
         /\ RunOf(m, Append(steps, x))[Len(steps) + 1] = ApplyAction(m, RunOf(m, steps)[Len(steps)], x)
<1> DEFINE long == Append(steps, x)
           T == {k \in Nat : k <= Len(steps) => RunOf(m, long)[k] = RunOf(m, steps)[k]}
<1>1. /\ long \in Seq(Actions) /\ Len(long) = Len(steps) + 1 /\ Len(steps) \in Nat
      /\ \A k \in 1..Len(steps) : long[k] = steps[k]
      /\ long[Len(steps) + 1] = x
  OBVIOUS
<1> HIDE DEF long
<1>2. 0 \in T
  BY <1>1, RunFacts
<1>3. ASSUME NEW k \in T PROVE k + 1 \in T
  <2> SUFFICES ASSUME k + 1 <= Len(steps) PROVE RunOf(m, long)[k + 1] = RunOf(m, steps)[k + 1]
    OBVIOUS
  <2>1. k + 1 \in 1..Len(steps) /\ k + 1 \in 1..Len(long) /\ (k + 1) - 1 = k /\ k <= Len(steps)
    BY <1>1
  <2>2. RunOf(m, long)[k + 1] = IF RunOf(m, long)[(k + 1) - 1] \in States
                THEN ApplyAction(m, RunOf(m, long)[(k + 1) - 1], long[k + 1]) ELSE Disabled
    BY <1>1, <2>1, RunFacts
  <2>3. RunOf(m, steps)[k + 1] = IF RunOf(m, steps)[(k + 1) - 1] \in States
                THEN ApplyAction(m, RunOf(m, steps)[(k + 1) - 1], steps[k + 1]) ELSE Disabled
    BY <2>1, RunFacts
  <2> QED BY <1>1, <2>1, <2>2, <2>3
<1>4. T = Nat
  <2>1. T \in SUBSET Nat
    OBVIOUS
  <2> HIDE DEF T
  <2> QED BY <1>2, <1>3, <2>1, InductionInSetForm
<1>5. RunOf(m, long)[Len(steps)] = RunOf(m, steps)[Len(steps)]
  BY <1>1, <1>4
<1>6. Len(long) \in 1..Len(long) /\ Len(long) = Len(steps) + 1 /\ (Len(steps) + 1) - 1 = Len(steps)
  BY <1>1
<1>7. RunOf(m, long)[Len(steps) + 1] = IF RunOf(m, long)[(Len(steps) + 1) - 1] \in States
                THEN ApplyAction(m, RunOf(m, long)[(Len(steps) + 1) - 1], long[Len(steps) + 1]) ELSE Disabled
  BY <1>1, <1>6, RunFacts
<1>8. RunOf(m, long)[Len(steps) + 1] = ApplyAction(m, RunOf(m, steps)[Len(steps)], x)
  BY <1>1, <1>5, <1>6, <1>7
<1> QED BY <1>1, <1>8 DEF long

Node == [state : States, parent : Nat, via : Nat]

(* The nodes of an exploration: each was found from an earlier one.        *)
Grown ==
  /\ nodes \in Seq(Node) /\ nodes # <<>>
  /\ nodes[1] = [state |-> Model.init, parent |-> 0, via |-> 0]
  /\ \A i \in DOMAIN nodes \ {1} :
       /\ nodes[i].parent \in 1..(i - 1) /\ nodes[i].via \in Actions
       /\ nodes[i].state = ApplyAction(Model, nodes[nodes[i].parent].state, nodes[i].via)
  /\ \A i, j \in DOMAIN nodes : nodes[i].state = nodes[j].state => i = j

(* build_model_path, from a node to its parent: the routes are defined for *)
(* one node after the other, as the parents are earlier ones.              *)
LEMMA RouteFacts ==
  ASSUME Grown, NEW i \in DOMAIN nodes
  PROVE  /\ Route(i) \in Seq(Actions)
         /\ Route(i) = IF nodes[i].parent = 0 THEN <<>>
                       ELSE Append(Route(nodes[i].parent), nodes[i].via)
<1> DEFINE k == Len(nodes)
           All == [1..k -> Seq(Actions)]
           base == [n \in 1..k |-> <<>>]
           Step(f, n) == IF nodes[n].parent = 0 THEN <<>> ELSE Append(f[nodes[n].parent], nodes[n].via)
           g == [n \in 1..k |-> [f \in All |-> [f EXCEPT ![n] = Step(f, n)]]]
           Is(f) == f = [n \in 1..k |->
                           IF nodes[n].parent = 0 THEN <<>> ELSE Append(f[nodes[n].parent], nodes[n].via)]
           c == CHOOSE f : Is(f)
<1>1. k \in Nat \ {0} /\ DOMAIN nodes = 1..k /\ i \in 1..k
  BY DEF Grown
<1>2. \A n \in 1..k : nodes[n].parent # 0 => nodes[n].parent \in 1..(n - 1) /\ nodes[n].via \in Actions
  BY <1>1 DEF Grown
<1>3. ASSUME NEW n \in 1..k, NEW f \in All
      PROVE  g[n][f] \in All /\ g[n][f] = [f EXCEPT ![n] = Step(f, n)]
  <2>1. g[n][f] = [f EXCEPT ![n] = Step(f, n)]
    OBVIOUS
  <2>2. Step(f, n) \in Seq(Actions)
    <3>1. nodes[n].parent # 0 => f[nodes[n].parent] \in Seq(Actions)
      BY <1>1, <1>2
    <3> QED BY <1>2, <3>1
  <2> HIDE DEF Step, g, k
  <2> QED BY <2>1, <2>2
<1>4. PICK h : Iterates(k, All, base, g, h)
  <2>1. base \in All
    OBVIOUS
  <2> HIDE DEF base, All, g, k
  <2> QED BY <1>1, <1>3, <2>1, IterationExists
<1>5. /\ h \in [0..k -> All]
      /\ \A n \in 1..k : h[n] = g[n][h[n - 1]]
  BY <1>4 DEF Iterates
<1>6. ASSUME NEW n \in 1..k
      PROVE  /\ n - 1 \in 0..k /\ h[n - 1] \in All /\ h[n] \in All
             /\ h[n][n] = Step(h[n - 1], n)
             /\ \A j \in 1..k : j # n => h[n][j] = h[n - 1][j]
  <2>1. n - 1 \in 0..k /\ n \in 0..k
    BY <1>1
  <2>2. h[n - 1] \in All /\ h[n] \in All
    <3> HIDE DEF All
    <3> QED BY <1>5, <2>1
  <2>3. h[n] = [h[n - 1] EXCEPT ![n] = Step(h[n - 1], n)]
    <3> HIDE DEF All, g, Step
    <3> QED BY <1>3, <1>5, <2>2
  <2> HIDE DEF Step, g
  <2> QED BY <2>1, <2>2, <2>3
<1> HIDE DEF g, All
<1> DEFINE T == {n \in Nat : n <= k => \A j \in 1..k : j <= n => h[n][j] = h[j][j]}
           f0 == h[k]
<1>7. T = Nat
  <2>1. 0 \in T
    OBVIOUS
  <2>2. ASSUME NEW n \in T PROVE n + 1 \in T
    <3> SUFFICES ASSUME n + 1 <= k, NEW j \in 1..k, j <= n + 1 PROVE h[n + 1][j] = h[j][j]
      OBVIOUS
    <3>1. n + 1 \in 1..k /\ (n + 1) - 1 = n
      BY <1>1
    <3>2. j # n + 1 => h[n + 1][j] = h[n][j] /\ j <= n
      BY <1>6, <3>1
    <3> QED BY <1>1, <3>1, <3>2
  <2>3. T \in SUBSET Nat
    OBVIOUS
  <2> HIDE DEF T
  <2> QED BY <2>1, <2>2, <2>3, InductionInSetForm
<1>8. ASSUME NEW n \in 0..k, NEW j \in 1..n PROVE h[n][j] = f0[j]
  BY <1>1, <1>7
<1>9. \A n \in 1..k : f0[n] = Step(f0, n) /\ f0[n] \in Seq(Actions)
  <2> SUFFICES ASSUME NEW n \in 1..k PROVE f0[n] = Step(f0, n) /\ f0[n] \in Seq(Actions)
    OBVIOUS
  <2>1. f0[n] = h[n][n]
    BY <1>1, <1>8
  <2>2. h[n][n] = Step(h[n - 1], n)
    BY <1>6
  <2>3. nodes[n].parent # 0 => h[n - 1][nodes[n].parent] = f0[nodes[n].parent]
    <3> SUFFICES ASSUME nodes[n].parent # 0 PROVE h[n - 1][nodes[n].parent] = f0[nodes[n].parent]
      OBVIOUS
    <3>1. n - 1 \in 0..k /\ nodes[n].parent \in 1..(n - 1)
      BY <1>2, <1>6
    <3> HIDE DEF f0
    <3> QED BY <1>8, <3>1
  <2>4. h[n] \in [1..k -> Seq(Actions)]
    BY <1>6 DEF All
  <2> HIDE DEF f0, k
  <2> QED BY <2>1, <2>2, <2>3, <2>4
<1>10. Is(f0)
  <2>1. k \in 1..k
    BY <1>1
  <2>2. f0 \in [1..k -> Seq(Actions)]
    <3> HIDE DEF k
    <3> QED BY <1>6, <2>1 DEF All
  <2> HIDE DEF f0, k
  <2>3. f0 = [n \in 1..k |-> f0[n]]
    BY <2>2
  <2> QED BY <1>9, <2>3
<1>11. Is(c)
  <2> HIDE DEF Is, f0
  <2> QED BY <1>10
<1>12. \A n : Route(n) = c[n]
  BY DEF Route
<1>13. \A n \in 1..k : c[n] = Step(c, n)
  <2> HIDE DEF c, k
  <2> QED BY <1>11
<1> HIDE DEF c
<1> DEFINE U == {n \in Nat : \A j \in 1..k : j <= n => c[j] \in Seq(Actions)}
<1>14. U = Nat
  <2>1. 0 \in U
    OBVIOUS
  <2>2. ASSUME NEW n \in U PROVE n + 1 \in U
    <3> SUFFICES ASSUME NEW j \in 1..k, j <= n + 1 PROVE c[j] \in Seq(Actions)
      OBVIOUS
    <3>1. c[j] = Step(c, j)
      BY <1>13
    <3>2. nodes[j].parent # 0 => /\ nodes[j].parent \in 1..k /\ nodes[j].parent <= n
                                 /\ nodes[j].via \in Actions
      BY <1>1, <1>2
    <3>3. nodes[j].parent # 0 => c[nodes[j].parent] \in Seq(Actions)
      BY <3>2
    <3> QED BY <3>1, <3>2, <3>3
  <2>3. U \in SUBSET Nat
    OBVIOUS
  <2> HIDE DEF U
  <2> QED BY <2>1, <2>2, <2>3, InductionInSetForm
<1>15. c[i] \in Seq(Actions)
  BY <1>1, <1>14
<1> QED BY <1>1, <1>12, <1>13, <1>15

(* The fields of a node.                                                   *)
LEMMA NodeParts ==
  ASSUME Grown, NEW i \in DOMAIN nodes
  PROVE  /\ DOMAIN nodes = 1..Len(nodes) /\ Len(nodes) \in Nat \ {0} /\ i \in Nat /\ 1 \in DOMAIN nodes
         /\ nodes[i].state \in States /\ nodes[i].parent \in Nat /\ nodes[i].via \in Nat
         /\ (nodes[i].parent = 0) <=> (i = 1)
         /\ i # 1 => nodes[i].parent \in DOMAIN nodes /\ nodes[i].parent < i
<1>1. nodes \in Seq(Node) /\ nodes # <<>>
  BY DEF Grown
<1>2. DOMAIN nodes = 1..Len(nodes) /\ Len(nodes) \in Nat \ {0} /\ i \in Nat /\ 1 \in DOMAIN nodes
  BY <1>1
<1>3. nodes[i] \in Node
  BY <1>1
<1>4. nodes[1].parent = 0
  BY DEF Grown
<1>5. i # 1 => nodes[i].parent \in 1..(i - 1)
  BY DEF Grown
<1> QED BY <1>2, <1>3, <1>4, <1>5 DEF Node

(* The route to a node is a run to its state.                              *)
LEMMA RouteRuns ==
  ASSUME request \in Inputs, Grown, NEW i \in DOMAIN nodes
  PROVE  /\ Route(i) \in Seq(Actions)
         /\ RunOf(Model, Route(i))[Len(Route(i))] = nodes[i].state
<1> DEFINE Good(j) == /\ Route(j) \in Seq(Actions)
                      /\ RunOf(Model, Route(j))[Len(Route(j))] = nodes[j].state
           T == {n \in Nat : \A j \in DOMAIN nodes : j <= n => Good(j)}
<1>1. 0 \in T
  BY NodeParts
<1>2. ASSUME NEW n \in T PROVE n + 1 \in T
  <2> SUFFICES ASSUME NEW j \in DOMAIN nodes, j <= n + 1 PROVE Good(j)
    OBVIOUS
  <2>1. Route(j) \in Seq(Actions)
    BY RouteFacts
  <2>2. CASE j = 1
    <3>1. Route(j) = <<>> /\ Len(<<>>) = 0
      BY <2>2, NodeParts, RouteFacts
    <3>a. <<>> \in Seq(Actions) /\ Model \in ModelType
      BY RequestFacts
    <3>2. RunOf(Model, <<>>)[0] = Model.init
      BY <3>a, RunFacts
    <3>3. nodes[j].state = Model.init
      BY <2>2 DEF Grown
    <3> QED BY <2>1, <3>1, <3>2, <3>3
  <2>3. CASE j # 1
    <3> DEFINE p == nodes[j].parent
    <3>1. p \in DOMAIN nodes /\ p <= n /\ p # 0
      BY <2>3, NodeParts
    <3>2. Good(p)
      BY <3>1
    <3>3. nodes[j].via \in Actions /\ nodes[j].state = ApplyAction(Model, nodes[p].state, nodes[j].via)
      BY <2>3 DEF Grown
    <3>4. Route(j) = Append(Route(p), nodes[j].via)
      BY <3>1, RouteFacts
    <3>5. nodes[p].state \in States /\ Model \in ModelType
      BY <3>1, NodeParts, RequestFacts
    <3> HIDE DEF p
    <3>6. /\ Len(Append(Route(p), nodes[j].via)) = Len(Route(p)) + 1
          /\ RunOf(Model, Append(Route(p), nodes[j].via))[Len(Route(p)) + 1]
               = ApplyAction(Model, nodes[p].state, nodes[j].via)
      BY <3>2, <3>3, <3>5, RunLonger
    <3> QED BY <2>1, <3>3, <3>4, <3>6
  <2> QED BY <2>2, <2>3
<1>3. T = Nat
  <2>1. T \in SUBSET Nat
    OBVIOUS
  <2> HIDE DEF T
  <2> QED BY <1>1, <1>2, <2>1, InductionInSetForm
<1>4. i \in Nat
  BY NodeParts
<1> QED BY <1>3, <1>4

(* So its replay ends there.                                               *)
LEMMA RouteReplays ==
  ASSUME request \in Inputs, DistinctIds, Grown, NEW i \in DOMAIN nodes
  PROVE  /\ After(Route(i), Len(Route(i))) = nodes[i].state
         /\ Route(i) # <<>> => /\ StatesAlong(Route(i)) # <<>>
                              /\ Last(StatesAlong(Route(i))) = nodes[i].state
<1> DEFINE steps == Route(i)
<1>1. steps \in Seq(Actions) /\ RunOf(Model, steps)[Len(steps)] = nodes[i].state
  BY RouteRuns
<1>2. nodes[i].state \in States /\ Len(steps) \in 0..Len(steps)
  BY <1>1, NodeParts
<1> HIDE DEF steps
<1>3. After(steps, Len(steps)) = nodes[i].state
  BY <1>1, <1>2, ReplayIsRun
<1>4. ASSUME steps # <<>>
      PROVE  /\ StatesAlong(steps) # <<>>
             /\ Last(StatesAlong(steps)) = nodes[i].state
  <2> DEFINE s == StatesAlong(steps)
             f == RunOf(Model, steps)
  <2>1. s = [n \in 1..Len(steps) |-> f[n]]
    BY DEF StatesAlong
  <2>2. Len(steps) \in Nat \ {0}
    BY <1>1, <1>4
  <2> HIDE DEF f, s
  <2>3. s = [n \in 1..Len(steps) |-> s[n]] /\ \A n \in 1..Len(steps) : s[n] = f[n]
    BY <2>1
  <2>4. Len(s) = Len(steps) /\ DOMAIN s = 1..Len(steps)
    BY <2>2, <2>3, SequenceIs
  <2>5. s # <<>>
    BY <2>2, <2>4
  <2>6. Last(s) = f[Len(steps)]
    BY <2>2, <2>3, <2>4 DEF Last
  <2> QED BY <1>1, <2>5, <2>6 DEF s, f
<1> QED BY <1>3, <1>4 DEF steps

(* The fields of a vector.                                                 *)
LEMMA VectorFields ==
  ASSUME NEW strategy, NEW steps, NEW states, NEW focus, NEW enabled, NEW holds, NEW about
  PROVE  LET v == Vector(strategy, steps, states, focus, enabled, holds, about)
         IN  /\ v.strategy = strategy /\ v.path = steps /\ v.states = states /\ v.focus = focus
             /\ v.enabled = enabled /\ v.holds = holds /\ v.about = about
BY DEF Vector

(* So is every vector made for a node.                                     *)
LEMMA NodeReplays ==
  ASSUME request \in Inputs, DistinctIds, Grown, NEW i \in DOMAIN nodes,
         NEW focus, NEW enabled, NEW about,
         enabled = {FALSE} => \A id \in focus : ApplyId(nodes[i].state, id) = Disabled
  PROVE  Replays(NodeVector(i, focus, enabled, about))
<1> DEFINE steps == Route(i)
           v == NodeVector(i, focus, enabled, about)
           end == After(v.path, Len(v.path))
<1>1. /\ v.path = steps
      /\ v.states = IF steps = <<>> THEN <<nodes[i].state>> ELSE StatesAlong(steps)
      /\ v.focus = focus /\ v.enabled = enabled /\ v.holds = {Holds(nodes[i].state)}
  <2> HIDE DEF steps
  <2> QED BY VectorFields DEF NodeVector, steps
<1>2. /\ After(steps, Len(steps)) = nodes[i].state
      /\ steps # <<>> => StatesAlong(steps) # <<>> /\ Last(StatesAlong(steps)) = nodes[i].state
  BY RouteReplays
<1> HIDE DEF steps, v
<1>3. end = nodes[i].state
  BY <1>1, <1>2
<1>4. nodes[i].state \in States
  BY NodeParts
<1>5. Last(v.states) = nodes[i].state
  <2>1. Last(<<nodes[i].state>>) = nodes[i].state
    BY DEF Last
  <2> QED BY <1>1, <1>2, <2>1
<1>6. v.holds = {Holds(end)}
  BY <1>1, <1>3
<1> QED BY <1>1, <1>3, <1>4, <1>5, <1>6 DEF Replays, v

(* SetToSeq lists the elements of a finite set.                            *)
LEMMA SetToSeqFacts ==
  ASSUME NEW S, IsFiniteSet(S)
  PROVE  /\ SetToSeq(S) = [k \in 1..Cardinality(S) |-> SetToSeq(S)[k]] /\ Cardinality(S) \in Nat
         /\ IsSequence(SetToSeq(S)) /\ Len(SetToSeq(S)) = Cardinality(S)
         /\ \A k \in DOMAIN SetToSeq(S) : SetToSeq(S)[k] \in S
<1>1. Cardinality(S) \in Nat /\ ExistsBijection(1..Cardinality(S), S)
  BY FS_CardinalityType
<1>2. \E f \in [1..Cardinality(S) -> S] : IsInjective(f)
  BY <1>1 DEF ExistsBijection, Bijection, Injection
<1>3. SetToSeq(S) \in [1..Cardinality(S) -> S]
  BY <1>2 DEF SetToSeq
<1>4. SetToSeq(S) = [k \in 1..Cardinality(S) |-> SetToSeq(S)[k]]
  BY <1>3
<1>5. IsSequence(SetToSeq(S)) /\ Len(SetToSeq(S)) = Cardinality(S)
  BY <1>1, <1>4, SequenceIs
<1> QED BY <1>1, <1>3, <1>4, <1>5

(* Of no elements, it is empty.                                            *)
LEMMA SetToSeqOfNone ==
  SetToSeq({}) = <<>>
<1>1. IsFiniteSet({}) /\ Cardinality({}) = 0
  BY FS_EmptySet
<1>2. IsSequence(SetToSeq({})) /\ Len(SetToSeq({})) = 0
  BY <1>1, SetToSeqFacts
<1> QED BY <1>2 DEF IsSequence

(* Of a sequence of vectors. It is kept by all that is done to vectors:    *)
(* being alone, put behind others, and left out as a duplicate.            *)
AllReplay(s) == IsSequence(s) /\ \A k \in DOMAIN s : Replays(s[k])

(* The places of a sequence.                                               *)
LEMMA SequenceShape ==
  ASSUME NEW s, IsSequence(s)
  PROVE  Len(s) \in Nat /\ DOMAIN s = 1..Len(s) /\ s = [k \in 1..Len(s) |-> s[k]]
BY DEF IsSequence

(* No vector.                                                              *)
LEMMA NoneReplay ==
  AllReplay(<<>>)
BY DEF AllReplay, IsSequence

(* One vector.                                                             *)
LEMMA OneReplays ==
  ASSUME NEW v, Replays(v)
  PROVE  AllReplay(<<v>>)
<1>1. <<v>> \in Seq({<<v>>[k] : k \in DOMAIN <<v>>})
  OBVIOUS
<1>2. \A k \in DOMAIN <<v>> : <<v>>[k] = v
  OBVIOUS
<1> QED BY <1>1, <1>2 DEF AllReplay, IsSequence

(* One sequence behind the other.                                          *)
LEMMA BothReplay ==
  ASSUME NEW s, NEW t, AllReplay(s), AllReplay(t)
  PROVE  AllReplay(s \o t)
<1> DEFINE S == {s[k] : k \in DOMAIN s} \cup {t[k] : k \in DOMAIN t}
           all == s \o t
<1>1. s \in Seq({s[k] : k \in DOMAIN s}) /\ t \in Seq({t[k] : k \in DOMAIN t})
  BY DEF AllReplay, IsSequence
<1>2. s \in Seq(S) /\ t \in Seq(S)
  BY <1>1
<1>3. \A x \in S : Replays(x)
  BY DEF AllReplay
<1> HIDE DEF S
<1>4. all \in Seq(S)
  BY <1>2, ConcatProperties
<1> HIDE DEF all
<1>5. /\ Len(all) \in Nat /\ all = [k \in 1..Len(all) |-> all[k]]
      /\ \A k \in DOMAIN all : all[k] \in S
  BY <1>4
<1>6. IsSequence(all)
  BY <1>5, SequenceIs
<1>7. \A k \in DOMAIN all : Replays(all[k])
  BY <1>3, <1>5
<1> QED BY <1>6, <1>7 DEF AllReplay, all

(* Many.                                                                   *)
LEMMA PartsReplay ==
  ASSUME NEW n \in Nat, NEW seqs, seqs = [k \in 1..n |-> seqs[k]],
         \A k \in 1..n : AllReplay(seqs[k])
  PROVE  AllReplay(FlattenSeq(seqs))
<1>1. \A k \in 1..n : IsSequence(seqs[k])
  BY DEF AllReplay
<1>2. /\ IsSequence(FlattenSeq(seqs))
      /\ \A p \in DOMAIN FlattenSeq(seqs) :
           \E k \in 1..n : \E j \in DOMAIN seqs[k] : FlattenSeq(seqs)[p] = seqs[k][j]
  BY <1>1, FlattenParts
<1>3. \A p \in DOMAIN FlattenSeq(seqs) : Replays(FlattenSeq(seqs)[p])
  BY <1>2 DEF AllReplay
<1> QED BY <1>2, <1>3 DEF AllReplay

(* What FirstOfEach leaves, whatever its key.                              *)
LEMMA FilteredReplay ==
  ASSUME NEW s, AllReplay(s), NEW Out
  PROVE  AllReplay(FlattenSeq([k \in DOMAIN s |-> IF k \in Out THEN <<>> ELSE <<s[k]>>]))
<1> DEFINE seqs == [k \in 1..Len(s) |-> IF k \in Out THEN <<>> ELSE <<s[k]>>]
<1>1. Len(s) \in Nat /\ DOMAIN s = 1..Len(s)
  BY SequenceShape DEF AllReplay
<1>2. \A k \in 1..Len(s) : AllReplay(seqs[k])
  <2> SUFFICES ASSUME NEW k \in 1..Len(s) PROVE AllReplay(IF k \in Out THEN <<>> ELSE <<s[k]>>)
    OBVIOUS
  <2>1. Replays(s[k])
    BY <1>1 DEF AllReplay
  <2>2. AllReplay(<<s[k]>>)
    BY <2>1, OneReplays
  <2> QED BY <2>2, NoneReplay
<1>3. seqs = [k \in 1..Len(s) |-> seqs[k]]
  OBVIOUS
<1>4. AllReplay(FlattenSeq(seqs))
  <2> HIDE DEF seqs
  <2> QED BY <1>1, <1>2, <1>3, PartsReplay
<1> QED BY <1>1, <1>4

(* Nothing is missing: what the strategies look for is among the nodes.    *)
Complete ==
  \A i \in DOMAIN nodes : \A a \in Actions :
    LET t == ApplyAction(Model, nodes[i].state, a) IN
    t # Fault /\ (t \in States => \E j \in DOMAIN nodes : nodes[j].state = t)

(* Of some nodes, one is the first.                                        *)
LEMMA EarliestExists ==
  ASSUME Grown, NEW I \in SUBSET DOMAIN nodes, I # {}
  PROVE  Earliest(I) # {}
<1>1. I \in SUBSET Nat
  BY NodeParts
<1>2. PICK n \in I : \A k \in I : n <= k
  BY <1>1, LeastNumber
<1> QED BY <1>2 DEF Earliest

(* The state behind an edge is a node.                                     *)
LEMMA BehindIsNode ==
  ASSUME Grown, Complete, NEW i \in DOMAIN nodes, NEW a \in Actions,
         Enabled(Model, nodes[i].state, a)
  PROVE  /\ BehindEdge(i, a) \in DOMAIN nodes
         /\ nodes[BehindEdge(i, a)].state = ApplyAction(Model, nodes[i].state, a)
<1>1. \E j \in DOMAIN nodes : nodes[j].state = ApplyAction(Model, nodes[i].state, a)
  BY DEF Complete, Enabled
<1> QED BY <1>1 DEF BehindEdge, NodeOf

(* An action blocked at a node is blocked for its id.                      *)
LEMMA BlockedById ==
  ASSUME request \in Inputs, DistinctIds, Grown, Complete, NEW i \in DOMAIN nodes, NEW a \in Actions,
         ~Enabled(Model, nodes[i].state, a)
  PROVE  ApplyId(nodes[i].state, Id(a)) = Disabled
<1>1. nodes[i].state \in States /\ Model \in ModelType
  BY NodeParts, RequestFacts
<1>2. ApplyAction(Model, nodes[i].state, a) \in States \cup {Disabled, Fault}
  BY <1>1, ApplyType
<1>3. ApplyAction(Model, nodes[i].state, a) = Disabled
  BY <1>2 DEF Complete, Enabled
<1> QED BY <1>1, <1>3, ApplyById

(* The two vectors of a guard.                                             *)
LEMMA GuardPair ==
  ASSUME request \in Inputs, DistinctIds, Grown, Complete, NEW a \in Actions
  PROVE  AllReplay(GuardVectorsOf(a))
<1> DEFINE i == CHOOSE x \in FirstEdge(a) : TRUE
           j == CHOOSE x \in FirstBlocked(a) : TRUE
           v == NodeVector(BehindEdge(i, a), {Id(a)}, {TRUE}, DecisionsOf(a, TRUE))
           w == NodeVector(j, {Id(a)}, {FALSE}, DecisionsOf(a, FALSE))
           left == IF FirstEdge(a) = {} THEN <<>> ELSE <<v>>
           right == IF FirstBlocked(a) = {} THEN <<>> ELSE <<w>>
<1>1. GuardVectorsOf(a) = left \o right
  BY DEF GuardVectorsOf, Named
<1>2. ASSUME FirstEdge(a) # {} PROVE Replays(v)
  <2>1. i \in DOMAIN nodes /\ Enabled(Model, nodes[i].state, a)
    BY <1>2 DEF FirstEdge, Earliest
  <2> HIDE DEF i
  <2>2. BehindEdge(i, a) \in DOMAIN nodes
    BY <2>1, BehindIsNode
  <2>3. {TRUE} # {FALSE}
    OBVIOUS
  <2> QED BY <2>2, <2>3, NodeReplays
<1>3. ASSUME FirstBlocked(a) # {} PROVE Replays(w)
  <2>1. j \in DOMAIN nodes /\ ~Enabled(Model, nodes[j].state, a)
    BY <1>3 DEF FirstBlocked, Earliest
  <2> HIDE DEF j
  <2>2. \A id \in {Id(a)} : ApplyId(nodes[j].state, id) = Disabled
    BY <2>1, BlockedById
  <2> QED BY <2>1, <2>2, NodeReplays
<1> HIDE DEF v, w
<1>4. AllReplay(left)
  BY <1>2, NoneReplay, OneReplays
<1>5. AllReplay(right)
  BY <1>3, NoneReplay, OneReplays
<1> HIDE DEF left, right
<1> QED BY <1>1, <1>4, <1>5, BothReplay

(* The strategies, one by one: guard,                                      *)
LEMMA GuardsReplay ==
  ASSUME request \in Inputs, DistinctIds, Grown, Complete
  PROVE  AllReplay(GuardVectors)
<1> DEFINE seqs == [a \in Actions |-> GuardVectorsOf(a)]
           all == FlattenSeq(seqs)
           Out == {k \in DOMAIN all : \E j \in 1..(k - 1) :
                     <<all[j].focus, all[j].enabled, Ids(all[j].path)>>
                       = <<all[k].focus, all[k].enabled, Ids(all[k].path)>>}
<1>1. AllReplay(all)
  <2>1. seqs = [k \in 1..NumActions |-> seqs[k]] /\ NumActions \in Nat
    BY ActionsAssumption DEF Actions
  <2>2. \A k \in 1..NumActions : AllReplay(seqs[k])
    BY GuardPair DEF Actions
  <2> HIDE DEF seqs
  <2> QED BY <2>1, <2>2, PartsReplay
<1>2. GuardVectors = FlattenSeq([k \in DOMAIN all |-> IF k \in Out THEN <<>> ELSE <<all[k]>>])
  <2>1. GuardVectors = FlattenSeq([k \in DOMAIN all |->
            IF \E j \in 1..(k - 1) : <<all[j].focus, all[j].enabled, Ids(all[j].path)>>
                       = <<all[k].focus, all[k].enabled, Ids(all[k].path)>>
            THEN <<>> ELSE <<all[k]>>])
    BY DEF GuardVectors, FirstOfEach
  <2> HIDE DEF all
  <2> QED BY <2>1
<1> HIDE DEF all, Out
<1> QED BY <1>1, <1>2, FilteredReplay

(* path,                                                                   *)
LEMMA PathsReplay ==
  ASSUME request \in Inputs, DistinctIds, Grown, Complete
  PROVE  AllReplay(PathVectors)
<1> DEFINE of(a, tag) ==
             Named(FirstEdge(a),
                   LAMBDA i : NodeVector(BehindEdge(i, a), {Id(a)}, {TRUE}, LegacyDecision(tag)))
           tags(a) == SetToSeq(request.tags[a])
           parts(a) == [k \in DOMAIN tags(a) |-> of(a, tags(a)[k])]
           seqs == [a \in Actions |-> FlattenSeq(parts(a))]
           all == FlattenSeq(seqs)
           Out == {k \in DOMAIN all : \E j \in 1..(k - 1) :
                     <<all[j].about, all[j].focus, Ids(all[j].path)>>
                       = <<all[k].about, all[k].focus, Ids(all[k].path)>>}
<1>1. ASSUME NEW a \in Actions, NEW tag PROVE AllReplay(of(a, tag))
  <2> DEFINE i == CHOOSE x \in FirstEdge(a) : TRUE
             v == NodeVector(BehindEdge(i, a), {Id(a)}, {TRUE}, LegacyDecision(tag))
  <2>1. of(a, tag) = IF FirstEdge(a) = {} THEN <<>> ELSE <<v>>
    BY DEF Named
  <2>2. ASSUME FirstEdge(a) # {} PROVE Replays(v)
    <3>1. i \in DOMAIN nodes /\ Enabled(Model, nodes[i].state, a)
      BY <2>2 DEF FirstEdge, Earliest
    <3> HIDE DEF i
    <3>2. BehindEdge(i, a) \in DOMAIN nodes
      BY <3>1, BehindIsNode
    <3>3. {TRUE} # {FALSE}
      OBVIOUS
    <3> QED BY <3>2, <3>3, NodeReplays
  <2> HIDE DEF of, v
  <2> QED BY <2>1, <2>2, NoneReplay, OneReplays
<1> HIDE DEF of
<1>2. ASSUME NEW a \in Actions PROVE AllReplay(FlattenSeq(parts(a)))
  <2>1. IsFiniteSet(request.tags[a])
    BY RequestFacts
  <2>2. DOMAIN tags(a) = 1..Len(tags(a)) /\ Len(tags(a)) \in Nat
    BY <2>1, SetToSeqFacts, SequenceShape
  <2> HIDE DEF tags
  <2>3. parts(a) = [k \in 1..Len(tags(a)) |-> parts(a)[k]]
    BY <2>2
  <2>4. \A k \in 1..Len(tags(a)) : AllReplay(parts(a)[k])
    BY <1>1, <2>2
  <2> HIDE DEF parts
  <2> QED BY <2>2, <2>3, <2>4, PartsReplay
<1>3. AllReplay(all)
  <2> HIDE DEF parts
  <2>1. seqs = [k \in 1..NumActions |-> seqs[k]] /\ NumActions \in Nat
    BY ActionsAssumption DEF Actions
  <2>2. \A k \in 1..NumActions : AllReplay(seqs[k])
    BY <1>2 DEF Actions
  <2> HIDE DEF seqs
  <2> QED BY <2>1, <2>2, PartsReplay
<1>4. PathVectors = FlattenSeq([k \in DOMAIN all |-> IF k \in Out THEN <<>> ELSE <<all[k]>>])
  <2>1. PathVectors = FlattenSeq([k \in DOMAIN all |->
            IF \E j \in 1..(k - 1) : <<all[j].about, all[j].focus, Ids(all[j].path)>>
                       = <<all[k].about, all[k].focus, Ids(all[k].path)>>
            THEN <<>> ELSE <<all[k]>>])
    BY DEF PathVectors, FirstOfEach, of
  <2> HIDE DEF all
  <2> QED BY <2>1
<1> HIDE DEF all, Out
<1> QED BY <1>3, <1>4, FilteredReplay

(* boundary,                                                               *)
LEMMA BoundariesReplay ==
  ASSUME request \in Inputs, DistinctIds, Grown
  PROVE  AllReplay(BoundaryVectors)
<1> DEFINE first(S) == Earliest({i \in DOMAIN nodes : nodes[i].state \in S})
           at(S) == Named(first(S), LAMBDA i : NodeVector(i, {}, {}, {}))
           n == Len(request.limits)
           seqs == [k \in 1..n |-> at(request.limits[k])]
<1>1. ASSUME NEW S PROVE AllReplay(at(S))
  <2> DEFINE i == CHOOSE x \in first(S) : TRUE
             v == NodeVector(i, {}, {}, {})
  <2>1. at(S) = IF first(S) = {} THEN <<>> ELSE <<v>>
    BY DEF Named
  <2>2. ASSUME first(S) # {} PROVE Replays(v)
    <3>1. i \in DOMAIN nodes
      BY <2>2 DEF Earliest
    <3> HIDE DEF i
    <3> QED BY <3>1, NodeReplays
  <2> HIDE DEF at, v, first
  <2> QED BY <2>1, <2>2, NoneReplay, OneReplays
<1>2. n \in Nat /\ DOMAIN request.limits = 1..n
  BY RequestFacts
<1>3. BoundaryVectors = FlattenSeq(seqs)
  BY <1>2 DEF BoundaryVectors
<1> HIDE DEF at
<1>4. seqs = [k \in 1..n |-> seqs[k]] /\ \A k \in 1..n : AllReplay(seqs[k])
  BY <1>1
<1> HIDE DEF seqs
<1> QED BY <1>2, <1>3, <1>4, PartsReplay

(* random,                                                                 *)
LEMMA RandomReplay ==
  ASSUME request \in Inputs, DistinctIds, Grown, NEW limit, NEW vs \in RandomVectors(limit)
  PROVE  AllReplay(vs)
<1> DEFINE order(I) == SetToSeq(I)
           vectors(I) == [k \in DOMAIN order(I) |-> NodeVector(order(I)[k], {}, {}, {})]
<1>1. PICK I \in SUBSET (2..Len(nodes)) : vs = vectors(I)
  BY DEF RandomVectors
<1>2. IsFiniteSet(I) /\ I \subseteq DOMAIN nodes
  <2>1. Len(nodes) \in Nat /\ DOMAIN nodes = 1..Len(nodes)
    BY DEF Grown
  <2>2. IsFiniteSet(2..Len(nodes)) /\ I \subseteq 2..Len(nodes) /\ 2..Len(nodes) \subseteq DOMAIN nodes
    BY <2>1, FS_Interval
  <2> QED BY <2>2, FS_Subset
<1>3. /\ DOMAIN order(I) = 1..Len(order(I)) /\ Len(order(I)) \in Nat
      /\ \A k \in DOMAIN order(I) : order(I)[k] \in I
  BY <1>2, SetToSeqFacts, SequenceShape
<1> HIDE DEF order
<1>4. vs = [k \in 1..Len(order(I)) |-> vs[k]]
  BY <1>1, <1>3
<1>5. IsSequence(vs) /\ DOMAIN vs = 1..Len(order(I))
  BY <1>3, <1>4, SequenceIs
<1>6. ASSUME NEW k \in DOMAIN vs PROVE Replays(vs[k])
  <2>1. vs[k] = NodeVector(order(I)[k], {}, {}, {}) /\ order(I)[k] \in DOMAIN nodes
    BY <1>1, <1>2, <1>3, <1>5
  <2> QED BY <2>1, NodeReplays
<1> QED BY <1>5, <1>6 DEF AllReplay

(* enablement, which looks at the first action of the id,                  *)
LEMMA WantedAction ==
  ASSUME request \in Inputs, DistinctIds, NEW id, \E a \in Actions : Id(a) = id
  PROVE  LET first == CHOOSE x \in Actions : Id(x) = id /\ \A y \in 1..(x - 1) : Id(y) # id
         IN  first \in Actions /\ Id(first) = id
<1>1. PICK a \in Actions : Id(a) = id
  OBVIOUS
<1>2. \A y \in 1..(a - 1) : Id(y) # id
  <2> SUFFICES ASSUME NEW y \in 1..(a - 1) PROVE Id(y) # id
    OBVIOUS
  <2>1. y \in Actions /\ y # a
    BY ActionsAssumption DEF Actions
  <2> QED BY <1>1, <2>1 DEF DistinctIds
<1> QED BY <1>1, <1>2

(* and at the first node where it is enabled,                              *)
LEMMA EnablementReplays ==
  ASSUME request \in Inputs, DistinctIds, Grown, Complete,
         NEW id, \E a \in Actions : Id(a) = id
  PROVE  AllReplay(EnablementVectors(id))
<1> DEFINE first == CHOOSE x \in Actions : Id(x) = id /\ \A y \in 1..(x - 1) : Id(y) # id
           i == CHOOSE x \in FirstEdge(first) : TRUE
           v == NodeVector(i, {id}, {TRUE}, DecisionsOf(first, TRUE))
           w == NodeVector(1, {id}, {FALSE}, DecisionsOf(first, FALSE))
<1>1. first \in Actions /\ Id(first) = id
  BY WantedAction
<1>2. EnablementVectors(id) = IF (IF FirstEdge(first) = {} THEN <<>> ELSE <<v>>) # <<>>
                              THEN (IF FirstEdge(first) = {} THEN <<>> ELSE <<v>>) ELSE <<w>>
  BY DEF EnablementVectors, Named
<1> HIDE DEF first
<1>3. ASSUME FirstEdge(first) # {} PROVE Replays(v)
  <2>1. i \in DOMAIN nodes
    BY <1>3 DEF FirstEdge, Earliest
  <2>2. {TRUE} # {FALSE}
    OBVIOUS
  <2> HIDE DEF i
  <2> QED BY <2>1, <2>2, NodeReplays
<1>4. ASSUME FirstEdge(first) = {} PROVE Replays(w)
  <2>1. 1 \in DOMAIN nodes
    BY DEF Grown
  <2>2. ~Enabled(Model, nodes[1].state, first)
    <3> DEFINE I == {j \in DOMAIN nodes : Enabled(Model, nodes[j].state, first)}
    <3>1. I = {}
      <4>1. I \in SUBSET DOMAIN nodes
        OBVIOUS
      <4>2. Earliest(I) = {}
        BY <1>4 DEF FirstEdge
      <4> HIDE DEF I
      <4> QED BY <4>1, <4>2, EarliestExists
    <3> QED BY <2>1, <3>1
  <2>3. \A x \in {id} : ApplyId(nodes[1].state, x) = Disabled
    BY <1>1, <2>1, <2>2, BlockedById
  <2> QED BY <2>1, <2>3, NodeReplays
<1> HIDE DEF v, w
<1>5. EnablementVectors(id) = <<v>> \/ (FirstEdge(first) = {} /\ EnablementVectors(id) = <<w>>)
  BY <1>2
<1>6. FirstEdge(first) # {} \/ EnablementVectors(id) = <<w>>
  BY <1>2
<1> QED BY <1>3, <1>4, <1>5, <1>6, OneReplays

(* deadlock,                                                               *)
LEMMA DeadlockReplays ==
  ASSUME request \in Inputs, DistinctIds, Grown, NEW i \in DOMAIN nodes,
         request.strategy = "deadlock"
  PROVE  AllReplay(<<DeadlockVector(i)>>)
<1> DEFINE v == NodeVector(i, {}, {}, {})
           w == DeadlockVector(i)
<1>1. w.path = v.path /\ w.states = v.states /\ w.enabled = v.enabled /\ w.focus = v.focus
  BY DEF DeadlockVector, NodeVector, Vector
<1>2. Replays(v)
  BY NodeReplays
<1> HIDE DEF v, w
<1>3. Replays(w)
  BY <1>1, <1>2 DEF Replays
<1> QED BY <1>3, OneReplays DEF w

(* the traces of the check,                                                *)
LEMMA AlongFacts ==
  ASSUME request \in Inputs, NEW steps \in Seq(Actions)
  PROVE  /\ IsSequence(StatesAlong(steps)) /\ Len(StatesAlong(steps)) = Len(steps)
         /\ DOMAIN StatesAlong(steps) = 1..Len(steps)
         /\ \A n \in 1..Len(steps) : StatesAlong(steps)[n] = RunOf(Model, steps)[n]
         /\ steps # <<>> => Last(StatesAlong(steps)) = RunOf(Model, steps)[Len(steps)]
<1> DEFINE s == StatesAlong(steps)
           f == RunOf(Model, steps)
<1>1. s = [n \in 1..Len(steps) |-> f[n]] /\ Len(steps) \in Nat
  BY DEF StatesAlong
<1> HIDE DEF s, f
<1>2. s = [n \in 1..Len(steps) |-> s[n]] /\ \A n \in 1..Len(steps) : s[n] = f[n]
  BY <1>1
<1>3. IsSequence(s) /\ Len(s) = Len(steps) /\ DOMAIN s = 1..Len(steps)
  BY <1>1, <1>2, SequenceIs
<1>4. steps # <<>> => Len(steps) \in 1..Len(steps)
  BY <1>1
<1>5. steps # <<>> => Last(s) = f[Len(steps)]
  BY <1>2, <1>3, <1>4 DEF Last
<1> QED BY <1>2, <1>3, <1>5 DEF s, f

(* whose last state is what the kind of the trace promises,                *)
LEMMA TracesReplay ==
  ASSUME request \in Inputs, DistinctIds
  PROVE  AllReplay(TraceVectors)
<1> DEFINE of(t) == Vector(request.strategy, t.path, StatesAlong(t.path), {}, {},
                           {request.strategy = "witness"}, AlongPath(t.path))
           S == {of(t) : t \in {x \in request.trace : Accepts(x)}}
<1>1. ASSUME NEW t \in request.trace, Accepts(t) PROVE Replays(of(t))
  <2> DEFINE v == of(t)
             steps == t.path
             last == RunOf(Model, steps)[Len(steps)]
             end == After(v.path, Len(v.path))
  <2>1. steps \in Seq(Actions) /\ IsEvidence(request, t) /\ Len(steps) \in 0..Len(steps)
    <3>1. steps \in Seq(Actions) /\ IsEvidence(request, t)
      BY RequestFacts
    <3> QED BY <3>1
  <2>2. /\ last \in States
        /\ (t.kind = "counterexample" /\ request.kind = "invariant") => last \notin request.holds
        /\ t.kind = "witness" => last \in request.holds \ request.faulty
    BY <2>1 DEF IsEvidence, Model
  <2>3. /\ v.path = steps /\ v.states = StatesAlong(steps) /\ v.enabled = {}
        /\ v.holds = {request.strategy = "witness"}
    BY VectorFields
  <2> HIDE DEF v, of
  <2>4. After(steps, Len(steps)) = last
    <3> HIDE DEF steps
    <3> QED BY <2>1, <2>2, ReplayIsRun
  <2>5. end = last
    BY <2>3, <2>4
  <2>6. v.states # <<>> => Last(v.states) = end
    <3>1. steps # <<>> => Last(StatesAlong(steps)) = last
      BY <2>1, AlongFacts
    <3>2. steps = <<>> => StatesAlong(steps) = <<>>
      <4>1. IsSequence(StatesAlong(steps)) /\ Len(StatesAlong(steps)) = Len(steps)
        BY <2>1, AlongFacts
      <4> QED BY <4>1 DEF IsSequence
    <3> QED BY <2>3, <2>5, <3>1, <3>2
  <2>7. ASSUME EvidenceFits, request.strategy # "deadlock" PROVE v.holds = {Holds(end)}
    <3>1. (request.strategy = "witness") <=> Holds(last)
      <4>1. CASE request.strategy = "witness"
        <5>1. t.kind = "witness"
          BY <1>1, <2>7, <4>1 DEF Accepts, EvidenceFits
        <5> QED BY <2>2, <4>1, <5>1 DEF Holds
      <4>2. CASE request.strategy # "witness"
        <5>1. t.kind = "counterexample" /\ request.kind = "invariant"
          BY <1>1, <2>7, <4>2 DEF Accepts, EvidenceFits
        <5> QED BY <2>2, <4>2, <5>1 DEF Holds
      <4> QED BY <4>1, <4>2
    <3> HIDE DEF last, end
    <3>2. CASE Holds(last)
      <4>1. (request.strategy = "witness") = TRUE /\ Holds(last) = TRUE
        BY <3>1, <3>2 DEF Holds
      <4> QED BY <2>3, <2>5, <4>1
    <3>3. CASE ~Holds(last)
      <4>1. (request.strategy = "witness") = FALSE /\ Holds(last) = FALSE
        BY <3>1, <3>3 DEF Holds
      <4> QED BY <2>3, <2>5, <4>1
    <3> QED BY <3>2, <3>3
  <2>8. v.enabled # {FALSE}
    BY <2>3
  <2> HIDE DEF end
  <2> QED BY <2>2, <2>5, <2>6, <2>7, <2>8 DEF Replays, v, end
<1> HIDE DEF of
<1>2. \A x, y \in S : x = y
  BY RequestFacts
<1>3. IsFiniteSet(S)
  <2>1. S = {} \/ \E x : S = {x}
    BY <1>2
  <2>2. IsFiniteSet({}) /\ \A x : IsFiniteSet({x})
    BY FS_EmptySet, FS_Singleton
  <2> QED BY <2>1, <2>2
<1>4. TraceVectors = SetToSeq(S)
  BY DEF TraceVectors, of
<1>5. \A v \in S : Replays(v)
  BY <1>1
<1> HIDE DEF S
<1>6. IsSequence(SetToSeq(S)) /\ \A k \in DOMAIN SetToSeq(S) : SetToSeq(S)[k] \in S
  BY <1>3, SetToSeqFacts
<1> QED BY <1>4, <1>5, <1>6 DEF AllReplay

(* and the witnesses of one or two steps.                                  *)
LEMMA SyntheticReplays ==
  ASSUME request \in Inputs, DistinctIds, NEW steps \in Seq(Actions), steps # <<>>
  PROVE  AllReplay(Synthetic(steps))
<1> DEFINE states == StatesAlong(steps)
           v == Vector("witness", steps, states, {}, {}, {TRUE}, AlongPath(steps))
           good == Last(states) \in States /\ \A k \in DOMAIN states : states[k] \in States /\ Holds(states[k])
           end == After(v.path, Len(v.path))
<1>1. Synthetic(steps) = IF good THEN <<v>> ELSE <<>>
  BY DEF Synthetic
<1>2. ASSUME good PROVE Replays(v)
  <2>1. v.path = steps /\ v.states = states /\ v.enabled = {} /\ v.holds = {TRUE}
    <3> HIDE DEF states, good
    <3> QED BY DEF Vector
  <2>2. /\ DOMAIN states = 1..Len(steps) /\ Len(steps) \in 1..Len(steps) /\ Len(steps) \in 0..Len(steps)
        /\ Last(states) = RunOf(Model, steps)[Len(steps)]
        /\ states[Len(steps)] = RunOf(Model, steps)[Len(steps)]
    <3>1. Len(steps) \in 1..Len(steps) /\ Len(steps) \in 0..Len(steps)
      OBVIOUS
    <3> QED BY <3>1, AlongFacts
  <2> HIDE DEF v
  <2>3. Last(states) \in States /\ states[Len(steps)] \in States /\ Holds(states[Len(steps)])
    BY <1>2, <2>2
  <2>4. After(steps, Len(steps)) = RunOf(Model, steps)[Len(steps)]
    BY <2>2, <2>3, ReplayIsRun
  <2>5. end = Last(states) /\ end = states[Len(steps)]
    BY <2>1, <2>2, <2>4
  <2> HIDE DEF states, good
  <2>6. Holds(end)
    BY <2>3, <2>5
  <2>7. Holds(end) = TRUE
    BY <2>6 DEF Holds
  <2>8. v.holds = {Holds(end)}
    BY <2>1, <2>7
  <2>9. v.enabled # {FALSE}
    BY <2>1
  <2>10. end \in States /\ (v.states # <<>> => Last(v.states) = end)
    BY <2>1, <2>3, <2>5
  <2> HIDE DEF end
  <2> QED BY <2>8, <2>9, <2>10 DEF Replays, end
<1> HIDE DEF v, good
<1> QED BY <1>1, <1>2, NoneReplay, OneReplays

(* There is at most one for each sequence of ids.                          *)
LEMMA SyntheticsReplay ==
  ASSUME request \in Inputs, DistinctIds
  PROVE  AllReplay(SyntheticVectors)
<1> DEFINE two(a) == [b \in Actions |-> Synthetic(<<a, b>>)]
           from(a) == IF Synthetic(<<a>>) = <<>> THEN <<>> ELSE Synthetic(<<a>>) \o FlattenSeq(two(a))
           seqs == [a \in Actions |-> from(a)]
           all == FlattenSeq(seqs)
           Out == {k \in DOMAIN all : \E j \in 1..(k - 1) : Ids(all[j].path) = Ids(all[k].path)}
<1>1. ASSUME NEW a \in Actions PROVE AllReplay(from(a))
  <2>1. AllReplay(Synthetic(<<a>>))
    <3>1. <<a>> \in Seq(Actions) /\ <<a>> # <<>>
      OBVIOUS
    <3> QED BY <3>1, SyntheticReplays
  <2>2. two(a) = [k \in 1..NumActions |-> two(a)[k]] /\ NumActions \in Nat
    BY ActionsAssumption DEF Actions
  <2>3. \A b \in Actions : AllReplay(Synthetic(<<a, b>>))
    <3> SUFFICES ASSUME NEW b \in Actions PROVE AllReplay(Synthetic(<<a, b>>))
      OBVIOUS
    <3>1. <<a, b>> \in Seq(Actions) /\ <<a, b>> # <<>>
      OBVIOUS
    <3> QED BY <3>1, SyntheticReplays
  <2>4. \A k \in 1..NumActions : AllReplay(two(a)[k])
    BY <2>3 DEF Actions
  <2> HIDE DEF two
  <2>5. AllReplay(FlattenSeq(two(a)))
    BY <2>2, <2>4, PartsReplay
  <2>6. AllReplay(Synthetic(<<a>>) \o FlattenSeq(two(a)))
    BY <2>1, <2>5, BothReplay
  <2> QED BY <2>6, NoneReplay
<1>2. AllReplay(all)
  <2> HIDE DEF from
  <2>1. seqs = [k \in 1..NumActions |-> seqs[k]] /\ NumActions \in Nat
    BY ActionsAssumption DEF Actions
  <2>2. \A k \in 1..NumActions : AllReplay(seqs[k])
    BY <1>1 DEF Actions
  <2> HIDE DEF seqs
  <2> QED BY <2>1, <2>2, PartsReplay
<1>3. SyntheticVectors = FlattenSeq([k \in DOMAIN all |-> IF k \in Out THEN <<>> ELSE <<all[k]>>])
  <2>1. SyntheticVectors = FlattenSeq([k \in DOMAIN all |->
            IF \E j \in 1..(k - 1) : Ids(all[j].path) = Ids(all[k].path)
            THEN <<>> ELSE <<all[k]>>])
    BY DEF SyntheticVectors, FirstOfEach
  <2> HIDE DEF all
  <2> QED BY <2>1
<1> HIDE DEF all, Out
<1> QED BY <1>2, <1>3, FilteredReplay

(* Parents in the order of their children, as a queue makes them.          *)
Ordered ==
  \A i, j \in DOMAIN nodes : i <= j => nodes[i].parent <= nodes[j].parent

(* The action has been tried at the node, and what it leads to is a node   *)
(* that was found no later than from there.                                *)
Settled(i, x) ==
  LET t == ApplyAction(Model, nodes[i].state, x) IN
  /\ t # Fault
  /\ t \in States => \E j \in DOMAIN nodes : nodes[j].state = t /\ nodes[j].parent <= i

(* How far the exploration has come, and what it has found of it.          *)
Covered ==
  /\ current \in 0..Len(nodes) /\ next \in 0..(NumActions + 1)
  /\ next # 0 => current # 0
  /\ \A i \in DOMAIN nodes : nodes[i].parent <= current
  /\ \A i \in DOMAIN nodes : \A x \in Actions :
       i < current \/ (i = current /\ (next = 0 \/ x < next)) => Settled(i, x)

(* What the reduction has kept so far, and tried in vain.                  *)
Reduced ==
  request.strategy = "minimize" /\ pc \in {"minimize", "done"} /\ error = "none" =>
    /\ path \in Seq(Actions) /\ path # <<>> /\ start \in Nat \ {0}
    /\ \A t \in request.trace : Outcome(t.path) = "yes" => Outcome(path) = "yes"
    /\ \A i \in DOMAIN path :
         i < start => RemoveAt(path, i) = <<>> \/ Outcome(RemoveAt(path, i)) # "yes"
    /\ pc = "done" => start \notin DOMAIN path

Stages ==
  /\ pc \in {"begin", "explore", "minimize", "done"}
  /\ pc # "done" => built = <<>> /\ error = "none"
  /\ pc = "begin" => start = 1
  /\ pc = "begin" => current = 0 /\ next = 0
  /\ pc = "explore" => request.strategy # "minimize"
  /\ pc = "minimize" => request.strategy = "minimize"

(* The inductive invariant.                                                *)
FileInv ==
  /\ request \in Inputs
  /\ Stages /\ Grown /\ Ordered /\ Covered /\ Reduced /\ VectorsHold

AnyInv == IF surface = "file" THEN FileInv ELSE built = <<>> /\ pc = "unused"

-------------------------------------------------------------------------------
(* The depth of a node is the length of its route.                         *)
LEMMA DepthFacts ==
  ASSUME request \in Inputs, Grown, NEW i \in DOMAIN nodes
  PROVE  /\ Len(Route(i)) \in Nat
         /\ i = 1 => Len(Route(i)) = 0
         /\ i # 1 => Len(Route(i)) = Len(Route(nodes[i].parent)) + 1
<1>1. Route(i) \in Seq(Actions)
  BY RouteFacts
<1>2. CASE i = 1
  <2>1. nodes[i].parent = 0
    BY <1>2, NodeParts
  <2>2. Route(i) = <<>>
    BY <2>1, RouteFacts
  <2> QED BY <1>1, <1>2, <2>2
<1>3. CASE i # 1
  <2>1. nodes[i].parent # 0 /\ nodes[i].parent \in DOMAIN nodes
    BY <1>3, NodeParts
  <2>2. Route(i) = Append(Route(nodes[i].parent), nodes[i].via)
    BY <2>1, RouteFacts
  <2>3. Route(nodes[i].parent) \in Seq(Actions) /\ nodes[i].via \in Actions
    BY <1>3, <2>1, RouteFacts DEF Grown
  <2> QED BY <1>1, <1>3, <2>2, <2>3
<1> QED BY <1>2, <1>3

(* It grows with the place of the node.                                    *)
LEMMA DepthGrows ==
  ASSUME request \in Inputs, Grown, Ordered, NEW i \in DOMAIN nodes, NEW j \in DOMAIN nodes, i <= j
  PROVE  Len(Route(i)) <= Len(Route(j))
<1> DEFINE T == {n \in Nat : \A p, q \in DOMAIN nodes :
                   p <= q /\ q <= n => Len(Route(p)) <= Len(Route(q))}
<1>1. 0 \in T
  BY NodeParts
<1>2. ASSUME NEW n \in T PROVE n + 1 \in T
  <2> SUFFICES ASSUME NEW p \in DOMAIN nodes, NEW q \in DOMAIN nodes, p <= q, q <= n + 1
               PROVE  Len(Route(p)) <= Len(Route(q))
    OBVIOUS
  <2>1. CASE p = 1
    BY <2>1, DepthFacts
  <2>2. CASE p # 1
    <3> DEFINE x == nodes[p].parent
               y == nodes[q].parent
    <3>1. p \in Nat /\ q \in Nat /\ p # 0 /\ q # 1
      BY <2>2, NodeParts
    <3>2. x \in DOMAIN nodes /\ x < p /\ x \in Nat
      BY <2>2, NodeParts
    <3>3. y \in DOMAIN nodes /\ y < q /\ y \in Nat
      BY <3>1, NodeParts
    <3>4. x <= y
      BY DEF Ordered
    <3>5. Len(Route(p)) = Len(Route(x)) + 1 /\ Len(Route(q)) = Len(Route(y)) + 1
      BY <2>2, <3>1, DepthFacts
    <3>6. Len(Route(x)) \in Nat /\ Len(Route(y)) \in Nat
      BY <3>2, <3>3, DepthFacts
    <3> HIDE DEF x, y
    <3>7. y <= n
      BY <3>1, <3>3
    <3>8. Len(Route(x)) <= Len(Route(y))
      BY <3>2, <3>3, <3>4, <3>7
    <3> QED BY <3>5, <3>6, <3>8
  <2> QED BY <2>1, <2>2
<1>3. T = Nat
  <2>1. T \in SUBSET Nat
    OBVIOUS
  <2> HIDE DEF T
  <2> QED BY <1>1, <1>2, <2>1, InductionInSetForm
<1>4. j \in Nat
  BY NodeParts
<1> QED BY <1>3, <1>4

(* The exploration has come to its end.                                    *)
AllSettled == \A i \in DOMAIN nodes : \A x \in Actions : Settled(i, x)

(* Then nothing is missing.                                                *)
LEMMA SettledIsComplete ==
  ASSUME AllSettled
  PROVE  Complete
BY DEF AllSettled, Settled, Complete

(* And every node can be reached.                                          *)
LEMMA NodesReachable ==
  ASSUME request \in Inputs, Grown, NEW i \in DOMAIN nodes
  PROVE  nodes[i].state \in Reachable(Model)
<1> DEFINE T == {n \in Nat : \A j \in DOMAIN nodes : j <= n => nodes[j].state \in Reachable(Model)}
<1>1. 0 \in T
  BY NodeParts
<1>2. ASSUME NEW n \in T PROVE n + 1 \in T
  <2> SUFFICES ASSUME NEW j \in DOMAIN nodes, j <= n + 1 PROVE nodes[j].state \in Reachable(Model)
    OBVIOUS
  <2>1. CASE j = 1
    <3>1. nodes[j].state = Model.init
      BY <2>1 DEF Grown
    <3> QED BY <3>1, RequestFacts, InitialNode
  <2>2. CASE j # 1
    <3> DEFINE p == nodes[j].parent
    <3>1. p \in DOMAIN nodes /\ p <= n
      BY <2>2, NodeParts
    <3>2. nodes[j].via \in Actions /\ nodes[j].state = ApplyAction(Model, nodes[p].state, nodes[j].via)
      BY <2>2 DEF Grown
    <3>3. nodes[j].state \in States /\ Model \in ModelType
      BY NodeParts, RequestFacts
    <3>4. nodes[p].state \in Reachable(Model)
      BY <3>1
    <3> HIDE DEF p
    <3> QED BY <3>2, <3>3, <3>4, ReachableStep
  <2> QED BY <2>1, <2>2
<1>3. T = Nat
  <2>1. T \in SUBSET Nat
    OBVIOUS
  <2> HIDE DEF T
  <2> QED BY <1>1, <1>2, <2>1, InductionInSetForm
<1>4. i \in Nat
  BY NodeParts
<1> QED BY <1>3, <1>4

(* What a number of steps can reach is found within that depth.            *)
LEMMA RingsFound ==
  ASSUME request \in Inputs, Grown, Ordered, AllSettled, NEW d \in Nat
  PROVE  \A s \in Within(Model, d) :
           \E j \in DOMAIN nodes : nodes[j].state = s /\ Len(Route(j)) <= d
<1> DEFINE Here(s, n) == \E j \in DOMAIN nodes : nodes[j].state = s /\ Len(Route(j)) <= n
           T == {n \in Nat : \A s \in Within(Model, n) : Here(s, n)}
<1>1. 0 \in T
  <2>1. Within(Model, 0) = {Model.init}
    BY WithinZero
  <2>2. 1 \in DOMAIN nodes /\ nodes[1].state = Model.init
    BY DEF Grown
  <2>3. Len(Route(1)) <= 0
    BY <2>2, DepthFacts
  <2> QED BY <2>1, <2>2, <2>3
<1>2. ASSUME NEW n \in T PROVE n + 1 \in T
  <2> SUFFICES ASSUME NEW s \in Within(Model, n + 1) PROVE Here(s, n + 1)
    OBVIOUS
  <2>1. CASE s \in Within(Model, n)
    <3>1. PICK j \in DOMAIN nodes : nodes[j].state = s /\ Len(Route(j)) <= n
      BY <2>1
    <3>2. Len(Route(j)) <= n + 1
      BY <3>1, DepthFacts
    <3> QED BY <3>1, <3>2
  <2>2. CASE s \notin Within(Model, n)
    <3>1. PICK r \in Within(Model, n) : s \in Successors(Model, r)
      BY <2>2, WithinNext
    <3>2. PICK x \in Actions : s = ApplyAction(Model, r, x) /\ s \in States
      BY <3>1 DEF Successors
    <3>3. PICK i \in DOMAIN nodes : nodes[i].state = r /\ Len(Route(i)) <= n
      BY <3>1
    <3>4. PICK j \in DOMAIN nodes : nodes[j].state = s /\ nodes[j].parent <= i
      BY <3>2, <3>3 DEF AllSettled, Settled
    <3>5. Len(Route(j)) <= n + 1
      <4>1. CASE j = 1
        BY <4>1, DepthFacts
      <4>2. CASE j # 1
        <5> DEFINE p == nodes[j].parent
        <5>1. p \in DOMAIN nodes /\ Len(Route(j)) = Len(Route(p)) + 1
          BY <4>2, NodeParts, DepthFacts
        <5>2. p <= i
          BY <3>4
        <5> HIDE DEF p
        <5>3. Len(Route(p)) <= Len(Route(i))
          BY <5>1, <5>2, DepthGrows
        <5>4. Len(Route(p)) \in Nat /\ Len(Route(i)) \in Nat
          BY <5>1, DepthFacts
        <5> QED BY <3>3, <5>1, <5>3, <5>4
      <4> QED BY <4>1, <4>2
    <3> QED BY <3>4, <3>5
  <2> QED BY <2>1, <2>2
<1>3. T = Nat
  <2>1. T \in SUBSET Nat
    OBVIOUS
  <2> HIDE DEF T
  <2> QED BY <1>1, <1>2, <2>1, InductionInSetForm
<1> QED BY <1>3

(* What testgen-strategies.md says of the vector of an enablement.         *)
Enabling(v) == {s \in Reachable(Model) : \E x \in Actions : Id(x) \in v.focus /\ Enabled(Model, s, x)}

IsShortest(v) ==
  IF v.enabled = {TRUE}
  THEN /\ After(v.path, Len(v.path)) \in Enabling(v)
       /\ v.path # <<>> => Within(Model, Len(v.path) - 1) \cap Enabling(v) = {}
  ELSE Enabling(v) = {}

(* The fields of a node's vector.                                          *)
LEMMA NodeFields ==
  ASSUME NEW i, NEW focus, NEW enabled, NEW about
  PROVE  LET v == NodeVector(i, focus, enabled, about)
         IN  v.path = Route(i) /\ v.focus = focus /\ v.enabled = enabled
BY VectorFields DEF NodeVector

(* Every reachable state is a node.                                        *)
LEMMA ReachableIsFound ==
  ASSUME request \in Inputs, Grown, Ordered, AllSettled, NEW s \in Reachable(Model)
  PROVE  \E j \in DOMAIN nodes : nodes[j].state = s
<1>1. PICK k \in Nat : s \in Within(Model, k)
  BY RequestFacts, ReachableWithin
<1> QED BY <1>1, RingsFound

(* The first node that enables an action is one of the nearest that do.    *)
LEMMA EnablementIsShortest ==
  ASSUME request \in Inputs, DistinctIds, Grown, Ordered, AllSettled,
         NEW id, \E x \in Actions : Id(x) = id
  PROVE  IsShortest(EnablementVectors(id)[1])
<1> DEFINE first == CHOOSE x \in Actions : Id(x) = id /\ \A y \in 1..(x - 1) : Id(y) # id
           i == CHOOSE x \in FirstEdge(first) : TRUE
           does == DecisionsOf(first, TRUE)
           doesNot == DecisionsOf(first, FALSE)
           v == NodeVector(i, {id}, {TRUE}, does)
           w == NodeVector(1, {id}, {FALSE}, doesNot)
           I == {j \in DOMAIN nodes : Enabled(Model, nodes[j].state, first)}
<1>1. first \in Actions /\ Id(first) = id
  BY WantedAction
<1>2. EnablementVectors(id) = IF (IF FirstEdge(first) = {} THEN <<>> ELSE <<v>>) # <<>>
                              THEN (IF FirstEdge(first) = {} THEN <<>> ELSE <<v>>) ELSE <<w>>
  BY DEF EnablementVectors, Named
<1> HIDE DEF first, does, doesNot
<1>3. FirstEdge(first) = Earliest(I)
  BY DEF FirstEdge
<1>4. \A x \in Actions : Id(x) = id => x = first
  BY <1>1 DEF DistinctIds
<1>5. CASE FirstEdge(first) # {}
  <2>1. i \in I /\ \A j \in I : i <= j
    BY <1>3, <1>5 DEF Earliest
  <2>2. i \in DOMAIN nodes /\ Enabled(Model, nodes[i].state, first)
    BY <2>1
  <2> HIDE DEF i
  <2>3. v.path = Route(i) /\ v.focus = {id} /\ v.enabled = {TRUE}
    <3> DEFINE f == {id}
               e == {TRUE}
    <3> HIDE DEF f, e
    <3>1. LET x == NodeVector(i, f, e, does)
          IN  x.path = Route(i) /\ x.focus = f /\ x.enabled = e
      BY NodeFields
    <3> QED BY <3>1 DEF f, e
  <2>4. EnablementVectors(id)[1] = v
    <3> HIDE DEF v, w
    <3> QED BY <1>2, <1>5
  <2> HIDE DEF v, w
  <2>5. After(v.path, Len(v.path)) = nodes[i].state
    BY <2>2, <2>3, RouteReplays
  <2>6. nodes[i].state \in Enabling(v)
    BY <1>1, <2>2, <2>3, NodesReachable DEF Enabling
  <2>7. ASSUME v.path # <<>> PROVE Within(Model, Len(v.path) - 1) \cap Enabling(v) = {}
    <3> SUFFICES ASSUME NEW s \in Within(Model, Len(Route(i)) - 1), s \in Enabling(v) PROVE FALSE
      BY <2>3
    <3>1. Route(i) \in Seq(Actions) /\ Route(i) # <<>>
      BY <2>2, <2>3, <2>7, RouteFacts
    <3>2. Len(Route(i)) - 1 \in Nat /\ Len(Route(i)) \in Nat
      BY <3>1
    <3>3. PICK j \in DOMAIN nodes : nodes[j].state = s /\ Len(Route(j)) <= Len(Route(i)) - 1
      BY <3>2, RingsFound
    <3>4. PICK x \in Actions : Id(x) \in {id} /\ Enabled(Model, s, x)
      BY <2>3 DEF Enabling
    <3>5. x = first
      BY <1>4, <3>4
    <3>6. j \in I
      BY <3>3, <3>4, <3>5
    <3>7. i <= j
      BY <2>1, <3>6
    <3>8. Len(Route(i)) <= Len(Route(j))
      BY <2>2, <3>3, <3>7, DepthGrows
    <3>9. Len(Route(j)) \in Nat
      BY <3>3, DepthFacts
    <3> QED BY <3>2, <3>3, <3>8, <3>9
  <2> QED BY <2>3, <2>4, <2>5, <2>6, <2>7 DEF IsShortest
<1>6. CASE FirstEdge(first) = {}
  <2>1. w.focus = {id} /\ w.enabled = {FALSE}
    <3> DEFINE f == {id}
               e == {FALSE}
    <3> HIDE DEF f, e
    <3>1. LET x == NodeVector(1, f, e, doesNot)
          IN  x.path = Route(1) /\ x.focus = f /\ x.enabled = e
      BY NodeFields
    <3> QED BY <3>1 DEF f, e
  <2>2. EnablementVectors(id)[1] = w
    <3> HIDE DEF v, w
    <3> QED BY <1>2, <1>6
  <2> HIDE DEF v, w
  <2>3. w.enabled # {TRUE}
    BY <2>1
  <2>4. Enabling(w) = {}
    <3> SUFFICES ASSUME NEW s \in Reachable(Model), NEW x \in Actions, Id(x) \in {id},
                        Enabled(Model, s, x)
                 PROVE  FALSE
      BY <2>1 DEF Enabling
    <3>1. x = first
      BY <1>4
    <3>2. PICK j \in DOMAIN nodes : nodes[j].state = s
      BY ReachableIsFound
    <3>3. j \in I /\ I \in SUBSET DOMAIN nodes
      BY <3>1, <3>2
    <3> HIDE DEF I
    <3> QED BY <1>3, <1>6, <3>3, EarliestExists
  <2> QED BY <2>2, <2>3, <2>4 DEF IsShortest
<1> QED BY <1>5, <1>6

(* All of it depends on the request alone, which never changes.            *)
LEMMA ReplayedKept ==
  ASSUME NEW steps, UNCHANGED request
  PROVE  Replayed(steps)' = Replayed(steps)
BY DEF Replayed, Id, Model, ApplyId

(* A vector that replays keeps doing so,                                   *)
LEMMA ReplaysKept ==
  ASSUME NEW v, UNCHANGED request
  PROVE  Replays(v)' <=> Replays(v)
<1>1. /\ After(v.path, Len(v.path))' = After(v.path, Len(v.path))
      /\ EvidenceFits' = EvidenceFits
  BY ReplayedKept DEF After, EvidenceFits
<1>2. \A s : Holds(s)' = Holds(s)
  BY DEF Holds
<1>3. \A s, id : ApplyId(s, id)' = ApplyId(s, id)
  BY DEF ApplyId, Id, Model
<1> QED BY <1>1, <1>2, <1>3 DEF Replays

(* a shortest one stays the shortest,                                      *)
LEMMA ShortestKept ==
  ASSUME NEW v, UNCHANGED request
  PROVE  IsShortest(v)' <=> IsShortest(v)
<1>1. Enabling(v)' = Enabling(v)
  BY DEF Enabling, Id, Model
<1>2. After(v.path, Len(v.path))' = After(v.path, Len(v.path))
  BY ReplayedKept DEF After
<1> QED BY <1>1, <1>2 DEF IsShortest, Model

(* and a failure stays one.                                                *)
LEMMA OutcomeKept ==
  ASSUME NEW steps, UNCHANGED request
  PROVE  Outcome(steps)' = Outcome(steps)
<1>1. \A k : After(steps, k)' = After(steps, k)
  BY ReplayedKept DEF After
<1>2. \A s : Holds(s)' = Holds(s)
  BY DEF Holds
<1> QED BY <1>1, <1>2 DEF Outcome

(* VectorsHold, vector by vector.                                          *)
LEMMA WhatVectorsHold ==
  VectorsHold <=>
    (DistinctIds =>
       /\ \A k \in DOMAIN built : Replays(built[k])
       /\ request.strategy = "enablement" /\ built # <<>> => IsShortest(built[1]))
BY DEF VectorsHold, VectorsReplay, EnablementShortest, IsShortest, Enabling

(* What is delivered holds.                                                *)
LEMMA Delivered ==
  ASSUME NEW q, built' = q, UNCHANGED request,
         DistinctIds => /\ AllReplay(q)
                        /\ request.strategy = "enablement" => IsShortest(q[1])
  PROVE  VectorsHold'
<1>1. VectorsHold' <=>
    (DistinctIds' =>
       /\ \A k \in DOMAIN built' : Replays(built[k])'
       /\ request'.strategy = "enablement" /\ built' # <<>> => IsShortest(built[1])')
  BY DEF VectorsHold, VectorsReplay, EnablementShortest, IsShortest, Enabling
<1>2. DistinctIds' = DistinctIds
  BY DEF DistinctIds, Id
<1>3. \A k \in DOMAIN q : Replays(q[k])' <=> Replays(q[k])
  BY ReplaysKept
<1>4. IsShortest(q[1])' <=> IsShortest(q[1])
  BY ShortestKept
<1>5. (\A k \in DOMAIN built' : Replays(built[k])') <=> \A k \in DOMAIN q : Replays(q[k])'
  BY DEF Replays, EvidenceFits, Holds, ApplyId, After, Id, Model
<1> QED BY <1>1, <1>2, <1>3, <1>4, <1>5 DEF AllReplay

(* What was delivered keeps holding.                                       *)
LEMMA VectorsKept ==
  ASSUME UNCHANGED <<request, built>>, VectorsHold
  PROVE  VectorsHold'
<1> PICK q : q = built
  OBVIOUS
<1>1. DistinctIds => /\ \A k \in DOMAIN q : Replays(q[k])
                     /\ request.strategy = "enablement" /\ q # <<>> => IsShortest(q[1])
  BY WhatVectorsHold
<1>2. VectorsHold' <=>
    (DistinctIds' =>
       /\ \A k \in DOMAIN built' : Replays(built[k])'
       /\ request'.strategy = "enablement" /\ built' # <<>> => IsShortest(built[1])')
  BY DEF VectorsHold, VectorsReplay, EnablementShortest, IsShortest, Enabling
<1>3. DistinctIds' = DistinctIds
  BY DEF DistinctIds, Id
<1>4. \A k \in DOMAIN q : Replays(q[k])' <=> Replays(q[k])
  BY ReplaysKept
<1>5. IsShortest(q[1])' <=> IsShortest(q[1])
  BY ShortestKept
<1>6. built' = q
  OBVIOUS
<1>7. (\A k \in DOMAIN built' : Replays(built[k])') <=> \A k \in DOMAIN q : Replays(q[k])'
  BY <1>6 DEF Replays, EvidenceFits, Holds, ApplyId, After, Id, Model
<1>8. IsShortest(built[1])' <=> IsShortest(q[1])'
  BY <1>6 DEF IsShortest, Enabling, After, Id, Model
<1> QED BY <1>1, <1>2, <1>3, <1>4, <1>5, <1>6, <1>7, <1>8

(* So does what was explored.                                              *)
LEMMA ExplorationKept ==
  ASSUME UNCHANGED <<request, nodes>>
  PROVE  /\ Grown => Grown' 
         /\ Ordered => Ordered'
         /\ \A i, x : Settled(i, x)' <=> Settled(i, x)
BY DEF Grown, Ordered, Settled, Model

(* Where nothing is minimised.                                             *)
LEMMA NothingReduced ==
  ASSUME request'.strategy = request.strategy,
         request.strategy # "minimize" \/ pc' \notin {"minimize", "done"} \/ error' # "none"
  PROVE  Reduced'
BY DEF Reduced

(* A step that changes nothing.                                            *)
LEMMA Trivial ==
  ASSUME FileInv, UNCHANGED vars
  PROVE  FileInv'
<1> USE DEF vars, exploration, reduction
<1>1. request' \in Inputs /\ Stages'
  BY DEF FileInv, Stages
<1>2. Grown' /\ Ordered' /\ VectorsHold'
  BY ExplorationKept, VectorsKept DEF FileInv
<1>3. Covered'
  BY ExplorationKept DEF FileInv, Covered
<1>4. Reduced'
  <2> PICK p, r : p = path /\ r = request
    OBVIOUS
  <2>1. Outcome(p)' = Outcome(p) /\ (\A t \in r.trace : Outcome(t.path)' = Outcome(t.path))
        /\ \A i : Outcome(RemoveAt(p, i))' = Outcome(RemoveAt(p, i))
    BY OutcomeKept
  <2> QED BY <2>1 DEF FileInv, Reduced
<1> QED BY <1>1, <1>2, <1>3, <1>4 DEF FileInv

(* A step that delivers vectors.                                           *)
LEMMA DeliveryKeeps ==
  ASSUME FileInv, request.strategy # "minimize", NEW q, Deliver(q),
         DistinctIds => /\ AllReplay(q)
                        /\ request.strategy = "enablement" => IsShortest(q[1])
  PROVE  FileInv'
<1> USE DEF exploration, reduction
<1>1. /\ built' = q /\ pc' = "done"
      /\ UNCHANGED <<request, nodes, current, next, path, start, error>>
  BY DEF Deliver
<1>2. request' \in Inputs /\ Stages'
  BY <1>1 DEF FileInv, Stages
<1>3. Grown' /\ Ordered'
  BY <1>1, ExplorationKept DEF FileInv
<1>4. Covered'
  BY <1>1, ExplorationKept DEF FileInv, Covered
<1>5. Reduced'
  BY <1>1, NothingReduced
<1>6. VectorsHold'
  BY <1>1, Delivered
<1> QED BY <1>2, <1>3, <1>4, <1>5, <1>6 DEF FileInv

(* A step that fails.                                                      *)
LEMMA FailureKeeps ==
  ASSUME FileInv, NEW why, why # "none", Fail(why),
         UNCHANGED <<request, exploration, built, kept, reduction>>
  PROVE  FileInv'
<1> USE DEF exploration, reduction
<1>1. /\ pc' = "done" /\ error' = why
      /\ UNCHANGED <<request, nodes, current, next, path, start, built>>
  BY DEF Fail
<1>2. request' \in Inputs /\ Stages'
  BY <1>1 DEF FileInv, Stages
<1>3. Grown' /\ Ordered'
  BY <1>1, ExplorationKept DEF FileInv
<1>4. Covered'
  BY <1>1, ExplorationKept DEF FileInv, Covered
<1>5. Reduced'
  BY <1>1, NothingReduced
<1>6. VectorsHold'
  BY <1>1, VectorsKept DEF FileInv
<1> QED BY <1>2, <1>3, <1>4, <1>5, <1>6 DEF FileInv

(* A new node: it has a parent that is not later, and settles the action.  *)
LEMMA AddingKeeps ==
  ASSUME FileInv, AddNode
  PROVE  Grown' /\ Ordered' /\ Covered'
<1> USE DEF exploration, reduction
<1> DEFINE n == [state |-> Target, parent |-> current, via |-> next]
           k == Len(nodes)
<1>1. /\ next \in Actions /\ Target \in States /\ ~Known /\ nodes' = Append(nodes, n)
      /\ next' = next + 1 /\ current' = current /\ request' = request
  BY DEF AddNode, Trying
<1>2. /\ k \in Nat \ {0} /\ nodes \in Seq(Node) /\ DOMAIN nodes = 1..k /\ NumActions \in Nat
      /\ current \in 1..k /\ next \in Nat /\ next # 0 /\ next + 1 \in 0..(NumActions + 1)
  BY <1>1, ActionsAssumption DEF FileInv, Grown, Covered, Actions
<1>3. n \in Node
  BY <1>1, <1>2 DEF Node
<1>4. /\ n.state = ApplyAction(Model, nodes[current].state, next)
      /\ n.parent = current /\ n.via = next
  BY DEF Target
<1>5. \A i \in DOMAIN nodes : nodes[i].state # n.state
  BY <1>1 DEF Known
<1> HIDE DEF n
<1>6. /\ nodes' \in Seq(Node) /\ DOMAIN nodes' = 1..(k + 1) /\ Len(nodes') = k + 1
      /\ nodes'[k + 1] = n /\ \A i \in 1..k : nodes'[i] = nodes[i]
  BY <1>1, <1>2, <1>3
<1>7. Model' = Model
  BY <1>1 DEF Model
<1>8. Grown'
  <2>1. nodes' # <<>> /\ 1 \in 1..k
    BY <1>2, <1>6
  <2>2. nodes'[1] = [state |-> Model'.init, parent |-> 0, via |-> 0]
    BY <1>6, <1>7, <2>1 DEF FileInv, Grown
  <2>3. ASSUME NEW i \in DOMAIN nodes' \ {1}
        PROVE  /\ nodes'[i].parent \in 1..(i - 1) /\ nodes'[i].via \in Actions
               /\ nodes'[i].state = ApplyAction(Model', nodes'[nodes'[i].parent].state, nodes'[i].via)
    <3>1. CASE i = k + 1
      BY <1>1, <1>2, <1>4, <1>6, <1>7, <3>1
    <3>2. CASE i # k + 1
      <4>1. i \in 1..k /\ i \in DOMAIN nodes \ {1} /\ nodes'[i] = nodes[i] /\ i - 1 <= k
        BY <1>2, <1>6, <3>2
      <4>2. /\ nodes[i].parent \in 1..(i - 1) /\ nodes[i].via \in Actions
            /\ nodes[i].state = ApplyAction(Model, nodes[nodes[i].parent].state, nodes[i].via)
        BY <4>1 DEF FileInv, Grown
      <4>3. nodes[i].parent \in 1..k
        BY <1>2, <4>1, <4>2
      <4>4. nodes'[nodes[i].parent] = nodes[nodes[i].parent]
        BY <1>6, <4>3
      <4> QED BY <1>7, <4>1, <4>2, <4>4
    <3> QED BY <3>1, <3>2
  <2>4. ASSUME NEW i \in DOMAIN nodes', NEW j \in DOMAIN nodes', nodes'[i].state = nodes'[j].state
        PROVE  i = j
    <3>1. \A x \in 1..k : nodes'[x].state # n.state
      BY <1>2, <1>5, <1>6
    <3>2. \A x, y \in 1..k : nodes'[x].state = nodes'[y].state => x = y
      BY <1>2, <1>6 DEF FileInv, Grown
    <3>3. \A x \in DOMAIN nodes' : x \in 1..k \/ x = k + 1
      BY <1>2, <1>6
    <3> QED BY <1>6, <2>4, <3>1, <3>2, <3>3
  <2> QED BY <1>6, <2>1, <2>2, <2>3, <2>4 DEF Grown
<1>9. Ordered'
  <2> SUFFICES ASSUME NEW i \in DOMAIN nodes', NEW j \in DOMAIN nodes', i <= j
               PROVE  nodes'[i].parent <= nodes'[j].parent
    BY DEF Ordered
  <2>1. \A x \in 1..k : nodes[x].parent <= current
    BY <1>2 DEF FileInv, Covered
  <2>2. \A x, y \in 1..k : x <= y => nodes[x].parent <= nodes[y].parent
    BY <1>2 DEF FileInv, Ordered
  <2>3. i \in 1..(k + 1) /\ j \in 1..(k + 1)
    BY <1>6
  <2>4. CASE j = k + 1
    BY <1>2, <1>4, <1>6, <2>1, <2>3, <2>4
  <2>5. CASE j # k + 1
    <3>1. i \in 1..k /\ j \in 1..k
      BY <1>2, <2>3, <2>5
    <3> QED BY <1>6, <2>2, <3>1
  <2> QED BY <2>4, <2>5
<1>10. Covered'
  <2>1. current' \in 0..Len(nodes') /\ next' \in 0..(NumActions + 1) /\ (next' # 0 => current' # 0)
    BY <1>1, <1>2, <1>6
  <2>2. \A i \in DOMAIN nodes' : nodes'[i].parent <= current'
    <3>1. \A x \in 1..k : nodes[x].parent <= current
      BY <1>2 DEF FileInv, Covered
    <3> QED BY <1>1, <1>2, <1>4, <1>6, <3>1
  <2>3. ASSUME NEW i \in DOMAIN nodes', NEW x \in Actions,
               i < current' \/ (i = current' /\ (next' = 0 \/ x < next'))
        PROVE  Settled(i, x)'
    <3> DEFINE t == ApplyAction(Model, nodes[i].state, x)
    <3>1. i \in 1..k /\ nodes'[i] = nodes[i]
      BY <1>1, <1>2, <1>6, <2>3
    <3>2. CASE i = current /\ x = next
      <4>1. t = n.state
        BY <1>4, <3>2
      <4>2. t \in States /\ t # Fault
        BY <1>1, <1>4, <4>1, StatesAssumption DEF Target
      <4>3. k + 1 \in DOMAIN nodes' /\ nodes'[k + 1].state = t /\ nodes'[k + 1].parent <= i
        BY <1>2, <1>4, <1>6, <3>2, <4>1
      <4> HIDE DEF t
      <4>4. ApplyAction(Model', nodes'[i].state, x) = t
        BY <1>7, <3>1 DEF t
      <4> QED BY <4>2, <4>3, <4>4 DEF Settled
    <3>3. CASE ~(i = current /\ x = next)
      <4>1. i < current \/ (i = current /\ x < next)
        <5>1. x \in Nat
          BY DEF Actions
        <5> QED BY <1>1, <1>2, <2>3, <3>3, <5>1
      <4>2. Settled(i, x)
        BY <1>2, <3>1, <4>1 DEF FileInv, Covered
      <4>3. t # Fault /\ (t \in States => \E j \in 1..k : nodes[j].state = t /\ nodes[j].parent <= i)
        BY <1>2, <4>2 DEF Settled
      <4>4. t \in States => \E j \in DOMAIN nodes' : nodes'[j].state = t /\ nodes'[j].parent <= i
        <5>1. \A j \in 1..k : j \in DOMAIN nodes' /\ nodes'[j] = nodes[j]
          BY <1>2, <1>6
        <5> HIDE DEF t
        <5> QED BY <4>3, <5>1
      <4>5. ApplyAction(Model', nodes'[i].state, x) = t
        BY <1>7, <3>1
      <4> HIDE DEF t
      <4> QED BY <4>3, <4>4, <4>5 DEF Settled
    <3> QED BY <3>2, <3>3
  <2> QED BY <2>1, <2>2, <2>3 DEF Covered
<1> QED BY <1>8, <1>9, <1>10

(* The other strategies make no vectors from traces.                       *)
LEMMA NoTraces ==
  ASSUME request.strategy \notin {"counterexample", "witness", "deadlock"}
  PROVE  TraceVectors = <<>>
<1>1. {t \in request.trace : Accepts(t)} = {}
  BY DEF Accepts
<1>2. TraceVectors = SetToSeq({})
  BY <1>1 DEF TraceVectors
<1> QED BY <1>2, SetToSeqOfNone

(* A step less.                                                            *)
LEMMA RemovalFacts ==
  ASSUME NEW steps \in Seq(Actions), NEW i \in DOMAIN steps
  PROVE  /\ RemoveAt(steps, i) \in Seq(Actions)
         /\ Len(steps) > 1 => RemoveAt(steps, i) # <<>>
<1> DEFINE left == SubSeq(steps, 1, i - 1)
           right == SubSeq(steps, i + 1, Len(steps))
<1>1. Len(steps) \in Nat /\ i \in 1..Len(steps)
  OBVIOUS
<1>2. left \in Seq(Actions) /\ Len(left) = i - 1
  BY <1>1
<1>3. right \in Seq(Actions) /\ Len(right) = Len(steps) - i
  BY <1>1
<1>4. RemoveAt(steps, i) = left \o right
  BY DEF RemoveAt
<1> HIDE DEF left, right
<1>5. left \o right \in Seq(Actions) /\ Len(left \o right) = Len(left) + Len(right)
  BY <1>2, <1>3, ConcatProperties
<1>6. Len(left \o right) = Len(steps) - 1
  BY <1>1, <1>2, <1>3, <1>5
<1> QED BY <1>1, <1>4, <1>5, <1>6

(* The steps that deliver: from the trace,                                 *)
LEMMA UseTraceKeeps ==
  ASSUME FileInv, UseTrace
  PROVE  FileInv'
<1>1. request \in Inputs
  BY DEF FileInv
<1>2. request.strategy \in {"counterexample", "witness", "deadlock"} /\ Deliver(TraceVectors)
  BY NoTraces DEF UseTrace
<1> PICK q : q = TraceVectors
  OBVIOUS
<1>3. Deliver(q) /\ request.strategy # "minimize" /\ request.strategy # "enablement"
  BY <1>2
<1>4. DistinctIds => AllReplay(q)
  BY <1>1, TracesReplay
<1> QED BY <1>3, <1>4, DeliveryKeeps

(* from a synthetic witness,                                               *)
LEMMA UseSyntheticKeeps ==
  ASSUME FileInv, UseSynthetic
  PROVE  FileInv'
<1>1. request \in Inputs
  BY DEF FileInv
<1>2. request.strategy \in SyntheticStrategies /\ Deliver(SyntheticVectors)
  BY DEF UseSynthetic
<1> PICK q : q = SyntheticVectors
  OBVIOUS
<1>3. Deliver(q) /\ request.strategy # "minimize" /\ request.strategy # "enablement"
  BY <1>2 DEF SyntheticStrategies
<1>4. DistinctIds => AllReplay(q)
  BY <1>1, SyntheticsReplay
<1> QED BY <1>3, <1>4, DeliveryKeeps

(* from the first barren node,                                             *)
LEMMA FindDeadlockKeeps ==
  ASSUME FileInv, FindDeadlock
  PROVE  FileInv'
<1>1. request \in Inputs /\ Grown
  BY DEF FileInv
<1>2. request.strategy = "deadlock" /\ Deliver(<<DeadlockVector(current)>>) /\ next # 0
  BY ActionsAssumption DEF FindDeadlock, Tried
<1>3. current \in DOMAIN nodes
  <2>1. current \in 0..Len(nodes) /\ current # 0 /\ DOMAIN nodes = 1..Len(nodes)
    BY <1>2 DEF FileInv, Covered, Grown
  <2> QED BY <1>1, <2>1, NodeParts
<1> PICK q : q = <<DeadlockVector(current)>>
  OBVIOUS
<1>4. Deliver(q)
  BY <1>2
<1>5. DistinctIds => AllReplay(q)
  BY <1>1, <1>2, <1>3, DeadlockReplays
<1> QED BY <1>2, <1>4, <1>5, DeliveryKeeps

(* and from an exploration that has come to its end.                       *)
LEMMA ExploredFacts ==
  ASSUME FileInv, Explored
  PROVE  request.strategy # "minimize" /\ AllSettled /\ Complete
<1>1. request.strategy # "minimize"
  BY DEF FileInv, Stages, Explored
<1>2. AllSettled
  <2> SUFFICES ASSUME NEW i \in DOMAIN nodes, NEW x \in Actions PROVE Settled(i, x)
    BY DEF AllSettled
  <2>1. next = 0 /\ current = Len(nodes) /\ Grown
    BY DEF Explored, FileInv
  <2>2. i \in 1..Len(nodes) /\ Len(nodes) \in Nat
    BY <2>1, NodeParts
  <2>3. i < current \/ i = current
    BY <2>1, <2>2
  <2> QED BY <2>1, <2>3 DEF FileInv, Covered
<1> QED BY <1>1, <1>2, SettledIsComplete

(* Whatever the strategy.                                                  *)
LEMMA BuildVectorsKeeps ==
  ASSUME FileInv, BuildVectors
  PROVE  FileInv'
<1>1. request \in Inputs /\ Grown /\ Ordered
  BY DEF FileInv
<1>2. Explored
  BY DEF BuildVectors
<1>3. request.strategy # "minimize" /\ AllSettled /\ Complete
  BY <1>2, ExploredFacts
<1>4. CASE request.strategy = "guard" /\ Deliver(GuardVectors)
  <2> PICK q : q = GuardVectors
    OBVIOUS
  <2>1. DistinctIds => AllReplay(q)
    BY <1>1, <1>3, GuardsReplay
  <2>2. Deliver(q)
    BY <1>4
  <2> QED BY <1>3, <1>4, <2>1, <2>2, DeliveryKeeps
<1>5. CASE request.strategy = "path" /\ Deliver(PathVectors)
  <2> PICK q : q = PathVectors
    OBVIOUS
  <2>1. DistinctIds => AllReplay(q)
    BY <1>1, <1>3, PathsReplay
  <2>2. Deliver(q)
    BY <1>5
  <2> QED BY <1>3, <1>5, <2>1, <2>2, DeliveryKeeps
<1>6. CASE request.strategy = "boundary" /\ Deliver(BoundaryVectors)
  <2> PICK q : q = BoundaryVectors
    OBVIOUS
  <2>1. DistinctIds => AllReplay(q)
    BY <1>1, BoundariesReplay
  <2>2. Deliver(q)
    BY <1>6
  <2> QED BY <1>3, <1>6, <2>1, <2>2, DeliveryKeeps
<1>7. CASE KnownFocus /\ \E id \in request.focus : Deliver(EnablementVectors(id))
  <2> PICK id \in request.focus : Deliver(EnablementVectors(id))
    BY <1>7
  <2> PICK q : q = EnablementVectors(id)
    OBVIOUS
  <2>1. \E x \in Actions : Id(x) = id
    BY <1>7 DEF KnownFocus
  <2>2. DistinctIds => AllReplay(q)
    BY <1>1, <1>3, <2>1, EnablementReplays
  <2>3. DistinctIds => IsShortest(q[1])
    BY <1>1, <1>3, <2>1, EnablementIsShortest
  <2> QED BY <1>3, <2>2, <2>3, DeliveryKeeps
<1>8. ASSUME NEW limit, request.strategy # "enablement", \E vs \in RandomVectors(limit) : Deliver(vs)
      PROVE  FileInv'
  <2>1. PICK vs \in RandomVectors(limit) : Deliver(vs)
    BY <1>8
  <2> PICK q : q = vs
    OBVIOUS
  <2>2. DistinctIds => AllReplay(q)
    BY <1>1, <2>1, RandomReplay
  <2> QED BY <1>3, <1>8, <2>1, <2>2, DeliveryKeeps
<1>9. CASE request.strategy = "random" /\ \E vs \in RandomVectors(SampleSize) : Deliver(vs)
  BY <1>8, <1>9
<1>10. CASE /\ request.strategy \in SyntheticStrategies
            /\ \E vs \in RandomVectors(FallbackSize) : Deliver(vs)
  <2>1. request.strategy # "enablement"
    BY <1>10 DEF SyntheticStrategies
  <2> QED BY <1>8, <1>10, <2>1
<1> QED BY <1>4, <1>5, <1>6, <1>7, <1>9, <1>10 DEF BuildVectors

(* The steps of the exploration.                                           *)
LEMMA SearchKeeps ==
  ASSUME FileInv, BeginExploration \/ PopNode \/ SkipAction \/ AddNode \/ FinishNode
  PROVE  FileInv'
<1> USE DEF exploration, reduction
<1>1. /\ UNCHANGED <<request, built, path, start, error>> /\ pc' = "explore"
      /\ built = <<>> /\ error = "none" /\ pc # "done" /\ pc # "minimize"
  BY DEF FileInv, Stages, BeginExploration, PopNode, SkipAction, AddNode, FinishNode, Trying, Tried
<1>2. request.strategy # "minimize"
  <2>1. CASE BeginExploration
    BY <2>1 DEF BeginExploration, Explores, ExploringStrategies, SyntheticStrategies
  <2>2. CASE ~BeginExploration
    BY <2>2 DEF FileInv, Stages, PopNode, SkipAction, AddNode, FinishNode, Trying, Tried
  <2> QED BY <2>1, <2>2
<1>3. request' \in Inputs /\ Stages' /\ VectorsHold' /\ Reduced'
  <2>1. request' \in Inputs /\ Stages'
    BY <1>1, <1>2 DEF FileInv, Stages
  <2>2. VectorsHold'
    BY <1>1, VectorsKept DEF FileInv
  <2>3. Reduced'
    BY <1>1, <1>2, NothingReduced
  <2> QED BY <2>1, <2>2, <2>3
<1>4. CASE AddNode
  BY <1>3, <1>4, AddingKeeps DEF FileInv
<1>5. CASE ~AddNode
  <2>1. nodes' = nodes
    BY <1>5 DEF BeginExploration, PopNode, SkipAction, FinishNode
  <2>2. Grown' /\ Ordered'
    BY <1>1, <2>1, ExplorationKept DEF FileInv
  <2>3. \A i, x : Settled(i, x)' <=> Settled(i, x)
    BY <1>1, <2>1, ExplorationKept
  <2>4. /\ Len(nodes) \in Nat \ {0} /\ DOMAIN nodes = 1..Len(nodes) /\ NumActions \in Nat
        /\ \A i \in DOMAIN nodes : nodes[i].parent \in Nat
    <3>1. Grown
      BY DEF FileInv
    <3>2. 1 \in DOMAIN nodes
      BY DEF FileInv, Grown
    <3> QED BY <3>1, <3>2, NodeParts, ActionsAssumption
  <2>5. Covered
    BY DEF FileInv
  <2>6. Covered'
    <3>1. CASE BeginExploration
      BY <2>1, <2>3, <2>5, <3>1 DEF Covered, BeginExploration
    <3>2. CASE PopNode
      <4>1. next = 0 /\ current < Len(nodes) /\ current' = current + 1 /\ next' = 1
        BY <3>2 DEF PopNode
      <4>2. current \in Nat /\ current' \in 0..Len(nodes) /\ next' \in 0..(NumActions + 1) /\ current' # 0
        BY <2>4, <2>5, <4>1 DEF Covered
      <4>3. \A i \in DOMAIN nodes : nodes[i].parent <= current'
        BY <2>4, <2>5, <4>1, <4>2 DEF Covered
      <4>4. ASSUME NEW i \in DOMAIN nodes, NEW x \in Actions,
                   i < current' \/ (i = current' /\ (next' = 0 \/ x < next'))
            PROVE  Settled(i, x)
        <5>1. ~(x < 1)
          BY DEF Actions
        <5>2. i < current \/ i = current
          BY <2>4, <4>1, <4>2, <4>4, <5>1
        <5> QED BY <2>5, <4>1, <5>2 DEF Covered
      <4> QED BY <2>1, <2>3, <4>1, <4>2, <4>3, <4>4 DEF Covered
    <3>3. CASE SkipAction
      <4>1. /\ next \in Actions /\ current' = current /\ next' = next + 1
            /\ Target = Disabled \/ Known
        BY <3>3 DEF SkipAction, Trying
      <4>2. /\ current \in Nat /\ current' \in 0..Len(nodes) /\ next' \in 0..(NumActions + 1)
            /\ next \in Nat /\ next # 0 /\ current' # 0
        BY <2>4, <2>5, <4>1 DEF Covered, Actions
      <4>3. current \in DOMAIN nodes
        BY <2>4, <2>5, <4>1, <4>2 DEF Covered
      <4>4. Settled(current, next)
        <5>1. Target # Fault
          <6>1. CASE Target = Disabled
            BY <6>1, StatesAssumption
          <6>2. CASE Known
            <7>1. Target \in States
              BY <6>2, NodeParts DEF Known, FileInv
            <7> QED BY <7>1, StatesAssumption
          <6> QED BY <4>1, <6>1, <6>2
        <5>2. ASSUME Target \in States
              PROVE  \E j \in DOMAIN nodes : nodes[j].state = Target /\ nodes[j].parent <= current
          <6>1. Known
            BY <4>1, <5>2, StatesAssumption
          <6> QED BY <2>5, <6>1 DEF Known, Covered
        <5> QED BY <5>1, <5>2 DEF Settled, Target
      <4>5. ASSUME NEW i \in DOMAIN nodes, NEW x \in Actions,
                   i < current' \/ (i = current' /\ (next' = 0 \/ x < next'))
            PROVE  Settled(i, x)
        <5>1. x \in Nat
          BY DEF Actions
        <5>2. i < current \/ (i = current /\ x < next) \/ (i = current /\ x = next)
          BY <4>1, <4>2, <4>5, <5>1
        <5> QED BY <2>5, <4>4, <5>2 DEF Covered
      <4> QED BY <2>1, <2>3, <2>5, <4>1, <4>2, <4>5 DEF Covered
    <3>4. CASE FinishNode
      <4>1. next = NumActions + 1 /\ current' = current /\ next' = 0
        BY <3>4 DEF FinishNode, Tried
      <4>2. \A x \in Actions : x < next
        BY <2>4, <4>1 DEF Actions
      <4> QED BY <2>1, <2>3, <2>4, <2>5, <4>1, <4>2 DEF Covered
    <3> QED BY <1>5, <3>1, <3>2, <3>3, <3>4
  <2> QED BY <1>3, <2>2, <2>6 DEF FileInv
<1> QED BY <1>4, <1>5

(* The steps of the minimisation: whatever is in front of start was tried  *)
(* since the last step went.                                               *)
LEMMA ReductionKeeps ==
  ASSUME FileInv, BeginMinimization \/ DropStep \/ KeepStep \/ FinishMinimization
  PROVE  FileInv'
<1> USE DEF exploration, reduction
<1>1. /\ UNCHANGED <<request, nodes, current, next, built, error>> /\ pc' \in {"minimize", "done"}
      /\ request.strategy = "minimize" /\ built = <<>> /\ error = "none"
  BY DEF FileInv, Stages, BeginMinimization, DropStep, KeepStep, FinishMinimization, Removing
<1>2. request' \in Inputs /\ Stages'
  BY <1>1 DEF FileInv, Stages
<1>3. Grown' /\ Ordered'
  BY <1>1, ExplorationKept DEF FileInv
<1>4. Covered'
  BY <1>1, ExplorationKept DEF FileInv, Covered
<1>5. VectorsHold'
  BY <1>1, VectorsKept DEF FileInv
<1>6. Reduced'
  <2> PICK r, p, n : r = request /\ p = path' /\ n = start'
    OBVIOUS
  <2>1. /\ Outcome(p)' = Outcome(p)
        /\ \A i : Outcome(RemoveAt(p, i))' = Outcome(RemoveAt(p, i))
        /\ \A t : Outcome(t.path)' = Outcome(t.path)
    BY <1>1, OutcomeKept
  <2>2. SUFFICES /\ p \in Seq(Actions) /\ p # <<>> /\ n \in Nat \ {0}
                 /\ \A t \in r.trace : Outcome(t.path) = "yes" => Outcome(p) = "yes"
                 /\ \A i \in DOMAIN p :
                      i < n => RemoveAt(p, i) = <<>> \/ Outcome(RemoveAt(p, i)) # "yes"
                 /\ pc' = "done" => n \notin DOMAIN p
    BY <1>1, <2>1 DEF Reduced
  <2>3. CASE BeginMinimization
    <3>1. PICK t \in request.trace : t.path # <<>>
      BY <2>3 DEF BeginMinimization, Minimizable
    <3>2. t.path \in Seq(Actions) /\ \A x \in request.trace : x = t
      BY RequestFacts DEF FileInv
    <3>3. path' = t.path /\ start' = start /\ start = 1 /\ pc' = "minimize"
      BY <2>3, <3>2 DEF BeginMinimization, FileInv, Stages
    <3>4. \A i \in DOMAIN p : ~(i < 1)
      BY <3>2, <3>3
    <3> QED BY <3>1, <3>2, <3>3, <3>4
  <2>4. CASE DropStep
    <3>1. /\ start \in DOMAIN path /\ p = RemoveAt(path, start) /\ p # <<>> /\ Outcome(p) = "yes"
          /\ n = 1 /\ pc' = "minimize"
      BY <2>4 DEF DropStep, Removing, Candidate
    <3>2. path \in Seq(Actions)
      BY <1>1, <2>4 DEF FileInv, Reduced, DropStep, Removing
    <3>3. p \in Seq(Actions)
      BY <3>1, <3>2, RemovalFacts
    <3>4. \A i \in DOMAIN p : ~(i < 1)
      BY <3>3
    <3> QED BY <3>1, <3>3, <3>4
  <2>5. CASE KeepStep
    <3>1. /\ p = path /\ n = start + 1 /\ pc' = "minimize"
          /\ RemoveAt(path, start) = <<>> \/ Outcome(RemoveAt(path, start)) # "yes"
      BY <2>5 DEF KeepStep, Removing, Candidate
    <3>2. /\ path \in Seq(Actions) /\ path # <<>> /\ start \in Nat \ {0}
          /\ \A t \in request.trace : Outcome(t.path) = "yes" => Outcome(path) = "yes"
          /\ \A i \in DOMAIN path :
               i < start => RemoveAt(path, i) = <<>> \/ Outcome(RemoveAt(path, i)) # "yes"
      BY <1>1, <2>5 DEF FileInv, Reduced, KeepStep, Removing
    <3>3. \A i \in DOMAIN p : i < n => i < start \/ i = start
      BY <3>1, <3>2
    <3> QED BY <3>1, <3>2, <3>3
  <2>6. CASE FinishMinimization
    <3>1. p = path /\ n = start /\ pc = "minimize" /\ start \notin DOMAIN path
      BY <2>6 DEF FinishMinimization
    <3> QED BY <1>1, <3>1 DEF FileInv, Reduced
  <2> QED BY <2>3, <2>4, <2>5, <2>6
<1> QED BY <1>2, <1>3, <1>4, <1>5, <1>6 DEF FileInv

(* The steps that fail.                                                    *)
LEMMA FailuresKeep ==
  ASSUME FileInv,
         RefuseEnablement \/ FailExploration \/ RefuseFocus \/ RefuseMinimization \/ AbortRemoval
  PROVE  FileInv'
<1>1. \E why \in {"focus", "transition", "action", "minimize", "replay"} : Fail(why)
  BY DEF RefuseEnablement, FailExploration, RefuseFocus, RefuseMinimization, AbortRemoval
<1>2. UNCHANGED <<request, exploration, built, kept, reduction>>
  BY DEF RefuseEnablement, FailExploration, RefuseFocus, RefuseMinimization, AbortRemoval
<1> QED BY <1>1, <1>2, FailureKeeps

(* In the beginning.                                                       *)
LEMMA FileInitially ==
  ASSUME Init
  PROVE  FileInv
<1>1. request \in Inputs /\ Stages /\ built = <<>>
  BY DEF Init, Stages
<1> DEFINE n == [state |-> Model.init, parent |-> 0, via |-> 0]
<1>2. n.parent = 0 /\ n \in Node
  BY <1>1, RequestFacts DEF Node
<1>3. nodes = <<n>>
  BY DEF Init, Model
<1> HIDE DEF n
<1>4. /\ nodes \in Seq(Node) /\ nodes # <<>> /\ DOMAIN nodes = {1} /\ nodes[1] = n /\ Len(nodes) = 1
  BY <1>2, <1>3
<1>5. Grown /\ Ordered
  BY <1>2, <1>4 DEF Grown, Ordered, n
<1>6. Covered
  <2>1. current = 0 /\ next = 0
    BY DEF Init
  <2> QED BY <1>2, <1>4, <2>1, ActionsAssumption DEF Covered
<1>7. Reduced
  BY DEF Init, Reduced
<1>8. VectorsHold
  BY <1>1, WhatVectorsHold
<1> QED BY <1>1, <1>5, <1>6, <1>7, <1>8 DEF FileInv

(* Every step of testgen and of minimize.                                  *)
LEMMA FileStep ==
  ASSUME FileInv, Next
  PROVE  FileInv'
BY UseTraceKeeps, UseSyntheticKeeps, FindDeadlockKeeps, BuildVectorsKeeps, SearchKeeps,
   ReductionKeeps, FailuresKeep DEF Next

(* The other surfaces leave testgen alone.                                 *)
LEMMA AnyInvariant ==
  AnySpec => []AnyInv
<1>1. AnyInit => AnyInv
  BY FileInitially DEF AnyInit, AnyInv, FileRests
<1>2. AnyInv /\ [Generate \/ Explore \/ Ask \/ Run]_allvars => AnyInv'
  <2> SUFFICES ASSUME AnyInv, [Generate \/ Explore \/ Ask \/ Run]_allvars PROVE AnyInv'
    OBVIOUS
  <2>1. CASE Generate
    BY <2>1, FileStep DEF AnyInv, Generate
  <2>2. CASE ~Generate
    <3>1. UNCHANGED <<surface, vars>>
      BY <2>2 DEF Explore, Ask, Run, allvars
    <3>2. surface = "file" => FileInv'
      BY <3>1, Trivial DEF AnyInv
    <3>3. UNCHANGED <<built, pc>>
      BY <3>1 DEF vars
    <3> QED BY <3>1, <3>2, <3>3 DEF AnyInv
  <2> QED BY <2>1, <2>2
<1> QED BY <1>1, <1>2, PTL DEF AnySpec

(* Every vector of every strategy replays to what it expects, and the      *)
(* vector of an enablement is the shortest there is, or rightly says that  *)
(* there is none: for every model, property and trace that is evidence.    *)
THEOREM VectorsCorrect == AnySpec => []VectorsHold
<1>1. AnyInv => VectorsHold
  BY WhatVectorsHold DEF AnyInv, FileInv
<1> QED BY <1>1, AnyInvariant, PTL

(* A minimised counterexample fails, and without any one of its steps it   *)
(* does not, for every model and every trace.                              *)
THEOREM MinimizationCorrect == AnySpec => []MinimizedStillFails
<1>1. AnyInv => MinimizedStillFails
  <2> SUFFICES ASSUME AnyInv, NEW t \in request.trace,
                      request.strategy = "minimize", pc = "done", error = "none",
                      Outcome(t.path) = "yes"
               PROVE  /\ Outcome(path) = "yes"
                      /\ Len(path) > 1 => \A i \in DOMAIN path : Outcome(RemoveAt(path, i)) # "yes"
    BY DEF MinimizedStillFails
  <2>1. Reduced
    BY DEF AnyInv, FileInv
  <2>2. /\ path \in Seq(Actions) /\ path # <<>> /\ start \in Nat \ {0} /\ start \notin DOMAIN path
        /\ Outcome(path) = "yes"
    BY <2>1 DEF Reduced
  <2>3. \A i \in DOMAIN path : RemoveAt(path, i) = <<>> \/ Outcome(RemoveAt(path, i)) # "yes"
    <3>1. \A i \in DOMAIN path : i < start
      BY <2>2
    <3> QED BY <2>1, <3>1 DEF Reduced
  <2> QED BY <2>2, <2>3, RemovalFacts
<1> QED BY <1>1, AnyInvariant, PTL
===============================================================================
