----------------------------- MODULE RunnerProcess -----------------------------
(***************************************************************************)
(* How `valid` talks to another program: conformance::run_conformance and  *)
(* the SMT adapter's run_smt_query write their whole request into the      *)
(* program's stdin, close it, and only then read stdout and stderr until   *)
(* the program has ended; CommandSolverAdapter::run sends nothing.  The    *)
(* three pipes hold a bounded number of units (Capacity), so that both     *)
(* processes may block.  What conformance makes of the answer,             *)
(* compare_conformance, is Compare.  Nobody has a timeout.                 *)
(***************************************************************************)
EXTENDS Naturals, Sequences, FiniteSets

CONSTANTS
  Capacity,      \* of a pipe
  Observations,  \* the maps a runner may observe
  Inputs         \* what is asked of which program: see InputType

Optional(S) == {o \in SUBSET S : \A x, y \in o : x = y}

(* TestVector, as far as compare_conformance looks at it.                  *)
VectorType ==
  [expected_observations : Seq(Observations), expected_output : Seq(Observations),
   projected_state : Optional(Observations), expected_property_holds : Optional(BOOLEAN)]

(* ConformanceResponse: what the whole of stdout parses to, if it does.    *)
ResponseType ==
  [status : STRING, observations : Seq(Observations),
   property_holds : Optional(BOOLEAN), terminal_state : Optional(Observations)]

(* The external program: it reads one unit, drains its stdin, prints or    *)
(* complains, in the order of its script, then exits.                      *)
ProgramType ==
  [script : Seq({"read", "drain", "print", "complain"}), success : BOOLEAN,
   response : Optional(ResponseType)]

(* size: the units of the request, of which a command gets none.           *)
InputType ==
  {i \in [caller : {"conformance", "smt", "command"}, size : Nat, program : ProgramType,
          vector : VectorType] : i.caller = "command" => i.size = 0}

(* Checked by the module that instantiates this one.                       *)
RunnerAssumption ==
  /\ Capacity \in Nat \ {0}
  /\ \A i \in Inputs : i \in InputType

VARIABLES
  caller, size, program, vector,  \* the arguments
  sent, open,                     \* what was written to stdin, and whether it is open
  stdin, stdout, stderr,          \* what the pipes hold
  got,                            \* what was read of stdout
  script,                         \* what the program has yet to do
  running,
  pc, outcome

arguments == <<caller, size, program, vector>>
pipes == <<stdin, stdout, stderr>>
child == <<script, running>>
vars == <<arguments, sent, open, pipes, got, child, pc, outcome>>

Pending == [kind |-> "pending"]

Init ==
  /\ \E i \in Inputs :
       caller = i.caller /\ size = i.size /\ program = i.program /\ vector = i.vector
  /\ sent = 0 /\ open = FALSE
  /\ stdin = 0 /\ stdout = 0 /\ stderr = 0 /\ got = 0
  /\ script = program.script
  /\ running = FALSE
  /\ pc = "spawn"
  /\ outcome = Pending

-------------------------------------------------------------------------------
(* compare_conformance.                                                    *)

Expected(v) == IF v.expected_output = <<>> THEN v.expected_observations ELSE v.expected_output

Last(s) == IF s = <<>> THEN {} ELSE {s[Len(s)]}

(* An observation is missing, or one too many.                             *)
OutputDiffers(v, r) == Len(r.observations) # Len(Expected(v))

(* An observation differs, or the terminal state, for which the last       *)
(* observation stands in.                                                  *)
StateDiffers(v, r) ==
  \/ \E i \in DOMAIN Expected(v) \cap DOMAIN r.observations :
       r.observations[i] # Expected(v)[i]
  \/ /\ v.projected_state # {}
     /\ v.projected_state # IF r.terminal_state # {} THEN r.terminal_state ELSE Last(r.observations)

(* None and a value differ, too.                                           *)
PropertyDiffers(v, r) == v.expected_property_holds # r.property_holds

Categories(v, r) ==
  {k \in {"state", "output", "property"} :
     \/ k = "state" /\ StateDiffers(v, r)
     \/ k = "output" /\ OutputDiffers(v, r)
     \/ k = "property" /\ PropertyDiffers(v, r)}

Compare(v, r) ==
  [kind |-> "report", categories |-> Categories(v, r),
   status |-> IF Categories(v, r) = {} THEN "PASS" ELSE "FAIL"]

-------------------------------------------------------------------------------
(* The caller.                                                             *)
Fails(why) ==
  /\ outcome' = [kind |-> "error", why |-> why]
  /\ pc' = "done"

FailSpawn ==
  /\ pc = "spawn"
  /\ Fails("spawn")
  /\ UNCHANGED <<arguments, sent, open, pipes, got, child>>

Spawn ==
  /\ pc = "spawn"
  /\ running' = TRUE /\ open' = TRUE
  /\ pc' = "write"
  /\ UNCHANGED <<arguments, sent, pipes, got, script, outcome>>

(* write_all, which waits while the pipe is full.                          *)
Write ==
  /\ pc = "write" /\ sent < size
  /\ running /\ stdin < Capacity
  /\ sent' = sent + 1 /\ stdin' = stdin + 1
  /\ UNCHANGED <<arguments, open, stdout, stderr, got, child, pc, outcome>>

(* Nobody will read it any more: EPIPE.                                    *)
BreakPipe ==
  /\ pc = "write" /\ sent < size
  /\ ~running
  /\ Fails("write")
  /\ UNCHANGED <<arguments, sent, open, pipes, got, child>>

(* Mutant: stdin stays open.                                               *)
CloseNothing ==
  /\ pc = "write" /\ sent = size
  /\ pc' = "wait"
  /\ UNCHANGED <<arguments, sent, open, pipes, got, child, outcome>>

(* The block ends and drops stdin; wait_with_output and output() close it. *)
CloseStdin ==
  /\ pc = "write" /\ sent = size
  /\ open' = FALSE
  /\ pc' = "wait"
  /\ UNCHANGED <<arguments, sent, pipes, got, child, outcome>>

(* wait_with_output: both pipes are read as they fill ...                  *)
ReadStdout ==
  /\ pc = "wait" /\ stdout > 0
  /\ stdout' = stdout - 1 /\ got' = got + 1
  /\ UNCHANGED <<arguments, sent, open, stdin, stderr, child, pc, outcome>>

ReadStderr ==
  /\ pc = "wait" /\ stderr > 0
  /\ stderr' = stderr - 1
  /\ UNCHANGED <<arguments, sent, open, stdin, stdout, got, child, pc, outcome>>

(* Mutant: a pipe is empty for now, and taken for finished.                *)
DrainedForNow == stdout = 0 /\ stderr = 0

(* ... until both have ended.                                              *)
Drained == ~running /\ stdout = 0 /\ stderr = 0

Ended == pc = "wait" /\ Drained

FailExit ==
  /\ Ended /\ ~program.success
  /\ Fails("exit")
  /\ UNCHANGED <<arguments, sent, open, pipes, got, child>>

(* The solvers' output is parsed elsewhere.                                *)
ReturnOutput ==
  /\ Ended /\ program.success /\ caller # "conformance"
  /\ outcome' = [kind |-> "output", units |-> got]
  /\ pc' = "done"
  /\ UNCHANGED <<arguments, sent, open, pipes, got, child>>

FailResponse ==
  /\ Ended /\ program.success /\ caller = "conformance"
  /\ \A r \in program.response : r.status # "ok"
  /\ Fails("response")
  /\ UNCHANGED <<arguments, sent, open, pipes, got, child>>

Report ==
  /\ Ended /\ program.success /\ caller = "conformance"
  /\ \E r \in program.response : r.status = "ok" /\ outcome' = Compare(vector, r)
  /\ pc' = "done"
  /\ UNCHANGED <<arguments, sent, open, pipes, got, child>>

-------------------------------------------------------------------------------
(* The program: external.                                                  *)
Does(op) == running /\ script # <<>> /\ Head(script) = op

ReadOne ==
  /\ Does("read")
  /\ \/ stdin > 0 /\ stdin' = stdin - 1
     \/ stdin = 0 /\ ~open /\ UNCHANGED stdin
  /\ script' = Tail(script)
  /\ UNCHANGED <<arguments, sent, open, stdout, stderr, got, running, pc, outcome>>

Drain ==
  /\ Does("drain")
  /\ IF stdin > 0
     THEN stdin' = stdin - 1 /\ UNCHANGED script
     ELSE ~open /\ script' = Tail(script) /\ UNCHANGED stdin
  /\ UNCHANGED <<arguments, sent, open, stdout, stderr, got, running, pc, outcome>>

PrintOne ==
  /\ Does("print") /\ stdout < Capacity
  /\ stdout' = stdout + 1
  /\ script' = Tail(script)
  /\ UNCHANGED <<arguments, sent, open, stdin, stderr, got, running, pc, outcome>>

Complain ==
  /\ Does("complain") /\ stderr < Capacity
  /\ stderr' = stderr + 1
  /\ script' = Tail(script)
  /\ UNCHANGED <<arguments, sent, open, stdin, stdout, got, running, pc, outcome>>

Exit ==
  /\ running /\ script = <<>>
  /\ running' = FALSE
  /\ UNCHANGED <<arguments, sent, open, pipes, got, script, pc, outcome>>

Caller ==
  \/ FailSpawn \/ Spawn \/ Write \/ BreakPipe \/ CloseStdin
  \/ ReadStdout \/ ReadStderr \/ FailExit \/ ReturnOutput \/ FailResponse \/ Report

Program == ReadOne \/ Drain \/ PrintOne \/ Complain \/ Exit

Next == Caller \/ Program

Spec == Init /\ [][Next]_vars

(* A process that is not blocked goes on.                                  *)
FairSpec == Spec /\ WF_vars(Caller) /\ WF_vars(Program)

-------------------------------------------------------------------------------
Count(s, op) == Cardinality({i \in DOMAIN s : s[i] = op})

(* What the program prints before it has read all of its input fits into   *)
(* the pipes.                                                              *)
DrainsFirst ==
  \E d \in DOMAIN program.script :
    /\ program.script[d] = "drain"
    /\ Count(SubSeq(program.script, 1, d), "print") <= Capacity
    /\ Count(SubSeq(program.script, 1, d), "complain") <= Capacity

(* What such a program deserves.                                           *)
Deserved ==
  IF ~program.success THEN [kind |-> "error", why |-> "exit"]
  ELSE IF caller # "conformance" THEN [kind |-> "output", units |-> Count(program.script, "print")]
  ELSE IF \E r \in program.response : r.status = "ok"
       THEN Compare(vector, CHOOSE r \in program.response : TRUE)
       ELSE [kind |-> "error", why |-> "response"]

(* A program that reads its request first always gets a hearing, whatever  *)
(* the sizes of request, answer and pipes: no deadlock, no broken pipe.    *)
DrainingIsHeard ==
  DrainsFirst => <>(outcome = Deserved \/ outcome = [kind |-> "error", why |-> "spawn"])

(* An answer is never judged before it is complete.                        *)
AnswerIsWhole ==
  pc = "done" /\ outcome.kind \in {"report", "output"} =>
    got = Count(program.script, "print")

================================================================================
