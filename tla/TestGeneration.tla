----------------------------- MODULE TestGeneration -----------------------------
(***************************************************************************)
(* The parts that make and use test vectors: TestVectors for models in     *)
(* files, MachineExplorer for Rust machines, and RunnerProcess, which hands*)
(* them to a program.  They share no state while they work, so a behaviour *)
(* is one of the three; the variables of the others rest.                  *)
(***************************************************************************)
EXTENDS TestVectors

CONSTANTS
  MachineRequests,        \* Requests of MachineExplorer
  RunnerInputs,           \* Inputs of RunnerProcess
  Capacity, Observations  \* of RunnerProcess

VARIABLES
  surface,  \* "file", "machine" or "runner"
  mrequest, mnodes, medges, mcurrent, mnext, mtried, mfailure, mquery, manswer,
  caller, size, program, vector, sent, open, stdin, stdout, stderr, got, script, running,
  rpc, outcome

mvars == <<mrequest, mnodes, medges, mcurrent, mnext, mtried, mfailure, mquery, manswer>>
rvars == <<caller, size, program, vector, sent, open, stdin, stdout, stderr, got, script, running,
           rpc, outcome>>
allvars == <<surface, vars, mvars, rvars>>

M == INSTANCE MachineExplorer WITH
  Requests <- MachineRequests, request <- mrequest, nodes <- mnodes, edges <- medges,
  current <- mcurrent, next <- mnext, tried <- mtried, failure <- mfailure, query <- mquery,
  answer <- manswer
R == INSTANCE RunnerProcess WITH Inputs <- RunnerInputs, pc <- rpc

ASSUME MachineInputs == M!MachineAssumption
ASSUME RunnerInputsAssumption == R!RunnerAssumption

FileRests ==
  /\ request = CHOOSE r \in Inputs : TRUE
  /\ nodes = <<>> /\ current = 0 /\ next = 0 /\ built = <<>> /\ kept = <<>>
  /\ path = <<>> /\ start = 1 /\ pc = "unused" /\ error = "none"
MachineRests ==
  /\ mrequest = 0 /\ mnodes = <<>> /\ medges = <<>> /\ mcurrent = 0 /\ mnext = 0 /\ mtried = 0
  /\ mfailure = 0 /\ mquery = "none" /\ manswer = <<>>
RunnerRests ==
  /\ caller = "command" /\ size = 0 /\ vector = 0
  /\ program = [script |-> <<>>, success |-> TRUE, response |-> {}]
  /\ sent = 0 /\ open = FALSE
  /\ stdin = 0 /\ stdout = 0 /\ stderr = 0 /\ got = 0 /\ script = <<>> /\ running = FALSE
  /\ rpc = "unused" /\ outcome = R!Pending

AnyInit ==
  \/ surface = "file" /\ Init /\ MachineRests /\ RunnerRests
  \/ surface = "machine" /\ FileRests /\ M!Init /\ RunnerRests
  \/ surface = "runner" /\ FileRests /\ MachineRests /\ R!Init

Generate == surface = "file" /\ Next /\ UNCHANGED <<surface, mvars, rvars>>
Explore == surface = "machine" /\ M!Next /\ UNCHANGED <<surface, vars, rvars>>
Ask == surface = "runner" /\ R!Caller /\ UNCHANGED <<surface, vars, mvars>>
Run == surface = "runner" /\ R!Program /\ UNCHANGED <<surface, vars, mvars>>

AnySpec == AnyInit /\ [][Generate \/ Explore \/ Ask \/ Run]_allvars /\ WF_allvars(Ask) /\ WF_allvars(Run)

(* What the three promise, of each where it is the one that runs.          *)
MachineExact == surface = "machine" => M!MachineExact
AnswerIsWhole == surface = "runner" => R!AnswerIsWhole
DrainingIsHeard == surface = "runner" => R!DrainingIsHeard
===============================================================================
