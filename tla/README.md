# A TLA+ model of `valid`

`valid` checks finite-state models. A model, written in a small language
(`.valid`) or declared in Rust, is lowered to one intermediate form; engines
search its reachable states for a violated property; what they find becomes a
trace, a test vector, a report; and those are stored beside the code and
compared with later runs. This directory holds a model of the parts of `valid`
whose correctness depends on order: of a search, of two processes writing one
file, of a program answering through a pipe, of a developer who saves while
commands run.

Everything is translated from `packages/valid/src`. `PROJECT.json` names, for
each definition, the lines it stands for; for each run, what it checks; for each
property, a plausible bug of the mapped code that the property catches.

## The system

Paths are relative to `packages/valid/src`.

| part | state it keeps | operations | hard because |
|---|---|---|---|
| `ir`, `kernel` | none; `ModelIr` and `MachineState` are values | `apply_action_transition`, `apply_action`, `evaluate_guard`, `eval_expr`, `replay_actions` | one action id may name several transitions; an update may leave its type |
| `engine/explicit` | node list, edges, frontier, visited map, marks | the search, one pop and one action at a time; temporal evaluation; the walk to a temporal failure | bounds and limits strike half way; indices into vectors that grow; in-place fixpoints on cyclic graphs |
| `solver` | none between runs; the current depth, a reply, its replay | plan, run and normalise, for `explicit`, `mock-bmc`, `sat-varisat`, `smt-cvc5`, `command` | external programs answer anything; names are less than transitions |
| `distinguish` | queue, visited pairs, checkpoints | breadth-first comparison of two models | ambiguous ids on both sides, depth limits, faults on one side |
| `evidence`, `support/artifact*` | `artifacts/`, `index.json`, `run-history.json` | `record_artifact`, `clean artifacts`, emission under a policy | several threads and processes, truncating writes, full disks, no transaction over two files |
| `conformance` | a child process and three pipes | request, answer, comparison | bounded pipes, no timeout, early exit |
| `testgen` | an exploration, vectors | strategies (guard, path, boundary, random, deadlock, enablement, witness), minimisation, rendering of Rust tests | what a vector expects must be what its replay shows |
| `modeling` | the explored states of a Rust machine | check, coverage, vectors, explain, replay | several initial states, nondeterministic steps |
| `coverage` | counters | action, guard and path coverage of traces | counting only |
| `api`, `orchestrator`, `registry`, `cli`, `bin/*` | the files of the project, between commands | commands of a registry and of a model file, batches, suites; exit codes | run ids; the exit codes of several children become one; a crate is rebuilt between two of them |
| `mcp` | a session: initialised or not, log level | JSON-RPC requests, batches, notifications, tool calls | order of notifications and answers, cursors; tools run what was built last |
| `project` | files of a project directory | init, check, repair | killed between two files, files edited by hand |
| `contract`, `doc` | lock files | write a lock, compare it with the current models | a lock is compared with what changed since |
| `external_registry` | build output of a user crate | resolve, build and run a registry binary | child processes; the crate changes between them |
| `frontend` | the section and the draft of a file being parsed | parse, resolve, typecheck, lower | what a line means depends on the lines before it |
| `reporter`, `handoff`, `compose`, `selfcheck`, `benchmark` | none | render, combine, measure | pure, or about time |
| `valid_derive` | none | generates code | compile time only |

How they interact: the front ends (`bin/*`, `cli`, `registry`, `mcp`) call
`api`; `api` lowers a source with `frontend` and calls `solver`, which either
calls `engine` or asks another program and replays its answer with `kernel`;
the outcome goes to `evidence`, which writes files and calls
`artifact_index::record_artifact`; `testgen` and `conformance` start from a
trace. Calls are synchronous, and within a process the only shared mutable
state is the mutex of `artifact_index`. Between processes the shared state is
the file system.

## The modules

### The search

`TransitionSystem` is what every backend sees of a model: an initial state and,
for every state and action, a successor, `Disabled` or `Fault`, the three
answers of `apply_action_transition`. A property is its kind and the states, or
steps, on which its expression holds; its scope, the selected scenario and the
states on which evaluation fails are sets too. States have no structure, because
no engine looks inside one. A transition property names an action id, which is the
set of transitions that carry it (`on`); it, or its scope, may have no value on a
step (`stepFaulty`), as a state property may have none in a state.

`ExplicitSearch` is `engine::explicit::run_explicit`. `nodes`, `edges`,
`frontier`, `visited` are the vectors and maps of the code; `cut` is
`bounded_frontier_cut`, `sawState` and `sawStep` are the counters behind the
vacuity verdict; `current`, `nextAction`, `anyEnabled` are the locals of the
loop. A step is one pop (with what the code does before it expands: the limits,
the scope, the property) or one iteration of the loop over actions. The clock is
`Tick`, which may set `expired` at any moment if the plan has a time limit.

`TemporalCheck` extends it with `temporal_result`: the loops by which truth
sets are computed on the graph, in node order and in place, and the recursive
walk that looks for the node to report, one call a step. An operand that has no
Boolean value in a state makes the evaluation an error, since it looks at every
node (`Unevaluable`). The loops of the code
pass over the nodes until a pass changes nothing; `Stabilised` makes `Len(nodes)`
passes, which are enough (`RoundsGrow`, `RoundsShrink`). A formula is a record;
`Height` gives the height of its tree, which is what makes the recursion over
operands one that ends.

`VerdictContract` is the abstract specification: there is one verdict, it is
given once, and it is justified by what the model can reach: a pass, for one,
needs that no state it covers decides and that none of them, or of their steps,
lacks a value it should have. It says nothing of how to search. `ExplicitSearch`
implements it by the mapping `verdict <- outcome`, which TLC checks as the
property `ImplementsContract`.
`TemporalSemantics` defines the temporal operators by maximal paths, without
fixpoints, and is what the truth sets are compared with.

`ExplicitSearchInvariant` states why the search is right, as one invariant that
TLC checks and `ExplicitSearchProofs` proves. What both proofs and models say of
single steps, of reachability and of distance from the initial state is proved
once, in `TransitionSystemProofs`.

### The other backends

`SolverAdapter` is `solver::run_with_adapter` without the explicit backend.
`sat-varisat` and `smt-cvc5` ask, depth after depth, for a run whose last state
breaks the property. A query is answered by `Assignments(k)`, what the circuit
denotes: the runs of k steps within the type bounds whose last state, and no
earlier one in the queries before, violates the expression. `command` may reply
anything in `Replies`. All replies are normalised alike: the actions are
replayed by id, one step of the specification per action; a status, an assurance
level or a reason for an UNKNOWN that is not one of the code's words is an error,
and the reason is read last. `mock-bmc` delegates to the explicit search, for
which `VerdictContract` stands.

### Two models

`DistinguishSearch` is `find_distinguishing_trace`. A node is a state both
models are in after the same actions, with the checkpoints that led to it; the
search tries the action ids in order and compares the successor sets. Which of
several differing successors is shown depends on map order in the code and is
left open in the model.

### The artifacts

`ArtifactStore` is `record_artifact` as the file system sees it. A thread that
emits a record writes the artifact, takes the lock of its process, and then, for
`index.json` and for `run-history.json`, probes, reads, truncates and fills the
file. A file is absent, blank, torn or holds JSON; a torn one is one that cannot
be parsed, because two writers filled it at once or because one stopped half way.
`Crash` kills a process between any two steps and `FailWrite` is a file that
cannot be opened or filled; both may leave what was being filled blank or torn.
`StartClean` and `CleanOne` remove what a directory listing named. A deployment
says whether its processes `overlap` or run in turn, and how often a process is
killed or a write fails. An artifact that cannot itself be written is an error of
its caller before `record_artifact` is reached, and is left out.

Three variables are history. `listed` is what the index should hold: the newest
record of every path since the index was last struck half written. `struck` are
the files a kill or a failed write has hit so, and `cut` the records that are in
the index and did not get to the history, or that a struck history has lost.

### Programs at the other end of a pipe

`RunnerProcess` is the caller's side of `run_conformance`, `run_smt_query` and
`CommandSolverAdapter::run`, and any program at the other side: the code writes
the whole request, closes the pipe, and then waits for the output. Pipes hold
`Capacity` units. The program is external and follows an arbitrary script.
`Compare` is `compare_conformance`.

### Tests from models

`TestVectors` is `testgen` with what `api::testgen_source` and
`api::minimize_source` do before it. A request is a model, the ids its actions
carry, a property, a strategy and the trace the check left, if any. The
exploration (`nodes`, `current`, `next`) is `explore_model`, one action at a
time; when the queue is empty the strategy makes its vectors of it in one step.
`kept` is what `prioritize_test_vectors` lets through. `path` and `start` are
the loop of `minimize_counterexample_vector`. Random vectors are ordered by a
hash in the code, and anyhow in the model.

### The project directory

`ProjectScaffold` is `project::init_project`, `repair_project_scaffold`,
`check_project_scaffold`, `doctor`, `clean artifacts` and the stages of
`valid onboarding`. `files` maps each path of the scaffold to what is there: a
content is as coarse as the code's own tests of it (absent, blank, as the
template has it, the user's own, and for the three files that are read a few
more). `command` and `at` are the running command and its next path; a file is
written by `Truncate` and `Fill`, a directory or an empty file by `Create`.
`Kill` ends a command between any two steps, `Edit` is the user between
commands, `stage` is the walkthrough. Cargo is external: `cargo init` leaves a
package, or fails; `cargo build` succeeds for a package that names what it uses.
`before` is a history variable: the directory when the last command began.

### Machines declared in Rust

`MachineExplorer` is `explore_machine` of `modeling`, a search of its own beside
`engine/explicit`: several initial states, a list of successors for each action,
no bounds. What is asked (a check, coverage, an explanation, vectors of one
strategy) makes no difference to the search, so that the question is chosen when
it is over, and one run answers them all. `Replay` is `replay_machine_actions`.

`TestGeneration` puts `TestVectors`, `MachineExplorer` and `RunnerProcess`, which
make vectors and hand them to a program, into one specification; a behaviour is
one of the three and the variables of the other two rest.

### A workspace

`ContractDrift` is `contract`, `doc` and the part of `handoff` that is compared:
a model's snapshot, the lock file, the documents and their comparison, as
operators. `Commands` are the commands of a registry binary and
`ModelFileCommands` those of `valid` on a file: operators from the files and the
arguments to what is printed, the exit code and the files that are left. What a
check finds is data there; how it is found is the subject of the modules above.

`Workspace` puts them to work. `crate` is the version of the models that is
saved, `bin` the one the registry binary was built from, `files` all else. The
terminal runs the jobs of `script`, one at a time: `job` holds the children
still to run and what those that ran have said; `reports` are the jobs that
ended. A job is one command, a batch or a suite. A child is one step, which
builds the crate if the code does and hands its exit code on; between any two
steps the developer may `Save` one of the versions and files of the scenario.

`McpSession` extends it with the MCP server: it reads a line of its input
(`taken`, `open`), handles the messages of the line in order (`at`), collects
their `replies` and writes them when the line is done. It stops (`StopServer`) at the
end of its input, at a line that is no text, and when a response cannot be
written; `accepts` is how much the client takes before it hangs up, and a log
notification nobody takes is dropped. `session` is
`SessionState`; `suite` is the suite a tool call is in the middle of, one child
a step; `out` is what was written, log notifications and responses. `McpTools`
is what a tool makes of a command. Server and terminal share the crate, the
binary and the files, so that a suite of one runs while the other rebuilds.

### Expressions and their encodings

In the modules above an expression is the set of states on which it holds. What
an expression *is* differs from engine to engine. A model declared in Rust is
run by the explicit engine as the closures rustc compiled, and by the others as
what `lower_machine_model` makes of the text of those closures; that is evaluated
by the kernel, or turned into a circuit, or into an SMT formula.

`Expressions` starts with `written`, a model as its author means it: the types
of its fields, a guard and the updates of an action, as trees. `Text` is what an
author writes for a tree, as a sequence of tokens, with all the parentheses Rust
asks for and, in the style `"explicit"`, some it does not. `Lower` is
`lower_machine_expr_with_enums`: the order of its cases, and of the operators it
splits a text at, is that of the code. `Eval` and `Steps` are `eval_expr` and
`apply_action_transition`; `Meant` is the tree itself, evaluated as Rust would. A
step of the specification is a step of the lowered model.

`Encodings` adds what `solver/varisat.rs` and `solver/smt.rs` say of such a
step. `SatAccepts` and `SmtAccepts` are their refusals. Of the circuits, every
gate is a set of clauses, of which `GatesDecide` says that they leave the output
one value; adders, subtracters, comparisons and the long division are made of
gates, on bits as many as the code has. `SatSteps` and `SmtSteps` are the next
states the clauses, or the assertions, allow.

### The compiler of `.valid` files

`Frontend` is `compile_model`. A file is a sequence of lines and a line a
sequence of tokens. `section` is the code's enum: the header the next line is
read under; `draft` is the `ParsedModel`, and the last of its actions the one
that guards, roles and assignments go to. There is one action for each kind of
line the parser tells apart, and after the last line one each for `Resolve`,
`Typecheck` and `LowerAll`. `MCExpressions` has `Expressions`, `Encodings` and
`Frontend` in one specification, of which a behaviour takes either part.

## What the runs check

One run per subsystem. Each module takes what is asked of it (a model, a property
and a plan; two models and a depth; a set of jobs) as one record of a constant
set, so that a run asks everything at once, and `MC` modules name the sets. Each
is the smallest in which the cases in the third column occur.

| run | checks | bounds, and why they suffice |
|---|---|---|
| `search` | the verdict implements `VerdictContract`; the invariant of the proof; the trace is a run of the model that ends in what it reports, a shortest one under breadth-first search; limits and faults never make a verdict wrong; a run ends | branching models over three states (joins, cycles, self-loops, dead ends) under both strategies, depth bound 1 and state limit 2, which strike half way; models whose first action may fault, with scopes, scenarios, transition properties on one or both actions, also ones without a value on some step, and a clock that may expire at any moment; ladders over five states, in which a state lies at several depths at once |
| `temporal` | truth sets are the path semantics; the verdict is their value in the initial state, or an error where an operand has no value, and the walk that shows a failure stays among failing nodes; a bounded `always` covers its depth | three states of which two branch: cycles, dead ends, operators nested in one another, `always` behind `next` and before `until`, where the walk may stray; depth bounds 0 and 1 |
| `solver` | counterexamples are shortest, a PASS covers its horizon, `sat-varisat` decides, with an error for a violation in the initial state and only then; whatever a program prints, a FAIL carries a run of the model; every run ends | horizon 3 on three states, one more than the longest simple path; every reply of up to two actions, known or not, with every status, level and reason |
| `distinguish` | the divergence is a shortest one and its trace a run of both models; finding nothing means agreement; the comparison ends | pairs of models over four states, so that two ways of different length lead to one state; transitions that share an id, properties, faults |
| `store` | processes in turn keep the index exact and the history covers it but for what a kill or a failed write has cut off; a summary is readable unless it was struck half written, and then stays as it is until it is cleaned away; what is listed is there; whatever happens nothing is listed twice; who is not disturbed gets to emit | four deployments: three threads of one process of which two emit the same paths; two threads of one process with a clean and one kill or failed write; two processes that overlap, with one, and the same two in turn, with two: one to strike a file and one more while the next process works on what is left. They emit the same paths, and one of them a benchmark, which goes on after an error |
| `vectors` | a vector replays to the state and value it expects, and calls an action blocked only where it is; an enablement vector is a shortest one; a minimised counterexample still fails and would not if one step more were removed. Of Rust machines: a failure is a shortest run to a violation and a pass has missed none, coverage counts what the machine can do, and vectors replay. A program that drains its input is heard to the end and judged by `Compare`; no answer is judged before it is whole | models over four states of every shape (joins, loops, dead ends), some with faults and shared ids; every strategy; traces of up to five steps, which is what a detour in the middle of a counterexample needs. All machines over four states with a deterministic and a branching action, started in one state, in two, and in one that is named twice; properties that fail nowhere, far away, and at once. Pipes of capacity 2 against requests of 0, 1 and 3 units and every script of up to four operations; answers and expectations of up to two observations |
| `project` | no command overwrites what was there; what `init` and `repair` lay out is what `--check` and `doctor` look for; onboarding in an empty directory ends with a project whose models are served, and ends in any | ten directories: empty, with only a `valid.toml`, a `main.rs` or a guide of the user's, cargo packages with two forms of manifest, laid out projects of which one has a `valid.toml` that does not parse and one a `main.rs` of cargo's; one kill at any step and one edit between any two commands, which is the shortest history of each kind |
| `expressions` | the text of an author who parenthesises is lowered to what rustc makes of it; what `sat-varisat` and `smt-cvc5` accept they give the kernel's truth value and the kernel's steps; of a `.valid` file all that it says comes out, and nothing else | every operator over two bounded integers and a flag, a set of three, an enumeration, two relations and two maps of two by two; arithmetic two deep, Boolean connectives three deep, chains of two writes; fields of 3 bits (8, 16 and 32 in the code), so that sums and differences leave the field on both sides and the division shifts through all of its bits; masks of 8 bits (64), twice the widest field; every state of the types. Two `.valid` files that between them have every section, and from them every file in which a line is missing, repeated, moved or replaced, which is how a line gets under a header that is not its own |
| `workspace` | every request is answered once and in order; logs reach who asked for them, before the answer they belong to; the exit code is that of the worst child; a suite that exits with 0 has seen all it promises pass; a drift check is exact; terminal and server agree; only what is named is written; both come to an end | twelve projects: two models of which one is opaque to solvers, versions of the crate that fail, that break a contract, and that do not compile; scripts of up to six jobs; an input of lines, batches, notifications, lines that do not parse and one that is no text; a client that hangs up before, between and behind the notifications and responses of a batch; one or two saves at any step, enough for one between a lock and its check, and one between two children of a suite |

Deadlock checking is off in every run: a search that has answered, a thread
without jobs and a program that has ended do stop, and so do two processes that
wait for each other's pipe, which is what `DrainingIsHeard` is about.

Three runs show where the code parts from what the repository says of it, and
`PROJECT.json` quotes both sides: the walk that locates a temporal failure may
not end (`temporal_walk_diverges`); `!a || b` is lowered to `!(a || b)`
(`lowering_precedence`, on the invariant of
`examples/iam_transition_registry.rs:73`); and through a registry `valid_check`
answers a model that fails with an error, because the registry exits with 1 on a
FAIL and the server takes 0, 2 and 4 for answers (`mcp_hides_failures`,
`mcp/mod.rs:1975`). Two more were met while modelling and
are not runs of their own: a transition property with a `when:` scope,
which `docs/dsl/language-spec.md:234` allows, always ends in an error, because
the scope is evaluated on a single state first (`engine/explicit.rs:359`), which
`ImplementsContract` says of it, too; and the test generated for an enabled guard
expects the action to be enabled behind its own step (`testgen/mod.rs:1516`), so
that it fails on a model whose action disables itself.

### What the properties do not claim

Several properties carry a condition, and each is there because the code does
not keep more:

- A bounded PASS of a depth-first search does not cover the states within the
  bound: a state is marked visited at the depth it is first met, and what lies
  behind it may be cut there (`engine/explicit.rs:193`). `VerdictContract` asks
  for depth only of breadth-first plans.
- A scenario filters what is judged and not what is explored
  (`engine/explicit.rs:138`).
- `TemporalVerdictLocated` says where the walk is only if it cannot leave an
  `always` (`Strays`): there the walk rebinds `expr` to the operand in a match arm
  (`engine/explicit.rs:652-664`), so that it may end in a state where the operand
  holds. The trace reported for a failed `eventually` is
  the parent chain of the last node, and may pass a state that satisfies the
  operand (`engine/explicit.rs:676`).
- `SatDecides` says error where the initial state violates the invariant, since a
  violation without actions is normalised to one (`solver/mod.rs:1071`). It asks
  for transitions with names of their own, since a counterexample is replayed from
  names (`solver/mod.rs:1190`). The encodings leave the scope of a property out
  (`solver/varisat.rs:354`). `FailIsReplayable` says that a `command` FAIL is a
  run of the model, not that the run violates anything: nobody looks
  (`solver/mod.rs:1090`).
- `VectorsHold` asks for ids of their own (a vector is replayed by id), for a
  trace that means what its kind says, and leaves the property's value in a
  deadlock vector out: `build_model_deadlock_vector` expects it false whatever
  it is (`testgen/mod.rs:852`), and takes for a deadlock the first node without
  a *new* successor, which every finite model has (`testgen/mod.rs:758`). So a
  test generated for a deadlock may fail on the model it was generated from, and
  there may be one for a model that never stops. It leaves out, too, whether the
  action of an enabled-guard vector is enabled where the vector ends. A path
  vector expects a decision `legacy#path` that no replay prints
  (`ir/path.rs:35`); the novelty key leaves out the action a vector is about, so
  that the guard vector of a second action may be suppressed (`api/mod.rs:447`).
- `MinimizedStillFails` speaks of minimisations that come to an end: removing a
  step that enabled a later one is an error and aborts (`testgen/mod.rs:1036`).
- `IndexIsNewest` and `HistoryCoversIndex` speak of processes that run in turn and
  of a directory that is not cleaned meanwhile: the lock is a mutex of one process
  (`support/artifact_index.rs:148`), two processes overwrite what the other
  recorded, and a writer brings back what `clean artifacts` removed. A kill or a
  failed write costs what these properties say: one that strikes the index leaves
  it blank, and all that was listed is forgotten, or torn, and then
  `TornStaysTorn` and every emission is refused until it is cleaned away; one
  between the two files leaves the history a record behind, until the same record
  is emitted again. A run id is a digest of a constant and the property's name
  (`api/mod.rs:1682`), so different executions share it.
- `NothingOverwritten` excepts the manifest: it is truncated before it is
  filled (`project.rs:1141`), so a kill in between loses it. A `valid.toml` left
  blank by a kill is healed neither by `init`, which refuses because it exists,
  nor by `repair`, which only creates what is absent.
- `LaidOutProjectsWork` speaks of the models an onboarding serves
  only for an undisturbed empty directory. A `main.rs`
  that cargo wrote earlier stays (`project.rs:490` replaces it only if cargo has
  just been run), `--check` does not look at it, and the walkthrough counts the
  exit code of whatever the package's program is (`bin/valid.rs:298`), so it
  reports `ok` for a package that prints a greeting. A `[dependencies]` line that
  ends the file gains no dependency.
- `MachineExact` asks, of vectors, for one initial state and at most one successor
  where a vector is replayed: the replay takes the first of each
  (`modeling/mod.rs:4543`), and every vector names the first node as its initial
  state (`modeling/mod.rs:3339`). One-step witnesses start where their edge
  starts, which no replay does. A machine that fails at once has neither an
  explanation nor a counterexample vector. Coverage after a failure is that of
  the part explored, although an explanation speaks of the reachable state space
  (`modeling/mod.rs:2511`); an action is then called unreachable if the search
  stopped before it (`modeling/mod.rs:2936`). As in `testgen`, the vector for an
  enabled guard ends behind a step of the action, or beside it if its successor
  was known already.
- `LoweringKeepsMeaning` speaks of authors who put every `!` and every operand of
  `+`, `-` and `%` in parentheses. The lowering strips a leading `!` first and
  splits at the *first* occurrence of an operator (`modeling/mod.rs:4022-4102`),
  so that without them `!a && b` is `!(a && b)`, `a - b - c` is `a - (b - c)`,
  `a - b + c` is `a - (b + c)`, and `a % b + c` is `a % (b + c)`. It also leaves
  out what panics in Rust (a subtraction below zero) or faults in the kernel,
  which evaluates both operands of `&&` and `||`.
- `EncodingsAdequate` leaves subtractions below zero out: the kernel and the circuits
  stop at zero, the integers of SMT do not (`solver/smt.rs:615`). A violation
  behind such a step is one the `smt-cvc5` backend does not find. A divisor is a
  positive literal, since the logic declared is linear.
- Both say that what a backend accepts is right, not that it accepts enough, and
  that one step is right; `SolverAdapter` puts the steps together. An update that
  leaves its type is an error in the kernel and no step in the encodings. A field
  updated twice has its last value in the kernel and its first in the encodings;
  a Rust struct literal names a field once, and so do the instances.
- `FrontendExact` says what comes out of a file, for the tokens it is made of:
  names, numbers and operators. It says nothing of what a file should have been
  refused for: bounds of a type that are out of range make the field a Boolean
  (`frontend/ir_lowering.rs:35`), a field that an expression reads need not be
  declared, `on:` is dropped from an invariant, and `on: Inc` never matches an
  action that has a choice, whose id is `Inc[n=1]` (`engine/explicit.rs:375`).
  Authors put operands in parentheses, as for `LoweringKeepsMeaning`: `!a || b`
  is `!(a || b)` here too (`frontend/ir_lowering.rs:515`), and a conjunction of
  two `implies(..)` is refused.
- `WorstChildDecides` is about the exit code of the process: 0, 1, 2 for PASS,
  FAIL and UNKNOWN, 3 for an error. The field `ci.exit_code` of a report counts
  0, 2, 4 instead (`evidence/mod.rs:637`).
- `SuiteMeansPass` speaks of what a suite promises. A critical property of a
  model that `suite_models` leaves out is not checked by `--critical`, and no
  message says so.
- `DriftIsHonest` compares what a lock file can tell apart. The label of a string
  field drops a bound that is given on one side only, so that such a change is
  no drift; a model that is gone since the lock is not reported; the lock of one
  model file replaces the lock of all others. It excepts lock files that an editor
  or a command other than `contract lock` may have written or removed, locks of a
  model file that may have been changed, and locked models of different contracts
  that share an id, of which the lock file is searched for the first.
- `SurfacesAgree` compares one question with itself: through the server the
  default property and backend of `valid.toml` do not apply, the scenario of a
  registry call is dropped, and `valid_suite_run` with a registry ignores the
  model file it is given. `OnlyNamedFilesChange` is about every tool;
  `valid_handoff` is announced as read-only and writes generated tests.
- What a handoff says of failed and undecided runs is left out of the
  properties: it selects `"FAIL"` and `"UNKNOWN"` where the producers write
  `"Fail"` and `"Unknown"` (`handoff.rs:127`).

### Fairness

Liveness is claimed only where the code goes on by itself. The search, the
comparison and the adapter are loops of one thread: weak fairness of their next
step (`WF_vars(SearchStep)`, `WF_vars(Next)`) says that the thread is scheduled.
In the search the clock is excluded: nothing forces time to pass. In
`SolverAdapter` the fairness includes that an external program answers or dies.
In `ArtifactStore` each thread has weak fairness of its emission; the lock is
free infinitely often because every holder goes on, and TLC shows that this
suffices although the mutex is not assumed fair. In `ProjectScaffold` a command,
and a walkthrough, that was begun goes on (`WF_vars(Work)`); nobody has to begin
one, and neither `cargo init`'s failure nor a kill has to happen. In `RunnerProcess` the caller
and the program are each weakly fair: neither waits except for the other. In
`McpSession` the fairness is of the work of terminal and server together
(`WF_vars(Work)`): both are finite, so neither can keep the other from its turn
for ever, and nobody has to save anything.

## What is proved

Proofs are in modules named `...Proofs` and are checked by TLAPS. The constants
are arbitrary: any set of states (finite or not), any number of actions, any
models, properties and plans of the declared types, any threads and processes.

**Distances** (`TransitionSystemProofs`). What is within k steps of the initial
state is a recursive function of k (`Within`), and the lemmas about it need
induction. The induction theorems of the library cannot be used, since they take
an operator; `InductionInSetForm` says the same of a *set* of numbers, and follows
from the least number of a set (`LeastNumber`), which follows from the
well-foundedness of the inclusion of finite sets. On it rest `WithinNext`,
`WithinGrows`, `WithinReachable` and their converse, `ReachableWithin`.

**The search** (`ExplicitSearchProofs`). What matters of a verdict is that a
reported violation is reachable and a complete exhaustion has missed nothing
(`VerdictSound`). That is not inductive, as it speaks of the last step only.
`SettledInv`, of which it is the last part, adds what the search knows on the
way: every index is in range (`TypeOK`, `Shape`), `visited` is the inverse of
`nodes` (`Indexed`), the nodes are reachable (`NodesReachable`), and every node
that is neither waiting nor being expanded is *settled*: harmless itself, each of its steps harmless and leading to a known node, unless an edge
was cut (`AllSettled`, with `CurrentSettled` for the actions already tried at
the node being expanded). When the frontier is empty, and nothing was cut, the
states of the nodes are a set that contains the initial state, is closed under
steps and contains no deciding state; since reachability is defined as membership
in every closed set, nothing reachable was missed.

Two more invariants rest on it. `GraphInv` has what a temporal verdict needs:
every edge is a step of the model, and unless something was cut every node that
is neither waiting nor being expanded has an edge for each of its steps; with an
empty frontier, nodes and edges are those of the reachable graph
(`GraphCorrect`). `AccountInv` has what the trace needs. Parent links are steps
of the model (`NodesFollowModel`), so that a trace is a run; under breadth-first
search the nodes lie in the order of their depth, the waiting ones are the
newest, and the one at the front is at most one level above the deepest
(`LevelByLevel`); and whatever step was left out was left out at the bound
(`AllRecorded`). From these, the states within fewer steps than the front are all
nodes that have been settled (`NearIsKnown`), so that none of them decides: the
trace is a shortest one (`TraceCorrect`). `Inductive` proves the three together,
one lemma per action and invariant, and the run `search` checks that same
conjunction as `SearchInv`.

`Refines` proves that the search implements `VerdictContract`, for every model,
property and plan over a *finite* set of states. Initial states map to initial
states; every action before the last maps to a stutter; and for each way to end
the search, one lemma says which answer of the contract it gives and why the
contract allows it: for a counterexample, a deciding state is reachable within the
bound; for a pass, the frontier is empty; for an unknown, what was exhausted; for
a vacuous pass, that what marks the scope as met speaks of something reachable
(`MarksMean`). Finiteness is needed where the contract counts the reachable
states to say that a limit on them was really exceeded.

**Temporal properties** (`ExplicitSearchProofs`, its last part).
`TruthSetCorrect` proves `TruthSetIsMeaning`: what the loops compute is what the
paths of the model say, for every formula. It takes four steps. Recursion over
formulas defines something because it looks only at what is lower
(`RecursionExists`), so that truth sets and meanings satisfy their equations
(`TruthSetEquations`, `MeaningEquations`) and a proof may go by height
(`HeightInduction`); heights are numbers, so no induction over data is needed. A
loop that updates a set in place ends at a fixpoint after as many passes as there
are nodes, the least one if a pass can only add and the greatest one if it can
only take away (`PassGrows`, `RoundsGrow`, `RoundsShrink`: a pass that changes
something changes one element for good). A fixpoint on a graph of the model is
the path meaning (`UntilIsMeaning`, `AlwaysIsMeaning`, `EventuallyIsMeaning`,
`NextIsMeaning`): what a path promises and the least fixpoint lacks would be a
path that goes on for ever inside finitely many states, and such a path comes
back to one of them (`Lasso`). And the search hands over such a graph
(`ReachedMirrors`, from `GraphReached`).

`TemporalInv` adds to the invariants of the search that the step by which a node
was found is an edge (`ParentsAreEdges`), and where the walk is (`WalkFails`): it
began because the formula fails at node 1, and unless it may stray it is at a node
where the formula it carries fails. `TemporalVerdictsCorrect` follows: the verdict
is read at node 1, which is the initial state. `BoundedAlwaysCorrect` holds of cut
graphs too: where `always` is true at node 1, its operand is true at every node,
since each is a child of an earlier one (`AlwaysCovers`), and breadth-first the
nodes have every state within the bound (`BoundCovered`, from `NearIsKnown`).
`FormulasAssumption` asks that the operands of a formula are formulas of lesser
height. The proof is also where the walk through `next` to an `always` was seen to
stray, which the property once did not except.

**The comparison of two models** (`DistinguishSearchProofs`).
`DivergenceIsReplayable` proves `TraceIsReplayable`, one half of the checked
`DivergenceIsShortest`: every node of the queue is where a run of *both* models has
led (`IsNode`), since a step is shared only when both sides have the same
successors. That a state has finitely many of these (`VariantsFinite`) is what
makes the new nodes a sequence. The other half, and `NothingMeansAgreement`, say
that nothing nearer was overlooked. `AgreeInv` has the reason: what is less deep
than the head of the queue has been compared without a difference and its
successors have been seen (`NearFollowed`), so has every state seen that no longer
waits (`SeenFollowed`), the queue is in the order of depth (`Ordered`), and a
state is queued at the depth at which it is first reached (`QueuedFar`).
`DivergenceShortest` and `NothingAgrees` follow, for any two models.

**The adapter** (`SolverAdapterProofs`). `FailsAreReplayable` proves that a FAIL
of an encoding or a command carries a run of the model. `ReplayInv` says that
what was replayed so far follows the model; `ReportInv`, that a FAIL reports a
replay that came to its end. For the encodings `SolverInv` adds what the queries
have established: no depth below the one being asked about has an assignment
(`Barren`), a FAIL came from one (`Found`), and a PASS was printed when the last
depth had none (`ReplyMeans`). What is printed of an assignment is only the
names of its actions; the replay nevertheless goes through the states of the
assignment (`Retraced`), because the state of the assignment is among those the
name leads to and the replay refuses a name that leads to several. `HorizonCorrect` concludes that a counterexample is as
short as possible and a PASS speaks for all within the horizon, and `SatCorrect`
that `sat-varisat` decides where each transition has a name of its own: without
that it may answer otherwise, and the condition is part of the property. A FAIL
is of a run with at least one step, and an error of a violation in the initial
state.

**The store** (`ArtifactStoreProofs`). `NothingTwice` holds for any number of
processes that overlap, kills, failed writes and cleans: `UniqueInv` says that no
file and no buffer about to be written lists a key twice. So does the first part of
`SummariesTrue`: what any buffer or summary names has been written or cleaned away
(`FilesInv`). The rest is about processes in turn. Of these, whoever is inside
`record_artifact` is alone there (`TurnInv`): threads of one process exclude each
other by the lock, and another process has not begun. On that rests
`ReadableInv`: a summary that is torn was struck, one that is blank was struck or is
being filled at this moment, and who is about to write has read what parses. The
second part of `SummariesTrue` and `TornForGood` follow, whatever is cleaned
meanwhile; that processes in turn are so for good (`TurnForGood`) makes the
condition one of the deployment.

`IndexCorrect` and `HistoryCovers` need in addition that nothing is cleaned.
`AloneInv` follows the holder of the lock through the index: what it has read, and
what the file holds unless it is being filled, is `listed`. `CoverInv` follows it
through the history: the file, or the buffer it is filled from, covers what is
listed but for what is owed (`Owed`), which is what `cut` names and the record on
its way from one file to the other. A kill or a failed write turns the latter into
the former, one that strikes the history adds all of `listed` to it, and the next
emission of a record takes it out.

**The pipe** (`TestGenerationProofs`). `AnswerHeardOut` proves `AnswerIsWhole`:
what was read, what is in the pipe and what is still to be printed add up to what
the program prints (`PrintsKept`), the end of the output is seen only when the
script is over and the pipe empty (`EndsWithScript`), and an answer is judged only
then (`JudgedLast`).

**Test vectors** (`TestGenerationProofs`, its second half). `VectorsCorrect`
proves `VectorsHold` for every model, property, strategy and trace of
`TestgenAssumption`, whose substance is that a trace is evidence (`IsEvidence`):
what `TraceCorrect` proves of the engine's. A route is defined from a node to its
parent; that it is a run to the node's state (`RouteRuns`) needs the parent of
each node to be an earlier one (`Grown`). Replay goes by id, and agrees with the
run where each action has an id of its own (`ReplayIsRun`). Then each strategy's
vectors replay (`GuardsReplay` to `SyntheticsReplay`); what a guard vector of the
blocked outcome and the state behind an edge need in addition is that the
exploration is complete, which `Covered` follows from node to node. That an
enablement is a shortest one is about depth: parents come in the order of their
children (`Ordered`), so depth grows with the place in the list (`DepthGrows`),
every state within some number of steps is a node of at most that depth
(`RingsFound`), and the first node that enables the action is a nearest one.
`MinimizationCorrect` proves `MinimizedStillFails`: what is left fails, and every
step in front of `start` has been tried in vain since the last one was dropped
(`Reduced`). The run `vectors` has been used to check this invariant (`AnyInv`)
before it was proved.

**The project directory** (`ProjectScaffoldProofs`). `WorkIsKept` proves
`NothingOverwritten` from any directory of `ProjectType`. `ScaffoldInv` says, of a
command that runs, that each path is as it was or one of the exceptions the
property names (`PathKept`); that what a file is about to be filled with may be
there (`HeldKept`), without which an emptied file could be filled with anything;
and that nothing has changed before the first path (`Beginnings`), so that a
`main.rs` cargo has just written can be told from one that was there.
`LayoutWorks` proves `LaidOutProjectsWork`, which looks at the directory *after* a
command. `LayoutInv` carries what was true on the way there: a command leaves
nothing missing behind it (`Passed`); an init began without a `valid.toml` and so
has written the one there is, and a repair began with both configuration files
(`Configured`); and how the last command ended still describes the directory
(`Laid`), which is why an edit resets the answer. Of an onboarding in an empty
directory, every file is as cargo left it or as the template has it, and the init
turns the one into the other in the order of its steps (`Building`), so that after
the init the package builds (`Good`) and after the check it is served (`Served`).

**The server** (`McpSessionProofs`). `AnsweredOnce` proves `OneAnswerPerRequest`
for every input, script, registry and save, from `InboxAssumption` (a line is a
sequence of messages). `AnswerInv` adds what is true in the middle of a line: the
responses collected so far are those the messages handled so far are owed
(`Collected`), and a suite is only ever run for a request (`IsRequestNow`), so
that its end is the answer to that request and to no other. `LogsHeard` proves
`LogsAreHeard`. The property reads the whole input to say who had asked for what
when a message was handled; the server has only its session. `LogInv` ties the
two together: the session is what the messages before the one at hand have made of
it (`Learnt`), what was written speaks of messages already handled
(`WrittenPast`), and of a line that is still open every failure among the answers
collected has been told of (`FailuresTold`). The lemmas go through every message
a line can hold, and follow a suite from the call that begins it to its end.

**The terminal** (`McpSessionProofs`, its second half). `WorstChild` proves
`WorstChildDecides` and `SuitePasses` proves `SuiteMeansPass`, for every script,
registry, configuration and save, whatever the server does meanwhile. They use
`ScriptAssumption`: what a terminal is told are sequences, an argument record has
the fields of `CliArgs`, a suite is of the registry, and a pair of `valid.toml` is
a model and a property it names (a list of them is a list of strings). Both rest on
`JobInv`, which is about the job that is still running: its code is the worst of its
children so far (`Weighed`, with `WorstAdds` of `aggregate`); those that ran are
the first of its operations, and those to run are the rest of them, or none,
where a batch stopped at its last child (`Onward`, `Halted`); and as long as a
suite's code is 0, every pair it promised has passed or is still to be checked
(`NoneForgotten`). A suite starts with a child for each of its pairs
(`ChildrenAsk`; the critical ones by way of what `FlattenSeq` keeps,
`FlattenCovers`), and a child that exits with 0 found its model and its property
passing (`CheckPasses`: a model that is gone, a panic, a refused backend and an
unknown property all have another code). `FileExits` is why a batch may count the
codes of model files its own way: `cmd_batch` of `valid` and `to_exit_code` differ
on codes that no command of a model file exits with.

**The files** (`McpSessionProofs`). `NamedFiles` proves
`OnlyNamedFilesChange`, an action property, for every command with every argument
record. It goes through the commands of the registry binary (`RegistryDiffers`),
of model files (`ModelFileDiffers`), `clean` (`CleanDiffers`) and the tools
(`CallDiffers`), and shows of each that a path at which the files differ before
and after is one the arguments let it change (`MayChange`). Two facts about who
passes what on complete it: what `valid.toml` adds and `registry_command_args`
drops decides over no file (`SameOptions`), and of a tool's call neither `--write`
nor `--check` reaches `handoff` (`HandoffTests`). The steps of the three actors
are told apart by what else they change (`FilesInv`): every save is counted, every
child is one more of its job (`ChildRuns`), every answer one more reply
(`AnswerAdds`). `InboxAssumption` says here that a decoded tool call has the
fields of the command it stands for. Writing out the proof found the statement
wrong about `clean generated`, which is accepted as `clean generated-tests` is
(`bin/cargo-valid.rs:1722`); it is stated so now and a script of the run uses it.

**Terminal and server** (`McpSessionProofs`, its last part). `OneAnswerForAll`
proves `SurfacesAgree`. The property compares any two sayings, however many lines,
saves and builds apart; the proof compares each of them with what a check of that
version of the crate answers (`Answered`), which depends on the model, the property
meant and the engine alone (`OneAnswer`). Of the terminal, every child of every job,
running or reported, printed that answer for its arguments after `valid.toml` and
the option filter (`HonestJobs`; `FilterKeeps` is why the filter takes nothing from
a check). Of the server, what was written, what is collected for the line at hand
and the rows of the suite that runs are right for their calls (`SaidInv`): the tool
hands on the model, the property and the backend it was given
(`CheckToolAnswers`), a row answers for the binary it was run with (`RowAdds`), and
the pairs with a row and those still to be checked are together those the suite
selects (`SuiteRight`), whatever is rebuilt between two of them. Dropping repeated
pairs loses none (`ExpandKeeps`). So at the end of a suite nothing is missing, and
a suite of a model file, which runs in one call, has its rows by the same lemma
(`DslSuiteAnswers`).

**Locks and drift** (`McpSessionProofs`, its end). `DriftHonest` proves
`DriftIsHonest`. The property looks back over all children the terminal has run, so
the first lemmas say what a step makes of that history: a child that ran is appended
to it (`HistoryGrows`), and a job that begins, ends or is refused leaves it as it was
(`HistoryStays`), which rests on what `FlattenSeq` makes of one more report
(`FlattenAppended`). The invariant is `HistoryRight`: a file nobody may have changed
is as it was at first (`FilesKept`), a file only locks may have changed is what the
last successful one wrote (`LockKept`), what a lock wrote are the snapshots of the
models it was made from (`LockRight`), and every drift check so far was right
(`DriftRight`). That a child keeps it (`RightGrows`) uses that its effect on files
is within `MayChange`, as in `NamedFiles`, and that a lock that fails writes nothing;
the server writes generated tests only (`ServerFiles`), and the developer saves no
such file. `ReportIs` is the heart of a drift check: against a lock whose models do
not share ids, a model is unchanged exactly if one of those promised the same, because
two snapshots have one hash exactly then (`SameHash`). `LockAssumption` says that what
a lock writes is not the value that stands for a missing file. Writing out the proof
found that the property needed its exceptions: a `doc --write` to the path of the lock,
a `clean` of the `artifacts` a lock was written to, and two locked models of one id
each made it false of projects the run does not have.

Model-checked only:

- Liveness (`Terminates`, `Answered`, `AllEmitted`, `DrainingIsHeard`, `Settles`):
  it needs fairness and ENABLED, which TLAPS does not reason about.
- The Rust machines (`MachineExact`), the encodings and lowering
  (`LoweringKeepsMeaning`, `EncodingsAdequate`) and the compiler (`FrontendExact`):
  they go by induction over trees, files or the course of a loop inside one step,
  and their definitions are RECURSIVE or folds over data, of which the installed
  provers cannot reason for every input.

## Not modelled

Regular expressions and the characters of strings, tokens and JSON; initial
assignments in the encodings; wall-clock time; the wording and layout of what is
printed. Of the components: `coverage` counts over given traces and has no order
to get wrong; most of `reporter` renders; `compose` and `selfcheck` combine parts
modelled here; `valid_derive` runs at compile time; the bundled models are
inputs; `support` is a JSON parser, a hash and the formatting of diagnostics.
PROJECT.json says for each part what is left out. Nothing of the Rust compiler,
of cargo or of the solvers is modelled beyond what the code assumes of their
answers.

## Plan

Coverage of traces and its merging by the orchestrator; the products of `compose`.
