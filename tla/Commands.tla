------------------------------- MODULE Commands -------------------------------
(***************************************************************************)
(* The commands of the three command-line surfaces: the registry binary a  *)
(* project builds out of its models, valid on a model file, and cargo      *)
(* valid on the bundled models.  A command is an operator from the files   *)
(* of the project and its arguments to [code, out, files]: the exit code,  *)
(* what it prints on stdout, the files it leaves.  Messages go to stderr   *)
(* and are left out.                                                       *)
(*                                                                         *)
(* What checking a model finds is data here (m.verdict[engine][property]); *)
(* how it is found is the subject of the engine's modules.                 *)
(***************************************************************************)
EXTENDS ContractDrift, FiniteSets

CONSTANTS DefaultPath  \* what --write without a value stands for

Done(code, out, files) == [code |-> code, out |-> out, files |-> files]

(* ExitCode.                                                               *)
ExitCode == [Success |-> 0, Fail |-> 1, Unknown |-> 2, Error |-> 3]

(* Mutant: the largest code.                                               *)
AggregateByMax(one, other) == IF one > other THEN one ELSE other

(* ExitCode::aggregate: an error hides a failure, a failure an unknown.    *)
Aggregate(one, other) ==
  LET either == {one, other}
  IN  IF 3 \in either THEN 3 ELSE IF 1 \in either THEN 1 ELSE IF 2 \in either THEN 2 ELSE 0

FromCheckOutcome(verdict) ==
  CASE verdict = "PASS" -> 0 [] verdict = "FAIL" -> 1 [] verdict = "UNKNOWN" -> 2 [] OTHER -> 3

(* message_exit and usage_exit: nothing on stdout, the code of an error.   *)
MessageExit(files) == Done(ExitCode.Error, None, files)
(* A Rust panic ends the process with code 101.                            *)
Panic(files) == Done(101, None, files)

ReadFile(files, path) == IF path \in DOMAIN files THEN files[path] ELSE NoFile
Written(files, path, content) ==
  [p \in DOMAIN files \cup {path} |-> IF p = path THEN content ELSE files[p]]

OutputPath(write, default) == IF write \in {None, DefaultPath} THEN default ELSE write
DocPath(id) == <<"artifacts", "doc", id>>
HandoffPath(id) == <<"artifacts", "handoff", id>>
LockPath == <<"valid.lock.json">>

PropertyIds(m) == {m.properties[i].id : i \in DOMAIN m.properties}
PropertyOrFirst(m, property) == IF property = None THEN m.properties[1].id ELSE property

-------------------------------------------------------------------------------
(* The registry binary: find_model, adapter_from_parsed_args.              *)
FindModel(models, name) == SelectSeq(models, LAMBDA m : m.name = name)

Adapter(a) ==
  CASE a.backend \in {None, "explicit"} -> "explicit"
    [] a.backend \in {"mock-bmc", "sat-varisat"} -> "solver"
    [] a.backend \in {"smt-cvc5", "command"} /\ a.solver -> "solver"
    [] OTHER -> "refused"

(* check_machine: a solver needs a model that lowers; the explicit search  *)
(* panics on a property the model does not have.                           *)
CheckMachine(m, engine, property) ==
  LET p == PropertyOrFirst(m, property)
  IN  IF engine = "refused" \/ (engine = "solver" /\ ~m.lowers) THEN "refused"
      ELSE IF p \in PropertyIds(m) THEN m.verdict[engine][p]
      ELSE IF engine = "solver" THEN "ERROR" ELSE "panic"

(* ci.exit_code of a rendered outcome, and the exit code of a benchmark's  *)
(* iterations: the table of an earlier release.                            *)
CiExitCode(verdict) ==
  CASE verdict = "PASS" -> 0 [] verdict = "FAIL" -> 2
    [] verdict = "UNKNOWN" -> 4 [] verdict = "ERROR" -> 3

OutcomeJson(name, property, verdict) ==
  [model |-> name, property |-> property, status |-> verdict, ci |-> CiExitCode(verdict)]

CmdList(models, config, files) ==
  Done(0, [models |-> [i \in DOMAIN models |-> models[i].name], policy |-> config], files)

InspectResponse(m) ==
  [model_id |-> m.id, fields |-> m.fields, actions |-> m.actions, guards |-> m.guards,
   properties |-> [i \in DOMAIN m.properties |-> m.properties[i].id], ir_ready |-> m.lowers]

CmdInspect(m, files) == Done(0, InspectResponse(m), files)

(* The failure view needs a property and a run of it that leaves a trace   *)
(* of at least one step.                                                   *)
FailureGraph(m, verdict, property, files) ==
  CASE property = None -> MessageExit(files)
    [] property # None /\ verdict = "panic" -> Panic(files)
    [] property # None /\ verdict \notin {"panic", "ERROR"} /\ property \in m.traced ->
         Done(0, <<Mermaid(m), property>>, files)
    [] OTHER -> MessageExit(files)

CmdGraph(m, a, files) ==
  IF a.view # "failure" THEN Done(0, Mermaid(m), files)
  ELSE FailureGraph(m, IF a.property = None THEN None ELSE CheckMachine(m, "explicit", a.property),
                    a.property, files)

(* The contract's hash, or what a command hashes of a model that does not  *)
(* lower: doc all its names, handoff its name alone.                       *)
ContractHash(m, otherwise) == IF m.lowers THEN SnapshotModel(m).contract_hash ELSE otherwise

(* Mutant: a check that writes as well.                                    *)
CheckOrWriteBoth(drift, generated, path, a, files) ==
  LET left == IF a.write # None THEN Written(files, path, generated) ELSE files
  IN  IF a.check THEN Done(IF drift = {} THEN 0 ELSE 2, drift, left) ELSE Done(0, generated, left)

(* cmd_doc and cmd_handoff behind the generation: --check only compares,   *)
(* --write writes, neither only prints.                                    *)
CheckOrWrite(drift, generated, path, a, files) ==
  CASE a.check -> Done(IF drift = {} THEN ExitCode.Success ELSE ExitCode.Unknown, drift, files)
    [] ~a.check /\ a.write # None -> Done(0, generated, Written(files, path, generated))
    [] OTHER -> Done(0, generated, files)

DocCommand(m, source, contract, a, files) ==
  LET path == OutputPath(a.write, DocPath(m.id))
      generated == GenerateDoc(m, source, contract, a.profile)
  IN  CheckOrWrite(DocDrift(ReadFile(files, path), generated), generated, path, a, files)

CmdDoc(m, a, files) ==
  LET contract == ContractHash(m, NamesHash(m))
  IN  DocCommand(m, <<m.name, contract>>, contract, a, files)

(* Test generation writes one file per vector, whatever it is for.         *)
WriteGeneratedTests(files, vectors) ==
  LET paths == {<<"generated-tests", vectors[i].id>> : i \in DOMAIN vectors}
  IN  [p \in DOMAIN files \cup paths |-> IF p \in paths THEN p[2] ELSE files[p]]

HandoffCommand(m, runs, explained, source, contract, testgen, a, files) ==
  LET path == OutputPath(a.write, HandoffPath(m.id))
      generated == GenerateHandoff(m, runs, explained, source, contract, a.property, testgen)
      tested == IF testgen THEN WriteGeneratedTests(files, m.vectors[a.property]) ELSE files
  IN  CheckOrWrite(HandoffDrift(ReadFile(tested, path), generated), generated, path, a, tested)

(* orchestrate_machine needs a model that lowers unless it searches.       *)
Orchestrates(m, engine) == engine = "explicit" \/ (engine = "solver" /\ m.lowers)

(* Only the first property is explained.  A property the model lacks makes *)
(* the generation of its vectors panic.                                    *)
CmdHandoff(m, a, files) ==
  LET engine == Adapter(a)
      first == m.properties[1].id
      contract == ContractHash(m, <<m.name>>)
  IN  IF ~Orchestrates(m, engine) THEN MessageExit(files)
      ELSE IF a.property \notin PropertyIds(m) \cup {None} THEN Panic(files)
      ELSE HandoffCommand(m, Orchestrate(m, engine),
                          {first} \cap m.traced \cap
                            (IF a.property = None THEN PropertyIds(m) ELSE {a.property}),
                          <<m.name, contract>>, contract, TRUE, a, files)

LintExit(m) == IF m.lint \cap {"warn", "error"} # {} THEN ExitCode.Fail ELSE ExitCode.Success
CmdLint(m, files) == Done(LintExit(m), m.lint, files)

(* benchmark_check_outcomes: every iteration finds the same.  elapsed is   *)
(* what the clock says, in milliseconds.                                   *)
BenchmarkSummary(m, verdict, elapsed) ==
  [profile |-> verdict, iteration |-> CiExitCode(verdict), elapsed |-> elapsed,
   explored |-> IF verdict = "ERROR" THEN <<>> ELSE m.explored]

ExceedsRegression(current, baseline, percent) ==
  IF baseline = 0 THEN current > 0 ELSE current > (baseline * (100 + percent)) \div 100

MinElapsedBaseline == 20

(* compare_benchmark_to_baseline: another status, a slower run, or more    *)
(* states or transitions explored, where both runs counted them.           *)
CompareBenchmark(summary, baseline, percent) ==
  \/ summary.profile # baseline.profile
  \/ /\ baseline.elapsed >= MinElapsedBaseline
     /\ ExceedsRegression(summary.elapsed, baseline.elapsed, percent)
  \/ \E i \in DOMAIN summary.explored \cap DOMAIN baseline.explored :
       ExceedsRegression(summary.explored[i], baseline.explored[i], percent)

BaselinePath(m, a) == <<"artifacts", "baseline", m.name, a.backend, a.property>>

(* registry_benchmark_baseline_outputs: the files and whether the run is   *)
(* worse than its baseline.  A baseline that cannot be read or parsed is   *)
(* no regression.                                                          *)
BaselineOutputs(summary, mode, percent, path, files) ==
  LET baseline == ReadFile(files, path)
  IN  [files |-> IF mode = "record" THEN Written(files, path, summary) ELSE files,
       regression |-> /\ mode = "compare"
                      /\ baseline \notin {NoFile, None}
                      /\ CompareBenchmark(summary, baseline, percent)]

BenchmarkExit(verdict, mode, regression) ==
  CASE verdict = "ERROR" -> ExitCode.Error
    [] verdict # "ERROR" /\ regression -> ExitCode.Fail
    [] mode = "ignore" /\ verdict = "FAIL" -> ExitCode.Fail
    [] mode = "ignore" /\ verdict = "UNKNOWN" -> ExitCode.Unknown
    [] OTHER -> ExitCode.Success

CmdBenchmark(m, a, files) ==
  LET verdict == CheckMachine(m, Adapter(a), a.property)
      summary == BenchmarkSummary(m, verdict, a.elapsed)
      after == BaselineOutputs(summary, a.baseline, a.percent, BaselinePath(m, a), files)
  IN  CASE verdict = "panic" -> Panic(files)
        [] verdict = "refused" -> MessageExit(files)
        [] OTHER -> Done(BenchmarkExit(verdict, a.baseline, after.regression), summary, after.files)

(* migration_from_inspect, migration_check_from_inspect: snippets holds    *)
(* the actions a snippet was written for.                                  *)
MigrationCheck(m) ==
  CASE m.lowers -> "already-declarative"
    [] ~m.lowers /\ m.snippets = {} -> "no-candidates"
    [] ~m.lowers /\ m.snippets # {} -> IF ToSet(m.actions) \subseteq m.snippets
                                        THEN "candidate-complete" ELSE "partial"

MigrateExit(m, check) ==
  IF check
    THEN CASE MigrationCheck(m) = "already-declarative" -> ExitCode.Success
           [] MigrationCheck(m) = "no-candidates" -> ExitCode.Unknown
           [] OTHER -> ExitCode.Fail
    ELSE IF m.snippets = {} THEN ExitCode.Unknown ELSE ExitCode.Success

CmdMigrate(m, a, files) ==
  LET path == OutputPath(a.write, <<"artifacts", "migration", m.name>>)
  IN  Done(MigrateExit(m, a.check), m.snippets,
           IF a.write = None THEN files ELSE Written(files, path, m.snippets))

CmdCheck(m, a, files) ==
  LET verdict == CheckMachine(m, Adapter(a), a.property)
  IN  CASE verdict = "panic" -> Panic(files)
        [] verdict = "refused" -> MessageExit(files)
        [] OTHER -> Done(FromCheckOutcome(verdict),
                         OutcomeJson(m.name, PropertyOrFirst(m, a.property), verdict), files)

(* explain_machine: the first property, whatever --property says.          *)
CmdExplain(m, files) ==
  LET first == m.properties[1].id
  IN  IF first \in m.traced THEN Done(0, first, files) ELSE MessageExit(files)

CmdCoverage(m, files) == Done(0, <<m.id, m.actions>>, files)

(* The verdicts are in the output only: the code is that of a success.     *)
CmdOrchestrate(m, a, files) ==
  IF Orchestrates(m, Adapter(a)) THEN Done(0, Orchestrate(m, Adapter(a)), files)
  ELSE MessageExit(files)

CmdTestgen(m, a, files) ==
  IF a.property \in PropertyIds(m) \cup {None}
    THEN Done(0, m.vectors[a.property], WriteGeneratedTests(files, m.vectors[a.property]))
    ELSE Panic(files)

(* replay_machine_actions: walks holds the action sequences the model can  *)
(* take.                                                                   *)
CmdReplay(m, a, files) ==
  CASE a.property \notin PropertyIds(m) \cup {None} -> Panic(files)
    [] a.property \in PropertyIds(m) \cup {None} /\ a.actions \in m.walks -> Done(0, a.actions, files)
    [] OTHER -> MessageExit(files)

(* cmd_contract: every model has to lower before anything is written or    *)
(* compared; drift needs a lock file it can read.                          *)
CmdContract(models, config, a, files) ==
  LET snapshots == [i \in DOMAIN models |-> SnapshotModel(models[i])]
      path == OutputPath(a.write, LockPath)
      lock == ReadFile(files, path)
      reports == [i \in DOMAIN models |-> DriftReport(lock, snapshots[i])]
      drifted == \E i \in DOMAIN models : reports[i].status # "unchanged"
      advice == [i \in DOMAIN models |-> RerunRecommendations(config, models[i].id)]
      lowers == \A i \in DOMAIN models : models[i].lowers
  IN  CASE ~lowers -> MessageExit(files)
        [] lowers /\ a.sub = "snapshot" -> Done(0, snapshots, files)
        [] lowers /\ a.sub = "lock" ->
             Done(0, LockFile(snapshots), Written(files, path, LockFile(snapshots)))
        [] lowers /\ a.sub = "drift" ->
             IF lock = NoFile \/ lock.form = "corrupt" THEN MessageExit(files)
             ELSE Done(IF drifted THEN ExitCode.Fail ELSE ExitCode.Success,
                       [reports |-> reports, advice |-> advice], files)
        [] OTHER -> MessageExit(files)

(* run_registry_cli: the commands on one model, and those on the registry. *)
ModelCommand(m, a, files) ==
  CASE a.command = "inspect" -> CmdInspect(m, files)
    [] a.command = "graph" -> CmdGraph(m, a, files)
    [] a.command = "doc" -> CmdDoc(m, a, files)
    [] a.command = "handoff" -> CmdHandoff(m, a, files)
    [] a.command = "lint" -> CmdLint(m, files)
    [] a.command = "benchmark" -> CmdBenchmark(m, a, files)
    [] a.command = "migrate" -> CmdMigrate(m, a, files)
    [] a.command = "check" -> CmdCheck(m, a, files)
    [] a.command = "explain" -> CmdExplain(m, files)
    [] a.command = "coverage" -> CmdCoverage(m, files)
    [] a.command = "orchestrate" -> CmdOrchestrate(m, a, files)
    [] a.command = "testgen" -> CmdTestgen(m, a, files)
    [] a.command = "replay" -> CmdReplay(m, a, files)
    [] OTHER -> MessageExit(files)

RegistryCli(models, config, a, files) ==
  LET found == FindModel(models, a.model)
  IN  CASE a.command = "list" -> CmdList(models, config, files)
        [] a.command = "contract" -> CmdContract(models, config, a, files)
        [] a.command \notin {"list", "contract"} /\ found = <<>> -> MessageExit(files)
        [] OTHER -> ModelCommand(found[1], a, files)
================================================================================
