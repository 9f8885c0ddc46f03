------------------------------- MODULE McpTools -------------------------------
(***************************************************************************)
(* The tools the MCP server offers.  A tool works on a model file or on a  *)
(* model of the registry binary; its result is [isError, value, files].    *)
(* A call is the arguments of a command and the target it names: registry  *)
(* (whether it names a binary), model, file, source.  There is one         *)
(* registry binary: the one the project builds.                            *)
(*                                                                         *)
(* server: [registry, file, config], the defaults the server was started   *)
(* with.  world: [models, files], the registry binary as it is now (or     *)
(* None) and the files.                                                    *)
(***************************************************************************)
EXTENDS ModelFileCommands

(* ToolResult.                                                             *)
ToolSuccess(value, files) == [isError |-> FALSE, value |-> value, files |-> files]
ToolError(value, files) == [isError |-> TRUE, value |-> value, files |-> files]

Refused == [mode |-> "refused", source |-> NoFile, model |-> None, name |-> None]

(* The text of a file or of the request; blank and unreadable are refused. *)
DslTarget(source, name) ==
  IF source = NoFile THEN Refused
  ELSE IF source.form = "blank" THEN Refused
  ELSE [mode |-> "dsl", source |-> source, model |-> None, name |-> name]

RegistryTarget(model) == [mode |-> "registry", source |-> NoFile, model |-> model, name |-> None]

DefaultSource(call, server, files) ==
  LET path == IF call.file = None THEN server.file ELSE call.file
  IN  CASE call.source # None -> DslTarget(call.source, call.file)
        [] call.source = None /\ path = None -> Refused
        [] OTHER -> DslTarget(ReadFile(files, path), path)

(* TargetArgs::resolve: a model name asks for the registry.                *)
Resolve(call, server, files) ==
  LET registry == call.registry \/ call.model # None
      dsl == call.file # None \/ call.source # None
  IN  CASE registry /\ dsl -> Refused
        [] registry /\ ~dsl ->
             IF (call.registry \/ server.registry) /\ call.model # None
               THEN RegistryTarget(call.model) ELSE Refused
        [] OTHER -> DefaultSource(call, server, files)

(* resolve_contract_target: the registry comes before the default model    *)
(* file, and a model name alone chooses neither.                           *)
ResolveContract(call, server, files) ==
  LET dsl == call.file # None \/ call.source # None
  IN  CASE dsl /\ call.registry -> Refused
        [] ~dsl /\ (call.registry \/ server.registry) -> RegistryTarget(call.model)
        [] OTHER -> DefaultSource(call, server, files)

(* run_registry_json, registry_tool_result: a binary that is not there and *)
(* a run without output are errors with a message, and the code says       *)
(* whether the rest is one.                                                *)
RunRegistry(args, server, world) ==
  IF world.models = None THEN MessageExit(world.files)
  ELSE RegistryCli(world.models, server.config, args, world.files)

RegistryToolResult(done, success) ==
  IF done.out # None /\ done.code \in success THEN ToolSuccess(done.out, done.files)
  ELSE ToolError(done.out, done.files)

RegistryTool(command, target, call, server, world, success) ==
  RegistryToolResult(RunRegistry([call EXCEPT !.command = command, !.model = target.model],
                                 server, world),
                     success)

(* The functions behind the commands of valid, called in the process.      *)
DslTool(command, target, call, server, world) ==
  LET done == FileCommand(target.source, server.config,
                          [call EXCEPT !.command = command, !.file = target.name], world.files)
  IN  IF done.code = ExitCode.Error THEN ToolError(done.out, done.files)
      ELSE ToolSuccess(done.out, done.files)

Tool(command, call, server, world, success) ==
  LET target == Resolve(call, server, world.files)
  IN  CASE target.mode = "refused" -> ToolError(None, world.files)
        [] target.mode = "registry" -> RegistryTool(command, target, call, server, world, success)
        [] target.mode = "dsl" ->
             IF target.source.form = "broken" THEN ToolError(None, world.files)
             ELSE DslTool(command, target, call, server, world)

-------------------------------------------------------------------------------
(* What a tool hands on of its arguments, and the codes it takes for a     *)
(* success.  The handoff is neither checked nor written.                   *)
BasicArgs(call) == [call EXCEPT !.property = None, !.backend = None, !.solver = FALSE]

(* Mutant: the property is not handed on.                                  *)
BackendArgsFirst(call) == [call EXCEPT !.write = None, !.check = FALSE, !.profile = None, !.property = None]
BackendArgs(call) == [call EXCEPT !.write = None, !.check = FALSE, !.profile = None]

InspectTool(call, server, world) == Tool("inspect", BasicArgs(call), server, world, {0})
CheckTool(call, server, world) == Tool("check", BackendArgs(call), server, world, {0, 2, 4})
ExplainTool(call, server, world) == Tool("explain", BackendArgs(call), server, world, {0})
CoverageTool(call, server, world) == Tool("coverage", BackendArgs(call), server, world, {0})
HandoffTool(call, server, world) == Tool("handoff", BackendArgs(call), server, world, {0, 2})
TestgenTool(call, server, world) == Tool("testgen", BackendArgs(call), server, world, {0})
ReplayTool(call, server, world) == Tool("replay", call, server, world, {0})
LintTool(call, server, world) == Tool("lint", BasicArgs(call), server, world, {0, 2})
GraphTool(call, server, world) ==
  Tool("graph", [call EXCEPT !.backend = None, !.solver = FALSE], server, world, {0})

(* select_named_entry: the entry of the model the call names, by its id or *)
(* by the name the registry knows it under.                                *)
SelectNamed(ids, model, world) ==
  LET renamed == SelectSeq(FindModel(world.models, model), LAMBDA m : m.id \in ids)
  IN  CASE model \in ids -> <<model>> [] model \notin ids -> [i \in DOMAIN renamed |-> renamed[i].id]

ContractSnapshotTool(call, server, world) ==
  LET target == ResolveContract(call, server, world.files)
      done == RunRegistry([call EXCEPT !.command = "contract", !.sub = "snapshot"], server, world)
      named == SelectNamed({done.out[i].model_id : i \in DOMAIN done.out}, target.model, world)
  IN  CASE target.mode = "refused" -> ToolError(None, world.files)
        [] target.mode = "dsl" ->
             IF target.source.form = "broken" THEN ToolError(None, world.files)
             ELSE ToolSuccess(SnapshotModel(target.source.model), world.files)
        [] target.mode = "registry" ->
             IF done.out = None \/ (target.model # None /\ named = <<>>) THEN ToolError(None, world.files)
             ELSE ToolSuccess(IF target.model = None THEN done.out ELSE EntryOf([entries |-> done.out], named[1]),
                              world.files)

(* The report on a model file; a model the lock file lacks is a report too.*)
DslContractCheck(source, call, server, files) ==
  LET lock == ReadFile(files, call.write)
      snapshot == SnapshotModel(source.model)
  IN  IF source.form = "broken" \/ lock = NoFile THEN ToolError(None, files)
      ELSE IF lock.form = "corrupt" THEN ToolError(None, files)
      ELSE ToolSuccess([reports |-> <<DriftReport(lock, snapshot)>>,
                        advice |-> <<RerunRecommendations(server.config, snapshot.model_id)>>], files)

(* contract check through the registry: the codes 0 and 2 are successes.   *)
ContractCheckTool(call, server, world) ==
  LET target == ResolveContract(call, server, world.files)
      done == RunRegistry([call EXCEPT !.command = "contract", !.sub = "drift"], server, world)
      named == SelectNamed({done.out.reports[i].contract_id : i \in DOMAIN done.out.reports},
                           target.model, world)
  IN  CASE target.mode = "refused" -> ToolError(None, world.files)
        [] target.mode = "dsl" -> DslContractCheck(target.source, call, server, world.files)
        [] target.mode = "registry" ->
             IF done.out = None \/ done.code \notin {0, 2} THEN ToolError(done.out, world.files)
             ELSE IF target.model # None /\ named = <<>> THEN ToolError(None, world.files)
             ELSE ToolSuccess(done.out, world.files)

(* Without a registry the bundled models are listed.                       *)
ListModelsTool(call, server, world) ==
  IF call.registry \/ server.registry
    THEN RegistryToolResult(RunRegistry([call EXCEPT !.command = "list"], server, world), {0})
    ELSE ToolSuccess([models |-> <<>>, policy |-> server.config], world.files)

(* distinguish reads its two models from files or from the call; the first *)
(* stands in for a second that is not given.  A file that cannot be read,  *)
(* a text that does not compile and a property one of them lacks are       *)
(* errors.                                                                 *)
DistinguishTool(call, world) ==
  LET read(path, text) == IF path # None THEN ReadFile(world.files, path) ELSE text
      left == read(call.file, call.source)
      right == IF call.compare = None THEN left ELSE read(call.compare, None)
      compares(side) == side \notin {None, NoFile} /\ side.form = "model"
                          /\ call.property \in PropertyIds(side.model) \cup {None}
  IN  IF compares(left) /\ compares(right) THEN ToolSuccess(<<left.text, right.text>>, world.files)
      ELSE ToolError(None, world.files)

(* The documents and the examples are built in.                            *)
DocsTool(call, files) ==
  IF call.doc = "unknown" THEN ToolError(None, files) ELSE ToolSuccess(call.doc, files)

HandleToolCall(tool, call, server, world) ==
  CASE tool = "valid_inspect" -> InspectTool(call, server, world)
    [] tool = "valid_check" -> CheckTool(call, server, world)
    [] tool = "valid_explain" -> ExplainTool(call, server, world)
    [] tool = "valid_coverage" -> CoverageTool(call, server, world)
    [] tool = "valid_handoff" -> HandoffTool(call, server, world)
    [] tool = "valid_testgen" -> TestgenTool(call, server, world)
    [] tool = "valid_replay" -> ReplayTool(call, server, world)
    [] tool = "valid_lint" -> LintTool(call, server, world)
    [] tool = "valid_graph" -> GraphTool(call, server, world)
    [] tool = "valid_contract_snapshot" -> ContractSnapshotTool(call, server, world)
    [] tool = "valid_contract_check" -> ContractCheckTool(call, server, world)
    [] tool = "valid_list_models" -> ListModelsTool(call, server, world)
    [] tool = "valid_distinguish" -> DistinguishTool(call, world)
    [] tool \in {"valid_docs_get", "valid_example_get"} -> DocsTool(call, world.files)
    [] OTHER -> ToolError(None, world.files)

-------------------------------------------------------------------------------
(* valid_suite_run: the suite is chosen from valid.toml, and every pair of *)
(* it has to exist in the catalog of models and their properties.          *)
McpSuiteName(call, config) ==
  IF call.critical THEN None ELSE IF call.suite # None THEN call.suite ELSE config.defaultSuite

SelectSuiteRuns(call, config) ==
  LET name == McpSuiteName(call, config)
  IN  CASE call.critical -> config.critical
        [] ~call.critical /\ name # None /\ name \in DOMAIN config.suites -> config.suites[name]
        [] OTHER -> <<>>

SuiteChosen(call, config) ==
  /\ ~(call.critical /\ call.suite # None)
  /\ call.critical => config.critical # <<>>
  /\ ~call.critical => McpSuiteName(call, config) \in DOMAIN config.suites

(* expand_mcp_property_targets: unknown pairs refuse the call, repeated    *)
(* ones run once, where they come first.                                   *)
Expandable(runs, catalog) ==
  \A i \in DOMAIN runs : runs[i][1] \in DOMAIN catalog /\ runs[i][2] \in catalog[runs[i][1]]

ExpandTargets(runs) ==
  FlattenSeq([i \in DOMAIN runs |->
                IF \E k \in 1..(i - 1) : runs[k] = runs[i] THEN <<>> ELSE <<runs[i]>>])

(* The suite on a model file is one call in the process.                   *)
SuiteRow(model, property, version, answer) ==
  [model |-> model, property |-> property, of |-> version, answer |-> answer]

DslSuite(source, call, server, files) ==
  LET m == source.model
      runs == ExpandTargets(SelectSuiteRuns(call, server.config))
      row(run) == SuiteRow(run[1], run[2], None,
                           OutcomeJson(m.id, run[2], FileVerdict(m, Adapter(call), run[2])))
  IN  IF source.form = "broken" THEN ToolError(None, files)
      ELSE IF ~Expandable(runs, m.id :> PropertyIds(m)) THEN ToolError(None, files)
      ELSE ToolSuccess([runs |-> [i \in DOMAIN runs |-> row(runs[i])]], files)

(* Without a registry a call that names a model only is refused; naming a  *)
(* registry makes it the registry's.                                       *)
DslSuiteTool(call, server, files) ==
  LET target == Resolve(call, server, files)
  IN  IF SuiteChosen(call, server.config) /\ target.mode = "dsl"
        THEN DslSuite(target.source, call, server, files)
        ELSE ToolError(None, files)
================================================================================
