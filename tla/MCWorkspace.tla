----------------------------- MODULE MCWorkspace -----------------------------
(* Small projects for TLC: two models, a model file, a few jobs and lines. *)
EXTENDS McpSession, TLC

NoArgs ==
  [option \in {"command", "model", "property", "backend", "write", "sub", "file", "compare", "source", "suite",
              "doc"} |-> None]
    @@ [option \in {"solver", "check", "registry", "critical"} |-> FALSE]
    @@ [view |-> "overview", profile |-> "full", baseline |-> "ignore", percent |-> 20, elapsed |-> 30,
        actions |-> <<>>]

Type(kind, min, max) == [kind |-> kind, min |-> min, max |-> max]
Field(name, type) == [name |-> name, type |-> type]
Property(id) == [id |-> id, kind |-> "invariant"]
Vector(id, property) == [id |-> id, property |-> property, strategy |-> "path", clustered |-> FALSE]

(* The queue holds at first, and fails after a change of a guard, which is *)
(* no part of its contract.                                                *)
Queue ==
  [name |-> "queue", id |-> "Queue", fields |-> <<Field("n", Type("int", 0, 3))>>,
   actions |-> <<"push", "pop">>, properties |-> <<Property("P_FIFO"), Property("P_LEN")>>,
   guards |-> <<"n < 3", "n > 0">>, lowers |-> TRUE,
   verdict |-> [engine \in {"explicit", "solver"} |-> "P_FIFO" :> "PASS" @@ "P_LEN" :> "PASS"],
   traced |-> {}, initial |-> {}, lint |-> {}, snippets |-> {}, explored |-> <<4, 6>>,
   vectors |-> [p \in {None, "P_FIFO", "P_LEN"} |-> <<Vector(1, "P_FIFO")>>],
   walks |-> {<<>>, <<"push">>}]
FailingQueue ==
  [Queue EXCEPT !.guards = <<"n < 4", "n > 0">>, !.traced = {"P_LEN"}, !.explored = <<5, 8>>,
                !.verdict = [engine \in {"explicit", "solver"} |->
                               "P_FIFO" :> "PASS" @@ "P_LEN" :> "FAIL"]]
WiderQueue ==
  [Queue EXCEPT !.fields = <<Field("n", Type("int", 0, 4)), Field("label", Type("string", None, 8))>>]

(* The login model has opaque steps: no solver, no contract.               *)
Login ==
  [name |-> "login", id |-> "LoginFlow", fields |-> <<Field("tries", Type("int", 0, 3))>>,
   actions |-> <<"try">>, properties |-> <<Property("P_LOCKED")>>, guards |-> <<"tries < 3">>,
   lowers |-> TRUE,
   verdict |-> [engine \in {"explicit", "solver"} |->
                  "P_LOCKED" :> IF engine = "solver" THEN "UNKNOWN" ELSE "FAIL"],
   traced |-> {"P_LOCKED"}, initial |-> {}, lint |-> {"warn"}, snippets |-> {"try"},
   explored |-> <<3, 3>>, vectors |-> [p \in {None, "P_LOCKED"} |-> <<Vector(2, "P_LOCKED")>>],
   walks |-> {<<>>, <<"try">>}]
OpaqueLogin == [Login EXCEPT !.lowers = FALSE]

AllRegistries ==
  "v1" :> <<Queue, Login>> @@ "v2" :> <<FailingQueue, Login>> @@ "v3" :> <<WiderQueue>>
    @@ "v4" :> <<Queue, OpaqueLogin>>

ModelText(m, text) == [form |-> "model", model |-> m, text |-> text]
BrokenText == [form |-> "broken"]
GatePath == <<"gate.valid">>
Gate == ModelText([Queue EXCEPT !.name = "gate", !.id = "Gate"], 1)
Recommented == [Gate EXCEPT !.text = 2]

Bare ==
  [suiteModels |-> <<>>, benchmarkModels |-> <<>>, critical |-> <<>>, suites |-> <<>>,
   defaultSuite |-> None, property |-> None, backend |-> None]
Suited ==
  [Bare EXCEPT !.critical = <<<<"login", "P_LOCKED">>, <<"queue", "P_FIFO">>>>,
               !.suites = "smoke" :> <<<<"queue", "P_FIFO">>, <<"queue", "P_LEN">>, <<"queue", "P_FIFO">>>>]

-------------------------------------------------------------------------------
Command(a) == [kind |-> "command", operations |-> <<a>>, continue |-> FALSE]
Batch(continue, operations) == [kind |-> "batch", operations |-> operations, continue |-> continue]
Suite(critical, name, a) == [kind |-> "suite", critical |-> critical, suite |-> name, args |-> a]
Benchmark(a) == [kind |-> "benchmark", critical |-> FALSE, suite |-> None, args |-> a]

On(model, command) == [NoArgs EXCEPT !.command = command, !.model = model]
OnFile(command) == [NoArgs EXCEPT !.command = command, !.file = GatePath]
Contract(sub) == [NoArgs EXCEPT !.command = "contract", !.sub = sub]
FileContractOf(sub) == [OnFile("contract") EXCEPT !.sub = sub, !.write = LockPath]
Check(model, property) == [On(model, "check") EXCEPT !.property = property]

Request(id, method, params) ==
  [object |-> TRUE, version |-> TRUE, method |-> method, id |-> id, params |-> params]
Notification(method) == Request(None, method, None)
NoObject == [object |-> FALSE, version |-> FALSE, method |-> None, id |-> None, params |-> None]
OldVersion(id) == [Request(id, "ping", None) EXCEPT !.version = FALSE]
Call(id, tool, a) == Request(id, "tools/call", [tool |-> tool, call |-> a])

Single(message) == [form |-> "single", messages |-> <<message>>]
BatchLine(messages) == [form |-> "batch", messages |-> messages]
Garbage == [form |-> "unparsable", messages |-> <<>>]
NoText == [form |-> "unreadable", messages |-> <<>>]

Hello == Single(Request(1, "initialize", None))
Ready == BatchLine(<<Request(1, "initialize", None), Notification("notifications/initialized")>>)

Nothing ==
  [crate |-> "v1", files |-> GatePath :> Gate, config |-> Bare, edits |-> 0, versions |-> {},
   saves |-> {}, script |-> <<>>, server |-> None, inbox |-> <<>>, accepts |-> 100]
Save(path, content) == [path |-> path, content |-> content]
RegistryServer == [registry |-> TRUE, file |-> None]
FileServer == [registry |-> FALSE, file |-> GatePath]

(* The dialogue: every method, before and after initialize, in batches.    *)
Dialogue ==
  [server |-> FileServer, edits |-> 1, saves |-> {Save(GatePath, BrokenText), Save(GatePath, Recommented)},
   inbox |->
     <<BatchLine(<<Request(1, "tools/list", "first"), Request(2, "ping", None), NoObject>>),
       Garbage, Ready,
       BatchLine(<<Request(3, "logging/setLevel", "debug"), OldVersion(4),
                   Request(5, "tools/list", "first"), Request(6, "prompts/list", None)>>),
       BatchLine(<<Notification("notifications/cancelled")>>),
       BatchLine(<<Request(7, "logging/setLevel", "warning"), Request(8, "logging/setLevel", "loud"),
                   Call(9, "valid_check", [NoArgs EXCEPT !.property = "P_LEN"]),
                   Call(10, "valid_distinguish", [NoArgs EXCEPT !.file = GatePath]),
                   Request(11, "resources/read", "default-model-file"),
                   Request(12, "resources/read", "unknown"), Request(13, "sampling", None)>>),
       Single(Request(14, "tools/call", None))>>]

(* A client that hangs up before, between and behind the logs and the      *)
(* responses of a batch, and one that sends what is no text.               *)
HangsUp ==
  [server |-> FileServer, accepts |-> 0,
   inbox |-> <<Ready, BatchLine(<<Request(2, "logging/setLevel", "debug"),
                                  Request(3, "tools/list", "first"), Call(4, "valid_unknown", NoArgs),
                                  Call(5, "valid_testgen", [NoArgs EXCEPT !.file = GatePath])>>),
               BatchLine(<<Notification("notifications/cancelled")>>), Single(Request(6, "ping", None))>>]
SendsNoText ==
  [server |-> FileServer,
   inbox |-> <<Ready, Single(Request(2, "ping", None)), NoText, Single(Request(3, "ping", None))>>]

(* Checks on the terminal and through the server while the crate changes.  *)
Both ==
  [server |-> RegistryServer, edits |-> 2, versions |-> {"v1", "v2", Broken}, config |-> Suited,
   script |-> <<Command(Check("queue", "P_LEN")),
                Batch(TRUE, <<Check("login", "P_LOCKED"), On("queue", "lint")>>)>>,
   inbox |-> <<Hello,
               BatchLine(<<Call(2, "valid_check", Check("queue", "P_LEN")),
                           Call(3, "valid_check", Check("login", "P_LOCKED"))>>)>>]

(* A suite through the server while the terminal builds another registry.  *)
Suites ==
  [server |-> RegistryServer, edits |-> 1, versions |-> {"v2", "v3"}, config |-> Suited,
   script |-> <<Suite(FALSE, "smoke", NoArgs), Suite(TRUE, None, NoArgs)>>,
   inbox |-> <<Ready,
               Single(Call(2, "valid_suite_run", [NoArgs EXCEPT !.suite = "smoke"])),
               Single(Call(3, "valid_suite_run", [NoArgs EXCEPT !.critical = TRUE]))>>]

(* Locks and drift checks while the contracts change; and through the      *)
(* server, while the terminal writes a lock.                               *)
Drifts ==
  [edits |-> 2, versions |-> {"v1", "v2", "v3", "v4"},
   script |-> <<Command(Contract("lock")), Command(Contract("drift")),
                Command(FileContractOf("lock")), Command(Contract("drift")),
                Command(FileContractOf("drift"))>>]
ServedDrifts ==
  [server |-> RegistryServer, edits |-> 1, versions |-> {"v1", "v2", "v3", "v4"},
   script |-> <<Command(Contract("lock")), Command(Contract("drift"))>>,
   inbox |-> <<Hello, Single(Call(2, "valid_contract_check", [NoArgs EXCEPT !.write = LockPath]))>>]

(* Documents and handoffs, written and checked while the models change.    *)
Rendered(command, path, check) == [On("queue", command) EXCEPT !.write = path, !.check = check]
Renders ==
  [edits |-> 1, versions |-> {"v1", "v2", "v3"},
   script |-> <<Batch(TRUE, <<Rendered("doc", DefaultPath, FALSE), Rendered("handoff", <<"notes">>, FALSE)>>),
                Command(Rendered("handoff", <<"notes">>, TRUE)),
                Batch(FALSE, <<Rendered("doc", None, TRUE),
                               [NoArgs EXCEPT !.command = "clean", !.sub = "artifacts"],
                               Rendered("doc", None, TRUE), On("queue", "lint")>>)>>]

(* Every command on a model file that may be broken or gone blank.         *)
FileJobs ==
  [edits |-> 1,
   saves |-> {Save(GatePath, BrokenText), Save(GatePath, Recommented), Save(GatePath, [form |-> "blank"])},
   script |-> <<Batch(TRUE, <<OnFile("check"), [OnFile("check") EXCEPT !.property = "P_NONE"],
                              OnFile("explain"), OnFile("trace"), OnFile("inspect"), OnFile("lint"),
                              [OnFile("graph") EXCEPT !.view = "failure", !.property = "P_LEN"]>>),
                Batch(TRUE, <<[OnFile("doc") EXCEPT !.write = DefaultPath],
                              [OnFile("doc") EXCEPT !.check = TRUE],
                              [OnFile("handoff") EXCEPT !.property = "P_LEN"], OnFile("testgen"),
                              [OnFile("replay") EXCEPT !.actions = <<"push">>],
                              [OnFile("orchestrate") EXCEPT !.backend = "command"], OnFile("coverage"),
                              FileContractOf("snapshot"), FileContractOf("drift")>>),
                Batch(TRUE, <<[NoArgs EXCEPT !.command = "clean", !.sub = "nowhere"],
                              [NoArgs EXCEPT !.command = "clean", !.sub = "generated"]>>)>>]

(* Every command of the registry, and its benchmark.                       *)
Baseline(mode) == [Check("queue", "P_LEN") EXCEPT !.command = "benchmark", !.baseline = mode]
RegistryJobs ==
  [edits |-> 1, versions |-> {"v1", "v2", "v4", Broken},
   config |-> [Bare EXCEPT !.benchmarkModels = <<"queue", "login">>, !.backend = "sat-varisat"],
   script |-> <<Batch(TRUE, <<On("queue", "inspect"), On("login", "explain"), On("queue", "coverage"),
                              On("login", "orchestrate"), Check("login", "P_LOCKED"), Check("queue", "P_LEN")>>),
                Batch(TRUE, <<Check("queue", "P_NONE"), [On("queue", "graph") EXCEPT !.view = "failure"],
                              On("queue", "testgen"), [On("login", "replay") EXCEPT !.actions = <<"try">>],
                              [On("login", "migrate") EXCEPT !.check = TRUE], On("nobody", "lint"),
                              [On("login", "migrate") EXCEPT !.write = DefaultPath], Baseline("record")>>),
                Benchmark([NoArgs EXCEPT !.baseline = "ignore"]), Command(Baseline("compare")),
                Suite(FALSE, "smoke", NoArgs), Suite(FALSE, None, NoArgs)>>]

(* The tools, through a registry, and the same without one.                *)
Arguments(model, property) == [NoArgs EXCEPT !.model = model, !.property = property]
Tools ==
  [server |-> RegistryServer, edits |-> 1, versions |-> {"v2", "v4"}, config |-> Suited,
   script |-> <<Command(On("queue", "lint"))>>,
   inbox |-> <<Ready,
     BatchLine(<<Call(2, "valid_inspect", Arguments("queue", None)), Call(3, "valid_lint", Arguments("login", None)),
                 Call(4, "valid_explain", Arguments("login", None)), Call(5, "valid_coverage", Arguments("queue", None)),
                 Call(6, "valid_handoff", Arguments("queue", "P_LEN")),
                 Call(7, "valid_testgen", Arguments("login", None)),
                 Call(8, "valid_replay", [Arguments("queue", None) EXCEPT !.actions = <<"push">>])>>),
     BatchLine(<<Call(9, "valid_graph", Arguments("queue", None)),
                 Call(10, "valid_contract_snapshot", Arguments("login", None)),
                 Call(11, "valid_contract_check", [Arguments("login", None) EXCEPT !.write = LockPath]),
                 Call(12, "valid_list_models", NoArgs), Call(13, "valid_docs_get", NoArgs),
                 Call(14, "valid_check", Arguments("login", "P_NONE")),
                 Call(15, "valid_check", [Arguments("login", None) EXCEPT !.file = GatePath]),
                 Call(16, "valid_unknown", NoArgs), Request(17, "resources/read", "default-registry-binary")>>)>>]
FileTools ==
  [server |-> FileServer, edits |-> 1, saves |-> {Save(GatePath, BrokenText)},
   config |-> [Suited EXCEPT !.critical = <<<<"Gate", "P_LEN">>>>],
   inbox |-> <<Ready,
     BatchLine(<<Call(2, "valid_check", [NoArgs EXCEPT !.backend = "sat-varisat"]),
                 Call(3, "valid_suite_run", [NoArgs EXCEPT !.critical = TRUE]),
                 Call(4, "valid_suite_run", [NoArgs EXCEPT !.suite = "smoke"]),
                 Call(5, "valid_contract_snapshot", NoArgs), Call(6, "valid_contract_check", NoArgs),
                 Call(7, "valid_check", [Arguments("queue", None) EXCEPT !.registry = TRUE]),
                 Call(8, "valid_suite_run", [NoArgs EXCEPT !.registry = TRUE, !.suite = "smoke"]),
                 Call(9, "valid_check", [NoArgs EXCEPT !.source = BrokenText]),
                 Call(10, "valid_list_models", NoArgs)>>)>>]

(* One check through the server of a registry whose model fails.           *)
OneFailure ==
  <<[server |-> RegistryServer, crate |-> "v2",
     inbox |-> <<Hello, Single(Call(2, "valid_check", Check("queue", "P_LEN")))>>] @@ Nothing>>

(* What a scenario does not name is as in Nothing.                         *)
AllScenarios ==
  [i \in 1..16 |->
     (CASE i = 1 -> Dialogue [] i = 2 -> Both [] i = 3 -> Suites [] i = 4 -> Drifts [] i = 5 -> ServedDrifts
        [] i = 6 -> Renders [] i = 7 -> FileJobs [] i = 8 -> RegistryJobs [] i = 9 -> Tools
        [] i = 10 -> FileTools [] i = 11 -> SendsNoText [] OTHER -> [HangsUp EXCEPT !.accepts = i - 12])
       @@ Nothing]
================================================================================
