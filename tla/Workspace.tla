------------------------------- MODULE Workspace -------------------------------
(***************************************************************************)
(* A project and the developer who works on it: the crate of models, the   *)
(* registry binary cargo builds out of it, the other files, and a terminal *)
(* that runs a script of valid and cargo valid jobs.  A job is one command,*)
(* a batch of commands, or a suite; each of its child processes is a step, *)
(* and the developer saves files between any two of them.                  *)
(***************************************************************************)
EXTENDS ModelFileCommands

CONSTANTS
  Registries,  \* the models of each version of the crate that compiles
  Scenarios,   \* the projects, scripts, inputs and edits considered, a sequence
  Broken,      \* a crate that does not compile
  NoBinary     \* no registry binary has been built

(* What a job was asked to do: the arguments of its commands, all of the   *)
(* fields of CliArgs that are modelled.  A tool call has those too.        *)
Fields ==
  {"command", "model", "property", "backend", "solver", "view", "check", "write", "profile",
   "baseline", "percent", "elapsed", "actions", "sub", "file"}

IsArgs(a) == Fields \subseteq DOMAIN a /\ {a.solver, a.check} \subseteq BOOLEAN

(* The lines a client sends are a sequence of sequences of messages, and a *)
(* line that does not parse has none.  What a tool is called with, once it *)
(* is decoded, has the fields of the command it stands for.  The client    *)
(* accepts so many lines, and hangs up.                                    *)
ASSUME InboxAssumption ==
  \A i \in DOMAIN Scenarios :
    LET inbox == Scenarios[i].inbox
    IN  /\ Scenarios[i].accepts \in Nat
        /\ inbox \in Seq(ToSet(inbox))
        /\ \A k \in DOMAIN inbox :
             /\ inbox[k].messages \in Seq(ToSet(inbox[k].messages))
             /\ inbox[k].form \in {"unparsable", "unreadable"} => inbox[k].messages = <<>>
             /\ \A message \in ToSet(inbox[k].messages) :
                  message.method = "tools/call" /\ message.params # None => IsArgs(message.params.call)

(* A suite and a benchmark are of the models of a registry.                *)
IsJob(entry) ==
  IF entry.kind \in {"command", "batch"}
    THEN /\ entry.continue \in BOOLEAN
         /\ entry.operations \in Seq(ToSet(entry.operations))
         /\ \A a \in ToSet(entry.operations) : IsArgs(a)
    ELSE /\ entry.critical \in BOOLEAN
         /\ IsArgs(entry.args) /\ entry.args.file = None

(* A list of (model, property) pairs, as valid.toml has them.              *)
IsPairs(pairs) ==
  /\ pairs \in Seq(ToSet(pairs))
  /\ \A pair \in ToSet(pairs) : pair = <<pair[1], pair[2]>> /\ pair[2] # None

(* What the proofs need of the projects considered.                        *)
ASSUME ScriptAssumption ==
  /\ \A version \in DOMAIN Registries : Registries[version] \in Seq(ToSet(Registries[version]))
  /\ \A i \in DOMAIN Scenarios :
    LET s == Scenarios[i]
    IN  /\ s.edits \in Nat
        /\ {s.crate} \cup s.versions \subseteq DOMAIN Registries \cup {Broken}
        /\ s.script \in Seq(ToSet(s.script)) /\ \A entry \in ToSet(s.script) : IsJob(entry)
        /\ s.config.suiteModels \in Seq(ToSet(s.config.suiteModels))
        /\ s.config.benchmarkModels \in Seq(ToSet(s.config.benchmarkModels))
        /\ IsPairs(s.config.critical)
        /\ \A name \in DOMAIN s.config.suites : IsPairs(s.config.suites[name])

(* A file that cannot be read is no lock file.                             *)
ASSUME LockAssumption ==
  /\ \A version \in DOMAIN Registries :
       LET models == Registries[version]
       IN  NoFile # LockFile([k \in DOMAIN models |-> SnapshotModel(models[k])])
  /\ \A i \in DOMAIN Scenarios : \A p \in DOMAIN Scenarios[i].files :
       LET source == Scenarios[i].files[p]
       IN  source.form = "model" => NoFile # LockFile(<<SnapshotModel(source.model)>>)

(* A configuration: the models of a suite and of a benchmark, the critical *)
(* properties, by the name of their model as a BTreeMap has them, and the  *)
(* named suites as lists of (model, property) pairs, the default suite,    *)
(* property and backend.                                                   *)
VARIABLES
  scenario,  \* which of them Init chose
  crate,     \* the version of the models that is saved
  bin,       \* the version the registry binary was last built from
  files,     \* every other file of the project
  edits,     \* saves the developer may still make
  script,    \* jobs the terminal has not started
  job,       \* the running job: its children to run, the results of those that ran
  reports    \* the jobs that ended

project == <<scenario, crate, bin, files, edits>>
terminal == <<script, job, reports>>

(* The terminal runs nothing.                                              *)
Idle == [done |-> <<>>]

(* The project Init chose.                                                 *)
Here == Scenarios[scenario]
Config == Here.config

WInit ==
  /\ scenario \in DOMAIN Scenarios
  /\ crate = Here.crate
  /\ bin = NoBinary
  /\ files = Here.files
  /\ edits = Here.edits
  /\ script = Here.script
  /\ job = Idle
  /\ reports = <<>>

-------------------------------------------------------------------------------
(* maybe_auto_discover_external, prepare_registry_command: what valid.toml *)
(* says where the command line does not.                                   *)
WithDefaults(config, a) ==
  [a EXCEPT !.property = IF a.property = None THEN config.property ELSE a.property,
            !.backend = IF a.backend = None THEN config.backend ELSE a.backend]

(* registry_command_args: an option the command does not take is dropped.  *)
TakesProperty ==
  {"check", "benchmark", "graph", "testgen", "trace", "coverage", "replay", "all", "handoff"}
TakesBackend == {"check", "benchmark", "orchestrate", "testgen", "trace", "coverage"}

RegistryArgs(a) ==
  [a EXCEPT !.property = IF a.command \in TakesProperty THEN a.property ELSE None,
            !.backend = IF a.command \in TakesBackend THEN a.backend ELSE None,
            !.solver = a.command \in TakesBackend /\ a.solver]

(* run_registry_command: build the crate as it is saved, then run what was *)
(* built.  A crate that does not compile leaves the binary of before.      *)
Child(a, done) == [args |-> a, of |-> crate, code |-> done.code, out |-> done.out]

RegistryRun(a) == RegistryCli(Registries[crate], Config, RegistryArgs(WithDefaults(Config, a)), files)

(* to_exit_code, and the match in cmd_batch of valid: codes of old         *)
(* releases, and anything else, such as a panic's.                         *)
ToExitCode(code) ==
  CASE code \in {0, 1, 2, 3} -> code [] code = 4 -> 2 [] code \in {5, 6} -> 1 [] OTHER -> 3

ToFileExitCode(code) == IF code \in {0, 1, 2} THEN code ELSE 3

Job(entry, todo, whole) ==
  [entry |-> entry, todo |-> todo, done |-> <<>>, code |-> ExitCode.Success, whole |-> whole]

(* Suite selection: every model, the critical properties, or a named suite.*)
EffectiveSuiteName(config, critical, name) ==
  IF critical THEN None ELSE IF name # None THEN name ELSE config.defaultSuite

SelectionMode(config, entry) ==
  CASE entry.critical -> "critical"
    [] ~entry.critical /\ EffectiveSuiteName(config, FALSE, entry.suite) # None -> "named"
    [] OTHER -> "all"

(* The critical models the list of suite models leaves out are skipped.    *)
OfModel(critical, name) ==
  FlattenSeq([k \in DOMAIN critical |-> IF critical[k][1] = name THEN <<critical[k]>> ELSE <<>>])

CriticalRuns(config) ==
  IF config.suiteModels = <<>> THEN config.critical
  ELSE FlattenSeq([i \in DOMAIN config.suiteModels |-> OfModel(config.critical, config.suiteModels[i])])

(* build_suite_runs_for_external.                                          *)
SuiteRuns(config, entry, models) ==
  CASE SelectionMode(config, entry) = "critical" -> CriticalRuns(config)
    [] SelectionMode(config, entry) = "named" ->
         config.suites[EffectiveSuiteName(config, FALSE, entry.suite)]
    [] OTHER -> [i \in DOMAIN models |-> <<models[i], entry.args.property>>]

KnownSuite(config, entry) ==
  SelectionMode(config, entry) = "named" =>
    EffectiveSuiteName(config, FALSE, entry.suite) \in DOMAIN config.suites

(* The models a suite or a benchmark asks the registry for, where          *)
(* valid.toml names none.                                                  *)
NamedModels(config, entry) ==
  CASE entry.kind = "benchmark" /\ config.benchmarkModels # <<>> -> config.benchmarkModels
    [] OTHER -> config.suiteModels

FetchesModels(config, entry) ==
  /\ NamedModels(config, entry) = <<>>
  /\ entry.kind = "suite" => SelectionMode(config, entry) = "all"

ModelNames(registry) == [i \in DOMAIN registry |-> registry[i].name]

(* run_external_all, run_external_benchmark: the children.                 *)
Children(config, entry, models) ==
  IF entry.kind = "benchmark"
    THEN [i \in DOMAIN models |-> [entry.args EXCEPT !.command = "benchmark", !.model = models[i]]]
    ELSE LET runs == SuiteRuns(config, entry, models)
         IN  [i \in DOMAIN runs |-> [entry.args EXCEPT !.command = "check", !.model = runs[i][1],
                                                       !.property = runs[i][2]]]

-------------------------------------------------------------------------------
(* The developer saves a version of the crate, or another file.            *)
SaveCrate ==
  /\ edits > 0
  /\ crate' \in Here.versions \ {crate}
  /\ edits' = edits - 1
  /\ UNCHANGED <<scenario, bin, files, terminal>>

SaveFile ==
  /\ edits > 0
  /\ \E save \in Here.saves :
       /\ ReadFile(files, save.path) # save.content
       /\ files' = Written(files, save.path, save.content)
  /\ edits' = edits - 1
  /\ UNCHANGED <<scenario, crate, bin, terminal>>

(* A job begins: one command, or the operations of a batch.                *)
StartCommands ==
  /\ job = Idle /\ script # <<>>
  /\ Head(script).kind \in {"command", "batch"}
  /\ job' = Job(Head(script), Head(script).operations, TRUE)
  /\ script' = Tail(script)
  /\ UNCHANGED <<project, reports>>

Starts == job = Idle /\ script # <<>> /\ Head(script).kind \in {"suite", "benchmark"}

(* A suite valid.toml does not declare is a usage error.                   *)
RefuseSuite ==
  /\ Starts /\ ~KnownSuite(Config, Head(script))
  /\ reports' = Append(reports, [Job(Head(script), <<>>, FALSE) EXCEPT !.code = ExitCode.Error])
  /\ script' = Tail(script)
  /\ UNCHANGED <<project, job>>

StartSuite ==
  /\ Starts /\ KnownSuite(Config, Head(script)) /\ ~FetchesModels(Config, Head(script))
  /\ job' = Job(Head(script), Children(Config, Head(script), NamedModels(Config, Head(script))), TRUE)
  /\ script' = Tail(script)
  /\ UNCHANGED <<project, reports>>

(* fetch_external_models: build, list; a failure ends the whole command.   *)
FetchModels ==
  /\ Starts /\ FetchesModels(Config, Head(script))
  /\ script' = Tail(script)
  /\ IF crate = Broken
       THEN /\ reports' = Append(reports, [Job(Head(script), <<>>, FALSE) EXCEPT !.code = ExitCode.Error])
            /\ UNCHANGED <<bin, job>>
       ELSE /\ bin' = crate
            /\ job' = Job(Head(script),
                          Children(Config, Head(script), ModelNames(Registries[crate])), TRUE)
            /\ UNCHANGED reports
  /\ UNCHANGED <<scenario, crate, files, edits>>

(* Mutant: the code of the last child.                                     *)
AfterForgetting(done, code) ==
  [job EXCEPT !.done = Append(@, Child(Head(job.todo), done)), !.todo = Tail(@), !.code = code]

(* A child has run: its code counts, and a batch stops at the first that   *)
(* is not a success unless it is told to continue.                         *)
After(done, code) ==
  LET stops == job.entry.kind = "batch" /\ ~job.entry.continue /\ done.code # 0
  IN  [job EXCEPT !.done = Append(@, Child(Head(job.todo), done)),
                  !.todo = IF stops THEN <<>> ELSE Tail(@),
                  !.code = Aggregate(@, code)]

Running == job # Idle /\ job.todo # <<>>

Ran(done, code) ==
  /\ job' = After(done, code)
  /\ files' = done.files
  /\ UNCHANGED <<scenario, crate, edits, script, reports>>

(* cargo valid, and valid on the name of a model, go to the registry.      *)
RunRegistryChild ==
  /\ Running /\ Head(job.todo).file = None /\ crate # Broken
  /\ Head(job.todo).command # "clean"
  /\ bin' = crate
  /\ LET done == RegistryRun(Head(job.todo)) IN Ran(done, ToExitCode(done.code))

(* A registry that does not build ends a suite without its report; in a    *)
(* batch it ends one child.                                                *)
FailBuild ==
  /\ Running /\ Head(job.todo).file = None /\ crate = Broken
  /\ Head(job.todo).command # "clean"
  /\ IF job.entry.kind \in {"suite", "benchmark"}
       THEN /\ reports' = Append(reports, [job EXCEPT !.code = ExitCode.Error, !.whole = FALSE])
            /\ job' = Idle
       ELSE /\ job' = After(MessageExit(files), ExitCode.Error)
            /\ UNCHANGED reports
  /\ UNCHANGED <<project, script>>

RunFileChild ==
  /\ Running /\ Head(job.todo).file # None
  /\ LET done == ModelFileCli(Config, Head(job.todo), files) IN Ran(done, ToFileExitCode(done.code))
  /\ UNCHANGED bin

RunClean ==
  /\ Running /\ Head(job.todo).file = None /\ Head(job.todo).command = "clean"
  /\ LET done == CmdClean(Head(job.todo).sub, files) IN Ran(done, ToExitCode(done.code))
  /\ UNCHANGED bin

EndJob ==
  /\ job # Idle /\ job.todo = <<>>
  /\ reports' = Append(reports, job)
  /\ job' = Idle
  /\ UNCHANGED <<project, script>>

Develop == SaveCrate \/ SaveFile
WorkTerminal ==
  \/ StartCommands \/ RefuseSuite \/ StartSuite \/ FetchModels \/ RunRegistryChild
  \/ FailBuild \/ RunFileChild \/ RunClean \/ EndJob

-------------------------------------------------------------------------------
(* What a job makes of its children.                                       *)

Exits(r) == [i \in DOMAIN r.done |-> ToExitCode(r.done[i].code)]

(* The code a script sees is that of the worst child: an error if there    *)
(* was one, else a failure, else an unknown.  A job that stopped early     *)
(* stopped at its first child that was no success, and only a batch may.   *)
WorstChildDecides ==
  \A j \in DOMAIN reports :
    LET r == reports[j]
        codes == ToSet(Exits(r))
        intended == IF r.entry.kind \in {"command", "batch"} THEN r.entry.operations ELSE <<>>
    IN  r.whole =>
          /\ r.code = (IF 3 \in codes THEN 3 ELSE IF 1 \in codes THEN 1 ELSE IF 2 \in codes THEN 2 ELSE 0)
          /\ intended # <<>> =>
               /\ \A i \in DOMAIN r.done : r.done[i].args = intended[i]
               /\ Len(r.done) < Len(intended) =>
                    /\ r.entry.kind = "batch" /\ ~r.entry.continue
                    /\ \A i \in DOMAIN r.done : (i = Len(r.done)) = (Exits(r)[i] # 0)

(* The pairs a suite promises to check.  A critical property of a model    *)
(* that suite_models leaves out is none of them.                           *)
Promised(entry) ==
  LET name == EffectiveSuiteName(Config, entry.critical, entry.suite)
  IN  IF entry.critical
        THEN {t \in ToSet(Config.critical) : \/ Config.suiteModels = <<>>
                                             \/ Contains(Config.suiteModels, t[1])}
        ELSE IF name # None THEN ToSet(Config.suites[name]) ELSE {}

(* A suite that exits with 0 has seen every pair it promises pass, each in *)
(* the version of the crate that was saved when its child ran: a build     *)
(* that fails, a model that is gone, a child cut short is never a pass.    *)
SuiteMeansPass ==
  \A j \in DOMAIN reports :
    LET r == reports[j]
    IN  r.entry.kind = "suite" /\ r.code = 0 =>
          \A pair \in Promised(r.entry) : \E i \in DOMAIN r.done :
            LET m == FindModel(Registries[r.done[i].of], pair[1])
                a == WithDefaults(Config, r.done[i].args)
            IN  /\ r.done[i].args.model = pair[1] /\ m # <<>>
                /\ m[1].verdict[Adapter(a)][pair[2]] = "PASS"

(* The children that ran, oldest first.                                    *)
History ==
  FlattenSeq([j \in DOMAIN reports |-> reports[j].done]) \o (IF job = Idle THEN <<>> ELSE job.done)

(* What a command may do to path p: generated tests, the file it was told  *)
(* to write, what clean was told to remove.                                *)
MayChange(a, p) ==
  LET named == IF a.write = DefaultPath THEN p[1] = "artifacts" ELSE p = a.write
  IN  \/ a.command \in {"testgen", "handoff"} /\ p[1] = "generated-tests"
      \/ a.command \in {"doc", "handoff"} /\ a.write # None /\ ~a.check /\ named
      \/ a.command = "migrate" /\ a.write # None /\ named
      \/ a.command = "benchmark" /\ a.baseline = "record" /\ p[1] = "artifacts"
      \/ a.command = "contract" /\ a.sub = "lock" /\ p = OutputPath(a.write, LockPath)
      \/ /\ a.command = "clean" /\ a.sub \in {None, "all", "generated", "generated-tests"}
         /\ p[1] = "generated-tests"
      \/ a.command = "clean" /\ a.sub \in {None, "all", "artifacts"} /\ p[1] = "artifacts"

(* The same promise: what the lock file distinguishes.                     *)
SameContract(m, n) ==
  /\ m.id = n.id /\ m.actions = n.actions /\ m.properties = n.properties
  /\ DOMAIN m.fields = DOMAIN n.fields
  /\ \A i \in DOMAIN m.fields :
       /\ m.fields[i].name = n.fields[i].name
       /\ FieldTypeLabel(m.fields[i].type) = FieldTypeLabel(n.fields[i].type)

Locks(child, path) ==
  /\ child.args.command = "contract" /\ child.args.sub = "lock" /\ child.code = 0
  /\ OutputPath(child.args.write, LockPath) = path

(* A path that is nobody's to save and no generated test's, that of the    *)
(* first k children none may change, or none but one that locks.           *)
Aside(path) == path[1] # "generated-tests" /\ \A save \in Here.saves : save.path # path

Untouched(path, k) == Aside(path) /\ \A i \in 1..k : ~MayChange(History[i].args, path)

OnlyLocked(path, k) ==
  /\ Aside(path)
  /\ \A i \in 1..k : MayChange(History[i].args, path) =>
                        History[i].args.command = "contract" /\ History[i].args.sub = "lock"

(* A drift check of the registry exits with 0 exactly if the last lock to  *)
(* its path was written from models that promise what those of now do.     *)
(* Builds, failed locks and other commands in between make no difference;  *)
(* a lock of one model file replaces the whole lock file.  (Where nobody   *)
(* edits, removes or overwrites the lock file or the model file it was     *)
(* made from, and no two models that were locked share an id.)             *)
DriftIsHonest ==
  \A j \in DOMAIN History :
    LET d == History[j]
        path == OutputPath(d.args.write, LockPath)
        locks == {i \in 1..(j - 1) : Locks(History[i], path)}
        lock == History[CHOOSE i \in locks : \A k \in locks : k <= i]
        kept == IF lock.args.file = None THEN ToSet(Registries[lock.of])
                ELSE {ReadFile(Here.files, lock.args.file).model}
    IN  /\ d.args.command = "contract" /\ d.args.sub = "drift" /\ d.args.file = None
        /\ locks # {} /\ OnlyLocked(path, j - 1)
        /\ lock.args.file # None => Untouched(lock.args.file, j - 1)
        /\ \A m, n \in kept : m.id = n.id => SameContract(m, n)
        => (d.code = 0) = (/\ d.of # Broken
                           /\ \A m \in ToSet(Registries[d.of]) :
                                m.lowers /\ \E n \in kept : SameContract(n, m))

(* What the checks of the terminal said: the version that was saved, what  *)
(* was asked, with valid.toml's defaults, and the answer.                  *)
Saying(of, a, answer) ==
  [of |-> of, model |-> a.model, engine |-> Adapter(a), answer |-> answer,
   asked |-> PropertyOrFirst(FindModel(Registries[of], a.model)[1], a.property)]

TerminalSays ==
  LET checks == {History[i] : i \in DOMAIN History}
  IN  {Saying(c.of, WithDefaults(Config, c.args), c.out) :
         c \in {c \in checks : c.args.command = "check" /\ c.args.file = None /\ c.out # None}}
================================================================================
