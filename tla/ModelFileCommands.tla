--------------------------- MODULE ModelFileCommands ---------------------------
(***************************************************************************)
(* The commands of valid on a model file.  They answer as those of the     *)
(* registry binary do, but for what a file may be: missing, blank, not a   *)
(* model, or a model with the text it was written in.  A model in a file   *)
(* always lowers, and no property the file lacks makes a command panic.    *)
(***************************************************************************)
EXTENDS Commands

(* check_source: an unknown property or backend is an outcome of its own.  *)
FileVerdict(m, engine, property) ==
  LET p == PropertyOrFirst(m, property)
  IN  IF engine = "refused" \/ p \notin PropertyIds(m) THEN "ERROR" ELSE m.verdict[engine][p]

(* The verdict is printed even when it is that the file does not compile.  *)
CheckAnswer(a, property, verdict, files) ==
  Done(FromCheckOutcome(verdict), OutcomeJson(a.file, property, verdict), files)

FileCheck(m, a, files) ==
  CheckAnswer(a, PropertyOrFirst(m, a.property), FileVerdict(m, Adapter(a), a.property), files)

(* explain_source: the last step of a trace; without one there is nothing  *)
(* to explain, as of a violation in the initial state.                     *)
Explained(m, engine, property) ==
  IF FileVerdict(m, engine, property) = "ERROR" THEN {}
  ELSE {PropertyOrFirst(m, property)} \cap m.traced

FileExplain(m, a, files) ==
  LET explained == Explained(m, Adapter(a), a.property)
  IN  IF explained = {} THEN MessageExit(files)
      ELSE Done(0, PropertyOrFirst(m, a.property), files)

(* trace renders any evidence, an empty trace too.                         *)
FileTrace(m, a, files) ==
  LET p == PropertyOrFirst(m, a.property)
  IN  IF FileVerdict(m, Adapter(a), a.property) # "ERROR" /\ p \in m.traced \cup m.initial
        THEN Done(0, p, files) ELSE MessageExit(files)

FileGraph(m, a, files) ==
  IF a.view # "failure" THEN Done(0, Mermaid(m), files)
  ELSE FailureGraph(m, FileVerdict(m, Adapter(a), a.property), a.property, files)

(* The hash of the source is that of the text, a comment in it included.   *)
SourceHash(source) == <<"source", source.text>>

FileDoc(source, a, files) ==
  DocCommand(source.model, SourceHash(source), SnapshotModel(source.model).contract_hash, a, files)

(* orchestrate_source: nothing on a backend that cannot be asked.          *)
OrchestrateSource(m, engine) == IF engine = "refused" THEN <<>> ELSE Orchestrate(m, engine)

(* testgen_source: the check comes first, and its error ends it.           *)
Generates(m, engine, property) == FileVerdict(m, engine, property) # "ERROR"

(* Every selected property is explained, test generation may fail, and the *)
(* coverage of a model no run of which left a trace is that of the run of  *)
(* the selected property.                                                  *)
FileHandoff(source, a, files) ==
  LET m == source.model
      engine == Adapter(a)
      selected == IF a.property = None THEN PropertyIds(m) ELSE {a.property}
      explained == UNION {Explained(m, engine, p) : p \in selected}
  IN  IF engine = "refused" \/ (~Generates(m, engine, a.property) /\ m.traced \cup m.initial = {})
        THEN MessageExit(files)
      ELSE HandoffCommand(m, OrchestrateSource(m, engine), explained, SourceHash(source),
                          SnapshotModel(m).contract_hash, Generates(m, engine, a.property), a, files)

(* lock overwrites the lock file with the one entry of this model; drift   *)
(* names its lock file, and stops at a model the file has no entry for.    *)
FileContract(m, config, a, files) ==
  LET snapshot == SnapshotModel(m)
      path == OutputPath(a.write, LockPath)
      lock == ReadFile(files, path)
      expected == EntryOf(lock, m.id)
      drift == CompareSnapshot(expected[1], snapshot)
  IN  CASE a.sub = "snapshot" -> Done(0, snapshot, files)
        [] a.sub = "lock" ->
             Done(0, LockFile(<<snapshot>>), Written(files, path, LockFile(<<snapshot>>)))
        [] a.sub = "drift" /\ a.write # None /\ lock # NoFile ->
             IF lock.form = "corrupt" \/ expected = <<>> THEN MessageExit(files)
             ELSE Done(IF drift.status = "unchanged" THEN ExitCode.Success ELSE ExitCode.Fail,
                       [reports |-> <<drift>>, advice |-> <<RerunRecommendations(config, m.id)>>],
                       files)
        [] OTHER -> MessageExit(files)

FileTestgen(m, a, files) ==
  IF ~Generates(m, Adapter(a), a.property) THEN MessageExit(files)
  ELSE Done(0, m.vectors[a.property], WriteGeneratedTests(files, m.vectors[a.property]))

FileReplay(m, a, files) ==
  IF a.actions \in m.walks /\ a.property \in PropertyIds(m) \cup {None}
    THEN Done(0, a.actions, files) ELSE MessageExit(files)

FileOrchestrate(m, a, files) ==
  LET runs == OrchestrateSource(m, Adapter(a))
  IN  IF runs = <<>> THEN MessageExit(files) ELSE Done(0, runs, files)

FileCoverage(m, a, files) ==
  IF FileVerdict(m, Adapter(a), a.property) = "ERROR" THEN MessageExit(files)
  ELSE Done(0, <<m.id, m.actions>>, files)

FileCommand(source, config, a, files) ==
  LET m == source.model
  IN  CASE a.command = "check" -> FileCheck(m, a, files)
        [] a.command = "explain" -> FileExplain(m, a, files)
        [] a.command = "trace" -> FileTrace(m, a, files)
        [] a.command = "inspect" -> CmdInspect(m, files)
        [] a.command = "graph" -> FileGraph(m, a, files)
        [] a.command = "doc" -> FileDoc(source, a, files)
        [] a.command = "handoff" -> FileHandoff(source, a, files)
        [] a.command = "lint" -> CmdLint(m, files)
        [] a.command = "contract" -> FileContract(m, config, a, files)
        [] a.command = "testgen" -> FileTestgen(m, a, files)
        [] a.command = "replay" -> FileReplay(m, a, files)
        [] a.command = "orchestrate" -> FileOrchestrate(m, a, files)
        [] a.command = "coverage" -> FileCoverage(m, a, files)
        [] OTHER -> MessageExit(files)

(* read_source, the validation of a request, compile_model.                *)
ModelFileCli(config, a, files) ==
  LET source == ReadFile(files, a.file)
  IN  CASE source = NoFile -> MessageExit(files)
        [] source # NoFile /\ source.form = "broken" /\ a.command = "check" ->
             CheckAnswer(a, a.property, "ERROR", files)
        [] source # NoFile /\ source.form = "model" -> FileCommand(source, config, a, files)
        [] OTHER -> MessageExit(files)

(* clean: the generated tests, everything under artifacts, or both.  The   *)
(* lock file and the sources are in neither directory.                     *)
CmdClean(scope, files) ==
  LET directories == CASE scope \in {None, "all"} -> {"generated-tests", "artifacts"}
                       [] scope \in {"generated", "generated-tests"} -> {"generated-tests"}
                       [] scope = "artifacts" -> {"artifacts"}
                       [] OTHER -> {}
      kept == {p \in DOMAIN files : p[1] \notin directories}
  IN  IF directories = {} THEN MessageExit(files)
      ELSE Done(0, DOMAIN files \ kept, [p \in kept |-> files[p]])
================================================================================
