---------------------------- MODULE ProjectScaffold ----------------------------
(***************************************************************************)
(* The directory of a project, and the commands that lay it out: `valid    *)
(* init`, `init --check`, `init --repair`, `doctor`, `clean` and the       *)
(* walkthrough `onboarding`, which runs the first two and then builds.     *)
(*                                                                         *)
(* A command goes through its paths one at a time and writes a file in two *)
(* steps; it may be killed between any two.  Between commands the user     *)
(* writes and removes what he likes.                                       *)
(***************************************************************************)
EXTENDS Naturals, Sequences, SequencesExt

CONSTANTS
  Projects,  \* directories to start from
  Edits,     \* what the user may do: see EditType
  MaxKills,
  MaxEdits

Manifest == <<"Cargo.toml">>
Config == <<"valid.toml">>
Src == <<"src">>
Main == <<"src", "main.rs">>

OutputDirs == <<<<"generated-tests">>, <<"artifacts">>, <<"benchmarks", "baselines">>>>
Dirs ==
  OutputDirs \o
  <<<<".mcp">>, <<"docs", "ai">>, <<"docs", "rdd">>, <<"valid">>, <<"valid", "models">>>>

Registry == <<"valid", "registry.rs">>
Sources == <<Registry, <<"valid", "models", "mod.rs">>, <<"valid", "models", "approval.rs">>>>

Kept == [k \in DOMAIN OutputDirs |-> Append(OutputDirs[k], ".gitkeep")]

Guides ==
  <<<<".mcp", "codex.toml">>, <<".mcp", "claude-code.json">>, <<".mcp", "claude-desktop.json">>,
    <<"docs", "ai", "bootstrap.md">>, <<"docs", "rdd", "README.md">>>>

(* What each command goes through, in order.                               *)
InitSteps == Dirs \o <<Src, Manifest, Config>> \o Sources \o <<Main>> \o Kept \o Guides

(* Mutant: a guide is forgotten.                                           *)
RepairStepsShort == Dirs \o Sources \o Kept \o Tail(Guides)

RepairSteps == Dirs \o Sources \o Kept \o Guides

ExpectedPaths == Range(Sources \o Guides \o OutputDirs)

Directories == Range(Dirs) \cup {Src}
Paths == Range(InitSteps)

(* absent    nothing is there                                              *)
(* blank     an empty file, as a kill between truncating and filling leaves*)
(* whole     a directory, or a file as the template has it                 *)
(* own       what somebody wrote himself                                   *)
(* Of main.rs also hello, the program cargo writes; of valid.toml also     *)
(* other, one that names another registry, and garbled, one that does not  *)
(* parse; of Cargo.toml instead of whole: plain, no dependency on valid;   *)
(* headed, a [dependencies] line with no line under it; depends; rump, a   *)
(* dependency and no package.                                              *)
Contents ==
  {"absent", "blank", "whole", "own", "hello", "other", "garbled", "plain", "headed", "depends",
   "rump"}

(* A directory is there or not.                                            *)
ProjectType ==
  {f \in [Paths -> Contents] : \A d \in Directories : f[d] \in {"absent", "whole"}}
EditType ==
  {e \in [path : Paths, content : Contents] :
     e.path \in Directories => e.content \in {"absent", "whole"}}

ASSUME ScaffoldAssumption ==
  /\ Projects \subseteq ProjectType
  /\ Edits \subseteq EditType
  /\ MaxKills \in Nat /\ MaxEdits \in Nat

VARIABLES
  files,
  command,    \* the one that runs: none, init or repair
  at,         \* its next path, 0 before the first
  held,       \* what it is about to fill a file with, or none
  cargoInit,  \* cargo_init_ran
  answer,     \* the last answer of a command: [command, status]
  stage,      \* of onboarding, 0 outside
  onboarded,  \* how the last command ended, if it was onboarding
  before,     \* history: the directory when that command began
  kills, edits

progress == <<command, at, held, cargoInit>>
walk == <<stage, onboarded>>
bounds == <<kills, edits>>
vars == <<files, progress, answer, walk, before, bounds>>

Init ==
  /\ files \in Projects
  /\ command = "none" /\ at = 0 /\ held = "none" /\ cargoInit = FALSE
  /\ answer = [command |-> "none", status |-> "none"]
  /\ stage = 0 /\ onboarded = "none"
  /\ before = files
  /\ kills = 0 /\ edits = 0

Exists(p) == files[p] # "absent"

-------------------------------------------------------------------------------
(* init --check and doctor, which read only.                               *)

MissingPaths == {p \in ExpectedPaths \cup {Manifest, Config} : ~Exists(p)}

(* valid.toml does not parse, names no registry, or another one.           *)
Mismatched == files[Config] \in {"blank", "other", "garbled"}

CheckStatus ==
  IF Mismatched THEN "error" ELSE IF MissingPaths # {} THEN "warn" ELSE "ok"

(* mcp_project_readiness.                                                  *)
McpStatus ==
  IF CheckStatus = "error" \/ ~Exists(Config) \/ ~Exists(Registry) THEN "error"
  ELSE IF ~Exists(<<".mcp">>) THEN "warn" ELSE "ok"

(* What doctor says of the project; shell and cargo are left out.          *)
DoctorStatus ==
  LET checks == {CheckStatus, McpStatus} IN
  IF "error" \in checks THEN "error" ELSE IF "warn" \in checks THEN "warn" ELSE "ok"

Idle == command = "none" /\ stage = 0

Report(c, status) ==
  /\ Idle
  /\ answer' = [command |-> c, status |-> status]
  /\ onboarded' = "none" /\ before' = files
  /\ UNCHANGED <<files, progress, stage, bounds>>

Check == Report("check", CheckStatus)
Doctor == Report("doctor", DoctorStatus)

-------------------------------------------------------------------------------
(* init and init --repair.                                                 *)

Start(c) ==
  /\ command' = c /\ at' = 0 /\ held' = "none" /\ cargoInit' = FALSE
  /\ UNCHANGED <<files, answer, kills, edits>>

StartCommand ==
  /\ Idle
  /\ \E c \in {"init", "repair"} : Start(c)
  /\ onboarded' = "none" /\ before' = files
  /\ UNCHANGED stage

(* Within onboarding the end of a command is the end of its stage.         *)
StageEnds(ok) ==
  IF stage = 0 THEN UNCHANGED walk
  ELSE /\ stage' = IF ok /\ stage < 7 THEN stage + 1 ELSE 0
       /\ onboarded' = IF ~ok THEN "partial" ELSE IF stage = 7 THEN "ok" ELSE onboarded

Finish(status) ==
  /\ answer' = [command |-> command, status |-> status]
  /\ command' = "none" /\ at' = 0 /\ cargoInit' = FALSE
  /\ StageEnds(status = "ok")
  /\ UNCHANGED <<files, held, before, bounds>>

Starting(c) == command = c /\ at = 0

(* Mutant: cargo_init_ran stays false, as `cargo valid init` passes it.    *)
RunCargoInitUnnoticed ==
  /\ Starting("init")
  /\ ~Exists(Manifest)
  /\ files' = [files EXCEPT ![Manifest] = "plain", ![Src] = "whole",
                            ![Main] = IF Exists(Main) THEN files[Main] ELSE "hello"]
  /\ UNCHANGED <<progress, answer, walk, before, bounds>>

(* `cargo init --bin .`, where there is no Cargo.toml; it keeps a main.rs. *)
RunCargoInit ==
  /\ Starting("init")
  /\ ~Exists(Manifest)
  /\ files' = [files EXCEPT ![Manifest] = "plain", ![Src] = "whole",
                            ![Main] = IF Exists(Main) THEN files[Main] ELSE "hello"]
  /\ cargoInit' = TRUE
  /\ UNCHANGED <<command, at, held, answer, walk, before, bounds>>

CargoInitFails ==
  /\ Starting("init")
  /\ ~Exists(Manifest)
  /\ Finish("failed")

Refuse ==
  /\ \/ Starting("init") /\ Exists(Manifest) /\ Exists(Config)
     \/ Starting("repair") /\ ~(Exists(Manifest) /\ Exists(Config))
  /\ Finish("failed")

Begin ==
  /\ \/ Starting("init") /\ Exists(Manifest) /\ ~Exists(Config)
     \/ Starting("repair") /\ Exists(Manifest) /\ Exists(Config)
  /\ at' = 1
  /\ UNCHANGED <<files, command, held, cargoInit, answer, walk, before, bounds>>

Steps == IF command = "init" THEN InitSteps ELSE RepairSteps
Working == command # "none" /\ held = "none" /\ at \in DOMAIN Steps
Path == Steps[at]

(* Mutant: the pattern misses the header.                                  *)
ManifestedNever == IF files[Manifest] = "blank" THEN "rump" ELSE files[Manifest]

(* ensure_valid_dependency: where the header has no line of its own the    *)
(* manifest is written back as it was.                                     *)
Manifested ==
  CASE files[Manifest] = "plain" -> "depends"
    [] files[Manifest] = "blank" -> "rump"
    [] OTHER -> files[Manifest]

(* Mutant: any program of cargo's is replaced.                             *)
ToWriteAnyHello(p) ==
  CASE p = Manifest -> IF files[p] \in {"depends", "rump"} THEN {} ELSE {Manifested}
    [] p = Main -> IF ~Exists(p) \/ files[p] = "hello" THEN {"whole"} ELSE {}
    [] OTHER -> IF Exists(p) THEN {} ELSE {"whole"}

(* What is to be written at a path: a main.rs of cargo's is replaced only  *)
(* if cargo has written it just now.                                       *)
ToWrite(p) ==
  CASE p = Manifest -> IF files[p] \in {"depends", "rump"} THEN {} ELSE {Manifested}
    [] p = Main -> IF ~Exists(p) \/ (cargoInit /\ files[p] = "hello") THEN {"whole"} ELSE {}
    [] OTHER -> IF Exists(p) THEN {} ELSE {"whole"}

Skip ==
  /\ Working
  /\ ToWrite(Path) = {}
  /\ at' = at + 1
  /\ UNCHANGED <<files, command, held, cargoInit, answer, walk, before, bounds>>

(* A directory, or an empty file, is there at once.                        *)
Create ==
  /\ Working
  /\ Path \in Directories \cup Range(Kept) /\ ToWrite(Path) # {}
  /\ files' = [files EXCEPT ![Path] = "whole"]
  /\ at' = at + 1
  /\ UNCHANGED <<command, held, cargoInit, answer, walk, before, bounds>>

Truncate ==
  /\ Working
  /\ Path \notin Directories \cup Range(Kept)
  /\ \E content \in ToWrite(Path) : held' = content
  /\ files' = [files EXCEPT ![Path] = "blank"]
  /\ UNCHANGED <<command, at, cargoInit, answer, walk, before, bounds>>

Fill ==
  /\ command # "none" /\ held # "none"
  /\ files' = [files EXCEPT ![Path] = held]
  /\ held' = "none" /\ at' = at + 1
  /\ UNCHANGED <<command, cargoInit, answer, walk, before, bounds>>

Finished(c) == command = c /\ at = Len(Steps) + 1

FinishInit == Finished("init") /\ Finish("ok")

(* repair reports what a check still finds, an error as a warning.         *)
FinishRepair ==
  Finished("repair") /\ Finish(IF CheckStatus = "error" THEN "warn" ELSE CheckStatus)

-------------------------------------------------------------------------------
(* onboarding: bootstrap, check, cargo build, models, inspect, graph,      *)
(* handoff; the first that fails ends it.                                  *)

Onboard ==
  /\ Idle
  /\ stage' = IF Exists(Manifest) /\ Exists(Config) THEN 2 ELSE 1
  /\ onboarded' = "none" /\ before' = files
  /\ UNCHANGED <<files, progress, answer, bounds>>

Bootstrap ==
  /\ stage = 1 /\ command = "none"
  /\ Start("init")
  /\ UNCHANGED <<walk, before>>

(* Of a check anything but ok is a failure here.                           *)
CheckScaffold ==
  /\ stage = 2
  /\ StageEnds(CheckStatus = "ok")
  /\ UNCHANGED <<files, progress, answer, before, bounds>>

(* cargo build of the package, as the scaffold has it.                     *)
Builds ==
  /\ files[Manifest] \in {"plain", "headed", "depends"}
  /\ Exists(Main) /\ files[Main] # "blank"
  /\ files[Main] = "whole" =>
       files[Manifest] = "depends" /\ \A k \in DOMAIN Sources : files[Sources[k]] \in {"whole", "own"}

(* The bin of the package is built and run: with a main.rs of its own the  *)
(* package answers whatever it answers.                                    *)
ReviewStage ==
  /\ stage \in 3..7
  /\ StageEnds(Builds)
  /\ UNCHANGED <<files, progress, answer, before, bounds>>

-------------------------------------------------------------------------------
(* clean, the user, and kills.                                             *)

(* Everything in artifacts/ goes, .gitkeep too; in generated-tests/ only   *)
(* the tests, which are not among these paths.                             *)
Clean ==
  /\ Idle
  /\ files' = [p \in Paths |-> IF IsStrictPrefix(<<"artifacts">>, p) THEN "absent" ELSE files[p]]
  /\ answer' = [command |-> "clean", status |-> "ok"]
  /\ onboarded' = "none" /\ before' = files'
  /\ UNCHANGED <<progress, stage, bounds>>

Edited(e) ==
  [p \in Paths |->
     CASE e.content = "absent" /\ IsPrefix(e.path, p) -> "absent"
       [] e.content # "absent" /\ p = e.path -> e.content
       [] e.content # "absent" /\ IsStrictPrefix(p, e.path) -> "whole"
       [] OTHER -> files[p]]

Edit ==
  /\ Idle
  /\ edits < MaxEdits
  /\ \E e \in Edits : files' = Edited(e)
  /\ edits' = edits + 1
  /\ answer' = [command |-> "none", status |-> "none"]
  /\ onboarded' = "none" /\ before' = files'
  /\ UNCHANGED <<progress, stage, kills>>

(* With the command its onboarding may die, or note the failure.           *)
Kill ==
  /\ command # "none"
  /\ kills < MaxKills
  /\ kills' = kills + 1
  /\ command' = "none" /\ at' = 0 /\ held' = "none" /\ cargoInit' = FALSE
  /\ stage' = 0
  /\ onboarded' \in IF stage = 0 THEN {"none"} ELSE {"none", "partial"}
  /\ answer' = [command |-> command, status |-> "killed"]
  /\ UNCHANGED <<files, before, edits>>

Next ==
  \/ Check \/ Doctor \/ StartCommand \/ RunCargoInit \/ CargoInitFails \/ Refuse \/ Begin
  \/ Skip \/ Create \/ Truncate \/ Fill \/ FinishInit \/ FinishRepair
  \/ Onboard \/ Bootstrap \/ CheckScaffold \/ ReviewStage \/ Clean \/ Edit \/ Kill

(* A command that runs goes on, and so does an onboarding.                 *)
Work ==
  \/ RunCargoInit \/ Refuse \/ Begin \/ Skip \/ Create \/ Truncate \/ Fill \/ FinishInit
  \/ FinishRepair \/ Bootstrap \/ CheckScaffold \/ ReviewStage

Spec == Init /\ [][Next]_vars
FairSpec == Spec /\ WF_vars(Work)

-------------------------------------------------------------------------------
(* README.md: "restore the missing files without overwriting existing      *)
(* work".  What was there when a command began is there as it was, whether *)
(* it ends, fails or is killed: except that a manifest gains a dependency  *)
(* (and is lost if the kill comes between truncating and filling it), and  *)
(* that a program of cargo's is replaced where cargo had not been run yet. *)
NothingOverwritten ==
  answer.command \in {"init", "repair"} \/ command # "none" =>
    \A p \in Paths :
      \/ before[p] \in {"absent", files[p]}
      \/ p = Manifest /\ <<before[p], files[p]>> \in {<<"plain", "depends">>, <<"blank", "rump">>}
      \/ p = Manifest /\ files[p] = "blank" /\ (held # "none" \/ answer.status = "killed")
      \/ p = Main /\ before[p] = "hello" /\ before[Manifest] = "absent"

(* The two lists agree: what repair has gone through, check finds there,   *)
(* and nothing but a valid.toml that somebody has to mend is left to warn  *)
(* of; and what init has laid out, check accepts.                          *)
CheckAccepts ==
  /\ answer.command = "init" /\ answer.status = "ok" /\ Idle => CheckStatus = "ok" /\ DoctorStatus = "ok"
  /\ answer.command = "repair" /\ answer.status \in {"ok", "warn"} /\ Idle =>
       MissingPaths = {} /\ (answer.status = "ok" <=> ~Mismatched)

Undisturbed == kills = 0 /\ edits = 0

(* docs/quickstart.md: onboarding ends with a project whose models are     *)
(* served.  It is so for whoever begins in an empty directory; a main.rs   *)
(* of his own is built and run all the same, and what it prints is taken   *)
(* for an answer.                                                          *)
OnboardingServesModels ==
  onboarded = "ok" /\ Idle /\ Undisturbed /\ (\A p \in Paths : before[p] = "absent") =>
    files[Main] = "whole" /\ Builds /\ CheckStatus = "ok"

(* Both: a project somebody was led through is one the tools accept.       *)
LaidOutProjectsWork == CheckAccepts /\ OnboardingServesModels

(* An onboarding comes to an end, and in an empty directory to a good one  *)
(* unless cargo cannot be run or something dies.                           *)
OnboardingEnds ==
  /\ stage # 0 ~> stage = 0
  /\ stage # 0 /\ (\A p \in Paths : before[p] = "absent")
       ~> onboarded = "ok" \/ answer.status \in {"failed", "killed"}
===============================================================================
