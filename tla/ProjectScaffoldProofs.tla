------------------------- MODULE ProjectScaffoldProofs -------------------------
(***************************************************************************)
(* init, init --repair and onboarding overwrite nothing (WorkIsKept), from *)
(* any directory, with any edits and any number of kills.                  *)
(* What they lay out works (LayoutWorks): a second invariant, LayoutInv,   *)
(* follows the list of paths a command has gone through.                   *)
(***************************************************************************)
EXTENDS ProjectScaffold, TLAPS

Manifests == {<<"plain", "depends">>, <<"blank", "rump">>}

(* While a command runs, path p is as it was, or being filled.             *)
PathKept(p) ==
  \/ before[p] \in {"absent", files[p]}
  \/ p = Manifest /\ <<before[p], files[p]>> \in Manifests
  \/ p = Manifest /\ files[p] = "blank" /\ held # "none"
  \/ p = Main /\ before[p] = "hello" /\ before[Manifest] = "absent"

(* What a file is about to be filled with is what may be there then.       *)
HeldKept ==
  held # "none" =>
    /\ command # "none" /\ at \in DOMAIN Steps
    /\ Path # Src
    /\ \/ before[Path] \in {"absent", held} \/ Path \notin Paths
       \/ Path = Manifest /\ <<before[Path], held>> \in Manifests
       \/ Path = Main /\ before[Path] = "hello" /\ before[Manifest] = "absent"
    /\ files[Manifest] = "blank" => Path = Manifest \/ before[Manifest] \in {"absent", "blank"}

Types ==
  /\ files \in [Paths -> Contents] /\ before \in [Paths -> Contents]
  /\ files[Src] \in {"absent", "whole"} /\ before[Src] \in {"absent", "whole"}
  /\ command \in {"none", "init", "repair"} /\ stage \in 0..7
  /\ held \in Contents \cup {"none"} /\ at \in Nat

(* Nothing happens to the files before a command begins, nor between the   *)
(* start of an onboarding and that of its first command; cargo init is run *)
(* only where there was no manifest.                                       *)
Beginnings ==
  /\ command # "none" /\ at = 0 => held = "none" /\ (cargoInit \/ files = before)
  /\ command = "none" /\ stage = 1 => files = before
  /\ cargoInit => command # "none" /\ before[Manifest] = "absent"

ScaffoldInv ==
  /\ Types /\ Beginnings /\ HeldKept
  /\ command # "none" => \A p \in Paths : PathKept(p)
  /\ NothingOverwritten

-------------------------------------------------------------------------------
(* The paths.                                                              *)
IsSequence(s) == \E S : s \in Seq(S)

(* What is listed one after the other is a list, of all that is in either. *)
LEMMA RangeOfConcat ==
  ASSUME NEW s, NEW t, IsSequence(s), IsSequence(t)
  PROVE  IsSequence(s \o t) /\ Range(s \o t) = Range(s) \cup Range(t)
<1>1. PICK S : s \in Seq(S)
  BY DEF IsSequence
<1>2. PICK T : t \in Seq(T)
  BY DEF IsSequence
<1> DEFINE U == S \cup T
<1>3. s \in Seq(U) /\ t \in Seq(U)
  BY <1>1, <1>2
<1> HIDE DEF U
<1>4. /\ s \o t \in Seq(U) /\ Len(s) \in Nat /\ Len(t) \in Nat
      /\ DOMAIN s = 1..Len(s) /\ DOMAIN t = 1..Len(t) /\ DOMAIN (s \o t) = 1..(Len(s) + Len(t))
      /\ \A i \in 1..Len(s) : (s \o t)[i] = s[i]
      /\ \A i \in 1..Len(t) : (s \o t)[Len(s) + i] = t[i]
  BY <1>3
<1>5. \A i \in DOMAIN (s \o t) :
        i \in DOMAIN s \/ (i - Len(s) \in DOMAIN t /\ (s \o t)[i] = t[i - Len(s)])
  BY <1>4
<1>6. \A i \in DOMAIN t : Len(s) + i \in DOMAIN (s \o t)
  BY <1>4
<1>7. \A i \in DOMAIN s : i \in DOMAIN (s \o t)
  BY <1>4
<1>8. \A x \in Range(s \o t) : x \in Range(s) \cup Range(t)
  BY <1>4, <1>5 DEF Range
<1>9. \A x \in Range(s) \cup Range(t) : x \in Range(s \o t)
  BY <1>4, <1>6, <1>7 DEF Range
<1> QED BY <1>4, <1>8, <1>9 DEF IsSequence

(* The template's lists are sequences.                                     *)
LEMMA ShortLists ==
  /\ IsSequence(OutputDirs) /\ DOMAIN OutputDirs = 1..3
  /\ Range(OutputDirs) =
       {<<"generated-tests">>, <<"artifacts">>, <<"benchmarks", "baselines">>}
  /\ IsSequence(Sources) /\ IsSequence(Guides) /\ IsSequence(Kept)
<1>1. /\ OutputDirs \in Seq({<<"generated-tests">>, <<"artifacts">>, <<"benchmarks", "baselines">>})
      /\ DOMAIN OutputDirs = 1..3
      /\ Range(OutputDirs) = {<<"generated-tests">>, <<"artifacts">>, <<"benchmarks", "baselines">>}
  BY DEF OutputDirs, Range
<1>2. Sources \in Seq({Registry, <<"valid", "models", "mod.rs">>, <<"valid", "models", "approval.rs">>})
  BY DEF Sources
<1>3. Guides \in
        Seq({<<".mcp", "codex.toml">>, <<".mcp", "claude-code.json">>,
             <<".mcp", "claude-desktop.json">>, <<"docs", "ai", "bootstrap.md">>,
             <<"docs", "rdd", "README.md">>})
  BY DEF Guides
<1>4. Kept \in Seq(Range(Kept))
  BY <1>1 DEF Kept, Range
<1> QED BY <1>1, <1>2, <1>3, <1>4 DEF IsSequence

(* What is a directory, and what the lists name, is a path.                *)
LEMMA PathLists ==
  /\ IsSequence(InitSteps) /\ IsSequence(RepairSteps)
  /\ Range(Dirs) = Range(OutputDirs) \cup
       {<<".mcp">>, <<"docs", "ai">>, <<"docs", "rdd">>, <<"valid">>, <<"valid", "models">>}
  /\ {Src, Manifest, Main} \subseteq Range(InitSteps)
<1> DEFINE more == <<<<".mcp">>, <<"docs", "ai">>, <<"docs", "rdd">>, <<"valid">>, <<"valid", "models">>>>
           own == <<Src, Manifest, Config>>
<1>1. /\ more \in Seq({<<".mcp">>, <<"docs", "ai">>, <<"docs", "rdd">>, <<"valid">>, <<"valid", "models">>})
      /\ Range(more) = {<<".mcp">>, <<"docs", "ai">>, <<"docs", "rdd">>, <<"valid">>, <<"valid", "models">>}
  BY DEF Range
<1>2. own \in Seq({Src, Manifest, Config}) /\ Range(own) = {Src, Manifest, Config}
  BY DEF Range
<1>3. <<Main>> \in Seq({Main}) /\ Range(<<Main>>) = {Main}
  BY DEF Range
<1>4. Dirs = OutputDirs \o more /\ InitSteps = Dirs \o own \o Sources \o <<Main>> \o Kept \o Guides
  BY DEF Dirs, InitSteps
<1>5. IsSequence(more) /\ IsSequence(own) /\ IsSequence(<<Main>>)
  BY <1>1, <1>2, <1>3 DEF IsSequence
<1> HIDE DEF more, own
<1>6. IsSequence(Dirs) /\ Range(Dirs) = Range(OutputDirs) \cup Range(more)
  BY <1>4, <1>5, ShortLists, RangeOfConcat
<1>7. IsSequence(Dirs \o own) /\ {Src, Manifest} \subseteq Range(Dirs \o own)
  BY <1>2, <1>5, <1>6, RangeOfConcat
<1>8. IsSequence(Dirs \o own \o Sources) /\ {Src, Manifest} \subseteq Range(Dirs \o own \o Sources)
  BY <1>7, ShortLists, RangeOfConcat
<1>9. /\ IsSequence(Dirs \o own \o Sources \o <<Main>>)
      /\ {Src, Manifest, Main} \subseteq Range(Dirs \o own \o Sources \o <<Main>>)
  BY <1>3, <1>5, <1>8, RangeOfConcat
<1>10. /\ IsSequence(Dirs \o own \o Sources \o <<Main>> \o Kept)
       /\ {Src, Manifest, Main} \subseteq Range(Dirs \o own \o Sources \o <<Main>> \o Kept)
  BY <1>9, ShortLists, RangeOfConcat
<1>11. IsSequence(InitSteps) /\ {Src, Manifest, Main} \subseteq Range(InitSteps)
  BY <1>4, <1>10, ShortLists, RangeOfConcat
<1>12. IsSequence(Dirs \o Sources)
  BY <1>6, ShortLists, RangeOfConcat
<1>13. IsSequence(Dirs \o Sources \o Kept)
  BY <1>12, ShortLists, RangeOfConcat
<1>14. IsSequence(RepairSteps)
  BY <1>13, ShortLists, RangeOfConcat DEF RepairSteps
<1> QED BY <1>1, <1>6, <1>11, <1>14

(* The manifest and main.rs are files, and no two of the three are one.    *)
LEMMA FileFacts ==
  /\ Src \in Paths /\ Manifest \in Paths /\ Main \in Paths
  /\ Manifest # Main /\ Manifest # Src /\ Main # Src /\ Src \in Directories
  /\ Manifest \notin Directories \cup Range(Kept) /\ Main \notin Directories \cup Range(Kept)
  /\ 0 \notin DOMAIN InitSteps /\ 0 \notin DOMAIN RepairSteps
  /\ Len(InitSteps) + 1 \notin DOMAIN InitSteps /\ Len(RepairSteps) + 1 \notin DOMAIN RepairSteps
<1>1. Src \in Paths /\ Manifest \in Paths /\ Main \in Paths /\ Src \in Directories
  BY PathLists DEF Paths, Directories
<1>2. Manifest # Main /\ Manifest # Src /\ Main # Src
  BY DEF Manifest, Main, Src
<1>3. Manifest \notin Directories /\ Main \notin Directories
  <2>1. Directories =
          {<<"generated-tests">>, <<"artifacts">>, <<"benchmarks", "baselines">>, <<".mcp">>,
           <<"docs", "ai">>, <<"docs", "rdd">>, <<"valid">>, <<"valid", "models">>, Src}
    BY ShortLists, PathLists DEF Directories
  <2> QED BY <2>1 DEF Manifest, Main, Src
<1>4. Manifest \notin Range(Kept) /\ Main \notin Range(Kept)
  <2> SUFFICES ASSUME NEW k \in DOMAIN OutputDirs
               PROVE  Append(OutputDirs[k], ".gitkeep") \notin {Manifest, Main}
    BY DEF Kept, Range
  <2>1. CASE k = 1
    <3>1. OutputDirs[k] = <<"generated-tests">>
      BY <2>1 DEF OutputDirs
    <3>2. Append(<<"generated-tests">>, ".gitkeep")[1] = "generated-tests"
      OBVIOUS
    <3>3. Manifest[1] # "generated-tests" /\ Main[1] # "generated-tests"
      BY DEF Manifest, Main
    <3> QED BY <3>1, <3>2, <3>3
  <2>2. CASE k = 2
    <3>1. OutputDirs[k] = <<"artifacts">>
      BY <2>2 DEF OutputDirs
    <3>2. Append(<<"artifacts">>, ".gitkeep")[1] = "artifacts"
      OBVIOUS
    <3>3. Manifest[1] # "artifacts" /\ Main[1] # "artifacts"
      BY DEF Manifest, Main
    <3> QED BY <3>1, <3>2, <3>3
  <2>3. CASE k = 3
    BY <2>3 DEF OutputDirs, Manifest, Main
  <2> QED BY <2>1, <2>2, <2>3, ShortLists
<1>5. \A s : IsSequence(s) => 0 \notin DOMAIN s /\ Len(s) + 1 \notin DOMAIN s
  BY DEF IsSequence
<1> QED BY <1>1, <1>2, <1>3, <1>4, <1>5, PathLists

-------------------------------------------------------------------------------
(* Nothing runs at the start.                                              *)
LEMMA InitScaffold == ASSUME ScaffoldAssumption PROVE Init => ScaffoldInv
<1> SUFFICES ASSUME ScaffoldAssumption, Init PROVE ScaffoldInv
  OBVIOUS
<1>1. Types
  BY FileFacts DEF ScaffoldAssumption, Init, Types, ProjectType, Contents
<1> QED BY <1>1 DEF Init, ScaffoldInv, Beginnings, HeldKept, NothingOverwritten

(* When a command ends, and nothing is about to be filled.                 *)
LEMMA EndKeeps ==
  ASSUME ScaffoldInv, command # "none", command' = "none", held = "none", held' = "none",
         UNCHANGED <<files, before>>, cargoInit' = FALSE, stage' \in 0..7, stage' # 1, at' = 0
  PROVE  ScaffoldInv'
<1>1. Types' /\ Beginnings' /\ HeldKept'
  BY DEF ScaffoldInv, Types, Beginnings, HeldKept
<1>2. NothingOverwritten'
  BY DEF ScaffoldInv, PathKept, Manifests, NothingOverwritten
<1> QED BY <1>1, <1>2 DEF ScaffoldInv

(* Between commands: the directory as it is is the new beginning.          *)
LEMMA NewBeginning ==
  ASSUME ScaffoldInv, command' = "none", held' = "none", cargoInit' = FALSE,
         before' = files', files' \in [Paths -> Contents], files'[Src] \in {"absent", "whole"},
         at' \in Nat, stage' \in 0..7
  PROVE  ScaffoldInv'
BY DEF ScaffoldInv, Types, Beginnings, HeldKept, NothingOverwritten

-------------------------------------------------------------------------------
(* The steps.                                                              *)

(* The user, and the commands that only read, touch no command's progress. *)
LEMMA StepsBetween ==
  ASSUME ScaffoldAssumption, ScaffoldInv,
         Check \/ Doctor \/ Onboard \/ Clean \/ Edit
  PROVE  ScaffoldInv'
<1>1. /\ command = "none" /\ held = "none" /\ cargoInit = FALSE /\ stage = 0
      /\ files \in [Paths -> Contents] /\ files[Src] \in {"absent", "whole"} /\ at \in Nat
      /\ cargoInit' = FALSE /\ command' = "none" /\ held' = "none" /\ at' \in Nat
      /\ stage' \in 0..7
  BY DEF Check, Doctor, Report, Onboard, Clean, Edit, Idle, ScaffoldInv, Types, HeldKept,
         Beginnings, progress
<1>2. CASE Check \/ Doctor \/ Onboard
  <2>1. before' = files' /\ files' = files
    BY <1>2 DEF Check, Doctor, Report, Onboard
  <2>2. files' \in [Paths -> Contents] /\ files'[Src] \in {"absent", "whole"}
    BY <1>1, <2>1
  <2> QED BY <1>1, <2>1, <2>2, NewBeginning
<1>3. CASE Clean
  <2>1. files' \in [Paths -> Contents] /\ files'[Src] \in {"absent", "whole"}
    BY <1>1, <1>3, FileFacts DEF Clean, Contents
  <2> QED BY <1>1, <1>3, <2>1, NewBeginning DEF Clean
<1>4. CASE Edit
  <2>1. PICK e \in Edits : files' = Edited(e)
    BY <1>4 DEF Edit
  <2>2. /\ e \in [path : Paths, content : Contents]
        /\ e.path \in Directories => e.content \in {"absent", "whole"}
    BY <2>1 DEF ScaffoldAssumption, EditType
  <2>3. \A p \in Paths : files'[p] \in {"absent", "whole", e.content, files[p]}
    BY <2>1 DEF Edited
  <2>4. files'[Src] \in {"absent", "whole"}
    <3>1. CASE e.path = Src
      BY <1>1, <2>2, <2>3, <3>1, FileFacts
    <3>2. CASE e.path # Src
      BY <1>1, <2>1, <3>2, FileFacts DEF Edited
    <3> QED BY <3>1, <3>2
  <2>5. files' \in [Paths -> Contents]
    BY <1>1, <2>1, <2>2, <2>3 DEF Edited, Contents
  <2> QED BY <1>1, <1>4, <2>4, <2>5, NewBeginning DEF Edit
<1> QED BY <1>2, <1>3, <1>4

(* What starts a command notes the files it finds.                         *)
LEMMA StepsOfStages ==
  ASSUME ScaffoldInv, StartCommand \/ Bootstrap \/ CheckScaffold \/ ReviewStage
  PROVE  ScaffoldInv'
<1>1. CASE StartCommand \/ Bootstrap
  <2>1. /\ command' \in {"init", "repair"} /\ at' = 0 /\ held' = "none" /\ cargoInit' = FALSE
        /\ files' = files /\ before' = files /\ stage' = stage
    BY <1>1 DEF StartCommand, Bootstrap, Start, Idle, walk, ScaffoldInv, Beginnings
  <2>2. Types' /\ Beginnings' /\ HeldKept' /\ \A p \in Paths : PathKept(p)'
    BY <2>1 DEF ScaffoldInv, Types, Beginnings, HeldKept, PathKept
  <2>3. NothingOverwritten'
    BY <2>1 DEF NothingOverwritten
  <2> QED BY <2>2, <2>3 DEF ScaffoldInv
<1>2. CASE CheckScaffold \/ ReviewStage
  <2>1. /\ UNCHANGED <<files, before, command, at, held, cargoInit, answer>>
        /\ stage' \in 0..7 /\ stage' # 1
    BY <1>2 DEF CheckScaffold, ReviewStage, StageEnds, progress, walk
  <2>2. Types' /\ Beginnings'
    BY <2>1 DEF ScaffoldInv, Types, Beginnings
  <2>3. HeldKept' /\ NothingOverwritten' /\ \A p \in Paths : PathKept(p)' = PathKept(p)
    BY <2>1 DEF ScaffoldInv, HeldKept, NothingOverwritten, PathKept, Steps, Path
  <2> QED BY <2>1, <2>2, <2>3 DEF ScaffoldInv
<1> QED BY <1>1, <1>2

(* A command ends without another write.                                   *)
LEMMA StepsThatEnd ==
  ASSUME ScaffoldInv, CargoInitFails \/ Refuse \/ FinishInit \/ FinishRepair \/ Kill
  PROVE  ScaffoldInv'
<1>1. CASE CargoInitFails \/ Refuse \/ FinishInit \/ FinishRepair
  <2>1. PICK status : Finish(status)
    BY <1>1 DEF CargoInitFails, Refuse, FinishInit, FinishRepair
  <2>2. command # "none" /\ (at = 0 \/ at \notin DOMAIN Steps)
    BY <1>1, FileFacts DEF CargoInitFails, Refuse, FinishInit, FinishRepair, Starting, Finished, Steps
  <2>3. held = "none"
    BY <2>2 DEF ScaffoldInv, Beginnings, HeldKept
  <2>4. stage' \in 0..7 /\ stage' # 1
    BY <2>1 DEF Finish, StageEnds, walk, ScaffoldInv, Types
  <2> QED BY <2>1, <2>2, <2>3, <2>4, EndKeeps DEF Finish
<1>2. CASE Kill
  <2>1. Types' /\ Beginnings' /\ HeldKept'
    BY <1>2 DEF Kill, ScaffoldInv, Types, Beginnings, HeldKept
  <2>2. NothingOverwritten'
    BY <1>2 DEF Kill, ScaffoldInv, PathKept, Manifests, NothingOverwritten
  <2> QED BY <1>2, <2>1, <2>2 DEF ScaffoldInv, Kill
<1> QED BY <1>1, <1>2

(* A file that is put at a path is one of its contents.                    *)
LEMMA PutIsTyped ==
  ASSUME NEW p, NEW c, c \in Contents, Types, files' = [files EXCEPT ![p] = c], p = Src => c = "whole"
  PROVE  files' \in [Paths -> Contents] /\ files'[Src] \in {"absent", "whole"}
<1>1. files \in [Paths -> Contents] /\ files[Src] \in {"absent", "whole"}
  BY DEF Types
<1>2. files' \in [Paths -> Contents]
  BY <1>1
<1>3. files'[Src] \in {"absent", "whole"}
  BY <1>1, FileFacts
<1> QED BY <1>2, <1>3

(* cargo init runs where there was no manifest when the command began.     *)
LEMMA StepCargoInit == ASSUME ScaffoldInv, RunCargoInit PROVE ScaffoldInv'
<1>1. /\ command = "init" /\ at = 0 /\ held = "none" /\ files[Manifest] = "absent"
      /\ before[Manifest] = "absent" /\ cargoInit' = TRUE
      /\ files' = [files EXCEPT ![Manifest] = "plain", ![Src] = "whole",
                                ![Main] = IF files[Main] # "absent" THEN files[Main] ELSE "hello"]
      /\ UNCHANGED <<command, at, held, before, stage>>
  BY DEF RunCargoInit, Starting, Exists, ScaffoldInv, Beginnings, walk
<1>2. Types' /\ Beginnings' /\ HeldKept'
  <2>1. Types'
    BY <1>1, FileFacts DEF ScaffoldInv, Types, Contents
  <2> QED BY <1>1, <2>1 DEF ScaffoldInv, Beginnings, HeldKept
<1>3. ASSUME NEW p \in Paths PROVE PathKept(p)'
  <2>1. PathKept(p)
    BY <1>1 DEF ScaffoldInv
  <2>2. CASE p = Manifest
    BY <1>1, <2>2 DEF PathKept
  <2>3. CASE p = Src
    <3>1. files'[p] = "whole" /\ before'[p] \in {"absent", "whole"}
      BY <1>1, <2>3, FileFacts DEF ScaffoldInv, Types
    <3> QED BY <3>1 DEF PathKept
  <2>4. CASE p = Main
    BY <1>1, <2>1, <2>4, FileFacts DEF PathKept, Manifests, ScaffoldInv, Types
  <2>5. CASE p \notin {Manifest, Src, Main}
    BY <1>1, <2>1, <2>5 DEF PathKept, ScaffoldInv, Types
  <2> QED BY <2>2, <2>3, <2>4, <2>5
<1>4. command' # "none"
  BY <1>1
<1>5. NothingOverwritten'
  BY <1>3, <1>4 DEF NothingOverwritten, PathKept, Manifests
<1> QED BY <1>2, <1>3, <1>5 DEF ScaffoldInv

(* The first path and the step past one write nothing.                     *)
LEMMA StepsInPlace == ASSUME ScaffoldInv, Begin \/ Skip PROVE ScaffoldInv'
<1>1. /\ command # "none" /\ held = "none" /\ at' \in Nat /\ at' # 0
      /\ UNCHANGED <<files, command, held, cargoInit, stage, before, answer>>
  BY DEF Begin, Skip, Starting, Working, ScaffoldInv, Types, Beginnings, walk
<1>2. Types' /\ Beginnings' /\ HeldKept'
  BY <1>1 DEF ScaffoldInv, Types, Beginnings, HeldKept
<1>3. NothingOverwritten' /\ \A p \in Paths : PathKept(p)'
  BY <1>1 DEF ScaffoldInv, NothingOverwritten, PathKept
<1> QED BY <1>2, <1>3 DEF ScaffoldInv

(* What is made at once is made where there was nothing.                   *)
LEMMA StepCreate == ASSUME ScaffoldInv, Create PROVE ScaffoldInv'
<1>1. /\ command # "none" /\ held = "none" /\ at \in DOMAIN Steps
      /\ Path # Manifest /\ Path # Main /\ files[Path] = "absent"
      /\ files' = [files EXCEPT ![Path] = "whole"]
      /\ at' = at + 1
      /\ UNCHANGED <<command, held, cargoInit, stage, before>>
  BY FileFacts DEF Create, Working, ToWrite, Exists, walk
<1>2. Types'
  <2>1. "whole" \in Contents
    BY DEF Contents
  <2>2. files' \in [Paths -> Contents] /\ files'[Src] \in {"absent", "whole"}
    BY <1>1, <2>1, PutIsTyped DEF ScaffoldInv
  <2> QED BY <1>1, <2>2 DEF ScaffoldInv, Types
<1>3. Beginnings' /\ HeldKept'
  BY <1>1 DEF ScaffoldInv, Types, Beginnings, HeldKept
<1>4. ASSUME NEW p \in Paths PROVE PathKept(p)'
  <2>1. PathKept(p)
    BY <1>1 DEF ScaffoldInv
  <2>2. CASE p = Path
    BY <1>1, <2>1, <2>2 DEF PathKept
  <2>3. CASE p # Path
    BY <1>1, <2>1, <2>3 DEF PathKept, ScaffoldInv, Types
  <2> QED BY <2>2, <2>3
<1>5. NothingOverwritten'
  BY <1>1, <1>4 DEF NothingOverwritten, PathKept, Manifests
<1> QED BY <1>2, <1>3, <1>4, <1>5 DEF ScaffoldInv

(* A file is emptied only to get what may be there.                        *)
LEMMA StepTruncate == ASSUME ScaffoldInv, Truncate PROVE ScaffoldInv'
<1>1. /\ command # "none" /\ held = "none" /\ at \in DOMAIN Steps /\ at # 0
      /\ Path \notin Directories /\ held' \in ToWrite(Path)
      /\ files' = [files EXCEPT ![Path] = "blank"]
      /\ UNCHANGED <<command, at, cargoInit, stage, before>>
  BY FileFacts DEF Truncate, Working, Steps, walk
<1>2. Path # Src
  BY <1>1, FileFacts
<1>3. /\ files \in [Paths -> Contents] /\ before \in [Paths -> Contents]
      /\ files' \in [Paths -> Contents] /\ files'[Src] \in {"absent", "whole"}
  <2>1. "blank" \in Contents
    BY DEF Contents
  <2> QED BY <1>1, <1>2, <2>1, PutIsTyped DEF ScaffoldInv, Types
<1>4. CASE Path = Manifest
  <2>1. /\ files[Manifest] \notin {"depends", "rump"}
        /\ held' = CASE files[Manifest] = "plain" -> "depends"
                     [] files[Manifest] = "blank" -> "rump"
                     [] OTHER -> files[Manifest]
    BY <1>1, <1>4, FileFacts DEF ToWrite, Manifested
  <2>2. before[Manifest] \in {"absent", files[Manifest]}
    <3>1. PathKept(Manifest)
      BY <1>1, FileFacts DEF ScaffoldInv
    <3> QED BY <1>1, <2>1, <3>1, FileFacts DEF PathKept, Manifests
  <2>3. held' \in Contents /\ (before[Manifest] \in {"absent", held'} \/ <<before[Manifest], held'>> \in Manifests)
    BY <1>3, <2>1, <2>2, FileFacts DEF Contents, Manifests
  <2>4. files'[Manifest] = "blank" /\ \A p \in Paths : p # Manifest => files'[p] = files[p]
    BY <1>1, <1>3, <1>4, FileFacts
  <2>5. Types' /\ Beginnings'
    BY <1>1, <1>3, <2>3 DEF ScaffoldInv, Types, Beginnings
  <2>6. HeldKept'
    BY <1>1, <1>2, <1>4, <2>3 DEF HeldKept, Path, Steps
  <2>7. held' # "none"
    BY <2>3 DEF Contents
  <2>8. ASSUME NEW p \in Paths PROVE PathKept(p)'
    BY <1>1, <2>4, <2>7 DEF ScaffoldInv, PathKept
  <2>9. NothingOverwritten'
    BY <1>1, <2>8 DEF NothingOverwritten, PathKept, Manifests
  <2> QED BY <2>5, <2>6, <2>8, <2>9 DEF ScaffoldInv
<1>5. CASE Path # Manifest
  <2>1. /\ held' = "whole"
        /\ \/ files[Path] = "absent"
           \/ Path = Main /\ files[Main] = "hello" /\ before[Manifest] = "absent"
    BY <1>1, <1>5 DEF ToWrite, Exists, ScaffoldInv, Beginnings
  <2>2. \/ Path \notin Paths \/ before[Path] = "absent"
        \/ Path = Main /\ before[Main] = "hello" /\ before[Manifest] = "absent"
    <3>1. Path \in Paths => PathKept(Path)
      BY <1>1 DEF ScaffoldInv
    <3> QED BY <1>1, <1>5, <2>1, <3>1 DEF PathKept
  <2>3. files[Manifest] = "blank" => before[Manifest] \in {"absent", "blank"}
    <3>1. PathKept(Manifest)
      BY <1>1, FileFacts DEF ScaffoldInv
    <3> QED BY <1>1, <3>1, FileFacts DEF PathKept, Manifests
  <2>4. \A p \in Paths : p # Path => files'[p] = files[p]
    BY <1>1, <1>3
  <2>5. Types' /\ Beginnings'
    <3>1. held' \in Contents
      BY <2>1 DEF Contents
    <3> QED BY <1>1, <1>3, <3>1 DEF ScaffoldInv, Types, Beginnings
  <2>6. HeldKept'
    BY <1>1, <1>2, <1>5, <2>1, <2>2, <2>3, <2>4, FileFacts DEF HeldKept, Path, Steps
  <2>7. ASSUME NEW p \in Paths PROVE PathKept(p)'
    BY <1>1, <2>1, <2>2, <2>4 DEF ScaffoldInv, PathKept
  <2>8. NothingOverwritten'
    BY <1>1, <2>7 DEF NothingOverwritten, PathKept, Manifests
  <2> QED BY <2>5, <2>6, <2>7, <2>8 DEF ScaffoldInv
<1> QED BY <1>4, <1>5

(* A file is filled with what was held for it.                             *)
LEMMA StepFill == ASSUME ScaffoldInv, Fill PROVE ScaffoldInv'
<1>1. /\ command # "none" /\ held # "none" /\ held' = "none" /\ at' = at + 1
      /\ files' = [files EXCEPT ![Path] = held]
      /\ UNCHANGED <<command, cargoInit, stage, before>>
  BY DEF Fill, walk
<1>2. /\ Path # Src
      /\ \/ before[Path] \in {"absent", held} \/ Path \notin Paths
         \/ Path = Manifest /\ <<before[Path], held>> \in Manifests
         \/ Path = Main /\ before[Path] = "hello" /\ before[Manifest] = "absent"
      /\ files[Manifest] = "blank" => Path = Manifest \/ before[Manifest] \in {"absent", "blank"}
  BY <1>1 DEF ScaffoldInv, HeldKept
<1>3. Types'
  <2>1. held \in Contents
    BY <1>1 DEF ScaffoldInv, Types
  <2>2. files' \in [Paths -> Contents] /\ files'[Src] \in {"absent", "whole"}
    BY <1>1, <1>2, <2>1, PutIsTyped DEF ScaffoldInv
  <2> QED BY <1>1, <2>2 DEF ScaffoldInv, Types
<1>4. Beginnings' /\ HeldKept'
  BY <1>1 DEF ScaffoldInv, Types, Beginnings, HeldKept
<1>5. ASSUME NEW p \in Paths PROVE PathKept(p)'
  <2>1. PathKept(p) /\ files'[p] = IF p = Path THEN held ELSE files[p]
    BY <1>1 DEF ScaffoldInv, Types
  <2> QED BY <1>1, <1>2, <2>1 DEF PathKept
<1>6. NothingOverwritten'
  BY <1>1, <1>5 DEF NothingOverwritten, PathKept, Manifests
<1> QED BY <1>3, <1>4, <1>5, <1>6 DEF ScaffoldInv

(* Every step keeps what was there.                                        *)
LEMMA ScaffoldStep == ASSUME ScaffoldAssumption PROVE ScaffoldInv /\ [Next]_vars => ScaffoldInv'
<1> SUFFICES ASSUME ScaffoldInv, [Next]_vars PROVE ScaffoldInv'
  OBVIOUS
<1>1. CASE Next
  BY <1>1, StepsBetween, StepsOfStages, StepsThatEnd, StepCargoInit, StepsInPlace, StepCreate,
     StepTruncate, StepFill DEF Next
<1>2. CASE UNCHANGED vars
  BY <1>2 DEF vars, progress, walk, bounds, ScaffoldInv, Types, Beginnings, HeldKept, PathKept,
     NothingOverwritten, Steps, Path
<1> QED BY <1>1, <1>2

(* NothingOverwritten, from any directory, with any edits and any number   *)
(* of kills: what the user had is there when init, init --repair or an     *)
(* onboarding's init has ended, failed or been killed, but for what that   *)
(* property names.                                                         *)
THEOREM WorkIsKept == ASSUME ScaffoldAssumption PROVE Spec => []NothingOverwritten
<1>1. ScaffoldInv => NothingOverwritten
  BY DEF ScaffoldInv
<1> QED BY InitScaffold, ScaffoldStep, <1>1, PTL DEF Spec

-------------------------------------------------------------------------------
(* What a command lays out.  It removes nothing, so that all it has gone   *)
(* through is there (Passed); an init began without a valid.toml and has   *)
(* written the one there is, a repair began with both configuration files  *)
(* (Configured); and how the last of them ended still describes the        *)
(* directory (Laid).                                                       *)
Passed == command # "none" => \A k \in DOMAIN Steps : k < at => files[Steps[k]] # "absent"

Configured ==
  /\ held # "absent"
  /\ command # "none" /\ at > 0 => files[Manifest] # "absent"
  /\ command = "init" /\ at > 0 =>
       /\ files[Config] \in {"absent", "whole"} \/ (held = "whole" /\ Path = Config)
       /\ held # "none" /\ Path = Config => held = "whole"
  /\ command = "repair" /\ at > 0 => files[Config] # "absent"

Laid ==
  command = "none" =>
    /\ answer.command = "init" /\ answer.status = "ok" => CheckStatus = "ok" /\ DoctorStatus = "ok"
    /\ answer.command = "repair" /\ answer.status \in {"ok", "warn"} =>
         MissingPaths = {} /\ (answer.status = "ok" <=> ~Mismatched)

(* An onboarding runs no command but the init of its first stage.          *)
Walked ==
  /\ stage # 0 /\ command # "none" => stage = 1 /\ command = "init"
  /\ stage # 0 \/ command # "none" => onboarded = "none"

(* Where it began in an empty directory, every path is as cargo left it or *)
(* as the template has it: the init turns the one into the other.          *)
Fresh == \A p \in Paths : before[p] = "absent"
Raw(p) == IF p = Manifest THEN "plain" ELSE IF p = Main THEN "hello" ELSE "absent"
Goal(p) == IF p = Manifest THEN "depends" ELSE "whole"

Building ==
  stage = 1 /\ command = "init" /\ Fresh /\ (cargoInit \/ at > 0) =>
    /\ cargoInit
    /\ \A p \in Paths : files[p] \in {Raw(p), Goal(p)} \/ (held = Goal(p) /\ Path = p)
    /\ held # "none" => held = Goal(Path)
    /\ \A k \in DOMAIN Steps : k < at => files[Steps[k]] = Goal(Steps[k])

(* The later stages change nothing of that, and so does the end.           *)
Good == files[Main] = "whole" /\ Builds
Served ==
  Fresh /\ command = "none" =>
    /\ stage > 1 => Good
    /\ stage > 2 => CheckStatus = "ok"
    /\ onboarded = "ok" /\ stage = 0 => Good /\ CheckStatus = "ok"

LayoutInv == Passed /\ Configured /\ Laid /\ Walked /\ Building /\ Served

(* All that a check looks for is on both lists.                            *)
LEMMA ListedPaths ==
  /\ ExpectedPaths \subseteq Range(InitSteps) /\ ExpectedPaths \subseteq Range(RepairSteps)
  /\ Range(RepairSteps) \subseteq Paths /\ Range(InitSteps) = Paths
  /\ {Manifest, Config, Main, Registry, <<".mcp">>} \subseteq Range(InitSteps)
  /\ Registry \in ExpectedPaths
  /\ \A k \in DOMAIN Sources : Sources[k] \in Paths /\ Sources[k] # Manifest /\ Sources[k] # Main
  /\ Config # Manifest /\ Config # Main
<1> DEFINE own == <<Src, Manifest, Config>>
<1>1. own \in Seq({Src, Manifest, Config}) /\ Range(own) = {Src, Manifest, Config}
  BY DEF Range
<1>2. <<Main>> \in Seq({Main}) /\ Range(<<Main>>) = {Main}
  BY DEF Range
<1>3. Dirs \in Seq(Range(Dirs))
  BY DEF Dirs, OutputDirs, Range
<1>4. InitSteps = Dirs \o own \o Sources \o <<Main>> \o Kept \o Guides
  BY DEF InitSteps
<1>5. IsSequence(Dirs) /\ IsSequence(own) /\ IsSequence(<<Main>>)
  BY <1>1, <1>2, <1>3 DEF IsSequence
<1> HIDE DEF own
<1>6. IsSequence(Dirs \o own) /\ Range(Dirs \o own) = Range(Dirs) \cup Range(own)
  BY <1>5, RangeOfConcat
<1>7. /\ IsSequence(Dirs \o own \o Sources)
      /\ Range(Dirs \o own \o Sources) = Range(Dirs) \cup Range(own) \cup Range(Sources)
  BY <1>6, ShortLists, RangeOfConcat
<1>8. /\ IsSequence(Dirs \o own \o Sources \o <<Main>>)
      /\ Range(Dirs \o own \o Sources \o <<Main>>)
           = Range(Dirs) \cup Range(own) \cup Range(Sources) \cup {Main}
  BY <1>2, <1>5, <1>7, RangeOfConcat
<1>9. /\ IsSequence(Dirs \o own \o Sources \o <<Main>> \o Kept)
      /\ Range(Dirs \o own \o Sources \o <<Main>> \o Kept)
           = Range(Dirs) \cup Range(own) \cup Range(Sources) \cup {Main} \cup Range(Kept)
  BY <1>8, ShortLists, RangeOfConcat
<1>10. Range(InitSteps)
         = Range(Dirs) \cup Range(own) \cup Range(Sources) \cup {Main} \cup Range(Kept) \cup Range(Guides)
  BY <1>4, <1>9, ShortLists, RangeOfConcat
<1>11. IsSequence(Dirs \o Sources) /\ Range(Dirs \o Sources) = Range(Dirs) \cup Range(Sources)
  BY <1>5, ShortLists, RangeOfConcat
<1>12. /\ IsSequence(Dirs \o Sources \o Kept)
       /\ Range(Dirs \o Sources \o Kept) = Range(Dirs) \cup Range(Sources) \cup Range(Kept)
  BY <1>11, ShortLists, RangeOfConcat
<1>13. Range(RepairSteps) = Range(Dirs) \cup Range(Sources) \cup Range(Kept) \cup Range(Guides)
  BY <1>12, ShortLists, RangeOfConcat DEF RepairSteps
<1>14. IsSequence(Sources \o Guides) /\ Range(Sources \o Guides) = Range(Sources) \cup Range(Guides)
  BY ShortLists, RangeOfConcat
<1>15. ExpectedPaths = Range(Sources) \cup Range(Guides) \cup Range(OutputDirs)
  BY <1>14, ShortLists, RangeOfConcat DEF ExpectedPaths
<1>16. Range(OutputDirs) \subseteq Range(Dirs) /\ <<".mcp">> \in Range(Dirs)
  BY PathLists
<1>17. Registry \in Range(Sources)
  BY DEF Sources, Range
<1>18. \A k \in DOMAIN Sources : Sources[k] \in Range(Sources)
  BY DEF Range
<1>19. \A k \in DOMAIN Sources : Sources[k] # Manifest /\ Sources[k] # Main
  BY DEF Sources, Registry, Manifest, Main
<1>20. Config # Manifest /\ Config # Main
  BY DEF Config, Manifest, Main
<1> QED BY <1>1, <1>10, <1>13, <1>15, <1>16, <1>17, <1>18, <1>19, <1>20 DEF Paths

(* Both lists are sequences of paths.                                      *)
LEMMA StepsArePaths ==
  /\ Len(Steps) \in Nat /\ DOMAIN Steps = 1..Len(Steps)
  /\ \A k \in DOMAIN Steps : k \in Nat /\ k >= 1 /\ Steps[k] \in Paths
  /\ \A p \in Range(Steps) : \E k \in DOMAIN Steps : Steps[k] = p
<1>1. IsSequence(Steps) /\ Range(Steps) \subseteq Paths
  BY PathLists, ListedPaths DEF Steps
<1>2. Len(Steps) \in Nat /\ DOMAIN Steps = 1..Len(Steps)
  BY <1>1 DEF IsSequence
<1>3. \A k \in DOMAIN Steps : Steps[k] \in Paths
  BY <1>1 DEF Range
<1> QED BY <1>2, <1>3 DEF Range

(* What the reading commands say depends on the files alone.               *)
LEMMA SameFiles ==
  ASSUME files' = files
  PROVE  /\ CheckStatus' = CheckStatus /\ DoctorStatus' = DoctorStatus
         /\ MissingPaths' = MissingPaths /\ Mismatched' = Mismatched
         /\ Builds' = Builds /\ Good' = Good
  BY DEF CheckStatus, DoctorStatus, McpStatus, MissingPaths, Mismatched, Exists, Builds, Good

(* No command has run yet.                                                 *)
LEMMA LayoutInit == Init => LayoutInv
  BY DEF Init, LayoutInv, Passed, Configured, Laid, Walked, Building, Served

(* What happens between the commands.                                      *)
LEMMA LayoutBetween ==
  ASSUME LayoutInv, Check \/ Doctor \/ Onboard \/ Clean \/ Edit
  PROVE  LayoutInv'
<1>1. command = "none" /\ stage = 0 /\ command' = "none" /\ onboarded' = "none" /\ before' = files'
  BY DEF Check, Doctor, Report, Onboard, Clean, Edit, Idle, progress
<1>2. Passed' /\ Configured' /\ Walked' /\ Building'
  <2>1. held' # "absent"
    BY DEF Check, Doctor, Report, Onboard, Clean, Edit, progress, LayoutInv, Configured
  <2> QED BY <1>1, <2>1 DEF Passed, Configured, Walked, Building
<1>3. Laid'
  <2>1. CASE Check \/ Doctor \/ Clean \/ Edit
    <3>1. answer'.command \notin {"init", "repair"}
      BY <2>1 DEF Check, Doctor, Report, Clean, Edit
    <3> QED BY <3>1 DEF Laid
  <2>2. CASE Onboard
    <3>1. files' = files /\ answer' = answer
      BY <2>2 DEF Onboard
    <3> QED BY <1>1, <3>1, SameFiles DEF LayoutInv, Laid
  <2> QED BY <2>1, <2>2
<1>4. Served'
  <2>1. CASE Onboard /\ stage' = 2
    <3>1. before'[Manifest] # "absent" /\ Manifest \in Paths
      BY <1>1, <2>1, FileFacts DEF Onboard, Exists
    <3> QED BY <3>1 DEF Served, Fresh
  <2>2. CASE ~(Onboard /\ stage' = 2)
    <3>1. stage' \in {0, 1}
      BY <1>1, <2>2 DEF Check, Doctor, Report, Onboard, Clean, Edit
    <3> QED BY <1>1, <3>1 DEF Served
  <2> QED BY <2>1, <2>2
<1> QED BY <1>2, <1>3, <1>4 DEF LayoutInv

(* A command starts, or a later stage of an onboarding ends.               *)
LEMMA LayoutStages ==
  ASSUME ScaffoldInv, LayoutInv, StartCommand \/ Bootstrap \/ CheckScaffold \/ ReviewStage
  PROVE  LayoutInv'
<1>1. CASE StartCommand \/ Bootstrap
  <2>1. /\ command' \in {"init", "repair"} /\ at' = 0 /\ held' = "none" /\ cargoInit' = FALSE
        /\ onboarded' = "none" /\ stage' = stage /\ (stage # 0 => stage = 1 /\ command' = "init")
    BY <1>1 DEF StartCommand, Bootstrap, Start, Idle, walk, LayoutInv, Walked
  <2>2. Configured' /\ Laid' /\ Walked' /\ Building' /\ Served'
    BY <2>1 DEF Configured, Laid, Walked, Building, Served
  <2>3. DOMAIN InitSteps \subseteq Nat /\ DOMAIN RepairSteps \subseteq Nat
    BY PathLists DEF IsSequence
  <2>4. DOMAIN Steps' \subseteq Nat
    BY <2>3 DEF Steps
  <2>5. Passed'
    BY <2>1, <2>4 DEF Passed
  <2> QED BY <2>2, <2>5 DEF LayoutInv
<1>2. CASE CheckScaffold \/ ReviewStage
  <2>1. stage \in 2..7 /\ stage \in Nat /\ UNCHANGED <<files, before, command, answer>>
    BY <1>2 DEF CheckScaffold, ReviewStage, progress
  <2>2. command = "none" /\ onboarded = "none"
    BY <2>1 DEF LayoutInv, Walked
  <2>3. \E ok \in BOOLEAN : StageEnds(ok) /\ (ok /\ stage = 2 => CheckStatus = "ok")
    <3>1. CASE CheckScaffold
      <4>1. StageEnds(CheckStatus = "ok") /\ (CheckStatus = "ok") \in BOOLEAN
        BY <3>1 DEF CheckScaffold
      <4> QED BY <4>1, Zenon
    <3>2. CASE ReviewStage
      <4>1. StageEnds(Builds) /\ stage # 2
        BY <3>2 DEF ReviewStage
      <4>2. Builds \in BOOLEAN
        BY DEF Builds
      <4> QED BY <4>1, <4>2, Zenon
    <3> QED BY <1>2, <3>1, <3>2
  <2> PICK ok \in BOOLEAN : StageEnds(ok) /\ (ok /\ stage = 2 => CheckStatus = "ok")
    BY <2>3
  <2>4. /\ stage' = (IF ok /\ stage < 7 THEN stage + 1 ELSE 0)
        /\ onboarded' = (IF ~ok THEN "partial" ELSE IF stage = 7 THEN "ok" ELSE "none")
    BY <2>1, <2>2, <2>3 DEF StageEnds
  <2>5. Passed' /\ Configured' /\ Building'
    <3>1. held' # "absent" /\ command' = "none"
      BY <1>2, <2>2 DEF CheckScaffold, ReviewStage, progress, LayoutInv, Configured
    <3> QED BY <3>1 DEF Passed, Configured, Building
  <2>6. Laid' /\ Walked'
    BY <2>1, <2>2, <2>4, SameFiles DEF LayoutInv, Laid, Walked
  <2>7. Served'
    <3>1. Fresh' = Fresh
      BY <2>1 DEF Fresh
    <3>2. Fresh => Good /\ (stage > 2 => CheckStatus = "ok")
      BY <2>1, <2>2 DEF LayoutInv, Served
    <3>3. stage' > 2 => ok
      BY <2>4
    <3>4. onboarded' = "ok" => ok
      BY <2>4
    <3>5. ok => stage = 2 \/ stage > 2
      BY <2>1
    <3> QED BY <2>1, <2>3, <3>1, <3>2, <3>3, <3>4, <3>5, SameFiles DEF Served
  <2> QED BY <2>5, <2>6, <2>7 DEF LayoutInv
<1> QED BY <1>1, <1>2

(* A command that fails, or dies, leaves nothing to describe.              *)
LEMMA LayoutFails ==
  ASSUME LayoutInv, CargoInitFails \/ Refuse \/ Kill
  PROVE  LayoutInv'
<1>1. /\ command # "none" /\ command' = "none" /\ stage' = 0 /\ onboarded' # "ok"
      /\ held' # "absent" /\ answer'.status \in {"failed", "killed"}
  <2>1. CASE Kill
    BY <2>1 DEF Kill
  <2>2. CASE CargoInitFails \/ Refuse
    <3>1. Finish("failed") /\ command # "none"
      BY <2>2 DEF CargoInitFails, Refuse, Starting
    <3>2. stage' = 0 /\ onboarded' \in {"none", "partial"}
      BY <3>1 DEF Finish, StageEnds, walk, LayoutInv, Walked
    <3> QED BY <3>1, <3>2 DEF Finish, LayoutInv, Configured
  <2> QED BY <2>1, <2>2
<1> QED BY <1>1 DEF LayoutInv, Passed, Configured, Laid, Walked, Building, Served

(* A list gone through to its end leaves nothing to miss.                  *)
LEMMA NothingMissing ==
  ASSUME ScaffoldInv, LayoutInv, Finished("init") \/ Finished("repair")
  PROVE  /\ MissingPaths = {} /\ held = "none"
         /\ \A p \in Range(Steps) : files[p] # "absent"
<1>1. /\ command \in {"init", "repair"} /\ at = Len(Steps) + 1
      /\ \A k \in DOMAIN Steps : k < at
  BY StepsArePaths DEF Finished
<1>2. \A p \in Range(Steps) : files[p] # "absent"
  BY <1>1, StepsArePaths DEF LayoutInv, Passed
<1>3. at \notin DOMAIN Steps /\ at > 0
  BY <1>1, StepsArePaths
<1>4. held = "none"
  BY <1>3 DEF ScaffoldInv, HeldKept
<1>5. ExpectedPaths \subseteq Range(Steps)
  BY ListedPaths DEF Steps
<1>6. files[Manifest] # "absent" /\ files[Config] # "absent"
  <2>1. CASE command = "init"
    <3>1. {Manifest, Config} \subseteq Range(Steps)
      BY <2>1, ListedPaths DEF Steps
    <3> QED BY <1>2, <3>1
  <2>2. CASE command = "repair"
    BY <1>3, <2>2 DEF LayoutInv, Configured
  <2> QED BY <1>1, <2>1, <2>2
<1> QED BY <1>2, <1>4, <1>5, <1>6 DEF MissingPaths, Exists

(* An init ends with all of its paths there.                               *)
LEMMA LayoutFinishInit ==
  ASSUME ScaffoldInv, LayoutInv, FinishInit
  PROVE  LayoutInv'
<1>1. /\ command = "init" /\ Finish("ok") /\ Finished("init") /\ Steps = InitSteps
      /\ at = Len(Steps) + 1 /\ at > 0
  BY StepsArePaths DEF FinishInit, Finished, Steps
<1>2. /\ command' = "none" /\ files' = files /\ before' = before
      /\ answer' = [command |-> "init", status |-> "ok"]
      /\ (stage = 0 => stage' = 0 /\ onboarded' = onboarded)
      /\ (stage # 0 => stage' = (IF stage < 7 THEN stage + 1 ELSE 0)
                       /\ onboarded' = (IF stage = 7 THEN "ok" ELSE onboarded))
  BY <1>1 DEF Finish, StageEnds, walk
<1>3. onboarded = "none" /\ (stage # 0 => stage = 1)
  BY <1>1 DEF LayoutInv, Walked
<1>4. MissingPaths = {} /\ held = "none" /\ \A p \in Range(Steps) : files[p] # "absent"
  BY <1>1, NothingMissing
<1>5. files[Config] = "whole"
  <2>1. Config \in Range(Steps)
    BY <1>1, ListedPaths
  <2> QED BY <1>1, <1>4, <2>1 DEF LayoutInv, Configured
<1>6. CheckStatus = "ok"
  BY <1>4, <1>5 DEF CheckStatus, Mismatched
<1>7. DoctorStatus = "ok"
  <2>1. Exists(Config) /\ Exists(Registry) /\ Exists(<<".mcp">>)
    BY <1>1, <1>4, ListedPaths DEF Exists
  <2> QED BY <1>6, <2>1 DEF DoctorStatus, McpStatus
<1>8. Passed' /\ Configured' /\ Building' /\ Walked'
  <2>1. held' = "none"
    BY <1>1, <1>4 DEF Finish
  <2> QED BY <1>2, <1>3, <2>1 DEF Passed, Configured, Building, Walked
<1>9. Laid'
  BY <1>2, <1>6, <1>7, SameFiles DEF Laid
<1>10. ASSUME Fresh, stage = 1 PROVE Good
  <2>1. \A k \in DOMAIN Steps : files[Steps[k]] = Goal(Steps[k])
    BY <1>1, <1>10, StepsArePaths DEF LayoutInv, Building
  <2>2. \A p \in Paths : files[p] = Goal(p)
    <3>1. Range(Steps) = Paths
      BY <1>1, ListedPaths
    <3> QED BY <2>1, <3>1, StepsArePaths
  <2>3. files[Manifest] = "depends" /\ files[Main] = "whole"
    BY <2>2, FileFacts DEF Goal
  <2>4. \A k \in DOMAIN Sources : files[Sources[k]] = "whole"
    BY <2>2, ListedPaths DEF Goal
  <2> QED BY <2>3, <2>4 DEF Good, Builds, Exists
<1>11. Served'
  <2>1. Fresh' = Fresh
    BY <1>2 DEF Fresh
  <2>2. stage' = (IF stage = 0 THEN 0 ELSE 2) /\ onboarded' = "none"
    BY <1>2, <1>3
  <2> QED BY <1>2, <1>3, <1>10, <2>1, <2>2, SameFiles DEF Served
<1> QED BY <1>8, <1>9, <1>11 DEF LayoutInv

(* A repair ends with all of its paths there, and changes no valid.toml.   *)
LEMMA LayoutFinishRepair ==
  ASSUME ScaffoldInv, LayoutInv, FinishRepair
  PROVE  LayoutInv'
<1> DEFINE status == IF CheckStatus = "error" THEN "warn" ELSE CheckStatus
<1>1. command = "repair" /\ Finished("repair") /\ Finish(status)
  BY DEF FinishRepair, Finished
<1> HIDE DEF status
<1>2. stage = 0 /\ onboarded = "none"
  BY <1>1 DEF LayoutInv, Walked
<1>3. /\ command' = "none" /\ files' = files /\ held' = held /\ stage' = 0 /\ onboarded' = "none"
      /\ answer' = [command |-> "repair", status |-> status]
  BY <1>1, <1>2 DEF Finish, StageEnds, walk
<1>4. MissingPaths = {} /\ held = "none"
  BY <1>1, NothingMissing
<1>5. status = "ok" <=> ~Mismatched
  BY <1>4 DEF status, CheckStatus
<1>6. Laid'
  BY <1>3, <1>4, <1>5, SameFiles DEF Laid
<1> QED BY <1>3, <1>4, <1>6 DEF LayoutInv, Passed, Configured, Walked, Building, Served

(* A manifest without the dependency is written, and gains it.             *)
LEMMA ManifestToWrite ==
  /\ files[Manifest] \in {"depends", "rump"} => ToWrite(Manifest) = {}
  /\ files[Manifest] \notin {"depends", "rump"} => ToWrite(Manifest) # {}
  /\ files[Manifest] = "plain" => ToWrite(Manifest) = {"depends"}
  /\ files[Manifest] # "absent" => "absent" \notin ToWrite(Manifest)
<1>1. ToWrite(Manifest) = IF files[Manifest] \in {"depends", "rump"} THEN {} ELSE {Manifested}
  BY FileFacts DEF ToWrite
<1>2. Manifested = IF files[Manifest] = "plain" THEN "depends"
                   ELSE IF files[Manifest] = "blank" THEN "rump" ELSE files[Manifest]
  BY DEF Manifested
<1> QED BY <1>1, <1>2

(* cargo init leaves a package and nothing else.                           *)
LEMMA LayoutCargo ==
  ASSUME ScaffoldInv, LayoutInv, RunCargoInit
  PROVE  LayoutInv'
<1>1. /\ command = "init" /\ at = 0 /\ held = "none" /\ files[Manifest] = "absent"
      /\ files' = [files EXCEPT ![Manifest] = "plain", ![Src] = "whole",
                                ![Main] = IF files[Main] # "absent" THEN files[Main] ELSE "hello"]
      /\ cargoInit' = TRUE
      /\ UNCHANGED <<command, at, held, before, stage, onboarded, answer>>
  BY DEF RunCargoInit, Starting, Exists, walk, ScaffoldInv, Beginnings
<1>2. Configured' /\ Laid' /\ Walked' /\ Served'
  BY <1>1 DEF LayoutInv, Configured, Laid, Walked, Served
<1>3. Steps' = Steps /\ Steps = InitSteps /\ \A k \in DOMAIN Steps : ~(k < at')
  BY <1>1, StepsArePaths DEF Steps
<1>4. Passed'
  BY <1>3 DEF Passed
<1>5. Building'
  <2> SUFFICES ASSUME stage = 1, Fresh
               PROVE  \A p \in Paths : files'[p] \in {Raw(p), Goal(p)}
    BY <1>1, <1>3 DEF Building, Fresh, Raw, Goal
  <2>1. ~cargoInit
    <3>1. cargoInit => files[Manifest] \in {Raw(Manifest), Goal(Manifest)} \/ held = Goal(Manifest)
      BY <1>1, FileFacts DEF LayoutInv, Building
    <3> QED BY <1>1, <3>1, FileFacts DEF Raw, Goal
  <2>2. files = before /\ files \in [Paths -> Contents]
    BY <1>1, <2>1 DEF ScaffoldInv, Beginnings, Types
  <2>3. \A p \in Paths : files[p] = "absent"
    BY <2>2 DEF Fresh
  <2>4. /\ files'[Manifest] = "plain" /\ files'[Main] = "hello" /\ files'[Src] = "whole"
        /\ \A p \in Paths : p \notin {Manifest, Src, Main} => files'[p] = "absent"
    BY <1>1, <2>2, <2>3, FileFacts
  <2> QED BY <2>4, FileFacts DEF Raw, Goal
<1> QED BY <1>2, <1>4, <1>5 DEF LayoutInv

(* A command begins with its first path.                                   *)
LEMMA LayoutBegin ==
  ASSUME ScaffoldInv, LayoutInv, Begin
  PROVE  LayoutInv'
<1>1. /\ command # "none" /\ at = 0 /\ at' = 1 /\ held = "none" /\ files[Manifest] # "absent"
      /\ (command = "init" => files[Config] = "absent")
      /\ (command = "repair" => files[Config] # "absent")
      /\ UNCHANGED <<files, command, held, cargoInit, before, stage, onboarded, answer>>
  BY DEF Begin, Starting, Exists, walk, ScaffoldInv, Beginnings
<1>2. Configured' /\ Laid' /\ Walked' /\ Served'
  BY <1>1 DEF LayoutInv, Configured, Laid, Walked, Served
<1>3. Steps' = Steps /\ \A k \in DOMAIN Steps : ~(k < at')
  BY <1>1, StepsArePaths DEF Steps
<1>4. Passed'
  BY <1>3 DEF Passed
<1>5. Building'
  <2> SUFFICES ASSUME stage = 1, command = "init", Fresh
               PROVE  cargoInit /\ \A p \in Paths : files[p] \in {Raw(p), Goal(p)}
    BY <1>1, <1>3 DEF Building, Fresh, Raw, Goal
  <2>1. cargoInit
    <3>1. files # before
      BY <1>1, FileFacts DEF Fresh
    <3> QED BY <1>1, <3>1 DEF ScaffoldInv, Beginnings
  <2>2. \A p \in Paths : held # Goal(p)
    BY <1>1 DEF Goal
  <2> QED BY <2>1, <2>2 DEF LayoutInv, Building
<1> QED BY <1>2, <1>4, <1>5 DEF LayoutInv

(* The step past a path that needs nothing.                                *)
LEMMA LayoutSkip ==
  ASSUME ScaffoldInv, LayoutInv, Skip
  PROVE  LayoutInv'
<1>1. /\ command # "none" /\ held = "none" /\ at \in DOMAIN Steps /\ ToWrite(Path) = {}
      /\ at' = at + 1
      /\ UNCHANGED <<files, command, held, cargoInit, before, stage, onboarded, answer>>
  BY DEF Skip, Working, walk
<1>2. at \in Nat /\ at > 0 /\ Path \in Paths /\ Steps' = Steps
  BY <1>1, StepsArePaths DEF Path, Steps
<1>3. \A k \in DOMAIN Steps : k < at' => k < at \/ Steps[k] = Path
  BY <1>1, <1>2, StepsArePaths DEF Path
<1>4. files[Path] # "absent"
  <2>1. CASE Path = Manifest
    BY <1>1, <2>1, FileFacts DEF ToWrite
  <2>2. CASE Path # Manifest
    BY <1>1, <2>2 DEF ToWrite, Exists
  <2> QED BY <2>1, <2>2
<1>5. Passed'
  BY <1>1, <1>2, <1>3, <1>4 DEF LayoutInv, Passed
<1>6. Configured' /\ Laid' /\ Walked' /\ Served'
  BY <1>1, <1>2 DEF LayoutInv, Configured, Laid, Walked, Served
<1>7. Building'
  <2> SUFFICES ASSUME stage = 1, command = "init", Fresh
               PROVE  /\ cargoInit /\ \A p \in Paths : files[p] \in {Raw(p), Goal(p)}
                      /\ \A k \in DOMAIN Steps : k < at' => files[Steps[k]] = Goal(Steps[k])
    BY <1>1, <1>2 DEF Building, Fresh, Raw, Goal
  <2>1. \A p \in Paths : held # Goal(p)
    BY <1>1 DEF Goal
  <2>2. /\ cargoInit /\ \A p \in Paths : files[p] \in {Raw(p), Goal(p)}
        /\ \A k \in DOMAIN Steps : k < at => files[Steps[k]] = Goal(Steps[k])
    BY <1>2, <2>1 DEF LayoutInv, Building
  <2>3. files[Path] = Goal(Path)
    <3>1. CASE Path = Manifest
      BY <1>1, <1>2, <2>2, <3>1, ManifestToWrite DEF Raw, Goal
    <3>2. CASE Path = Main
      BY <1>1, <1>2, <2>2, <3>2, FileFacts DEF ToWrite, Exists, Raw, Goal
    <3>3. CASE Path \notin {Manifest, Main}
      BY <1>2, <1>4, <2>2, <3>3 DEF Raw, Goal
    <3> QED BY <3>1, <3>2, <3>3
  <2> QED BY <1>3, <2>2, <2>3
<1> QED BY <1>5, <1>6, <1>7 DEF LayoutInv

(* What is about to be written at a path, and that it is not there yet.    *)
LEMMA WritesTheGoal ==
  ASSUME ScaffoldInv, LayoutInv, Working, ToWrite(Path) # {}
  PROVE  /\ at \in Nat /\ at > 0 /\ Path \in Paths
         /\ Path # Manifest => ToWrite(Path) = {"whole"}
         /\ stage = 1 /\ command = "init" /\ Fresh =>
              /\ cargoInit /\ ToWrite(Path) = {Goal(Path)}
              /\ \A p \in Paths : files[p] \in {Raw(p), Goal(p)}
              /\ \A k \in DOMAIN Steps : k < at =>
                   Steps[k] # Path /\ files[Steps[k]] = Goal(Steps[k])
<1>1. at \in Nat /\ at > 0 /\ Path \in Paths /\ held = "none"
  BY StepsArePaths DEF Working, Path
<1>2. Path # Manifest => ToWrite(Path) = {"whole"}
  BY FileFacts DEF ToWrite
<1>3. ASSUME stage = 1, command = "init", Fresh
      PROVE  /\ cargoInit /\ ToWrite(Path) = {Goal(Path)}
             /\ \A p \in Paths : files[p] \in {Raw(p), Goal(p)}
             /\ files[Path] # Goal(Path)
             /\ \A k \in DOMAIN Steps : k < at => files[Steps[k]] = Goal(Steps[k])
  <2>1. \A p \in Paths : held # Goal(p)
    BY <1>1 DEF Goal
  <2>2. /\ cargoInit /\ \A p \in Paths : files[p] \in {Raw(p), Goal(p)}
        /\ \A k \in DOMAIN Steps : k < at => files[Steps[k]] = Goal(Steps[k])
    BY <1>1, <1>3, <2>1 DEF LayoutInv, Building
  <2>3. files[Path] # Goal(Path)
    <3>1. CASE Path = Manifest
      BY <3>1, ManifestToWrite DEF Goal
    <3>2. CASE Path = Main
      BY <3>2, FileFacts DEF ToWrite, Exists, Goal
    <3>3. CASE Path \notin {Manifest, Main}
      BY <3>3 DEF ToWrite, Exists, Goal
    <3> QED BY <3>1, <3>2, <3>3
  <2>4. ToWrite(Path) = {Goal(Path)}
    <3>1. CASE Path = Manifest
      <4>1. files[Manifest] = "plain"
        BY <1>1, <2>2, <2>3, <3>1 DEF Raw, Goal
      <4> QED BY <3>1, <4>1, ManifestToWrite DEF Goal
    <3>2. CASE Path # Manifest
      BY <1>2, <3>2 DEF Goal
    <3> QED BY <3>1, <3>2
  <2> QED BY <2>2, <2>3, <2>4
<1> QED BY <1>1, <1>2, <1>3

(* A path made at once is what the template has there.                     *)
LEMMA LayoutCreate ==
  ASSUME ScaffoldInv, LayoutInv, Create
  PROVE  LayoutInv'
<1>1. /\ Working /\ command # "none" /\ held = "none" /\ at \in DOMAIN Steps
      /\ ToWrite(Path) # {} /\ Path \notin {Manifest, Main} /\ at' = at + 1
      /\ files' = [files EXCEPT ![Path] = "whole"]
      /\ UNCHANGED <<command, held, cargoInit, before, stage, onboarded, answer>>
  BY FileFacts DEF Create, Working, walk
<1>2. /\ at \in Nat /\ at > 0 /\ Path \in Paths /\ Steps' = Steps
      /\ files \in [Paths -> Contents]
  BY <1>1, WritesTheGoal DEF Steps, ScaffoldInv, Types
<1>3. \A k \in DOMAIN Steps : k < at' => k < at \/ Steps[k] = Path
  BY <1>1, <1>2, StepsArePaths DEF Path
<1>4. \A p \in Paths : files'[p] = IF p = Path THEN "whole" ELSE files[p]
  BY <1>1, <1>2
<1>5. Passed'
  <2> SUFFICES ASSUME NEW k \in DOMAIN Steps, k < at' PROVE files'[Steps[k]] # "absent"
    BY <1>2 DEF Passed
  <2>1. Steps[k] \in Paths /\ (k < at => files[Steps[k]] # "absent")
    BY <1>1, StepsArePaths DEF LayoutInv, Passed
  <2> QED BY <1>3, <1>4, <2>1
<1>6. Configured'
  <2>1. files[Config] # "absent" => files'[Config] # "absent"
    BY <1>4, ListedPaths
  <2>2. files[Manifest] # "absent" => files'[Manifest] # "absent"
    BY <1>4, FileFacts
  <2>3. files[Config] \in {"absent", "whole"} => files'[Config] \in {"absent", "whole"}
    BY <1>4, ListedPaths
  <2> QED BY <1>1, <1>2, <2>1, <2>2, <2>3 DEF LayoutInv, Configured
<1>7. Laid' /\ Walked' /\ Served'
  BY <1>1 DEF LayoutInv, Laid, Walked, Served
<1>8. Building'
  <2> SUFFICES ASSUME stage = 1, command = "init", Fresh
               PROVE  /\ cargoInit /\ \A p \in Paths : files'[p] \in {Raw(p), Goal(p)}
                      /\ \A k \in DOMAIN Steps : k < at' => files'[Steps[k]] = Goal(Steps[k])
    BY <1>1, <1>2 DEF Building, Fresh, Raw, Goal
  <2>1. /\ cargoInit /\ \A p \in Paths : files[p] \in {Raw(p), Goal(p)}
        /\ \A k \in DOMAIN Steps : k < at => Steps[k] # Path /\ files[Steps[k]] = Goal(Steps[k])
    BY <1>1, WritesTheGoal
  <2>2. Goal(Path) = "whole"
    BY <1>1 DEF Goal
  <2>3. \A p \in Paths : files'[p] \in {Raw(p), Goal(p)}
    BY <1>4, <2>1, <2>2
  <2>4. ASSUME NEW k \in DOMAIN Steps, k < at' PROVE files'[Steps[k]] = Goal(Steps[k])
    BY <1>3, <1>4, <2>1, <2>2, <2>4, StepsArePaths
  <2> QED BY <2>1, <2>3, <2>4
<1> QED BY <1>5, <1>6, <1>7, <1>8 DEF LayoutInv

(* A file is opened: what it is to be filled with is held.                 *)
LEMMA LayoutTruncate ==
  ASSUME ScaffoldInv, LayoutInv, Truncate
  PROVE  LayoutInv'
<1>1. /\ Working /\ command # "none" /\ held = "none" /\ at \in DOMAIN Steps
      /\ held' \in ToWrite(Path) /\ ToWrite(Path) # {}
      /\ files' = [files EXCEPT ![Path] = "blank"]
      /\ UNCHANGED <<command, at, cargoInit, before, stage, onboarded, answer>>
  BY DEF Truncate, Working, walk
<1>2. /\ at \in Nat /\ at > 0 /\ Path \in Paths /\ Steps' = Steps /\ Path' = Path
      /\ files \in [Paths -> Contents]
  BY <1>1, WritesTheGoal DEF Steps, Path, ScaffoldInv, Types
<1>3. \A p \in Paths : files'[p] = IF p = Path THEN "blank" ELSE files[p]
  BY <1>1, <1>2
<1>4. Passed'
  <2> SUFFICES ASSUME NEW k \in DOMAIN Steps, k < at PROVE files'[Steps[k]] # "absent"
    BY <1>1, <1>2 DEF Passed
  <2>1. Steps[k] \in Paths /\ files[Steps[k]] # "absent"
    BY <1>1, StepsArePaths DEF LayoutInv, Passed
  <2> QED BY <1>3, <2>1
<1>5. Configured'
  <2>1. Path = Config => held' = "whole"
    BY <1>1, WritesTheGoal, ListedPaths
  <2>2. Path # Config => files'[Config] = files[Config]
    BY <1>3, ListedPaths
  <2>3. files[Config] # "absent" => files'[Config] # "absent"
    BY <1>3, ListedPaths
  <2>4. files[Manifest] # "absent" => files'[Manifest] # "absent"
    BY <1>3, FileFacts
  <2>5. command = "init" => files[Config] \in {"absent", "whole"}
    BY <1>1, <1>2 DEF LayoutInv, Configured
  <2>6. files[Manifest] # "absent" /\ (command = "repair" => files[Config] # "absent")
    BY <1>1, <1>2 DEF LayoutInv, Configured
  <2>7. held' # "absent"
    BY <1>1, <2>6, WritesTheGoal, ManifestToWrite
  <2> QED BY <1>1, <1>2, <2>1, <2>2, <2>3, <2>4, <2>5, <2>6, <2>7 DEF Configured
<1>6. Laid' /\ Walked' /\ Served'
  BY <1>1 DEF LayoutInv, Laid, Walked, Served
<1>7. Building'
  <2> SUFFICES ASSUME stage = 1, command = "init", Fresh
               PROVE  /\ cargoInit /\ held' = Goal(Path)
                      /\ \A p \in Paths : files'[p] \in {Raw(p), Goal(p)} \/ Path = p
                      /\ \A k \in DOMAIN Steps : k < at => files'[Steps[k]] = Goal(Steps[k])
    BY <1>1, <1>2 DEF Building, Fresh, Raw, Goal
  <2>1. /\ cargoInit /\ ToWrite(Path) = {Goal(Path)}
        /\ \A p \in Paths : files[p] \in {Raw(p), Goal(p)}
        /\ \A k \in DOMAIN Steps : k < at => Steps[k] # Path /\ files[Steps[k]] = Goal(Steps[k])
    BY <1>1, WritesTheGoal
  <2>2. \A k \in DOMAIN Steps : k < at => files'[Steps[k]] = Goal(Steps[k])
    BY <1>3, <2>1, StepsArePaths
  <2> QED BY <1>1, <1>3, <2>1, <2>2
<1> QED BY <1>4, <1>5, <1>6, <1>7 DEF LayoutInv

(* A file is filled: the path is passed.                                   *)
LEMMA LayoutFill ==
  ASSUME ScaffoldInv, LayoutInv, Fill
  PROVE  LayoutInv'
<1>1. /\ command # "none" /\ held # "none" /\ held' = "none" /\ at' = at + 1
      /\ files' = [files EXCEPT ![Path] = held]
      /\ UNCHANGED <<command, cargoInit, before, stage, onboarded, answer>>
  BY DEF Fill, walk
<1>2. /\ at \in DOMAIN Steps /\ at \in Nat /\ at > 0 /\ Path \in Paths /\ Steps' = Steps
      /\ files \in [Paths -> Contents]
  BY <1>1, StepsArePaths DEF Steps, Path, ScaffoldInv, Types, HeldKept
<1>3. \A k \in DOMAIN Steps : k < at' => k < at \/ Steps[k] = Path
  BY <1>1, <1>2, StepsArePaths DEF Path
<1>4. \A p \in Paths : files'[p] = IF p = Path THEN held ELSE files[p]
  BY <1>1, <1>2
<1>5. held # "absent"
  BY DEF LayoutInv, Configured
<1>6. Passed'
  <2> SUFFICES ASSUME NEW k \in DOMAIN Steps, k < at' PROVE files'[Steps[k]] # "absent"
    BY <1>2 DEF Passed
  <2>1. Steps[k] \in Paths /\ (k < at => files[Steps[k]] # "absent")
    BY <1>1, StepsArePaths DEF LayoutInv, Passed
  <2> QED BY <1>3, <1>4, <1>5, <2>1
<1>7. Configured'
  <2>1. files[Config] # "absent" => files'[Config] # "absent"
    BY <1>4, <1>5, ListedPaths
  <2>2. files[Manifest] # "absent" => files'[Manifest] # "absent"
    BY <1>4, <1>5, FileFacts
  <2>3. command = "init" => files'[Config] \in {"absent", "whole"}
    BY <1>1, <1>2, <1>4, ListedPaths DEF LayoutInv, Configured
  <2>4. files[Manifest] # "absent" /\ (command = "repair" => files[Config] # "absent")
    BY <1>1, <1>2 DEF LayoutInv, Configured
  <2> QED BY <1>1, <2>1, <2>2, <2>3, <2>4 DEF Configured
<1>8. Laid' /\ Walked' /\ Served'
  BY <1>1 DEF LayoutInv, Laid, Walked, Served
<1>9. Building'
  <2> SUFFICES ASSUME stage = 1, command = "init", Fresh
               PROVE  /\ cargoInit /\ \A p \in Paths : files'[p] \in {Raw(p), Goal(p)}
                      /\ \A k \in DOMAIN Steps : k < at' => files'[Steps[k]] = Goal(Steps[k])
    BY <1>1, <1>2 DEF Building, Fresh, Raw, Goal
  <2>1. /\ cargoInit /\ held = Goal(Path)
        /\ \A p \in Paths : files[p] \in {Raw(p), Goal(p)} \/ Path = p
        /\ \A k \in DOMAIN Steps : k < at => files[Steps[k]] = Goal(Steps[k])
    BY <1>1, <1>2 DEF LayoutInv, Building
  <2>2. \A p \in Paths : files'[p] \in {Raw(p), Goal(p)}
    BY <1>4, <2>1
  <2>3. ASSUME NEW k \in DOMAIN Steps, k < at' PROVE files'[Steps[k]] = Goal(Steps[k])
    BY <1>3, <1>4, <2>1, <2>3, StepsArePaths
  <2> QED BY <2>1, <2>2, <2>3
<1> QED BY <1>6, <1>7, <1>8, <1>9 DEF LayoutInv

(* Every step keeps what has been laid out.                                *)
LEMMA LayoutStep == ScaffoldInv /\ LayoutInv /\ [Next]_vars => LayoutInv'
<1> SUFFICES ASSUME ScaffoldInv, LayoutInv, [Next]_vars PROVE LayoutInv'
  OBVIOUS
<1>1. CASE Next
  BY <1>1, LayoutBetween, LayoutStages, LayoutFails, LayoutFinishInit, LayoutFinishRepair,
     LayoutCargo, LayoutBegin, LayoutSkip, LayoutCreate, LayoutTruncate, LayoutFill DEF Next
<1>2. CASE UNCHANGED vars
  <2>1. UNCHANGED <<files, command, at, held, cargoInit, answer, stage, onboarded, before>>
    BY <1>2 DEF vars, progress, walk
  <2>2. Steps' = Steps /\ Path' = Path
    BY <2>1 DEF Steps, Path
  <2>3. Passed' /\ Configured' /\ Building' /\ Walked'
    BY <2>1, <2>2 DEF LayoutInv, Passed, Configured, Building, Fresh, Raw, Goal, Walked
  <2>4. Laid' /\ Served'
    BY <2>1, SameFiles DEF LayoutInv, Laid, Served, Fresh
  <2> QED BY <2>3, <2>4 DEF LayoutInv
<1> QED BY <1>1, <1>2

(* Whatever a command begins with and the user does in between: what an    *)
(* init has laid out, check and doctor accept; what a repair has gone      *)
(* through lacks nothing but a valid.toml somebody has to mend; and an     *)
(* onboarding that ends well in an empty directory leaves a package that   *)
(* builds and serves its models.                                           *)
THEOREM LayoutWorks == ASSUME ScaffoldAssumption PROVE Spec => []LaidOutProjectsWork
<1>1. Init => ScaffoldInv /\ LayoutInv
  BY InitScaffold, LayoutInit
<1>2. (ScaffoldInv /\ LayoutInv) /\ [Next]_vars => (ScaffoldInv /\ LayoutInv)'
  BY ScaffoldStep, LayoutStep
<1>3. LayoutInv => LaidOutProjectsWork
  <2> SUFFICES ASSUME LayoutInv PROVE CheckAccepts /\ OnboardingServesModels
    BY DEF LaidOutProjectsWork
  <2>1. CheckAccepts
    BY DEF CheckAccepts, LayoutInv, Laid, Idle
  <2>2. OnboardingServesModels
    BY DEF OnboardingServesModels, LayoutInv, Served, Fresh, Good, Idle
  <2> QED BY <2>1, <2>2
<1> QED BY <1>1, <1>2, <1>3, PTL DEF Spec
================================================================================
