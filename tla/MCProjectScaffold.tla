--------------------------- MODULE MCProjectScaffold ---------------------------
(* Instances of ProjectScaffold for TLC.                                   *)
EXTENDS ProjectScaffold, FiniteSets

Nothing == [p \in Paths |-> "absent"]

With(project, contents) == [p \in Paths |-> IF p \in DOMAIN contents THEN contents[p] ELSE project[p]]

Package(manifest, main) ==
  With(Nothing, [p \in {Manifest, Src, Main} |->
                   CASE p = Manifest -> manifest [] p = Main -> main [] OTHER -> "whole"])

Scaffolded(config, manifest, main) ==
  [p \in Paths |-> CASE p = Config -> config [] p = Manifest -> manifest [] p = Main -> main
                     [] OTHER -> "whole"]

(* An empty directory; packages; a directory that has only a valid.toml,   *)
(* or a guide of the user's own; laid out projects, some hand-written.     *)
MCProjects ==
  {Nothing, With(Nothing, [p \in {Config} |-> "whole"]),
   With(Nothing, [p \in {Src, Main} |-> IF p = Main THEN "hello" ELSE "whole"]),
   With(Nothing, [p \in {<<"docs", "ai">>, <<"docs", "ai", "bootstrap.md">>} |->
                    IF p = <<"docs", "ai">> THEN "whole" ELSE "own"])}
  \cup {Package("plain", "hello"), Package("headed", "own")}
  \cup {Scaffolded(config, "depends", "whole") : config \in {"whole", "garbled"}}
  \cup {Scaffolded("whole", "plain", "hello")}

Removed == {<<"valid">>, <<".mcp">>, <<"docs", "rdd", "README.md">>, Manifest, Config, Main}

MCEdits ==
  [path : Removed, content : {"absent"}]
  \cup {[path |-> Registry, content |-> "own"], [path |-> Config, content |-> "other"],
        [path |-> Main, content |-> "own"]}
===============================================================================
