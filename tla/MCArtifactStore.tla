---------------------------- MODULE MCArtifactStore ----------------------------
(* Instances of ArtifactStore for TLC.                                     *)
EXTENDS ArtifactStore, TLC

CONSTANTS t1, t2, t3, p1, p2

Bench == BenchmarkRecords("report")
CheckP == CheckRecords("A", "P", "fail")
CheckQ == CheckRecords("B", "Q", "error")
Vectors == VectorRecords("run-v", "v")

Together == [t \in Threads |-> p1]
Apart == [t \in Threads |-> IF t = t1 THEN p1 ELSE p2]

Deployed(home, jobs, overlap, kills, cleans) ==
  [home |-> home, jobs |-> jobs, overlap |-> overlap, crashes |-> kills, cleans |-> cleans]

(* A check, the same check again, and generated tests with another check.  *)
ThreeJobs == t1 :> CheckP @@ t2 :> CheckP @@ t3 :> (Vectors \o CheckQ)

(* A check, and a benchmark, which goes on after an unreadable summary,    *)
(* with the same check again.                                              *)
TwoJobs == t1 :> CheckQ @@ t2 :> (Bench \o CheckQ) @@ t3 :> <<>>

(* The second process checks a property of the same name, so that its      *)
(* artifacts take the place of the first's.                                *)
SameJobs == t1 :> CheckP @@ t2 :> (Bench \o CheckRecords("B", "P", "fail")) @@ t3 :> <<>>

AllDeployments ==
  {Deployed(Together, ThreeJobs, TRUE, 0, FALSE), Deployed(Together, TwoJobs, TRUE, 1, TRUE),
   Deployed(Apart, SameJobs, TRUE, 1, FALSE), Deployed(Apart, SameJobs, FALSE, 2, FALSE)}

Outside == {"generated-tests/v"}
================================================================================
