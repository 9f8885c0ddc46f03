----------------------------- MODULE ArtifactStore -----------------------------
(***************************************************************************)
(* support::artifact_index: the artifacts directory, its index.json and    *)
(* run-history.json, and whoever writes them: threads that emit artifacts  *)
(* (under a mutex each process has for itself), processes that run at the  *)
(* same time or in turn and may be killed, disks that fail, and `valid     *)
(* clean artifacts`.  Every file is written by fs::write, which truncates  *)
(* first and fills afterwards.                                             *)
(***************************************************************************)
EXTENDS Naturals, Sequences, FiniteSets

CONSTANTS
  Threads,
  Processes,
  Kept,         \* paths outside the artifacts root
  Deployments   \* who runs: see DeploymentType

(* ArtifactRecord, as far as the summaries group by it; model may be none. *)
RecordType == [path : STRING, run : STRING, kind : STRING, model : STRING]

(* What `valid check` emits for one property of one model.  Its request_id *)
(* is a constant, so the run id is a digest of the property's name; its    *)
(* policy is EmitOnFailure; an errored outcome has no trace.               *)
CheckRecords(model, property, status) ==
  LET run == "run-" \o property
      result == [path |-> run \o "/check-result.json", run |-> run,
                 kind |-> "check_result", model |-> model]
      trace == [path |-> run \o "/evidence/ev-" \o run \o ".trace.json", run |-> run,
                kind |-> "evidence_trace", model |-> model]
  IN  CASE status = "pass" -> <<>>
        [] status \in {"fail", "unknown"} -> <<result, trace>>
        [] status = "error" -> <<result>>

(* A generated vector: its JSON, and the test rendered from it.            *)
VectorRecords(run, vector) ==
  <<[path |-> run \o "/vectors/" \o vector, run |-> run, kind |-> "test_vector", model |-> "none"],
    [path |-> "generated-tests/" \o vector, run |-> run, kind |-> "generated_test", model |-> "none"]>>

(* A benchmark report is its own run.                                      *)
BenchmarkRecords(report) ==
  <<[path |-> "benchmarks/" \o report, run |-> report, kind |-> "benchmark_report",
     model |-> "none"]>>

(* The process of each thread, the records it emits in order, whether the  *)
(* processes overlap or run one after the other, how many kills and failed *)
(* writes there may be, and whether `clean artifacts` may run.             *)
DeploymentType ==
  [home : [Threads -> Processes], jobs : [Threads -> Seq(RecordType)], overlap : BOOLEAN,
   crashes : Nat, cleans : BOOLEAN]

ASSUME StoreAssumption == Deployments \subseteq DeploymentType

Summaries == {"index", "history"}

VARIABLES
  deployment,
  disk,     \* what each summary file holds
  files,    \* the artifacts that exist
  holder,   \* the threads that hold artifact_index_lock of their process
  pc,       \* where each thread is
  turn,     \* the summary file it is updating
  buffer,   \* the entries it has read
  linked,   \* the file it has open still has a name
  left,     \* the records it has yet to emit
  crashes,
  cleaning, \* the entries `clean artifacts` has yet to remove
  cleaned,
  (* What has happened, for the properties:                                *)
  listed,   \* the last record put in the index for each path, since it was
            \* last struck, unless its artifact was cleaned away
  struck,   \* the summaries that a kill or a failing disk hit half written
  cut       \* the records that were put in the index and that the history has
            \* not got, or has lost

local == <<pc, turn, buffer, linked, left>>
account == <<listed, struck, cut>>
vars == <<deployment, disk, files, holder, local, crashes, cleaning, cleaned, account>>

Absent == [form |-> "absent", entries |-> {}]
Blank == [form |-> "blank", entries |-> {}]
Torn == [form |-> "torn", entries |-> {}]
Json(S) == [form |-> "json", entries |-> S]

Init ==
  /\ deployment \in Deployments
  /\ disk = [f \in Summaries |-> Absent]
  /\ files = {}
  /\ holder = {}
  /\ pc = [t \in Threads |-> "emit"]
  /\ turn = [t \in Threads |-> "index"]
  /\ buffer = [t \in Threads |-> {}]
  /\ linked = [t \in Threads |-> TRUE]
  /\ left = deployment.jobs
  /\ crashes = 0
  /\ cleaning = {} /\ cleaned = FALSE
  /\ listed = {} /\ struck = {} /\ cut = {}

Record(t) == Head(left[t])
Home(t) == deployment.home[t]

(* Processes that run in turn start when no other is at work.              *)
MayEmit(t) ==
  \/ deployment.overlap
  \/ \A u \in Threads : Home(u) # Home(t) => pc[u] \in {"emit", "failed"}

-------------------------------------------------------------------------------
(* What record_artifact makes of the entries it has read.                  *)

(* Mutants: the old entry stays; the run forgets its earlier artifacts.    *)
IndexedTwice(S, r) == S \cup {r}
GroupedAlone(S, r) ==
  {e \in S : e.run # r.run} \cup {[run |-> r.run, paths |-> {r.path}, kinds |-> {r.kind}, models |-> {r.model}]}

(* One entry per path: the newest.                                         *)
Indexed(S, r) == {e \in S : e.path # r.path} \cup {r}

(* One entry per run, which collects its paths, kinds and models.          *)
Grouped(S, r) ==
  LET same == {e \in S : e.run = r.run}
      entry == [run |-> r.run,
                paths |-> {r.path} \cup UNION {e.paths : e \in same},
                kinds |-> {r.kind} \cup UNION {e.kinds : e \in same},
                models |-> ({r.model} \ {"none"}) \cup UNION {e.models : e \in same}]
  IN  (S \ same) \cup {entry}

Updated(f, S, r) == IF f = "index" THEN Indexed(S, r) ELSE Grouped(S, r)

-------------------------------------------------------------------------------
(* One emission: the artifact itself, then record_artifact.                *)

(* Mutant: the artifact is recorded, and never written.                    *)
RecordOnly(t) ==
  /\ pc[t] = "emit" /\ left[t] # <<>>
  /\ pc' = [pc EXCEPT ![t] = "lock"]
  /\ UNCHANGED <<deployment, disk, files, holder, turn, buffer, linked, left, crashes, cleaning, cleaned, account>>

WriteArtifact(t) ==
  /\ pc[t] = "emit" /\ left[t] # <<>>
  /\ MayEmit(t)
  /\ files' = files \cup {Record(t).path}
  /\ pc' = [pc EXCEPT ![t] = "lock"]
  /\ UNCHANGED <<deployment, disk, holder, turn, buffer, linked, left, crashes, cleaning, cleaned, account>>

(* Mutant: a lock that excludes nobody.                                    *)
LockFreely(t) == holder' = holder \cup {t}

Lock(t) ==
  /\ \A u \in holder : Home(u) # Home(t)
  /\ holder' = holder \cup {t}

(* Mutant: the guard is never dropped.                                     *)
KeepLock(t) == UNCHANGED holder

Unlock(t) == holder' = holder \ {t}

TakeLock(t) ==
  /\ pc[t] = "lock"
  /\ Lock(t)
  /\ pc' = [pc EXCEPT ![t] = "probe"]
  /\ turn' = [turn EXCEPT ![t] = "index"]
  /\ UNCHANGED <<deployment, disk, files, buffer, linked, left, crashes, cleaning, cleaned, account>>

(* load_json: a missing or blank file counts as an empty one.              *)
Probe(t) ==
  /\ pc[t] = "probe"
  /\ IF disk[turn[t]] = Absent
     THEN /\ buffer' = [buffer EXCEPT ![t] = {}]
          /\ pc' = [pc EXCEPT ![t] = "truncate"]
     ELSE pc' = [pc EXCEPT ![t] = "read"] /\ UNCHANGED buffer
  /\ UNCHANGED <<deployment, disk, files, holder, turn, linked, left, crashes, cleaning, cleaned, account>>

(* Mutant: what does not parse counts as an empty summary.                 *)
ReadAnything(t) ==
  /\ pc[t] = "read"
  /\ disk[turn[t]].form # "absent"
  /\ buffer' = [buffer EXCEPT ![t] = disk[turn[t]].entries]
  /\ pc' = [pc EXCEPT ![t] = "truncate"]
  /\ UNCHANGED <<deployment, disk, files, holder, turn, linked, left, crashes, cleaning, cleaned, account>>

Read(t) ==
  /\ pc[t] = "read"
  /\ disk[turn[t]].form \in {"blank", "json"}
  /\ buffer' = [buffer EXCEPT ![t] = disk[turn[t]].entries]
  /\ pc' = [pc EXCEPT ![t] = "truncate"]
  /\ UNCHANGED <<deployment, disk, files, holder, turn, linked, left, crashes, cleaning, cleaned, account>>

(* Where a thread is while it holds the lock.                              *)
Inside == {"probe", "read", "truncate", "fill"}

(* The threads that have done the index and not the history.               *)
Between == {t \in Threads : turn[t] = "history" /\ pc[t] \in Inside}

(* What the history does not get when they are stopped, or no longer has.  *)
Lost(stopped) ==
  {Record(t) : t \in Between \cap stopped}
    \cup (IF \E t \in stopped : turn[t] = "history" /\ pc[t] = "fill" /\ linked[t] THEN listed ELSE {})

(* record_artifact returns an error.  Its caller gives up, except the      *)
(* benchmark's, which ignores it.                                          *)
GiveUp(t) ==
  /\ Unlock(t)
  /\ pc' = [pc EXCEPT ![t] = IF Record(t).kind = "benchmark_report" THEN "emit" ELSE "failed"]
  /\ left' = [left EXCEPT ![t] = Tail(@)]
  /\ cut' = cut \cup Lost({t})
  /\ UNCHANGED <<deployment, files, turn, buffer, linked, cleaning, cleaned>>

(* The file does not parse, or has gone since it was probed.               *)
FailRead(t) ==
  /\ pc[t] = "read"
  /\ disk[turn[t]].form \in {"torn", "absent"}
  /\ GiveUp(t)
  /\ UNCHANGED <<disk, crashes, listed, struck>>

Truncate(t) ==
  /\ pc[t] = "truncate"
  /\ disk' = [disk EXCEPT ![turn[t]] = Blank]
  /\ linked' = [linked EXCEPT ![t] = TRUE]
  /\ pc' = [pc EXCEPT ![t] = "fill"]
  /\ UNCHANGED <<deployment, files, holder, turn, buffer, left, crashes, cleaning, cleaned, account>>

(* Filling a file that another process has filled since, or half filled,   *)
(* may leave the tail of the longer text behind; a file without a name is  *)
(* filled for nobody.                                                      *)
Outcomes(t) ==
  LET there == disk[turn[t]]
      mine == Updated(turn[t], buffer[t], Record(t))
  IN  IF ~linked[t] THEN {there}
      ELSE IF there.form # "torn" /\ there.entries \subseteq mine THEN {Json(mine)}
      ELSE {Json(mine), Torn}

FillIndex(t) ==
  /\ pc[t] = "fill" /\ turn[t] = "index"
  /\ \E content \in Outcomes(t) : disk' = [disk EXCEPT !["index"] = content]
  /\ turn' = [turn EXCEPT ![t] = "history"]
  /\ pc' = [pc EXCEPT ![t] = "probe"]
  /\ listed' = {r \in listed : r.path # Record(t).path} \cup {Record(t)}
  /\ UNCHANGED <<deployment, files, holder, buffer, linked, left, crashes, cleaning, cleaned, struck, cut>>

FillHistory(t) ==
  /\ pc[t] = "fill" /\ turn[t] = "history"
  /\ \E content \in Outcomes(t) : disk' = [disk EXCEPT !["history"] = content]
  /\ Unlock(t)
  /\ pc' = [pc EXCEPT ![t] = "emit"]
  /\ left' = [left EXCEPT ![t] = Tail(@)]
  /\ cut' = cut \ {Record(t)}
  /\ UNCHANGED <<deployment, files, turn, buffer, linked, crashes, cleaning, cleaned, listed, struck>>

-------------------------------------------------------------------------------
(* What the stopped threads were filling stays blank or half written.      *)
Struck(stopped) ==
  LET filling == {turn[t] : t \in {u \in stopped : pc[u] = "fill" /\ linked[u]}}
  IN  /\ crashes < deployment.crashes
      /\ crashes' = crashes + 1
      /\ \E torn \in SUBSET filling : disk' = [f \in Summaries |-> IF f \in torn THEN Torn ELSE disk[f]]
      /\ struck' = struck \cup filling
      /\ listed' = IF "index" \in filling THEN {} ELSE listed

(* The file cannot be opened, or not be filled.                            *)
FailWrite(t) ==
  /\ pc[t] \in {"truncate", "fill"}
  /\ Struck({t})
  /\ GiveUp(t)

(* A process is killed.                                                    *)
Alive(p) == \E t \in Threads : Home(t) = p /\ pc[t] # "failed" /\ left[t] # <<>>

Crash(p) ==
  /\ Alive(p)
  /\ Struck({t \in Threads : Home(t) = p})
  /\ pc' = [t \in Threads |-> IF Home(t) = p THEN "failed" ELSE pc[t]]
  /\ holder' = {t \in holder : Home(t) # p}
  /\ cut' = cut \cup Lost({t \in Threads : Home(t) = p})
  /\ UNCHANGED <<deployment, files, turn, buffer, linked, left, cleaning, cleaned>>

(* clean_artifacts lists the directory and removes what it listed.         *)
StartClean ==
  /\ deployment.cleans /\ ~cleaned
  /\ cleaning' = (files \ Kept) \cup {f \in Summaries : disk[f] # Absent}
  /\ cleaned' = TRUE
  /\ UNCHANGED <<deployment, disk, files, holder, local, crashes, account>>

CleanOne ==
  \E e \in cleaning :
    /\ cleaning' = cleaning \ {e}
    /\ files' = files \ {e}
    /\ disk' = [f \in Summaries |-> IF f = e THEN Absent ELSE disk[f]]
    /\ linked' = [t \in Threads |-> linked[t] /\ turn[t] # e]
    /\ listed' = {r \in listed : r.path # e}
    /\ UNCHANGED <<deployment, holder, pc, turn, buffer, left, crashes, cleaned, struck, cut>>

Emit(t) ==
  \/ WriteArtifact(t) \/ TakeLock(t) \/ Probe(t) \/ Read(t) \/ FailRead(t)
  \/ Truncate(t) \/ FillIndex(t) \/ FillHistory(t)

Next ==
  \/ \E t \in Threads : Emit(t) \/ FailWrite(t)
  \/ \E p \in Processes : Crash(p)
  \/ StartClean \/ CleanOne

Spec == Init /\ [][Next]_vars

(* A thread that can go on does so.                                        *)
FairSpec == Spec /\ \A t \in Threads : WF_vars(Emit(t))

-------------------------------------------------------------------------------
Quiet == holder = {}
InIndex == disk["index"].entries
InHistory == disk["history"].entries

(* The processes that use the directory do so one at a time.               *)
InTurn == ~deployment.overlap \/ \A t, u \in Threads : Home(t) = Home(u)
Undisturbed == InTurn /\ deployment.crashes = 0 /\ ~cleaned

(* Between emissions of processes that run in turn the index is exactly    *)
(* the newest record of every path: however the threads interleave,        *)
(* whatever emission has failed half way, and after a kill or a failing    *)
(* disk that blanked or tore the index, of every path recorded since.      *)
IndexIsNewest == InTurn /\ ~cleaned /\ Quiet => InIndex = listed

(* ... and every entry of the index is filed under its run in the history, *)
(* unless the emission that put it there broke off before the history, or  *)
(* the history has been struck since, and the record has not been emitted  *)
(* again.                                                                  *)
HistoryCoversIndex ==
  InTurn /\ ~cleaned /\ Quiet =>
    \A e \in InIndex \ cut :
      \E h \in InHistory : h.run = e.run /\ e.path \in h.paths /\ e.kind \in h.kinds

(* No interleaving, crash or repeated emission lists a path or a run twice.*)
NoDuplicates ==
  /\ \A d, e \in InIndex : d.path = e.path => d = e
  /\ \A d, e \in InHistory : d.run = e.run => d = e

(* What the summaries name has been written: it exists, unless the files   *)
(* have been cleaned away.                                                 *)
ListedFilesExist ==
  ~cleaned =>
    /\ \A e \in InIndex : e.path \in files
    /\ \A h \in InHistory : h.paths \subseteq files

(* Between emissions of processes that run in turn a summary is whole or   *)
(* not there, unless it was struck half written; and a thread only fails   *)
(* after a kill or a failed write, or a clean under it.                    *)
SummariesReadable ==
  InTurn =>
    /\ Quiet => \A f \in Summaries \ struck : disk[f].form \in {"absent", "json"}
    /\ \A t \in Threads : pc[t] = "failed" => cleaned \/ crashes > 0

(* Both: a reader of the summaries finds them, and what they name.         *)
SummariesMatchFiles == ListedFilesExist /\ SummariesReadable

(* A summary that a kill left half written is never overwritten by what an *)
(* emission makes of it: it stays until `clean artifacts` removes it.      *)
TornIsKept ==
  \A f \in Summaries :
    InTurn /\ disk[f] = Torn /\ disk'[f] # Torn => f \in cleaning /\ disk'[f] = Absent
TornStaysTorn == [][TornIsKept]_vars

(* Every thread of an undisturbed process gets to emit everything.         *)
AllEmitted == <>(~Undisturbed \/ \A t \in Threads : left[t] = <<>>)
================================================================================
