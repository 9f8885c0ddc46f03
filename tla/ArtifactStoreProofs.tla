-------------------------- MODULE ArtifactStoreProofs --------------------------
(***************************************************************************)
(* Proofs about ArtifactStore, for every set of threads and processes,     *)
(* every list of jobs, any number of kills and failed writes and a clean:  *)
(*   - no summary ever lists a path or a run twice (NothingTwice);         *)
(*   - the summaries name what exists, and processes that run in turn      *)
(*     leave them readable, unless one was struck (SummariesTrue);         *)
(*   - what they left half written stays so until it is cleaned away       *)
(*     (TornForGood);                                                      *)
(* and for processes that run in turn, between emissions and as long as    *)
(* nothing is cleaned away:                                                *)
(*   - the index is the newest record of every path (IndexCorrect);        *)
(*   - the history has all that the index lists, but for what broke off    *)
(*     between the two (HistoryCovers).                                    *)
(***************************************************************************)
EXTENDS ArtifactStore, TLAPS

KeyOf(f, e) == IF f = "index" THEN e.path ELSE e.run

Unique(f, S) == \A d, e \in S : KeyOf(f, d) = KeyOf(f, e) => d = e

Shape ==
  /\ deployment \in Deployments
  /\ DOMAIN disk = Summaries
  /\ DOMAIN pc = Threads /\ DOMAIN turn = Threads /\ DOMAIN buffer = Threads
  /\ DOMAIN linked = Threads /\ DOMAIN left = Threads
  /\ \A t \in Threads : turn[t] \in Summaries

(* NoDuplicates alone is not inductive: what a thread has read and is      *)
(* about to write back must be free of duplicates, too.                    *)
UniqueInv ==
  /\ Shape
  /\ \A f \in Summaries : Unique(f, disk[f].entries)
  /\ \A t \in Threads : pc[t] \in {"truncate", "fill"} => Unique(turn[t], buffer[t])

-------------------------------------------------------------------------------
(* Adding a record replaces the entry of its key, in either summary.       *)
LEMMA UpdatedUnique ==
  ASSUME NEW f \in Summaries, NEW S, NEW r, Unique(f, S)
  PROVE  Unique(f, Updated(f, S, r))
<1>1. CASE f = "index"
  BY <1>1 DEF Unique, KeyOf, Updated, Indexed
<1>2. CASE f = "history"
  <2> DEFINE same == {e \in S : e.run = r.run}
             entry == [run |-> r.run,
                       paths |-> {r.path} \cup UNION {e.paths : e \in same},
                       kinds |-> {r.kind} \cup UNION {e.kinds : e \in same},
                       models |-> ({r.model} \ {"none"}) \cup UNION {e.models : e \in same}]
  <2>1. Updated(f, S, r) = (S \ same) \cup {entry}
    BY <1>2 DEF Updated, Grouped
  <2>2. entry.run = r.run
    OBVIOUS
  <2>3. \A e \in S \ same : e.run # r.run
    OBVIOUS
  <2> HIDE DEF entry, same
  <2>4. \A d, e \in (S \ same) \cup {entry} : d.run = e.run => d = e
    BY <2>2, <2>3, <1>2 DEF Unique, KeyOf
  <2> QED
    BY <2>1, <2>4, <1>2 DEF Unique, KeyOf
<1> QED
  BY <1>1, <1>2 DEF Summaries

(* Whatever a fill leaves in the file has no duplicates.                   *)
LEMMA OutcomeUnique ==
  ASSUME UniqueInv, NEW t \in Threads, pc[t] = "fill", NEW content \in Outcomes(t)
  PROVE  Unique(turn[t], content.entries)
<1> DEFINE mine == Updated(turn[t], buffer[t], Record(t))
<1>1. turn[t] \in Summaries /\ Unique(turn[t], disk[turn[t]].entries) /\ Unique(turn[t], buffer[t])
  BY DEF UniqueInv, Shape
<1>2. Unique(turn[t], mine)
  BY <1>1, UpdatedUnique
<1> HIDE DEF mine
<1>3. content = disk[turn[t]] \/ content = Json(mine) \/ content = Torn
  BY Zenon DEF Outcomes, mine
<1>4. Json(mine).entries = mine /\ Torn.entries = {}
  BY DEF Json, Torn
<1> QED
  BY <1>1, <1>2, <1>3, <1>4 DEF Unique

LEMMA UniqueInit == Init => UniqueInv
BY StoreAssumption DEF Init, DeploymentType, UniqueInv, Shape, Unique, Absent, Summaries

(* A kill or a failing disk leaves a summary as it is, or tears it.        *)
LEMMA StruckDisk ==
  ASSUME NEW stopped, Struck(stopped), DOMAIN disk = Summaries
  PROVE  /\ DOMAIN disk' = Summaries
         /\ \A f \in Summaries : disk'[f] = disk[f] \/ disk'[f] = Torn
         /\ Torn.entries = {} /\ Torn.form = "torn"
BY DEF Struck, Torn

(* A thread that gives up leaves everything to the others.                 *)
LEMMA GivesUp ==
  ASSUME NEW t \in Threads, GiveUp(t), Shape
  PROVE  /\ DOMAIN pc' = Threads /\ DOMAIN left' = Threads
         /\ pc'[t] \in {"emit", "failed"}
         /\ \A u \in Threads \ {t} : pc'[u] = pc[u] /\ left'[u] = left[u]
         /\ holder' = holder \ {t}
         /\ UNCHANGED <<deployment, files, turn, buffer, linked, cleaning, cleaned>>
BY DEF GiveUp, Unlock, Shape

(* A process that is killed takes its threads and their lock with it.      *)
LEMMA Killed ==
  ASSUME NEW p \in Processes, Crash(p)
  PROVE  /\ DOMAIN pc' = Threads
         /\ \A u \in Threads : pc'[u] = IF Home(u) = p THEN "failed" ELSE pc[u]
         /\ holder' = {u \in holder : Home(u) # p}
         /\ UNCHANGED <<deployment, files, turn, buffer, linked, left, cleaning, cleaned>>
BY DEF Crash

LEMMA UniqueNext == UniqueInv /\ [Next]_vars => UniqueInv'
<1> SUFFICES ASSUME UniqueInv, [Next]_vars PROVE UniqueInv'
  OBVIOUS
<1> USE DEF Shape
<1>1. ASSUME NEW t \in Threads, WriteArtifact(t) \/ TakeLock(t) PROVE UniqueInv'
  BY <1>1 DEF UniqueInv, WriteArtifact, TakeLock, Summaries, Unique
<1>2. ASSUME NEW t \in Threads, Probe(t) PROVE UniqueInv'
  BY <1>2 DEF UniqueInv, Probe, Unique
<1>3. ASSUME NEW t \in Threads, Read(t) PROVE UniqueInv'
  BY <1>3 DEF UniqueInv, Read, Unique
<1>4. ASSUME NEW t \in Threads, FailRead(t) PROVE UniqueInv'
  BY <1>4 DEF UniqueInv, FailRead, GiveUp, Unique
<1>5. ASSUME NEW t \in Threads, Truncate(t) PROVE UniqueInv'
  <2>1. Blank.entries = {}
    BY DEF Blank
  <2> QED
    BY <1>5, <2>1 DEF UniqueInv, Truncate, Unique
<1>6. ASSUME NEW t \in Threads, FillIndex(t) PROVE UniqueInv'
  <2>1. PICK content \in Outcomes(t) : disk' = [disk EXCEPT !["index"] = content]
    BY <1>6 DEF FillIndex
  <2>2. Unique("index", content.entries)
    BY <1>6, OutcomeUnique DEF FillIndex
  <2> QED
    BY <1>6, <2>1, <2>2 DEF UniqueInv, FillIndex, Summaries, Unique
<1>7. ASSUME NEW t \in Threads, FillHistory(t) PROVE UniqueInv'
  <2>1. PICK content \in Outcomes(t) : disk' = [disk EXCEPT !["history"] = content]
    BY <1>7 DEF FillHistory
  <2>2. Unique("history", content.entries)
    BY <1>7, OutcomeUnique DEF FillHistory
  <2> QED
    BY <1>7, <2>1, <2>2 DEF UniqueInv, FillHistory, Summaries, Unique
<1>8. ASSUME NEW t \in Threads, FailWrite(t) PROVE UniqueInv'
  BY <1>8, StruckDisk, GivesUp DEF FailWrite, UniqueInv, Unique
<1>9. ASSUME NEW p \in Processes, Crash(p) PROVE UniqueInv'
  <2>1. Struck({t \in Threads : Home(t) = p})
    BY <1>9 DEF Crash
  <2> QED
    BY <1>9, <2>1, StruckDisk, Killed DEF UniqueInv, Unique
<1>10. CASE StartClean
  BY <1>10 DEF UniqueInv, StartClean, local, Unique
<1>11. CASE CleanOne
  <2>1. PICK e \in cleaning :
          /\ disk' = [f \in Summaries |-> IF f = e THEN Absent ELSE disk[f]]
          /\ linked' = [t \in Threads |-> linked[t] /\ turn[t] # e]
          /\ UNCHANGED <<deployment, pc, turn, buffer, left>>
    BY <1>11 DEF CleanOne
  <2>2. Absent.entries = {}
    BY DEF Absent
  <2> QED
    BY <2>1, <2>2 DEF UniqueInv, Unique
<1>12. CASE UNCHANGED vars
  BY <1>12 DEF UniqueInv, vars, local, Unique
<1> QED
  BY <1>1, <1>2, <1>3, <1>4, <1>5, <1>6, <1>7, <1>8, <1>9, <1>10, <1>11, <1>12 DEF Next, Emit

(* No interleaving of threads and processes, no crash and no clean makes a *)
(* summary list a path or a run twice.                                     *)
THEOREM NothingTwice == Spec => []NoDuplicates
<1>1. UniqueInv => NoDuplicates
  BY DEF UniqueInv, Unique, KeyOf, NoDuplicates, InIndex, InHistory, Summaries
<1> QED
  BY <1>1, UniqueInit, UniqueNext, PTL DEF Spec

-------------------------------------------------------------------------------
(* Processes that run in turn: whoever is inside record_artifact is alone. *)

Away == {"emit", "failed"}

TurnInv ==
  /\ Shape
  /\ holder \subseteq Threads
  /\ \A t \in Threads : pc[t] \in Inside <=> t \in holder
  /\ \A t, u \in holder : t = u
  /\ \A t, u \in Threads : pc[t] \notin Away /\ pc[u] \notin Away => Home(t) = Home(u)

LEMMA TurnInit == Init => TurnInv
BY StoreAssumption DEF Init, DeploymentType, TurnInv, Shape, Inside, Away, Summaries

(* A deployment stays what it is, and what was cleaned has been cleaned.   *)
LEMMA ForGood ==
  ASSUME [Next]_vars
  PROVE  deployment' = deployment /\ (cleaned => cleaned')
<1>1. ASSUME NEW t \in Threads, FailRead(t) \/ FailWrite(t) PROVE UNCHANGED <<deployment, cleaned>>
  BY <1>1 DEF FailRead, FailWrite, GiveUp
<1>2. ASSUME NEW p \in Processes, Crash(p) PROVE UNCHANGED <<deployment, cleaned>>
  BY <1>2 DEF Crash
<1> QED
  BY <1>1, <1>2 DEF Next, Emit, WriteArtifact, TakeLock, Probe, Read, Truncate, FillIndex,
         FillHistory, StartClean, CleanOne, vars

LEMMA TurnNext ==
  ASSUME TurnInv, InTurn, [Next]_vars
  PROVE  TurnInv'
<1> USE DEF Shape, Inside, Away
<1>0. \A t \in Threads : Home(t)' = Home(t)
  BY ForGood DEF Home
<1>1. ASSUME NEW t \in Threads, WriteArtifact(t) PROVE TurnInv'
  <2>1. \A u \in Threads : pc[u] \notin Away => Home(u) = Home(t)
    BY <1>1 DEF InTurn, WriteArtifact, MayEmit
  <2>2. pc' = [pc EXCEPT ![t] = "lock"] /\ pc[t] = "emit"
    BY <1>1 DEF WriteArtifact
  <2>3. UNCHANGED <<deployment, disk, holder, turn, buffer, linked, left>>
    BY <1>1 DEF WriteArtifact
  <2> QED BY <1>0, <2>1, <2>2, <2>3 DEF TurnInv
<1>2. ASSUME NEW t \in Threads, TakeLock(t) PROVE TurnInv'
  <2>1. \A u \in holder : Home(u) = Home(t)
    BY <1>2 DEF TurnInv, TakeLock
  <2>2. holder = {} /\ holder' = {t}
    BY <1>2, <2>1 DEF TakeLock, Lock
  <2>3. /\ pc' = [pc EXCEPT ![t] = "probe"] /\ pc[t] = "lock"
        /\ turn' = [turn EXCEPT ![t] = "index"]
        /\ UNCHANGED <<deployment, disk, buffer, linked, left>>
    BY <1>2 DEF TakeLock
  <2> QED BY <1>0, <2>2, <2>3 DEF TurnInv, Summaries
<1>3. ASSUME NEW t \in Threads, Probe(t) \/ Read(t) \/ Truncate(t) PROVE TurnInv'
  <2>1. /\ DOMAIN pc' = Threads /\ pc[t] \in Inside /\ pc'[t] \in Inside
        /\ \A u \in Threads \ {t} : pc'[u] = pc[u]
    BY <1>3 DEF TurnInv, Probe, Read, Truncate
  <2>2. Shape' /\ holder' = holder
    BY <1>3 DEF TurnInv, Probe, Read, Truncate
  <2> QED BY <1>0, <2>1, <2>2 DEF TurnInv
<1>4. ASSUME NEW t \in Threads, FillIndex(t) PROVE TurnInv'
  <2>1. pc' = [pc EXCEPT ![t] = "probe"] /\ pc[t] \in Inside
    BY <1>4 DEF FillIndex
  <2>2. Shape' /\ holder' = holder
    BY <1>4 DEF TurnInv, FillIndex, Summaries
  <2> QED BY <1>0, <2>1, <2>2 DEF TurnInv
<1>5. ASSUME NEW t \in Threads, FillHistory(t) PROVE TurnInv'
  <2>1. pc' = [pc EXCEPT ![t] = "emit"] /\ holder' = holder \ {t}
    BY <1>5 DEF FillHistory, Unlock
  <2>2. Shape'
    BY <1>5 DEF TurnInv, FillHistory
  <2> QED BY <1>0, <2>1, <2>2 DEF TurnInv
<1>6. ASSUME NEW t \in Threads, FailRead(t) \/ FailWrite(t) PROVE TurnInv'
  <2>1. GiveUp(t) /\ Shape
    BY <1>6 DEF FailRead, FailWrite, TurnInv
  <2>2. DOMAIN disk' = Summaries
    BY <1>6, StruckDisk DEF FailRead, FailWrite, TurnInv
  <2> HIDE DEF Shape
  <2>3. Shape'
    BY <2>1, <2>2, GivesUp DEF Shape
  <2> QED BY <1>0, <2>1, <2>3, GivesUp DEF TurnInv
<1>7. ASSUME NEW p \in Processes, Crash(p) PROVE TurnInv'
  <2>1. DOMAIN disk' = Summaries
    BY <1>7, StruckDisk DEF Crash, TurnInv
  <2> QED BY <1>0, <1>7, <2>1, Killed DEF TurnInv
<1>8. CASE StartClean \/ CleanOne
  <2>1. UNCHANGED <<deployment, holder, pc, turn, buffer, left>>
    BY <1>8 DEF StartClean, CleanOne, local
  <2>2. DOMAIN disk' = Summaries /\ DOMAIN linked' = Threads
    BY <1>8 DEF StartClean, CleanOne, local, TurnInv
  <2> QED BY <1>0, <2>1, <2>2 DEF TurnInv
<1>9. CASE UNCHANGED vars
  BY <1>0, <1>9 DEF TurnInv, vars, local
<1> QED
  BY <1>1, <1>2, <1>3, <1>4, <1>5, <1>6, <1>7, <1>8, <1>9 DEF Next, Emit

-------------------------------------------------------------------------------
(* What processes that run in turn leave can be read: the file a thread    *)
(* fills is the blank one it has truncated, unless that was cleaned away   *)
(* in between, and a file that is torn or still blank has been struck.     *)
ReadableInv ==
  /\ TurnInv
  /\ crashes \in Nat /\ (struck # {} => crashes > 0)
  /\ ~cleaned => cleaning = {}
  /\ \A f \in Summaries :
       /\ disk[f].form \in {"absent", "blank", "torn", "json"}
       /\ disk[f].form = "absent" => disk[f] = Absent
       /\ disk[f].form = "torn" => disk[f] = Torn /\ f \in struck
       /\ disk[f].form = "blank" =>
            f \in struck \/ \E t \in holder : turn[t] = f /\ pc[t] = "fill" /\ linked[t]
  /\ \A t \in holder :
       /\ pc[t] = "read" /\ ~cleaned => disk[turn[t]].form # "absent"
       /\ pc[t] \in {"truncate", "fill"} => disk[turn[t]].form # "torn"
       /\ pc[t] = "fill" /\ linked[t] => disk[turn[t]] = Blank
  /\ \A t \in Threads : pc[t] = "failed" => cleaned \/ crashes > 0

(* What is blank or absent lists nothing.                                  *)
LEMMA Forms ==
  /\ Absent.entries = {} /\ Absent.form = "absent"
  /\ Blank.entries = {} /\ Blank.form = "blank"
  /\ Torn.entries = {} /\ Torn.form = "torn"
  /\ \A S : Json(S).entries = S /\ Json(S).form = "json"
BY DEF Absent, Blank, Torn, Json

(* What a kill or a failing disk makes of the summaries.                   *)
LEMMA StruckFiles ==
  ASSUME NEW stopped \in SUBSET Threads, Struck(stopped), DOMAIN disk = Summaries, crashes \in Nat,
         \A t \in Threads : turn[t] \in Summaries
  PROVE  /\ crashes' \in Nat /\ crashes' > 0
         /\ struck \subseteq struck'
         /\ \A t \in stopped : pc[t] = "fill" /\ linked[t] => turn[t] \in struck'
         /\ \A f \in Summaries :
              \/ disk'[f] = disk[f]
              \/ /\ disk'[f] = Torn /\ f \in struck'
                 /\ \E t \in stopped : turn[t] = f /\ pc[t] = "fill" /\ linked[t]
         /\ \/ listed' = {} /\ \E t \in stopped : turn[t] = "index" /\ pc[t] = "fill" /\ linked[t]
            \/ /\ listed' = listed
               /\ \A t \in stopped : ~(turn[t] = "index" /\ pc[t] = "fill" /\ linked[t])
<1> DEFINE at == {u \in stopped : pc[u] = "fill" /\ linked[u]}
           filling == {turn[t] : t \in at}
<1>1. /\ crashes' = crashes + 1
      /\ struck' = struck \cup filling
      /\ listed' = IF "index" \in filling THEN {} ELSE listed
  BY DEF Struck
<1>2. PICK torn \in SUBSET filling : disk' = [f \in Summaries |-> IF f \in torn THEN Torn ELSE disk[f]]
  BY DEF Struck
<1>3. \A f : f \in filling <=> \E t \in stopped : turn[t] = f /\ pc[t] = "fill" /\ linked[t]
  OBVIOUS
<1> HIDE DEF filling
<1> QED BY <1>1, <1>2, <1>3

LEMMA ReadableInit == Init => ReadableInv
BY TurnInit, StoreAssumption, Forms DEF Init, DeploymentType, ReadableInv, Summaries

(* Only who fills a file changes it, and what it leaves is whole.          *)
LEMMA FillsWhole ==
  ASSUME ReadableInv, NEW t \in Threads, FillIndex(t) \/ FillHistory(t)
  PROVE  /\ holder = {t} /\ pc[t] = "fill" /\ turn[t] \in Summaries /\ DOMAIN disk' = Summaries
         /\ \A f \in Summaries \ {turn[t]} : disk'[f] = disk[f]
         /\ \/ disk'[turn[t]] = disk[turn[t]] /\ ~linked[t]
            \/ disk'[turn[t]] = Json(Updated(turn[t], buffer[t], Record(t))) /\ linked[t]
<1> DEFINE mine == Updated(turn[t], buffer[t], Record(t))
<1>1. holder = {t} /\ pc[t] = "fill" /\ turn[t] \in Summaries /\ DOMAIN disk = Summaries
  BY DEF ReadableInv, TurnInv, Shape, Inside, FillIndex, FillHistory
<1>2. PICK content \in Outcomes(t) : disk' = [disk EXCEPT ![turn[t]] = content]
  BY DEF FillIndex, FillHistory
<1>3. Outcomes(t) = IF ~linked[t] THEN {disk[turn[t]]}
                    ELSE IF disk[turn[t]].form # "torn" /\ disk[turn[t]].entries \subseteq mine
                    THEN {Json(mine)}
                    ELSE {Json(mine), Torn}
  BY Zenon DEF Outcomes
<1>4. linked[t] => disk[turn[t]].form # "torn" /\ disk[turn[t]].entries = {}
  BY <1>1, Forms DEF ReadableInv
<1> HIDE DEF mine
<1>5. \/ content = disk[turn[t]] /\ ~linked[t]
      \/ content = Json(mine) /\ linked[t]
  BY <1>3, <1>4
<1>6. \/ disk'[turn[t]] = disk[turn[t]] /\ ~linked[t]
      \/ disk'[turn[t]] = Json(mine) /\ linked[t]
  BY <1>1, <1>2, <1>5
<1>7. DOMAIN disk' = Summaries /\ \A f \in Summaries \ {turn[t]} : disk'[f] = disk[f]
  BY <1>1, <1>2
<1> QED BY <1>1, <1>6, <1>7 DEF mine

LEMMA ReadableNext ==
  ASSUME ReadableInv, InTurn, [Next]_vars
  PROVE  ReadableInv'
<1> USE DEF Shape, Inside
<1>0. TurnInv /\ TurnInv'
  BY TurnNext DEF ReadableInv
<1>1. ASSUME NEW t \in Threads, WriteArtifact(t) PROVE ReadableInv'
  BY <1>0, <1>1 DEF ReadableInv, TurnInv, WriteArtifact, account
<1>2. ASSUME NEW t \in Threads, TakeLock(t) PROVE ReadableInv'
  <2>1. holder' = holder \cup {t} /\ pc[t] = "lock" /\ t \notin holder
    BY <1>0, <1>2 DEF TurnInv, TakeLock, Lock
  <2>2. holder' = {t}
    BY <1>0, <2>1 DEF TurnInv
  <2>3. holder = {}
    BY <2>1, <2>2
  <2> QED
    BY <1>0, <1>2, <2>2, <2>3 DEF ReadableInv, TurnInv, TakeLock, account
<1>3. ASSUME NEW t \in Threads, Probe(t) PROVE ReadableInv'
  <2>1. holder = {t} /\ turn[t] \in Summaries
    BY <1>0, <1>3 DEF TurnInv, Probe
  <2>2. CASE disk[turn[t]] = Absent
    BY <1>0, <1>3, <2>1, <2>2, Forms DEF ReadableInv, TurnInv, Probe, account
  <2>3. CASE disk[turn[t]] # Absent
    BY <1>0, <1>3, <2>1, <2>3 DEF ReadableInv, TurnInv, Probe, account
  <2> QED BY <2>2, <2>3
<1>4. ASSUME NEW t \in Threads, Read(t) PROVE ReadableInv'
  <2>1. holder = {t} /\ turn[t] \in Summaries
    BY <1>0, <1>4 DEF TurnInv, Read
  <2> QED
    BY <1>0, <1>4, <2>1 DEF ReadableInv, TurnInv, Read, account
<1>5. ASSUME NEW t \in Threads, FailRead(t) PROVE ReadableInv'
  <2>1. holder = {t} /\ turn[t] \in Summaries
    BY <1>0, <1>5 DEF TurnInv, FailRead
  <2>2. disk[turn[t]].form \in {"torn", "absent"} /\ pc[t] = "read"
    BY <1>5, <2>1 DEF FailRead
  <2>3. cleaned \/ crashes > 0
    BY <2>1, <2>2 DEF ReadableInv
  <2>4. holder' = {} /\ pc'[t] \in {"emit", "failed"}
    BY <1>0, <1>5, <2>1, GivesUp DEF FailRead, TurnInv
  <2>5. UNCHANGED <<disk, crashes, struck, cleaning, cleaned>>
    BY <1>5 DEF FailRead, GiveUp
  <2>6. \A u \in Threads : pc'[u] = "failed" => cleaned \/ crashes > 0
    BY <1>0, <1>5, <2>3, GivesUp DEF FailRead, TurnInv, ReadableInv
  <2>7. \A f \in Summaries : disk[f].form = "blank" => f \in struck
    BY <2>1, <2>2 DEF ReadableInv
  <2> QED
    BY <1>0, <2>4, <2>5, <2>6, <2>7 DEF ReadableInv
<1>6. ASSUME NEW t \in Threads, Truncate(t) PROVE ReadableInv'
  <2>1. holder = {t}
    BY <1>0, <1>6 DEF TurnInv, Truncate
  <2> QED
    BY <1>0, <1>6, <2>1, Forms DEF ReadableInv, TurnInv, Truncate, account
<1>7. ASSUME NEW t \in Threads, FillIndex(t) \/ FillHistory(t) PROVE ReadableInv'
  <2>1. /\ holder = {t} /\ turn[t] \in Summaries
        /\ \A f \in Summaries :
             disk'[f].form = "json" \/ (disk'[f] = disk[f] /\ ~(f = turn[t] /\ linked[t]))
    BY <1>7, FillsWhole, Forms
  <2>2. UNCHANGED <<crashes, struck, cleaning, cleaned>>
    BY <1>7 DEF FillIndex, FillHistory
  <2>3. /\ holder' \subseteq {t}
        /\ pc'[t] \in {"probe", "emit"} /\ \A u \in Threads \ {t} : pc'[u] = pc[u]
    BY <1>0, <1>7, <2>1 DEF TurnInv, FillIndex, FillHistory, Unlock
  <2>4. \A f \in Summaries : disk'[f].form = "blank" => f \in struck
    BY <2>1 DEF ReadableInv
  <2> QED BY <1>0, <2>1, <2>2, <2>3, <2>4 DEF ReadableInv
<1>8. ASSUME NEW stopped \in SUBSET Threads, Struck(stopped), holder' = holder \ stopped,
             \A t \in Threads \ stopped : pc'[t] = pc[t],
             UNCHANGED <<turn, linked, cleaning, cleaned>>
      PROVE  ReadableInv'
  <2>1. \A f \in Summaries :
          disk'[f] = disk[f] \/ (disk'[f] = Torn /\ f \in struck' /\ holder' = {})
    BY <1>0, <1>8, StruckFiles DEF ReadableInv, TurnInv
  <2>2. crashes' \in Nat /\ crashes' > 0 /\ struck \subseteq struck'
    BY <1>0, <1>8, StruckFiles DEF ReadableInv, TurnInv
  <2>3. \A t \in holder' : t \in holder /\ t \in Threads /\ pc'[t] = pc[t] /\ turn[t] \in Summaries
    BY <1>0, <1>8 DEF TurnInv
  <2>4. ASSUME NEW f \in Summaries, disk'[f].form = "blank"
        PROVE  f \in struck' \/ \E t \in holder' : turn[t] = f /\ pc'[t] = "fill" /\ linked[t]
    <3>1. disk[f].form = "blank" \/ f \in struck'
      BY <2>1, <2>4
    <3>2. CASE \E t \in holder : turn[t] = f /\ pc[t] = "fill" /\ linked[t]
      <4>1. PICK t \in holder : turn[t] = f /\ pc[t] = "fill" /\ linked[t]
        BY <3>2
      <4>2. CASE t \in stopped
        BY <1>0, <1>8, <4>1, <4>2, StruckFiles DEF ReadableInv, TurnInv
      <4>3. CASE t \notin stopped
        BY <1>0, <1>8, <4>1, <4>3 DEF TurnInv
      <4> QED BY <4>2, <4>3
    <3> QED BY <2>2, <3>1, <3>2 DEF ReadableInv
  <2> QED BY <1>0, <1>8, <2>1, <2>2, <2>3, <2>4, Forms DEF ReadableInv
<1>9. ASSUME NEW t \in Threads, FailWrite(t) PROVE ReadableInv'
  BY <1>0, <1>8, <1>9, GivesUp DEF FailWrite, TurnInv
<1>10. ASSUME NEW p \in Processes, Crash(p) PROVE ReadableInv'
  <2> DEFINE stopped == {t \in Threads : Home(t) = p}
  <2>1. Struck(stopped)
    BY <1>10 DEF Crash
  <2>2. holder' = holder \ stopped
    BY <1>0, <1>10, Killed DEF TurnInv
  <2> QED BY <1>8, <1>10, <2>1, <2>2, Killed
<1>11. CASE StartClean
  BY <1>0, <1>11 DEF ReadableInv, StartClean, local, account
<1>12. CASE CleanOne
  <2>1. cleaned /\ UNCHANGED <<deployment, holder, pc, turn, buffer, left, crashes, cleaned, struck>>
    BY <1>12 DEF CleanOne, ReadableInv
  <2>2. PICK e \in cleaning :
          /\ disk' = [f \in Summaries |-> IF f = e THEN Absent ELSE disk[f]]
          /\ linked' = [t \in Threads |-> linked[t] /\ turn[t] # e]
    BY <1>12 DEF CleanOne
  <2>3. \A f \in Summaries :
          /\ disk'[f] = Absent \/ (disk'[f] = disk[f] /\ f # e)
          /\ disk'[f].form = "absent" => disk'[f] = Absent
    BY <2>2, Forms DEF ReadableInv
  <2>4. \A t \in Threads : linked'[t] => linked[t]
    BY <2>2
  <2>5. \A t \in Threads : linked[t] /\ turn[t] # e => linked'[t]
    BY <2>2
  <2>6. \A t \in holder : linked'[t] => disk'[turn[t]] = disk[turn[t]]
    BY <1>0, <2>2 DEF TurnInv
  <2>7. \A t \in holder : t \in Threads /\ turn[t] \in Summaries
    BY <1>0 DEF TurnInv
  <2> HIDE DEF Shape
  <2>8. ASSUME NEW f \in Summaries, disk'[f].form = "blank"
        PROVE  f \in struck \/ \E t \in holder : turn[t] = f /\ pc[t] = "fill" /\ linked'[t]
    BY <2>3, <2>5, <2>7, <2>8, Forms DEF ReadableInv
  <2>9. \A f \in Summaries : /\ disk'[f].form \in {"absent", "blank", "torn", "json"}
                             /\ disk'[f].form = "torn" => disk'[f] = Torn /\ f \in struck
    BY <2>3, Forms DEF ReadableInv
  <2>10. ASSUME NEW t \in holder
         PROVE  /\ pc[t] \in {"truncate", "fill"} => disk'[turn[t]].form # "torn"
                /\ pc[t] = "fill" /\ linked'[t] => disk'[turn[t]] = Blank
    BY <2>3, <2>4, <2>6, <2>7, <2>10, Forms DEF ReadableInv
  <2> QED BY <1>0, <2>1, <2>3, <2>8, <2>9, <2>10 DEF ReadableInv
<1>13. CASE UNCHANGED vars
  BY <1>0, <1>13 DEF ReadableInv, vars, local, account
<1> QED
  BY <1>1, <1>2, <1>3, <1>4, <1>5, <1>6, <1>7, <1>9, <1>10, <1>11, <1>12, <1>13 DEF Next, Emit

(* Processes that run in turn are in turn for good, whatever they do.      *)
LEMMA TurnForGood == [Next]_vars /\ InTurn' => InTurn
BY ForGood DEF InTurn, Home

LEMMA ReadableAlways == Spec => [](InTurn => ReadableInv)
<1> DEFINE Inv == InTurn => ReadableInv
<1>1. Init => Inv
  BY ReadableInit
<1>2. Inv /\ [Next]_vars => Inv'
  BY TurnForGood, ReadableNext
<1> HIDE DEF Inv
<1>3. Spec => []Inv
  BY <1>1, <1>2, PTL DEF Spec
<1> QED BY <1>3 DEF Inv

(* A summary that a kill or a failing disk left half written stays so,     *)
(* whatever is emitted after it, until it is cleaned away: who opens a     *)
(* file to write it has read it, and it parsed.                            *)
THEOREM TornForGood == Spec => TornStaysTorn
<1> DEFINE Inv == InTurn => ReadableInv
<1>1. ASSUME ReadableInv, [Next]_vars, NEW f \in Summaries, disk[f] = Torn, disk'[f] # Torn
      PROVE  f \in cleaning /\ disk'[f] = Absent
  <2> USE DEF Shape, Inside
  <2>0. TurnInv /\ DOMAIN disk = Summaries /\ disk[f].form = "torn"
    BY <1>1, Forms DEF ReadableInv, TurnInv
  <2>1. ASSUME NEW t \in Threads,
               WriteArtifact(t) \/ TakeLock(t) \/ Probe(t) \/ Read(t) \/ FailRead(t)
        PROVE  FALSE
    BY <1>1, <2>1 DEF WriteArtifact, TakeLock, Probe, Read, FailRead
  <2>2. ASSUME NEW t \in Threads, Truncate(t) PROVE FALSE
    <3>1. t \in holder /\ pc[t] = "truncate"
      BY <2>0, <2>2 DEF TurnInv, Truncate
    <3>2. f # turn[t]
      BY <1>1, <2>0, <3>1 DEF ReadableInv
    <3> QED BY <1>1, <2>0, <2>2, <3>2 DEF Truncate
  <2>3. ASSUME NEW t \in Threads, FillIndex(t) \/ FillHistory(t) PROVE FALSE
    <3>1. t \in holder /\ pc[t] = "fill"
      BY <2>0, <2>3 DEF TurnInv, FillIndex, FillHistory
    <3>2. f # turn[t]
      BY <1>1, <2>0, <3>1 DEF ReadableInv
    <3> QED BY <1>1, <2>3, <3>2, FillsWhole
  <2>4. ASSUME NEW stopped, Struck(stopped) PROVE FALSE
    BY <1>1, <2>0, <2>4, StruckDisk
  <2>5. CASE StartClean
    BY <1>1, <2>5 DEF StartClean
  <2>6. CASE CleanOne
    BY <1>1, <2>0, <2>6 DEF CleanOne
  <2>7. CASE UNCHANGED vars
    BY <1>1, <2>7 DEF vars
  <2> QED
    BY <1>1, <2>1, <2>2, <2>3, <2>4, <2>5, <2>6, <2>7 DEF Next, Emit, FailWrite, Crash
<1>2. Inv /\ [Next]_vars => [TornIsKept]_vars
  BY <1>1 DEF TornIsKept
<1>3. Spec => []Inv
  BY ReadableAlways
<1> HIDE DEF Inv
<1> QED BY <1>2, <1>3, PTL DEF Spec, TornStaysTorn

-------------------------------------------------------------------------------
(* What the summaries name, under any number of processes and kills.       *)

PathsOf(f, e) == IF f = "index" THEN {e.path} ELSE e.paths
Exist(f, S, F) == \A e \in S : PathsOf(f, e) \subseteq F

(* A record is not read, buffered or listed before its artifact is there.  *)
FilesInv ==
  /\ Shape
  /\ ~cleaned =>
       /\ cleaning = {}
       /\ \A f \in Summaries : Exist(f, disk[f].entries, files)
       /\ \A t \in Threads :
            /\ pc[t] \in {"lock"} \cup Inside => Record(t).path \in files
            /\ pc[t] \in {"truncate", "fill"} => Exist(turn[t], buffer[t], files)

LEMMA UpdatedExist ==
  ASSUME NEW f \in Summaries, NEW S, NEW r, NEW F, Exist(f, S, F), r.path \in F
  PROVE  Exist(f, Updated(f, S, r), F)
<1>1. CASE f = "index"
  BY <1>1 DEF Exist, PathsOf, Updated, Indexed
<1>2. CASE f = "history"
  <2> DEFINE same == {e \in S : e.run = r.run}
             entry == [run |-> r.run,
                       paths |-> {r.path} \cup UNION {e.paths : e \in same},
                       kinds |-> {r.kind} \cup UNION {e.kinds : e \in same},
                       models |-> ({r.model} \ {"none"}) \cup UNION {e.models : e \in same}]
  <2>1. Updated(f, S, r) = (S \ same) \cup {entry}
    BY <1>2 DEF Updated, Grouped
  <2>2. \A e \in S : e.paths \subseteq F
    BY <1>2 DEF Exist, PathsOf
  <2>3. entry.paths = {r.path} \cup UNION {e.paths : e \in same}
    OBVIOUS
  <2>4. same \subseteq S
    OBVIOUS
  <2> HIDE DEF entry, same
  <2>5. entry.paths \subseteq F
    BY <2>2, <2>3, <2>4
  <2> QED BY <1>2, <2>1, <2>2, <2>5 DEF Exist, PathsOf
<1> QED BY <1>1, <1>2 DEF Summaries

LEMMA FilesInit == Init => FilesInv
BY StoreAssumption, Forms DEF Init, DeploymentType, FilesInv, Shape, Inside, Summaries, Exist

LEMMA FilesNext ==
  ASSUME FilesInv, [Next]_vars
  PROVE  FilesInv'
<1> USE DEF Shape, Inside, Record, Exist
<1>1. ASSUME NEW t \in Threads, WriteArtifact(t) PROVE FilesInv'
  BY <1>1 DEF FilesInv, WriteArtifact
<1>2. ASSUME NEW t \in Threads, TakeLock(t) PROVE FilesInv'
  BY <1>2 DEF FilesInv, TakeLock, Summaries
<1>3. ASSUME NEW t \in Threads, Probe(t) PROVE FilesInv'
  BY <1>3 DEF FilesInv, Probe
<1>4. ASSUME NEW t \in Threads, Read(t) PROVE FilesInv'
  BY <1>4 DEF FilesInv, Read
<1>5. ASSUME NEW t \in Threads, FailRead(t) \/ FailWrite(t) PROVE FilesInv'
  <2>1. GiveUp(t) /\ Shape
    BY <1>5 DEF FailRead, FailWrite, FilesInv
  <2>2. /\ DOMAIN disk' = Summaries
        /\ \A f \in Summaries : disk'[f] = disk[f] \/ disk'[f].entries = {}
    BY <1>5, StruckDisk DEF FailRead, FailWrite, FilesInv
  <2> HIDE DEF Shape
  <2>3. Shape'
    BY <2>1, <2>2, GivesUp DEF Shape
  <2> QED BY <2>1, <2>2, <2>3, GivesUp DEF FilesInv
<1>6. ASSUME NEW t \in Threads, Truncate(t) PROVE FilesInv'
  BY <1>6, Forms DEF FilesInv, Truncate
<1>7. ASSUME NEW t \in Threads, FillIndex(t) \/ FillHistory(t) PROVE FilesInv'
  <2>1. /\ pc[t] = "fill" /\ turn[t] \in Summaries
        /\ DOMAIN pc = Threads /\ DOMAIN turn = Threads /\ DOMAIN left = Threads
        /\ UNCHANGED <<deployment, files, buffer, linked, cleaning, cleaned>>
        /\ \A u \in Threads \ {t} : pc'[u] = pc[u] /\ turn'[u] = turn[u] /\ left'[u] = left[u]
    BY <1>7 DEF FilesInv, FillIndex, FillHistory
  <2>2. PICK content \in Outcomes(t) : disk' = [disk EXCEPT ![turn[t]] = content]
    BY <1>7 DEF FillIndex, FillHistory
  <2>3. ~cleaned => Exist(turn[t], content.entries, files)
    <3> DEFINE mine == Updated(turn[t], buffer[t], Record(t))
    <3>1. ~cleaned => Exist(turn[t], mine, files)
      BY <2>1, UpdatedExist DEF FilesInv
    <3>2. content = disk[turn[t]] \/ content = Json(mine) \/ content = Torn
      BY Zenon DEF Outcomes
    <3> HIDE DEF mine
    <3>3. Json(mine).entries = mine /\ Torn.entries = {}
      BY DEF Json, Torn
    <3> QED BY <2>1, <3>1, <3>2, <3>3 DEF FilesInv
  <2>4. ~cleaned => \A f \in Summaries : Exist(f, disk'[f].entries, files)
    BY <2>2, <2>3 DEF FilesInv
  <2>5. Shape'
    BY <1>7, <2>1, <2>2 DEF FilesInv, FillIndex, FillHistory, Summaries
  <2>6. \/ pc'[t] = "probe" /\ left'[t] = left[t]
        \/ pc'[t] = "emit"
    BY <1>7, <2>1 DEF FilesInv, FillIndex, FillHistory
  <2> QED BY <2>1, <2>4, <2>5, <2>6 DEF FilesInv
<1>8. ASSUME NEW p \in Processes, Crash(p) PROVE FilesInv'
  <2>1. Struck({t \in Threads : Home(t) = p})
    BY <1>8 DEF Crash
  <2> QED BY <1>8, <2>1, StruckDisk, Killed DEF FilesInv
<1>9. CASE StartClean
  BY <1>9 DEF FilesInv, StartClean, local
<1>10. CASE CleanOne
  BY <1>10 DEF FilesInv, CleanOne
<1>11. CASE UNCHANGED vars
  BY <1>11 DEF FilesInv, vars, local
<1> QED
  BY <1>1, <1>2, <1>3, <1>4, <1>5, <1>6, <1>7, <1>8, <1>9, <1>10, <1>11 DEF Next, Emit

(* Whatever is listed has been written, for any processes and kills, until *)
(* the files are cleaned away; and processes that run in turn leave        *)
(* summaries that parse, except one that was struck, and have no thread    *)
(* that gives up without such a reason.                                    *)
THEOREM SummariesTrue == Spec => []SummariesMatchFiles
<1>1. FilesInv => ListedFilesExist
  BY DEF FilesInv, ListedFilesExist, Exist, PathsOf, InIndex, InHistory, Summaries
<1>2. (InTurn => ReadableInv) => SummariesReadable
  BY DEF ReadableInv, SummariesReadable, Quiet
<1>3. Spec => []FilesInv
  BY FilesInit, FilesNext, PTL DEF Spec
<1> QED
  BY <1>1, <1>2, <1>3, ReadableAlways, PTL DEF SummariesMatchFiles

-------------------------------------------------------------------------------
(* As long as nothing is cleaned away the index is what has been put there *)
(* since it was last struck, except while a thread fills it.               *)

Filling(f) == \E t \in holder : turn[t] = f /\ pc[t] = "fill"

AloneInv ==
  /\ ReadableInv
  /\ \A t \in Threads : linked[t]
  /\ \A t \in holder : turn[t] = "index" /\ pc[t] \in {"truncate", "fill"} => buffer[t] = listed
  /\ ~Filling("index") => InIndex = listed

LEMMA AloneInit == Init => AloneInv
BY ReadableInit, StoreAssumption, Forms DEF Init, DeploymentType, AloneInv, InIndex, Summaries

LEMMA AloneNext ==
  ASSUME AloneInv, InTurn, ~cleaned', [Next]_vars
  PROVE  AloneInv'
<1> USE DEF InIndex, Filling
<1>0. /\ ReadableInv /\ ReadableInv' /\ TurnInv /\ TurnInv'
      /\ ~cleaned /\ cleaning = {}
      /\ DOMAIN disk = Summaries /\ DOMAIN pc = Threads /\ DOMAIN turn = Threads
      /\ DOMAIN buffer = Threads /\ DOMAIN linked = Threads
      /\ holder \subseteq Threads /\ \A t \in Threads : turn[t] \in Summaries
  BY ReadableNext, ForGood DEF AloneInv, ReadableInv, TurnInv, Shape
<1>1. ASSUME NEW t \in Threads, WriteArtifact(t) PROVE AloneInv'
  BY <1>0, <1>1 DEF AloneInv, TurnInv, Inside, WriteArtifact, account
<1>2. ASSUME NEW t \in Threads, TakeLock(t) PROVE AloneInv'
  <2>1. holder' = holder \cup {t} /\ pc[t] = "lock" /\ t \notin holder
    BY <1>0, <1>2 DEF TurnInv, Inside, TakeLock, Lock
  <2>2. holder' = {t}
    BY <1>0, <2>1 DEF TurnInv
  <2>3. holder = {} /\ pc'[t] = "probe"
    BY <1>0, <1>2, <2>1, <2>2 DEF TakeLock
  <2> QED
    BY <1>0, <1>2, <2>2, <2>3 DEF AloneInv, TakeLock, account
<1>3. ASSUME NEW t \in Threads, Probe(t) PROVE AloneInv'
  <2>1. holder = {t}
    BY <1>0, <1>3 DEF TurnInv, Inside, Probe
  <2>2. /\ UNCHANGED <<disk, holder, turn, linked, listed>>
        /\ pc[t] = "probe" /\ pc'[t] \in {"truncate", "read"}
        /\ pc'[t] = "truncate" => buffer'[t] = {} /\ disk[turn[t]] = Absent
    BY <1>0, <1>3 DEF Probe, account
  <2>3. InIndex = listed
    BY <2>1, <2>2 DEF AloneInv
  <2>4. pc'[t] = "truncate" /\ turn[t] = "index" => buffer'[t] = listed
    BY <2>2, <2>3, Forms
  <2> QED
    BY <1>0, <2>1, <2>2, <2>3, <2>4 DEF AloneInv
<1>4. ASSUME NEW t \in Threads, Read(t) PROVE AloneInv'
  <2>1. holder = {t}
    BY <1>0, <1>4 DEF TurnInv, Inside, Read
  <2> QED
    BY <1>0, <1>4, <2>1 DEF AloneInv, Read, account
<1>5. ASSUME NEW t \in Threads, FailRead(t) PROVE AloneInv'
  <2>1. holder = {t} /\ holder' = {}
    BY <1>0, <1>5 DEF TurnInv, Inside, FailRead, GiveUp, Unlock
  <2>2. UNCHANGED <<disk, linked, listed>> /\ pc[t] = "read"
    BY <1>5 DEF FailRead, GiveUp
  <2> QED
    BY <1>0, <2>1, <2>2 DEF AloneInv
<1>6. ASSUME NEW t \in Threads, Truncate(t) PROVE AloneInv'
  <2>1. holder = {t}
    BY <1>0, <1>6 DEF TurnInv, Inside, Truncate
  <2> QED
    BY <1>0, <1>6, <2>1 DEF AloneInv, Truncate, account
<1>7. ASSUME NEW t \in Threads, FillIndex(t) PROVE AloneInv'
  <2>1. holder = {t} /\ holder' = {t} /\ linked[t] /\ buffer[t] = listed /\ turn[t] = "index"
    BY <1>0, <1>7, FillsWhole DEF AloneInv, FillIndex
  <2>2. listed' = Indexed(listed, Record(t))
    BY <1>7 DEF FillIndex, Indexed
  <2>3. InIndex' = Indexed(listed, Record(t))
    BY <1>7, <1>0, <2>1, FillsWhole, Forms DEF Updated
  <2>4. turn'[t] = "history" /\ linked' = linked
    BY <1>0, <1>7 DEF FillIndex
  <2> QED
    BY <1>0, <2>1, <2>2, <2>3, <2>4 DEF AloneInv
<1>8. ASSUME NEW t \in Threads, FillHistory(t) PROVE AloneInv'
  <2>1. holder = {t} /\ holder' = {} /\ turn[t] = "history" /\ UNCHANGED <<linked, listed>>
    BY <1>0, <1>8, FillsWhole DEF FillHistory, Unlock
  <2>2. disk'["index"] = disk["index"]
    BY <1>0, <1>8, <2>1, FillsWhole DEF Summaries
  <2> QED
    BY <1>0, <2>1, <2>2 DEF AloneInv
<1>9. ASSUME NEW stopped \in SUBSET Threads, Struck(stopped), holder' = holder \ stopped,
             \A t \in Threads \ stopped : pc'[t] = pc[t],
             UNCHANGED <<turn, buffer, linked>>
      PROVE  AloneInv'
  <2>1. /\ \/ disk'["index"] = disk["index"]
           \/ /\ disk'["index"] = Torn
              /\ \E t \in stopped : turn[t] = "index" /\ pc[t] = "fill" /\ linked[t]
        /\ \/ listed' = {} /\ \E t \in stopped : turn[t] = "index" /\ pc[t] = "fill" /\ linked[t]
           \/ /\ listed' = listed
              /\ \A t \in stopped : ~(turn[t] = "index" /\ pc[t] = "fill" /\ linked[t])
    BY <1>0, <1>9, StruckFiles DEF ReadableInv, Summaries
  <2>2. CASE \E t \in stopped : turn[t] = "index" /\ pc[t] = "fill" /\ linked[t]
    <3>1. PICK t \in stopped : turn[t] = "index" /\ pc[t] = "fill" /\ linked[t]
      BY <2>2
    <3>2. t \in holder /\ disk["index"] = Blank /\ holder' = {}
      BY <1>0, <1>9, <3>1 DEF ReadableInv, TurnInv, Inside
    <3>3. listed' = {} /\ InIndex' = {}
      BY <2>1, <3>1, <3>2, Forms
    <3> QED BY <1>0, <1>9, <3>2, <3>3 DEF AloneInv
  <2>3. CASE \A t \in stopped : ~(turn[t] = "index" /\ pc[t] = "fill" /\ linked[t])
    <3>1. listed' = listed /\ disk'["index"] = disk["index"]
      BY <2>1, <2>3
    <3>2. \A t \in holder \ stopped : t \in Threads \ stopped /\ pc'[t] = pc[t]
      BY <1>0, <1>9
    <3>3. Filling("index") => Filling("index")'
      BY <1>0, <1>9, <2>3, <3>2 DEF AloneInv
    <3> QED BY <1>0, <1>9, <3>1, <3>2, <3>3 DEF AloneInv
  <2> QED BY <2>2, <2>3
<1>10. ASSUME NEW t \in Threads, FailWrite(t) PROVE AloneInv'
  <2>1. Shape
    BY <1>0 DEF TurnInv
  <2> QED BY <1>9, <1>10, <2>1, GivesUp DEF FailWrite
<1>11. ASSUME NEW p \in Processes, Crash(p) PROVE AloneInv'
  <2> DEFINE stopped == {t \in Threads : Home(t) = p}
  <2>1. Struck(stopped)
    BY <1>11 DEF Crash
  <2>2. holder' = holder \ stopped
    BY <1>0, <1>11, Killed
  <2> QED BY <1>9, <1>11, <2>1, <2>2, Killed
<1>12. CASE StartClean
  BY <1>12 DEF StartClean
<1>13. CASE CleanOne
  BY <1>0, <1>13 DEF CleanOne
<1>14. CASE UNCHANGED vars
  BY <1>0, <1>14 DEF AloneInv, vars, local, account
<1> QED
  BY <1>1, <1>2, <1>3, <1>4, <1>5, <1>6, <1>7, <1>8, <1>10, <1>11, <1>12, <1>13, <1>14 DEF Next, Emit

(* Processes that run in turn keep the index exact until it is cleaned:    *)
(* whenever nobody is emitting, it lists the newest record of every path   *)
(* and nothing else, whatever emission has failed half way; a kill or a    *)
(* failing disk that hits the index itself makes it start again.  For any  *)
(* number of threads and processes and any jobs.                           *)
THEOREM IndexCorrect == Spec => []IndexIsNewest
<1> DEFINE Inv == InTurn /\ ~cleaned => AloneInv
<1>1. Inv => IndexIsNewest
  BY DEF AloneInv, IndexIsNewest, Quiet, Filling
<1>2. Init => Inv
  BY AloneInit
<1>3. Inv /\ [Next]_vars => Inv'
  <2> SUFFICES ASSUME Inv, [Next]_vars, InTurn', ~cleaned' PROVE AloneInv'
    OBVIOUS
  <2> QED
    BY TurnForGood, ForGood, AloneNext
<1> HIDE DEF Inv
<1> QED
  BY <1>1, <1>2, <1>3, PTL DEF Spec

-------------------------------------------------------------------------------
(* The history, of the same deployments.                                   *)

Covers(S, L) == \A e \in L : \E h \in S : h.run = e.run /\ e.path \in h.paths /\ e.kind \in h.kinds

(* What the history owes the index: the records that were cut, and those   *)
(* on their way from one to the other.                                     *)
Owed == cut \cup {Record(t) : t \in Between}

(* The history covers what was listed before, until its holder fills it    *)
(* from a buffer that does.                                                *)
CoverInv ==
  /\ AloneInv
  /\ ~Filling("history") => Covers(InHistory, listed \ Owed)
  /\ \A t \in holder :
       turn[t] = "history" /\ pc[t] \in {"truncate", "fill"} => Covers(buffer[t], listed \ Owed)

(* The entry of a run gathers what was there and what comes.               *)
LEMMA GroupedCovers ==
  ASSUME NEW S, NEW L, NEW r, Covers(S, L)
  PROVE  Covers(Grouped(S, r), L \cup {r})
<1> DEFINE same == {e \in S : e.run = r.run}
           entry == [run |-> r.run,
                     paths |-> {r.path} \cup UNION {e.paths : e \in same},
                     kinds |-> {r.kind} \cup UNION {e.kinds : e \in same},
                     models |-> ({r.model} \ {"none"}) \cup UNION {e.models : e \in same}]
<1>1. Grouped(S, r) = (S \ same) \cup {entry}
  BY DEF Grouped
<1>2. /\ entry.run = r.run /\ r.path \in entry.paths /\ r.kind \in entry.kinds
      /\ \A h \in same : h.paths \subseteq entry.paths /\ h.kinds \subseteq entry.kinds
  OBVIOUS
<1>3. \A h \in S : h \in same <=> h.run = r.run
  OBVIOUS
<1> HIDE DEF same, entry
<1>4. ASSUME NEW e \in L
      PROVE  \E h \in (S \ same) \cup {entry} : h.run = e.run /\ e.path \in h.paths /\ e.kind \in h.kinds
  <2>1. PICK h \in S : h.run = e.run /\ e.path \in h.paths /\ e.kind \in h.kinds
    BY DEF Covers
  <2>2. CASE h \in same
    BY <1>2, <1>3, <2>1, <2>2
  <2>3. CASE h \notin same
    BY <2>1, <2>3
  <2> QED BY <2>2, <2>3
<1> QED BY <1>1, <1>2, <1>4 DEF Covers

LEMMA CoverInit == Init => CoverInv
BY AloneInit DEF Init, CoverInv, Covers

(* Less has to be covered when less is listed or more is owed.             *)
LEMMA CoversLess ==
  ASSUME NEW S, NEW L, NEW K, Covers(S, L), K \subseteq L
  PROVE  Covers(S, K)
BY DEF Covers

LEMMA CoverNext ==
  ASSUME CoverInv, InTurn, ~cleaned', [Next]_vars
  PROVE  CoverInv'
<1> USE DEF InHistory, Filling
<1>0. /\ AloneInv /\ AloneInv' /\ ReadableInv /\ TurnInv /\ Shape
      /\ ~cleaned /\ cleaning = {}
      /\ DOMAIN disk = Summaries /\ DOMAIN pc = Threads /\ DOMAIN turn = Threads
      /\ DOMAIN buffer = Threads /\ DOMAIN left = Threads
      /\ holder \subseteq Threads /\ \A t \in Threads : turn[t] \in Summaries
      /\ \A t \in Threads : pc[t] \in Inside <=> t \in holder
      /\ \A t, u \in holder : t = u
  BY AloneNext, ForGood DEF CoverInv, AloneInv, ReadableInv, TurnInv, Shape
<1>a. \A t : t \in Between <=> t \in holder /\ turn[t] = "history"
  BY <1>0 DEF Between
(* As long as nobody comes to or leaves the history, the same is owed.     *)
<1>b. ASSUME UNCHANGED <<cut, left>>, Between' = Between PROVE Owed' = Owed
  BY <1>b DEF Owed, Record
<1>1. ASSUME NEW t \in Threads, WriteArtifact(t) PROVE CoverInv'
  <2>1. /\ UNCHANGED <<disk, holder, turn, buffer, left, listed, struck, cut>>
        /\ pc' = [pc EXCEPT ![t] = "lock"] /\ pc[t] = "emit" /\ t \notin holder
    BY <1>0, <1>1 DEF WriteArtifact, account, Inside
  <2>2. Owed' = Owed
    BY <1>0, <1>b, <2>1 DEF Between, Inside
  <2> QED BY <1>0, <2>1, <2>2 DEF CoverInv
<1>2. ASSUME NEW t \in Threads, TakeLock(t) PROVE CoverInv'
  <2>1. /\ UNCHANGED <<disk, buffer, left, listed, struck, cut>>
        /\ pc' = [pc EXCEPT ![t] = "probe"] /\ pc[t] = "lock" /\ t \notin holder
        /\ turn' = [turn EXCEPT ![t] = "index"] /\ holder' = holder \cup {t}
    BY <1>0, <1>2 DEF TakeLock, Lock, account, Inside
  <2>2. Owed' = Owed
    BY <1>0, <1>b, <2>1 DEF Between, Inside
  <2> QED BY <1>0, <2>1, <2>2 DEF CoverInv
<1>3. ASSUME NEW t \in Threads, Probe(t) PROVE CoverInv'
  <2>1. /\ UNCHANGED <<disk, holder, turn, left, listed, struck, cut>>
        /\ pc[t] = "probe" /\ pc'[t] \in {"truncate", "read"}
        /\ \A u \in Threads \ {t} : pc'[u] = pc[u]
        /\ pc'[t] = "truncate" => buffer'[t] = {} /\ disk[turn[t]] = Absent
    BY <1>0, <1>3 DEF Probe, account
  <2>2. holder = {t} /\ Owed' = Owed
    BY <1>0, <1>b, <2>1 DEF Between, Inside
  <2>3. turn[t] = "history" /\ pc'[t] = "truncate" => Covers(buffer'[t], listed \ Owed)
    BY <2>1, <2>2, Forms DEF CoverInv
  <2> QED BY <1>0, <2>1, <2>2, <2>3 DEF CoverInv
<1>4. ASSUME NEW t \in Threads, Read(t) PROVE CoverInv'
  <2>1. /\ UNCHANGED <<disk, holder, turn, left, listed, struck, cut>>
        /\ pc[t] = "read" /\ pc'[t] = "truncate"
        /\ \A u \in Threads \ {t} : pc'[u] = pc[u]
        /\ buffer'[t] = disk[turn[t]].entries
    BY <1>0, <1>4 DEF Read, account
  <2>2. holder = {t} /\ Owed' = Owed
    BY <1>0, <1>b, <2>1 DEF Between, Inside
  <2> QED BY <1>0, <2>1, <2>2 DEF CoverInv
<1>5. ASSUME NEW t \in Threads, Truncate(t) PROVE CoverInv'
  <2>1. /\ UNCHANGED <<holder, turn, buffer, left, listed, struck, cut>>
        /\ pc[t] = "truncate" /\ pc'[t] = "fill"
        /\ \A u \in Threads \ {t} : pc'[u] = pc[u]
        /\ \A f \in Summaries \ {turn[t]} : disk'[f] = disk[f]
    BY <1>0, <1>5 DEF Truncate, account
  <2>2. holder = {t} /\ Owed' = Owed
    BY <1>0, <1>b, <2>1 DEF Between, Inside
  <2> QED BY <1>0, <2>1, <2>2 DEF CoverInv, Summaries
<1>6. ASSUME NEW t \in Threads, FillIndex(t) PROVE CoverInv'
  <2>1. /\ holder = {t} /\ holder' = {t} /\ turn[t] = "index" /\ pc[t] = "fill"
        /\ turn' = [turn EXCEPT ![t] = "history"] /\ pc' = [pc EXCEPT ![t] = "probe"]
        /\ UNCHANGED <<buffer, left, struck, cut>>
        /\ listed' \subseteq listed \cup {Record(t)}
    BY <1>0, <1>6, FillsWhole DEF FillIndex
  <2>2. disk'["history"] = disk["history"]
    BY <1>0, <1>6, <2>1, FillsWhole DEF Summaries
  <2>3. Between = {} /\ Between' = {t}
    BY <1>0, <1>a, <2>1 DEF Between, Inside
  <2>4. Owed' = Owed \cup {Record(t)}
    BY <2>1, <2>3 DEF Owed, Record
  <2>5. Covers(InHistory, listed \ Owed)
    BY <2>1 DEF CoverInv
  <2>6. Covers(InHistory, (listed \ Owed)')
    BY <2>1, <2>4, <2>5, CoversLess
  <2> QED BY <1>0, <2>1, <2>2, <2>6 DEF CoverInv
<1>7. ASSUME NEW t \in Threads, FillHistory(t) PROVE CoverInv'
  <2> DEFINE content == Grouped(buffer[t], Record(t))
  <2>1. /\ holder = {t} /\ holder' = {} /\ turn[t] = "history" /\ pc[t] = "fill"
        /\ UNCHANGED <<turn, struck, listed>>
        /\ cut' = cut \ {Record(t)} /\ pc' = [pc EXCEPT ![t] = "emit"]
    BY <1>0, <1>7, FillsWhole DEF FillHistory, Unlock
  <2>2. disk'["history"] = Json(content)
    BY <1>0, <1>7, <2>1, FillsWhole DEF AloneInv, Updated, Summaries
  <2>3. InHistory' = content
    BY <2>2, Forms
  <2>4. Between = {t} /\ Between' = {}
    BY <1>0, <1>a, <2>1 DEF Between, Inside
  <2>5. Owed = cut \cup {Record(t)} /\ Owed' = cut \ {Record(t)}
    BY <2>1, <2>4 DEF Owed
  <2>6. Covers(content, (listed \ Owed) \cup {Record(t)})
    BY <2>1, GroupedCovers DEF CoverInv
  <2> HIDE DEF content
  <2>7. (listed \ Owed)' \subseteq (listed \ Owed) \cup {Record(t)}
    BY <2>1, <2>5
  <2>8. Covers(content, (listed \ Owed)')
    BY <2>6, <2>7, CoversLess
  <2> QED BY <1>0, <2>1, <2>3, <2>8 DEF CoverInv
<1>8. ASSUME NEW t \in Threads, FailRead(t) PROVE CoverInv'
  <2>1. /\ holder = {t} /\ holder' = {} /\ pc[t] = "read" /\ pc'[t] \in Away
        /\ cut' = cut \cup {Record(u) : u \in Between \cap {t}}
        /\ UNCHANGED <<disk, turn, listed>> /\ \A u \in Threads \ {t} : pc'[u] = pc[u]
    <3>1. GiveUp(t) /\ pc[t] = "read" /\ UNCHANGED <<disk, listed>>
      BY <1>8 DEF FailRead
    <3>2. holder = {t}
      BY <1>0, <3>1 DEF Inside
    <3>3. holder' = {} /\ pc'[t] \in Away /\ turn' = turn /\ \A u \in Threads \ {t} : pc'[u] = pc[u]
      BY <1>0, <3>1, <3>2, GivesUp DEF Away
    <3>4. cut' = cut \cup {Record(u) : u \in Between \cap {t}}
      BY <3>1 DEF GiveUp, Lost
    <3> QED BY <3>1, <3>2, <3>3, <3>4
  <2>2. Between \subseteq {t} /\ Between' = {}
    BY <1>0, <1>a, <2>1 DEF Between, Inside, Away
  <2>3. Owed' = Owed
    BY <2>1, <2>2 DEF Owed
  <2> QED BY <1>0, <2>1, <2>3 DEF CoverInv
(* Who is stopped while it owes the history a record goes on to owe it.    *)
<1>9. ASSUME NEW stopped \in SUBSET Threads, Struck(stopped), holder' = holder \ stopped,
             \A t \in Threads \ stopped : pc'[t] = pc[t] /\ left'[t] = left[t],
             \A t \in stopped : pc'[t] \in Away,
             cut' = cut \cup Lost(stopped),
             UNCHANGED <<turn, buffer, linked>>
      PROVE  CoverInv'
  <2>1. Between' = Between \ stopped
    BY <1>0, <1>9 DEF Between, Inside, Away
  <2>2. \A u \in Between \ stopped : Record(u)' = Record(u)
    BY <1>9 DEF Record, Between
  <2>3. Owed \subseteq Owed'
    <3>1. {Record(u) : u \in Between}' = {Record(u) : u \in Between \ stopped}
      BY <2>1, <2>2
    <3> QED BY <1>9, <3>1 DEF Owed, Lost
  <2>4. listed' \subseteq listed
    BY <1>0, <1>9, StruckFiles DEF ReadableInv
  <2>5. CASE \E t \in stopped : turn[t] = "history" /\ pc[t] = "fill" /\ linked[t]
    <3>1. holder' = {}
      BY <1>0, <1>9, <2>5 DEF Inside
    <3>2. listed \subseteq Owed'
      BY <1>9, <2>5 DEF Lost, Owed
    <3>3. (listed \ Owed)' = {}
      BY <2>4, <3>2
    <3> QED BY <1>0, <3>1, <3>3 DEF CoverInv, Covers
  <2>6. CASE \A t \in stopped : ~(turn[t] = "history" /\ pc[t] = "fill" /\ linked[t])
    <3>1. disk'["history"] = disk["history"]
      BY <1>0, <1>9, <2>6, StruckFiles DEF ReadableInv, Summaries
    <3>2. \A t \in holder' : t \in holder /\ t \in Threads \ stopped
      BY <1>0, <1>9
    <3>3. (listed \ Owed)' \subseteq listed \ Owed
      BY <2>3, <2>4
    <3>4. ASSUME ~Filling("history")' PROVE Covers(InHistory, listed \ Owed)'
      <4>1. ~Filling("history")
        BY <1>0, <1>9, <2>6, <3>4 DEF AloneInv
      <4>2. Covers(InHistory, listed \ Owed)
        BY <4>1 DEF CoverInv
      <4> QED BY <3>1, <3>3, <4>2, CoversLess
    <3>5. ASSUME NEW t \in holder', turn'[t] = "history", pc'[t] \in {"truncate", "fill"}
          PROVE  Covers(buffer'[t], (listed \ Owed)')
      <4>1. Covers(buffer[t], listed \ Owed)
        BY <1>9, <3>2, <3>5 DEF CoverInv
      <4> QED BY <1>9, <3>3, <4>1, CoversLess
    <3> QED BY <1>0, <3>4, <3>5 DEF CoverInv
  <2> QED BY <2>5, <2>6
<1>10. ASSUME NEW t \in Threads, FailWrite(t) PROVE CoverInv'
  BY <1>0, <1>9, <1>10, GivesUp DEF FailWrite, GiveUp, Away
<1>11. ASSUME NEW p \in Processes, Crash(p) PROVE CoverInv'
  <2> DEFINE stopped == {t \in Threads : Home(t) = p}
  <2>1. Struck(stopped)
    BY <1>11 DEF Crash
  <2>2. holder' = holder \ stopped
    BY <1>0, <1>11, Killed
  <2>3. cut' = cut \cup Lost(stopped)
    BY <1>11 DEF Crash
  <2> QED BY <1>9, <1>11, <2>1, <2>2, <2>3, Killed DEF Away
<1>12. CASE StartClean
  BY <1>12 DEF StartClean
<1>13. CASE CleanOne
  BY <1>0, <1>13 DEF CleanOne
<1>14. CASE UNCHANGED vars
  <2>1. UNCHANGED <<disk, holder, pc, turn, buffer, left, listed, struck, cut>>
    BY <1>14 DEF vars, local, account
  <2>2. Owed' = Owed
    BY <1>b, <2>1 DEF Between
  <2> QED BY <1>0, <2>1, <2>2 DEF CoverInv
<1> QED
  BY <1>1, <1>2, <1>3, <1>4, <1>5, <1>6, <1>7, <1>8, <1>10, <1>11, <1>12, <1>13, <1>14 DEF Next, Emit

(* Between emissions of processes that run in turn every artifact that is  *)
(* listed is in the history under its run, with its kind, although the two *)
(* files are read and written one after the other: what a failure or a     *)
(* kill between them has cut off, and what a history struck half written   *)
(* has lost, is all that may be missing, until it is emitted again.        *)
THEOREM HistoryCovers == Spec => []HistoryCoversIndex
<1> DEFINE Inv == InTurn /\ ~cleaned => CoverInv
<1>1. Inv => HistoryCoversIndex
  <2> SUFFICES ASSUME CoverInv, holder = {}
               PROVE  Covers(InHistory, InIndex \ cut)
    BY DEF HistoryCoversIndex, Quiet, Covers
  <2>1. Between = {}
    BY DEF CoverInv, AloneInv, ReadableInv, TurnInv, Between
  <2>2. Owed = cut
    BY <2>1 DEF Owed
  <2> QED BY <2>2 DEF CoverInv, AloneInv, Filling
<1>2. Init => Inv
  BY CoverInit
<1>3. Inv /\ [Next]_vars => Inv'
  <2> SUFFICES ASSUME Inv, [Next]_vars, InTurn', ~cleaned' PROVE CoverInv'
    OBVIOUS
  <2> QED
    BY TurnForGood, ForGood, CoverNext
<1> HIDE DEF Inv
<1> QED
  BY <1>1, <1>2, <1>3, PTL DEF Spec
================================================================================
