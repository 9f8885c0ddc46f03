----------------------------- MODULE ContractDrift -----------------------------
(***************************************************************************)
(* contract, doc and handoff: what a model promises (its snapshot), the    *)
(* lock file that remembers snapshots, the Markdown files rendered from a  *)
(* model, and the comparisons that tell whether the model has moved since. *)
(* A hash is the value that is hashed: digests do not collide.  Names hold *)
(* no comma, quote or bracket, so that the lists the lock file is split    *)
(* into are those it was joined from.                                      *)
(***************************************************************************)
EXTENDS Integers, Sequences, SequencesExt

CONSTANTS
  None,   \* an option that was not given
  NoFile  \* a file that cannot be read

(* field_type_label: a string that is bounded on one side only is labelled *)
(* like one without bounds.                                                *)
FieldTypeLabel(type) ==
  IF type.kind = "string" /\ None \in {type.min, type.max}
    THEN [kind |-> "string", min |-> None, max |-> None]
    ELSE type

(* Mutant: the hash leaves the fields out.                                 *)
SnapshotOfNames(m) ==
  LET fields == [i \in DOMAIN m.fields |-> <<m.fields[i].name, FieldTypeLabel(m.fields[i].type)>>]
  IN  [model_id |-> m.id, state_fields |-> fields, actions |-> m.actions,
       properties |-> m.properties, contract_hash |-> <<m.id, m.actions, m.properties>>]

(* ContractSnapshot: what the lock file keeps of a model.  Only a model    *)
(* that lowers has one.                                                    *)
SnapshotModel(m) ==
  LET fields == [i \in DOMAIN m.fields |-> <<m.fields[i].name, FieldTypeLabel(m.fields[i].type)>>]
  IN  [model_id |-> m.id, state_fields |-> fields, actions |-> m.actions,
       properties |-> m.properties,
       contract_hash |-> <<m.id, fields, m.actions, m.properties>>]

(* A lock file: missing, one parse_lock_file refuses, or its entries.      *)
MissingLock == [form |-> "missing", entries |-> <<>>]
CorruptLock == [form |-> "corrupt", entries |-> <<>>]
LockFile(snapshots) == [form |-> "entries", entries |-> snapshots]

(* The first entry under an id, as a sequence of at most one.              *)
EntryOf(lock, id) ==
  LET same == {i \in DOMAIN lock.entries : lock.entries[i].model_id = id}
  IN  IF same = {} THEN <<>> ELSE <<lock.entries[Min(same)]>>

Sections == {"state_fields", "actions", "properties"}

(* compare_snapshot: the status is decided by the hashes, the list of      *)
(* changes by the parts.                                                   *)
CompareSnapshot(expected, actual) ==
  [contract_id |-> actual.model_id,
   status |-> IF expected.contract_hash = actual.contract_hash THEN "unchanged" ELSE "changed",
   changes |-> {s \in Sections : expected[s] # actual[s]}]

(* A model the lock has no entry for is reported, and counts as drift.     *)
DriftReport(lock, snapshot) ==
  LET expected == EntryOf(lock, snapshot.model_id)
  IN  IF expected = <<>>
        THEN [contract_id |-> snapshot.model_id, status |-> "missing",
              changes |-> {"missing_from_lock_file"}]
        ELSE CompareSnapshot(expected[1], snapshot)

(* rerun_recommendations: what valid.toml says depends on the model, looked *)
(* up under the id of its contract.                                        *)
RerunRecommendations(config, id) ==
  [critical |-> {t[2] : t \in {t \in ToSet(config.critical) : t[1] = id}},
   suites |-> {s \in DOMAIN config.suites : \E i \in DOMAIN config.suites[s] :
                                              config.suites[s][i][1] = id}]

-------------------------------------------------------------------------------
(* The graph drawn into a document: the actions and their guards.          *)
Mermaid(m) == <<m.actions, m.guards>>

(* The hash where there is no snapshot: names only, no types.              *)
NamesHash(m) ==
  <<m.id, [i \in DOMAIN m.fields |-> m.fields[i].name], m.actions,
    [i \in DOMAIN m.properties |-> m.properties[i].id]>>

(* generate_doc, render_doc_markdown: the header, the tables and the       *)
(* selected profile, the graph.  prose stands for the text between, which  *)
(* only an editor changes on its own.                                      *)
GenerateDoc(m, source, contract, profile) ==
  [source_hash |-> source, contract_hash |-> contract,
   tables |-> <<m.fields, m.actions, m.properties, m.guards>>, profile |-> profile,
   mermaid |-> Mermaid(m), prose |-> "rendered"]

(* check_doc: the sections in which the file on disk has drifted.          *)
DocDrift(existing, generated) ==
  IF existing = NoFile THEN {"missing"}
  ELSE {s \in {"source_hash", "contract_hash", "mermaid"} : existing[s] # generated[s]}
         \cup (IF existing # generated THEN {"markdown"} ELSE {})

-------------------------------------------------------------------------------
(* The word an OrchestratedRunSummary carries for a verdict: the variant's *)
(* own name, and capitals only for a run that failed to finish.            *)
StatusWord(verdict) ==
  CASE verdict = "PASS" -> "Pass"
    [] verdict = "FAIL" -> "Fail"
    [] verdict = "UNKNOWN" -> "Unknown"
    [] verdict = "ERROR" -> "ERROR"

(* orchestrate: one run per property, in the model's order.                *)
Orchestrate(m, backend) ==
  [i \in DOMAIN m.properties |->
     [property |-> m.properties[i].id,
      status |-> StatusWord(m.verdict[backend][m.properties[i].id])]]

SelectedRuns(runs, property) ==
  SelectSeq(runs, LAMBDA run : property \in {None, run.property})

PropertiesWithStatus(runs, word) ==
  LET matching == SelectSeq(runs, LAMBDA run : run.status = word)
  IN  [i \in DOMAIN matching |-> matching[i].property]

(* recommended_handoff_vectors: the vectors of failing properties first,   *)
(* then those of a searching strategy, then those with clusters; at most   *)
(* five.  Equal scores are ordered by id.                                  *)
VectorScore(vector, failing) ==
  (IF Contains(failing, vector.property) THEN 100 ELSE 0)
    + (IF vector.strategy \in {"deadlock", "enablement", "boundary", "path"} THEN 50 ELSE 0)
    + (IF vector.clustered THEN 25 ELSE 0)

RecommendedVectors(vectors, failing) ==
  LET before(v, w) ==
        \/ VectorScore(v, failing) > VectorScore(w, failing)
        \/ VectorScore(v, failing) = VectorScore(w, failing) /\ v.id < w.id
      ordered == SortSeq(vectors, before)
  IN  SubSeq(ordered, 1, IF Len(ordered) < 5 THEN Len(ordered) ELSE 5)

(* summarize_handoff_testgen: the vectors and the files they were written  *)
(* to, unless test generation failed.                                      *)
TestgenSummary(vectors, failing) ==
  [status |-> "available", vectors |-> RecommendedVectors(vectors, failing)]
NoTestgen == [status |-> "unavailable", vectors |-> <<>>]

(* generate_handoff: the verdicts of the selected properties and what      *)
(* follows from them.                                                      *)
GenerateHandoff(m, runs, explained, source, contract, property, testgen) ==
  LET selected == SelectedRuns(runs, property)
      failing == PropertiesWithStatus(selected, "FAIL")
  IN  [source_hash |-> source, contract_hash |-> contract, property |-> property,
       facts |-> <<m.fields, m.guards>>, runs |-> selected, explained |-> explained,
       failing |-> failing, open |-> PropertiesWithStatus(selected, "UNKNOWN"),
       testgen |-> IF testgen THEN TestgenSummary(m.vectors[property], failing) ELSE NoTestgen,
       prose |-> "rendered"]

(* check_handoff.                                                          *)
HandoffDrift(existing, generated) ==
  IF existing = NoFile THEN {"missing"}
  ELSE {s \in {"source_hash", "contract_hash"} : existing[s] # generated[s]}
         \cup (IF existing # generated THEN {"markdown"} ELSE {})
================================================================================
