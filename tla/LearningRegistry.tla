-------------------------- MODULE LearningRegistry --------------------------
(***************************************************************************)
(* The learning half of the knowledge base: evidence, training datasets    *)
(* and the model lifecycle (knowledge_base.py 845-1864 and 3074-3289), on  *)
(* the store of KnowledgeBase.  Every handler is one step under the        *)
(* service's lock, with two exceptions: ingest_benchmark_run releases the  *)
(* lock before it stores its evidence, so a collection running meanwhile   *)
(* (here the one of get_model_lifecycle) is split at the assignments that  *)
(* store can fall between.                                                 *)
(***************************************************************************)
EXTENDS KnowledgeBase

CONSTANTS Models,          \* model versions
          BenchmarkModel,  \* the model version every benchmark run reports
          DatasetIds,
          DatasetVersions,
          Digests,         \* manifest digests
          MinRecords, MinRuntime, MinBenchmark,  \* assembly triggers of the policy
          MaxEvidence      \* bound on stored evidence

VARIABLES collecting,  \* the collection in progress, between two assignments
          last         \* the response of the last call

States == {"DRAFT", "TRAINED", "VALIDATED", "SHADOW", "CANARY", "PROMOTED", "RETIRED"}

LEARNING_ALLOWED_TRANSITIONS ==
    [s \in States |->
        CASE s = "DRAFT"     -> {"TRAINED", "RETIRED"}
          [] s = "TRAINED"   -> {"VALIDATED", "RETIRED"}
          [] s = "VALIDATED" -> {"SHADOW", "RETIRED"}
          [] s = "SHADOW"    -> {"CANARY", "RETIRED"}
          [] s = "CANARY"    -> {"PROMOTED", "ROLLBACK_TO_VALIDATED", "RETIRED"}
          [] s = "PROMOTED"  -> {"ROLLBACK_TO_VALIDATED", "RETIRED"}
          [] s = "RETIRED"   -> {}]

NoCollection == [at |-> "idle"]

NoModel == "none"

NoResponse == [op |-> "none", model |-> NoModel, outcome |-> "ok"]

LearningInit ==
    /\ collecting = NoCollection
    /\ last = NoResponse
-----------------------------------------------------------------------------
(***************************************************************************)
(* The helpers that run inside a handler, on the state under the lock.     *)
(***************************************************************************)
Evidence(s, kind, m, state, quarantined) ==
    [scope |-> s, kind |-> kind, model |-> m, state |-> state, quarantined |-> quarantined,
     created |-> clock]

AddEvidence(k, e) == [k EXCEPT !.evidence = @ (+) SetToBag({e})]

SetModel(k, s, m, state, quarantined) ==
    [k EXCEPT !.models = Put(@, <<s, m>>, [state |-> state, quarantined |-> quarantined,
                                           updated |-> clock])]

\* The evidence overwrites the model it names, whatever state that was in.
learning_store_evidence(k, e) ==
    IF e.model = NoModel THEN AddEvidence(k, e)
    ELSE SetModel(AddEvidence(k, e), e.scope, e.model, e.state, e.quarantined)

\* _learning_transition_result: an unknown state counts as DRAFT.
TransitionAllowed(from, to) ==
    LET current == IF from \in States THEN from ELSE "DRAFT"
    IN  to = current \/ to \in LEARNING_ALLOWED_TRANSITIONS[current]

\* The dataset a call names: none, one, or an error when the version is left open.
learning_dataset_lookup(k, s, d, v) ==
    LET versions == IF <<s, d>> \in DOMAIN k.datasets THEN k.datasets[<<s, d>>] ELSE Empty
    IN  CASE versions = Empty                               -> "unavailable"
          [] versions # Empty /\ v # ""                     ->
                IF v \in DOMAIN versions THEN "found" ELSE "unavailable"
          [] versions # Empty /\ v = "" /\ Cardinality(DOMAIN versions) = 1 -> "found"
          [] OTHER                                          -> "error"

PutDataset(k, s, d, v, summary) ==
    LET versions == IF <<s, d>> \in DOMAIN k.datasets THEN k.datasets[<<s, d>>] ELSE Empty
    IN  [k EXCEPT !.datasets = Put(@, <<s, d>>, Put(versions, v, summary))]
-----------------------------------------------------------------------------
(***************************************************************************)
(* A call under the lock.  Outcome and Body read the collected store; a    *)
(* collection that raises ends the call, reported as "unavailable".        *)
(***************************************************************************)
LockFree == collecting = NoCollection

Call(op, m, Outcome(_), Body(_)) ==
    LET k == gc(kb)
    IN  /\ LockFree
        /\ last' = [op |-> op, model |-> m,
                    outcome |-> IF GcRaises(kb) THEN "unavailable" ELSE Outcome(k)]
        /\ kb' = Handle(kb, LAMBDA x : IF Outcome(x) = "ok" THEN Body(x) ELSE x)
        /\ UNCHANGED <<clock, versioned, walk, collecting>>

Ok(k) == "ok"

ingest_learning_evidence(s, m, state, quarantined) ==
    Call("evidence", m, Ok,
         LAMBDA k : learning_store_evidence(k, Evidence(s, "learning", m, state, quarantined)))

\* An incomplete security context is refused before the lock is taken.
ingest_runtime_decision(d, s, c, m, quarantined, complete) ==
    IF complete
    THEN Call("runtime", m, Ok,
              LAMBDA k : learning_store_evidence(
                             store_decision_log(k, d, s, c, c.caps, clock),
                             Evidence(s, "runtime", m, "VALIDATED", quarantined)))
    ELSE /\ last' = [op |-> "runtime", model |-> m, outcome |-> "unavailable"]
         /\ UNCHANGED <<kb, clock, versioned, walk, collecting>>

\* The locked part of ingest_benchmark_run: the record.  The payload's created_at is
\* a string, which counts as no timestamp.
BenchmarkRecord(k, r, s, c) == upsert_record(k, r, s, c, clock, TRUE, "benchmark")

\* The part after the lock: two unlocked writes, one after the other.
AppendBenchmarkEvidence(s, quarantined) ==
    AddEvidence(kb, Evidence(s, "benchmark", BenchmarkModel, "VALIDATED", quarantined))

SetBenchmarkModel(s, quarantined) == SetModel(kb, s, BenchmarkModel, "VALIDATED", quarantined)

learning_evidence_of(k, s, m) ==
    {e \in DOMAIN k.evidence : e.scope = s /\ (m = NoModel \/ e.model = m)}

CountOf(k, entries) == BagCardinality([e \in entries |-> k.evidence[e]])

\* assemble_learning_dataset: the summary has no updated_at.
Triggered(k, s, m) ==
    LET scoped == learning_evidence_of(k, s, m)
    IN  /\ CountOf(k, scoped) >= MinRecords
        /\ CountOf(k, {e \in scoped : e.kind = "runtime"}) >= MinRuntime
        /\ CountOf(k, {e \in scoped : e.kind = "benchmark"}) >= MinBenchmark

AssembledSummary(k, s, m) ==
    [dated |-> FALSE, updated |-> Epoch, digest |-> "assembled", triggered |-> Triggered(k, s, m),
     quarantined |-> \E e \in learning_evidence_of(k, s, m) : e.quarantined]

PolicyVersion == "policy"

assemble_learning_dataset(s, d, m) ==
    Call("assemble", m, Ok,
         LAMBDA k : PutDataset(k, s, d, IF m = NoModel THEN PolicyVersion ELSE m,
                               AssembledSummary(k, s, m)))

IngestOutcome(k, s, d, v, digest) ==
    IF <<s, d>> \in DOMAIN k.datasets /\ v \in DOMAIN k.datasets[<<s, d>>]
    THEN IF k.datasets[<<s, d>>][v].digest = digest THEN "existing" ELSE "unavailable"
    ELSE "ok"

ingest_training_dataset(s, d, v, digest) ==
    Call("ingest", v, LAMBDA k : IngestOutcome(k, s, d, v, digest),
         LAMBDA k : PutDataset(learning_store_evidence(k, Evidence(s, "dataset", v, "DRAFT", FALSE)),
                               s, d, v, [dated |-> TRUE, updated |-> clock, digest |-> digest,
                                         triggered |-> TRUE, quarantined |-> FALSE]))

\* get_training_dataset and query_learning_evidence change nothing but what they collect.
get_training_dataset(s, d, v) ==
    Call("get_dataset", NoModel,
         LAMBDA k : IF learning_dataset_lookup(k, s, d, v) = "found" THEN "ok"
                    ELSE learning_dataset_lookup(k, s, d, v), LAMBDA k : k)

query_learning_evidence == Call("query", NoModel, Ok, LAMBDA k : k)

\* start_training and run_evaluation take the state to leave as given, not from the
\* model: the transition check cannot fail.
OnDataset(op, s, m, d, v, from, to) ==
    Call(op, m,
         LAMBDA k : LET hit == learning_dataset_lookup(k, s, d, v)
                    IN  IF hit # "found" THEN hit
                        ELSE IF TransitionAllowed(from, to) THEN "ok" ELSE "denied",
         LAMBDA k : SetModel(k, s, m, to, FALSE))

start_training(s, m, d, v) == OnDataset("train", s, m, d, v, "DRAFT", "TRAINED")

run_evaluation(s, m, d, v) == OnDataset("evaluate", s, m, d, v, "TRAINED", "VALIDATED")

OnModel(op, s, m, gate, to) ==
    Call(op, m,
         LAMBDA k : CASE <<s, m>> \notin DOMAIN k.models -> "unavailable"
                      [] <<s, m>> \in DOMAIN k.models /\ ~gate -> "denied"
                      [] OTHER -> IF TransitionAllowed(k.models[<<s, m>>].state, to)
                                  THEN "ok" ELSE "denied",
         LAMBDA k : SetModel(k, s, m, to, FALSE))

promote_model(s, m, shadow_validated, canary_passed) ==
    OnModel("promote", s, m, shadow_validated /\ canary_passed, "PROMOTED")

rollback_model(s, m) == OnModel("rollback", s, m, TRUE, "VALIDATED")
-----------------------------------------------------------------------------
(***************************************************************************)
(* get_model_lifecycle with its collection taken apart at the two          *)
(* assignments an unlocked write can fall before.  A model added while the *)
(* models are scanned may make the scan raise.                             *)
(***************************************************************************)
KeptEvidence(k) == CollectFirst(k).evidence
KeptModels(k) == CollectFirst(k).models

LifecycleScanEvidence ==
    /\ LockFree
    /\ collecting' = [at |-> "evidence", kept |-> KeptEvidence(kb),
                      shrunk |-> ~SameEntries(kb, CollectFirst(kb))]
    /\ kb' = [kb EXCEPT !.records = CollectFirst(kb).records,
                        !.decisions = CollectFirst(kb).decisions]
    /\ last' = NoResponse
    /\ UNCHANGED <<clock, versioned, walk>>

LifecycleAssignEvidence ==
    /\ collecting.at = "evidence"
    /\ kb' = [kb EXCEPT !.evidence = collecting.kept]
    /\ collecting' = [at |-> "models", kept |-> KeptModels(kb), scanned |-> DOMAIN kb.models,
                      shrunk |-> collecting.shrunk]
    /\ last' = NoResponse
    /\ UNCHANGED <<clock, versioned, walk>>

\* A lifecycle answer that hides the failed collection.
LenientLifecycle(s, m) ==
    /\ collecting.at = "models"
    /\ kb' = [kb EXCEPT !.models = collecting.kept]
    /\ last' = [op |-> "lifecycle", model |-> m,
                outcome |-> IF <<s, m>> \in DOMAIN kb'.models THEN "ok" ELSE "unavailable"]
    /\ collecting' = NoCollection
    /\ UNCHANGED <<clock, versioned, walk>>

\* The end of the collection: the datasets and, when something was collected, the
\* indexes.
LifecycleAssignModels(s, m) ==
    /\ collecting.at = "models"
    /\ LET k == [kb EXCEPT !.models = collecting.kept]
       IN  /\ kb' = IF GcRaises(k) THEN k
                    ELSE IF collecting.shrunk THEN rebuild_indexes(CollectDatasets(k), AllScopes)
                    ELSE CollectDatasets(k)
           /\ last' = [op |-> "lifecycle", model |-> m,
                       outcome |-> IF GcRaises(k) \/ <<s, m>> \notin DOMAIN k.models
                                   THEN "unavailable" ELSE "ok"]
    /\ collecting' = NoCollection
    /\ UNCHANGED <<clock, versioned, walk>>

LifecycleScanRaises(m) ==
    /\ collecting.at = "models"
    /\ collecting.scanned # DOMAIN kb.models
    /\ collecting' = NoCollection
    /\ last' = [op |-> "lifecycle", model |-> m, outcome |-> "error"]
    /\ UNCHANGED <<kb, clock, versioned, walk>>

\* A collection is short against the clock of the retention.
LearningTick ==
    /\ clock < MaxClock
    /\ LockFree
    /\ clock' = clock + 1
    /\ last' = NoResponse
    /\ UNCHANGED <<kb, versioned, walk, collecting>>
=============================================================================
