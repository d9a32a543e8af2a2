-------------------------- MODULE BenchmarkLearning --------------------------
(***************************************************************************)
(* The knowledge base and the benchmark service that reports to it: the    *)
(* kb_sink of BenchmarkRunService is ingest_benchmark_run, called          *)
(* synchronously in the benchmark call but concurrent with the other       *)
(* clients of the knowledge base.  part chooses the clients: "queries" has *)
(* the RPC clients of KnowledgeBase, "runs" the benchmark service, the     *)
(* assembly of datasets and a reader of the model lifecycle, "registry"    *)
(* the operators of the training pipeline.                                 *)
(***************************************************************************)
EXTENDS LearningRegistry, BenchmarkRuns

CONSTANTS BenchmarkScope,    \* tenant-default / project-default
          RecordNumber(_),   \* the record id of a run
          Claims             \* what manual evidence says of a model

VARIABLES sink,   \* how far the sink call has come
          part

vars == <<kb, clock, versioned, walk, collecting, last, runs, start_index, retry_index, outbox,
          calls, sink, part>>

\* main.py and grpc_server.py serve the base class.
CompositionInit ==
    /\ Init
    /\ LearningInit
    /\ RunsInit
    /\ sink = "record"
    /\ part \in {"queries", "runs", "registry"}
    /\ versioned => part = "queries"

\* The record of a run.
RunContent(payload) ==
    [backend |-> "", optimizer |-> "", qubits |-> 0, caps |-> {}, run |-> payload]

\* ingest_benchmark_run up to the release of the lock.  When the collection raises,
\* so do the sink and the benchmark call; the run keeps its new state.
SinkStore ==
    /\ outbox # NoPayload
    /\ sink = "record"
    /\ LockFree
    /\ kb' = Handle(kb, LAMBDA k : BenchmarkRecord(k, RecordNumber(outbox.run_id), BenchmarkScope,
                                                   RunContent(outbox)))
    /\ IF GcRaises(kb)
       THEN /\ outbox' = NoPayload
            /\ last' = [op |-> "benchmark", model |-> BenchmarkModel, outcome |-> "unavailable"]
            /\ UNCHANGED sink
       ELSE /\ sink' = "evidence"
            /\ last' = NoResponse
            /\ UNCHANGED outbox
    /\ UNCHANGED <<clock, versioned, walk, collecting, runs, start_index, retry_index, calls, part>>

SinkEvidence ==
    /\ sink = "evidence"
    /\ kb' = AppendBenchmarkEvidence(BenchmarkScope, FALSE)
    /\ sink' = "model"
    /\ last' = NoResponse
    /\ UNCHANGED <<clock, versioned, walk, collecting, runs, start_index, retry_index, outbox, calls,
                   part>>

SinkModel ==
    /\ sink = "model"
    /\ kb' = SetBenchmarkModel(BenchmarkScope, FALSE)
    /\ sink' = "record"
    /\ outbox' = NoPayload
    /\ last' = [op |-> "benchmark", model |-> BenchmarkModel, outcome |-> "ok"]
    /\ UNCHANGED <<clock, versioned, walk, collecting, runs, start_index, retry_index, calls, part>>

RoomForEvidence == BagCardinality(kb.evidence) < MaxEvidence

\* The clients of part "runs" beside the benchmark service; they write at most once
\* while their evidence or dataset is there.
Bystanders ==
    \/ LifecycleScanEvidence
    \/ LifecycleAssignEvidence
    \/ LifecycleAssignModels(BenchmarkScope, BenchmarkModel)
    \/ LifecycleScanRaises(BenchmarkModel)
    \/ /\ kb.evidence = EmptyBag
       /\ ingest_learning_evidence(BenchmarkScope, NoModel, "DRAFT", FALSE)
    \/ \E d \in DatasetIds : kb.datasets = Empty /\ assemble_learning_dataset(BenchmarkScope, d, NoModel)

Operators ==
    \E s \in {BenchmarkScope} :
        \/ RoomForEvidence /\
              \/ \E c \in Claims : ingest_learning_evidence(s, c.model, c.state, c.quarantined)
              \/ \E d \in DecisionIds, c \in Contents, m \in Models, ok \in BOOLEAN :
                    ingest_runtime_decision(d, s, c, m, FALSE, ok)
              \/ \E d \in DatasetIds, v \in DatasetVersions, g \in Digests :
                    ingest_training_dataset(s, d, v, g)
        \/ \E d \in DatasetIds, v \in DatasetVersions \cup {""} :
              \/ get_training_dataset(s, d, v)
              \/ \E m \in Models : start_training(s, m, d, v) \/ run_evaluation(s, m, d, v)
        \/ \E d \in DatasetIds, m \in DatasetVersions \cup {NoModel} :
              assemble_learning_dataset(s, d, m)
        \/ query_learning_evidence
        \/ \E m \in Models :
              \/ rollback_model(s, m)
              \/ \E shadow, canary \in BOOLEAN : promote_model(s, m, shadow, canary)

CompositionNext ==
    \/ part = "queries" /\ Next /\ UNCHANGED <<collecting, last, run_vars, sink, part>>
    \/ /\ part = "runs"
       /\ RunsNext
       /\ last' = NoResponse
       /\ UNCHANGED <<kb, clock, versioned, walk, collecting, sink, part>>
    \/ SinkStore
    \/ SinkEvidence
    \/ SinkModel
    \/ part = "runs" /\ Bystanders /\ UNCHANGED <<run_vars, sink, part>>
    \/ part = "registry" /\ Operators /\ UNCHANGED <<run_vars, sink, part>>
    \/ part # "queries" /\ LearningTick /\ UNCHANGED <<run_vars, sink, part>>

CompositionSpec == CompositionInit /\ [][CompositionNext]_vars
-----------------------------------------------------------------------------
\* The knowledge base's record of a run shows the state the run is in, except while
\* the call that changed it is on its way and once a collection can no longer finish
\* (then every sink call raises after the run has changed).
KbFollowsRuns ==
    \A id \in DOMAIN runs :
        LET r == RecordNumber(id)
        IN  r \in DOMAIN kb.records =>
                \/ kb.records[r].content.run.state = runs[id].state
                \/ outbox.run_id = id
                \/ GcRaises(kb)

\* One assembled dataset ends the service: its summary has no updated_at, every later
\* collection raises, and no call that collects succeeds again.  Only a benchmark
\* call that was past its lock still answers.
AssemblyStopsService ==
    [][GcRaises(kb) =>
          /\ GcRaises(kb')
          /\ last'.op \notin {"none", "benchmark"} => last'.outcome # "ok"]_vars

\* Evidence that is not expired leaves the registry only by the race of a collection
\* with the unlocked end of ingest_benchmark_run: what was stored under the lock
\* stays.
OnlyUnlockedEvidenceLost ==
    [][\A e \in DOMAIN kb.evidence :
          e.created >= Cutoff /\ e.kind # "benchmark" =>
              e \in DOMAIN kb'.evidence /\ kb'.evidence[e] >= kb.evidence[e]]_vars

\* A model gets to PROMOTED by promote_model, from CANARY (or PROMOTED), or because
\* evidence claimed the state for it; training and evaluation never promote.
PromotionIsGated ==
    [][\A m \in DOMAIN kb'.models :
          kb'.models[m].state = "PROMOTED"
          /\ (m \notin DOMAIN kb.models \/ kb.models[m].state # "PROMOTED") =>
              \/ /\ last'.op = "promote"
                 /\ m \in DOMAIN kb.models
                 /\ kb.models[m].state = "CANARY"
              \/ last'.op = "evidence"]_vars

\* An ingested dataset version keeps its content until retention takes it, unless an
\* assembly of the same id and version replaces it.
DatasetVersionImmutable ==
    [][\A d \in DOMAIN kb.datasets : \A v \in DOMAIN kb.datasets[d] :
          kb.datasets[d][v].updated >= Cutoff =>
              /\ d \in DOMAIN kb'.datasets /\ v \in DOMAIN kb'.datasets[d]
              /\ kb'.datasets[d][v] = kb.datasets[d][v] \/ last'.op = "assemble"]_vars

\* The steps of LearningDatasetRegistry's callers next to runs that retry and
\* datasets that are assembled: an assembled dataset stops the service, evidence
\* is lost only where no lock is held, a promotion passes its gate, and an
\* ingested dataset version keeps its content.
LearningSound ==
    AssemblyStopsService /\ OnlyUnlockedEvidenceLost /\ PromotionIsGated /\ DatasetVersionImmutable
=============================================================================
