--------------------------- MODULE WorkloadProfiles ---------------------------
(***************************************************************************)
(* The two places where the compiler reads its options                     *)
(* (eigen_compiler/validation.py and compiler.py): the request validation  *)
(* of the distributed.* options, and the workload profile a compilation    *)
(* runs under, with what the profile requires and forbids.                 *)
(*                                                                         *)
(* Options are a function from the keys present to their strings. The keys *)
(* spelled in two or three ways are named once.                            *)
(***************************************************************************)
EXTENDS Integers, Sequences, FiniteSets

NoOption == "(none)"
Kinds == {"QuantumJob", "HybridWorkflow", "DistributedJob", "BenchmarkJob", "PipelineJob", "ReplayJob"}
DistributedKeys == {"distributed.target", "distributed.partition_count",
                    "distributed.queue_provider", "distributed.topology_hint"}
DistributedTargets == {"cluster", "cluster:auto", "cluster:gpu", "cluster:quantum"}
QueueProviders == {"memory", "redis", "sqs"}
TopologyHints  == {"data_parallel", "pipeline"}

\* int(value) of the strings used here: the numbers and what raises ValueError.
IsInt(v) == v \in {"-1", "0", "1", "2"}
AtLeastOne(v) == v \in {"1", "2"}
Stripped(v) == IF v \in {"", " "} THEN "" ELSE IF v = " true" THEN "true" ELSE v

\* options.get(key, otherwise).
OptionOr(o, key, otherwise) == IF key \in DOMAIN o THEN o[key] ELSE otherwise

\* _first_option: a blank value counts as absent.
FirstOption(o, key) ==
    IF key \in DOMAIN o /\ Stripped(o[key]) # "" THEN o[key] ELSE NoOption

\* _parse_bool, which strips and knows three words for each.
ParseBool(v) ==
    CASE Stripped(v) \in {"true", "1", "yes"} -> "yes"
      [] Stripped(v) \in {"false", "0", "no"} -> "no"
      [] OTHER -> "neither"
ReplayEnabled(o) == ParseBool(OptionOr(o, "replay.enabled", "false")) = "yes"
DistributedEnabled(o) == ParseBool(OptionOr(o, "distributed.enabled", "false")) = "yes"
-----------------------------------------------------------------------------
\* Mutant of DistributedOptionsValid: the partition count is not parsed.
DistributedOptionsUnparsed(o) ==
    LET given(key) == OptionOr(o, key, "")
    IN  /\ ParseBool(OptionOr(o, "distributed.enabled", "false")) # "neither"
        /\ given("distributed.target") \in DistributedTargets \cup {""}
        /\ given("distributed.queue_provider") \in QueueProviders \cup {""}
        /\ given("distributed.topology_hint") \in TopologyHints \cup {""}
        /\ IF DistributedEnabled(o) THEN "distributed.target" \in DOMAIN o
           ELSE DOMAIN o \cap DistributedKeys = {}

\* _validate_distributed_options, as what it lets through.
DistributedOptionsValid(o) ==
    LET given(key) == OptionOr(o, key, "")
    IN  /\ ParseBool(OptionOr(o, "distributed.enabled", "false")) # "neither"
        /\ given("distributed.target") \in DistributedTargets \cup {""}
        /\ given("distributed.partition_count") # "" => AtLeastOne(given("distributed.partition_count"))
        /\ given("distributed.queue_provider") \in QueueProviders \cup {""}
        /\ given("distributed.topology_hint") \in TopologyHints \cup {""}
        /\ IF DistributedEnabled(o) THEN "distributed.target" \in DOMAIN o
           ELSE DOMAIN o \cap DistributedKeys = {}

\* _distributed_compile_config: enabled is the word "true" in any case and
\* nothing else; a partition count that is present must parse.
CompileConfig(o) ==
    [enabled |-> OptionOr(o, "distributed.enabled", "false") = "true",
     target  |-> OptionOr(o, "distributed.target", ""),
     valid   |-> "distributed.partition_count" \in DOMAIN o => AtLeastOne(o["distributed.partition_count"])]
-----------------------------------------------------------------------------
\* _backend_target_class.
TargetClass(target) ==
    CASE target = NoOption -> "implicit"
      [] target = "sim:local" -> "simulator"
      [] target \in {"cluster:auto", "cluster:gpu", "cluster:quantum"} -> "distributed"
      [] target \in {"backend:quantum", "ibm:qpu", "aws:braket", "azure:quantum"} -> "provider"
      [] target \in {"backend:cluster", "runtime:auto", "runtime:latency", "runtime:cost",
                     "runtime:availability", "runtime:deterministic"} -> "policy"
      [] OTHER -> "unknown"

\* _resolve_backend_target.
BackendTarget(o) ==
    LET explicit == FirstOption(o, "backend_target")
        target   == FirstOption(o, "distributed.target")
    IN  IF explicit # NoOption THEN [target |-> explicit, class |-> TargetClass(explicit)]
        ELSE IF DistributedEnabled(o) \/ target # NoOption
        THEN [target |-> IF target = NoOption THEN "cluster" ELSE target, class |-> "distributed"]
        ELSE [target |-> NoOption, class |-> "implicit"]

\* _profile_emission_modes.
EmissionModes(kind) ==
    CASE kind = "DistributedJob" -> {"topology", "runtime"}
      [] kind = "BenchmarkJob" -> {"plain", "benchmark"}
      [] kind = "PipelineJob" -> {"plain", "handoff"}
      [] kind = "ReplayJob" -> {"plain", "replay"}
      [] kind = "HybridWorkflow" -> {"plain", "driver", "runtime"}
      [] OTHER -> {"plain", "driver"}

\* backend_contract_payload.
BackendContract(kind, o) ==
    LET t == BackendTarget(o)
    IN  [profile |-> kind, target |-> t.target, class |-> t.class,
         modes   |-> EmissionModes(kind),
         mode    |-> CASE t.class = "distributed" -> "topology"
                       [] t.class = "provider" -> "driver"
                       [] t.class = "policy" -> "policy"
                       [] OTHER -> "plain"]

\* What _WORKLOAD_PROFILE_CATALOG says a profile never does.
ForbiddenTransformations(kind) ==
    CASE kind = "QuantumJob" -> {"distributed_topology", "benchmark_materialization",
                                 "pipeline_handoff", "replay_materialization"}
      [] kind = "HybridWorkflow" -> {"pipeline_handoff", "replay_materialization"}
      [] kind = "DistributedJob" -> {"benchmark_materialization", "pipeline_handoff", "replay_materialization"}
      [] kind = "BenchmarkJob" -> {"distributed_topology", "pipeline_handoff",
                                   "replay_materialization", "adaptive_minimize"}
      [] kind = "PipelineJob" -> {"benchmark_materialization", "replay_materialization"}
      [] kind = "ReplayJob" -> {"adaptive_minimize", "pipeline_handoff"}
-----------------------------------------------------------------------------
\* resolve_workload_profile: the kind, and "unknown" when the one asked for is
\* not one of the six.
ResolveProfile(o, hasExpectation, hasMinimize) ==
    LET explicit == FirstOption(o, "workload.kind")
        mode     == FirstOption(o, "runtime.mode")
    IN  IF explicit # NoOption THEN IF explicit \in Kinds THEN explicit ELSE "unknown"
        ELSE IF mode = "distributed" \/ DistributedEnabled(o) THEN "DistributedJob"
        ELSE IF mode = "benchmark" \/ FirstOption(o, "workload.seed") # NoOption THEN "BenchmarkJob"
        ELSE IF mode = "pipeline" \/ FirstOption(o, "pipeline.handoff_ref") # NoOption THEN "PipelineJob"
        ELSE IF mode = "replay" \/ ReplayEnabled(o) THEN "ReplayJob"
        ELSE IF mode = "hybrid" \/ hasExpectation \/ hasMinimize THEN "HybridWorkflow"
        ELSE "QuantumJob"

Rule(cond, rule) == IF cond THEN {rule} ELSE {}
AnyDistributed(o) == DistributedEnabled(o) \/ DOMAIN o \cap DistributedKeys # {}
AnyPipeline(o) ==
    FirstOption(o, "pipeline.handoff_ref") # NoOption \/ FirstOption(o, "pipeline.stage_id") # NoOption

\* The rules of validate_workload_profile a compilation breaks, by profile.
QuantumRules(o, hasExpectation, hasMinimize) ==
    Rule(AnyDistributed(o), "no_distributed_options")
    \cup Rule(FirstOption(o, "workload.seed") # NoOption, "no_benchmark_metadata")
    \cup Rule(AnyPipeline(o), "no_pipeline_handoff")
    \cup Rule(ReplayEnabled(o), "no_replay_marker")
    \cup Rule(hasExpectation \/ hasMinimize, "no_hybrid_markers")
    \cup Rule(BackendTarget(o).class = "distributed", "target_mismatch")

HybridRules(o) ==
    Rule(AnyDistributed(o), "no_distributed_options")
    \cup Rule(FirstOption(o, "workload.seed") # NoOption, "no_benchmark_metadata")
    \cup Rule(AnyPipeline(o), "no_pipeline_handoff")
    \cup Rule(ReplayEnabled(o), "no_replay_marker")

DistributedRules(o) ==
    LET count == FirstOption(o, "distributed.partition_count")
    IN  Rule(~DistributedEnabled(o), "requires_enabled")
        \cup Rule(FirstOption(o, "distributed.target") = NoOption, "requires_target")
        \cup Rule(count = NoOption, "requires_partition_count")
        \cup Rule(count # NoOption /\ ~AtLeastOne(count), "invalid_partition_count")

BenchmarkRules(o, hasMinimize) ==
    LET seed == FirstOption(o, "workload.seed")
    IN  Rule(seed = NoOption, "requires_seed")
        \cup Rule(seed # NoOption /\ ~IsInt(seed), "invalid_seed")
        \cup Rule(FirstOption(o, "backend_target") = NoOption, "requires_backend_target")
        \cup Rule(BackendTarget(o).class = "unknown", "unknown_target")
        \cup Rule(DistributedEnabled(o), "no_distributed_options")
        \cup Rule(hasMinimize, "no_adaptive_rewrite")

PipelineRules(o, sourceRef, hasMinimize) ==
    Rule(FirstOption(o, "pipeline.handoff_ref") = NoOption, "requires_handoff_ref")
    \cup Rule(FirstOption(o, "pipeline.stage_id") = NoOption, "requires_stage_id")
    \cup Rule(~sourceRef, "requires_source_ref")
    \cup Rule(hasMinimize, "no_adaptive_rewrite")
    \cup Rule(BackendTarget(o).class = "unknown", "unknown_target")

ReplayRules(o, sourceRef, hasMinimize) ==
    Rule(~ReplayEnabled(o), "requires_enabled")
    \cup Rule(~sourceRef, "requires_source_ref")
    \cup Rule(hasMinimize, "no_adaptive_rewrite")
    \cup Rule(BackendTarget(o).class = "unknown", "unknown_target")

\* The check after the branches.
DistributedTargetRules(o) ==
    LET t == BackendTarget(o)
    IN  Rule(t.target # NoOption /\ t.class # "distributed", "target_mismatch")
        \cup Rule(t.class = "unknown", "unknown_target")

\* validate_workload_profile.
ProfileRules(kind, o, sourceRef, hasExpectation, hasMinimize) ==
    CASE kind = "QuantumJob" -> QuantumRules(o, hasExpectation, hasMinimize)
      [] kind = "HybridWorkflow" -> HybridRules(o)
      [] kind = "DistributedJob" -> DistributedRules(o) \cup DistributedTargetRules(o)
      [] kind = "BenchmarkJob" -> BenchmarkRules(o, hasMinimize)
      [] kind = "PipelineJob" -> PipelineRules(o, sourceRef, hasMinimize)
      [] kind = "ReplayJob" -> ReplayRules(o, sourceRef, hasMinimize)

\* _validation_reason, of the descriptions of those rules.
RulesReason(rules) == IF "unknown_target" \in rules THEN "unimplemented" ELSE "invalid_argument"
=============================================================================
