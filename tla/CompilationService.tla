-------------------------- MODULE CompilationService --------------------------
(***************************************************************************)
(* The compilation service (eigen_compiler/grpc_impl.py): CompileCircuit   *)
(* and CompileJob, each handled by a thread that validates the request,    *)
(* runs the stages of compile_eigen_lang (eigen_compiler/compiler.py) and  *)
(* counts what happened in the metrics all threads share. Every counter is *)
(* incremented in a critical section of its own, so the threads interleave *)
(* between any two of them.                                                *)
(*                                                                         *)
(* A request is [rpc, job, language, given, ref, program, parses, options, *)
(* kind, metadata, sandbox, deadline, oversize]: given says whether the    *)
(* program comes as source bytes, by a reference, both or neither.         *)
(***************************************************************************)
EXTENDS EigenLang, WorkloadProfiles

CONSTANTS Handlers,      \* the threads of the server's pool
          Requests,      \* the requests that may arrive
          Remaining,     \* what context.time_remaining() may return, as text
          MaxRequests    \* bound: requests served

VARIABLES handler,       \* what each thread is doing
          served,        \* requests taken up
          rpcTotals, stageTotals, failureTotals, digests, replays, seen

compilerVars == <<handler, served, rpcTotals, stageTotals, failureTotals, digests, replays, seen>>

Stages == <<"parse", "validate_ast", "annotate", "lower_to_ir", "eigen_dpda", "canonicalize_aqo", "emit">>
StageLabels == {"request_validation", "parse", "semantic_validation", "lowering_validation", "annotate",
                "lower_to_ir", "eigen_dpda", "canonicalize_aqo", "emit"}
Outcomes == {"success", "failure"}
Idle  == [pc |-> "idle"]

CompilerInit ==
    /\ handler = [h \in Handlers |-> Idle] /\ served = 0
    /\ rpcTotals = [o \in Outcomes |-> 0]
    /\ stageTotals = [s \in StageLabels, o \in Outcomes |-> 0]
    /\ failureTotals = [s \in StageLabels \cup {"validate_ast"} |-> 0]
    /\ digests = 0 /\ replays = 0 /\ seen = {}
-----------------------------------------------------------------------------
\* _bump_stage: a stage without a label of its own counts as "emit".
StageLabel(stage) == IF stage \in StageLabels THEN stage ELSE "emit"
BumpStage(stage, outcome, times) ==
    stageTotals' = [stageTotals EXCEPT ![StageLabel(stage), outcome] = @ + times]

\* validate_compile_circuit and validate_compile_job.
RequestValid(r) ==
    /\ r.rpc = "CompileJob" => r.job # ""
    /\ r.language = "eigen-lang"
    /\ r.given # "neither" /\ (r.given # "source" => r.ref # "traversal")
    /\ r.given \in {"source", "both"} => ~r.oversize
    /\ r.metadata # "partial"
    /\ DistributedOptionsValid(r.options)

\* _validation_reason of the request's violations: the word "unsupported" is in
\* some of the descriptions.
RequestReason(r) ==
    LET given(key) == OptionOr(r.options, key, "")
    IN  IF \/ r.language \notin {"", "eigen-lang"}
           \/ /\ ParseBool(OptionOr(r.options, "distributed.enabled", "false")) # "neither"
              /\ \/ given("distributed.target") \notin DistributedTargets \cup {""}
                 \/ given("distributed.queue_provider") \notin QueueProviders \cup {""}
                 \/ given("distributed.topology_hint") \notin TopologyHints \cup {""}
        THEN "unimplemented" ELSE "invalid_argument"

\* _request_metadata_workload_options, overridden by the request's options.
EffectiveOptions(r) ==
    IF r.kind = "" \/ "workload.kind" \in DOMAIN r.options THEN r.options
    ELSE [k \in DOMAIN r.options \cup {"workload.kind"} |->
            IF k = "workload.kind" THEN r.kind ELSE r.options[k]]

Fail(h, stage, reason) ==
    handler' = [handler EXCEPT ![h] = [pc |-> "failed", request |-> @.request, stage |-> stage, reason |-> reason]]

\* A request arrives: _request_context_from_rpc takes the deadline of the
\* metadata, or else the time the call has left; then the request is validated.
Receive(h, r, remaining) ==
    /\ handler[h].pc \in {"idle", "answered", "aborted"} /\ served < MaxRequests
    /\ served' = served + 1
    /\ handler' = [handler EXCEPT ![h] =
            IF RequestValid(r)
            THEN [pc |-> "compile", request |-> r,
                  deadline |-> IF r.deadline = "" THEN remaining ELSE r.deadline]
            ELSE [pc |-> "failed", request |-> r, stage |-> "request_validation", reason |-> RequestReason(r)]]
    /\ UNCHANGED <<rpcTotals, stageTotals, failureTotals, digests, replays, seen>>

\* _record_rpc(..., "failure").
RecordFailure(h) ==
    /\ handler[h].pc = "failed"
    /\ handler' = [handler EXCEPT ![h].pc = "aborting"]
    /\ rpcTotals' = [rpcTotals EXCEPT !["failure"] = @ + 1]
    /\ UNCHANGED <<served, stageTotals, failureTotals, digests, replays, seen>>

\* _record_validation_failure, then abort.
RecordReason(h) ==
    /\ handler[h].pc = "aborting"
    /\ handler' = [handler EXCEPT ![h].pc = "aborted"]
    /\ failureTotals' = [failureTotals EXCEPT ![handler[h].stage] = @ + 1]
    /\ UNCHANGED <<served, rpcTotals, stageTotals, digests, replays, seen>>
-----------------------------------------------------------------------------
\* The start of compile_eigen_lang: _normalize_request_context and
\* _resolve_source_bytes run outside every stage, so what they raise has no
\* stage and _diagnostic_stage files it under the request validation.
StartCompile(h) ==
    LET r == handler[h].request
    IN  /\ handler[h].pc = "compile"
        /\ IF r.sandbox \notin {"", "default", "restricted", "strict"}
           THEN Fail(h, "request_validation", "invalid_argument")
           ELSE IF r.given = "ref" /\ r.ref = "missing" THEN Fail(h, "request_validation", "not_found")
           ELSE handler' = [handler EXCEPT ![h].pc = "parse"]
        /\ UNCHANGED <<served, rpcTotals, stageTotals, failureTotals, digests, replays, seen>>

\* _run_stage around one stage that fails with a reason or continues as next.
RunStage(h, stage, reason, next) ==
    /\ IF reason # "none" THEN Fail(h, stage, reason) /\ BumpStage(stage, "failure", 1)
       ELSE handler' = [handler EXCEPT ![h] = next] /\ BumpStage(stage, "success", 1)
    /\ UNCHANGED <<served, rpcTotals, failureTotals, digests, replays, seen>>

ParseStage(h) ==
    /\ handler[h].pc = "parse"
    /\ RunStage(h, "parse", IF handler[h].request.parses THEN "none" ELSE "invalid_argument",
                [handler[h] EXCEPT !.pc = "validate_ast"])

ValidateAstStage(h) ==
    /\ handler[h].pc = "validate_ast"
    /\ RunStage(h, "validate_ast", TreeReason(handler[h].request.program),
                [handler[h] EXCEPT !.pc = "annotate"])

AnnotateStage(h) ==
    LET prog == handler[h].request.program
    IN  /\ handler[h].pc = "annotate"
        /\ RunStage(h, "annotate", IF BadParams(prog) THEN "invalid_argument" ELSE "none",
                    [pc |-> "lower_to_ir", request |-> handler[h].request, deadline |-> handler[h].deadline,
                     params |-> CollectParams(prog), expectation |-> ExpectationAnnotation(prog)])

LowerStage(h) ==
    LET f   == handler[h]
        low == CollectOperations(f.request.program, f.params)
    IN  /\ f.pc = "lower_to_ir"
        /\ RunStage(h, "lower_to_ir", low.reason,
                    [pc |-> "markers", request |-> f.request, deadline |-> f.deadline, params |-> f.params,
                     expectation |-> f.expectation, lowered |-> low])

\* The two scans for minimize and ExpectationValue, each a stage run that
\* cannot fail; then _distributed_compile_config, outside every stage.
MarkerStages(h) ==
    /\ handler[h].pc = "markers"
    /\ IF CompileConfig(EffectiveOptions(handler[h].request)).valid
       THEN handler' = [handler EXCEPT ![h].pc = "profile"]
       ELSE Fail(h, "request_validation", "invalid_argument")
    /\ BumpStage("eigen_dpda", "success", 2)
    /\ UNCHANGED <<served, rpcTotals, failureTotals, digests, replays, seen>>

ProfileOf(r) ==
    ResolveProfile(EffectiveOptions(r), HasCall(r.program, "ExpectationValue"), HasCall(r.program, "minimize"))

\* _resolve_and_validate_profile.
ProfileReason(r) ==
    LET rules == ProfileRules(ProfileOf(r), EffectiveOptions(r), r.given # "source",
                              HasCall(r.program, "ExpectationValue"), HasCall(r.program, "minimize"))
    IN  IF ProfileOf(r) = "unknown" THEN "unimplemented"
        ELSE IF rules # {} THEN RulesReason(rules) ELSE "none"

ProfileStage(h) ==
    LET f == handler[h]
    IN  /\ f.pc = "profile"
        /\ RunStage(h, "eigen_dpda", ProfileReason(f.request), [f EXCEPT !.pc = "pipeline"])

\* _build_aqo_payload: the digest of the request, which covers the options and
\* the whole request context, is inside the document.
BuildAqo(f) ==
    LET r == f.request
        config == CompileConfig(EffectiveOptions(r))
    IN  [qubits     |-> f.lowered.qubits,
         operations |-> RewriteTerminal(f.lowered.operations, f.lowered.qubits),
         parameters |-> AqoParameters(f.params),
         expectation |-> IF HasCall(r.program, "ExpectationValue") THEN <<"ExpectationValue", f.expectation>> ELSE None,
         minimize   |-> HasCall(r.program, "minimize"),
         topology   |-> IF config.enabled THEN IF config.target = "" THEN "cluster" ELSE config.target ELSE "",
         request    |-> <<r.program, EffectiveOptions(r), f.deadline, r.sandbox>>]

\* _build_compiler_pass_pipeline and _validate_lowering_payload.
PipelineStage(h) ==
    LET f   == handler[h]
        aqo == BuildAqo(f)
    IN  /\ f.pc = "pipeline"
        /\ RunStage(h, "eigen_dpda", IF ValidAqo(aqo) THEN "none" ELSE "invalid_argument",
                    [pc |-> "canonicalize", request |-> f.request, aqo |-> aqo, profile |-> ProfileOf(f.request),
                     calls |-> f.lowered.calls])

CanonicalizeStage(h) ==
    /\ handler[h].pc = "canonicalize"
    /\ RunStage(h, "canonicalize_aqo", "none", [handler[h] EXCEPT !.pc = "emit"])

\* The metadata the kernel reads next to the document.
ResultMetadata(f) ==
    [profile |-> f.profile, contract |-> BackendContract(f.profile, EffectiveOptions(f.request)),
     minimize |-> f.aqo.minimize, sourceRef |-> f.request.given # "source",
     distributed |-> f.aqo.topology]

EmitStage(h) ==
    LET f == handler[h]
    IN  /\ f.pc = "emit"
        /\ RunStage(h, "emit", "none", [pc |-> "emitted", request |-> f.request, aqo |-> f.aqo, profile |-> f.profile,
                                        calls |-> f.calls, metadata |-> ResultMetadata(f)])
-----------------------------------------------------------------------------
\* _record_rpc(..., "success").
RecordSuccess(h) ==
    /\ handler[h].pc = "emitted"
    /\ handler' = [handler EXCEPT ![h].pc = "digest"]
    /\ rpcTotals' = [rpcTotals EXCEPT !["success"] = @ + 1]
    /\ UNCHANGED <<served, stageTotals, failureTotals, digests, replays, seen>>

RecordDigest(h) ==
    /\ handler[h].pc = "digest"
    /\ handler' = [handler EXCEPT ![h].pc = "look"]
    /\ digests' = digests + 1
    /\ UNCHANGED <<served, rpcTotals, stageTotals, failureTotals, replays, seen>>

\* Mutant of LookUpDigest: a new digest is not remembered.
LookUpDigestForgotten(h) ==
    /\ handler[h].pc = "look"
    /\ handler' = [handler EXCEPT ![h].pc = IF handler[h].aqo \in seen THEN "replay" ELSE "answered"]
    /\ UNCHANGED <<served, rpcTotals, stageTotals, failureTotals, digests, replays, seen>>

\* The look-up and the insertion are one critical section.
LookUpDigest(h) ==
    /\ handler[h].pc = "look"
    /\ seen' = seen \cup {handler[h].aqo}
    /\ handler' = [handler EXCEPT ![h].pc = IF handler[h].aqo \in seen THEN "replay" ELSE "answered"]
    /\ UNCHANGED <<served, rpcTotals, stageTotals, failureTotals, digests, replays>>

RecordReplay(h) ==
    /\ handler[h].pc = "replay"
    /\ handler' = [handler EXCEPT ![h].pc = "answered"]
    /\ replays' = replays + 1
    /\ UNCHANGED <<served, rpcTotals, stageTotals, failureTotals, digests, seen>>

Compiling(h) ==
    \/ StartCompile(h) \/ ParseStage(h) \/ ValidateAstStage(h) \/ AnnotateStage(h) \/ LowerStage(h)
    \/ MarkerStages(h) \/ ProfileStage(h) \/ PipelineStage(h) \/ CanonicalizeStage(h) \/ EmitStage(h)
Answering(h) ==
    \/ RecordFailure(h) \/ RecordReason(h)
    \/ RecordSuccess(h) \/ RecordDigest(h) \/ LookUpDigest(h) \/ RecordReplay(h)
CompilerNext ==
    \E h \in Handlers : \/ \E r \in Requests, t \in Remaining : Receive(h, r, t)
                        \/ Compiling(h) \/ Answering(h)
-----------------------------------------------------------------------------
Emitted(h)   == handler[h].pc \in {"canonicalize", "emit", "emitted", "digest", "look", "replay", "answered"}
At(pcs)      == {h \in Handlers : handler[h].pc \in pcs}
FailingAt(s) == {h \in At({"failed", "aborting"}) : handler[h].stage = s}

\* Lowering loses no gate call and repeats none: every call of the source is one
\* operation, in the source's order but for a call nested deeper than one after
\* it (ast.walk is breadth first), and the circuit ends in a measurement.
CallsAllLowered ==
    \A h \in Handlers : Emitted(h) =>
        LET f == handler[h]
            n == Len(f.calls)
            prog == f.request.program
        IN  /\ ToSet(f.calls) = {i \in DOMAIN prog : prog[i].kind = "call" /\ prog[i].name \in GateCalls}
            /\ \A i, j \in 1..n : i < j => (f.calls[i] < f.calls[j] \/ prog[f.calls[i]].depth < prog[f.calls[j]].depth)
            /\ \A i \in 1..n : f.aqo.operations[i].op = Opcode(prog[f.calls[i]].name)
            /\ Len(f.aqo.operations) \in {n, n + 1}
            /\ f.aqo.operations[Len(f.aqo.operations)].op = "MEASURE"

\* measure_all measures every qubit an operation before it in the circuit uses.
MeasureAllCovers ==
    \A h \in Handlers : Emitted(h) =>
        LET f == handler[h]
        IN  \A i \in DOMAIN f.calls : f.request.program[f.calls[i]].name = "measure_all" =>
                UNION {ToSet(f.aqo.operations[j].q) : j \in 1..i} \subseteq ToSet(f.aqo.operations[i].q)

\* Compiler and simulator agree on the document: a circuit of the operations the
\* simulator knows fails there only for what the compiler does not look at: a
\* CX on one qubit, a classical bit written twice by one measurement, or an
\* angle that is a string no parameter with a number stands behind.
EmittedRuns ==
    \A h \in Handlers : Emitted(h) =>
        LET aqo == handler[h].aqo
            ops == ToSet(aqo.operations)
        IN  SimulatorCode(aqo) = "INVALID_ARGUMENT" =>
                \E o \in ops : \/ o.op = "CX" /\ o.q[1] = o.q[2]
                               \/ o.op = "MEASURE" /\ ~IsInjective(o.c)
                               \/ o.theta[1] = "str" /\ (IF o.theta[2] \in DOMAIN aqo.parameters
                                                             THEN aqo.parameters[o.theta[2]][1] = "str" ELSE TRUE)

\* What the profile catalog forbids does not happen: no topology and no minimize
\* marker in the document of a profile that forbids the transformation,
\* although the profile is chosen by one reading of distributed.enabled and the
\* topology is written by another.
CatalogHonoured ==
    \A h \in Handlers : Emitted(h) =>
        LET f == handler[h]
            forbidden == ForbiddenTransformations(f.profile)
        IN  /\ "distributed_topology" \in forbidden => f.aqo.topology = ""
            /\ "adaptive_minimize" \in forbidden => ~f.aqo.minimize

\* The request validation and the compiler read the distributed options alike:
\* a request that passed the one fails in the other only for a partition count
\* written as the empty string, which the first skips and the second parses.
ValidatedOptionsParse ==
    \A h \in At({"markers"}) :
        LET o == EffectiveOptions(handler[h].request)
        IN  CompileConfig(o).valid \/ o["distributed.partition_count"] = ""

\* A profile that was inferred from the absence of everything else refuses no
\* valid request, except for a stray pipeline.stage_id and, for QuantumJob, a
\* cluster as the backend target.
InferredProfileFits ==
    \A h \in At({"profile"}) :
        LET r == handler[h].request
            o == EffectiveOptions(r)
        IN  /\ FirstOption(o, "workload.kind") = NoOption
            /\ ProfileOf(r) \in {"QuantumJob", "HybridWorkflow"}
            /\ ProfileReason(r) # "none"
            => \/ FirstOption(o, "pipeline.stage_id") # NoOption
               \/ ProfileOf(r) = "QuantumJob" /\ BackendTarget(o).class = "distributed"

\* Replay evidence: at any moment every digest counted is one seen for the first
\* time, one counted as a duplicate, or one a thread still holds.
ReplayAccounting == digests = Cardinality(seen) + replays + Cardinality(At({"look", "replay"}))

\* The stage counters: "emit" counts the emissions and, because validate_ast has
\* no label of its own, every source that passed the validation of its tree.
StageAccounting ==
    stageTotals["emit", "success"] =
        rpcTotals["success"] + Cardinality(At({"emitted"}))
        + stageTotals["annotate", "success"] + stageTotals["annotate", "failure"] + Cardinality(At({"annotate"}))

\* Every failed call is in the failure counter once, under the stage whose run
\* was counted as failed; what fails outside every stage is filed under the
\* request validation.
FailureAccounting ==
    /\ rpcTotals["failure"] = Cardinality(At({"aborting"}))
                              + MapThenSumSet(LAMBDA s : failureTotals[s], DOMAIN failureTotals)
    /\ \A s \in ToSet(Stages) \ {"emit"} :
            stageTotals[StageLabel(s), "failure"] = failureTotals[s] + Cardinality(FailingAt(s))

\* What CompileCircuit accepts it compiles completely: every call of the source is
\* in the artifact, measure_all measures what was used, and the simulator driver
\* runs what was emitted.
LoweringSound == CallsAllLowered /\ MeasureAllCovers /\ EmittedRuns

\* The stages that read the compiler options agree: what the catalogue and the
\* validation let through, the profile and the compile configuration can use.
OptionsAgree == CatalogHonoured /\ ValidatedOptionsParse /\ InferredProfileFits

\* The metrics of concurrent compilations add up to the calls, at every point of
\* every call.
CountersAddUp == ReplayAccounting /\ StageAccounting /\ FailureAccounting
=============================================================================
