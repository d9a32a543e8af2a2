------------------------------ MODULE MCCompiler ------------------------------
(* Requests for the compilation service: one call on its own with any of the *)
(* sources or options below, or two threads that share the metrics. And      *)
(* requests for the advisors that score a plan: one with any of the feature  *)
(* vectors below, or two threads next to one that activates models.          *)
EXTENDS CompilationService, ModelScoring, TLC

VARIABLE part

Node(kind, name, depth) == [kind |-> kind, name |-> name, depth |-> depth, base |-> "", args |-> <<>>, kw |-> <<>>]
Call(name, args, kw, depth) == [Node("call", name, depth) EXCEPT !.args = args, !.kw = kw]
Lit(n) == <<"int", n>>
Half == <<"truediv", Lit(1), Lit(2)>>
Entry == Node("def", "hybrid_program", 1)
Assigned(target, call) == <<Node("assign", target, call.depth - 1), call>>

\* The calls whose place in the source matters.
Gates(d) ==
    {<<Call("rx", <<Lit(0), <<"name", "theta">> >>, <<>>, d)>>, <<Call("cx", <<Lit(0), Lit(1)>>, <<>>, d)>>,
     <<Call("measure", <<Lit(1)>>, <<>>, d)>>, <<Call("measure_all", <<>>, <<>>, d)>>,
     Assigned("theta", Call("Param", << <<"str", "t">>, Half>>, <<>>, d + 1))}

\* The rest of what a body may hold.
Others ==
    LET d == 3
    IN  {<<Call("rx", <<Lit(0)>>, <<>>, d)>>, <<Call("ry", <<<<"neg", Lit(1)>>, Lit(1)>>, <<>>, d)>>,
         <<Call("rz", <<Half>>, << <<"theta", Lit(1)>> >>, d)>>,
         <<Call("rz", <<<<"floordiv", Lit(2), Lit(2)>> >>, << <<"theta", <<"str", "u">> >> >>, d)>>,
         <<Call("rx", <<Lit(0), <<"mod", Lit(1), Lit(0)>> >>, <<>>, d)>>,
         <<Call("h", <<Lit(2)>>, <<>>, d)>>, <<Call("cnot", <<Lit(0), Lit(0)>>, <<>>, d)>>,
         <<Call("ccx", <<Lit(0), Lit(1)>>, <<>>, d)>>,
         <<Call("measure", <<Lit(0), Lit(1)>>, << <<"c", <<"list", <<Lit(2), Lit(2)>> >> >> >>, d)>>,
         <<Call("measure", <<Lit(0)>>, << <<"c", <<"list", <<Lit(0), Lit(1)>> >> >> >>, d)>>,
         <<Call("measure", <<Lit(0)>>, << <<"basis", <<"str", "W">> >> >>, d)>>,
         <<Call("measure", <<Lit(0)>>, << <<"basis", <<"str", "X">> >> >>, d)>>,
         Assigned("theta", Call("Param", << <<"str", "t">> >>, <<>>, d + 1)),
         Assigned("phi", Call("Param", << <<"str", "t">>, Lit(2)>>, <<>>, d + 1)),
         Assigned("theta", Call("Param", << <<"str", "t">>, <<"opaque">> >>, <<>>, d + 1)),
         Assigned("obs", Call("Observable", <<>>, << <<"ZZ", <<"list", <<Lit(0), Lit(1)>> >> >> >>, d + 1)),
         <<Call("ExpectationValue", <<>>, << <<"observable", <<"name", "obs">> >> >>, d)>>,
         <<Call("minimize", <<>>, <<>>, d)>>, <<Call("eval", <<>>, <<>>, d)>>,
         <<[Call("system", <<>>, <<>>, d) EXCEPT !.base = "os"]>>,
         <<Node("import", "eigen_lang", 1)>>, <<Node("import", "sys", 1)>>,
         <<Node("branch", "if", 2)>>, <<Node("def", "hybrid_program", 2)>>, <<Node("def", "helper", 2)>>}

Deep == <<Call("h", <<Lit(0)>>, <<>>, MaxAstDepth + 1)>>
Nested == Gates(3) \cup Gates(4)

\* <<Entry>> followed by up to three of the gates, or by one or two of anything.
Programs ==
    LET body == {<<>>, Deep} \cup Nested \cup Others
    IN  {<<Entry>> \o a \o b \o c : a, b, c \in Nested}
        \cup {<<Entry>> \o a \o b : a, b \in body} \cup {a : a \in body}

Plain == <<Entry, Call("h", <<Lit(0)>>, <<>>, 3)>>
Hybrid == Plain \o <<Call("ExpectationValue", <<>>, <<>>, 3)>>
Adaptive == Plain \o <<Call("minimize", <<>>, <<>>, 3)>>

Request(prog, o, given) ==
    [rpc |-> "CompileCircuit", job |-> "", language |-> "eigen-lang", given |-> given, ref |-> "stored",
     program |-> prog, parses |-> TRUE, options |-> o, kind |-> "", metadata |-> "complete",
     sandbox |-> "", deadline |-> "d", oversize |-> FALSE]

\* One value of each option, and the pairs of them.
SingleOptions ==
    {"workload.kind" :> k : k \in Kinds \cup {"OtherJob", " "}}
    \cup {"runtime.mode" :> m : m \in {"distributed", "benchmark", "pipeline", "replay", "hybrid", "batch"}}
    \cup {"workload.seed" :> "1", "workload.seed" :> "x", "pipeline.handoff_ref" :> "h", "pipeline.stage_id" :> "s"}
    \cup {"replay.enabled" :> v : v \in {"yes", "no"}}
    \cup {"backend_target" :> t : t \in {"sim:local", "cluster:gpu", "runtime:auto", "ibm:qpu", "moon"}}
    \cup {"distributed.enabled" :> v : v \in {"true", "1", " true", "no", "maybe"}}
    \cup {"distributed.target" :> t : t \in {"cluster", "", "mars"}}
    \cup {"distributed.partition_count" :> c : c \in {"1", "0", "x", ""}}
    \cup {"distributed.queue_provider" :> "memory", "distributed.topology_hint" :> "odd"}
Distributed ==
    {("distributed.enabled" :> e) @@ ("distributed.target" :> t) @@ c :
        e \in {"true", "1", " true"}, t \in {"cluster", ""},
        c \in {<<>>} \cup {"distributed.partition_count" :> n : n \in {"1", "0", ""}}}
OptionSets ==
    {<<>>} \cup SingleOptions \cup {a @@ b : a, b \in SingleOptions} \cup {a @@ b : a \in Distributed, b \in SingleOptions}
    \cup {("workload.kind" :> "BenchmarkJob") @@ ("workload.seed" :> "1") @@ ("backend_target" :> "sim:local") @@ o :
                o \in SingleOptions \cup Distributed}
    \cup {("workload.kind" :> "PipelineJob") @@ ("pipeline.handoff_ref" :> "h") @@ ("pipeline.stage_id" :> "s") @@ o : o \in SingleOptions}

SingleRequests ==
    {Request(p, <<>>, "source") : p \in Programs}
    \cup {Request(p, o, g) : p \in {Plain, Hybrid, Adaptive}, o \in OptionSets, g \in {"source", "ref"}}
    \cup {[Request(Plain, <<>>, "source") EXCEPT !.language = l] : l \in {"", "qasm"}}
    \cup {[Request(Plain, <<>>, g) EXCEPT !.ref = r] : g \in {"both", "ref"}, r \in {"missing", "traversal"}}
    \cup {[Request(Plain, <<>>, "source") EXCEPT !.parses = FALSE], [Request(Plain, <<>>, "source") EXCEPT !.oversize = TRUE],
          [Request(Plain, <<>>, "source") EXCEPT !.metadata = "partial"], [Request(Plain, <<>>, "source") EXCEPT !.rpc = "CompileJob"],
          [Request(Plain, <<>>, "source") EXCEPT !.sandbox = "open"], [Request(Plain, <<>>, "source") EXCEPT !.kind = "BenchmarkJob"],
          Request(Plain, <<>>, "neither")}

\* Two sources, one without a deadline of its own, and one the tree check refuses.
SharedRequests ==
    {Request(Plain, <<>>, "source"),
     [Request(Plain, <<>>, "source") EXCEPT !.metadata = "absent", !.deadline = ""],
     Request(<<Node("branch", "if", 1)>>, <<>>, "source")}

-----------------------------------------------------------------------------
Texts == {<<"text", {}, {}>>, <<"text", {"email"}, {}>>, <<"text", {"header"}, {}>>, <<"text", {"stack", "endpoint"}, {}>>,
          <<"text", {}, {"email"}>>}
Values == Texts \cup {<<"number">>} \cup {<<"list", <<t>> >> : t \in Texts}
Objects == {<<"object", <<<<k, v>> >> >> : k \in KeyKinds, v \in Values}
           \cup {<<"object", <<<<"identifier", <<"object", <<<<k, v>> >> >> >> >> >> : k \in KeyKinds, v \in Texts}
Vectors == [json : {TRUE}, canonical : BOOLEAN, value : Objects] \cup [json : {FALSE}, canonical : {FALSE}, value : Texts]

PlanRequest(id, vector, score) ==
    [id |-> id, identity |-> "ok", version |-> "ok", context |-> "complete", binding |-> "same", policy |-> "active",
     vector |-> <<vector>>, digest |-> <<vector>>, rawSize |-> "within", size |-> "within", score |-> score]
Short == [json |-> TRUE, canonical |-> TRUE, value |-> <<"object", <<<<"plain", <<"number">> >> >> >>]
MCPlanRequests ==
    {PlanRequest("r1", Short, 50), PlanRequest("r2", Short, 70),
     [PlanRequest("r3", Short, 10) EXCEPT !.binding = "other"]}
OddRequests ==
    {[PlanRequest("r", Short, 50) EXCEPT !.identity = i] : i \in {"missing", "wrong", "stranger"}}
    \cup {[PlanRequest("r", Short, 50) EXCEPT !.version = v] : v \in {"missing", "other"}}
    \cup {[PlanRequest("r", Short, 50) EXCEPT !.context = "partial"], [PlanRequest("r", Short, 50) EXCEPT !.policy = "other"],
          [PlanRequest("r", Short, 50) EXCEPT !.vector = <<>>], [PlanRequest("r", Short, 50) EXCEPT !.digest = <<>>],
          [PlanRequest("r", Short, 50) EXCEPT !.rawSize = "over", !.size = "over"]}

Model(v, marked, artifact, signed) ==
    [version |-> v, marked |-> marked, complete |-> TRUE, artifact |-> artifact, signed |-> signed]
MCRegistries ==
    {<<>>, << [trusted |-> TRUE, active |-> "m1", models |-> <<Model("m1", FALSE, "intact", TRUE), Model("m2", FALSE, "intact", FALSE)>>] >>,
     << [trusted |-> TRUE, active |-> "", models |-> <<Model("m1", FALSE, "changed", TRUE), Model("m2", TRUE, "intact", TRUE)>>] >>}
-----------------------------------------------------------------------------
Parts == {"single", "shared", "vectors", "scoring"}
First == CHOOSE h \in Handlers : TRUE
FirstScorer == CHOOSE h \in Scorers : TRUE

ScoringRests ==
    /\ registry = <<>> /\ snapshot = LoadRegistry(<<>>, "") /\ modelVersion = Default /\ activation = "baseline"
    /\ sound = {} /\ activator = [pc |-> "idle"] /\ activations = 0 /\ emptied = FALSE
    /\ scorer = [h \in Scorers |-> [pc |-> "idle"]] /\ calls = 0 /\ denials = 0 /\ oks = 0
    /\ decisions = [d \in Decisions |-> 0] /\ outcomes = [o \in SuggestionOutcomes |-> 0]

MCInit ==
    /\ part \in Parts /\ CompilerInit
    /\ IF part = "scoring" THEN ScoringInit ELSE ScoringRests

CompilerPart ==
    /\ \/ /\ part = "single" /\ served = 0
          /\ \E r \in SingleRequests : Receive(First, r, "")
       \/ /\ part = "shared"
          /\ \E h \in Handlers, r \in SharedRequests, t \in Remaining : Receive(h, r, t)
       \/ \E h \in Handlers : Compiling(h) \/ Answering(h)
    /\ UNCHANGED scoringVars

AdvisorPart ==
    /\ \/ /\ part = "vectors" /\ calls = 0
          /\ \/ \E v \in Vectors : Score(FirstScorer, PlanRequest("r", v, 50))
             \/ \E r \in OddRequests : Score(FirstScorer, r)
       \/ part = "scoring" /\ ScoringNext
    /\ UNCHANGED compilerVars

MCNext == UNCHANGED part /\ (CompilerPart \/ AdvisorPart)
MCSpec == MCInit /\ [][MCNext]_<<compilerVars, scoringVars, part>>
=============================================================================
