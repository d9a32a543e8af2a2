---------------------------- MODULE MCAnalytics ----------------------------
(***************************************************************************)
(* The services that judge and learn from runs, one part at a time:        *)
(* history pages, verdicts over metrics, dataset bundles, mined patterns,  *)
(* and training manifests made of production traces. The parts share no    *)
(* state; what does not run in a part rests.                               *)
(***************************************************************************)
EXTENDS BenchmarkHistory, BenchmarkEvaluation, DatasetIngestion, PatternMiner, TrainingManifest

VARIABLE part
-----------------------------------------------------------------------------
\* Three runs on two days, one of which may be running; one id is still free.
MCLogs ==
    {l \in [{1, 3, 4} -> [at : {1, 2}, state : {"PENDING", "RUNNING", "FAILED"}, dataset : {"a"}]] :
        l[1].state # "RUNNING" /\ l[3].state # "RUNNING"}
MCQueries == [from : {1}, to : {2}, states : {{}, {"PENDING"}, {"PENDING", "RUNNING"}}, dataset : {"a"}]
-----------------------------------------------------------------------------
\* Comparisons around zero, with and without spread.
MCMetric == [name : {"latency_ms"}, mean : -2..3, sd : 0..1, n : 0..2]
Compares ==
    [kind : {"compare"}, baseline : MCMetric, candidate : MCMetric,
     policy : [lower : BOOLEAN, threshold : {1, 50}, level : 0..2]]

\* Up to three runs, around a mean of zero, with other hashes and other metrics.
GateRun ==
    [hash : {"h1", "h2"}, payload : {"p"}, metrics : {[m |-> v] : v \in {-1, 0, 1, 4}}]
    \cup [hash : {"h1"}, payload : {"p"}, metrics : {[m |-> 1, k |-> 1]}]
Gates ==
    [kind : {"gate"}, runs : UNION {[1..n -> GateRun] : n \in 1..3},
     policy : [runs : {2}, relative : {50}, absolute : {0, 1}]]

MetricAt(x, v) == [name |-> x, mean |-> v, sd |-> 1, n |-> 4]
Fixtures ==
    [kind : {"fixture"},
     baseline : {<<MetricAt("fidelity", 90)>>, <<MetricAt("latency_ms", 5)>>,
                 <<MetricAt("fidelity", 90), MetricAt("fidelity", 80), MetricAt("latency_ms", 5)>>},
     candidate : {<<>>, <<MetricAt("fidelity", 80)>>, <<MetricAt("fidelity", 100)>>,
                  <<MetricAt("latency_ms", 9), MetricAt("fidelity", 90)>>},
     policy : [lower : BOOLEAN, threshold : {5}, level : {0, 2}], observed : {1, 2}, required : {2}, nodes : {2},
     edges : {<<>>, <<90>>}, circuits : {1, 2}, threshold : {2}, elapsed : {0, 5}, interval : {5}, manual : BOOLEAN,
     stable : {"s"}]
MCEvaluations == Compares \cup Gates \cup Fixtures
-----------------------------------------------------------------------------
\* Text sources with either line end, and one that is hashed as it is.
MCSourceFiles ==
    [body : {"b1", "b2"}, ends : {"lf", "crlf"}, text : {TRUE}, utf8 : {TRUE}]
    \cup [body : {"b1"}, ends : {"crlf"}, text : {FALSE, TRUE}, utf8 : {FALSE}]

\* Rows of two families and windows, some of which name their project.
Row(f, p, r, w) == [circuit |-> 1, family |-> f, project |-> p, record |-> r, window |-> w]
MCRows == {Row(1, "p", 1, 1), Row(1, "", 2, 1), Row(2, "", 1, 1), Row(2, "", 1, 2), Row(2, "p", 2, 2)}
MCPatternQueries ==
    [circuit : {1}, window : {1, 2}, mode : {"structural", "vector", "hybrid"}, budget : 0..2]
-----------------------------------------------------------------------------
\* Bundles that differ from a good one in one way, and combinations of the ids
\* of its selection, approval and records.
Block(spelled, extra, of) == [spelled |-> spelled, extra |-> extra, digest |-> of]
Clean == Block("clean", FALSE, <<"clean", FALSE>>)
Padded == Block("padded", FALSE, <<"padded", FALSE>>)
OddBlocks ==
    {Padded, Block("clean", TRUE, <<"clean", TRUE>>), Block("none", FALSE, <<"none", FALSE>>),
     Block("clean", FALSE, <<"padded", FALSE>>), Block("blank", FALSE, <<"blank", FALSE>>)}
GoodRecord(t, r) ==
    [trace |-> t, replay |-> r, scope |-> "own", payload |-> "plain", digest |-> "plain",
     provenance |-> Clean, redaction |-> Clean]
Base ==
    [owner |-> "ns", policy |-> "v1",
     selection |-> [spelled |-> "clean", traces |-> <<1, 2>>, replays |-> <<1, 2>>, scope |-> "own", by |-> "ns"],
     approval |-> [spelled |-> "clean", decision |-> "approved", replays |-> <<1, 2>>, scope |-> "absent"],
     provenance |-> Clean, redaction |-> Clean, records |-> <<GoodRecord(1, 1), GoodRecord(2, 2)>>]

IdLists == {<<>>, <<1>>, <<2>>, <<1, 2>>, <<2, 1>>, <<1, 1, 2>>}
RecordLists ==
    {<<>>, <<GoodRecord(1, 1)>>, <<GoodRecord(1, 2)>>, <<GoodRecord(1, 1), GoodRecord(2, 2)>>,
     <<GoodRecord(1, 1), GoodRecord(1, 2)>>}
OtherIds ==
    {[Base EXCEPT !.selection.traces = t, !.selection.replays = s, !.approval.replays = a, !.records = rs] :
        t \in IdLists, s \in IdLists, a \in IdLists, rs \in RecordLists}
OtherBlocks ==
    UNION {{[Base EXCEPT !.provenance = b], [Base EXCEPT !.redaction = b],
            [Base EXCEPT !.records[1].provenance = b], [Base EXCEPT !.records[2].redaction = b]} : b \in OddBlocks}
OtherStrings ==
    {[Base EXCEPT !.selection.scope = s, !.approval.scope = t, !.records[1].scope = u] :
        s, t, u \in {"absent", "own", "other", "blank"}}
    \cup {[Base EXCEPT !.selection.spelled = s, !.approval.spelled = t] : s, t \in {"clean", "padded", "none", "blank"}}
    \cup {[Base EXCEPT !.records[1].payload = p, !.records[1].digest = d] : p, d \in {"plain", "secret", "path"}}
    \cup {[Base EXCEPT !.owner = o, !.selection.by = c, !.approval.decision = d, !.policy = v] :
             o, c \in {"ns", "x"}, d \in {"approved", "denied"}, v \in {"v1", "v2"}}
MCBundles == OtherIds \cup OtherBlocks \cup OtherStrings

MCEdits ==
    {[part |-> "owner", value |-> "x"], [part |-> "policy", value |-> "v2"]}
    \cup [part : {"provenance", "redaction"}, value : {Padded, [Padded EXCEPT !.digest = Clean.digest]}]
    \cup {[part |-> "selection", value |-> [Base.selection EXCEPT !.replays = r, !.spelled = "padded", !.scope = "absent"]] :
             r \in IdLists}
    \cup {[part |-> "approval", value |-> [Base.approval EXCEPT !.replays = r, !.spelled = s]] :
             r \in IdLists, s \in {"clean", "padded"}}
    \cup [part : {"records"},
          value : {<<>>, <<GoodRecord(1, 1)>>, <<GoodRecord(1, 1), GoodRecord(2, 1)>>,
                   <<GoodRecord(1, 1), [GoodRecord(2, 2) EXCEPT !.payload = "path", !.digest = "path"]>>}]
-----------------------------------------------------------------------------
HistoryRests == log = [r \in {} |-> <<>>] /\ pages = [pc |-> "idle"] /\ changes = 0
ManifestRests == bundle = Base /\ manifest = <<>> /\ prepared = <<>> /\ stored = <<>> /\ policy = "v1"

MCInit ==
    /\ part \in {"history", "evaluation", "datasets", "patterns", "manifests"}
    /\ IF part = "history" THEN HistoryInit ELSE HistoryRests
    /\ IF part = "manifests" THEN ManifestInit ELSE ManifestRests
    /\ EvaluationInit /\ DatasetInit /\ MinerInit

MCNext ==
    \/ part = "history" /\ HistoryNext /\ UNCHANGED <<evaluation, datasetVars, minerVars, manifestVars, part>>
    \/ part = "evaluation" /\ EvaluationNext /\ UNCHANGED <<historyVars, datasetVars, minerVars, manifestVars, part>>
    \/ part = "datasets" /\ DatasetNext /\ UNCHANGED <<historyVars, evaluation, minerVars, manifestVars, part>>
    \/ part = "patterns" /\ MinerNext /\ UNCHANGED <<historyVars, evaluation, datasetVars, manifestVars, part>>
    \/ part = "manifests" /\ ManifestNext /\ UNCHANGED <<historyVars, evaluation, datasetVars, minerVars, part>>

MCSpec == MCInit /\ [][MCNext]_<<historyVars, evaluation, datasetVars, minerVars, manifestVars, part>>
=============================================================================
