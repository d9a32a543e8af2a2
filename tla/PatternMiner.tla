---------------------------- MODULE PatternMiner ----------------------------
(***************************************************************************)
(* The pattern miner of the neuro-symbolic service (pattern_miner.py):     *)
(* idempotent ingest of snapshots, the catalog of patterns of a snapshot,  *)
(* and the canonical pattern and candidates a query is answered with.      *)
(*                                                                         *)
(* A row is [circuit, family, project, record, window]: circuit stands for *)
(* circuit_id and backend_class, window for the compatibility fields       *)
(* (0 where the row has none), project is "" where the row leaves its      *)
(* scope to the snapshot. Names are numbers, so that the code's order of   *)
(* canonical JSON is their order.                                          *)
(***************************************************************************)
EXTENDS Integers, Sequences, FiniteSets, FiniteSetsExt, SequencesExt

CONSTANTS Snapshots, Rows, Projects, MaxRows, MaxIngests,
          PatternQueries     \* [circuit, window, mode, budget]

VARIABLES snapshots,   \* id -> <<>> or <<[project, rows]>>
          offered,     \* history: id -> the calls accepted for it
          ingests

minerVars == <<snapshots, offered, ingests>>

\* Where the keys of two rows differ first, in the order of their JSON: the
\* window's fields, backend and circuit, family, project, record. A row that
\* names its project sorts before one that does not: "project_id" comes before
\* "record_id", the next key of the other.
RowKey(row) == <<row.window, row.circuit, row.family, IF row.project = "" THEN 1 ELSE 0, row.record>>
RowBefore(a, b) ==
    \E i \in 1..5 : RowKey(a)[i] < RowKey(b)[i] /\ \A j \in 1..(i - 1) : RowKey(a)[j] = RowKey(b)[j]

\* _normalize_snapshot_records: the scope, <<>> where the call is refused.
ScopeOf(rows, project) ==
    LET named == {rows[i].project : i \in DOMAIN rows} \ {""}
        scope == IF project # "" THEN project
                 ELSE IF Cardinality(named) = 1 THEN CHOOSE p \in named : TRUE ELSE "default"
    IN  IF named \subseteq {scope} THEN <<scope>> ELSE <<>>

\* Mutant of Normalized: the rows keep the order they came in.
NormalizedUnsorted(rows, scope) == [i \in DOMAIN rows |-> [rows[i] EXCEPT !.project = scope]]

\* Sorted as they came, then each given the snapshot's scope.
Normalized(rows, scope) ==
    LET sorted == SortSeq(rows, RowBefore) IN [i \in DOMAIN sorted |-> [sorted[i] EXCEPT !.project = scope]]

MinerInit ==
    /\ snapshots = [s \in Snapshots |-> <<>>]
    /\ offered = [s \in Snapshots |-> {}]
    /\ ingests = 0

\* ingest_snapshot: the first call stores, an equal one is a replay, another is
\* refused.
IngestSnapshot(s, rows, project) ==
    LET scope == ScopeOf(rows, project)
        payload == [project |-> scope[1], rows |-> Normalized(rows, scope[1])]
    IN  /\ ingests < MaxIngests
        /\ ingests' = ingests + 1
        /\ scope # <<>>
        /\ snapshots[s] \in {<<>>, <<payload>>}
        /\ snapshots' = [snapshots EXCEPT ![s] = <<payload>>]
        /\ offered' = [offered EXCEPT ![s] = @ \cup {[rows |-> rows, project |-> project]}]

RowLists == UNION {[1..n -> Rows] : n \in 0..MaxRows}
MinerNext == \E s \in Snapshots, rows \in RowLists, p \in Projects \cup {""} : IngestSnapshot(s, rows, p)
-----------------------------------------------------------------------------
\* _pattern_catalog: one pattern per circuit, family and window; its sources are
\* the record ids of its rows, record 0 being a row without one.
Catalog(s) ==
    LET rows == ToSet(snapshots[s][1].rows)
    IN  {[circuit |-> k[1], family |-> k[2], window |-> k[3],
          sources |-> {r.record : r \in {x \in rows : <<x.circuit, x.family, x.window>> = k /\ x.record # 0}}]
         : k \in {<<r.circuit, r.family, r.window>> : r \in rows}}

Support(pattern) == Cardinality(pattern.sources)

\* _compatibility_checks: a query always names its window, so a pattern with
\* none is incompatible.
Compatible(pattern, window) == pattern.window = window

\* _decorate_pattern_candidate, the structural score, in fifths of max_support.
StructuralScore(pattern, window, top) ==
    3 * Support(pattern) + (IF Compatible(pattern, window) THEN 2 * top ELSE 0)

\* The score of the query's mode. A vector score is the value of a hash, so it
\* may be anything: hash gives one to each pattern. In fifths of fifths of top.
SelectedScore(pattern, q, top, hash) ==
    CASE q.mode = "vector" -> hash[pattern]
      [] q.mode = "hybrid" -> 3 * StructuralScore(pattern, q.window, top) + 10 * top * hash[pattern]
      [] OTHER -> StructuralScore(pattern, q.window, top)
Confidence(pattern, q, top) == Support(pattern) + (IF Compatible(pattern, q.window) THEN top ELSE 0)

\* _choose_canonical_pattern.
CanonicalBefore(a, b) ==
    Support(a) > Support(b) \/ (Support(a) = Support(b) /\ a.family < b.family)
Canonical(scoped, window) ==
    LET fit == {p \in scoped : Compatible(p, window)}
    IN  IF fit = {} THEN <<>> ELSE <<CHOOSE p \in fit : \A o \in fit \ {p} : CanonicalBefore(p, o)>>

\* Candidate ids are hashes too; the names stand for their order.
IdBefore(a, b) == a.family < b.family \/ (a.family = b.family /\ a.window < b.window)

\* _order_pattern_candidates.
CandidateBefore(a, b, canonical, q, top, hash) ==
    LET score == SelectedScore(a, q, top, hash) - SelectedScore(b, q, top, hash)
        sure  == Confidence(a, q, top) - Confidence(b, q, top)
    IN  \/ <<a>> = canonical
        \/ <<b>> # canonical /\ (score > 0 \/ (score = 0 /\ (sure > 0 \/ (sure = 0 /\ IdBefore(a, b)))))

Scoped(s, circuit) == {p \in Catalog(s) : p.circuit = circuit}

\* get_pattern: the canonical pattern and the candidates within the budget, for
\* a query [circuit, window, mode, budget].
GetPattern(s, q, hash) ==
    LET scoped == Scoped(s, q.circuit)
        top == Max({1} \cup {Support(p) : p \in scoped})
        canonical == Canonical(scoped, q.window)
        ordered == SetToSortSeq(scoped, LAMBDA a, b : CandidateBefore(a, b, canonical, q, top, hash))
        room == Min({Len(ordered), IF q.budget < 1 THEN 1 ELSE q.budget})
    IN  [canonical |-> canonical, candidates |-> SubSeq(ordered, 1, room)]
-----------------------------------------------------------------------------
\* Ingest is idempotent in the content, not the spelling: whatever was accepted
\* for a snapshot is accepted again with its rows in any order, and with every
\* row naming the project or none, where the accepted rows did one or the other.
ReplayAccepted ==
    \A s \in Snapshots : \A call \in offered[s] :
        LET n == Len(call.rows)
            scope == snapshots[s][1].project
            uniform == \A i, j \in 1..n : (call.rows[i].project = "") = (call.rows[j].project = "")
            spelled(p) == [i \in 1..n |-> [call.rows[i] EXCEPT !.project = p]]
            permuted(rows, f) == [i \in 1..n |-> rows[f[i]]]
        IN  \A f \in {g \in [1..n -> 1..n] : \A i, j \in 1..n : i # j => g[i] # g[j]} :
                /\ Normalized(permuted(call.rows, f), scope) = snapshots[s][1].rows
                /\ uniform => \A p \in {scope, ""} : Normalized(permuted(spelled(p), f), scope) = snapshots[s][1].rows

\* A snapshot answers for one content: every accepted call names the same rows
\* up to spelling, so a stored snapshot never changes under its readers.
SnapshotFrozen ==
    \A s \in Snapshots : \A a, b \in offered[s] :
        {[r EXCEPT !.project = ""] : r \in ToSet(a.rows)} = {[r EXCEPT !.project = ""] : r \in ToSet(b.rows)}

\* Where a compatible pattern exists the answer leads with one of the greatest
\* support among the compatible, in every mode and within every budget, whatever
\* scores the hash gives the others; where none exists nothing is canonical.
CanonicalLeads ==
    \A s \in Snapshots : snapshots[s] # <<>> =>
        \A q \in PatternQueries : \A hash \in [Scoped(s, q.circuit) -> 0..1] :
            LET answer == GetPattern(s, q, hash)
                fit == {p \in Scoped(s, q.circuit) : Compatible(p, q.window)}
            IN  IF fit = {} THEN answer.canonical = <<>>
                ELSE /\ answer.candidates[1] = answer.canonical[1]
                     /\ answer.canonical[1] \in fit
                     /\ \A p \in fit : Support(p) <= Support(answer.canonical[1])

\* No record counts for a pattern whose window it does not share.
SupportIsOwn ==
    \A s \in Snapshots : snapshots[s] # <<>> =>
        \A p \in Catalog(s) : \A id \in p.sources :
            \E r \in ToSet(snapshots[s][1].rows) : r.record = id /\ r.window = p.window /\ r.circuit = p.circuit

\* A mined snapshot is immutable, can be replayed from its rows in any order, and
\* its candidates are led by the canonical one with its own support.
PatternsSound ==
    /\ SnapshotFrozen /\ ReplayAccepted /\ CanonicalLeads /\ SupportIsOwn
=============================================================================
