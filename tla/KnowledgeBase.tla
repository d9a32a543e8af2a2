---------------------------- MODULE KnowledgeBase ----------------------------
(***************************************************************************)
(* The knowledge base of the neuro-symbolic service (knowledge_base.py and *)
(* the append-only subclass of knowledge_base_versioned.py): records and   *)
(* decision logs of the primary store, the three derived indexes the       *)
(* optimization queries read, retention, and the client that walks the     *)
(* records page by page.  Every handler runs under one lock, so a handler  *)
(* is one step; it first collects what retention has expired.              *)
(*                                                                         *)
(* The state the lock protects is one record, kb, because a handler passes *)
(* it through several methods: collect, then store, then index.  The       *)
(* evidence, models and datasets in it belong to LearningRegistry.         *)
(***************************************************************************)
EXTENDS Integers, Sequences, FiniteSets, Bags, SequencesExt

CONSTANTS RecordIds,      \* record ids, a set of numbers (ids are ordered)
          DecisionIds,    \* decision ids, numbers as well
          Scopes,         \* tenant/project pairs
          Contents,       \* what a record or a decision says: the backend and optimizer it
                          \* names ("q": the ones the queries ask for), qubits, capabilities
          Filters,        \* qubit bounds of QueryRecords: [lo, hi], 0 = unset
          Retention,      \* retention_seconds, in clock ticks
          Budget,         \* candidate_budget asked for
          Page,           \* page_size asked for
          Batches,        \* the batches of BatchUpsertRecords
          MaxClock,       \* bound on time
          MaxSequence,    \* bound on writes
          VectorOf(_, _)  \* the hash-based score (percent) of a kind and content

VARIABLES kb,         \* the state under the service's lock
          clock,
          versioned,  \* TRUE for the append-only subclass
          walk        \* a client paging through QueryRecords

kb_vars == <<kb, clock, versioned, walk>>

Modes == {"structural", "vector", "hybrid"}

\* A protobuf timestamp the client left unset reads as 1970.
Epoch == -(Retention + 1)

NoWalk == [live |-> FALSE, missed |-> FALSE, lost |-> FALSE, repeated |-> FALSE, gained |-> FALSE]

Empty == [x \in {} |-> x]

\* f with x mapped to v, whether or not x was in its domain.
Put(f, x, v) == [y \in DOMAIN f \cup {x} |-> IF y = x THEN v ELSE f[y]]

EmptyStore ==
    [records |-> Empty, decisions |-> <<>>, history |-> Empty, sequence |-> 0,
     ready |-> FALSE, index |-> [m \in Modes |-> Empty],
     evidence |-> EmptyBag, models |-> Empty, datasets |-> Empty]

Init ==
    /\ kb = EmptyStore
    /\ clock = 0
    /\ versioned \in BOOLEAN
    /\ walk = NoWalk
-----------------------------------------------------------------------------
(***************************************************************************)
(* The derived indexes.  A source id is <<0, d>> for decision d and        *)
(* <<1, r>> for record r: "decision:..." sorts before "record:...".        *)
(***************************************************************************)
scope_snapshot(k, s) ==
    {[source |-> <<1, r>>, hint |-> 0, time |-> k.records[r].created, fp |-> k.records[r].fp,
      seq |-> k.records[r].seq] : r \in {x \in DOMAIN k.records : k.records[x].scope = s}}
    \cup
    {[source |-> <<0, k.decisions[i].id>>, hint |-> 1, time |-> k.decisions[i].decided,
      fp |-> k.decisions[i].fp, seq |-> k.decisions[i].seq] :
        i \in {j \in DOMAIN k.decisions : k.decisions[j].scope = s}}

\* Lexicographic order on sequences of integers of one length.
LexLess(a, b) ==
    \E i \in DOMAIN a : a[i] < b[i] /\ \A j \in 1 .. i - 1 : a[j] = b[j]

SortKey(item, mode) ==
    CASE mode = "vector"     -> <<item.fp>> \o item.source \o <<item.seq>>
      [] mode = "hybrid"     -> <<item.hint, item.fp>> \o item.source \o <<item.seq>>
      [] mode = "structural" -> <<item.hint, item.time, item.source[2], item.seq>>

expected_scope_entries(k, s, mode) ==
    LET order == SetToSortSeq(scope_snapshot(k, s),
                              LAMBDA a, b : LexLess(SortKey(a, mode), SortKey(b, mode)))
    IN  [i \in DOMAIN order |-> order[i].source]

sync_index_scope(k, s) ==
    [k EXCEPT !.ready = TRUE,
              !.index = [m \in Modes |-> Put(k.index[m], s, expected_scope_entries(k, s, m))]]

LiveScopes(k) ==
    {k.records[r].scope : r \in DOMAIN k.records}
    \cup {k.decisions[i].scope : i \in DOMAIN k.decisions}

AllScopes == "all"

target_scopes(k, s) == IF s = AllScopes THEN LiveScopes(k) ELSE {s}

rebuild_indexes(k, s) ==
    LET targets == target_scopes(k, s)
    IN  [k EXCEPT !.ready = TRUE,
                  !.index = [m \in Modes |->
                                [t \in DOMAIN k.index[m] \cup targets |->
                                    IF t \in targets THEN expected_scope_entries(k, t, m)
                                                     ELSE k.index[m][t]]]]

Entries(k, m, s) == IF s \in DOMAIN k.index[m] THEN k.index[m][s] ELSE <<>>

\* _okb_overall_status_locked for one scope or for the whole service.
overall_status(k, s) ==
    LET Synced(t) == \A m \in Modes : Entries(k, m, t) = expected_scope_entries(k, t, m)
    IN  CASE ~k.ready                                          -> "unavailable"
          [] k.ready /\ s = AllScopes ->
                IF \A t \in UNION {DOMAIN k.index[m] : m \in Modes} : Synced(t)
                THEN "ready" ELSE "degraded"
          [] k.ready /\ s # AllScopes ->
                IF \E m \in Modes : s \notin DOMAIN k.index[m] THEN "unavailable"
                ELSE IF Synced(s) THEN "ready" ELSE "degraded"

desynced(k, s) == \E m \in Modes : Entries(k, m, s) # expected_scope_entries(k, s, m)

ensure_indexes_ready(k, s) ==
    IF overall_status(k, s) = "ready" /\ ~desynced(k, s) THEN k ELSE rebuild_indexes(k, s)
-----------------------------------------------------------------------------
(***************************************************************************)
(* Retention.  A dataset summary without updated_at (LearningRegistry      *)
(* stores one) makes the collection raise after the other collections were *)
(* replaced and before the indexes are rebuilt.                            *)
(***************************************************************************)
Cutoff == clock - Retention

GcRaises(k) ==
    \E d \in DOMAIN k.datasets : \E v \in DOMAIN k.datasets[d] : ~k.datasets[d][v].dated

Kept(f, Stamp(_)) == [x \in {y \in DOMAIN f : Stamp(f[y]) >= Cutoff} |-> f[x]]

\* The collections replaced before the datasets are looked at.
CollectFirst(k) ==
    [k EXCEPT !.records = Kept(@, LAMBDA e : e.created),
              !.decisions = SelectSeq(@, LAMBDA e : e.decided >= Cutoff),
              !.evidence = [e \in {x \in DOMAIN @ : x.created >= Cutoff} |-> @[e]],
              !.models = Kept(@, LAMBDA e : e.updated)]

CollectDatasets(k) ==
    LET live == [d \in DOMAIN k.datasets |-> Kept(k.datasets[d], LAMBDA e : e.updated)]
    IN  [k EXCEPT !.datasets = [d \in {x \in DOMAIN live : live[x] # Empty} |-> live[d]]]

\* The subclass also forgets the history of what was collected.
PruneHistory(k) ==
    [k EXCEPT !.history = [r \in DOMAIN @ \cap DOMAIN k.records |-> @[r]]]

SameEntries(k, collected) ==
    /\ DOMAIN collected.records = DOMAIN k.records
    /\ Len(collected.decisions) = Len(k.decisions)

gc(k) ==
    LET first == CollectFirst(k)
        full  == CollectDatasets(first)
        done  == IF SameEntries(k, first) THEN full ELSE rebuild_indexes(full, AllScopes)
    IN  IF GcRaises(k) THEN first
        ELSE IF versioned THEN PruneHistory(done) ELSE done

\* What a handler does: the exception of a failing collection ends it.
Handle(k, Body(_)) == IF GcRaises(k) THEN gc(k) ELSE Body(gc(k))
-----------------------------------------------------------------------------
(***************************************************************************)
(* Writes.  A fingerprint stands for the content it is computed from; the  *)
(* subclass computes it from the source of the write as well.              *)
(***************************************************************************)

CONSTANT FpOf(_, _)    \* a content's hash, with its source ("" for the base class)

record_fingerprint(c, source) == IF versioned THEN FpOf(c, source) ELSE FpOf(c, "")

Stored(k, s, c, created, source) ==
    [scope |-> s, content |-> c, created |-> created,
     fp |-> record_fingerprint(c, source), seq |-> k.sequence + 1,
     caps |-> IF versioned /\ source = "rpc" THEN {} ELSE c.caps]

\* Mutant of base_upsert: an overwrite stamps the record anew.
RestampedUpsert(k, r, s, c, created, overwrite, source) ==
    IF r \in DOMAIN k.records /\ ~overwrite THEN k
    ELSE sync_index_scope([k EXCEPT !.sequence = @ + 1,
                                    !.records = Put(@, r, Stored(k, s, c, created, source))], s)

\* What an upsert does to the store; a refused one leaves it alone.
base_upsert(k, r, s, c, created, overwrite, source) ==
    LET known == r \in DOMAIN k.records
        since == IF known THEN k.records[r].created ELSE created
    IN  IF known /\ ~overwrite THEN k
        ELSE sync_index_scope([k EXCEPT !.sequence = @ + 1,
                                        !.records = Put(@, r, Stored(k, s, c, since, source))], s)

versioned_upsert(k, r, s, c, created, overwrite, source) ==
    LET known == r \in DOMAIN k.records
        since == IF known THEN k.records[r].created ELSE created
        fp    == record_fingerprint(c, source)
        past  == IF r \in DOMAIN k.history THEN k.history[r] ELSE <<>>
        rev   == [kind |-> IF known THEN "new_revision" ELSE "create", fp |-> fp, scope |-> s,
                  seq |-> k.sequence + 1, active |-> TRUE]
    IN  IF known /\ (k.records[r].fp = fp \/ ~overwrite) THEN k
        ELSE [k EXCEPT !.sequence = @ + 1,
                       !.history = Put(@, r, Append([i \in DOMAIN past |->
                                                        [past[i] EXCEPT !.active = FALSE]], rev)),
                       !.records = Put(@, r, Stored(k, s, c, since, source))]

upsert_record(k, r, s, c, created, overwrite, source) ==
    IF versioned THEN versioned_upsert(k, r, s, c, created, overwrite, source)
                 ELSE base_upsert(k, r, s, c, created, overwrite, source)

store_decision_log(k, d, s, c, caps, decided) ==
    sync_index_scope(
        [k EXCEPT !.sequence = @ + 1,
                  !.decisions = Append(@, [id |-> d, scope |-> s, content |-> c, decided |-> decided,
                                           caps |-> caps, fp |-> FpOf(c, ""), seq |-> k.sequence + 1])], s)
-----------------------------------------------------------------------------
(***************************************************************************)
(* The optimization query: the candidates of one scope, scored, ranked and *)
(* cut to the budget.                                                      *)
(***************************************************************************)
MaxCandidates == 8

candidate_budget == IF Budget < 1 THEN 1 ELSE IF Budget > MaxCandidates THEN MaxCandidates
                                                                        ELSE Budget

\* Percent; the compatibility window fills in what the candidate leaves open.
structural_score(backend, optimizer, window) ==
    (IF backend = "q" THEN 45 ELSE 0) + (IF optimizer = "q" THEN 35 ELSE 0)
    + (IF window THEN 20 ELSE 0)

build_candidate(kind, id, c, window, mode) ==
    LET structural == structural_score(c.backend, c.optimizer, window)
        vector     == VectorOf(kind, c)
    IN  [id |-> <<kind, id>>, confidence |-> structural + vector,
         score |-> CASE mode = "structural" -> 100 * structural
                     [] mode = "vector"     -> 100 * vector
                     [] mode = "hybrid"     -> 60 * structural + 40 * vector]

candidate_from_record(r, e, mode) ==
    build_candidate(1, r, e.content,
                    e.content.backend \in {"", "q"} /\ e.content.optimizer \in {"", "q"}, mode)

\* A decision's optimizer is its model_version, its backend its selected_action;
\* its window never names that backend.
candidate_from_decision_log(e, mode) ==
    build_candidate(0, e.id, e.content, e.content.optimizer \in {"", "q"}, mode)

scope_matches(stored, requested) == requested = {} \/ stored = requested

\* The entries a source id leads to: nothing, or the one the candidate is built of.
candidate_from_source(k, source, s, caps, mode) ==
    IF source[1] = 1
    THEN LET r == source[2]
         IN  IF /\ r \in DOMAIN k.records
                /\ k.records[r].scope = s
                /\ scope_matches(k.records[r].caps, caps)
             THEN <<candidate_from_record(r, k.records[r], mode)>> ELSE <<>>
    ELSE LET hits == {i \in DOMAIN k.decisions :
                        /\ k.decisions[i].id = source[2]
                        /\ k.decisions[i].scope = s
                        /\ scope_matches(k.decisions[i].caps, caps)}
         IN  IF hits = {} THEN <<>>
             ELSE LET first == CHOOSE i \in hits : \A j \in hits : i <= j
                  IN  <<candidate_from_decision_log(k.decisions[first], mode)>>

Merged(sources) ==
    FoldLeft(LAMBDA acc, x : IF Contains(acc, x) THEN acc ELSE Append(acc, x), <<>>, sources)

index_sources_for_mode(k, s, mode) ==
    LET structural == Entries(k, "structural", s)
        vector     == Entries(k, "vector", s)
    IN  CASE mode = "vector"     -> IF vector # <<>> THEN vector ELSE structural
          [] mode = "structural" -> IF structural # <<>> THEN structural ELSE vector
          [] mode = "hybrid"     -> Merged(structural \o vector)

PrimarySources(k, s) ==
    LET items == SetToSortSeq(scope_snapshot(k, s),
                              LAMBDA a, b : LexLess(<<a.hint, a.seq>>, <<b.hint, b.seq>>))
    IN  [i \in DOMAIN items |-> items[i].source]

okb_candidate_pool(k, s, caps, mode) ==
    LET listed  == index_sources_for_mode(k, s, mode)
        sources == IF listed = <<>> THEN PrimarySources(k, s) ELSE listed
        built   == FlattenSeq([i \in DOMAIN sources |->
                                  candidate_from_source(k, sources[i], s, caps, mode)])
    IN  SelectSeq(built, LAMBDA c : c.score > 0)

Better(a, b) == LexLess(<<b.score, b.confidence>> \o a.id, <<a.score, a.confidence>> \o b.id)

\* Stable: equal candidates keep their order in the pool.
Ranked(pool) ==
    LET order == SetToSortSeq(DOMAIN pool,
                              LAMBDA i, j : \/ Better(pool[i], pool[j])
                                            \/ pool[i] = pool[j] /\ i < j)
    IN  [i \in 1 .. (IF Len(order) < candidate_budget THEN Len(order) ELSE candidate_budget) |->
            pool[order[i]]]

\* What a query answers once the indexes of k are ready.
Answer(k, s, caps, mode) == Ranked(okb_candidate_pool(k, s, caps, mode))
-----------------------------------------------------------------------------
(***************************************************************************)
(* The page walk of QueryRecords.  The token holds an offset into the list *)
(* of the moment, sorted by creation and id.  A walk keeps what the client *)
(* has seen, the records that were in the list on every page so far, and   *)
(* whether the part of the list already read lost or gained a record.      *)
(***************************************************************************)
record_matches_filter(e, f) ==
    /\ f.lo # 0 => e.content.qubits >= f.lo
    /\ f.hi # 0 => e.content.qubits <= f.hi

MatchingRecords(k, s, f) ==
    SetToSortSeq({r \in DOMAIN k.records :
                     k.records[r].scope = s /\ record_matches_filter(k.records[r], f)},
                 LAMBDA a, b : LexLess(<<k.records[a].created, a>>, <<k.records[b].created, b>>))

page_size == IF Page <= 0 THEN 50 ELSE IF Page > 100 THEN 100 ELSE Page

NextOffset(offset) == offset + page_size

\* One QueryRecords call on the collected store k, from the client's token.  A
\* finished walk leaves only its verdict.
PageOf(k, w) ==
    LET list     == MatchingRecords(k, w.scope, w.filter)
        upto     == IF w.offset > Len(list) THEN Len(list) ELSE w.offset
        stop     == NextOffset(w.offset)
        read     == ToSet(SubSeq(list, 1, upto))
        until    == w.offset + page_size
        page     == SubSeq(list, upto + 1, IF until > Len(list) THEN Len(list) ELSE until)
        seen     == w.seen \cup ToSet(page)
        constant == IF w.offset = 0 THEN ToSet(list) ELSE w.constant \cap ToSet(list)
        lost     == w.lost \/ ~(w.read \subseteq read)
        gained   == w.gained \/ ~(read \subseteq w.read)
        repeated == w.repeated \/ w.seen \cap ToSet(page) # {}
    IN  IF stop < Len(list)
        THEN [w EXCEPT !.offset = stop, !.seen = seen, !.constant = constant,
                       !.read = read \cup ToSet(page), !.lost = lost, !.gained = gained,
                       !.repeated = repeated]
        ELSE [live |-> FALSE, missed |-> ~(constant \subseteq seen), lost |-> lost,
              repeated |-> repeated, gained |-> gained]

FirstPage(s, f) ==
    [live |-> TRUE, scope |-> s, filter |-> f, offset |-> 0, seen |-> {}, constant |-> {},
     read |-> {}, lost |-> FALSE, gained |-> FALSE, repeated |-> FALSE]

\* A call with the empty token or with the token of the page before.
QueryRecords(w) ==
    /\ kb' = gc(kb)
    /\ walk' = IF GcRaises(kb) THEN walk ELSE PageOf(gc(kb), w)
    /\ UNCHANGED <<clock, versioned>>
-----------------------------------------------------------------------------
(***************************************************************************)
(* The handlers.                                                           *)
(***************************************************************************)
\* A step that leaves the client's walk and the clock alone.
Write(next) ==
    /\ kb' = next
    /\ UNCHANGED <<clock, versioned, walk>>

UpsertRecord(r, s, c, created, overwrite) ==
    Write(Handle(kb, LAMBDA k : upsert_record(k, r, s, c, created, overwrite, "rpc")))

\* A refused record is counted and the rest of the batch goes on.
BatchUpsertRecords(s, batch, overwrite) ==
    Write(Handle(kb, LAMBDA k :
        FoldLeft(LAMBDA acc, item : upsert_record(acc, item.id, s, item.content, clock, overwrite,
                                                  "rpc"), k, batch)))

\* Reads that only collect: GetRecord, QueryDecisionLogs.
Read == Write(gc(kb))

AppendDecisionLog(d, s, c, decided) ==
    Write(Handle(kb, LAMBDA k : store_decision_log(k, d, s, c, {}, decided)))

\* The answer is Answer of the store it leaves; that store is the
\* same for every mode and capability scope.
query_optimization_candidates(s) == Write(Handle(kb, LAMBDA k : ensure_indexes_ready(k, s)))

\* rebuild_indexes, recover_indexes and backfill_indexes, for a scope or for all.
RebuildIndexes(s) == Write(Handle(kb, LAMBDA k : rebuild_indexes(k, s)))

reset_okb_index_runtime_state ==
    Write([kb EXCEPT !.ready = FALSE, !.index = [m \in Modes |-> Empty]])

Tick ==
    /\ clock' = clock + 1
    /\ UNCHANGED <<kb, versioned, walk>>

Next ==
    \/ /\ kb.sequence < MaxSequence
       /\ \E s \in Scopes, c \in Contents :
            \/ \E r \in RecordIds, t \in {clock, Epoch}, o \in BOOLEAN : UpsertRecord(r, s, c, t, o)
            \/ \E d \in DecisionIds, t \in {clock, Epoch} : AppendDecisionLog(d, s, c, t)
    \/ /\ kb.sequence + 1 < MaxSequence
       /\ \E s \in Scopes, b \in Batches, o \in BOOLEAN : BatchUpsertRecords(s, b, o)
    \/ Read
    \/ \E s \in Scopes \cup {AllScopes} : RebuildIndexes(s)
    \/ reset_okb_index_runtime_state
    \/ \E s \in Scopes : query_optimization_candidates(s)
    \/ \E s \in Scopes, f \in Filters : ~walk.live /\ QueryRecords(FirstPage(s, f))
    \/ walk.live /\ QueryRecords(walk)
    \/ clock < MaxClock /\ Tick

Spec == Init /\ [][Next]_kb_vars
-----------------------------------------------------------------------------
\* query_optimization_candidates answers what a scan of the primary store would:
\* whatever happened to the derived indexes (a cold restart, a record that moved to
\* another tenant, a collection, a subclass that does not index its writes), the
\* candidates, their ranking and the cut to the budget are those of the live records
\* and decisions of the scope.
CandidatesFromStore ==
    ~GcRaises(kb) => \A s \in Scopes :
        LET k    == ensure_indexes_ready(gc(kb), s)
            all  == PrimarySources(k, s)
            once == Merged(all)
            Scan(sources, caps, mode) ==
                SelectSeq(FlattenSeq([i \in DOMAIN sources |->
                                         candidate_from_source(k, sources[i], s, caps, mode)]),
                          LAMBDA c : c.score > 0)
        IN  \A caps \in {{}, {"c"}}, mode \in Modes :
                Answer(k, s, caps, mode)
                    = Ranked(Scan(IF mode = "hybrid" THEN once ELSE all, caps, mode))

\* In the base class an indexed scope lists every live source of the scope: an index
\* may name what is gone, never miss what is there.
IndexCoversScope ==
    ~versioned =>
        \A m \in Modes : \A s \in DOMAIN kb.index[m] :
            ToSet(PrimarySources(kb, s)) \subseteq ToSet(kb.index[m][s])

\* In the append-only class the stored record is always the last revision of its
\* history, the only active one, and revisions are numbered upwards.
HistoryMatchesRecord ==
    versioned =>
        \A r \in DOMAIN kb.records :
            /\ r \in DOMAIN kb.history
            /\ LET h == kb.history[r]
                   e == kb.records[r]
               IN  /\ Last(h).fp = e.fp /\ Last(h).seq = e.seq /\ Last(h).scope = e.scope
                   /\ \A i \in DOMAIN h : h[i].active <=> i = Len(h)
                   /\ \A i \in 1 .. Len(h) - 1 : h[i].seq < h[i + 1].seq

\* A page walk that never lost a record from the part it had read returned every
\* record that was in the list on all of its pages.
WalkMissesOnlyAfterLoss == (~walk.live /\ walk.missed) => walk.lost

\* A page walk repeats a record only if the part it had read gained one.
WalkRepeatsOnlyAfterGain == walk.repeated => walk.gained

\* A record leaves the store by age alone, and its age runs from its first write: no
\* overwrite, move or batch renews or shortens it.
AgeDecides ==
    [][\A r \in DOMAIN kb.records :
          kb.records[r].created >= Cutoff =>
              r \in DOMAIN kb'.records /\ kb'.records[r].created = kb.records[r].created]_kb_vars

\* What the knowledge base answers is what it stores: candidates, indexes, the
\* history of a record and the pages of a walk agree with the primary records,
\* across restarts, collections and writes between the pages, and only age takes
\* a record away.
StoreFaithful ==
    /\ []CandidatesFromStore /\ []IndexCoversScope /\ []HistoryMatchesRecord
    /\ []WalkMissesOnlyAfterLoss /\ []WalkRepeatsOnlyAfterGain
    /\ AgeDecides
=============================================================================
