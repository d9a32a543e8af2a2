--------------------------- MODULE BenchmarkHistory ---------------------------
(***************************************************************************)
(* /benchmarks/history (benchmark_service/history_api.py): a client pages  *)
(* through the runs a query selects while runs are created and change      *)
(* state. Run ids are hashes, so a new run may have any id; the creation   *)
(* times of run_lifecycle.py never go back. A cursor, and an entry of a    *)
(* page, is [run, at].                                                     *)
(***************************************************************************)
EXTENDS Integers, Sequences, FiniteSets, SequencesExt

CONSTANTS RunIds,      \* numbers, for their order
          Queries,     \* [from, to, states, dataset], dataset "" when there is no filter
          PageSizes,
          Logs,        \* what the service may hold when the walk starts
          LastTime, MaxChanges   \* bounds

VARIABLES log,         \* run id -> [at, state, dataset]
          pages,       \* the client's walk: its query, cursor and what it was given
          changes

historyVars == <<log, pages, changes>>

AllowedStates  == {"PENDING", "PREPARING", "RUNNING", "SUCCEEDED", "FAILED", "CANCELLED"}
FinishedStates == {"SUCCEEDED", "FAILED", "CANCELLED"}
Transitions ==
    [s \in AllowedStates |-> CASE s = "PENDING" -> {"PREPARING", "CANCELLED"}
                             [] s \in {"PREPARING", "RUNNING"} -> {"FAILED", "CANCELLED"} \cup
                                    {IF s = "RUNNING" THEN "SUCCEEDED" ELSE "RUNNING"}
                             [] OTHER -> {}]

\* _validate_request, of a cursor that was handed out.
HistoryValid(q, size) ==
    q.from <= q.to /\ q.states \subseteq AllowedStates /\ q.dataset # " " /\ size \in 1..100

Chosen(runs, q) ==
    {r \in DOMAIN runs : /\ runs[r].at \in q.from .. q.to
                         /\ q.states = {} \/ runs[r].state \in q.states
                         /\ q.dataset = "" \/ runs[r].dataset = q.dataset}

\* created_at descending, run_id ascending.
Precedes(runs, a, b) == runs[a].at > runs[b].at \/ (runs[a].at = runs[b].at /\ a < b)

\* _sorted_runs.
SortedRuns(runs, q) ==
    LET ids == SetToSortSeq(Chosen(runs, q), LAMBDA a, b : Precedes(runs, a, b))
    IN  [i \in DOMAIN ids |-> [run |-> ids[i], at |-> runs[ids[i]].at]]

\* Mutant of Slice: a cursor that is not found ends the walk.
SliceOrEnd(sorted, size, cursor) ==
    LET start == IF cursor = <<>> THEN 0 ELSE IF \E i \in DOMAIN sorted : <<sorted[i]>> = cursor
                 THEN CHOOSE i \in DOMAIN sorted : <<sorted[i]>> = cursor ELSE Len(sorted)
        page  == SubSeq(sorted, start + 1, IF start + size <= Len(sorted) THEN start + size ELSE Len(sorted))
    IN  [page |-> page, next |-> IF start + size >= Len(sorted) THEN <<>> ELSE <<page[Len(page)]>>]

\* _slice_with_cursor: a cursor, <<>> or <<entry>>, that is not found starts again
\* at the first run.
Slice(sorted, size, cursor) ==
    LET start == IF \E i \in DOMAIN sorted : <<sorted[i]>> = cursor
                 THEN CHOOSE i \in DOMAIN sorted : <<sorted[i]>> = cursor ELSE 0
        page  == SubSeq(sorted, start + 1, IF start + size <= Len(sorted) THEN start + size ELSE Len(sorted))
    IN  [page |-> page, next |-> IF start + size >= Len(sorted) THEN <<>> ELSE <<page[Len(page)]>>]

Count(runs, sorted, states) == Cardinality({i \in DOMAIN sorted : runs[sorted[i].run].state \in states})

\* _build_trend, of every run selected and not of the page alone. A time stands
\* for its day.
Trend(runs, sorted) ==
    [total |-> Len(sorted), terminal |-> Count(runs, sorted, FinishedStates),
     daily |-> [d \in {e.at : e \in ToSet(sorted)} |->
                  [s \in FinishedStates |-> Cardinality({e \in ToSet(sorted) : e.at = d /\ runs[e.run].state = s})]]]

HistoryInit == log \in Logs /\ pages = [pc |-> "idle"] /\ changes = 0
-----------------------------------------------------------------------------
\* What the walk must account for: entries selected at every moment of it, and
\* whether the selection is still the one it began with.
Watched(runs) ==
    IF pages.pc = "idle" THEN pages
    ELSE [pages EXCEPT !.always = @ \cap ToSet(SortedRuns(runs, pages.query)),
                      !.steady = @ /\ Chosen(runs, pages.query) = Chosen(log, pages.query)
                                   /\ \A r \in Chosen(log, pages.query) : runs[r] = log[r]]

\* BenchmarkRunService (BenchmarkRuns) creates a run or moves one on.
Changed(runs) == log' = runs /\ pages' = Watched(runs) /\ changes < MaxChanges /\ changes' = changes + 1
Now(at) == at <= LastTime /\ \A x \in DOMAIN log : log[x].at <= at

CreateRun(r, at, dataset) ==
    /\ r \notin DOMAIN log /\ Now(at)
    /\ Changed([x \in DOMAIN log \cup {r} |->
                   IF x = r THEN [at |-> at, state |-> "PENDING", dataset |-> dataset] ELSE log[x]])

MoveRun(r, state) ==
    r \in DOMAIN log /\ state \in Transitions[log[r].state] /\ Changed([log EXCEPT ![r].state = state])

\* A retry whose id is that of a run that ended replaces it.
ReplaceRun(r, at) ==
    /\ r \in DOMAIN log /\ log[r].state \in {"FAILED", "CANCELLED"} /\ Now(at)
    /\ Changed([log EXCEPT ![r].state = "PENDING", ![r].at = at])

\* history with the token the page before gave, none at first.
Fetch(q, size, before) ==
    LET cursor == before.cursor
        slice  == Slice(SortedRuns(log, q), size, cursor)
    IN  [pc |-> IF slice.next = <<>> THEN "done" ELSE "more", query |-> q, size |-> size, cursor |-> slice.next,
         got |-> before.got \o slice.page, trend |-> Trend(log, SortedRuns(log, q)), always |-> before.always,
         steady |-> before.steady,
         restarted |-> before.restarted \/ (cursor # <<>> /\ cursor[1] \notin ToSet(SortedRuns(log, q)))]

FirstHistoryPage(q, size) ==
    /\ pages.pc = "idle" /\ HistoryValid(q, size)
    /\ pages' = Fetch(q, size, [cursor |-> <<>>, got |-> <<>>, always |-> ToSet(SortedRuns(log, q)), steady |-> TRUE, restarted |-> FALSE])
    /\ UNCHANGED <<log, changes>>

NextPage == pages.pc = "more" /\ pages' = Fetch(pages.query, pages.size, pages) /\ UNCHANGED <<log, changes>>

HistoryNext ==
    \/ \E r \in RunIds, at \in 1..LastTime, d \in {"a", "b"} : CreateRun(r, at, d)
    \/ \E r \in RunIds, s \in AllowedStates : MoveRun(r, s)
    \/ \E r \in RunIds, at \in 1..LastTime : ReplaceRun(r, at)
    \/ \E q \in Queries, n \in PageSizes : FirstHistoryPage(q, n)
    \/ NextPage
-----------------------------------------------------------------------------
\* A walk through the pages gives every run that matched the query all along,
\* whatever was created or changed between two pages.
HistoryComplete == pages.pc = "done" => pages.always \subseteq ToSet(pages.got)

\* The order the response declares holds across pages and no run comes twice,
\* unless the entry a cursor named had left the selection when it was used.
HistoryOrdered ==
    pages.pc # "idle" /\ ~pages.restarted =>
        \A i, j \in DOMAIN pages.got : i < j =>
            \/ pages.got[i].at > pages.got[j].at
            \/ pages.got[i].at = pages.got[j].at /\ pages.got[i].run < pages.got[j].run

\* When nothing the query selects changed during the walk, the trend on its last
\* page is that of exactly the runs the pages gave.
TrendMatchesPages ==
    LET given(states, days) == {i \in DOMAIN pages.got : log[pages.got[i].run].state \in states /\ pages.got[i].at \in days}
    IN  pages.pc = "done" /\ pages.steady =>
        /\ pages.trend.total = Len(pages.got)
        /\ pages.trend.terminal = Cardinality(given(FinishedStates, 1..LastTime))
        /\ \A d \in DOMAIN pages.trend.daily, s \in FinishedStates :
               pages.trend.daily[d][s] = Cardinality(given({s}, {d}))

\* The pages of the run history, read while runs are appended and finish: nothing
\* is left out or out of order, and a trend is over the same runs.
PagesSound == HistoryComplete /\ HistoryOrdered /\ TrendMatchesPages
=============================================================================
