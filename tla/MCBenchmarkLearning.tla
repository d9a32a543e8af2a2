------------------------- MODULE MCBenchmarkLearning -------------------------
(***************************************************************************)
(* An instance of BenchmarkLearning for TLC.                               *)
(***************************************************************************)
EXTENDS BenchmarkLearning, TLC

MCConfigs == {[backend |-> "x", target |-> ""],
              [backend |-> "x", target |-> "y"], [backend |-> "", target |-> ""]}

\* One number per run id: keys a, b and r, and target left open or set.
MCRecordNumber(id) ==
    2 * (CASE id[2] = "a" -> 0 [] id[2] = "b" -> 1 [] id[2] = "r" -> 2)
    + (IF id[3].target = "" THEN 0 ELSE 1)

MCClaims == {[model |-> "m", state |-> "CANARY", quarantined |-> FALSE],
             [model |-> "m", state |-> "PROMOTED", quarantined |-> TRUE],
             [model |-> "none", state |-> "DRAFT", quarantined |-> FALSE]}

\* Tenants are interchangeable.
Symmetry == Permutations(Scopes)

\* One content that matches the queries and one that matches nothing.
Match == [backend |-> "q", optimizer |-> "q", qubits |-> 2, caps |-> {"c"}]
Other == [backend |-> "x", optimizer |-> "x", qubits |-> 1, caps |-> {}]

MCContents == {Match, Other}

StateOrder == <<"PENDING", "PREPARING", "RUNNING", "SUCCEEDED", "FAILED", "CANCELLED">>

\* The hash order is the reverse of the score order, and the hash scores favour
\* decisions.
MCFpOf(c, source) ==
    IF "run" \in DOMAIN c THEN CHOOSE i \in DOMAIN StateOrder : StateOrder[i] = c.run.state
    ELSE (IF c = Match THEN 5 ELSE 2) + (IF source = "rpc" THEN 1 ELSE 0)

MCVectorOf(kind, c) == IF kind = 0 THEN 70 ELSE IF c = Match THEN 30 ELSE 40

MCFilters == {[lo |-> 2, hi |-> 0], [lo |-> 0, hi |-> 0]}

MCBatches == {<<[id |-> 2, content |-> Match], [id |-> 1, content |-> Other]>>}
=============================================================================
