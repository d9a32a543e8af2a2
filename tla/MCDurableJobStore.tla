-------------------------- MODULE MCDurableJobStore --------------------------
(***************************************************************************)
(* DurableJobStore for TLC, with the bundles of the same QFS.              *)
(***************************************************************************)
EXTENDS DurableJobStore, QfsBundles, FiniteSetsExt

CONSTANT PairFaults   \* crashes, and failed appends, that two jobs live through

VARIABLE part   \* "pair": two jobs; "lives": one job, every fault of the bounds; "bundles"

\* Two jobs show the order of the recovery and its abort at the first log that
\* does not load; one job lives through more crashes and more failed appends.
InPair  == crashes' <= PairFaults /\ io_failures' <= PairFaults
InLives == DOMAIN snapshot_file' \cup DOMAIN acked' \subseteq {Min(Jobs)}

MCInit ==
    /\ Init /\ BundlesInit
    /\ part \in {"pair", "lives", "bundles"}
    /\ part # "bundles" => endpoint

MCNext ==
    /\ UNCHANGED part
    /\ \/ part = "pair"    /\ Next /\ InPair /\ UNCHANGED bundleVars
       \/ part = "lives"   /\ Next /\ InLives /\ UNCHANGED bundleVars
       \/ part = "bundles" /\ BundlesNext /\ UNCHANGED vars

MCSpec == MCInit /\ [][MCNext]_<<vars, bundleVars, part>>
=============================================================================
