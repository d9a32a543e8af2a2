----------------------------- MODULE Qfs_proofs -----------------------------
(***************************************************************************)
(* TLAPS proofs about the QFS: the bundles a job's lives write, for any    *)
(* number of lives and of failed writes, and the artifact store with its   *)
(* retention, the checkpoint catalogue and the restore cache, for any      *)
(* refs, backends, quota and capacity.                                     *)
(***************************************************************************)
EXTENDS QfsBundles, QfsArtifacts, FiniteSums

\* The leaves are proved by Zenon but for those that cite another prover.
USE Zenon

(****************************************************************************)
(* The bundles.                                                            *)
(****************************************************************************)
Circuit == "circuit.aqo.json"
Bundles == {"compile", "results", "evidence"}

BundlesType ==
    /\ endpoint \in BOOLEAN
    /\ life \in Nat
    /\ \A f \in DOMAIN artifacts : artifacts[f] \in 1..life
    /\ pos \in [at : Bundles \cup {"stopped", "execute", "report"}, file : Nat]
    /\ pos.at \in Bundles => pos.file \in 0..Len(Bundle[pos.at])
    /\ pos.at \notin Bundles => pos.file = 0
    /\ pos.at # "stopped" => life > 0
    /\ executed \in Seq(Nat) /\ Len(executed) = life
    /\ write_failures \in Seq(Nat)
    /\ reported \subseteq 1..life

\* The files of a bundle appear in order, from one life; a life that is writing
\* has written those before its place and nobody the others.
InOrder(b) ==
    /\ \A i, j \in DOMAIN Bundle[b] :
          i <= j /\ Bundle[b][j] \in DOMAIN artifacts => Bundle[b][i] \in DOMAIN artifacts
    /\ \A f, g \in Files(b) \cap DOMAIN artifacts : artifacts[f] = artifacts[g]
    /\ pos.at = b /\ pos.file > 0 =>
          \A i \in DOMAIN Bundle[b] :
             /\ Bundle[b][i] \in DOMAIN artifacts <=> i < pos.file
             /\ Bundle[b][i] \in DOMAIN artifacts => artifacts[Bundle[b][i]] = life

PastCompile == {"execute", "results", "evidence", "report"}
PastExecute == {"results", "evidence", "report"}

\* With an endpoint only the life that stored the circuit ever executes, and only
\* what executed stores results or reports them.
OwnCircuit ==
    endpoint =>
        /\ \A n \in 1..life : executed[n] \in {0, n}
        /\ \A n \in 1..life : executed[n] = n => Circuit \in DOMAIN artifacts /\ artifacts[Circuit] = n
        /\ \A n \in Writers("results") \cup reported : executed[n] = n
        /\ pos.at \in PastCompile => Circuit \in DOMAIN artifacts /\ artifacts[Circuit] = life
        /\ pos.at \in PastExecute => executed[life] = life

Stored(n) ==
    \/ Files("results") \subseteq DOMAIN artifacts /\ Writers("results") = {n}
    \/ \E i \in DOMAIN write_failures : write_failures[i] = n
    \/ ~endpoint /\ \E m \in Writers("results") : m < n

\* Until a life starts to store its results those that are there are older.
ResultsStored ==
    /\ \A n \in reported : Stored(n)
    /\ pos.at \in {"evidence", "report"} => Stored(life)
    /\ (pos.at \in {"compile", "execute"} \/ pos = At("results", 0)) =>
          \A m \in Writers("results") : m < life

BundlesInv == BundlesType /\ (\A b \in Bundles : InOrder(b)) /\ OwnCircuit /\ ResultsStored
-----------------------------------------------------------------------------
\* The files of the three bundles are different.
LEMMA Layout ==
    /\ DOMAIN Bundle = Bundles
    /\ \A b \in Bundles : Len(Bundle[b]) \in Nat \ {0} /\ DOMAIN Bundle[b] = 1..Len(Bundle[b])
    /\ \A b, c \in Bundles : \A i \in DOMAIN Bundle[b], j \in DOMAIN Bundle[c] :
          Bundle[b][i] = Bundle[c][j] => b = c /\ i = j
    /\ Len(Bundle["compile"]) = 2 /\ Len(Bundle["results"]) = 4
    /\ Bundle["compile"][1] = Circuit /\ Bundle["compile"][2] = "metadata.json"
    /\ Bundle["results"][4] = "manifest.json"
  <1>1. /\ DOMAIN Bundle = Bundles
        /\ Bundle["compile"] = Compiled /\ Bundle["results"] = Results /\ Bundle["evidence"] = Evidence
    BY DEF Bundle, Bundles
  <1>2. /\ Len(Compiled) = 2 /\ Len(Results) = 4 /\ Len(Evidence) = 3
        /\ DOMAIN Compiled = 1..2 /\ DOMAIN Results = 1..4 /\ DOMAIN Evidence = 1..3
    BY SMT DEF Compiled, Results, Evidence
  <1>3. \A b, c \in Bundles : \A i \in DOMAIN Bundle[b], j \in DOMAIN Bundle[c] :
          Bundle[b][i] = Bundle[c][j] => b = c /\ i = j
    BY SMT, <1>1, <1>2 DEF Bundles, Compiled, Results, Evidence
  <1>4. \A b \in Bundles : Len(Bundle[b]) \in Nat \ {0} /\ DOMAIN Bundle[b] = 1..Len(Bundle[b])
    BY SMT, <1>1, <1>2 DEF Bundles
  <1>5. /\ Bundle["compile"][1] = Circuit /\ Bundle["compile"][2] = "metadata.json"
        /\ Bundle["results"][4] = "manifest.json"
    BY SMT, <1>1 DEF Compiled, Results, Circuit
  <1> QED
    BY <1>1, <1>2, <1>3, <1>4, <1>5

\* Nothing is stored, executed or reported before the first submission.
LEMMA BundlesBegin == BundlesInit => BundlesInv
  <1> SUFFICES ASSUME BundlesInit PROVE BundlesInv
    OBVIOUS
  <1>1. /\ DOMAIN artifacts = {} /\ life = 0 /\ endpoint \in BOOLEAN
        /\ pos.at = "stopped" /\ pos.file = 0 /\ pos = Stopped
        /\ executed = <<>> /\ reported = {} /\ write_failures = <<>>
    BY DEF BundlesInit, Stopped
  <1>2. BundlesType
    BY SMT, <1>1 DEF BundlesType, Bundles, Stopped
  <1>3. \A b \in Bundles : InOrder(b)
    BY SMT, <1>1 DEF InOrder
  <1>4. Writers("results") = {}
    BY <1>1 DEF Writers
  <1>5. OwnCircuit
    BY SMT, <1>1, <1>4 DEF OwnCircuit, PastCompile, PastExecute
  <1>6. ResultsStored
    BY <1>1, <1>4 DEF ResultsStored, At
  <1> QED
    BY <1>2, <1>3, <1>5, <1>6 DEF BundlesInv

\* The invariant says all that BundlesSound does.
LEMMA InvariantEnough == BundlesInv => BundlesSound
  <1> SUFFICES ASSUME BundlesInv PROVE BundlesSound
    OBVIOUS
  <1> USE DEF BundlesInv
  <1>1. BundlesUnmixed
    <2>1. \A b \in DOMAIN Bundle : \A m, n \in Writers(b) : m = n
      BY SMT, Layout DEF Writers, InOrder
    <2>2. "metadata.json" \in DOMAIN artifacts => Files("compile") \subseteq DOMAIN artifacts
      <3>1. InOrder("compile")
        BY DEF Bundles
      <3> QED
        BY SMT, <3>1, Layout DEF InOrder, Files, Bundles
    <2>3. "manifest.json" \in DOMAIN artifacts => Files("results") \subseteq DOMAIN artifacts
      <3>1. InOrder("results")
        BY DEF Bundles
      <3> QED
        BY SMT, <3>1, Layout DEF InOrder, Files, Bundles
    <2> QED
      BY <2>1, <2>2, <2>3 DEF BundlesUnmixed
  <1>2. ResultsOfOwnCircuit
    <2> SUFFICES ASSUME endpoint PROVE ResultsOfOwnCircuit
      BY DEF ResultsOfOwnCircuit
    <2>1. DOMAIN executed = 1..life
      BY SMT DEF BundlesType
    <2>2. \A n \in reported : n \in 1..life /\ executed[n] = n /\ artifacts[Circuit] = n
      BY DEF BundlesType, OwnCircuit
    <2> QED
      BY <2>1, <2>2 DEF ResultsOfOwnCircuit, OwnCircuit
  <1>3. ReportedAreStored
    BY DEF ReportedAreStored, ResultsStored, Stored
  <1> QED
    BY <1>1, <1>2, <1>3 DEF BundlesSound

\* What an entry added to a sequence leaves of it.
LEMMA Appended ==
    ASSUME NEW s \in Seq(Nat), NEW x \in Nat
    PROVE  /\ Append(s, x) \in Seq(Nat)
           /\ \A i \in DOMAIN s : i \in DOMAIN Append(s, x) /\ Append(s, x)[i] = s[i]
  BY SMT

\* Steps that write no file and execute nothing: what the new place of the life
\* has to satisfy for the invariant to go on holding.
LEMMA Moved ==
    ASSUME BundlesInv, UNCHANGED <<endpoint, artifacts, life, executed>>,
           write_failures' \in {write_failures, Append(write_failures, life)},
           reported' = reported \/ (reported' = reported \cup {life} /\ pos.at = "report"),
           pos' \in [at : Bundles \cup {"stopped", "execute", "report"}, file : Nat],
           pos'.at \in Bundles =>
               pos'.file = 0 \/ (pos'.file = 1 /\ ~Exists(pos'.at)),
           pos'.at \notin Bundles => pos'.file = 0,
           pos'.at # "stopped" => life > 0,
           endpoint /\ pos'.at \in PastCompile => Circuit \in DOMAIN artifacts /\ artifacts[Circuit] = life,
           endpoint /\ pos'.at \in PastExecute => executed[life] = life,
           pos'.at \in {"evidence", "report"} => Stored(life)',
           (pos'.at \in {"compile", "execute"} \/ pos' = At("results", 0)) =>
               \A m \in Writers("results") : m < life
    PROVE  BundlesInv'
  <1>0. life \in Nat /\ write_failures \in Seq(Nat)
    BY DEF BundlesInv, BundlesType
  <1>7. /\ write_failures' \in Seq(Nat)
        /\ \A i \in DOMAIN write_failures :
              i \in DOMAIN write_failures' /\ write_failures'[i] = write_failures[i]
    <2>1. CASE write_failures' = write_failures
      BY <1>0, <2>1
    <2>2. CASE write_failures' = Append(write_failures, life)
      <3>1. /\ Append(write_failures, life) \in Seq(Nat)
            /\ \A i \in DOMAIN write_failures :
                  /\ i \in DOMAIN Append(write_failures, life)
                  /\ Append(write_failures, life)[i] = write_failures[i]
        BY <1>0, Appended
      <3> QED
        BY <2>2, <3>1
    <2> QED
      BY <2>1, <2>2
  <1> USE DEF BundlesInv
  <1>1. Writers("results")' = Writers("results")
    BY DEF Writers
  <1>2. BundlesType'
    <2>1. reported' \subseteq 1..life
      <3>1. life \in Nat /\ reported \subseteq 1..life /\ (pos.at = "report" => life > 0)
        BY DEF BundlesType
      <3>2. CASE reported' = reported
        BY <3>1, <3>2
      <3>3. CASE reported' = reported \cup {life} /\ pos.at = "report"
        <4>1. life \in 1..life
          BY SMT, <3>1, <3>3
        <4> QED
          BY <3>1, <3>3, <4>1
      <3> QED
        BY <3>2, <3>3
    <2>2. pos'.at \in Bundles => pos'.file \in 0..Len(Bundle[pos'.at])
      BY SMT, Layout
    <2>3. write_failures' \in Seq(Nat)
      BY <1>7
    <2> QED
      BY <2>1, <2>2, <2>3 DEF BundlesType
  <1>3. \A b \in Bundles : InOrder(b)'
    <2> SUFFICES ASSUME NEW b \in Bundles PROVE InOrder(b)'
      OBVIOUS
    <2>1. InOrder(b) /\ DOMAIN Bundle[b] = 1..Len(Bundle[b]) /\ Len(Bundle[b]) \in Nat
      BY Layout
    <2>2. pos'.at = b /\ pos'.file > 0 =>
            pos'.file = 1 /\ \A i \in DOMAIN Bundle[b] : Bundle[b][i] \notin DOMAIN artifacts
      BY SMT, <2>1 DEF Exists, Files
    <2> QED
      BY SMT, <2>1, <2>2 DEF InOrder, Files
  <1>4. OwnCircuit'
    <2> SUFFICES ASSUME endpoint PROVE OwnCircuit'
      BY DEF OwnCircuit
    <2>1. \A n \in reported' : executed[n] = n
      BY SMT DEF OwnCircuit, PastExecute
    <2> QED
      BY SMT, <1>1, <2>1 DEF OwnCircuit
  <1>5. ResultsStored'
    <2>1. \A n : Stored(n) => Stored(n)'
      <3> SUFFICES ASSUME NEW n, Stored(n) PROVE Stored(n)'
        OBVIOUS
      <3>1. (\E i \in DOMAIN write_failures : write_failures[i] = n) =>
              \E i \in DOMAIN write_failures' : write_failures'[i] = n
        BY <1>7
      <3> QED
        BY <1>1, <3>1 DEF Stored
    <2>2. \A n \in reported' : Stored(n)'
      BY <2>1 DEF ResultsStored
    <2> QED
      BY <1>1, <2>2 DEF ResultsStored
  <1> QED
    BY <1>2, <1>3, <1>4, <1>5

\* store_*_bundle refuses when one of its files exists.
LEMMA CheckAbsentKeeps == ASSUME BundlesInv, NEW b \in Bundles, CheckAbsent(b) PROVE BundlesInv'
  <1> USE DEF BundlesInv
  <1>1. /\ pos.at = b /\ pos.file = 0 /\ pos = At(b, 0)
        /\ UNCHANGED <<endpoint, artifacts, life, executed, reported, write_failures>>
        /\ life > 0 /\ pos' = IF Exists(b) THEN AfterRefused(b) ELSE At(b, 1)
    BY DEF CheckAbsent, At, BundlesType, Bundles
  <1>2. Writers("results")' = Writers("results")
    BY <1>1 DEF Writers
  <1>3. CASE b = "compile"
    <2>1. pos' = IF Exists(b) THEN Stopped ELSE At("compile", 1)
      BY <1>1, <1>3 DEF AfterRefused
    <2>2. \A m \in Writers("results") : m < life
      BY <1>1, <1>3 DEF ResultsStored
    <2> QED
      BY SMT, <1>1, <1>3, <2>1, <2>2, Moved DEF Stopped, At, Bundles, PastCompile, PastExecute
  <1>4. CASE b = "results"
    <2>1. Exists(b) => \E m \in Writers("results") : m \in 1..life /\ m < life
      BY SMT, <1>1, <1>4 DEF Exists, Writers, ResultsStored, BundlesType
    <2>2. Exists(b) => ~endpoint
      BY SMT, <1>1, <1>4, <2>1 DEF OwnCircuit, PastCompile
    <2>3. Exists(b) => Stored(life)'
      BY <1>1, <1>2, <2>1, <2>2 DEF Stored
    <2>4. pos' = IF Exists(b) THEN At("evidence", 0) ELSE At("results", 1)
      BY <1>1, <1>4 DEF AfterRefused, AfterStored
    <2>5. endpoint => executed[life] = life /\ Circuit \in DOMAIN artifacts /\ artifacts[Circuit] = life
      BY <1>1, <1>4 DEF OwnCircuit, PastCompile, PastExecute
    <2> QED
      BY SMT, <1>1, <1>4, <2>3, <2>4, <2>5, Moved DEF At, Bundles
  <1>5. CASE b = "evidence"
    <2>1. Stored(life)'
      BY <1>1, <1>2, <1>5 DEF Stored, ResultsStored
    <2>4. pos' = IF Exists(b) THEN At("report", 0) ELSE At("evidence", 1)
      BY <1>1, <1>5 DEF AfterRefused, AfterStored
    <2>5. endpoint => executed[life] = life /\ Circuit \in DOMAIN artifacts /\ artifacts[Circuit] = life
      BY <1>1, <1>5 DEF OwnCircuit, PastCompile, PastExecute
    <2> QED
      BY SMT, <1>1, <1>5, <2>1, <2>4, <2>5, Moved DEF At, Bundles
  <1> QED
    BY <1>3, <1>4, <1>5 DEF Bundles

\* A write that fails ends a compile stage and is a warning elsewhere.
LEMMA WriteFailsKeeps == ASSUME BundlesInv, NEW b \in Bundles, WriteFails(b) PROVE BundlesInv'
  <1> USE DEF BundlesInv
  <1>1. /\ pos.at = b /\ life > 0 /\ pos' = AfterRefused(b)
        /\ write_failures' = Append(write_failures, life)
        /\ UNCHANGED <<endpoint, artifacts, life, executed, reported>>
    BY DEF WriteFails, BundlesType, Bundles
  <1>2. Stored(life)'
    <2>1. write_failures' \in Seq(Nat) /\ Len(write_failures) + 1 \in DOMAIN write_failures'
          /\ write_failures'[Len(write_failures) + 1] = life
      BY SMT, <1>1 DEF BundlesType
    <2> QED
      BY <1>1, <2>1 DEF Stored
  <1>3. CASE b = "compile"
    BY <1>1, <1>3, Moved DEF AfterRefused, Stopped, At, Bundles, PastCompile, PastExecute
  <1>4. CASE b # "compile"
    <2>1. pos' = At(IF b = "results" THEN "evidence" ELSE "report", 0)
      BY <1>1, <1>4 DEF AfterRefused, AfterStored, Bundles
    <2>2. endpoint => executed[life] = life /\ Circuit \in DOMAIN artifacts /\ artifacts[Circuit] = life
      BY <1>1, <1>4 DEF OwnCircuit, PastCompile, PastExecute, Bundles
    <2> QED
      BY SMT, <1>1, <1>2, <2>1, <2>2, Moved DEF At, Bundles
  <1> QED
    BY <1>3, <1>4

\* A report, and the end of a life, leave nothing running.
LEMMA EndKeeps == ASSUME BundlesInv, Report \/ LifeEnds PROVE BundlesInv'
  <1>1. /\ pos' = Stopped /\ UNCHANGED <<endpoint, artifacts, life, executed, write_failures>>
        /\ reported' = reported \/ (reported' = reported \cup {life} /\ pos.at = "report")
    BY SMT DEF Report, LifeEnds, At
  <1> QED
    BY <1>1, Moved DEF Stopped, At, Bundles, PastCompile, PastExecute

\* A new life: everything stored is of an older one.
LEMMA SubmitKeeps == ASSUME BundlesInv, Submit PROVE BundlesInv'
  <1> USE DEF BundlesInv
  <1>1. /\ pos = Stopped /\ life' = life + 1 /\ executed' = Append(executed, 0)
        /\ pos' = At(IF endpoint THEN "compile" ELSE "execute", 0)
        /\ UNCHANGED <<endpoint, artifacts, reported, write_failures>>
    BY DEF Submit
  <1>2. /\ life \in Nat /\ endpoint \in BOOLEAN /\ executed \in Seq(Nat) /\ Len(executed) = life
        /\ \A f \in DOMAIN artifacts : artifacts[f] \in 1..life
        /\ write_failures \in Seq(Nat) /\ reported \subseteq 1..life
    BY DEF BundlesType
  <1>3. /\ pos'.at = IF endpoint THEN "compile" ELSE "execute"
        /\ pos'.file = 0
        /\ pos' \in [at : Bundles \cup {"stopped", "execute", "report"}, file : Nat]
    BY <1>1, <1>2 DEF At, Bundles
  <1>4. Writers("results")' = Writers("results") /\ Writers("results") \subseteq 1..life
    BY <1>1, <1>2 DEF Writers
  <1>5. /\ executed' \in Seq(Nat) /\ Len(executed') = life'
        /\ \A n \in 1..life : executed'[n] = executed[n]
        /\ executed'[life'] = 0
    BY SMT, <1>1, <1>2
  <1>6. BundlesType'
    <2>1. \A f \in DOMAIN artifacts' : artifacts'[f] \in 1..life'
      BY SMT, <1>1, <1>2
    <2>2. reported' \subseteq 1..life' /\ life' \in Nat /\ life' > 0
      BY SMT, <1>1, <1>2
    <2>3. pos'.at \in Bundles => pos'.file \in 0..Len(Bundle[pos'.at])
      BY SMT, <1>3, Layout
    <2> QED
      BY <1>1, <1>2, <1>3, <1>5, <2>1, <2>2, <2>3 DEF BundlesType
  <1>7. \A b \in Bundles : InOrder(b)'
    BY SMT, <1>1, <1>3 DEF InOrder
  <1>8. OwnCircuit'
    <2> SUFFICES ASSUME endpoint PROVE OwnCircuit'
      BY <1>1 DEF OwnCircuit
    <2>1. \A n \in 1..life' : n \in 1..life \/ (n = life' /\ executed'[n] = 0 /\ n # 0)
      BY SMT, <1>1, <1>2, <1>5
    <2>2. \A n \in 1..life' : executed'[n] \in {0, n}
      BY <1>5, <2>1 DEF OwnCircuit
    <2>3. \A n \in 1..life' :
            executed'[n] = n => Circuit \in DOMAIN artifacts' /\ artifacts'[Circuit] = n
      BY <1>1, <1>5, <2>1 DEF OwnCircuit
    <2>4. \A n \in (Writers("results") \cup reported)' : executed'[n] = n
      BY <1>1, <1>2, <1>4, <1>5 DEF OwnCircuit
    <2> QED
      BY <1>3, <2>2, <2>3, <2>4 DEF OwnCircuit, PastCompile, PastExecute
  <1>9. ResultsStored'
    <2>1. \A n : Stored(n) => Stored(n)'
      BY <1>1, <1>4 DEF Stored
    <2>2. \A m \in Writers("results")' : m < life'
      BY SMT, <1>1, <1>2, <1>4
    <2> QED
      BY <1>1, <1>3, <2>1, <2>2 DEF ResultsStored
  <1> QED
    BY <1>6, <1>7, <1>8, <1>9

\* With an endpoint the circuit that is read is the life's own.
LEMMA ExecuteKeeps == ASSUME BundlesInv, Execute PROVE BundlesInv'
  <1> USE DEF BundlesInv
  <1>1. /\ pos.at = "execute" /\ pos'.at = "results" /\ pos'.file = 0 /\ pos' = At("results", 0)
        /\ endpoint => executed' = [executed EXCEPT ![life] = artifacts[Circuit]]
        /\ ~endpoint => executed' = executed
        /\ UNCHANGED <<endpoint, artifacts, life, reported, write_failures>>
    BY DEF Execute, At, Circuit
  <1>2. /\ life \in Nat /\ life > 0 /\ executed \in Seq(Nat) /\ Len(executed) = life
        /\ \A f \in DOMAIN artifacts : artifacts[f] \in 1..life
        /\ reported \subseteq 1..life
    BY <1>1 DEF BundlesType
  <1>3. endpoint => Circuit \in DOMAIN artifacts /\ artifacts[Circuit] = life
    BY <1>1 DEF OwnCircuit, PastCompile
  <1>4. Writers("results")' = Writers("results") /\ Writers("results") \subseteq 1..life
    BY <1>1, <1>2 DEF Writers
  <1>5. /\ executed' \in Seq(Nat) /\ Len(executed') = life
        /\ endpoint => executed'[life] = life
        /\ \A n \in 1..life : n # life => executed'[n] = executed[n]
    BY SMT, <1>1, <1>2, <1>3
  <1>6. BundlesType'
    <2>1. pos' \in [at : Bundles \cup {"stopped", "execute", "report"}, file : Nat]
      BY SMT, <1>1 DEF At, Bundles
    <2>2. pos'.file \in 0..Len(Bundle[pos'.at]) /\ pos'.at \in Bundles
      BY SMT, <1>1, Layout DEF Bundles
    <2> QED
      BY <1>1, <1>2, <1>5, <2>1, <2>2 DEF BundlesType
  <1>7. \A b \in Bundles : InOrder(b)'
    BY SMT, <1>1 DEF InOrder
  <1>8. OwnCircuit'
    <2> SUFFICES ASSUME endpoint PROVE OwnCircuit'
      BY <1>1 DEF OwnCircuit
    <2>2. \A n \in 1..life : executed'[n] \in {0, n}
      BY <1>5 DEF OwnCircuit
    <2>3. \A n \in 1..life : executed'[n] = n => Circuit \in DOMAIN artifacts /\ artifacts[Circuit] = n
      BY <1>3, <1>5 DEF OwnCircuit
    <2>4. \A n \in Writers("results") \cup reported : executed'[n] = n
      BY <1>2, <1>4, <1>5 DEF OwnCircuit
    <2> QED
      BY <1>1, <1>3, <1>4, <1>5, <2>2, <2>3, <2>4 DEF OwnCircuit
  <1>9. ResultsStored'
    <2>1. \A n : Stored(n) => Stored(n)'
      BY <1>1, <1>4 DEF Stored
    <2> QED
      BY <1>1, <1>4, <2>1 DEF ResultsStored
  <1> QED
    BY <1>6, <1>7, <1>8, <1>9

\* A life writes the next file of its bundle, which is not there yet.
LEMMA WriteFileKeeps == ASSUME BundlesInv, NEW b \in Bundles, WriteFile(b) PROVE BundlesInv'
  <1> DEFINE f == Bundle[b][pos.file]
  <1> USE DEF BundlesInv
  <1>1. /\ pos.at = b /\ pos.file > 0
        /\ artifacts' = [g \in DOMAIN artifacts \cup {f} |-> IF g = f THEN life ELSE artifacts[g]]
        /\ pos' = IF pos.file = Len(Bundle[b]) THEN AfterStored(b) ELSE At(b, pos.file + 1)
        /\ UNCHANGED <<endpoint, life, executed, reported, write_failures>>
    BY DEF WriteFile, Written
  <1>2. /\ life \in Nat /\ life > 0 /\ \A g \in DOMAIN artifacts : artifacts[g] \in 1..life
        /\ Len(Bundle[b]) \in Nat /\ DOMAIN Bundle[b] = 1..Len(Bundle[b])
        /\ pos.file \in DOMAIN Bundle[b] /\ pos.file \in Nat
    BY SMT, <1>1, Layout DEF BundlesType, Bundles
  <1>3. /\ \A i \in DOMAIN Bundle[b] : Bundle[b][i] \in DOMAIN artifacts <=> i < pos.file
        /\ \A i \in DOMAIN Bundle[b] : Bundle[b][i] \in DOMAIN artifacts => artifacts[Bundle[b][i]] = life
    BY <1>1 DEF InOrder
  <1>4. f \notin DOMAIN artifacts /\ f \in Files(b)
    BY SMT, <1>2, <1>3 DEF Files
  <1>5. /\ DOMAIN artifacts' = DOMAIN artifacts \cup {f} /\ artifacts'[f] = life
        /\ \A g \in DOMAIN artifacts : artifacts'[g] = artifacts[g]
    BY <1>1, <1>4
  <1>6. \A c \in Bundles : c # b => f \notin Files(c)
    BY <1>2, Layout DEF Files
  <1>7. \A g \in Files(b) \cap DOMAIN artifacts : artifacts[g] = life
    BY <1>3 DEF Files
  <1>8. \A i \in DOMAIN Bundle[b] : Bundle[b][i] = f => i = pos.file
    BY SMT, <1>2, Layout
  <1>9. \A c \in Bundles : c # b => Writers(c)' = Writers(c)
    BY SMT, <1>5, <1>6 DEF Writers
  <1>10. Writers(b)' = {life}
    BY SMT, <1>4, <1>5, <1>7 DEF Writers
  <1>11. pos'.at = b /\ pos'.file > 0 =>
           pos'.file = pos.file + 1 /\ pos.file < Len(Bundle[b])
    <2>1. AfterStored(b).file = 0
      BY DEF AfterStored, At, Bundles
    <2> QED
      BY SMT, <1>1, <1>2, <2>1 DEF At
  <1>12. /\ pos'.at = b \/ (pos.file = Len(Bundle[b]) /\ pos' = AfterStored(b))
         /\ pos'.at # b => pos' = At(CASE b = "compile" -> "execute" [] b = "results" -> "evidence"
                                        [] b = "evidence" -> "report", 0)
         /\ pos'.at = b => pos' = At(b, pos.file + 1) /\ pos.file + 1 \in 0..Len(Bundle[b])
    BY SMT, <1>1, <1>2 DEF At, AfterStored, Bundles
  <1> HIDE DEF f
  <1>13. BundlesType'
    <2>1. \A g \in DOMAIN artifacts' : artifacts'[g] \in 1..life'
      BY SMT, <1>1, <1>2, <1>5
    <2>2. pos' \in [at : Bundles \cup {"stopped", "execute", "report"}, file : Nat]
      BY SMT, <1>2, <1>12 DEF At, Bundles
    <2>3. pos'.at \in Bundles => pos'.file \in 0..Len(Bundle[pos'.at])
      BY SMT, <1>12, Layout DEF At, Bundles
    <2>4. pos'.at \notin Bundles => pos'.file = 0
      BY SMT, <1>12 DEF At, Bundles
    <2> QED
      BY <1>1, <1>2, <2>1, <2>2, <2>3, <2>4 DEF BundlesType
  <1>14. \A c \in Bundles : InOrder(c)'
    <2> SUFFICES ASSUME NEW c \in Bundles PROVE InOrder(c)'
      OBVIOUS
    <2>1. CASE c # b
      <3>1. \A i \in DOMAIN Bundle[c] : Bundle[c][i] \in DOMAIN artifacts' <=> Bundle[c][i] \in DOMAIN artifacts
        BY <1>5, <1>6, <2>1 DEF Files
      <3>2. ~(pos'.at = c /\ pos'.file > 0)
        BY SMT, <1>12, <2>1 DEF At, Bundles
      <3>3. \A g \in Files(c) \cap DOMAIN artifacts' : g \in DOMAIN artifacts /\ artifacts'[g] = artifacts[g]
        BY <1>5, <1>6, <2>1
      <3> QED
        BY SMT, <3>1, <3>2, <3>3 DEF InOrder
    <2>2. CASE c = b
      <3>1. \A i \in DOMAIN Bundle[b] : Bundle[b][i] \in DOMAIN artifacts' <=> i < pos.file + 1
        BY SMT, <1>2, <1>3, <1>5, <1>8 DEF f
      <3>2. \A g \in Files(b) \cap DOMAIN artifacts' : artifacts'[g] = life
        BY SMT, <1>5, <1>7
      <3>3. \A i \in DOMAIN Bundle[b] : Bundle[b][i] \in Files(b)
        BY DEF Files
      <3>4. \A i, j \in DOMAIN Bundle[b] :
              i <= j /\ Bundle[b][j] \in DOMAIN artifacts' => Bundle[b][i] \in DOMAIN artifacts'
        BY SMT, <1>2, <3>1
      <3>5. \A g, h \in Files(b) \cap DOMAIN artifacts' : artifacts'[g] = artifacts'[h]
        BY <3>2
      <3>6. pos'.at = b /\ pos'.file > 0 =>
              \A i \in DOMAIN Bundle[b] :
                 /\ Bundle[b][i] \in DOMAIN artifacts' <=> i < pos'.file
                 /\ Bundle[b][i] \in DOMAIN artifacts' => artifacts'[Bundle[b][i]] = life'
        <4> SUFFICES ASSUME pos'.at = b, pos'.file > 0, NEW i \in DOMAIN Bundle[b]
                     PROVE  /\ Bundle[b][i] \in DOMAIN artifacts' <=> i < pos'.file
                            /\ Bundle[b][i] \in DOMAIN artifacts' => artifacts'[Bundle[b][i]] = life'
          OBVIOUS
        <4>1. pos'.file = pos.file + 1
          BY <1>11
        <4>2. Bundle[b][i] \in DOMAIN artifacts' => artifacts'[Bundle[b][i]] = life'
          BY <1>1, <3>2, <3>3
        <4> QED
          BY <3>1, <4>1, <4>2
      <3> QED
        BY <2>2, <3>4, <3>5, <3>6 DEF InOrder
    <2> QED
      BY <2>1, <2>2
  <1>15. OwnCircuit'
    <2> SUFFICES ASSUME endpoint PROVE OwnCircuit'
      BY <1>1 DEF OwnCircuit
    <2>1. \A n \in 1..life : executed[n] = n => Circuit \in DOMAIN artifacts' /\ artifacts'[Circuit] = n
      BY <1>5 DEF OwnCircuit
    <2>2. b # "compile" => executed[life] = life /\ Circuit \in DOMAIN artifacts' /\ artifacts'[Circuit] = life
      BY <1>1, <1>5 DEF OwnCircuit, Bundles, PastExecute, PastCompile
    <2>3. \A n \in Writers("results")' \cup reported : executed[n] = n
      BY SMT, <1>9, <1>10, <2>2 DEF OwnCircuit, Bundles
    <2>4. b = "compile" /\ pos'.at # b => Circuit \in DOMAIN artifacts' /\ artifacts'[Circuit] = life
      BY SMT, <1>2, <1>3, <1>5, <1>12, Layout
    <2>5. pos'.at \in PastCompile => Circuit \in DOMAIN artifacts' /\ artifacts'[Circuit] = life
      BY <2>2, <2>4 DEF PastCompile
    <2>6. pos'.at \in PastExecute => executed[life] = life
      BY SMT, <1>12, <2>2 DEF PastExecute, At
    <2> QED
      BY <1>1, <2>1, <2>3, <2>5, <2>6 DEF OwnCircuit
  <1>16. ResultsStored'
    <2>1. b = "results" => ~(Files("results") \subseteq DOMAIN artifacts)
      BY <1>4
    <2>2. b = "results" => \A m \in Writers("results") : m = life
      BY <1>7 DEF Writers
    <2>3. b # "results" => Writers("results")' = Writers("results")
      BY <1>9 DEF Bundles
    <2>4. \A n : Stored(n) => Stored(n)'
      BY <1>1, <1>5, <1>10, <2>1, <2>2, <2>3 DEF Stored
    <2>5. pos'.at \in {"evidence", "report"} => Stored(life)'
      <3>1. CASE b = "results" /\ pos'.at # b
        <4>1. Files("results") \subseteq DOMAIN artifacts'
          BY SMT, <1>2, <1>3, <1>5, <1>12, <3>1 DEF Files, f
        <4> QED
          BY <1>1, <1>10, <3>1, <4>1 DEF Stored
      <3>2. CASE b = "evidence"
        BY <1>1, <2>4, <3>2 DEF ResultsStored
      <3>3. CASE b = "compile" \/ pos'.at = "results"
        BY SMT, <1>12, <3>3 DEF At
      <3> QED
        BY <3>1, <3>2, <3>3 DEF Bundles
    <2>6. (pos'.at \in {"compile", "execute"} \/ pos' = At("results", 0)) =>
            b = "compile" /\ pos.at = "compile"
      BY SMT, <1>1, <1>2, <1>12 DEF At, Bundles
    <2>7. (pos'.at \in {"compile", "execute"} \/ pos' = At("results", 0)) =>
            \A m \in Writers("results")' : m < life
      BY <2>3, <2>6 DEF ResultsStored
    <2> QED
      BY <1>1, <2>4, <2>5, <2>7 DEF ResultsStored
  <1> QED
    BY <1>13, <1>14, <1>15, <1>16
-----------------------------------------------------------------------------
\* Whatever sequence of submissions, crashes and failed writes a job id goes
\* through, and however many, its bundles never mix lives, with a compiler they
\* are one circuit and its own results, and a reported reference leads to stored
\* results (store_artifact_bundle, store_results_bundle and persist_qfs_result).
THEOREM BundlesAlwaysSound == BundlesSpec => []BundlesSound
  <1>1. BundlesInv /\ [BundlesNext]_bundleVars => BundlesInv'
    <2> SUFFICES ASSUME BundlesInv, [BundlesNext]_bundleVars PROVE BundlesInv'
      OBVIOUS
    <2>1. CASE Submit
      BY <2>1, SubmitKeeps
    <2>2. CASE Execute
      BY <2>2, ExecuteKeeps
    <2>3. CASE Report \/ LifeEnds
      BY <2>3, EndKeeps
    <2>4. ASSUME NEW b \in DOMAIN Bundle, CheckAbsent(b) \/ WriteFile(b) \/ WriteFails(b)
          PROVE  BundlesInv'
      <3>1. b \in Bundles
        BY Layout
      <3> QED
        BY <2>4, <3>1, CheckAbsentKeeps, WriteFileKeeps, WriteFailsKeeps
    <2>5. CASE UNCHANGED bundleVars
      <3>1. BundlesType'
        BY <2>5 DEF bundleVars, BundlesInv, BundlesType
      <3>2. \A b \in Bundles : InOrder(b)'
        BY SMT, <2>5 DEF bundleVars, BundlesInv, InOrder
      <3>3. OwnCircuit'
        BY <2>5 DEF bundleVars, BundlesInv, OwnCircuit, Writers
      <3>4. ResultsStored'
        BY SMT, <2>5 DEF bundleVars, BundlesInv, ResultsStored, Stored, Writers
      <3> QED
        BY <3>1, <3>2, <3>3, <3>4 DEF BundlesInv
    <2> QED
      BY <2>1, <2>2, <2>3, <2>4, <2>5 DEF BundlesNext
  <1> QED
    BY <1>1, BundlesBegin, InvariantEnough, PTL DEF BundlesSpec
-----------------------------------------------------------------------------
(****************************************************************************)
(* The store, the checkpoint catalogue and the restore cache.              *)
(****************************************************************************)
\* Outside exposed every artifact is readable, and what a run of the executor
\* may delete was exposed when the run took its copies.
StoreInv ==
    /\ failovers \in Nat /\ writes \in Nat
    /\ blobs \in [Backends -> [Refs -> Nat]]
    /\ written \in [Refs -> [backend : Backends, write : Nat]]
    /\ cleanup \in [pc : {"idle", "list", "sweep"}, snapshot : {cleanup.snapshot},
                    now : {cleanup.now}, refs : SUBSET Refs]
    /\ Running => \A r \in Refs : Doomed(r) => r \in exposed
    /\ \A r \in Refs \ exposed : Readable(r)

\* What the quota counts is finite and within its limits.
CatalogInv ==
    /\ IsFiniteSet(DOMAIN catalog)
    /\ \A i \in DOMAIN catalog : catalog[i].size \in Nat
    /\ QuotaHeld

\* The access numbers of the cached checkpoints are those of their last use,
\* and no two uses have the same number.
CacheInv ==
    /\ used \in [Checkpoints -> 0..MaxUses]
    /\ IsFiniteSet(DOMAIN cache) /\ DOMAIN cache \subseteq Checkpoints
    /\ \A i \in DOMAIN cache : cache[i] = used[i] /\ used[i] > 0
    /\ \A i, j \in Checkpoints : used[i] = used[j] /\ used[i] > 0 => i = j
    /\ CacheKeepsRecent

\* The inductive invariant of the store, the catalogue and the cache.
QfsInv == StoreInv /\ CatalogInv /\ CacheInv

\* A backend that served an operation exists, and the attempts stay a number.
LEMMA RunOnType ==
    ASSUME failovers \in Nat, NEW b \in Backends, RunOn(b)
    PROVE  failovers' \in Nat
  BY SMT, QfsArtifactsAssumption DEF RunOn, Backends

\* A write makes its artifact readable, and exposes it to a run under way.
LEMMA PutKeeps ==
    ASSUME StoreInv, NEW r \in Refs, PutBytes(r)
    PROVE  StoreInv'
  <1>1. PICK b \in Backends :
        /\ RunOn(b) /\ writes' = writes + 1
        /\ blobs' = [blobs EXCEPT ![b][r] = writes + 1]
        /\ written' = [written EXCEPT ![r] = [backend |-> b, write |-> writes + 1]]
        /\ exposed' = IF Running THEN exposed \cup {r} ELSE exposed \ {r}
        /\ UNCHANGED cleanup
    BY DEF PutBytes
  <1>2. failovers' \in Nat /\ writes' \in Nat
    BY SMT, <1>1, RunOnType DEF StoreInv
  <1>3. /\ blobs' \in [Backends -> [Refs -> Nat]] /\ blobs'[b][r] = writes + 1
        /\ \A c \in Backends, q \in Refs : q # r => blobs'[c][q] = blobs[c][q]
    BY SMT, <1>1 DEF StoreInv
  <1>4. /\ written' \in [Refs -> [backend : Backends, write : Nat]]
        /\ written'[r] = [backend |-> b, write |-> writes + 1]
        /\ \A q \in Refs : q # r => written'[q] = written[q]
    BY <1>1, <1>2 DEF StoreInv
  <1>5. Running' = Running /\ \A q \in Refs : Doomed(q)' = Doomed(q)
    BY <1>1 DEF Running, Doomed
  <1>6. Running' => \A q \in Refs : Doomed(q)' => q \in exposed'
    BY <1>1, <1>5 DEF StoreInv
  <1>7. ASSUME NEW q \in Refs \ exposed' PROVE Readable(q)'
    <2>1. CASE q = r
      BY SMT, <1>3, <1>4, <2>1 DEF Readable
    <2>2. CASE q # r
      <3>1. q \notin exposed /\ Readable(q)
        BY <1>1, <1>7, <2>2 DEF StoreInv
      <3>2. written'[q] = written[q] /\ written[q].backend \in Backends
        BY <1>4, <2>2 DEF StoreInv
      <3> QED BY <1>3, <2>2, <3>1, <3>2 DEF Readable
    <2> QED BY <2>1, <2>2
  <1> QED BY <1>1, <1>2, <1>3, <1>4, <1>6, <1>7 DEF StoreInv

\* Steps that touch neither the blobs nor the executor.
LEMMA StoreStands ==
    ASSUME StoreInv, UNCHANGED <<failovers, blobs, written, cleanup>>, writes' \in Nat,
           exposed \subseteq exposed'
    PROVE  StoreInv'
  <1>1. Running' = Running /\ \A q \in Refs : Doomed(q)' = Doomed(q) /\ Readable(q)' = Readable(q)
    BY DEF Running, Doomed, Readable
  <1>2. Running' => \A q \in Refs : Doomed(q)' => q \in exposed'
    BY <1>1 DEF StoreInv
  <1>3. \A q \in Refs \ exposed' : Readable(q)'
    BY <1>1 DEF StoreInv
  <1> QED BY <1>2, <1>3 DEF StoreInv

\* A run begins: what its copies condemn is exposed from now on.
LEMMA SnapshotKeeps ==
    ASSUME StoreInv, CleanupSnapshot
    PROVE  StoreInv'
  <1>1. /\ cleanup' = [Idle EXCEPT !.pc = "list", !.snapshot = index, !.now = epoch]
        /\ exposed' = exposed \cup {r \in Refs : r \notin DOMAIN index \/ epoch >= index[r]}
        /\ UNCHANGED <<blobs, writes, failovers, written>>
    BY DEF CleanupSnapshot
  <1>2. cleanup' = [pc |-> "list", snapshot |-> index, now |-> epoch, refs |-> {}]
    BY <1>1 DEF Idle
  <1>3. \A r \in Refs : Doomed(r)' => r \in exposed'
    BY <1>1, <1>2 DEF Doomed
  <1>4. \A r \in Refs \ exposed' : Readable(r)'
    BY <1>1 DEF StoreInv, Readable
  <1> QED BY SMT, <1>1, <1>2, <1>3, <1>4 DEF StoreInv

\* Listing the refs condemns nothing more.
LEMMA ListKeeps ==
    ASSUME StoreInv, CleanupList
    PROVE  StoreInv'
  <1>1. PICK b \in Backends :
          /\ RunOn(b)
          /\ cleanup' = [cleanup EXCEPT !.pc = "sweep", !.refs = {r \in Refs : blobs[b][r] # 0}]
    BY DEF CleanupList
  <1>2. cleanup.pc = "list" /\ UNCHANGED <<blobs, writes, written, exposed>>
    BY DEF CleanupList
  <1>3. /\ cleanup' = [pc |-> "sweep", snapshot |-> cleanup.snapshot, now |-> cleanup.now,
                      refs |-> {r \in Refs : blobs[b][r] # 0}]
    BY <1>1 DEF StoreInv
  <1>4. /\ cleanup'.snapshot = cleanup.snapshot /\ cleanup'.now = cleanup.now
        /\ cleanup' \in [pc : {"idle", "list", "sweep"}, snapshot : {cleanup'.snapshot},
                         now : {cleanup'.now}, refs : SUBSET Refs]
    BY <1>3
  <1>5. Running /\ \A r \in Refs : Doomed(r)' = Doomed(r) /\ Readable(r)' = Readable(r)
    BY <1>2, <1>4 DEF Running, Doomed, Readable
  <1>6. \A r \in Refs : Doomed(r)' => r \in exposed'
    BY <1>2, <1>5 DEF StoreInv
  <1>7. \A r \in Refs \ exposed' : Readable(r)'
    BY <1>2, <1>5 DEF StoreInv
  <1>8. failovers' \in Nat
    BY <1>1, RunOnType DEF StoreInv
  <1> QED BY <1>2, <1>4, <1>6, <1>7, <1>8 DEF StoreInv

\* A deletion hits an artifact that is exposed, or nothing.
LEMMA SweepKeeps ==
    ASSUME StoreInv, CleanupNext
    PROVE  StoreInv'
  <1>1. cleanup.pc = "sweep" /\ Running /\ UNCHANGED <<writes, written, exposed>>
    BY DEF CleanupNext, Running
  <1>2. CASE cleanup.refs = {}
    <2>1. cleanup' = Idle /\ UNCHANGED <<blobs, failovers>>
      BY <1>2 DEF CleanupNext
    <2>2. ~Running' /\ \A r \in Refs : Readable(r)' = Readable(r)
      BY <1>1, <2>1 DEF Idle, Running, Readable
    <2>3. cleanup' \in [pc : {"idle", "list", "sweep"}, snapshot : {cleanup'.snapshot},
                        now : {cleanup'.now}, refs : SUBSET Refs]
      BY <2>1 DEF Idle
    <2>4. \A r \in Refs \ exposed' : Readable(r)'
      BY <1>1, <2>2 DEF StoreInv
    <2> QED BY <1>1, <2>1, <2>2, <2>3, <2>4 DEF StoreInv
  <1>3. CASE cleanup.refs # {}
    <2>1. PICK r \in cleanup.refs :
              /\ cleanup' = [cleanup EXCEPT !.refs = @ \ {r}]
              /\ IF Doomed(r)
                 THEN \E b \in Backends : RunOn(b) /\ blobs' = [blobs EXCEPT ![b][r] = 0]
                 ELSE UNCHANGED <<blobs, failovers>>
      BY <1>3 DEF CleanupNext
    <2>2. /\ cleanup' = [pc |-> "sweep", snapshot |-> cleanup.snapshot, now |-> cleanup.now,
                         refs |-> cleanup.refs \ {r}]
          /\ cleanup.refs \subseteq Refs
      BY <1>1, <2>1 DEF StoreInv
    <2>3. /\ cleanup'.snapshot = cleanup.snapshot /\ cleanup'.now = cleanup.now
          /\ cleanup' \in [pc : {"idle", "list", "sweep"}, snapshot : {cleanup'.snapshot},
                           now : {cleanup'.now}, refs : SUBSET Refs]
      BY <2>2
    <2>4. \A q \in Refs : Doomed(q)' => q \in exposed'
      BY <1>1, <2>3 DEF StoreInv, Doomed
    <2>5. /\ blobs' \in [Backends -> [Refs -> Nat]] /\ failovers' \in Nat
          /\ \A c \in Backends, q \in Refs : (q # r \/ ~Doomed(r)) => blobs'[c][q] = blobs[c][q]
      <3>1. CASE Doomed(r)
        <4>1. PICK b \in Backends : RunOn(b) /\ blobs' = [blobs EXCEPT ![b][r] = 0]
          BY <2>1, <3>1
        <4>2. failovers' \in Nat
          BY <4>1, RunOnType DEF StoreInv
        <4> QED BY <2>2, <3>1, <4>1, <4>2 DEF StoreInv
      <3>2. CASE ~Doomed(r)
        BY <2>1, <3>2 DEF StoreInv
      <3> QED BY <3>1, <3>2
    <2>6. ASSUME NEW q \in Refs \ exposed' PROVE Readable(q)'
      <3>1. Readable(q) /\ written'[q] = written[q] /\ written[q].backend \in Backends
        BY <1>1, <2>6 DEF StoreInv
      <3>2. q # r \/ ~Doomed(r)
        BY <1>1, <2>6 DEF StoreInv
      <3> QED BY <2>5, <3>1, <3>2 DEF Readable
    <2> QED BY <1>1, <2>3, <2>4, <2>5, <2>6 DEF StoreInv
  <1> QED BY <1>2, <1>3

\* Every step keeps what the store needs.
LEMMA StoreKeeps ==
    ASSUME StoreInv, [BlobsNext \/ CheckpointsNext]_qfsVars
    PROVE  StoreInv'
  <1>1. ASSUME NEW r \in Refs, IndexUpsert(r) PROVE StoreInv'
    <2>1. writes' \in Nat /\ exposed \subseteq exposed'
      BY SMT, <1>1 DEF IndexUpsert, StoreInv
    <2> QED BY <1>1, <2>1, StoreStands DEF IndexUpsert
  <1>2. CASE EpochTick \/ CheckpointsNext \/ UNCHANGED qfsVars
    <2>1. UNCHANGED <<failovers, blobs, written, cleanup, writes, exposed>>
      BY <1>2 DEF EpochTick, CheckpointsNext, CheckpointTick, CatalogUpsert, CatalogGetExpired,
                  CachePut, CacheHit, storeVars, qfsVars
    <2> QED BY <2>1, StoreStands DEF StoreInv
  <1> QED BY <1>1, <1>2, PutKeeps, SnapshotKeeps, ListKeeps, SweepKeeps DEF BlobsNext

\* What the quota counts when one id is put in or taken out.
LEMMA BytesWith ==
    ASSUME NEW items, IsFiniteSet(DOMAIN items), \A i \in DOMAIN items : items[i].size \in Nat,
           NEW id, NEW value, value.size \in Nat
    PROVE  /\ IsFiniteSet(DOMAIN Without(items, id)) /\ IsFiniteSet(DOMAIN With(items, id, value))
           /\ TotalBytes(Without(items, id)) \in Nat /\ TotalBytes(items) \in Nat
           /\ TotalBytes(Without(items, id)) <= TotalBytes(items)
           /\ TotalBytes(With(items, id, value)) = TotalBytes(Without(items, id)) + value.size
           /\ Cardinality(DOMAIN With(items, id, value)) = Cardinality(DOMAIN Without(items, id)) + 1
           /\ Cardinality(DOMAIN Without(items, id)) <= Cardinality(DOMAIN items)
           /\ Cardinality(DOMAIN items) \in Nat
  <1> DEFINE D == DOMAIN items
             f == [i \in D |-> items[i].size]
             g == [i \in D \ {id} |-> items[i].size]
             h == [i \in D \cup {id} |-> IF i = id THEN value.size ELSE items[i].size]
  <1>1. /\ DOMAIN Without(items, id) = D \ {id} /\ DOMAIN With(items, id, value) = D \cup {id}
        /\ TotalBytes(items) = SumFunctionOnSet(f, D)
        /\ TotalBytes(Without(items, id)) = SumFunctionOnSet(g, D \ {id})
    BY DEF Without, With, TotalBytes, SumFunction
  <1>2. TotalBytes(With(items, id, value)) = SumFunctionOnSet(h, D \cup {id})
    <2>1. [i \in DOMAIN With(items, id, value) |-> With(items, id, value)[i].size] = h
      BY DEF With
    <2> QED BY <2>1 DEF TotalBytes, SumFunction
  <1>3. IsFiniteSet(D \ {id}) /\ IsFiniteSet(D \cup {id})
    BY FS_RemoveElement, FS_AddElement
  <1>4. /\ \A i \in D \ {id} : f[i] = g[i] /\ h[i] = g[i] /\ g[i] \in Nat
        /\ \A i \in D : f[i] \in Nat
        /\ \A i \in D \cup {id} : h[i] \in Nat
        /\ h[id] = value.size
    OBVIOUS
  <1> HIDE DEF f, g, h, D
  <1>5. SumFunctionOnSet(g, D \ {id}) \in Nat /\ SumFunctionOnSet(f, D) \in Nat
    BY <1>3, <1>4, SumType DEF D
  <1>6. /\ SumFunctionOnSet(g, D \ {id}) = SumFunctionOnSet(f, D \ {id})
        /\ SumFunctionOnSet(g, D \ {id}) = SumFunctionOnSet(h, D \ {id})
    BY <1>3, <1>4, SumAgree
  <1>7. SumFunctionOnSet(h, D \cup {id}) = h[id] + SumFunctionOnSet(h, D \ {id})
    <2>1. (D \cup {id}) \ {id} = D \ {id} /\ id \in D \cup {id}
      OBVIOUS
    <2> QED BY SMT, <1>3, <1>4, <2>1, SumRemove
  <1>8. SumFunctionOnSet(g, D \ {id}) <= SumFunctionOnSet(f, D)
    <2>1. CASE id \notin D
      <3>1. D \ {id} = D
        BY <2>1
      <3>2. SumFunctionOnSet(g, D \ {id}) = SumFunctionOnSet(f, D)
        BY <1>6, <3>1
      <3> QED BY SMT, <1>5, <3>2
    <2>2. CASE id \in D
      <3>1. SumFunctionOnSet(f, D) = f[id] + SumFunctionOnSet(f, D \ {id})
        BY <1>4, <2>2, SumRemove DEF D
      <3>2. f[id] \in Nat
        BY <1>4, <2>2
      <3> QED BY SMT, <1>5, <1>6, <3>1, <3>2
    <2> QED BY <2>1, <2>2
  <1>9. /\ Cardinality(D \cup {id}) = Cardinality(D \ {id}) + 1
        /\ Cardinality(D \ {id}) <= Cardinality(D) /\ Cardinality(D) \in Nat
    <2>1. (D \ {id}) \cup {id} = D \cup {id} /\ id \notin D \ {id} /\ D \ {id} \subseteq D
      OBVIOUS
    <2>2. Cardinality((D \ {id}) \cup {id}) = Cardinality(D \ {id}) + 1
      BY <1>3, <2>1, FS_AddElement
    <2>3. Cardinality(D \ {id}) <= Cardinality(D) /\ Cardinality(D) \in Nat
      BY <2>1, FS_Subset, FS_CardinalityType DEF D
    <2> QED BY <2>1, <2>2, <2>3
  <1>10. SumFunctionOnSet(h, D \cup {id}) = SumFunctionOnSet(g, D \ {id}) + value.size
    BY SMT, <1>4, <1>5, <1>6, <1>7
  <1> QED BY <1>1, <1>2, <1>3, <1>5, <1>8, <1>9, <1>10 DEF D

\* Every step keeps the quota: an upsert by the check it passed, a removal because
\* it only takes away.
LEMMA CatalogKeeps ==
    ASSUME CatalogInv, [BlobsNext \/ CheckpointsNext]_qfsVars
    PROVE  CatalogInv'
  <1>1. CASE UNCHANGED catalog
    BY <1>1 DEF CatalogInv, QuotaHeld
  <1>2. ASSUME NEW id \in Checkpoints, NEW size \in Sizes, CatalogUpsert(id, size)
        PROVE  CatalogInv'
    <2> DEFINE value == [size |-> size, until |-> epoch + Lifetime]
    <2>1. value.size = size /\ size \in Nat
      BY QfsArtifactsAssumption
    <2>2. catalog' = With(catalog, id, value)
      BY <1>2 DEF CatalogUpsert
    <2> HIDE DEF value
    <2>3. /\ IsFiniteSet(DOMAIN With(catalog, id, value))
          /\ TotalBytes(With(catalog, id, value)) = TotalBytes(Without(catalog, id)) + size
          /\ Cardinality(DOMAIN With(catalog, id, value)) = Cardinality(DOMAIN Without(catalog, id)) + 1
      BY <2>1, BytesWith DEF CatalogInv
    <2>4. QuotaHeld'
      BY <1>2, <2>2, <2>3 DEF CatalogUpsert, QuotaAdmits, QuotaHeld
    <2>5. \A i \in DOMAIN catalog' : catalog'[i].size \in Nat
      BY <2>1, <2>2 DEF CatalogInv, With
    <2> QED BY <2>2, <2>3, <2>4, <2>5 DEF CatalogInv
  <1>3. ASSUME NEW id \in Checkpoints, CatalogGetExpired(id)
        PROVE  CatalogInv'
    <2> DEFINE value == [size |-> 0, until |-> 0]
    <2>1. catalog' = Without(catalog, id) /\ value.size \in Nat
      BY <1>3 DEF CatalogGetExpired
    <2> HIDE DEF value
    <2>2. /\ IsFiniteSet(DOMAIN Without(catalog, id))
          /\ TotalBytes(Without(catalog, id)) \in Nat /\ TotalBytes(catalog) \in Nat
          /\ TotalBytes(Without(catalog, id)) <= TotalBytes(catalog)
          /\ Cardinality(DOMAIN Without(catalog, id)) <= Cardinality(DOMAIN catalog)
          /\ Cardinality(DOMAIN catalog) \in Nat
      BY <2>1, BytesWith DEF CatalogInv
    <2>3. Cardinality(DOMAIN Without(catalog, id)) \in Nat
      BY <2>2, FS_CardinalityType
    <2>4. QuotaHeld'
      BY SMT, <2>1, <2>2, <2>3, QfsArtifactsAssumption DEF QuotaHeld, CatalogInv
    <2>5. \A i \in DOMAIN catalog' : catalog'[i].size \in Nat
      BY <2>1 DEF CatalogInv, Without
    <2> QED BY <2>1, <2>2, <2>4, <2>5 DEF CatalogInv
  <1>4. CASE BlobsNext \/ CheckpointTick \/ UNCHANGED qfsVars
    BY <1>1, <1>4 DEF BlobsNext, CheckpointTick, qfsVars, checkpointVars, PutBytes, IndexUpsert,
                      CleanupSnapshot, CleanupList, CleanupNext, EpochTick
  <1>5. CASE \E id \in Checkpoints : CachePut(id) \/ CacheHit(id)
    BY <1>1, <1>5 DEF CachePut, CacheHit
  <1> QED BY <1>2, <1>3, <1>4, <1>5 DEF CheckpointsNext

\* Uses is the number of the last use.
LEMMA UsesGreatest ==
    ASSUME used \in [Checkpoints -> 0..MaxUses]
    PROVE  Uses \in Nat /\ \A i \in Checkpoints : used[i] \in Nat /\ used[i] <= Uses
  <1> DEFINE T == {0} \cup {used[i] : i \in Checkpoints}
  <1>1. MaxUses \in Nat
    BY QfsArtifactsAssumption
  <1>2. T \subseteq Nat /\ T # {} /\ (\A x \in T : x <= MaxUses) /\ \A i \in Checkpoints : used[i] \in T
    BY SMT, <1>1
  <1>3. Uses = CHOOSE x \in T : \A y \in T : x >= y
    BY DEF Uses
  <1> HIDE DEF T
  <1>4. \E x \in T : \A y \in T : x >= y
    BY <1>1, <1>2, GreatestNatural
  <1>5. Uses \in T /\ \A y \in T : Uses >= y
    BY <1>3, <1>4
  <1> QED BY <1>2, <1>5

\* The evicted entry is the one used longest ago.
LEMMA EvictedOldest ==
    ASSUME NEW entries, DOMAIN entries # {}, \A i \in DOMAIN entries : entries[i] \in Nat
    PROVE  Evicted(entries) \in DOMAIN entries /\ \A j \in DOMAIN entries : entries[Evicted(entries)] <= entries[j]
  <1> DEFINE T == {entries[i] : i \in DOMAIN entries}
  <1>1. T \subseteq Nat /\ T # {}
    OBVIOUS
  <1>2. PICK x \in T : \A y \in T : x <= y
    <2> HIDE DEF T
    <2> QED BY <1>1, LeastNatural
  <1>3. \E i \in DOMAIN entries : \A j \in DOMAIN entries : entries[i] <= entries[j]
    BY <1>2
  <1> QED BY <1>3 DEF Evicted

\* The table with a new access number for one checkpoint keeps the order of use.
LEMMA Touched ==
    ASSUME CacheInv, NEW id \in Checkpoints, Uses < MaxUses, NEW entries,
           DOMAIN entries = DOMAIN cache \cup {id},
           \A i \in DOMAIN entries : entries[i] = IF i = id THEN Uses + 1 ELSE cache[i],
           used' = [used EXCEPT ![id] = Uses + 1]
    PROVE  /\ used' \in [Checkpoints -> 0..MaxUses]
           /\ IsFiniteSet(DOMAIN entries) /\ DOMAIN entries \subseteq Checkpoints
           /\ \A i \in DOMAIN entries : entries[i] = used'[i] /\ used'[i] > 0 /\ entries[i] \in Nat
           /\ \A i, j \in Checkpoints : used'[i] = used'[j] /\ used'[i] > 0 => i = j
           /\ \A i \in DOMAIN entries : \A j \in Checkpoints \ DOMAIN entries : used'[j] < entries[i]
  <1>1. /\ used \in [Checkpoints -> 0..MaxUses] /\ MaxUses \in Nat
        /\ IsFiniteSet(DOMAIN cache) /\ DOMAIN cache \subseteq Checkpoints
        /\ \A i \in DOMAIN cache : cache[i] = used[i] /\ used[i] > 0
        /\ \A i, j \in Checkpoints : used[i] = used[j] /\ used[i] > 0 => i = j
        /\ \A i \in DOMAIN cache : \A j \in Checkpoints \ DOMAIN cache : used[j] < cache[i]
    BY QfsArtifactsAssumption DEF CacheInv, CacheKeepsRecent
  <1>2. Uses \in Nat /\ \A i \in Checkpoints : used[i] \in Nat /\ used[i] <= Uses
    BY <1>1, UsesGreatest
  <1>3. Uses + 1 \in 0..MaxUses
    BY SMT, <1>1, <1>2
  <1>4. \A i \in Checkpoints : used'[i] = IF i = id THEN Uses + 1 ELSE used[i]
    BY <1>1
  <1>5. used' \in [Checkpoints -> 0..MaxUses]
    BY <1>1, <1>3
  <1>6. IsFiniteSet(DOMAIN entries) /\ DOMAIN entries \subseteq Checkpoints
    BY SMT, <1>1, FS_AddElement
  <1>7. \A i \in DOMAIN entries : entries[i] = used'[i] /\ used'[i] > 0 /\ entries[i] \in Nat
    BY SMT, <1>1, <1>2, <1>4
  <1>8. \A i, j \in Checkpoints : used'[i] = used'[j] /\ used'[i] > 0 => i = j
    BY SMT, <1>1, <1>2, <1>4
  <1>9. \A i \in DOMAIN entries : \A j \in Checkpoints \ DOMAIN entries : used'[j] < entries[i]
    <2> TAKE i \in DOMAIN entries
    <2> TAKE j \in Checkpoints \ DOMAIN entries
    <2>1. j # id /\ j \notin DOMAIN cache /\ used'[j] = used[j]
      BY <1>4
    <2>2. CASE i = id
      BY SMT, <1>2, <2>1, <2>2
    <2>3. CASE i # id
      BY <1>1, <2>1, <2>3
    <2> QED BY <2>2, <2>3
  <1> QED BY <1>5, <1>6, <1>7, <1>8, <1>9

\* A put that overflows the cache evicts the entry used longest ago.
LEMMA CachePutKeeps ==
    ASSUME CacheInv, NEW id \in Checkpoints, CachePut(id)
    PROVE  CacheInv'
  <1> DEFINE entries == With(cache, id, Uses + 1)
             gone == Evicted(entries)
  <1>1. /\ Uses < MaxUses /\ used' = [used EXCEPT ![id] = Uses + 1]
        /\ cache' = IF Cardinality(DOMAIN entries) > Capacity THEN Without(entries, gone) ELSE entries
    BY DEF CachePut
  <1>2. /\ DOMAIN entries = DOMAIN cache \cup {id}
        /\ \A i \in DOMAIN entries : entries[i] = IF i = id THEN Uses + 1 ELSE cache[i]
        /\ DOMAIN Without(entries, gone) = DOMAIN entries \ {gone}
        /\ \A i \in DOMAIN entries \ {gone} : Without(entries, gone)[i] = entries[i]
    BY DEF With, Without
  <1> HIDE DEF entries
  <1>3. /\ used' \in [Checkpoints -> 0..MaxUses]
        /\ IsFiniteSet(DOMAIN entries) /\ DOMAIN entries \subseteq Checkpoints
        /\ \A i \in DOMAIN entries : entries[i] = used'[i] /\ used'[i] > 0 /\ entries[i] \in Nat
        /\ \A i, j \in Checkpoints : used'[i] = used'[j] /\ used'[i] > 0 => i = j
        /\ \A i \in DOMAIN entries : \A j \in Checkpoints \ DOMAIN entries : used'[j] < entries[i]
    BY <1>1, <1>2, Touched
  <1>4. Capacity \in Nat /\ Cardinality(DOMAIN cache) \in Nat /\ Cardinality(DOMAIN cache) <= Capacity
    BY QfsArtifactsAssumption, FS_CardinalityType DEF CacheInv, CacheKeepsRecent
  <1>5. Cardinality(DOMAIN entries) \in Nat /\ Cardinality(DOMAIN entries) <= Capacity + 1
    <2>1. IsFiniteSet(DOMAIN cache)
      BY DEF CacheInv
    <2>2. Cardinality(DOMAIN cache \cup {id}) \in {Cardinality(DOMAIN cache), Cardinality(DOMAIN cache) + 1}
      BY <2>1, FS_AddElement
    <2>3. Cardinality(DOMAIN entries) \in {Cardinality(DOMAIN cache), Cardinality(DOMAIN cache) + 1}
      BY <1>2, <2>2
    <2> QED BY SMT, <1>4, <2>3
  <1>6. CASE ~(Cardinality(DOMAIN entries) > Capacity)
    <2>1. cache' = entries /\ Cardinality(DOMAIN entries) <= Capacity
      BY SMT, <1>1, <1>4, <1>5, <1>6
    <2> QED BY <1>3, <2>1 DEF CacheInv, CacheKeepsRecent
  <1>7. CASE Cardinality(DOMAIN entries) > Capacity
    <2>1. cache' = Without(entries, gone)
      BY <1>1, <1>7
    <2>2. gone \in DOMAIN entries /\ \A j \in DOMAIN entries : entries[gone] <= entries[j]
      <3>1. DOMAIN entries # {}
        BY <1>2
      <3> QED BY <1>3, <3>1, EvictedOldest
    <2> HIDE DEF gone
    <2>3. DOMAIN cache' = DOMAIN entries \ {gone} /\ \A i \in DOMAIN cache' : cache'[i] = entries[i]
      BY <1>2, <2>1
    <2>4. IsFiniteSet(DOMAIN cache') /\ Cardinality(DOMAIN cache') <= Capacity
      <3>1. /\ IsFiniteSet(DOMAIN entries \ {gone})
            /\ Cardinality(DOMAIN entries \ {gone}) = Cardinality(DOMAIN entries) - 1
        BY <1>3, <2>2, FS_RemoveElement
      <3>2. Cardinality(DOMAIN entries \ {gone}) <= Capacity
        BY SMT, <1>4, <1>5, <3>1
      <3> QED BY <2>3, <3>1, <3>2
    <2>5. ASSUME NEW i \in DOMAIN cache', NEW j \in Checkpoints \ DOMAIN cache'
          PROVE  used'[j] < cache'[i]
      <3>1. i \in DOMAIN entries /\ i # gone /\ cache'[i] = entries[i]
        BY <2>3
      <3>2. CASE j = gone
        <4>1. entries[gone] <= entries[i] /\ entries[gone] # entries[i]
          BY <1>3, <2>2, <3>1
        <4>2. entries[gone] \in Nat /\ entries[i] \in Nat /\ used'[gone] = entries[gone]
          BY <1>3, <2>2, <3>1
        <4> QED BY SMT, <3>1, <3>2, <4>1, <4>2
      <3>3. CASE j # gone
        BY <1>3, <2>3, <3>1, <3>3
      <3> QED BY <3>2, <3>3
    <2>6. \A i \in DOMAIN cache' : cache'[i] = used'[i] /\ used'[i] > 0
      BY <1>3, <2>3
    <2>7. DOMAIN cache' \subseteq Checkpoints
      BY <1>3, <2>3
    <2>8. CacheKeepsRecent'
      BY <2>4, <2>5 DEF CacheKeepsRecent
    <2> QED BY <1>3, <2>4, <2>6, <2>7, <2>8 DEF CacheInv
  <1> QED BY <1>6, <1>7

\* A hit makes its entry the one used last.
LEMMA CacheHitKeeps ==
    ASSUME CacheInv, NEW id \in Checkpoints, CacheHit(id)
    PROVE  CacheInv'
  <1>1. /\ Uses < MaxUses /\ used' = [used EXCEPT ![id] = Uses + 1]
        /\ id \in DOMAIN cache /\ cache' = [cache EXCEPT ![id] = Uses + 1]
    BY DEF CacheHit
  <1> DEFINE entries == cache'
  <1>2. /\ DOMAIN entries = DOMAIN cache \cup {id} /\ DOMAIN entries = DOMAIN cache
        /\ \A i \in DOMAIN entries : entries[i] = IF i = id THEN Uses + 1 ELSE cache[i]
    BY <1>1
  <1> HIDE DEF entries
  <1>3. /\ used' \in [Checkpoints -> 0..MaxUses]
        /\ IsFiniteSet(DOMAIN entries) /\ DOMAIN entries \subseteq Checkpoints
        /\ \A i \in DOMAIN entries : entries[i] = used'[i] /\ used'[i] > 0 /\ entries[i] \in Nat
        /\ \A i, j \in Checkpoints : used'[i] = used'[j] /\ used'[i] > 0 => i = j
        /\ \A i \in DOMAIN entries : \A j \in Checkpoints \ DOMAIN entries : used'[j] < entries[i]
    BY <1>1, <1>2, Touched
  <1>4. Cardinality(DOMAIN cache') <= Capacity
    BY <1>2 DEF CacheInv, CacheKeepsRecent, entries
  <1> QED BY <1>3, <1>4 DEF CacheInv, CacheKeepsRecent, entries

\* Every step keeps the checkpoints used last.
LEMMA CacheKeeps ==
    ASSUME CacheInv, [BlobsNext \/ CheckpointsNext]_qfsVars
    PROVE  CacheInv'
  <1>1. CASE UNCHANGED <<cache, used>>
    BY <1>1 DEF CacheInv, CacheKeepsRecent
  <1>2. CASE BlobsNext \/ CheckpointTick \/ UNCHANGED qfsVars
    BY <1>1, <1>2 DEF BlobsNext, CheckpointTick, qfsVars, checkpointVars, PutBytes, IndexUpsert,
                      CleanupSnapshot, CleanupList, CleanupNext, EpochTick
  <1>3. CASE \E id \in Checkpoints :
                CatalogGetExpired(id) \/ \E size \in Sizes : CatalogUpsert(id, size)
    BY <1>1, <1>3 DEF CatalogUpsert, CatalogGetExpired
  <1> QED BY <1>2, <1>3, CachePutKeeps, CacheHitKeeps DEF CheckpointsNext

\* Nothing is stored at the start.
LEMMA QfsBegins == QfsInit => QfsInv
  <1> SUFFICES ASSUME QfsInit PROVE QfsInv
    OBVIOUS
  <1>1. StoreInv
    <2>1. 1 \in Backends
      BY SMT, QfsArtifactsAssumption DEF Backends
    <2>2. cleanup = [pc |-> "idle", snapshot |-> <<>>, now |-> 0, refs |-> {}]
      BY DEF QfsInit, Idle
    <2> QED BY SMT, <2>1, <2>2 DEF QfsInit, StoreInv, Running, Readable
  <1>2. DOMAIN catalog = {} /\ DOMAIN cache = {}
    BY SMT DEF QfsInit
  <1>3. IsFiniteSet({}) /\ Cardinality({}) = 0
    BY FS_EmptySet
  <1>4. CatalogInv
    <2>1. TotalBytes(catalog) = 0
      BY <1>2, SumEmpty DEF TotalBytes, SumFunction
    <2>2. MaxArtifacts \in Nat /\ MaxBytes \in Nat
      BY QfsArtifactsAssumption
    <2> QED BY SMT, <1>2, <1>3, <2>1, <2>2 DEF CatalogInv, QuotaHeld
  <1>5. CacheInv
    BY SMT, <1>2, <1>3, QfsArtifactsAssumption DEF QfsInit, CacheInv, CacheKeepsRecent
  <1> QED BY <1>1, <1>4, <1>5 DEF QfsInv

\* Retention deletes nothing it must keep, the catalogue keeps to its quota and
\* the cache to the checkpoints used last: for any refs, backends, quota, capacity
\* and interleaving of writers with the executor.
THEOREM QfsIsSound == QfsSpec => []QfsSound
  <1>1. QfsInit => QfsInv
    BY QfsBegins
  <1>2. QfsInv /\ [BlobsNext \/ CheckpointsNext]_qfsVars => QfsInv'
    BY StoreKeeps, CatalogKeeps, CacheKeeps DEF QfsInv
  <1>3. QfsInv => QfsSound
    BY DEF QfsInv, StoreInv, CatalogInv, CacheInv, QfsSound, RetainedSurvives
  <1> QED BY <1>1, <1>2, <1>3, PTL DEF QfsSpec
=============================================================================
