------------------------------ MODULE QfsBundles ------------------------------
(***************************************************************************)
(* The write-once bundles of a job in the local QFS (local_circuit_fs.rs): *)
(* the compiled circuit, the results and the release evidence, as the      *)
(* kernel's compile and persist stages store them.  A request without an   *)
(* explicit idempotency key gets its fingerprint as job id, so after a     *)
(* crash of the kernel, which keeps no job, the same request runs again    *)
(* under the same id over the files of its earlier life.  A file holds the *)
(* number of the life that wrote it.                                       *)
(***************************************************************************)
EXTENDS Naturals, Sequences

CONSTANTS MaxLives,          \* bound on the submissions of the request
          MaxWriteFailures   \* bound on writes that return an I/O error

VARIABLES endpoint,        \* the compiler and the driver manager are configured
          artifacts,       \* path -> the life that wrote the file
          life, pos,       \* the running life, and the bundle and file it is at
          executed,        \* life -> the life whose circuit it executed
          reported,        \* lives that reported the results as persisted
          write_failures   \* lives that met an I/O error, one entry per error

bundleVars == <<endpoint, artifacts, life, pos, executed, reported, write_failures>>

\* The files of a bundle in the order they are written. qasm and the compile
\* report are looked for, but the kernel passes neither.
Compiled == <<"circuit.aqo.json", "metadata.json">>
Results  == <<"results.parquet", "result.json", "envelope.json", "manifest.json">>
Evidence == <<"evidence/bundle.json", "evidence/manifest.json", "evidence/provenance.json">>

Bundle == [compile |-> Compiled, results |-> Results, evidence |-> Evidence]

Files(b) == {Bundle[b][i] : i \in DOMAIN Bundle[b]}

Stopped == [at |-> "stopped", file |-> 0]

At(b, i) == [at |-> b, file |-> i]

BundlesInit ==
    /\ endpoint \in BOOLEAN
    /\ artifacts = [f \in {} |-> 0]
    /\ life = 0 /\ pos = Stopped
    /\ executed = <<>> /\ reported = {} /\ write_failures = <<>>

\* The request is submitted, for the first time or again after the last life
\* ended. Without an endpoint the compile stage stores nothing.
Submit ==
    /\ pos = Stopped /\ life < MaxLives
    /\ life' = life + 1
    /\ executed' = Append(executed, 0)
    /\ pos' = At(IF endpoint THEN "compile" ELSE "execute", 0)
    /\ UNCHANGED <<endpoint, artifacts, reported, write_failures>>

\* What follows a bundle. A compile stage that could not store ends the job; the
\* persist stage only warns about its results and ignores its evidence.
AfterStored(b)  == CASE b = "compile" -> At("execute", 0) [] b = "results" -> At("evidence", 0)
                     [] b = "evidence" -> At("report", 0)

\* Mutant of AfterRefused: a compiled circuit that is there already will do.
AfterRefused_goes_on(b) == AfterStored(b)

AfterRefused(b) == IF b = "compile" THEN Stopped ELSE AfterStored(b)

\* Every file of the bundle is looked for before the first one is written.
Exists(b) == Files(b) \cap DOMAIN artifacts # {}

CheckAbsent(b) ==
    /\ pos = At(b, 0)
    /\ pos' = IF Exists(b) THEN AfterRefused(b) ELSE At(b, 1)
    /\ UNCHANGED <<endpoint, artifacts, life, executed, reported, write_failures>>

Written(b) ==
    LET f == Bundle[b][pos.file]
    IN  [g \in DOMAIN artifacts \cup {f} |-> IF g = f THEN life ELSE artifacts[g]]

\* atomic_write_bytes renames a temporary file: a file is there in full or not at
\* all.
WriteFile(b) ==
    /\ pos.at = b /\ pos.file > 0
    /\ artifacts' = Written(b)
    /\ pos' = IF pos.file = Len(Bundle[b]) THEN AfterStored(b) ELSE At(b, pos.file + 1)
    /\ UNCHANGED <<endpoint, life, executed, reported, write_failures>>

WriteFails(b) ==
    /\ pos.at = b /\ pos.file > 0 /\ Len(write_failures) < MaxWriteFailures
    /\ write_failures' = Append(write_failures, life)
    /\ pos' = AfterRefused(b)
    /\ UNCHANGED <<endpoint, artifacts, life, executed, reported>>

\* The execute stage reads the circuit for the driver manager, if there is one.
Execute ==
    /\ pos = At("execute", 0)
    /\ IF endpoint
       THEN /\ "circuit.aqo.json" \in DOMAIN artifacts
            /\ executed' = [executed EXCEPT ![life] = artifacts["circuit.aqo.json"]]
       ELSE UNCHANGED executed
    /\ pos' = At("results", 0)
    /\ UNCHANGED <<endpoint, artifacts, life, reported, write_failures>>

\* persist returns qfs_result_ref whatever became of the files.
Report ==
    /\ pos = At("report", 0)
    /\ reported' = reported \cup {life}
    /\ pos' = Stopped
    /\ UNCHANGED <<endpoint, artifacts, life, executed, write_failures>>

\* A crash of the kernel, or a stage between these that fails, expires or is
\* cancelled.
LifeEnds ==
    /\ pos # Stopped
    /\ pos' = Stopped
    /\ UNCHANGED <<endpoint, artifacts, life, executed, reported, write_failures>>

BundlesNext ==
    \/ Submit \/ Execute \/ Report \/ LifeEnds
    \/ \E b \in DOMAIN Bundle : CheckAbsent(b) \/ WriteFile(b) \/ WriteFails(b)

BundlesSpec == BundlesInit /\ [][BundlesNext]_bundleVars
-----------------------------------------------------------------------------
Writers(b) == {artifacts[f] : f \in Files(b) \cap DOMAIN artifacts}

\* Files of different lives never mix in a bundle, and the file that describes
\* the others by their hashes (metadata, manifest) is there only when they are.
BundlesUnmixed ==
    /\ \A b \in DOMAIN Bundle : \A m, n \in Writers(b) : m = n
    /\ "metadata.json" \in DOMAIN artifacts => Files("compile") \subseteq DOMAIN artifacts
    /\ "manifest.json" \in DOMAIN artifacts => Files("results") \subseteq DOMAIN artifacts

\* With a compiler a life executes only the circuit it compiled itself, and the
\* results that are stored come from that circuit: the job id never serves the
\* results of one submission's circuit for another's. A life that got as far as
\* storing a circuit therefore leaves its job id unusable: later ones fail.
ResultsOfOwnCircuit ==
    endpoint =>
        /\ \A n \in DOMAIN executed : executed[n] \in {0, n}
        /\ \A n \in Writers("results") \cup reported : executed[n] = n
        /\ \A m, n \in reported : m = n

\* A life that reports its results has them all in the store, of its own making
\* unless an earlier life without a compiler left some, or it met an I/O error.
ReportedAreStored ==
    \A n \in reported :
        \/ Files("results") \subseteq DOMAIN artifacts /\ Writers("results") = {n}
        \/ \E i \in DOMAIN write_failures : write_failures[i] = n
        \/ ~endpoint /\ \E m \in Writers("results") : m < n

\* Whatever lives of the kernel wrote and crashed between, what is stored under a
\* job id (persist_qfs_result, store_artifact_bundle and their refusals) is one
\* circuit with its own results, and a reported reference leads to them.
BundlesSound == BundlesUnmixed /\ ResultsOfOwnCircuit /\ ReportedAreStored
=============================================================================
