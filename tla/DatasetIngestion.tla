-------------------------- MODULE DatasetIngestion --------------------------
(***************************************************************************)
(* Dataset ingestion of the benchmark service (dataset_ingestion.py): the  *)
(* bundle directory is read twice, once for its manifest and once for its  *)
(* source file, while its publisher may rewrite either; the catalog keeps  *)
(* the last record of a name and version.                                  *)
(***************************************************************************)
EXTENDS Integers, FiniteSets

CONSTANTS Paths,         \* bundle directories
          Releases,      \* <<dataset_name, dataset_version>>
          SourceFiles,   \* the source files there can be
          MaxRewrites    \* how often publishers rewrite a bundle

\* A source file is [body, ends, text, utf8]: what it says, its line ends ("lf"
\* or "crlf"), whether its suffix is one of the text suffixes, and whether it
\* decodes as UTF-8. A manifest is [release, checksum, wellFormed]: its
\* release, the digest it declares, and whether its fields are well formed
\* (present, of the schema, a URI, 64 characters).
VARIABLES files,      \* path -> <<>> (no source file) or <<source>>
          manifests,  \* path -> <<>> (no manifest, or no JSON) or <<manifest>>
          ingest,     \* <<>> or <<[path, manifest]>>: validated, not hashed yet
          catalog,    \* release -> its record, for the releases registered
          sourced,    \* history: <<path, source>> pairs that were on disk
          rewrites

datasetVars == <<files, manifests, ingest, catalog, sourced, rewrites>>

\* _sha256: a text file is hashed with its line ends normalised.
Sha256(source) == [body |-> source.body, ends |-> IF source.text /\ source.utf8 THEN "lf" ELSE source.ends]

\* _validate_manifest.
ManifestValid(path, manifest) == manifest.wellFormed /\ files[path] # <<>>

\* register: whatever was recorded for the release is replaced.
Register(release, record) ==
    catalog' = [r \in DOMAIN catalog \cup {release} |-> IF r = release THEN record ELSE catalog[r]]

Manifests == [release: Releases, checksum: {Sha256(s) : s \in SourceFiles}, wellFormed: BOOLEAN]

DatasetInit ==
    /\ files = [p \in Paths |-> <<>>]
    /\ manifests = [p \in Paths |-> <<>>]
    /\ ingest = <<>>
    /\ catalog = [r \in {} |-> <<>>]
    /\ sourced = {}
    /\ rewrites = 0

\* A publisher, or a checkout, rewrites one of the bundle's two files.
WriteSource(path, source) ==
    /\ rewrites < MaxRewrites
    /\ rewrites' = rewrites + 1
    /\ files' = [files EXCEPT ![path] = <<source>>]
    /\ sourced' = sourced \cup {<<path, source>>}
    /\ UNCHANGED <<manifests, ingest, catalog>>

WriteManifest(path, manifest) ==
    /\ rewrites < MaxRewrites
    /\ rewrites' = rewrites + 1
    /\ manifests' = [manifests EXCEPT ![path] = <<manifest>>]
    /\ UNCHANGED <<files, ingest, catalog, sourced>>

\* ingest_bundle, up to the validation of the manifest it read.
ReadManifest(path) ==
    /\ ingest = <<>>
    /\ manifests[path] # <<>>
    /\ ManifestValid(path, manifests[path][1])
    /\ ingest' = <<[path |-> path, manifest |-> manifests[path][1]]>>
    /\ UNCHANGED <<files, manifests, catalog, sourced, rewrites>>

\* Mutant of HashSource: the declared digest is taken on trust.
HashSourceTrusting ==
    /\ ingest # <<>>
    /\ ingest' = <<>>
    /\ Register(ingest[1].manifest.release, [checksum |-> ingest[1].manifest.checksum, path |-> ingest[1].path])
    /\ UNCHANGED <<files, manifests, sourced, rewrites>>

\* The rest of ingest_bundle: the source is read now, and compared with the
\* manifest read before.
HashSource ==
    /\ ingest # <<>>
    /\ ingest' = <<>>
    /\ IF Sha256(files[ingest[1].path][1]) = ingest[1].manifest.checksum
       THEN Register(ingest[1].manifest.release, [checksum |-> ingest[1].manifest.checksum, path |-> ingest[1].path])
       ELSE UNCHANGED catalog
    /\ UNCHANGED <<files, manifests, sourced, rewrites>>

DatasetNext ==
    \/ \E p \in Paths, s \in SourceFiles : WriteSource(p, s)
    \/ \E p \in Paths, m \in Manifests : WriteManifest(p, m)
    \/ \E p \in Paths : ReadManifest(p)
    \/ HashSource
-----------------------------------------------------------------------------
\* A record in the catalog names a bundle whose source had the recorded digest
\* while it was being ingested, however its publisher rewrote the two files
\* between the read of the manifest and the read of the source.
CatalogSound ==
    \A r \in DOMAIN catalog : \E s \in {pair[2] : pair \in {x \in sourced : x[1] = catalog[r].path}} :
        Sha256(s) = catalog[r].checksum

\* Line ends do not count in a text bundle: after any rewrites, its source still
\* has the recorded digest exactly when it says what was recorded.
CheckoutIndependent ==
    \A r \in DOMAIN catalog :
        LET path == catalog[r].path
        IN  (\A pair \in sourced : pair[1] = path => pair[2].text /\ pair[2].utf8) =>
                ((Sha256(files[path][1]) = catalog[r].checksum) <=> files[path][1].body = catalog[r].checksum.body)

\* A dataset name and version identify an immutable release: once registered,
\* its checksum stays.
DatasetReleaseImmutable ==
    [][\A r \in DOMAIN catalog : r \in DOMAIN catalog' /\ catalog'[r].checksum = catalog[r].checksum]_datasetVars

\* An ingested bundle is what its catalogue says, on every checkout of it.
IngestionSound == CatalogSound /\ CheckoutIndependent
=============================================================================
