-------------------------- MODULE TrainingManifest --------------------------
(***************************************************************************)
(* Production traces into the learning datasets of the knowledge base:     *)
(* prepare_training_dataset_manifest (production_trace_training.py) makes  *)
(* a manifest of a trace bundle, and ingest_training_dataset               *)
(* (knowledge_base.py) re-checks it before it is stored (LearningRegistry).*)
(* The two run back to back, or the manifest lies in a file in between.    *)
(*                                                                         *)
(* Strings are abstracted to how they are spelled: "clean", "padded" (with *)
(* white space to strip), "none" (the word) and "blank". A digest is what  *)
(* it is the digest of. A scope stands for the tenant, the project and the *)
(* policy version of a part: "absent", "blank", "own" or "other".          *)
(***************************************************************************)
EXTENDS Integers, Sequences, FiniteSets, SequencesExt

CONSTANTS Bundles, Edits, Callers, Policies,
          MaxEdits    \* parts of a manifest that differ from the prepared one

VARIABLES bundle,     \* the production trace bundle
          manifest,   \* <<>> or <<the manifest on its way>>
          prepared,   \* history: <<>> or <<the manifest as it was prepared>>
          policy,     \* the version of the active policy snapshot
          stored      \* <<>> or <<what the knowledge base admits>>

manifestVars == <<bundle, manifest, prepared, policy, stored>>

\* _normalize_replay_ids and _audit_string_list: the distinct ids, in order.
Distinct(ids) == FoldLeft(LAMBDA seen, id : IF Contains(seen, id) THEN seen ELSE Append(seen, id), <<>>, ids)
-----------------------------------------------------------------------------
\* A provenance or redaction block is [spelled, extra, digest]; extra says
\* whether it has keys besides the ones that are kept.
BlockContent(block) == <<block.spelled, block.extra>>

\* _normalize_provenance, _normalize_record_provenance, _normalize_redaction:
\* what they accept.
BlockPrepares(block) == block.spelled \in {"clean", "padded"} /\ block.digest = BlockContent(block)

\* What they return: stripped strings, the kept keys, the digest as it was given.
NormalizedBlock(block) == [spelled |-> "clean", extra |-> FALSE, digest |-> block.digest]

\* The same checks in ingest_training_dataset, where "none" is a word.
BlockAdmitted(block) == block.spelled # "blank" /\ block.digest = BlockContent(block)

\* _require_string of a scope that defaults to the bundle's, and what
\* ingest_training_dataset makes of it.
ScopePrepares(scope) == scope \in {"absent", "own"}
ScopeAdmitted(scope) == scope # "other"

\* A payload holds nothing to redact, something both sides redact ("secret"), or
\* a path under a secret directory, which the preparing side alone knows of.
PayloadPrepares(payload) == payload = "plain"
PayloadAdmitted(payload) == payload # "secret"
-----------------------------------------------------------------------------
\* _normalize_trace_selection.
SelectionPrepares(b, caller) ==
    /\ b.selection.spelled \in {"clean", "padded"}
    /\ b.selection.traces # <<>> /\ b.selection.replays # <<>>
    /\ ScopePrepares(b.selection.scope)
    /\ b.selection.by = caller

\* Approved replay ids default to the selected ones.
ApprovedReplays(approval, selected) == IF approval.replays = <<>> THEN selected ELSE Distinct(approval.replays)

\* _normalize_trace_approval.
ApprovalPrepares(b) ==
    /\ b.approval.spelled \in {"clean", "padded"}
    /\ b.approval.decision = "approved"
    /\ ScopePrepares(b.approval.scope)
    /\ ToSet(b.selection.replays) \subseteq ToSet(ApprovedReplays(b.approval, Distinct(b.selection.replays)))

\* _normalize_trace_record.
RecordPrepares(record) ==
    /\ ScopePrepares(record.scope)
    /\ PayloadPrepares(record.payload) /\ record.digest = record.payload
    /\ BlockPrepares(record.provenance) /\ BlockPrepares(record.redaction)

NormalizedRecord(record) ==
    [record EXCEPT !.scope = "own", !.provenance = NormalizedBlock(@), !.redaction = NormalizedBlock(@)]

\* The records are those of the selected traces, in that order, and the
\* selection names all their replays.
RecordsSelected(b) ==
    /\ [i \in DOMAIN b.records |-> b.records[i].trace] = Distinct(b.selection.traces)
    /\ {r.replay : r \in ToSet(b.records)} \subseteq ToSet(b.selection.replays)

\* The normalised manifest of ingest_training_dataset, which is what both sides
\* take the manifest's digest of.
ManifestContent(m) ==
    [owner |-> m.owner, policy |-> m.policy, scope |-> "own",
     selection |-> [m.selection EXCEPT !.spelled = "clean", !.scope = "own", !.traces = Distinct(@), !.replays = Distinct(@)],
     approval |-> [m.approval EXCEPT !.spelled = "clean", !.scope = "own",
                                     !.replays = ApprovedReplays(m.approval, Distinct(m.selection.replays))],
     provenance |-> NormalizedBlock(m.provenance), redaction |-> NormalizedBlock(m.redaction),
     records |-> [i \in DOMAIN m.records |->
                     [m.records[i] EXCEPT !.provenance = NormalizedBlock(@), !.redaction = NormalizedBlock(@)]]]

\* prepare_training_dataset_manifest: what it accepts and what it returns.
Prepares(b, caller) ==
    /\ b.owner = caller
    /\ SelectionPrepares(b, caller) /\ ApprovalPrepares(b)
    /\ BlockPrepares(b.provenance) /\ BlockPrepares(b.redaction)
    /\ b.records # <<>> /\ \A r \in ToSet(b.records) : RecordPrepares(r)
    /\ RecordsSelected(b)

Prepared(b) ==
    LET m == ManifestContent([b EXCEPT !.records = [i \in DOMAIN b.records |-> NormalizedRecord(b.records[i])]])
    IN  [content |-> m, digest |-> ManifestContent(m)]

\* Its checks of one part after the other; the selection and the approval are
\* the manifest's, and nothing relates the records to them.
PartsAdmitted(c, caller, active) ==
    /\ c.policy = active /\ c.owner = caller
    /\ BlockAdmitted(c.provenance) /\ BlockAdmitted(c.redaction)
    /\ c.selection.spelled # "blank" /\ c.selection.traces # <<>> /\ c.selection.replays # <<>>
    /\ ScopeAdmitted(c.selection.scope)
    /\ c.approval.spelled # "blank" /\ c.approval.decision = "approved" /\ ScopeAdmitted(c.approval.scope)
    /\ ToSet(c.selection.replays) \subseteq ToSet(ApprovedReplays(c.approval, Distinct(c.selection.replays)))
    /\ c.records # <<>>
    /\ \A r \in ToSet(c.records) :
          /\ PayloadAdmitted(r.payload) /\ r.digest = r.payload
          /\ BlockAdmitted(r.provenance) /\ BlockAdmitted(r.redaction)

\* Mutant of Admits: the manifest's own digest is not compared.
AdmitsUndigested(m, caller, active) == PartsAdmitted(m.content, caller, active)

\* ingest_training_dataset, up to the lock.
Admits(m, caller, active) == PartsAdmitted(m.content, caller, active) /\ ManifestContent(m.content) = m.digest
-----------------------------------------------------------------------------
ManifestInit ==
    /\ bundle \in Bundles
    /\ manifest = <<>> /\ prepared = <<>> /\ stored = <<>>
    /\ policy \in Policies

Prepare(caller) ==
    /\ manifest = <<>> /\ Prepares(bundle, caller)
    /\ manifest' = <<Prepared(bundle)>>
    /\ prepared' = manifest'
    /\ UNCHANGED <<bundle, policy, stored>>

\* The manifest's file is edited and its digest is not: an edit replaces one of
\* the parts of the content.
Edit(part, value) ==
    /\ manifest # <<>> /\ stored = <<>>
    /\ Cardinality({p \in DOMAIN prepared[1].content : manifest[1].content[p] # prepared[1].content[p]}) < MaxEdits
    /\ manifest' = <<[manifest[1] EXCEPT !.content[part] = value]>>
    /\ UNCHANGED <<bundle, prepared, policy, stored>>

\* Another policy snapshot becomes active.
ActivatePolicy(p) ==
    /\ stored = <<>> /\ p # policy
    /\ policy' = p
    /\ UNCHANGED <<bundle, manifest, prepared, stored>>

Ingest(caller) ==
    /\ manifest # <<>> /\ stored = <<>>
    /\ Admits(manifest[1], caller, policy)
    /\ stored' = <<[content |-> ManifestContent(manifest[1].content), policy |-> policy]>>
    /\ UNCHANGED <<bundle, manifest, prepared, policy>>

ManifestNext ==
    \/ \E c \in Callers : Prepare(c)
    \/ \E e \in Edits : Edit(e.part, e.value)
    \/ \E p \in Policies : ActivatePolicy(p)
    \/ \E c \in Callers : Ingest(c)
-----------------------------------------------------------------------------
Blocks == {bundle.provenance, bundle.redaction}
          \cup UNION {{r.provenance, r.redaction} : r \in ToSet(bundle.records)}

\* What was prepared is admitted to the same caller under the bundle's policy,
\* exactly when the bundle's provenance and redaction blocks had nothing to
\* strip or to drop: the others keep the digest of what they were, and the
\* second check refuses what the first let pass.
PreparedAdmitted ==
    prepared # <<>> =>
        (Admits(prepared[1], bundle.owner, bundle.policy)
            <=> \A block \in Blocks : block.spelled = "clean" /\ ~block.extra)

\* Whatever happened to the manifest's file on the way, what is stored is what
\* was prepared, and the policy it was prepared under is the active one.
StoredAsPrepared ==
    stored # <<>> => stored[1].content = prepared[1].content /\ stored[1].policy = bundle.policy

\* Every stored record is of a selected trace, no two of the same, and its
\* replay was selected and approved.
StoredCovered ==
    stored # <<>> =>
        LET c == stored[1].content
        IN  /\ \A i, j \in DOMAIN c.records : i # j => c.records[i].trace # c.records[j].trace
            /\ \A r \in ToSet(c.records) :
                  /\ r.trace \in ToSet(bundle.selection.traces)
                  /\ r.replay \in ToSet(bundle.selection.replays)
                  /\ bundle.approval.replays = <<>> \/ r.replay \in ToSet(bundle.approval.replays)

\* A training manifest that prepare made is admitted by ingest, is stored as it
\* was made, and covers only approved records.
ManifestsSound == PreparedAdmitted /\ StoredAsPrepared /\ StoredCovered
=============================================================================
