----------------------------- MODULE ModelScoring -----------------------------
(***************************************************************************)
(* The scoring of compilation plans: first the two implementations of      *)
(* ScoreCompilationPlan, the compiler's (eigen_compiler/grpc_impl.py,      *)
(* NeuroSymbolicService) and the neuro-symbolic service's                  *)
(* (neuro_symbolic_service/grpc_impl.py), then the latter's model registry *)
(* (advisor_boundary.py, observability.py): threads that score requests,   *)
(* each counting and auditing what it did, and one that activates a model  *)
(* version, whose assignments the scoring threads may read between.        *)
(*                                                                         *)
(* Each implementation redacts the feature vector and checks a digest of   *)
(* it, in its own order. A vector is [json, canonical, value]: whether its *)
(* bytes are JSON, and whether they are the JSON the service itself would  *)
(* write. A value is <<"number">>, <<"list", values>>, <<"object", pairs   *)
(* of a kind of key and a value>> or <<"text", found, masked>>: the        *)
(* patterns still found in the text and those masked in it. Hashes are     *)
(* taken to be injective, so a digest is what it is a digest of.           *)
(*                                                                         *)
(* The registry file is <<>> when none is configured, else                 *)
(* <<[trusted, active, models]>>: whether its identity, policy and signing *)
(* key are as they must be, the version it names, and its entries          *)
(* [version, marked, complete, artifact, signed].                          *)
(***************************************************************************)
EXTENDS Integers, Sequences, FiniteSets, SequencesExt

CONSTANTS Scorers, PlanRequests,   \* the scoring threads, the requests
          Registries, Versions,    \* what the file may hold, what may be activated
          MaxCalls, MaxActivations \* bounds

VARIABLES registry, modelVersion, activation, snapshot, activator, activations,
          scorer, calls, denials, oks, decisions, outcomes,
          sound,     \* history: versions whose artifact was intact and signed when loaded
          emptied    \* history: the last activation named no version

\* The sets of keys that are deleted, masked or looked into.
KeyKinds == {"delete", "email", "phone", "identifier", "plain"}
Mask(what) == <<"text", {}, {what}>>
Masks(kind) ==
    CASE kind = "delete" -> Mask("all") [] kind = "email" -> Mask("email")
      [] kind = "phone" -> Mask("phone") [] kind = "identifier" -> Mask("id")
-----------------------------------------------------------------------------
CompilerPatterns == {"bearer", "header", "endpoint", "path", "email", "phone", "uuid"}

\* _redact_scalar_text, with _looks_like_stack_trace and _redact_sensitive_text.
CompilerRedactText(t) ==
    IF "stack" \in t[2] THEN Mask("all")
    ELSE <<"text", t[2] \ CompilerPatterns, t[3] \cup (t[2] \cap CompilerPatterns)>>

\* _redact_json_value: an identifier that is a list or an object is looked into.
RECURSIVE CompilerRedactValue(_)
CompilerRedactValue(v) ==
    LET entry(p) ==
            CASE p[1] = "plain" \/ (p[1] = "identifier" /\ p[2][1] \in {"object", "list"}) ->
                    <<p[1], CompilerRedactValue(p[2])>>
              [] OTHER -> <<p[1], Masks(p[1])>>
    IN  CASE v[1] = "object" -> <<"object", [i \in DOMAIN v[2] |-> entry(v[2][i])]>>
          [] v[1] = "list"   -> <<"list", [i \in DOMAIN v[2] |-> CompilerRedactValue(v[2][i])]>>
          [] v[1] = "text"   -> CompilerRedactText(v)
          [] OTHER -> v

\* _redact_feature_vector: what is not JSON is redacted as one text, what is
\* JSON is written again in canonical form.
CompilerRedact(vector) ==
    IF vector.json THEN [json |-> TRUE, canonical |-> TRUE, value |-> CompilerRedactValue(vector.value)]
    ELSE [vector EXCEPT !.value = CompilerRedactText(vector.value)]
-----------------------------------------------------------------------------
NeuroPatterns == {"bearer", "path", "email", "phone", "uuid"}

\* _redact_scalar_text.
NeuroRedactText(t) ==
    <<"text", t[2] \ NeuroPatterns, t[3] \cup (t[2] \cap NeuroPatterns)>>

\* _redact_json_value.
RECURSIVE NeuroRedactValue(_)
NeuroRedactValue(v) ==
    LET entry(p) ==
            CASE p[1] = "plain" \/ (p[1] = "identifier" /\ p[2][1] \in {"object", "list"}) ->
                    <<p[1], NeuroRedactValue(p[2])>>
              [] OTHER -> <<p[1], Masks(p[1])>>
    IN  CASE v[1] = "object" -> <<"object", [i \in DOMAIN v[2] |-> entry(v[2][i])]>>
          [] v[1] = "list"   -> <<"list", [i \in DOMAIN v[2] |-> NeuroRedactValue(v[2][i])]>>
          [] v[1] = "text"   -> NeuroRedactText(v)
          [] OTHER -> v

\* _redact_feature_vector.
NeuroRedact(vector) ==
    IF vector.json THEN [json |-> TRUE, canonical |-> TRUE, value |-> NeuroRedactValue(vector.value)]
    ELSE [vector EXCEPT !.value = NeuroRedactText(vector.value)]
-----------------------------------------------------------------------------
\* A request is [identity, version, context, binding, policy, vector, digest,
\* rawSize, size]: vector is <<>> or <<what is sent>>, digest the same of what
\* it is a digest of; rawSize and size say whether the bytes sent and
\* the bytes left by the redaction are within the limit.
IdentityCode(r) ==
    CASE r.identity = "missing" -> "UNAUTHENTICATED" [] r.identity = "wrong" -> "UNAUTHENTICATED"
      [] r.identity = "stranger" -> "PERMISSION_DENIED" [] OTHER -> "OK"
VersionCode(r) ==
    CASE r.version = "missing" -> "INVALID_ARGUMENT" [] r.version = "other" -> "FAILED_PRECONDITION" [] OTHER -> "OK"
BindingCode(r) == IF r.binding = "same" THEN "OK" ELSE "PERMISSION_DENIED"

\* The first of a list of checks that does not say OK.
FirstRefusal(codes) ==
    LET refused == SelectSeq(codes, LAMBDA c : c # "OK") IN IF refused = <<>> THEN "OK" ELSE refused[1]
Unless(ok, code) == IF ok THEN "OK" ELSE code

\* ScoreCompilationPlan of the compiler: the size and the digest are those of
\* the redacted vector, and the policy is looked at last.
CompilerCode(r) ==
    FirstRefusal(<<IdentityCode(r), VersionCode(r), Unless(r.context = "complete", "INVALID_ARGUMENT"), BindingCode(r),
                   Unless(r.vector # <<>>, "INVALID_ARGUMENT"), Unless(r.size = "within", "RESOURCE_EXHAUSTED"),
                   Unless(r.policy = "active", "FAILED_PRECONDITION"), Unless(r.digest # <<>>, "INVALID_ARGUMENT"),
                   IF r.vector = <<>> THEN "OK"
                   ELSE Unless(r.digest = <<CompilerRedact(r.vector[1])>>, "INVALID_ARGUMENT")>>)

\* ScoreCompilationPlan of the neuro-symbolic service: of the vector as sent.
NeuroCode(r) ==
    FirstRefusal(<<IdentityCode(r), VersionCode(r), Unless(r.context = "complete", "INVALID_ARGUMENT"), BindingCode(r),
                   Unless(r.policy = "active", "FAILED_PRECONDITION"), Unless(r.vector # <<>>, "INVALID_ARGUMENT"),
                   Unless(r.rawSize = "within", "RESOURCE_EXHAUSTED"), Unless(r.digest # <<>>, "INVALID_ARGUMENT"),
                   Unless(r.digest = r.vector, "INVALID_ARGUMENT")>>)

\* What the score is computed from: everything that identifies the request and
\* the redacted vector; the model is not in it.
CompilerCanonical(r) == <<r.id, r.digest, CompilerRedact(r.vector[1])>>
NeuroCanonical(r)    == <<r.id, r.digest, NeuroRedact(r.vector[1])>>

\* _decision_from_score, of a score in hundredths.
Decision(score) == IF score >= 68 THEN "ACCEPT" ELSE IF score >= 36 THEN "REVIEW" ELSE "REJECT"

\* _DECISION_TO_OUTCOME.
Outcome(decision) ==
    CASE decision = "ACCEPT" -> "accepted" [] decision = "REVIEW" -> "transformed" [] OTHER -> "rejected"
-----------------------------------------------------------------------------
registryVars == <<registry, modelVersion, activation, snapshot, activator, activations, sound, emptied>>
counterVars  == <<calls, denials, oks, decisions, outcomes>>
scoringVars  == <<registryVars, scorer, counterVars>>

Default   == "default"
Decisions == {"ACCEPT", "REVIEW", "REJECT"}
SuggestionOutcomes == {"accepted", "transformed", "rejected"}

\* models_by_version: the last entry of a version is the one that counts.
ModelEntry(reg, version) ==
    LET same == SelectSeq(reg.models, LAMBDA m : m.version = version) IN same[Len(same)]
EntryNames(reg) == {m.version : m \in ToSet(reg.models)}

\* The version the loader settles on.
Selected(reg, requested) ==
    LET marked == SelectSeq(reg.models, LAMBDA m : ModelEntry(reg, m.version).marked)
    IN  IF requested # "" THEN requested ELSE IF reg.active # "" THEN reg.active
        ELSE IF marked # <<>> THEN marked[1].version ELSE ""

Failed == [state |-> "baseline_fallback", version |-> Default, verified |-> FALSE]

\* Mutant of LoadRegistry: the artifact is hashed but the signature not checked.
LoadRegistryUnsigned(file, requested) ==
    IF file = <<>> THEN [state |-> "baseline", version |-> Default, verified |-> FALSE]
    ELSE LET reg == file[1]
             v   == Selected(reg, requested)
         IN  IF /\ reg.trusted /\ reg.models # <<>> /\ \A m \in ToSet(reg.models) : m.complete
                /\ v \in EntryNames(reg)
                /\ ModelEntry(reg, v).artifact = "intact"
             THEN [state |-> "active", version |-> v, verified |-> TRUE] ELSE Failed

\* _load_model_registry_state, with the exception its caller turns into a
\* fallback as Failed.
LoadRegistry(file, requested) ==
    IF file = <<>> THEN [state |-> "baseline", version |-> Default, verified |-> FALSE]
    ELSE LET reg == file[1]
             v   == Selected(reg, requested)
         IN  IF /\ reg.trusted /\ reg.models # <<>> /\ \A m \in ToSet(reg.models) : m.complete
                /\ v \in EntryNames(reg)
                /\ ModelEntry(reg, v).artifact = "intact" /\ ModelEntry(reg, v).signed
             THEN [state |-> "active", version |-> v, verified |-> TRUE] ELSE Failed

Soundly(file, version) ==
    /\ file # <<>> /\ version \in EntryNames(file[1])
    /\ ModelEntry(file[1], version).artifact = "intact" /\ ModelEntry(file[1], version).signed

\* NeuroSymbolicService.__init__, whose activation is over before a call comes.
ScoringInit ==
    /\ registry \in Registries
    /\ snapshot = LoadRegistry(registry, "")
    /\ modelVersion = snapshot.version /\ activation = snapshot.state
    /\ sound = {v \in Versions : v = snapshot.version /\ Soundly(registry, v)}
    /\ activator = [pc |-> "idle"] /\ activations = 0 /\ emptied = FALSE
    /\ scorer = [h \in Scorers |-> [pc |-> "idle"]] /\ calls = 0 /\ denials = 0 /\ oks = 0
    /\ decisions = [d \in Decisions |-> 0] /\ outcomes = [o \in SuggestionOutcomes |-> 0]
-----------------------------------------------------------------------------
\* The file changes under the service.
ChangeRegistry ==
    /\ activations < MaxActivations /\ \E f \in Registries \ {registry} : registry' = f
    /\ UNCHANGED <<modelVersion, activation, snapshot, activator, activations, sound, emptied, scorer, counterVars>>

\* activate_model_version (and rollback_model_version, which is the same): an
\* empty version falls back without touching the registry's state.
BeginActivation(v) ==
    /\ activator.pc = "idle" /\ activations < MaxActivations
    /\ activations' = activations + 1 /\ emptied' = (v = "")
    /\ LET loaded == LoadRegistry(registry, v)
       IN  /\ activator' = IF v = "" THEN [pc |-> "version", new |-> Failed, left |-> <<"activation">>]
                           ELSE IF loaded = Failed
                           THEN [pc |-> "version", new |-> loaded, left |-> <<"activation", "snapshot">>]
                           ELSE [pc |-> "snapshot", new |-> loaded, left |-> <<"version", "activation">>]
           /\ sound' = IF v # "" /\ loaded.version = v /\ Soundly(registry, v) THEN sound \cup {v} ELSE sound
    /\ UNCHANGED <<registry, modelVersion, activation, snapshot, scorer, counterVars>>

\* One of the assignments of _activate_model_registry, in the order its branch
\* makes them: a verified state is stored before the version, a fallback after.
Assign ==
    /\ activator.pc # "idle"
    /\ modelVersion' = IF activator.pc = "version" THEN activator.new.version ELSE modelVersion
    /\ activation'   = IF activator.pc = "activation" THEN activator.new.state ELSE activation
    /\ snapshot'     = IF activator.pc = "snapshot" THEN activator.new ELSE snapshot
    /\ activator' = IF activator.left = <<>> THEN [pc |-> "idle"]
                    ELSE [activator EXCEPT !.pc = Head(activator.left), !.left = Tail(@)]
    /\ UNCHANGED <<registry, activations, sound, emptied, scorer, counterVars>>
-----------------------------------------------------------------------------
\* Mutant of Score: a caller bound to another project is turned away uncounted.
ScoreUncounted(h, r) ==
    /\ scorer[h].pc = "idle" /\ calls < MaxCalls /\ calls' = calls + 1
    /\ IF NeuroCode(r) = "OK"
       THEN scorer' = [scorer EXCEPT ![h] = [pc |-> "count", request |-> r]] /\ denials' = denials
       ELSE /\ scorer' = [scorer EXCEPT ![h] = [pc |-> "idle"]]
            /\ denials' = IF NeuroCode(r) = "PERMISSION_DENIED" THEN denials ELSE denials + 1
    /\ UNCHANGED <<registryVars, oks, decisions, outcomes>>

\* ScoreCompilationPlan up to its checks, each of which counts its denial.
Score(h, r) ==
    /\ scorer[h].pc = "idle" /\ calls < MaxCalls /\ calls' = calls + 1
    /\ IF NeuroCode(r) = "OK"
       THEN scorer' = [scorer EXCEPT ![h] = [pc |-> "count", request |-> r]] /\ denials' = denials
       ELSE scorer' = [scorer EXCEPT ![h] = [pc |-> "idle"]] /\ denials' = denials + 1
    /\ UNCHANGED <<registryVars, oks, decisions, outcomes>>

\* record_request("ok").
CountRequest(h) ==
    /\ scorer[h].pc = "count" /\ oks' = oks + 1
    /\ scorer' = [scorer EXCEPT ![h].pc = "decide"]
    /\ UNCHANGED <<registryVars, calls, denials, decisions, outcomes>>

\* record_decision.
CountDecision(h) ==
    /\ scorer[h].pc = "decide"
    /\ decisions' = [decisions EXCEPT ![Decision(scorer[h].request.score)] = @ + 1]
    /\ scorer' = [scorer EXCEPT ![h].pc = "audit"]
    /\ UNCHANGED <<registryVars, calls, denials, oks, outcomes>>

\* append_security_audit_event with the version served at that moment. (seen
\* notes how far the activations have come, for the properties.)
Audit(h) ==
    /\ scorer[h].pc = "audit"
    /\ scorer' = [scorer EXCEPT ![h] = [pc |-> "respond", request |-> @.request, audited |-> modelVersion,
                                        seen |-> <<activations, activator>>]]
    /\ UNCHANGED <<registryVars, counterVars>>

\* The sink cannot be written: the exception ends the call.
AuditFails(h) ==
    /\ scorer[h].pc \in {"audit", "outcome"}
    /\ scorer' = [scorer EXCEPT ![h] = [pc |-> "lost", request |-> @.request, at |-> @.pc]]
    /\ UNCHANGED <<registryVars, counterVars>>

\* The response names the version served now.
Respond(h) ==
    /\ scorer[h].pc = "respond"
    /\ scorer' = [scorer EXCEPT ![h] = [pc |-> "answered", request |-> @.request, audited |-> @.audited,
                                        seen |-> @.seen, version |-> modelVersion]]
    /\ UNCHANGED <<registryVars, counterVars>>

\* The wrapper of advisor_boundary.py: record_suggestion_outcome, then its audit.
RecordOutcome(h) ==
    /\ scorer[h].pc = "answered"
    /\ outcomes' = [outcomes EXCEPT ![Outcome(Decision(scorer[h].request.score))] = @ + 1]
    /\ scorer' = [scorer EXCEPT ![h].pc = "outcome"]
    /\ UNCHANGED <<registryVars, calls, denials, oks, decisions>>

Return(h) ==
    /\ scorer[h].pc = "outcome"
    /\ scorer' = [scorer EXCEPT ![h] = [pc |-> "idle"]]
    /\ UNCHANGED <<registryVars, counterVars>>

Scoring(h) ==
    \/ CountRequest(h) \/ CountDecision(h) \/ Audit(h) \/ AuditFails(h) \/ Respond(h) \/ RecordOutcome(h) \/ Return(h)
ScoringNext ==
    \/ ChangeRegistry \/ Assign \/ \E v \in Versions \cup {""} : BeginActivation(v)
    \/ \E h \in Scorers : Scoring(h) \/ \E r \in PlanRequests : Score(h, r)
-----------------------------------------------------------------------------
ScorersAt(pcs) == {h \in Scorers : scorer[h].pc \in pcs}

\* The service fails closed: once an activation that could not be verified is
\* over, the default model is served.
FallbackServesDefault ==
    activator.pc = "idle" /\ activation = "baseline_fallback" => modelVersion = Default

\* A response names the default model or one whose artifact matched its digest
\* and whose entry was signed when it was loaded, whatever became of the file.
ServedModelVerified ==
    \A h \in ScorersAt({"answered", "outcome"}) : scorer[h].version \in sound \cup {Default}

\* Between activations the snapshot of the registry names the model served,
\* unless the last activation named no version.
SnapshotAgrees == activator.pc = "idle" /\ ~emptied => snapshot.version = modelVersion

\* Every call is counted once, as a denial or as a request that was scored.
DenialAccounting == calls = denials + oks + Cardinality(ScorersAt({"count"}))

\* The outcomes the boundary counts are the decisions the service counted, but
\* for those still on their way and those lost with a failed audit.
OutcomePerDecision ==
    \A d \in Decisions :
        decisions[d] - outcomes[Outcome(d)] =
            Cardinality({h \in ScorersAt({"audit", "respond", "answered", "lost"}) :
                            /\ Decision(scorer[h].request.score) = d
                            /\ scorer[h].pc = "lost" => scorer[h].at = "audit"})

\* The response of a call names the version its audit event named, unless an
\* activation took a step between the two.
AuditNamesServed ==
    \A h \in ScorersAt({"answered"}) :
        scorer[h].version = scorer[h].audited \/ scorer[h].seen # <<activations, activator>>

Asked == {scorer[h].request : h \in Scorers \ ScorersAt({"idle"})}

\* A request both services take is one with nothing left to redact: the one
\* wants the digest of the bytes sent and the other of the bytes redacted, and
\* the compiler masks whatever the neuro-symbolic service masks. Both then score
\* the same content.
BothAcceptOnlyMinimal ==
    \A r \in Asked : CompilerCode(r) = "OK" =>
        /\ CompilerRedact(r.vector[1]) = r.vector[1]
        /\ CompilerCanonical(r) = NeuroCanonical(r)

\* Redaction is stable: what the compiler's redaction leaves is left alone by
\* both when it is sent again, so a client can always find an accepted form.
RedactionStable ==
    \A r \in Asked : LET least == CompilerRedact(r.vector[1])
                     IN  CompilerRedact(least) = least /\ NeuroRedact(least) = least

\* Whatever activations fail or fall back next to running calls, the model that
\* answers is a verified one, and the registry snapshot and the audit name it.
ModelServed ==
    /\ FallbackServesDefault /\ ServedModelVerified /\ SnapshotAgrees
    /\ AuditNamesServed

\* Every ScoreOptimizationPlan call ends as one counted outcome, both services
\* accept only minimal features, and redacting twice is redacting once.
DecisionsAddUp ==
    /\ DenialAccounting /\ OutcomePerDecision /\ BothAcceptOnlyMinimal
    /\ RedactionStable
=============================================================================
