---------------------------- MODULE BenchmarkRuns ----------------------------
(***************************************************************************)
(* The benchmark run lifecycle (run_lifecycle.py, BenchmarkRunService) and *)
(* the submission API in front of it (run_api.py).  A call changes the     *)
(* runs first and hands the run's knowledge-base payload to the sink       *)
(* second: outbox is the payload of the call in progress.                  *)
(***************************************************************************)
EXTENDS Integers

CONSTANTS StartKeys,     \* idempotency keys
          RetryKeys,
          Configs,       \* raw configs: [backend, target], "" = unset
          MaxCalls       \* bound on calls that reach the sink

VARIABLES runs,          \* run id -> BenchmarkRun
          start_index,
          retry_index,
          outbox,        \* the payload on its way to the sink, or NoPayload
          calls

run_vars == <<runs, start_index, retry_index, outbox, calls>>

RunStates == {"PENDING", "PREPARING", "RUNNING", "SUCCEEDED", "FAILED", "CANCELLED"}

TerminalRunStates == {"SUCCEEDED", "FAILED", "CANCELLED"}

ALLOWED_TRANSITIONS ==
    [s \in RunStates |->
        CASE s = "PENDING"   -> {"PREPARING", "CANCELLED"}
          [] s = "PREPARING" -> {"RUNNING", "FAILED", "CANCELLED"}
          [] s = "RUNNING"   -> {"SUCCEEDED", "FAILED", "CANCELLED"}
          [] OTHER           -> {}]

NoPayload == [run_id |-> <<>>]

RunsInit ==
    /\ runs = [i \in {} |-> i]
    /\ start_index = [k \in {} |-> k]
    /\ retry_index = [k \in {} |-> k]
    /\ outbox = NoPayload
    /\ calls = 0

\* The execution context fills in the target; the id is the hash of scope, key and
\* config, and a hash stands for what it is computed from.
ExecutionContext(config) ==
    [config EXCEPT !.target = IF @ = "" THEN config.backend ELSE @]

stable_run_id(scope, key, config) == <<scope, key, config>>

create_run(parent, key, config) ==
    [parent |-> parent, state |-> "PENDING", key |-> key, context |-> ExecutionContext(config)]

NoRun == <<>>

\* What _emit_kb_record hands to the sink: the record id is the run's, the digest that
\* of the source run.
Payload(id, run, source, digest) ==
    [run_id |-> id, state |-> run.state, digest |-> digest,
     parent |-> IF run.parent # NoRun THEN run.parent ELSE source]

SilentRetry(id, run, source, all) ==
    IF id[1] = "retry" /\ run.state = "PENDING" THEN NoPayload
    ELSE Payload(id, run, source, run.context)

emit_kb_record(id, run, source, all) ==
    Payload(id, run, source,
            IF source # NoRun /\ source \in DOMAIN all THEN all[source].context ELSE run.context)

With(f, x, v) == [y \in DOMAIN f \cup {x} |-> IF y = x THEN v ELSE f[y]]

\* The caller is not inside another call.
Idle == outbox = NoPayload /\ calls < MaxCalls

\* A refused call, or one answered from an index, changes nothing.
start_run(key, config) ==
    /\ Idle
    /\ key \notin DOMAIN start_index
    /\ LET id  == stable_run_id("start", key, config)
           run == create_run(NoRun, key, config)
       IN  /\ runs' = With(runs, id, run)
           /\ start_index' = With(start_index, key, id)
           /\ outbox' = emit_kb_record(id, run, NoRun, runs')
    /\ calls' = calls + 1
    /\ UNCHANGED retry_index

RetryId(id, key, config) == stable_run_id("retry", key, config)

Retryable(id, key) ==
    /\ id \in DOMAIN runs
    /\ runs[id].state \in {"FAILED", "CANCELLED"}
    /\ <<id, key>> \notin DOMAIN retry_index

retry_run(id, key) ==
    /\ Idle
    /\ Retryable(id, key)
    /\ LET config == runs[id].context
           retry  == RetryId(id, key, config)
           run    == create_run(id, key, config)
       IN  /\ runs' = With(runs, retry, run)
           /\ retry_index' = With(retry_index, <<id, key>>, retry)
           /\ outbox' = emit_kb_record(retry, run, id, runs')
    /\ calls' = calls + 1
    /\ UNCHANGED start_index

AnyTransition(id, new_state) == id \in DOMAIN runs /\ new_state # runs[id].state

RunTransitionAllowed(id, new_state) ==
    id \in DOMAIN runs /\ new_state \in ALLOWED_TRANSITIONS[runs[id].state]

transition(id, new_state) ==
    /\ Idle
    /\ RunTransitionAllowed(id, new_state)
    /\ runs' = [runs EXCEPT ![id].state = new_state]
    /\ outbox' = emit_kb_record(id, runs'[id], id, runs')
    /\ calls' = calls + 1
    /\ UNCHANGED <<start_index, retry_index>>

\* _validate_request: a target that is set names the backend.
ValidRequest(request) ==
    /\ request.idempotency_key # ""
    /\ request.config.backend # ""
    /\ request.config.target \in {"", request.config.backend}

\* A request that fails validation never reaches start_run.
BenchmarkRunApi_run(request) ==
    ValidRequest(request) /\ start_run(request.idempotency_key, request.config)

RunsNext ==
    \/ \E k \in StartKeys \cup {""}, c \in Configs :
          BenchmarkRunApi_run([idempotency_key |-> k, config |-> c])
    \/ \E id \in DOMAIN runs, k \in RetryKeys : retry_run(id, k)
    \/ \E id \in DOMAIN runs, s \in RunStates : transition(id, s)
-----------------------------------------------------------------------------
\* A run that ended stays as it ended unless a retry with its own retry key and
\* config is hashed onto its id: then it is a fresh PENDING run again.  A started run
\* is never hit.
TerminalLeftOnlyByRetry ==
    [][\A id \in DOMAIN runs :
          runs[id].state \in TerminalRunStates /\ runs'[id].state # runs[id].state =>
              /\ id[1] = "retry"
              /\ runs'[id].state = "PENDING"
              /\ \E k \in DOMAIN retry_index' \ DOMAIN retry_index :
                    retry_index'[k] = id /\ k[2] = runs[id].key]_run_vars

\* RFC 0020: "Terminal states are immutable."
TerminalImmutable ==
    [][\A id \in DOMAIN runs :
          runs[id].state \in TerminalRunStates => runs'[id] = runs[id]]_run_vars
=============================================================================
