------------------------------ MODULE WorkerNode ------------------------------
(***************************************************************************)
(* The worker-node execution service (resource-manager lib.rs,             *)
(* WorkerNodeService): idempotent start, heartbeat with a timeout, complete*)
(* and cancel.  Worker and lease ids come from the queue, which trims or   *)
(* generates them; assignment ids and idempotency keys come from callers.  *)
(***************************************************************************)
EXTENDS Naturals, Sequences

CONSTANTS HeartbeatTimeout

VARIABLES executions,          \* the executions in the order they were started
          idempotency_index    \* idempotency key -> its execution

node_vars == <<executions, idempotency_index>>

trimmed(name) == [name EXCEPT !.padded = FALSE]

NodeInit ==
    /\ executions = <<>>
    /\ idempotency_index = <<>>

Execution(request, now) ==
    [assignment_id |-> trimmed(request.assignment_id), worker_id |-> request.worker_id,
     lease_id |-> request.lease_id, idempotency_key |-> trimmed(request.idempotency_key),
     state |-> "Running", last_heartbeat |-> now, output |-> FALSE,
     cancellation_intent |-> FALSE]

\* What start answers for a key it knows: the execution (idempotent_replay), or
\* 0 for IdempotencyConflict.
Replayed(request) ==
    LET e == idempotency_index[request.idempotency_key] IN
    IF /\ executions[e].assignment_id = request.assignment_id
       /\ executions[e].worker_id = request.worker_id
    THEN e ELSE 0

KnownKey(request) == request.idempotency_key \in DOMAIN idempotency_index

\* The key is looked up as it came and recorded trimmed.
start(request, now) ==
    LET key == trimmed(request.idempotency_key)
        e   == Len(executions) + 1
    IN
    /\ ~KnownKey(request)
    /\ executions' = Append(executions, Execution(request, now))
    /\ idempotency_index' =
          [k \in DOMAIN idempotency_index \cup {key} |->
              IF k = key THEN e ELSE idempotency_index[k]]

\* The guards heartbeat and complete share.
RunsUnder(e, lease_id) ==
    /\ e \in DOMAIN executions
    /\ executions[e].lease_id = lease_id
    /\ executions[e].state = "Running"

\* now - last_heartbeat saturates at zero when the caller's clock is behind.
heartbeat(e, lease_id, now) ==
    /\ RunsUnder(e, lease_id)
    /\ executions' =
          [executions EXCEPT ![e] =
              IF now > @.last_heartbeat + HeartbeatTimeout
              THEN [@ EXCEPT !.state = "TimedOut"]
              ELSE [@ EXCEPT !.last_heartbeat = now]]
    /\ UNCHANGED idempotency_index

complete(e, lease_id) ==
    /\ RunsUnder(e, lease_id)
    /\ executions' =
          [executions EXCEPT ![e] =
              IF @.cancellation_intent
              THEN [@ EXCEPT !.state = "Cancelled"]
              ELSE [@ EXCEPT !.state = "Completed", !.output = TRUE]]
    /\ UNCHANGED idempotency_index

\* Mutant of cancel: a finished execution becomes Cancelled as well.
cancel_any_state(e) ==
    /\ e \in DOMAIN executions
    /\ executions' = [executions EXCEPT ![e].cancellation_intent = TRUE,
                                        ![e].state = "Cancelled"]
    /\ UNCHANGED idempotency_index

cancel(e) ==
    /\ e \in DOMAIN executions
    /\ executions' = [executions EXCEPT ![e].cancellation_intent = TRUE,
                                        ![e].state = IF @ = "Running" THEN "Cancelled" ELSE @]
    /\ UNCHANGED idempotency_index
=============================================================================
