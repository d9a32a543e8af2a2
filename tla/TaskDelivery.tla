----------------------------- MODULE TaskDelivery -----------------------------
(***************************************************************************)
(* The queue and the worker-node service together: workers lease tasks,    *)
(* start them with the lease's own fields, report heartbeats, complete and *)
(* acknowledge, in any order and with clocks of their own.  The worker's   *)
(* loop is not in the repository; this is the protocol of rfcs/0027 ("A    *)
(* worker acquires a lease, executes with an idempotency key, and          *)
(* acknowledges completion"), with every delay, repetition and crash of a  *)
(* worker that the two services can meet.                                  *)
(***************************************************************************)
EXTENDS LeaseQueue, WorkerNode

VARIABLES granted      \* the lease records handed to workers, by lease number

vars == <<queue_vars, node_vars, granted>>

Init == QueueInit /\ NodeInit /\ granted = <<>>

Submit == \E task \in Envelopes : enqueue(task) /\ UNCHANGED <<node_vars, granted>>

\* The lease record carries the task's fields to the worker.
Acquire(worker_id) ==
    \E q \in QueueNames, now \in Times :
        /\ lease(q, worker_id, now)
        /\ granted' = IF sequence' = sequence THEN granted
                      ELSE Append(granted, [worker_id |-> worker_id, lease_id |-> sequence',
                                            assignment_id |-> in_flight'[sequence'].task.assignment_id,
                                            idempotency_key |-> in_flight'[sequence'].task.idempotency_key])
        /\ UNCHANGED node_vars

Start(l) == \E now \in Times : start(granted[l], now) /\ UNCHANGED <<queue_vars, granted>>

Heartbeat(l) ==
    \E e \in DOMAIN executions, now \in Times :
        heartbeat(e, l, now) /\ UNCHANGED <<queue_vars, granted>>

Complete(l) ==
    \E e \in DOMAIN executions : complete(e, l) /\ UNCHANGED <<queue_vars, granted>>

Cancel == \E e \in DOMAIN executions : cancel(e) /\ UNCHANGED <<queue_vars, granted>>

\* A worker acknowledges when the start call for its lease, the first one or a
\* replay, names an execution that has completed; it hands the task back when
\* it likes.
Acknowledge(l) ==
    /\ KnownKey(granted[l])
    /\ Replayed(granted[l]) # 0
    /\ executions[Replayed(granted[l])].state = "Completed"
    /\ \E now \in Times : ack(l, granted[l].worker_id, now)
    /\ UNCHANGED <<node_vars, granted>>

GiveBack(l) ==
    /\ \E worker_id \in Workers, now \in Times : requeue(l, worker_id, now)
    /\ UNCHANGED <<node_vars, granted>>

Next ==
    \/ Submit
    \/ \E worker_id \in Workers : Acquire(worker_id)
    \/ \E l \in DOMAIN granted :
          Start(l) \/ Heartbeat(l) \/ Complete(l) \/ Acknowledge(l) \/ GiveBack(l)
    \/ Cancel

Spec == Init /\ [][Next]_vars

-----------------------------------------------------------------------------
\* Every variable of the two services has its type.
TypeOK ==
    /\ sequence \in Nat /\ Len(granted) = sequence
    /\ \A q \in QueueNames : \A i \in DOMAIN queues[q] : queues[q][i].queue_name = q
    /\ DOMAIN in_flight \subseteq 1 .. sequence
    /\ \A l \in DOMAIN in_flight : in_flight[l].worker_id \in Workers
    /\ \A e \in DOMAIN executions :
          executions[e].state \in {"Running", "Completed", "TimedOut", "Cancelled"}
    /\ \A k \in DOMAIN idempotency_index : idempotency_index[k] \in DOMAIN executions

\* "duplicate_delivery_with_same_idempotency_key_is_safe"
\* (worker_node_service_contract.rs:9): however often a task is redelivered, to
\* whichever worker, at most one execution of it leaves an output.
OneOutputPerTask ==
    \A d, e \in DOMAIN executions :
        /\ executions[d].idempotency_key = executions[e].idempotency_key
        /\ executions[d].output /\ executions[e].output
        => d = e

\* An acknowledged task has run: an execution of it is Completed with an output,
\* and stays so when it is cancelled, redelivered or handed back afterwards.
AckedTaskRan ==
    \A i \in DOMAIN acked :
        \E e \in DOMAIN executions :
            /\ executions[e].idempotency_key = trim(acked[i].idempotency_key)
            /\ executions[e].state = "Completed" /\ executions[e].output

\* An execution that has ended keeps its state, its output and the lease it ran
\* under, and a cancellation it was told of is never forgotten.
EndedStaysEnded ==
    [][\A e \in DOMAIN executions :
         /\ executions'[e].lease_id = executions[e].lease_id
         /\ executions[e].state # "Running" =>
               /\ executions'[e].state = executions[e].state
               /\ executions'[e].output = executions[e].output
         /\ executions[e].cancellation_intent => executions'[e].cancellation_intent]_vars

\* Queue and worker node together: of all deliveries of a task one leaves an
\* output, acknowledged tasks ran, and an execution that ended is left alone.
DeliverySound ==
    /\ []TypeOK /\ []OneOutputPerTask /\ []AckedTaskRan /\ EndedStaysEnded
=============================================================================
