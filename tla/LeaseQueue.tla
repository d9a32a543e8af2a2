------------------------------ MODULE LeaseQueue ------------------------------
(***************************************************************************)
(* The distributed task queue (resource-manager lib.rs, QueueAdapter and   *)
(* InMemoryQueueAdapter): tasks are leased to workers until a visibility   *)
(* timeout, acknowledged, requeued or swept when the lease has run out, and*)
(* dead-lettered when their attempts are used up.  Every call takes the    *)
(* caller's own now_ms, so time here is an argument, not a clock.          *)
(***************************************************************************)
EXTENDS Naturals, Sequences, FiniteSets, Functions

CONSTANTS Envelopes,     \* the QueueTaskEnvelopes callers enqueue
          Workers,
          Times,         \* values of now_ms, in units of the timeouts
          MaxEnqueues    \* bound on accepted enqueue calls

VARIABLES sequence,      \* leases handed out so far; the last lease's number
          queues,        \* queue name -> waiting tasks
          in_flight,     \* lease number -> InFlightLease
          dead_letters,
          metrics,
          acked          \* history: tasks whose acknowledgement was accepted

queue_vars == <<sequence, queues, in_flight, dead_letters, metrics, acked>>

\* A name is its text and whether white space surrounds it.
Name == [text : STRING, padded : BOOLEAN]

trim(name) == [name EXCEPT !.padded = FALSE]

QueueTaskEnvelope ==
    [task_id : STRING, queue_name : Name, assignment_id : Name, idempotency_key : Name,
     attempt : Nat, max_attempts : Nat, visibility_timeout : Nat]

ASSUME QueueAssumption ==
    /\ Envelopes \subseteq QueueTaskEnvelope
    /\ Times \subseteq Nat
    /\ MaxEnqueues \in Nat

QueueNames == {e.queue_name : e \in Envelopes} \cup {trim(e.queue_name) : e \in Envelopes}

validate_task(task) ==
    /\ task.max_attempts # 0
    /\ task.attempt \in 1 .. task.max_attempts
    /\ task.visibility_timeout # 0

QueueInit ==
    /\ sequence = 0
    /\ queues = [q \in QueueNames |-> <<>>]
    /\ in_flight = <<>>
    /\ dead_letters = <<>>
    /\ metrics = [enqueued |-> 0, leased |-> 0, redelivered |-> 0, dead |-> 0]
    /\ acked = <<>>
-----------------------------------------------------------------------------
(***************************************************************************)
(* sweep_expired_leases and queue_or_dead_letter.  A call takes a set of   *)
(* leases out of flight, in the order of their expiry (then of their       *)
(* number), and hands their tasks back to their queues or to the dead      *)
(* letters.  The lease requeue gives back after its sweep has not expired, *)
(* so that order puts it last.                                             *)
(***************************************************************************)
Expired(now) == {l \in DOMAIN in_flight : now >= in_flight[l].expires_at}

lease_expiry(task, now) == now + task.visibility_timeout

ExpiryOrder(l, m) ==
    \/ in_flight[l].expires_at < in_flight[m].expires_at
    \/ in_flight[l].expires_at = in_flight[m].expires_at /\ l < m

InOrder(leases) ==
    CHOOSE s \in Bijection(1 .. Cardinality(leases), leases) :
        \A i, j \in 1 .. Cardinality(leases) : i < j => ExpiryOrder(s[i], s[j])

Exhausted(l) == in_flight[l].task.attempt >= in_flight[l].task.max_attempts

Redelivery(task) == [task EXCEPT !.attempt = @ + 1]

\* The leases of a set whose tasks go back to queue q, and those whose tasks are
\* out of attempts.
Again(leases, q) == {l \in leases : ~Exhausted(l) /\ in_flight[l].task.queue_name = q}

Dead(leases) == {l \in leases : Exhausted(l)}

\* The places queue_or_dead_letter writes, for the leases taken out.
QueuesWith(leases) ==
    [q \in QueueNames |->
        LET again == InOrder(Again(leases, q))
        IN  queues[q] \o [i \in 1 .. Cardinality(Again(leases, q)) |->
                             Redelivery(in_flight[again[i]].task)]]

DeadLettersWith(leases, now) ==
    LET dead == InOrder(Dead(leases))
    IN  dead_letters \o [i \in 1 .. Cardinality(Dead(leases)) |->
            [task |-> in_flight[dead[i]].task,
             reason |-> IF dead[i] \in Expired(now) THEN "lease-expired" ELSE "requeued"]]

MetricsWith(leases) ==
    [metrics EXCEPT !.redelivered = @ + Cardinality(leases \ Dead(leases)),
                    !.dead = @ + Cardinality(Dead(leases))]

InFlightWithout(leases) == [l \in DOMAIN in_flight \ leases |-> in_flight[l]]
-----------------------------------------------------------------------------
\* The task id is waiting in its queue or leased from it.
Known(task) ==
    \/ \E i \in DOMAIN queues[task.queue_name] :
          queues[task.queue_name][i].task_id = task.task_id
    \/ \E l \in DOMAIN in_flight :
          /\ in_flight[l].task.task_id = task.task_id
          /\ in_flight[l].task.queue_name = task.queue_name

enqueue(task) ==
    /\ metrics.enqueued < MaxEnqueues
    /\ validate_task(task)
    /\ ~Known(task)
    /\ queues' = [queues EXCEPT ![task.queue_name] = Append(@, task)]
    /\ metrics' = [metrics EXCEPT !.enqueued = @ + 1]
    /\ UNCHANGED <<sequence, in_flight, dead_letters, acked>>

\* lease trims the name it is given; enqueue has stored the task under the
\* name as it came.
lease(queue_name, worker_id, now) ==
    LET gone    == Expired(now)
        swept   == QueuesWith(gone)
        q       == trim(queue_name)
        waiting == IF q \in QueueNames THEN swept[q] ELSE <<>>
        live    == InFlightWithout(gone)
    IN
    /\ dead_letters' = DeadLettersWith(gone, now)
    /\ IF waiting = <<>>
       THEN /\ queues' = swept
            /\ in_flight' = live
            /\ metrics' = MetricsWith(gone)
            /\ UNCHANGED sequence
       ELSE /\ queues' = [swept EXCEPT ![q] = Tail(@)]
            /\ sequence' = sequence + 1
            /\ in_flight' = [l \in DOMAIN live \cup {sequence + 1} |->
                               IF l = sequence + 1
                               THEN [task |-> Head(waiting), worker_id |-> worker_id,
                                     expires_at |-> lease_expiry(Head(waiting), now)]
                               ELSE live[l]]
            /\ metrics' = [MetricsWith(gone) EXCEPT !.leased = @ + 1]
    /\ UNCHANGED acked

\* The lease ack and requeue find after their sweep, if it is the caller's.
Owned(l, worker_id, now) ==
    {m \in DOMAIN in_flight \ Expired(now) : m = l /\ in_flight[m].worker_id = worker_id}

\* ack and requeue sweep first, and keep the sweep when they refuse the call.
ack(l, worker_id, now) ==
    LET gone == Expired(now)
        done == Owned(l, worker_id, now)
    IN
    /\ in_flight' = InFlightWithout(gone \cup done)
    /\ queues' = QueuesWith(gone)
    /\ dead_letters' = DeadLettersWith(gone, now)
    /\ metrics' = MetricsWith(gone)
    /\ acked' = IF done = {} THEN acked ELSE Append(acked, in_flight[l].task)
    /\ UNCHANGED sequence

\* Mutant of requeue: a lease of another worker is put back as the caller's.
requeue_as_caller(l, worker_id, now) ==
    LET gone == Expired(now) \cup Owned(l, worker_id, now)
        kept == InFlightWithout(gone)
    IN
    /\ in_flight' = [m \in DOMAIN kept |->
                        IF m = l THEN [kept[m] EXCEPT !.worker_id = worker_id] ELSE kept[m]]
    /\ queues' = QueuesWith(gone)
    /\ dead_letters' = DeadLettersWith(gone, now)
    /\ metrics' = MetricsWith(gone)
    /\ UNCHANGED <<sequence, acked>>

requeue(l, worker_id, now) ==
    LET gone == Expired(now) \cup Owned(l, worker_id, now)
    IN
    /\ in_flight' = InFlightWithout(gone)
    /\ queues' = QueuesWith(gone)
    /\ dead_letters' = DeadLettersWith(gone, now)
    /\ metrics' = MetricsWith(gone)
    /\ UNCHANGED <<sequence, acked>>
-----------------------------------------------------------------------------
\* Tasks waiting in some queue, as <<queue, position>>.
Waiting == UNION {{q} \X DOMAIN queues[q] : q \in QueueNames}

\* A task id is in one place of its queue: waiting once or leased once, so no
\* two workers hold live leases on the same task, however leases expire, are
\* requeued and are enqueued again (the DuplicateTaskId check of enqueue).
NoDuplicateDelivery ==
    /\ \A a, b \in Waiting :
          queues[a[1]][a[2]].task_id = queues[b[1]][b[2]].task_id /\ a[1] = b[1] => a = b
    /\ \A l \in DOMAIN in_flight :
          LET task == in_flight[l].task IN
          /\ \A a \in Waiting :
                a[1] = task.queue_name => queues[a[1]][a[2]].task_id # task.task_id
          /\ \A m \in DOMAIN in_flight :
                /\ in_flight[m].task.task_id = task.task_id
                /\ in_flight[m].task.queue_name = task.queue_name
                => l = m

\* No task is lost or counted twice: what was enqueued is waiting, leased,
\* acknowledged or dead-lettered, and the four metrics agree with it.
Accounting ==
    /\ metrics.enqueued =
          Cardinality(Waiting) + Cardinality(DOMAIN in_flight) + Len(acked) + Len(dead_letters)
    /\ metrics.leased =
          Cardinality(DOMAIN in_flight) + Len(acked) + metrics.redelivered + metrics.dead
    /\ metrics.dead = Len(dead_letters)
    /\ metrics.leased = sequence

\* A task is delivered within its attempts, and is dead-lettered only at the
\* last of them.
RetryBudget ==
    /\ \A a \in Waiting : validate_task(queues[a[1]][a[2]])
    /\ \A l \in DOMAIN in_flight : validate_task(in_flight[l].task)
    /\ \A i \in DOMAIN dead_letters :
          dead_letters[i].task.attempt = dead_letters[i].task.max_attempts

\* A lease that has ended (acknowledged, requeued or swept) never comes back,
\* and while it lasts its task, its worker and its expiry stay what they were.
LeasesEndOnce ==
    [][\A l \in 1 .. sequence :
         l \in DOMAIN in_flight' => l \in DOMAIN in_flight /\ in_flight'[l] = in_flight[l]]_queue_vars

\* InMemoryQueueAdapter over every sequence of enqueue, lease, expiry, ack and
\* requeue: a task is never held twice or lost, keeps to its retry budget, and a
\* lease that ended is never usable again.
QueueSound ==
    /\ []NoDuplicateDelivery /\ []Accounting /\ []RetryBudget /\ LeasesEndOnce
=============================================================================
