----------------------------- MODULE Tasks_proofs -----------------------------
(***************************************************************************)
(* TLAPS proofs about TaskDelivery, for any envelopes, workers, clocks and *)
(* numbers of calls: the queue loses no task and holds none twice, and the *)
(* worker node leaves one output per task.                                 *)
(***************************************************************************)
EXTENDS TaskDelivery, FiniteSums

\* The leaves are proved by Zenon but for those that cite another prover.
USE Zenon

-----------------------------------------------------------------------------
(***************************************************************************)
(* The inductive invariant.                                                *)
(***************************************************************************)
\* What waits in a queue or is leased: an envelope validate_task accepts, with
\* the names of one that was enqueued.
ValidTask == {t \in QueueTaskEnvelope :
            /\ validate_task(t)
            /\ t.queue_name \in QueueNames
            /\ \E e \in Envelopes : t.idempotency_key = e.idempotency_key}

Lease == [task : ValidTask, worker_id : Workers, expires_at : Nat]

WaitingIn(Q) == UNION {{q} \X DOMAIN Q[q] : q \in QueueNames}

\* Queues Q and leases F, the last of number n, have their types, and every task
\* is in the queue of its name.
Placed(Q, F, n) ==
    /\ Q \in [QueueNames -> Seq(ValidTask)]
    /\ F \in [DOMAIN F -> Lease]
    /\ n \in Nat /\ DOMAIN F \subseteq 1 .. n
    /\ \A q \in QueueNames : \A i \in DOMAIN Q[q] : Q[q][i].queue_name = q

\* A task id is once in its queue or its leases.
Single(Q, F) ==
    /\ \A q \in QueueNames : \A i, j \in DOMAIN Q[q] : Q[q][i].task_id = Q[q][j].task_id => i = j
    /\ \A q \in QueueNames : \A i \in DOMAIN Q[q] : \A l \in DOMAIN F :
          F[l].task.queue_name = q => Q[q][i].task_id # F[l].task.task_id
    /\ \A l, m \in DOMAIN F :
          /\ F[l].task.task_id = F[m].task.task_id
          /\ F[l].task.queue_name = F[m].task.queue_name
          => l = m

Metrics == [enqueued : Nat, leased : Nat, redelivered : Nat, dead : Nat]

DeadLetter == [task : ValidTask, reason : {"lease-expired", "requeued"}]

\* What was enqueued waits in W, is leased in D, acknowledged or dead-lettered.
Balanced(W, D, n, dead, m, done) ==
    /\ m.enqueued = Cardinality(W) + Cardinality(D) + Len(done) + Len(dead)
    /\ m.leased = Cardinality(D) + Len(done) + m.redelivered + m.dead
    /\ m.dead = Len(dead)
    /\ m.leased = n

DeadLetters(dead) ==
    /\ dead \in Seq(DeadLetter)
    /\ \A i \in DOMAIN dead : dead[i].task.attempt = dead[i].task.max_attempts

QueueGood(Q, F, n, dead, m, done) ==
    /\ Placed(Q, F, n) /\ Single(Q, F)
    /\ IsFiniteSet(WaitingIn(Q))
    /\ DeadLetters(dead) /\ m \in Metrics /\ done \in Seq(ValidTask)
    /\ Balanced(WaitingIn(Q), DOMAIN F, n, dead, m, done)

QueueInv == QueueGood(queues, in_flight, sequence, dead_letters, metrics, acked)

ExecutionRecord ==
    [assignment_id : Name, worker_id : Workers, lease_id : Nat, idempotency_key : Name,
     state : {"Running", "Completed", "TimedOut", "Cancelled"}, last_heartbeat : Nat,
     output : BOOLEAN, cancellation_intent : BOOLEAN]

Grant == [worker_id : Workers, lease_id : Nat, assignment_id : Name, idempotency_key : Name]

\* The keys of the index are trimmed and lead to an execution under the key, and
\* exactly a completed execution has an output.
NodeInv ==
    /\ executions \in Seq(ExecutionRecord)
    /\ \A k \in DOMAIN idempotency_index :
          /\ idempotency_index[k] \in DOMAIN executions
          /\ executions[idempotency_index[k]].idempotency_key = k
          /\ trim(k) = k
    /\ \A e \in DOMAIN executions : executions[e].output <=> executions[e].state = "Completed"

\* A lease record has the key of the leased task, as some envelope wrote it.
GrantInv ==
    /\ granted \in Seq(Grant) /\ Len(granted) = sequence
    /\ \A l \in DOMAIN in_flight : granted[l].idempotency_key = in_flight[l].task.idempotency_key
    /\ \A l \in DOMAIN granted : \E e \in Envelopes : granted[l].idempotency_key = e.idempotency_key

Inv == QueueInv /\ NodeInv /\ GrantInv /\ AckedTaskRan

\* Callers write idempotency keys without white space around them.
KeysTrimmed == \A e \in Envelopes : trim(e.idempotency_key) = e.idempotency_key

\* Then the index finds every execution under its key.
KeysInv ==
    \A e \in DOMAIN executions :
        /\ executions[e].idempotency_key \in DOMAIN idempotency_index
        /\ idempotency_index[executions[e].idempotency_key] = e

-----------------------------------------------------------------------------
(***************************************************************************)
(* Names, sequences and listed sets.                                       *)
(***************************************************************************)
\* Trimming a name gives a name, and trimming it again changes nothing.
LEMMA TrimFacts ==
    ASSUME NEW name \in Name
    PROVE  trim(name) \in Name /\ trim(trim(name)) = trim(name) /\ trimmed(name) = trim(name)
<1>1. \A n \in Name : trim(n) \in Name /\ trim(n).text = n.text /\ trim(n).padded = FALSE
  BY DEF Name, trim
<1>2. \A n, o \in Name : n.text = o.text /\ n.padded = o.padded => n = o
  BY SMT DEF Name
<1>3. trimmed(name) = trim(name)
  BY DEF trim, trimmed
<1> QED BY <1>1, <1>2, <1>3

\* A function on an initial segment appended to a sequence.
LEMMA ConcatFacts ==
    ASSUME NEW S, NEW s \in Seq(S), NEW k \in Nat, NEW f \in [1 .. k -> S]
    PROVE  /\ s \o f \in Seq(S)
           /\ Len(s) \in Nat
           /\ Len(s \o f) = Len(s) + k
           /\ DOMAIN s = 1 .. Len(s)
           /\ DOMAIN (s \o f) = 1 .. (Len(s) + k)
           /\ \A i \in 1 .. Len(s) : (s \o f)[i] = s[i]
           /\ \A i \in (Len(s) + 1) .. (Len(s) + k) : i - Len(s) \in 1 .. k /\ (s \o f)[i] = f[i - Len(s)]
<1>1. f \in Seq(S) /\ Len(f) = k
  BY SMT
<1> QED BY SMT, <1>1

\* Appending one element.
LEMMA AppendFacts ==
    ASSUME NEW S, NEW s \in Seq(S), NEW x \in S
    PROVE  /\ Append(s, x) \in Seq(S)
           /\ Len(s) \in Nat /\ DOMAIN s = 1 .. Len(s)
           /\ Len(Append(s, x)) = Len(s) + 1
           /\ DOMAIN Append(s, x) = DOMAIN s \cup {Len(s) + 1}
           /\ Len(s) + 1 \notin DOMAIN s
           /\ Append(s, x)[Len(s) + 1] = x
           /\ \A i \in DOMAIN s : Append(s, x)[i] = s[i]
BY SMT

\* Taking the first element away.
LEMMA TailFacts ==
    ASSUME NEW S, NEW s \in Seq(S), s # <<>>
    PROVE  /\ Tail(s) \in Seq(S) /\ Head(s) \in S /\ Head(s) = s[1] /\ 1 \in DOMAIN s
           /\ Len(s) \in Nat /\ Len(Tail(s)) = Len(s) - 1
           /\ DOMAIN s = 1 .. Len(s) /\ DOMAIN Tail(s) = 1 .. (Len(s) - 1)
           /\ \A i \in DOMAIN Tail(s) : i + 1 \in DOMAIN s /\ i + 1 # 1 /\ Tail(s)[i] = s[i + 1]
           /\ \A i, j \in DOMAIN Tail(s) : i + 1 = j + 1 => i = j
BY SMT

\* A finite set of leases can be listed in the order of their expiry.
LEMMA OrderExists ==
    ASSUME NEW S, IsFiniteSet(S), S \subseteq Nat, \A l \in S : in_flight[l].expires_at \in Nat
    PROVE  \E s \in Bijection(1 .. Cardinality(S), S) :
              \A i, j \in 1 .. Cardinality(S) : i < j => ExpiryOrder(s[i], s[j])
<1> DEFINE Listed(T) == \E s \in Bijection(1 .. Cardinality(T), T) :
                           \A i, j \in 1 .. Cardinality(T) : i < j => ExpiryOrder(s[i], s[j])
           F == {T \in SUBSET S : Listed(T)}
<1>1. ASSUME NEW T \in SUBSET S, \A x \in T : T \ {x} \in F PROVE T \in F
  <2>1. IsFiniteSet(T)
    BY FS_Subset
  <2>2. CASE T = {}
    <3>1. Cardinality(T) = 0 /\ 1 .. Cardinality(T) = {}
      BY SMT, <2>2, FS_EmptySet
    <3> DEFINE s == [i \in 1 .. Cardinality(T) |-> i]
    <3>2. s \in Bijection(1 .. Cardinality(T), T)
      BY <2>2, <3>1 DEF Bijection, Injection, Surjection, IsInjective
    <3> QED BY <3>1, <3>2
  <2>3. CASE T # {}
    <3> DEFINE E == {in_flight[l].expires_at : l \in T}
    <3>1. PICK e \in E : \A y \in E : e <= y
      <4>1. E \subseteq Nat /\ E # {}
        BY <2>3
      <4> QED BY <4>1, LeastNatural
    <3> DEFINE G == {l \in T : in_flight[l].expires_at = e}
    <3>2. PICK m \in G : \A y \in G : m <= y
      <4>1. G \subseteq Nat /\ G # {}
        BY <3>1
      <4> QED BY <4>1, LeastNatural
    <3>3. m \in T /\ \A o \in T \ {m} : ExpiryOrder(m, o)
      <4> SUFFICES ASSUME NEW o \in T \ {m} PROVE ExpiryOrder(m, o)
        OBVIOUS
      <4>1. in_flight[m].expires_at = e /\ in_flight[m].expires_at \in Nat /\ in_flight[o].expires_at \in Nat
        OBVIOUS
      <4>2. e <= in_flight[o].expires_at /\ m \in Nat /\ o \in Nat /\ m # o
        BY <3>1
      <4>3. in_flight[o].expires_at = e => m <= o
        BY <3>2
      <4> QED BY SMT, <4>1, <4>2, <4>3 DEF ExpiryOrder
    <3> DEFINE U == T \ {m}
               n == Cardinality(U)
    <3>4. IsFiniteSet(U) /\ n \in Nat /\ Cardinality(T) = n + 1
      <4>1. IsFiniteSet(U) /\ Cardinality(U) = Cardinality(T) - 1
        BY <2>1, <3>3, FS_RemoveElement
      <4>2. Cardinality(T) \in Nat /\ Cardinality(U) \in Nat
        BY <2>1, <4>1, FS_CardinalityType
      <4> QED BY SMT, <4>1, <4>2
    <3>5. PICK s \in Bijection(1 .. n, U) : \A i, j \in 1 .. n : i < j => ExpiryOrder(s[i], s[j])
      BY <1>1, <3>3
    <3>6. /\ s \in [1 .. n -> U]
          /\ \A i, j \in 1 .. n : s[i] = s[j] => i = j
          /\ \A l \in U : \E i \in 1 .. n : s[i] = l
      BY <3>5 DEF Bijection, Injection, Surjection, IsInjective
    <3> HIDE DEF n
    <3> DEFINE t == [i \in 1 .. (n + 1) |-> IF i = 1 THEN m ELSE s[i - 1]]
    <3>7. /\ 1 \in 1 .. (n + 1) /\ \A i \in 1 .. (n + 1) : i # 1 => i - 1 \in 1 .. n
          /\ \A i \in 1 .. n : i + 1 \in 1 .. (n + 1) /\ i + 1 # 1 /\ (i + 1) - 1 = i
          /\ \A i, j \in 1 .. (n + 1) : (i # 1 /\ j # 1 /\ i - 1 = j - 1 => i = j)
          /\ \A i, j \in 1 .. (n + 1) : i < j => j # 1 /\ (i # 1 => i - 1 < j - 1)
      BY SMT, <3>4
    <3>8. t \in [1 .. (n + 1) -> T]
      BY <3>3, <3>6, <3>7
    <3>9. \A i, j \in 1 .. (n + 1) : t[i] = t[j] => i = j
      <4> SUFFICES ASSUME NEW i \in 1 .. (n + 1), NEW j \in 1 .. (n + 1), t[i] = t[j] PROVE i = j
        OBVIOUS
      <4>1. \A k \in 1 .. (n + 1) : k # 1 => t[k] = s[k - 1] /\ s[k - 1] # m
        BY ZenonT(30), <3>6, <3>7
      <4>2. t[1] = m
        BY <3>7
      <4>3. i # 1 /\ j # 1 => i - 1 = j - 1
        <5> HIDE DEF t
        <5>1. i # 1 /\ j # 1 => i - 1 \in 1 .. n /\ j - 1 \in 1 .. n /\ s[i - 1] = s[j - 1]
          BY <3>7, <4>1
        <5> QED BY ZenonT(30), <3>6, <5>1
      <4>4. i # 1 /\ j # 1 => i = j
        BY <3>7, <4>3
      <4>5. (i = 1 /\ j # 1) \/ (i # 1 /\ j = 1) => FALSE
        <5> HIDE DEF t
        <5> QED BY <4>1, <4>2
      <4> QED BY <4>4, <4>5
    <3>10. \A l \in T : \E i \in 1 .. (n + 1) : t[i] = l
      <4> SUFFICES ASSUME NEW l \in T PROVE \E i \in 1 .. (n + 1) : t[i] = l
        OBVIOUS
      <4>1. CASE l = m
        BY <4>1, <3>7
      <4>2. CASE l # m
        <5>1. PICK i \in 1 .. n : s[i] = l
          BY <3>6, <4>2
        <5>2. i + 1 \in 1 .. (n + 1) /\ t[i + 1] = l
          BY <3>7, <5>1
        <5> QED BY <5>2
      <4> QED BY <4>1, <4>2
    <3>11. \A i, j \in 1 .. (n + 1) : i < j => ExpiryOrder(t[i], t[j])
      <4> SUFFICES ASSUME NEW i \in 1 .. (n + 1), NEW j \in 1 .. (n + 1), i < j
                   PROVE  ExpiryOrder(t[i], t[j])
        OBVIOUS
      <4>0. j # 1 /\ j - 1 \in 1 .. n
        BY <3>7
      <4>1. j # 1 /\ j - 1 \in 1 .. n /\ t[j] = s[j - 1] /\ t[j] \in T \ {m}
        BY <3>6, <4>0
      <4>2. CASE i = 1
        <5>1. t[i] = m
          BY <4>2
        <5> HIDE DEF t
        <5> QED BY <4>1, <5>1, <3>3
      <4>3. CASE i # 1
        <5>1. i - 1 \in 1 .. n /\ t[i] = s[i - 1] /\ i - 1 < j - 1
          BY <3>7, <4>3
        <5> HIDE DEF t
        <5> QED BY <4>1, <5>1, <3>5
      <4> QED BY <4>2, <4>3
    <3>12. t \in Bijection(1 .. (n + 1), T)
      BY <3>8, <3>9, <3>10 DEF Bijection, Injection, Surjection, IsInjective
    <3> HIDE DEF t
    <3> QED BY <3>4, <3>11, <3>12
  <2> QED BY <2>2, <2>3
<1> HIDE DEF F
<1>2. SUBSET S \subseteq F
  BY <1>1, ShrinkInduction
<1>3. S \in F
  BY <1>2
<1> QED BY <1>3 DEF F

\* InOrder lists a set of leases, each once.
LEMMA InOrderFacts ==
    ASSUME Placed(queues, in_flight, sequence), NEW L \in SUBSET DOMAIN in_flight
    PROVE  /\ IsFiniteSet(L) /\ Cardinality(L) \in Nat
           /\ InOrder(L) \in [1 .. Cardinality(L) -> L]
           /\ \A i, j \in 1 .. Cardinality(L) : InOrder(L)[i] = InOrder(L)[j] => i = j
           /\ \A l \in L : \E i \in 1 .. Cardinality(L) : InOrder(L)[i] = l
<1>1. L \subseteq Nat /\ L \subseteq 1 .. sequence /\ sequence \in Nat
  BY SMT DEF Placed
<1>2. IsFiniteSet(L) /\ Cardinality(L) \in Nat
  <2>1. 0 \in Int /\ 1 \in Int /\ sequence \in Int
    BY SMT, <1>1
  <2>2. IsFiniteSet(1 .. sequence)
    BY <2>1, FS_Interval
  <2> QED BY <1>1, <2>2, FS_Subset, FS_CardinalityType
<1>3. \A l \in L : in_flight[l].expires_at \in Nat
  BY DEF Placed, Lease
<1>4. \E s \in Bijection(1 .. Cardinality(L), L) :
         \A i, j \in 1 .. Cardinality(L) : i < j => ExpiryOrder(s[i], s[j])
  BY <1>1, <1>2, <1>3, OrderExists
<1>5. InOrder(L) \in Bijection(1 .. Cardinality(L), L)
  BY <1>4 DEF InOrder
<1> QED BY <1>2, <1>5 DEF Bijection, Injection, Surjection, IsInjective

-----------------------------------------------------------------------------
(***************************************************************************)
(* What a sweep does to the tasks.                                         *)
(***************************************************************************)
\* The fields of a task in the system.
LEMMA TaskFields ==
    ASSUME NEW t \in ValidTask
    PROVE  /\ t \in QueueTaskEnvelope /\ validate_task(t) /\ t.queue_name \in QueueNames
           /\ t.attempt \in Nat /\ t.max_attempts \in Nat /\ t.visibility_timeout \in Nat
           /\ t.idempotency_key \in Name /\ t.assignment_id \in Name
           /\ \E e \in Envelopes : t.idempotency_key = e.idempotency_key
           /\ t.attempt <= t.max_attempts
<1>1. t \in QueueTaskEnvelope /\ validate_task(t) /\ t.queue_name \in QueueNames
      /\ \E e \in Envelopes : t.idempotency_key = e.idempotency_key
  BY DEF ValidTask
<1>2. t.attempt \in Nat /\ t.max_attempts \in Nat /\ t.visibility_timeout \in Nat
      /\ t.idempotency_key \in Name /\ t.assignment_id \in Name
  BY <1>1 DEF QueueTaskEnvelope
<1>3. t.attempt <= t.max_attempts
  BY SMT, <1>1, <1>2 DEF validate_task
<1> QED BY <1>1, <1>2, <1>3

\* A task with attempts left is valid when it is redelivered, under the same names.
LEMMA RedeliveryFacts ==
    ASSUME NEW t \in ValidTask, ~(t.attempt >= t.max_attempts)
    PROVE  /\ Redelivery(t) \in ValidTask
           /\ Redelivery(t).task_id = t.task_id /\ Redelivery(t).queue_name = t.queue_name
<1>1. t \in QueueTaskEnvelope /\ validate_task(t) /\ t.attempt \in Nat /\ t.max_attempts \in Nat
  BY TaskFields
<1>2. t.attempt + 1 \in Nat /\ t.attempt + 1 \in 1 .. t.max_attempts
  BY SMT, <1>1
<1>3. Redelivery(t) \in QueueTaskEnvelope
  BY <1>1, <1>2 DEF Redelivery, QueueTaskEnvelope
<1>4. /\ Redelivery(t).attempt = t.attempt + 1
      /\ Redelivery(t).max_attempts = t.max_attempts
      /\ Redelivery(t).visibility_timeout = t.visibility_timeout
      /\ Redelivery(t).task_id = t.task_id
      /\ Redelivery(t).queue_name = t.queue_name
      /\ Redelivery(t).idempotency_key = t.idempotency_key
  BY <1>1 DEF Redelivery, QueueTaskEnvelope
<1>5. validate_task(Redelivery(t))
  BY <1>1, <1>2, <1>4 DEF validate_task
<1> QED BY <1>3, <1>4, <1>5, TaskFields DEF ValidTask

\* The leased task that a new place of queue q comes from.
Origin(L, q, i) == InOrder(Again(L, q))[i - Len(queues[q])]

\* A sweep leaves the waiting tasks of queue q in their places, and each lease it
\* takes out whose task goes back to q gets one new place there.
SweptInto(L, q) ==
    /\ QueuesWith(L)[q] \in Seq(ValidTask)
    /\ \A i \in DOMAIN queues[q] :
          i \in DOMAIN QueuesWith(L)[q] /\ QueuesWith(L)[q][i] = queues[q][i]
    /\ \A i \in DOMAIN QueuesWith(L)[q] \ DOMAIN queues[q] :
          /\ Origin(L, q, i) \in Again(L, q)
          /\ QueuesWith(L)[q][i] = Redelivery(in_flight[Origin(L, q, i)].task)
    /\ \A i, j \in DOMAIN QueuesWith(L)[q] \ DOMAIN queues[q] :
          Origin(L, q, i) = Origin(L, q, j) => i = j
    /\ \A l \in Again(L, q) :
          \E i \in DOMAIN QueuesWith(L)[q] \ DOMAIN queues[q] : Origin(L, q, i) = l

\* Every sweep of leases in flight does so, in every queue.
LEMMA SweptQueue ==
    ASSUME Placed(queues, in_flight, sequence), NEW L \in SUBSET DOMAIN in_flight, NEW q \in QueueNames
    PROVE  SweptInto(L, q)
<1> DEFINE A == Again(L, q)
           k == Cardinality(A)
           n == Len(queues[q])
           f == [i \in 1 .. k |-> Redelivery(in_flight[InOrder(A)[i]].task)]
           swept == QueuesWith(L)[q]
<1>1. A \in SUBSET DOMAIN in_flight
  BY DEF Again
<1>2. /\ k \in Nat /\ InOrder(A) \in [1 .. k -> A]
      /\ \A i, j \in 1 .. k : InOrder(A)[i] = InOrder(A)[j] => i = j
      /\ \A l \in A : \E i \in 1 .. k : InOrder(A)[i] = l
  BY <1>1, InOrderFacts
<1>3. swept = queues[q] \o f
  BY DEF QueuesWith
<1>4. \A l \in A : Redelivery(in_flight[l].task) \in ValidTask
  BY <1>1, RedeliveryFacts DEF Again, Exhausted, Placed, Lease
<1>5. f \in [1 .. k -> ValidTask] /\ queues[q] \in Seq(ValidTask)
  BY <1>2, <1>4 DEF Placed
<1>6. /\ swept \in Seq(ValidTask)
      /\ n \in Nat
      /\ DOMAIN queues[q] = 1 .. n
      /\ DOMAIN swept = 1 .. (n + k)
      /\ \A i \in 1 .. n : swept[i] = queues[q][i]
      /\ \A i \in (n + 1) .. (n + k) : i - n \in 1 .. k /\ swept[i] = f[i - n]
  <2>1. k \in Nat
    BY <1>2
  <2> HIDE DEF f, k, swept
  <2>2. /\ queues[q] \o f \in Seq(ValidTask)
        /\ Len(queues[q]) \in Nat
        /\ DOMAIN queues[q] = 1 .. Len(queues[q])
        /\ DOMAIN (queues[q] \o f) = 1 .. (Len(queues[q]) + k)
        /\ \A i \in 1 .. Len(queues[q]) : (queues[q] \o f)[i] = queues[q][i]
        /\ \A i \in (Len(queues[q]) + 1) .. (Len(queues[q]) + k) :
              i - Len(queues[q]) \in 1 .. k /\ (queues[q] \o f)[i] = f[i - Len(queues[q])]
    BY SMT, <1>5, <2>1, ConcatFacts
  <2> QED BY <1>3, <2>2
<1> HIDE DEF k, n, swept
<1>7. /\ \A i \in 1 .. n : i \in 1 .. (n + k)
      /\ \A i \in (1 .. (n + k)) \ (1 .. n) : i \in (n + 1) .. (n + k)
      /\ \A i, j \in (1 .. (n + k)) \ (1 .. n) : i - n = j - n => i = j
      /\ \A i \in 1 .. k : i + n \in (1 .. (n + k)) \ (1 .. n) /\ (i + n) - n = i
  BY SMT, <1>2, <1>6
<1>8. \A i : Origin(L, q, i) = InOrder(A)[i - n]
  BY DEF Origin, n
<1>9. \A i \in DOMAIN swept \ DOMAIN queues[q] :
         i - n \in 1 .. k /\ swept[i] = Redelivery(in_flight[Origin(L, q, i)].task)
  <2> SUFFICES ASSUME NEW i \in DOMAIN swept \ DOMAIN queues[q]
               PROVE  i - n \in 1 .. k /\ swept[i] = Redelivery(in_flight[Origin(L, q, i)].task)
    OBVIOUS
  <2>1. i - n \in 1 .. k /\ swept[i] = f[i - n]
    BY <1>6, <1>7
  <2>2. f[i - n] = Redelivery(in_flight[InOrder(A)[i - n]].task)
    BY <2>1
  <2> QED BY <1>8, <2>1, <2>2
<1> HIDE DEF f, A
<1>10. \A i \in DOMAIN swept \ DOMAIN queues[q] : Origin(L, q, i) \in A
  <2> SUFFICES ASSUME NEW i \in DOMAIN swept \ DOMAIN queues[q] PROVE Origin(L, q, i) \in A
    OBVIOUS
  <2>1. i - n \in 1 .. k
    BY <1>9
  <2>2. InOrder(A)[i - n] \in A
    BY <1>2, <2>1
  <2> QED BY <1>8, <2>2
<1>11. \A i, j \in DOMAIN swept \ DOMAIN queues[q] : Origin(L, q, i) = Origin(L, q, j) => i = j
  <2> SUFFICES ASSUME NEW i \in DOMAIN swept \ DOMAIN queues[q], NEW j \in DOMAIN swept \ DOMAIN queues[q],
                      Origin(L, q, i) = Origin(L, q, j)
               PROVE  i = j
    OBVIOUS
  <2>1. i - n \in 1 .. k /\ j - n \in 1 .. k /\ InOrder(A)[i - n] = InOrder(A)[j - n]
    BY <1>8, <1>9
  <2>2. i - n = j - n
    BY <1>2, <2>1
  <2> QED BY <1>6, <1>7, <2>2
<1>12. \A l \in A : \E i \in DOMAIN swept \ DOMAIN queues[q] : Origin(L, q, i) = l
  <2> SUFFICES ASSUME NEW l \in A PROVE \E i \in DOMAIN swept \ DOMAIN queues[q] : Origin(L, q, i) = l
    OBVIOUS
  <2>1. PICK i \in 1 .. k : InOrder(A)[i] = l
    BY <1>2
  <2>2. i + n \in DOMAIN swept \ DOMAIN queues[q] /\ (i + n) - n = i
    BY <1>6, <1>7
  <2>3. Origin(L, q, i + n) = l
    BY <1>8, <2>1, <2>2
  <2> QED BY <2>2, <2>3
<1> QED BY <1>6, <1>7, <1>9, <1>10, <1>11, <1>12 DEF A, swept, SweptInto

\* A task waiting after a sweep waited there before, or was leased from its queue
\* by a lease that is taken out.
SweptFrom(L, q, i) ==
    /\ i \in DOMAIN queues[q] => QueuesWith(L)[q][i] = queues[q][i]
    /\ i \notin DOMAIN queues[q] =>
          /\ Origin(L, q, i) \in L
          /\ in_flight[Origin(L, q, i)].task.queue_name = q
          /\ QueuesWith(L)[q][i].task_id = in_flight[Origin(L, q, i)].task.task_id
          /\ QueuesWith(L)[q][i].queue_name = q

\* That is so for every task waiting after a sweep of leases in flight.
LEMMA SweptTask ==
    ASSUME Placed(queues, in_flight, sequence), NEW L \in SUBSET DOMAIN in_flight,
           NEW q \in QueueNames, NEW i \in DOMAIN QueuesWith(L)[q]
    PROVE  SweptFrom(L, q, i)
<1>0. SweptInto(L, q)
  BY SweptQueue
<1>1. i \in DOMAIN queues[q] => QueuesWith(L)[q][i] = queues[q][i]
  BY <1>0 DEF SweptInto
<1>2. ASSUME i \notin DOMAIN queues[q]
      PROVE  /\ Origin(L, q, i) \in L
             /\ in_flight[Origin(L, q, i)].task.queue_name = q
             /\ QueuesWith(L)[q][i].task_id = in_flight[Origin(L, q, i)].task.task_id
             /\ QueuesWith(L)[q][i].queue_name = q
  <2> DEFINE l == Origin(L, q, i)
  <2>1. l \in Again(L, q) /\ QueuesWith(L)[q][i] = Redelivery(in_flight[l].task)
    BY <1>0, <1>2 DEF SweptInto
  <2> HIDE DEF l
  <2>2. l \in L /\ in_flight[l].task.queue_name = q /\ ~(in_flight[l].task.attempt >= in_flight[l].task.max_attempts)
    BY <2>1 DEF Again, Exhausted
  <2>3. in_flight[l].task \in ValidTask
    BY <2>2 DEF Placed, Lease
  <2>4. /\ Redelivery(in_flight[l].task).task_id = in_flight[l].task.task_id
        /\ Redelivery(in_flight[l].task).queue_name = in_flight[l].task.queue_name
    BY <2>2, <2>3, RedeliveryFacts
  <2> QED BY <2>1, <2>2, <2>4 DEF l
<1> QED BY <1>1, <1>2 DEF SweptFrom

\* A sweep keeps every task in the queue of its name.
LEMMA SweepPlaced ==
    ASSUME Placed(queues, in_flight, sequence), NEW L \in SUBSET DOMAIN in_flight
    PROVE  Placed(QueuesWith(L), InFlightWithout(L), sequence)
<1>1. QueuesWith(L) \in [QueueNames -> Seq(ValidTask)]
  <2>1. QueuesWith(L) = [q \in QueueNames |-> QueuesWith(L)[q]]
    BY DEF QueuesWith
  <2>2. \A q \in QueueNames : QueuesWith(L)[q] \in Seq(ValidTask)
    BY SweptQueue DEF SweptInto
  <2> QED BY <2>1, <2>2
<1>2. /\ DOMAIN InFlightWithout(L) = DOMAIN in_flight \ L
      /\ InFlightWithout(L) \in [DOMAIN InFlightWithout(L) -> Lease]
  BY DEF InFlightWithout, Placed
<1>3. \A q \in QueueNames : \A i \in DOMAIN QueuesWith(L)[q] : QueuesWith(L)[q][i].queue_name = q
  <2> SUFFICES ASSUME NEW q \in QueueNames, NEW i \in DOMAIN QueuesWith(L)[q]
               PROVE  QueuesWith(L)[q][i].queue_name = q
    OBVIOUS
  <2>1. SweptFrom(L, q, i)
    BY SweptTask
  <2> QED BY <2>1 DEF SweptFrom, Placed
<1> QED BY <1>1, <1>2, <1>3 DEF Placed

\* A sweep puts no task id into a queue that has it or that has a lease of it.
LEMMA SweepSingle ==
    ASSUME Placed(queues, in_flight, sequence), Single(queues, in_flight),
           NEW L \in SUBSET DOMAIN in_flight
    PROVE  Single(QueuesWith(L), InFlightWithout(L))
<1> DEFINE Q == QueuesWith(L)
           F == InFlightWithout(L)
<1>1. DOMAIN F = DOMAIN in_flight \ L /\ \A l \in DOMAIN F : F[l] = in_flight[l]
  BY DEF InFlightWithout
<1>2. \A q \in QueueNames : \A i \in DOMAIN queues[q] : \A l \in DOMAIN in_flight :
         in_flight[l].task.queue_name = q => queues[q][i].task_id # in_flight[l].task.task_id
  BY DEF Single
<1>3. /\ \A q \in QueueNames : \A i, j \in DOMAIN queues[q] : queues[q][i].task_id = queues[q][j].task_id => i = j
      /\ \A l, m \in DOMAIN in_flight :
            /\ in_flight[l].task.task_id = in_flight[m].task.task_id
            /\ in_flight[l].task.queue_name = in_flight[m].task.queue_name
            => l = m
  BY DEF Single
<1>4. ASSUME NEW q \in QueueNames, NEW i \in DOMAIN Q[q], NEW j \in DOMAIN Q[q],
             Q[q][i].task_id = Q[q][j].task_id
      PROVE  i = j
  <2>0. SweptFrom(L, q, i) /\ SweptFrom(L, q, j)
    BY SweptTask
  <2>1. CASE i \in DOMAIN queues[q] /\ j \in DOMAIN queues[q]
    BY <1>3, <1>4, <2>0, <2>1 DEF SweptFrom
  <2>2. CASE i \in DOMAIN queues[q] /\ j \notin DOMAIN queues[q]
    <3> DEFINE l == Origin(L, q, j)
    <3>1. /\ Q[q][i] = queues[q][i] /\ l \in DOMAIN in_flight /\ in_flight[l].task.queue_name = q
          /\ Q[q][j].task_id = in_flight[l].task.task_id
      BY <2>0, <2>2 DEF SweptFrom
    <3> HIDE DEF l
    <3>2. queues[q][i].task_id # in_flight[l].task.task_id
      BY <1>2, <2>2, <3>1
    <3> QED BY <1>4, <3>1, <3>2
  <2>3. CASE i \notin DOMAIN queues[q] /\ j \in DOMAIN queues[q]
    <3> DEFINE l == Origin(L, q, i)
    <3>1. /\ Q[q][j] = queues[q][j] /\ l \in DOMAIN in_flight /\ in_flight[l].task.queue_name = q
          /\ Q[q][i].task_id = in_flight[l].task.task_id
      BY <2>0, <2>3 DEF SweptFrom
    <3> HIDE DEF l
    <3>2. queues[q][j].task_id # in_flight[l].task.task_id
      BY <1>2, <2>3, <3>1
    <3> QED BY <1>4, <3>1, <3>2
  <2>4. CASE i \notin DOMAIN queues[q] /\ j \notin DOMAIN queues[q]
    <3>1. Origin(L, q, i) = Origin(L, q, j)
      BY <1>3, <1>4, <2>0, <2>4 DEF SweptFrom
    <3>2. SweptInto(L, q)
      BY SweptQueue
    <3> QED BY <2>4, <3>1, <3>2 DEF SweptInto
  <2> QED BY <2>1, <2>2, <2>3, <2>4
<1>5. ASSUME NEW q \in QueueNames, NEW i \in DOMAIN Q[q], NEW l \in DOMAIN F, F[l].task.queue_name = q
      PROVE  Q[q][i].task_id # F[l].task.task_id
  <2>1. F[l] = in_flight[l] /\ l \in DOMAIN in_flight /\ l \notin L /\ in_flight[l].task.queue_name = q
    BY <1>1, <1>5
  <2>2. SweptFrom(L, q, i)
    BY SweptTask
  <2>3. CASE i \in DOMAIN queues[q]
    BY ZenonT(30), <1>2, <2>1, <2>2, <2>3 DEF SweptFrom
  <2>4. CASE i \notin DOMAIN queues[q]
    <3> DEFINE m == Origin(L, q, i)
    <3>1. /\ m \in L /\ m \in DOMAIN in_flight /\ in_flight[m].task.queue_name = q
          /\ Q[q][i].task_id = in_flight[m].task.task_id
      BY <2>2, <2>4 DEF SweptFrom
    <3> HIDE DEF m
    <3>2. in_flight[m].task.task_id # in_flight[l].task.task_id
      BY <1>3, <2>1, <3>1
    <3> QED BY <2>1, <3>1, <3>2
  <2> QED BY <2>3, <2>4
<1>6. \A l, m \in DOMAIN F :
         /\ F[l].task.task_id = F[m].task.task_id
         /\ F[l].task.queue_name = F[m].task.queue_name
         => l = m
  BY <1>1, <1>3
<1> HIDE DEF Q, F
<1>7. Single(Q, F)
  BY <1>4, <1>5, <1>6 DEF Single
<1> QED BY <1>7 DEF Q, F

\* A place is a queue name and a position in that queue.
LEMMA PlacesAre ==
    ASSUME NEW Q
    PROVE  \A p : p \in WaitingIn(Q) <=>
                    p = <<p[1], p[2]>> /\ p[1] \in QueueNames /\ p[2] \in DOMAIN Q[p[1]]
<1>1. \A p : p \in WaitingIn(Q) <=> \E q \in QueueNames : p \in {q} \X DOMAIN Q[q]
  BY DEF WaitingIn
<1>2. \A p, q : p \in {q} \X DOMAIN Q[q] <=> p = <<p[1], p[2]>> /\ p[1] = q /\ p[2] \in DOMAIN Q[q]
  BY SMT
<1>3. \A p : (\E q \in QueueNames : p \in {q} \X DOMAIN Q[q]) <=>
                p = <<p[1], p[2]>> /\ p[1] \in QueueNames /\ p[2] \in DOMAIN Q[p[1]]
  <2> TAKE p
  <2>1. ASSUME NEW q \in QueueNames, p \in {q} \X DOMAIN Q[q]
        PROVE  p = <<p[1], p[2]>> /\ p[1] \in QueueNames /\ p[2] \in DOMAIN Q[p[1]]
    BY <1>2, <2>1
  <2>2. ASSUME p = <<p[1], p[2]>>, p[1] \in QueueNames, p[2] \in DOMAIN Q[p[1]]
        PROVE  \E q \in QueueNames : p \in {q} \X DOMAIN Q[q]
    <3>1. p \in {p[1]} \X DOMAIN Q[p[1]]
      BY <1>2, <2>2
    <3> QED BY <2>2, <3>1
  <2> QED BY <2>1, <2>2
<1> QED BY <1>1, <1>3

\* A sweep adds a waiting task for every lease it takes out that has attempts left.
LEMMA SweepCounts ==
    ASSUME Placed(queues, in_flight, sequence), IsFiniteSet(Waiting), NEW L \in SUBSET DOMAIN in_flight
    PROVE  /\ IsFiniteSet(WaitingIn(QueuesWith(L)))
           /\ Cardinality(WaitingIn(QueuesWith(L))) = Cardinality(Waiting) + Cardinality(L \ Dead(L))
<1> DEFINE N == WaitingIn(QueuesWith(L)) \ Waiting
           R == L \ Dead(L)
           g == [p \in N |-> Origin(L, p[1], p[2])]
<1>1. \A p : p \in WaitingIn(QueuesWith(L)) <=>
                /\ p = <<p[1], p[2]>> /\ p[1] \in QueueNames
                /\ p[2] \in DOMAIN QueuesWith(L)[p[1]]
  BY PlacesAre
<1>2. \A p : p \in Waiting <=>
                p = <<p[1], p[2]>> /\ p[1] \in QueueNames /\ p[2] \in DOMAIN queues[p[1]]
  BY PlacesAre DEF Waiting, WaitingIn
<1>3. \A q, i : <<q, i>>[1] = q /\ <<q, i>>[2] = i
  OBVIOUS
<1>4. \A p \in N : /\ p = <<p[1], p[2]>> /\ p[1] \in QueueNames
                   /\ p[2] \in DOMAIN QueuesWith(L)[p[1]] \ DOMAIN queues[p[1]]
  BY <1>1, <1>2
<1>5. \A q \in QueueNames : \A i \in DOMAIN QueuesWith(L)[q] \ DOMAIN queues[q] : <<q, i>> \in N
  <2> SUFFICES ASSUME NEW q \in QueueNames, NEW i \in DOMAIN QueuesWith(L)[q] \ DOMAIN queues[q]
               PROVE  <<q, i>> \in N
    OBVIOUS
  <2> DEFINE p == <<q, i>>
  <2>1. p[1] = q /\ p[2] = i /\ p = <<p[1], p[2]>>
    BY <1>3
  <2> HIDE DEF p
  <2>2. p \in WaitingIn(QueuesWith(L))
    BY <1>1, <2>1
  <2>3. p \notin Waiting
    BY <1>2, <2>1
  <2> QED BY <2>2, <2>3 DEF p
<1>6. Waiting \subseteq WaitingIn(QueuesWith(L))
  <2>1. \A q \in QueueNames : \A i \in DOMAIN queues[q] : i \in DOMAIN QueuesWith(L)[q]
    BY SweptQueue DEF SweptInto
  <2> QED BY <1>1, <1>2, <2>1
<1>7. \A l \in R : ~Exhausted(l) /\ in_flight[l].task.queue_name \in QueueNames
                   /\ l \in Again(L, in_flight[l].task.queue_name)
  BY TaskFields DEF Dead, Again, Placed, Lease
<1>8. \A q \in QueueNames : Again(L, q) \subseteq R /\ \A l \in Again(L, q) : in_flight[l].task.queue_name = q
  BY DEF Dead, Again
<1> HIDE DEF N, R
<1>9. \A q \in QueueNames : SweptInto(L, q)
  BY SweptQueue
<1>10. \A p \in N : g[p] = Origin(L, p[1], p[2]) /\ g[p] \in Again(L, p[1]) /\ g[p] \in R
  BY <1>4, <1>8, <1>9 DEF SweptInto
<1>11. \A a, b \in N : g[a] = g[b] => a = b
  <2> SUFFICES ASSUME NEW a \in N, NEW b \in N, g[a] = g[b] PROVE a = b
    OBVIOUS
  <2> HIDE DEF g
  <2>1. a[1] \in QueueNames /\ a[1] = b[1]
    <3>1. a[1] \in QueueNames /\ b[1] \in QueueNames
      BY <1>4
    <3>2. in_flight[g[a]].task.queue_name = a[1]
      BY <1>8, <1>10, <3>1
    <3>3. in_flight[g[b]].task.queue_name = b[1]
      BY <1>8, <1>10, <3>1
    <3> QED BY <3>1, <3>2, <3>3
  <2>2. /\ a[2] \in DOMAIN QueuesWith(L)[a[1]] \ DOMAIN queues[a[1]]
        /\ b[2] \in DOMAIN QueuesWith(L)[a[1]] \ DOMAIN queues[a[1]]
        /\ Origin(L, a[1], a[2]) = Origin(L, a[1], b[2])
    BY <1>4, <1>10, <2>1
  <2>3. a[2] = b[2]
    BY <1>9, <2>1, <2>2 DEF SweptInto
  <2> QED BY <1>4, <2>1, <2>3
<1>12. \A l \in R : \E p \in N : g[p] = l
  <2> SUFFICES ASSUME NEW l \in R PROVE \E p \in N : g[p] = l
    OBVIOUS
  <2> DEFINE q == in_flight[l].task.queue_name
  <2>1. q \in QueueNames /\ l \in Again(L, q)
    BY <1>7
  <2> HIDE DEF q
  <2>2. PICK i \in DOMAIN QueuesWith(L)[q] \ DOMAIN queues[q] : Origin(L, q, i) = l
    BY <1>9, <2>1 DEF SweptInto
  <2>3. <<q, i>> \in N
    BY <1>5, <2>1
  <2>4. <<q, i>>[1] = q /\ <<q, i>>[2] = i
    OBVIOUS
  <2>5. g[<<q, i>>] = l
    BY <2>2, <2>3, <2>4
  <2> QED BY <2>3, <2>5
<1>13. g \in Bijection(N, R)
  BY <1>10, <1>11, <1>12 DEF Bijection, Injection, Surjection, IsInjective
<1>14. IsFiniteSet(R) /\ IsFiniteSet(N) /\ Cardinality(N) = Cardinality(R)
  <2>1. IsFiniteSet(R)
    BY InOrderFacts, FS_Subset DEF R
  <2>2. g \in Injection(N, R) /\ g \in Surjection(N, R)
    BY <1>13 DEF Bijection
  <2> QED BY <2>1, <2>2, FS_Injection
<1>15. WaitingIn(QueuesWith(L)) = Waiting \cup N /\ Waiting \cap N = {}
  BY <1>6 DEF N
<1>16. /\ IsFiniteSet(Waiting \cup N)
       /\ Cardinality(Waiting \cup N) = Cardinality(Waiting) + Cardinality(N) - Cardinality(Waiting \cap N)
  BY <1>14, FS_Union
<1>17. Cardinality(Waiting \cap N) = 0 /\ Cardinality(Waiting) \in Nat /\ Cardinality(N) \in Nat
  BY <1>14, <1>15, FS_EmptySet, FS_CardinalityType
<1>18. Cardinality(Waiting) + Cardinality(N) - Cardinality(Waiting \cap N) = Cardinality(Waiting) + Cardinality(R)
  BY SMT, <1>14, <1>17
<1> QED BY <1>15, <1>16, <1>18 DEF R

\* The leases in flight are finitely many.
LEMMA LeasesFinite ==
    ASSUME NEW Q, NEW F, NEW n, Placed(Q, F, n)
    PROVE  /\ IsFiniteSet(DOMAIN F) /\ Cardinality(DOMAIN F) \in Nat
           /\ n \in Nat /\ n + 1 \in Nat /\ n + 1 \notin DOMAIN F
<1>1. n \in Nat /\ DOMAIN F \subseteq 1 .. n
  BY DEF Placed
<1>2. IsFiniteSet(1 .. n)
  <2>1. 1 \in Int /\ n \in Int
    BY SMT, <1>1
  <2> QED BY <2>1, FS_Interval
<1>3. n + 1 \in Nat /\ n + 1 \notin 1 .. n
  BY SMT, <1>1
<1> QED BY <1>1, <1>2, <1>3, FS_Subset, FS_CardinalityType

\* A sweep splits the leases it takes out into the dead and the redelivered.
LEMMA SweepNumbers ==
    ASSUME Placed(queues, in_flight, sequence), NEW L \in SUBSET DOMAIN in_flight
    PROVE  /\ Cardinality(L \ Dead(L)) \in Nat /\ Cardinality(Dead(L)) \in Nat
           /\ Cardinality(DOMAIN InFlightWithout(L)) \in Nat
           /\ Cardinality(DOMAIN in_flight) =
                 Cardinality(DOMAIN InFlightWithout(L)) + Cardinality(L \ Dead(L)) + Cardinality(Dead(L))
<1>1. IsFiniteSet(DOMAIN in_flight) /\ Cardinality(DOMAIN in_flight) \in Nat
  BY LeasesFinite
<1>2. IsFiniteSet(L) /\ Cardinality(L) \in Nat
  BY InOrderFacts
<1>3. Dead(L) \subseteq L
  BY DEF Dead
<1>4. IsFiniteSet(Dead(L)) /\ Cardinality(Dead(L)) \in Nat
  BY <1>2, <1>3, FS_Subset, FS_CardinalityType
<1>5. IsFiniteSet(L \ Dead(L)) /\ Cardinality(L \ Dead(L)) = Cardinality(L) - Cardinality(L \cap Dead(L))
  BY <1>2, FS_Difference
<1>6. L \cap Dead(L) = Dead(L) /\ DOMAIN in_flight \cap L = L /\ DOMAIN InFlightWithout(L) = DOMAIN in_flight \ L
  BY <1>3 DEF InFlightWithout
<1>7. /\ IsFiniteSet(DOMAIN in_flight \ L)
      /\ Cardinality(DOMAIN in_flight \ L) = Cardinality(DOMAIN in_flight) - Cardinality(DOMAIN in_flight \cap L)
  BY <1>1, FS_Difference
<1>8. Cardinality(DOMAIN in_flight \ L) \in Nat /\ Cardinality(L \ Dead(L)) \in Nat
  BY <1>5, <1>7, FS_CardinalityType
<1>9. Cardinality(L \ Dead(L)) = Cardinality(L) - Cardinality(Dead(L))
      /\ Cardinality(DOMAIN InFlightWithout(L)) = Cardinality(DOMAIN in_flight) - Cardinality(L)
      /\ Cardinality(DOMAIN InFlightWithout(L)) \in Nat
  BY <1>5, <1>6, <1>7, <1>8
<1> QED BY SMT, <1>1, <1>2, <1>4, <1>8, <1>9

\* The dead letters a sweep adds are at the last of their attempts.
LEMMA SweepDead ==
    ASSUME Placed(queues, in_flight, sequence), DeadLetters(dead_letters),
           NEW L \in SUBSET DOMAIN in_flight, NEW now
    PROVE  /\ DeadLetters(DeadLettersWith(L, now))
           /\ Len(DeadLettersWith(L, now)) = Len(dead_letters) + Cardinality(Dead(L))
           /\ Len(dead_letters) \in Nat
<1> DEFINE D == Dead(L)
           k == Cardinality(D)
           f == [i \in 1 .. k |->
                   [task |-> in_flight[InOrder(D)[i]].task,
                    reason |-> IF InOrder(D)[i] \in Expired(now) THEN "lease-expired" ELSE "requeued"]]
           after == DeadLettersWith(L, now)
           n == Len(dead_letters)
<1>1. D \in SUBSET DOMAIN in_flight
  BY DEF Dead
<1>2. k \in Nat /\ InOrder(D) \in [1 .. k -> D]
  BY <1>1, InOrderFacts
<1>3. after = dead_letters \o f
  BY DEF DeadLettersWith
<1>4. \A l \in D : in_flight[l].task \in ValidTask /\ in_flight[l].task.attempt = in_flight[l].task.max_attempts
  <2> SUFFICES ASSUME NEW l \in D
               PROVE  /\ in_flight[l].task \in ValidTask
                      /\ in_flight[l].task.attempt = in_flight[l].task.max_attempts
    OBVIOUS
  <2>1. in_flight[l].task \in ValidTask /\ in_flight[l].task.attempt >= in_flight[l].task.max_attempts
    BY <1>1 DEF Placed, Lease, Dead, Exhausted
  <2>2. /\ in_flight[l].task.attempt \in Nat /\ in_flight[l].task.max_attempts \in Nat
        /\ in_flight[l].task.attempt <= in_flight[l].task.max_attempts
    BY <2>1, TaskFields
  <2>3. in_flight[l].task.attempt = in_flight[l].task.max_attempts
    BY SMT, <2>1, <2>2
  <2> QED BY <2>1, <2>3
<1>5. \A i \in 1 .. k : InOrder(D)[i] \in D
  BY <1>2
<1>6. \A i \in 1 .. k : f[i] \in DeadLetter /\ f[i].task.attempt = f[i].task.max_attempts
  <2> SUFFICES ASSUME NEW i \in 1 .. k
               PROVE  f[i] \in DeadLetter /\ f[i].task.attempt = f[i].task.max_attempts
    OBVIOUS
  <2> DEFINE l == InOrder(D)[i]
             why == IF l \in Expired(now) THEN "lease-expired" ELSE "requeued"
  <2>1. l \in D /\ f[i] = [task |-> in_flight[l].task, reason |-> why]
    BY <1>5
  <2>2. why \in {"lease-expired", "requeued"}
    OBVIOUS
  <2>3. in_flight[l].task \in ValidTask /\ in_flight[l].task.attempt = in_flight[l].task.max_attempts
    BY <1>4, <2>1
  <2> DEFINE t == in_flight[l].task
  <2>4. t \in ValidTask /\ t.attempt = t.max_attempts
    BY <2>3
  <2> HIDE DEF l, why, f, t
  <2>5. f[i] = [task |-> t, reason |-> why]
    BY <2>1 DEF t
  <2>6. [task |-> t, reason |-> why] \in DeadLetter
    BY <2>2, <2>4 DEF DeadLetter
  <2>7. [task |-> t, reason |-> why].task = t
    OBVIOUS
  <2>8. f[i].task = t
    BY SMT, <2>5, <2>7
  <2> QED BY <2>4, <2>5, <2>6, <2>8
<1>7. f \in [1 .. k -> DeadLetter] /\ dead_letters \in Seq(DeadLetter)
  BY <1>6 DEF DeadLetters
<1> HIDE DEF f, k, after
<1>8. /\ dead_letters \o f \in Seq(DeadLetter) /\ n \in Nat
      /\ Len(dead_letters \o f) = n + k
      /\ DOMAIN dead_letters = 1 .. n
      /\ DOMAIN (dead_letters \o f) = 1 .. (n + k)
      /\ \A i \in 1 .. n : (dead_letters \o f)[i] = dead_letters[i]
      /\ \A i \in (n + 1) .. (n + k) : i - n \in 1 .. k /\ (dead_letters \o f)[i] = f[i - n]
  BY SMT, <1>2, <1>7, ConcatFacts
<1> HIDE DEF n
<1>9. \A i \in 1 .. (n + k) : i \in 1 .. n \/ i \in (n + 1) .. (n + k)
  BY SMT, <1>2, <1>8
<1>10. \A i \in DOMAIN after : after[i].task.attempt = after[i].task.max_attempts
  <2> SUFFICES ASSUME NEW i \in DOMAIN after PROVE after[i].task.attempt = after[i].task.max_attempts
    OBVIOUS
  <2>1. CASE i \in 1 .. n
    <3>1. after[i] = dead_letters[i] /\ i \in DOMAIN dead_letters
      BY <1>3, <1>8, <2>1
    <3> QED BY <3>1 DEF DeadLetters
  <2>2. CASE i \in (n + 1) .. (n + k)
    <3>1. after[i] = f[i - n] /\ i - n \in 1 .. k
      BY <1>3, <1>8, <2>2
    <3> QED BY <1>6, <3>1
  <2> QED BY <1>3, <1>8, <1>9, <2>1, <2>2
<1> QED BY <1>3, <1>8, <1>10 DEF DeadLetters, after, k, n

\* The metrics after a sweep.
LEMMA SweepMetrics ==
    ASSUME metrics \in Metrics, NEW L,
           Cardinality(L \ Dead(L)) \in Nat, Cardinality(Dead(L)) \in Nat
    PROVE  /\ MetricsWith(L) \in Metrics
           /\ MetricsWith(L).enqueued = metrics.enqueued /\ MetricsWith(L).leased = metrics.leased
           /\ MetricsWith(L).redelivered = metrics.redelivered + Cardinality(L \ Dead(L))
           /\ MetricsWith(L).dead = metrics.dead + Cardinality(Dead(L))
           /\ metrics.enqueued \in Nat /\ metrics.leased \in Nat
           /\ metrics.redelivered \in Nat /\ metrics.dead \in Nat
<1>1. /\ metrics.enqueued \in Nat /\ metrics.leased \in Nat
      /\ metrics.redelivered \in Nat /\ metrics.dead \in Nat
  BY DEF Metrics
<1>2. /\ metrics.redelivered + Cardinality(L \ Dead(L)) \in Nat
      /\ metrics.dead + Cardinality(Dead(L)) \in Nat
  BY SMT, <1>1
<1>3. MetricsWith(L) \in Metrics
  BY <1>2 DEF Metrics, MetricsWith
<1>4. /\ MetricsWith(L).enqueued = metrics.enqueued /\ MetricsWith(L).leased = metrics.leased
      /\ MetricsWith(L).redelivered = metrics.redelivered + Cardinality(L \ Dead(L))
      /\ MetricsWith(L).dead = metrics.dead + Cardinality(Dead(L))
  BY DEF Metrics, MetricsWith
<1> QED BY <1>1, <1>3, <1>4

\* Moving r redeliveries and d dead letters out of a sum of leases.
LEMMA MovedSum ==
    \A c, r, d, a, x, y \in Nat : (c + r + d) + a + x + y = c + a + (x + r) + (y + d)
BY SMT

\* After a sweep the queues, the leases, the dead letters and the metrics still
\* account for every task.
LEMMA SweepGood ==
    ASSUME QueueInv, NEW L \in SUBSET DOMAIN in_flight, NEW now
    PROVE  QueueGood(QueuesWith(L), InFlightWithout(L), sequence,
                     DeadLettersWith(L, now), MetricsWith(L), acked)
<1> DEFINE R == L \ Dead(L)
           W == WaitingIn(QueuesWith(L))
           D == DOMAIN InFlightWithout(L)
<1>1. /\ Placed(queues, in_flight, sequence) /\ Single(queues, in_flight)
      /\ IsFiniteSet(WaitingIn(queues)) /\ DeadLetters(dead_letters)
      /\ metrics \in Metrics /\ acked \in Seq(ValidTask)
      /\ Balanced(WaitingIn(queues), DOMAIN in_flight, sequence, dead_letters, metrics, acked)
  BY DEF QueueInv, QueueGood
<1>2. Waiting = WaitingIn(queues)
  BY DEF Waiting, WaitingIn
<1>3. IsFiniteSet(W) /\ Cardinality(W) = Cardinality(WaitingIn(queues)) + Cardinality(R)
  BY <1>1, <1>2, SweepCounts
<1>4. /\ Cardinality(R) \in Nat /\ Cardinality(Dead(L)) \in Nat /\ Cardinality(D) \in Nat
      /\ Cardinality(DOMAIN in_flight) = Cardinality(D) + Cardinality(R) + Cardinality(Dead(L))
  BY <1>1, SweepNumbers
<1>5. /\ DeadLetters(DeadLettersWith(L, now))
      /\ Len(DeadLettersWith(L, now)) = Len(dead_letters) + Cardinality(Dead(L))
      /\ Len(dead_letters) \in Nat
  BY <1>1, SweepDead
<1>6. /\ MetricsWith(L) \in Metrics
      /\ MetricsWith(L).enqueued = metrics.enqueued /\ MetricsWith(L).leased = metrics.leased
      /\ MetricsWith(L).redelivered = metrics.redelivered + Cardinality(R)
      /\ MetricsWith(L).dead = metrics.dead + Cardinality(Dead(L))
      /\ metrics.enqueued \in Nat /\ metrics.leased \in Nat
      /\ metrics.redelivered \in Nat /\ metrics.dead \in Nat
  BY <1>1, <1>4, SweepMetrics
<1>7. Len(acked) \in Nat /\ Cardinality(WaitingIn(queues)) \in Nat
  <2>1. Len(acked) \in Nat
    BY SMT, <1>1
  <2> QED BY <1>1, <2>1, FS_CardinalityType
<1>8. Balanced(W, D, sequence, DeadLettersWith(L, now), MetricsWith(L), acked)
  <2>1. /\ metrics.enqueued =
              Cardinality(WaitingIn(queues)) + Cardinality(DOMAIN in_flight) + Len(acked) + Len(dead_letters)
        /\ metrics.leased = Cardinality(DOMAIN in_flight) + Len(acked) + metrics.redelivered + metrics.dead
        /\ metrics.dead = Len(dead_letters)
        /\ metrics.leased = sequence
    BY <1>1 DEF Balanced
  <2> HIDE DEF R, W, D
  <2>2. MetricsWith(L).enqueued = Cardinality(W) + Cardinality(D) + Len(acked) + Len(DeadLettersWith(L, now))
    BY SMTT(20), <1>3, <1>4, <1>5, <1>6, <1>7, <2>1
  <2>3. MetricsWith(L).leased = Cardinality(D) + Len(acked) + MetricsWith(L).redelivered + MetricsWith(L).dead
    <3>1. metrics.leased = (Cardinality(D) + Cardinality(R) + Cardinality(Dead(L)))
                             + Len(acked) + metrics.redelivered + metrics.dead
      BY <1>4, <2>1
    <3>2. metrics.leased = Cardinality(D) + Len(acked) + (metrics.redelivered + Cardinality(R))
                             + (metrics.dead + Cardinality(Dead(L)))
      <4>1. /\ Cardinality(D) \in Nat /\ Cardinality(R) \in Nat /\ Cardinality(Dead(L)) \in Nat
            /\ Len(acked) \in Nat /\ metrics.redelivered \in Nat /\ metrics.dead \in Nat
        BY <1>4, <1>6, <1>7
      <4> QED BY SMTT(20), <3>1, <4>1, MovedSum
    <3> QED BY <1>6, <3>2
  <2> QED BY <1>5, <1>6, <2>1, <2>2, <2>3 DEF Balanced
<1>9. Placed(QueuesWith(L), InFlightWithout(L), sequence) /\ Single(QueuesWith(L), InFlightWithout(L))
  BY <1>1, SweepPlaced, SweepSingle
<1> QED BY <1>1, <1>3, <1>5, <1>6, <1>8, <1>9 DEF QueueGood

-----------------------------------------------------------------------------
(***************************************************************************)
(* What enqueue, lease, ack and requeue do besides.                        *)
(***************************************************************************)
\* Updating one queue.
LEMMA QueueUpdate ==
    ASSUME NEW Q \in [QueueNames -> Seq(ValidTask)], NEW q \in QueueNames, NEW s
    PROVE  /\ [Q EXCEPT ![q] = s][q] = s
           /\ \A p \in QueueNames : p # q => [Q EXCEPT ![q] = s][p] = Q[p]
           /\ s \in Seq(ValidTask) => [Q EXCEPT ![q] = s] \in [QueueNames -> Seq(ValidTask)]
OBVIOUS

\* One element more, or one less.
LEMMA OneMore ==
    ASSUME NEW S, NEW x, IsFiniteSet(S)
    PROVE  /\ x \notin S => IsFiniteSet(S \cup {x}) /\ Cardinality(S \cup {x}) = Cardinality(S) + 1
           /\ x \in S => IsFiniteSet(S \ {x}) /\ Cardinality(S \ {x}) = Cardinality(S) - 1
BY FS_AddElement, FS_RemoveElement

\* E is Q with task t at the end of its queue q.
Adds(E, Q, q, t) == E = [Q EXCEPT ![q] = Append(Q[q], t)]

\* The task id of t is neither waiting nor leased in queue q.
Unknown(Q, F, q, t) ==
    /\ \A i \in DOMAIN Q[q] : Q[q][i].task_id # t.task_id
    /\ \A l \in DOMAIN F : F[l].task.queue_name = q => F[l].task.task_id # t.task_id

\* A task id that is neither waiting nor leased may be added to its queue.
LEMMA EnqueuedPlaced ==
    ASSUME NEW Q, NEW F, NEW n, Placed(Q, F, n), Single(Q, F), IsFiniteSet(WaitingIn(Q)),
           NEW t \in ValidTask, NEW q, q = t.queue_name, Unknown(Q, F, q, t),
           NEW E, Adds(E, Q, q, t)
    PROVE  /\ Placed(E, F, n) /\ Single(E, F)
           /\ IsFiniteSet(WaitingIn(E)) /\ Cardinality(WaitingIn(E)) = Cardinality(WaitingIn(Q)) + 1
<1> DEFINE k == Len(Q[q]) + 1
<1>1. Q \in [QueueNames -> Seq(ValidTask)] /\ q \in QueueNames /\ Q[q] \in Seq(ValidTask)
  BY TaskFields DEF Placed
<1>2. /\ Append(Q[q], t) \in Seq(ValidTask)
      /\ DOMAIN Append(Q[q], t) = DOMAIN Q[q] \cup {k}
      /\ k \notin DOMAIN Q[q]
      /\ Append(Q[q], t)[k] = t
      /\ \A i \in DOMAIN Q[q] : Append(Q[q], t)[i] = Q[q][i]
  BY SMT, <1>1, AppendFacts
<1>3. /\ E \in [QueueNames -> Seq(ValidTask)]
      /\ E[q] = Append(Q[q], t)
      /\ \A p \in QueueNames : p # q => E[p] = Q[p]
  <2> DEFINE s == Append(Q[q], t)
  <2>1. s \in Seq(ValidTask) /\ E = [Q EXCEPT ![q] = s]
    BY <1>2 DEF Adds
  <2> HIDE DEF s
  <2>2. /\ E[q] = s
        /\ \A p \in QueueNames : p # q => E[p] = Q[p]
        /\ E \in [QueueNames -> Seq(ValidTask)]
    BY <1>1, <2>1, QueueUpdate
  <2> QED BY <2>2 DEF s
<1> HIDE DEF k
<1>4. /\ DOMAIN E[q] = DOMAIN Q[q] \cup {k}
      /\ E[q][k] = t
      /\ \A i \in DOMAIN Q[q] : E[q][i] = Q[q][i]
  BY <1>2, <1>3
<1>5. \A p \in QueueNames : \A i \in DOMAIN E[p] :
         (p = q /\ i = k) \/ (i \in DOMAIN Q[p] /\ E[p][i] = Q[p][i] /\ ~(p = q /\ i = k))
  <2> SUFFICES ASSUME NEW p \in QueueNames, NEW i \in DOMAIN E[p]
               PROVE  \/ p = q /\ i = k
                      \/ i \in DOMAIN Q[p] /\ E[p][i] = Q[p][i] /\ ~(p = q /\ i = k)
    OBVIOUS
  <2>1. CASE p = q
    BY <1>2, <1>4, <2>1
  <2>2. CASE p # q
    <3>1. E[p] = Q[p]
      BY <1>3, <2>2
    <3> QED BY <2>2, <3>1
  <2> QED BY <2>1, <2>2
<1>6. Placed(E, F, n)
  <2>1. ASSUME NEW p \in QueueNames, NEW i \in DOMAIN E[p] PROVE E[p][i].queue_name = p
    <3>1. CASE p = q /\ i = k
      BY <1>4, <3>1
    <3>2. CASE i \in DOMAIN Q[p] /\ E[p][i] = Q[p][i]
      BY <3>2 DEF Placed
    <3> QED BY <1>5, <3>1, <3>2
  <2> QED BY <1>3, <2>1 DEF Placed
<1>7. Single(E, F)
  <2>1. ASSUME NEW p \in QueueNames, NEW i \in DOMAIN E[p], NEW j \in DOMAIN E[p],
               E[p][i].task_id = E[p][j].task_id
        PROVE  i = j
    <3>1. CASE p = q /\ (i = k \/ j = k)
      <4>1. \A x \in DOMAIN E[q] : E[q][x].task_id = t.task_id => x = k
        BY <1>4 DEF Unknown
      <4>2. E[q][i].task_id = t.task_id /\ E[q][j].task_id = t.task_id
        BY <1>4, <2>1, <3>1
      <4> QED BY <3>1, <4>1, <4>2
    <3>2. CASE ~(p = q /\ (i = k \/ j = k))
      <4>1. i \in DOMAIN Q[p] /\ j \in DOMAIN Q[p] /\ E[p][i] = Q[p][i] /\ E[p][j] = Q[p][j]
        BY <1>5, <3>2
      <4> QED BY <2>1, <4>1 DEF Single
    <3> QED BY <3>1, <3>2
  <2>2. ASSUME NEW p \in QueueNames, NEW i \in DOMAIN E[p], NEW l \in DOMAIN F, F[l].task.queue_name = p
        PROVE  E[p][i].task_id # F[l].task.task_id
    <3>1. CASE p = q /\ i = k
      BY <1>4, <2>2, <3>1 DEF Unknown
    <3>2. CASE i \in DOMAIN Q[p] /\ E[p][i] = Q[p][i]
      <4>1. \A x \in QueueNames : \A y \in DOMAIN Q[x] : \A z \in DOMAIN F :
               F[z].task.queue_name = x => Q[x][y].task_id # F[z].task.task_id
        BY DEF Single
      <4>2. Q[p][i].task_id # F[l].task.task_id
        BY <2>2, <3>2, <4>1
      <4> QED BY <3>2, <4>2
    <3> QED BY <1>5, <3>1, <3>2
  <2> QED BY <2>1, <2>2 DEF Single
<1>8. WaitingIn(E) = WaitingIn(Q) \cup {<<q, k>>} /\ <<q, k>> \notin WaitingIn(Q)
  <2>1. \A p : p \in WaitingIn(E) <=> p = <<p[1], p[2]>> /\ p[1] \in QueueNames /\ p[2] \in DOMAIN E[p[1]]
    BY PlacesAre
  <2>2. \A p : p \in WaitingIn(Q) <=> p = <<p[1], p[2]>> /\ p[1] \in QueueNames /\ p[2] \in DOMAIN Q[p[1]]
    BY PlacesAre
  <2>3. \A p : p = <<q, k>> <=> p = <<p[1], p[2]>> /\ p[1] = q /\ p[2] = k
    BY SMT
  <2>4. \A p \in QueueNames : \A i : i \in DOMAIN E[p] <=> i \in DOMAIN Q[p] \/ (p = q /\ i = k)
    BY <1>1, <1>3, <1>4
  <2>5. <<q, k>> \notin WaitingIn(Q)
    BY <1>2, <2>2, <2>3
  <2>6. \A p : p \in WaitingIn(E) <=> p \in WaitingIn(Q) \/ p = <<q, k>>
    BY <1>1, <2>1, <2>2, <2>3, <2>4
  <2> QED BY <2>5, <2>6
<1>9. IsFiniteSet(WaitingIn(E)) /\ Cardinality(WaitingIn(E)) = Cardinality(WaitingIn(Q)) + 1
  <2>1. /\ IsFiniteSet(WaitingIn(Q) \cup {<<q, k>>})
        /\ Cardinality(WaitingIn(Q) \cup {<<q, k>>}) = Cardinality(WaitingIn(Q)) + 1
    BY <1>8, OneMore
  <2> QED BY <1>8, <2>1
<1> QED BY <1>6, <1>7, <1>9

\* E is Q without the first task of queue q, and G is F with lease r under number n.
Takes(E, Q, q) == E = [Q EXCEPT ![q] = Tail(Q[q])]

Grants(G, F, n, r) == G = [l \in DOMAIN F \cup {n} |-> IF l = n THEN r ELSE F[l]]

\* The position in Q of the task at position i of queue p once q has lost its first.
Before(q, p, i) == IF p = q THEN i + 1 ELSE i

\* Queues E and leases G hold the tasks of Q and F, one of them newly leased.
LeasedFrom(E, G, Q, F, n) ==
    /\ Placed(E, G, n + 1) /\ Single(E, G) /\ IsFiniteSet(WaitingIn(E))
    /\ Cardinality(WaitingIn(E)) = Cardinality(WaitingIn(Q)) - 1
    /\ Cardinality(DOMAIN G) = Cardinality(DOMAIN F) + 1

\* The first task of a queue may move into a lease of the next number.
LEMMA LeasedPlaced ==
    ASSUME NEW Q, NEW F, NEW n, Placed(Q, F, n), Single(Q, F), IsFiniteSet(WaitingIn(Q)),
           NEW q \in QueueNames, Q[q] # <<>>, NEW E, Takes(E, Q, q),
           NEW r \in Lease, r.task = Head(Q[q]), NEW G, Grants(G, F, n + 1, r)
    PROVE  LeasedFrom(E, G, Q, F, n)
<1>1. Q \in [QueueNames -> Seq(ValidTask)] /\ Q[q] \in Seq(ValidTask)
  BY DEF Placed
<1>2. /\ Tail(Q[q]) \in Seq(ValidTask) /\ Head(Q[q]) = Q[q][1] /\ 1 \in DOMAIN Q[q]
      /\ Len(Q[q]) \in Nat
      /\ DOMAIN Q[q] = 1 .. Len(Q[q]) /\ DOMAIN Tail(Q[q]) = 1 .. (Len(Q[q]) - 1)
      /\ \A i \in DOMAIN Tail(Q[q]) :
            i + 1 \in DOMAIN Q[q] /\ i + 1 # 1 /\ Tail(Q[q])[i] = Q[q][i + 1]
      /\ \A i, j \in DOMAIN Tail(Q[q]) : i + 1 = j + 1 => i = j
  BY SMT, <1>1, TailFacts
<1>3. /\ E \in [QueueNames -> Seq(ValidTask)] /\ E[q] = Tail(Q[q])
      /\ \A p \in QueueNames : p # q => E[p] = Q[p]
  <2> DEFINE s == Tail(Q[q])
  <2>1. s \in Seq(ValidTask) /\ E = [Q EXCEPT ![q] = s]
    BY <1>2 DEF Takes
  <2> HIDE DEF s
  <2>2. /\ E[q] = s
        /\ \A p \in QueueNames : p # q => E[p] = Q[p]
        /\ E \in [QueueNames -> Seq(ValidTask)]
    BY <1>1, <2>1, QueueUpdate
  <2> QED BY <2>2 DEF s
<1>4. \A p \in QueueNames : \A i \in DOMAIN E[p] :
         /\ Before(q, p, i) \in DOMAIN Q[p] /\ E[p][i] = Q[p][Before(q, p, i)]
         /\ p = q => Before(q, p, i) # 1
         /\ \A j \in DOMAIN E[p] : Before(q, p, i) = Before(q, p, j) => i = j
  <2> SUFFICES ASSUME NEW p \in QueueNames, NEW i \in DOMAIN E[p]
               PROVE  /\ Before(q, p, i) \in DOMAIN Q[p] /\ E[p][i] = Q[p][Before(q, p, i)]
                      /\ p = q => Before(q, p, i) # 1
                      /\ \A j \in DOMAIN E[p] : Before(q, p, i) = Before(q, p, j) => i = j
    OBVIOUS
  <2>1. CASE p = q
    <3>1. E[p] = Tail(Q[q]) /\ \A j : Before(q, p, j) = j + 1
      BY <1>3, <2>1 DEF Before
    <3>2. i \in DOMAIN Tail(Q[q]) /\ DOMAIN E[p] = DOMAIN Tail(Q[q])
      BY <3>1
    <3> QED BY SMT, <1>2, <2>1, <3>1, <3>2
  <2>2. CASE p # q
    <3>1. E[p] = Q[p] /\ \A j : Before(q, p, j) = j
      BY <1>3, <2>2 DEF Before
    <3> QED BY SMT, <2>2, <3>1
  <2> QED BY <2>1, <2>2
<1>5. /\ DOMAIN G = DOMAIN F \cup {n + 1} /\ G[n + 1] = r /\ \A l \in DOMAIN F : G[l] = F[l]
      /\ n \in Nat /\ n + 1 \in Nat /\ n + 1 \notin DOMAIN F
      /\ IsFiniteSet(DOMAIN F) /\ Cardinality(DOMAIN F) \in Nat
  <2>1. n \in Nat /\ n + 1 \in Nat /\ n + 1 \notin DOMAIN F /\ IsFiniteSet(DOMAIN F) /\ Cardinality(DOMAIN F) \in Nat
    BY LeasesFinite
  <2>2. DOMAIN G = DOMAIN F \cup {n + 1} /\ G[n + 1] = r
    BY DEF Grants
  <2>3. \A l \in DOMAIN F : l # n + 1
    BY <2>1
  <2>4. \A l \in DOMAIN F : G[l] = F[l]
    BY <2>3 DEF Grants
  <2> QED BY <2>1, <2>2, <2>4
<1>6. r.task = Q[q][1] /\ r.task.queue_name = q
  BY SMT, <1>2 DEF Placed
<1>7. Placed(E, G, n + 1)
  <2>1. ASSUME NEW p \in QueueNames, NEW i \in DOMAIN E[p] PROVE E[p][i].queue_name = p
    BY SMT, <1>4 DEF Placed
  <2>2. G \in [DOMAIN G -> Lease]
    <3>1. \A l \in DOMAIN F : F[l] \in Lease
      BY DEF Placed
    <3>2. \A l \in DOMAIN G : G[l] \in Lease
      BY <1>5, <3>1
    <3>3. G = [l \in DOMAIN G |-> G[l]]
      BY DEF Grants
    <3> QED BY <3>2, <3>3
  <2>3. DOMAIN G \subseteq 1 .. (n + 1)
    <3>1. DOMAIN F \subseteq 1 .. n
      BY DEF Placed
    <3>2. 1 .. n \subseteq 1 .. (n + 1) /\ n + 1 \in 1 .. (n + 1)
      BY SMT, <1>5
    <3> QED BY <1>5, <3>1, <3>2
  <2> QED BY <1>3, <1>5, <2>1, <2>2, <2>3 DEF Placed
<1>8. Single(E, G)
  <2>1. \A p \in QueueNames : \A i, j \in DOMAIN Q[p] : Q[p][i].task_id = Q[p][j].task_id => i = j
    BY DEF Single
  <2>2. \A p \in QueueNames : \A i \in DOMAIN Q[p] : \A l \in DOMAIN F :
           F[l].task.queue_name = p => Q[p][i].task_id # F[l].task.task_id
    BY DEF Single
  <2>3. \A l, m \in DOMAIN F :
           /\ F[l].task.task_id = F[m].task.task_id
           /\ F[l].task.queue_name = F[m].task.queue_name
           => l = m
    BY DEF Single
  <2>4. ASSUME NEW p \in QueueNames, NEW i \in DOMAIN E[p], NEW j \in DOMAIN E[p],
               E[p][i].task_id = E[p][j].task_id
        PROVE  i = j
    <3>1. Before(q, p, i) = Before(q, p, j)
      BY SMT, <1>4, <2>1, <2>4
    <3> QED BY <1>4, <3>1
  <2>5. ASSUME NEW p \in QueueNames, NEW i \in DOMAIN E[p], NEW l \in DOMAIN G, G[l].task.queue_name = p
        PROVE  E[p][i].task_id # G[l].task.task_id
    <3>1. CASE l = n + 1
      <4>1. p = q /\ G[l].task = Q[q][1]
        BY <1>5, <1>6, <2>5, <3>1
      <4>2. Before(q, q, i) \in DOMAIN Q[q] /\ Before(q, q, i) # 1 /\ E[q][i] = Q[q][Before(q, q, i)]
        BY <1>4, <4>1
      <4>3. Q[q][Before(q, q, i)].task_id # Q[q][1].task_id
        BY <1>2, <2>1, <4>2
      <4> QED BY <4>1, <4>2, <4>3
    <3>2. CASE l # n + 1
      <4>1. l \in DOMAIN F /\ G[l] = F[l]
        BY <1>5, <3>2
      <4>2. Before(q, p, i) \in DOMAIN Q[p] /\ E[p][i] = Q[p][Before(q, p, i)]
        BY <1>4
      <4>3. F[l].task.queue_name = p
        BY <2>5, <4>1
      <4>4. Q[p][Before(q, p, i)].task_id # F[l].task.task_id
        BY <2>2, <4>1, <4>2, <4>3
      <4> QED BY <4>1, <4>2, <4>4
    <3> QED BY <3>1, <3>2
  <2>6. \A m \in DOMAIN F : F[m].task.queue_name = q => F[m].task.task_id # r.task.task_id
    BY ZenonT(30), <1>2, <1>6, <2>2
  <2>7. ASSUME NEW l \in DOMAIN G, NEW m \in DOMAIN G, G[l].task.task_id = G[m].task.task_id,
               G[l].task.queue_name = G[m].task.queue_name
        PROVE  l = m
    <3>1. CASE l = n + 1 /\ m # n + 1
      BY <1>5, <1>6, <2>6, <2>7, <3>1
    <3>2. CASE l # n + 1 /\ m = n + 1
      BY <1>5, <1>6, <2>6, <2>7, <3>2
    <3>3. CASE l # n + 1 /\ m # n + 1
      BY <1>5, <2>3, <2>7, <3>3
    <3> QED BY <3>1, <3>2, <3>3
  <2> QED BY <2>4, <2>5, <2>7 DEF Single
<1>9. IsFiniteSet(WaitingIn(E)) /\ Cardinality(WaitingIn(E)) = Cardinality(WaitingIn(Q)) - 1
  <2> DEFINE k == Len(Q[q])
  <2>1. \A p : p \in WaitingIn(E) <=> p = <<p[1], p[2]>> /\ p[1] \in QueueNames /\ p[2] \in DOMAIN E[p[1]]
    BY PlacesAre
  <2>2. \A p : p \in WaitingIn(Q) <=> p = <<p[1], p[2]>> /\ p[1] \in QueueNames /\ p[2] \in DOMAIN Q[p[1]]
    BY PlacesAre
  <2>3. \A p : p = <<q, k>> <=> p = <<p[1], p[2]>> /\ p[1] = q /\ p[2] = k
    BY SMT
  <2>4. k \in DOMAIN Q[q] /\ \A i : i \in DOMAIN E[q] <=> i \in DOMAIN Q[q] /\ i # k
    BY SMT, <1>2, <1>3
  <2> HIDE DEF k
  <2>5. \A p \in QueueNames : \A i : i \in DOMAIN E[p] <=> i \in DOMAIN Q[p] /\ ~(p = q /\ i = k)
    <3> SUFFICES ASSUME NEW p \in QueueNames, NEW i
                 PROVE  i \in DOMAIN E[p] <=> i \in DOMAIN Q[p] /\ ~(p = q /\ i = k)
      OBVIOUS
    <3>1. CASE p = q
      BY <2>4, <3>1
    <3>2. CASE p # q
      BY <1>3, <3>2
    <3> QED BY <3>1, <3>2
  <2>6. <<q, k>> \in WaitingIn(Q)
    BY <2>2, <2>3, <2>4
  <2>7. \A p : p \in WaitingIn(E) <=> p \in WaitingIn(Q) /\ p # <<q, k>>
    BY <2>1, <2>2, <2>3, <2>5
  <2>8. WaitingIn(E) = WaitingIn(Q) \ {<<q, k>>}
    BY <2>7
  <2>9. /\ IsFiniteSet(WaitingIn(Q) \ {<<q, k>>})
        /\ Cardinality(WaitingIn(Q) \ {<<q, k>>}) = Cardinality(WaitingIn(Q)) - 1
    BY <2>6, OneMore
  <2> QED BY <2>8, <2>9
<1>10. Cardinality(DOMAIN G) = Cardinality(DOMAIN F) + 1
  <2>1. Cardinality(DOMAIN F \cup {n + 1}) = Cardinality(DOMAIN F) + 1
    BY <1>5, OneMore
  <2> QED BY <1>5, <2>1
<1> QED BY <1>7, <1>8, <1>9, <1>10 DEF LeasedFrom

\* What Balanced counts with.
Numbered(W, D, dead, m, done) ==
    /\ Cardinality(W) \in Nat /\ Cardinality(D) \in Nat /\ Len(done) \in Nat /\ Len(dead) \in Nat
    /\ m.enqueued \in Nat /\ m.leased \in Nat /\ m.redelivered \in Nat /\ m.dead \in Nat

\* The parts of a good queue.
LEMMA QueueParts ==
    ASSUME NEW Q, NEW F, NEW n, NEW dead, NEW m, NEW done, QueueGood(Q, F, n, dead, m, done)
    PROVE  /\ Placed(Q, F, n) /\ Single(Q, F) /\ IsFiniteSet(WaitingIn(Q))
           /\ DeadLetters(dead) /\ m \in Metrics /\ done \in Seq(ValidTask)
           /\ Balanced(WaitingIn(Q), DOMAIN F, n, dead, m, done)
           /\ Numbered(WaitingIn(Q), DOMAIN F, dead, m, done)
<1>1. /\ Placed(Q, F, n) /\ Single(Q, F) /\ IsFiniteSet(WaitingIn(Q))
      /\ DeadLetters(dead) /\ m \in Metrics /\ done \in Seq(ValidTask)
      /\ Balanced(WaitingIn(Q), DOMAIN F, n, dead, m, done)
  BY DEF QueueGood
<1>2. Cardinality(WaitingIn(Q)) \in Nat /\ Cardinality(DOMAIN F) \in Nat
  BY <1>1, FS_CardinalityType, LeasesFinite
<1>3. dead \in Seq(DeadLetter)
  BY <1>1 DEF DeadLetters
<1>4. Len(done) \in Nat /\ Len(dead) \in Nat
  BY SMT, <1>1, <1>3
<1>5. m.enqueued \in Nat /\ m.leased \in Nat /\ m.redelivered \in Nat /\ m.dead \in Nat
  BY <1>1 DEF Metrics
<1> QED BY <1>1, <1>2, <1>4, <1>5 DEF Numbered

\* The tasks stay accounted for when one is enqueued.
LEMMA BalancedIn ==
    ASSUME NEW W, NEW D, NEW n, NEW dead, NEW m, NEW done, Balanced(W, D, n, dead, m, done),
           Numbered(W, D, dead, m, done), NEW V, NEW u,
           Cardinality(V) = Cardinality(W) + 1, u.enqueued = m.enqueued + 1,
           u.leased = m.leased, u.redelivered = m.redelivered, u.dead = m.dead
    PROVE  Balanced(V, D, n, dead, u, done)
<1> DEFINE w == Cardinality(W)
           d == Cardinality(D)
           a == Len(done)
           x == Len(dead)
<1>0. w \in Nat /\ d \in Nat /\ a \in Nat /\ x \in Nat /\ m.redelivered \in Nat /\ m.dead \in Nat
  BY DEF Numbered
<1>1. (w + 1) + d + a + x = (w + d + a + x) + 1
  <2> HIDE DEF w, d, a, x
  <2> QED BY SMT, <1>0
<1>2. /\ m.enqueued = w + d + a + x /\ m.leased = d + a + m.redelivered + m.dead
      /\ m.dead = x /\ m.leased = n
  BY DEF Balanced
<1>3. u.enqueued = Cardinality(V) + d + a + x
  <2>1. Cardinality(V) + d + a + x = (w + 1) + d + a + x
    OBVIOUS
  <2>2. u.enqueued = (w + d + a + x) + 1
    BY <1>2
  <2> HIDE DEF w, d, a, x
  <2> QED BY <1>1, <2>1, <2>2
<1>4. u.leased = d + a + u.redelivered + u.dead /\ u.dead = x /\ u.leased = n
  BY <1>2
<1> QED BY <1>3, <1>4 DEF Balanced

\* They stay accounted for when one is leased.
LEMMA BalancedLeased ==
    ASSUME NEW W, NEW D, NEW n, NEW dead, NEW m, NEW done, Balanced(W, D, n, dead, m, done),
           Numbered(W, D, dead, m, done), NEW V, NEW C, NEW u,
           Cardinality(V) = Cardinality(W) - 1, Cardinality(C) = Cardinality(D) + 1,
           u.enqueued = m.enqueued, u.leased = m.leased + 1,
           u.redelivered = m.redelivered, u.dead = m.dead
    PROVE  Balanced(V, C, n + 1, dead, u, done)
<1> DEFINE w == Cardinality(W)
           d == Cardinality(D)
           a == Len(done)
           x == Len(dead)
<1>0. w \in Nat /\ d \in Nat /\ a \in Nat /\ x \in Nat /\ m.redelivered \in Nat /\ m.dead \in Nat
  BY DEF Numbered
<1>1. (w - 1) + (d + 1) + a + x = w + d + a + x
  <2> HIDE DEF w, d, a, x
  <2> QED BY SMT, <1>0
<1>2. (d + 1) + a + m.redelivered + m.dead = (d + a + m.redelivered + m.dead) + 1
  <2> HIDE DEF w, d, a, x
  <2> QED BY SMT, <1>0
<1>3. /\ m.enqueued = w + d + a + x /\ m.leased = d + a + m.redelivered + m.dead
      /\ m.dead = x /\ m.leased = n
  BY DEF Balanced
<1>4. u.enqueued = Cardinality(V) + Cardinality(C) + a + x
  <2>1. Cardinality(V) + Cardinality(C) + a + x = (w - 1) + (d + 1) + a + x
    OBVIOUS
  <2>2. u.enqueued = w + d + a + x
    BY <1>3
  <2> HIDE DEF w, d, a, x
  <2> QED BY <1>1, <2>1, <2>2
<1>5. u.leased = Cardinality(C) + a + u.redelivered + u.dead
  <2>1. Cardinality(C) + a + u.redelivered + u.dead = (d + 1) + a + m.redelivered + m.dead
    OBVIOUS
  <2>2. u.leased = (d + a + m.redelivered + m.dead) + 1
    BY <1>3
  <2> HIDE DEF d, a
  <2> QED BY <1>2, <2>1, <2>2
<1>6. u.dead = x /\ u.leased = n + 1
  BY <1>3
<1> QED BY <1>4, <1>5, <1>6 DEF Balanced

\* They stay accounted for when one is acknowledged.
LEMMA BalancedDone ==
    ASSUME NEW W, NEW D, NEW n, NEW dead, NEW m, NEW done, Balanced(W, D, n, dead, m, done),
           Numbered(W, D, dead, m, done), NEW C, NEW e,
           Cardinality(C) = Cardinality(D) - 1, Len(e) = Len(done) + 1
    PROVE  Balanced(W, C, n, dead, m, e)
<1> DEFINE w == Cardinality(W)
           d == Cardinality(D)
           a == Len(done)
           x == Len(dead)
<1>0. w \in Nat /\ d \in Nat /\ a \in Nat /\ x \in Nat /\ m.redelivered \in Nat /\ m.dead \in Nat
  BY DEF Numbered
<1>1. w + (d - 1) + (a + 1) + x = w + d + a + x
  <2> HIDE DEF w, d, a, x
  <2> QED BY SMT, <1>0
<1>2. (d - 1) + (a + 1) + m.redelivered + m.dead = d + a + m.redelivered + m.dead
  <2> HIDE DEF w, d, a, x
  <2> QED BY SMT, <1>0
<1>3. /\ m.enqueued = w + d + a + x /\ m.leased = d + a + m.redelivered + m.dead
      /\ m.dead = x /\ m.leased = n
  BY DEF Balanced
<1>4. m.enqueued = w + Cardinality(C) + Len(e) + x
  <2>1. w + Cardinality(C) + Len(e) + x = w + (d - 1) + (a + 1) + x
    OBVIOUS
  <2> HIDE DEF w, d, a, x
  <2> QED BY <1>1, <1>3, <2>1
<1>5. m.leased = Cardinality(C) + Len(e) + m.redelivered + m.dead
  <2>1. Cardinality(C) + Len(e) + m.redelivered + m.dead = (d - 1) + (a + 1) + m.redelivered + m.dead
    OBVIOUS
  <2> HIDE DEF d, a
  <2> QED BY <1>2, <1>3, <2>1
<1> QED BY <1>3, <1>4, <1>5 DEF Balanced

\* Counting one more task in.
LEMMA MetricsUp ==
    ASSUME NEW m \in Metrics
    PROVE  /\ [m EXCEPT !.enqueued = @ + 1] \in Metrics
           /\ [m EXCEPT !.enqueued = @ + 1].enqueued = m.enqueued + 1
           /\ [m EXCEPT !.enqueued = @ + 1].leased = m.leased
           /\ [m EXCEPT !.enqueued = @ + 1].redelivered = m.redelivered
           /\ [m EXCEPT !.enqueued = @ + 1].dead = m.dead
           /\ [m EXCEPT !.leased = @ + 1] \in Metrics
           /\ [m EXCEPT !.leased = @ + 1].enqueued = m.enqueued
           /\ [m EXCEPT !.leased = @ + 1].leased = m.leased + 1
           /\ [m EXCEPT !.leased = @ + 1].redelivered = m.redelivered
           /\ [m EXCEPT !.leased = @ + 1].dead = m.dead
<1>1. m.enqueued \in Nat /\ m.leased \in Nat
  BY DEF Metrics
<1>2. m.enqueued + 1 \in Nat /\ m.leased + 1 \in Nat
  BY SMT, <1>1
<1> QED BY <1>2 DEF Metrics

\* enqueue: the task waits and is counted.
LEMMA EnqueuedGood ==
    ASSUME NEW Q, NEW F, NEW n, NEW dead, NEW m, NEW done, QueueGood(Q, F, n, dead, m, done),
           NEW t \in ValidTask, NEW q, q = t.queue_name, Unknown(Q, F, q, t),
           NEW E, Adds(E, Q, q, t)
    PROVE  QueueGood(E, F, n, dead, [m EXCEPT !.enqueued = @ + 1], done)
<1> DEFINE u == [m EXCEPT !.enqueued = @ + 1]
<1>1. /\ Placed(Q, F, n) /\ Single(Q, F) /\ IsFiniteSet(WaitingIn(Q))
      /\ DeadLetters(dead) /\ m \in Metrics /\ done \in Seq(ValidTask)
      /\ Balanced(WaitingIn(Q), DOMAIN F, n, dead, m, done)
      /\ Numbered(WaitingIn(Q), DOMAIN F, dead, m, done)
  BY QueueParts
<1>2. /\ Placed(E, F, n) /\ Single(E, F)
      /\ IsFiniteSet(WaitingIn(E)) /\ Cardinality(WaitingIn(E)) = Cardinality(WaitingIn(Q)) + 1
  BY <1>1, EnqueuedPlaced
<1>3. /\ u \in Metrics /\ u.enqueued = m.enqueued + 1 /\ u.leased = m.leased
      /\ u.redelivered = m.redelivered /\ u.dead = m.dead
  BY <1>1, MetricsUp
<1> HIDE DEF u
<1>4. Balanced(WaitingIn(E), DOMAIN F, n, dead, u, done)
  BY <1>1, <1>2, <1>3, BalancedIn
<1>5. QueueGood(E, F, n, dead, u, done)
  BY <1>1, <1>2, <1>3, <1>4 DEF QueueGood
<1> QED BY <1>5 DEF u

\* lease: the first task of a queue is leased and counted.
LEMMA LeasedGood ==
    ASSUME NEW Q, NEW F, NEW n, NEW dead, NEW m, NEW done, QueueGood(Q, F, n, dead, m, done),
           NEW q \in QueueNames, Q[q] # <<>>, NEW E, Takes(E, Q, q),
           NEW r \in Lease, r.task = Head(Q[q]), NEW G, Grants(G, F, n + 1, r)
    PROVE  QueueGood(E, G, n + 1, dead, [m EXCEPT !.leased = @ + 1], done)
<1> DEFINE u == [m EXCEPT !.leased = @ + 1]
<1>1. /\ Placed(Q, F, n) /\ Single(Q, F) /\ IsFiniteSet(WaitingIn(Q))
      /\ DeadLetters(dead) /\ m \in Metrics /\ done \in Seq(ValidTask)
      /\ Balanced(WaitingIn(Q), DOMAIN F, n, dead, m, done)
      /\ Numbered(WaitingIn(Q), DOMAIN F, dead, m, done)
  BY QueueParts
<1>2. /\ Placed(E, G, n + 1) /\ Single(E, G) /\ IsFiniteSet(WaitingIn(E))
      /\ Cardinality(WaitingIn(E)) = Cardinality(WaitingIn(Q)) - 1
      /\ Cardinality(DOMAIN G) = Cardinality(DOMAIN F) + 1
  <2>1. Placed(Q, F, n) /\ Single(Q, F) /\ IsFiniteSet(WaitingIn(Q))
    BY <1>1
  <2>2. LeasedFrom(E, G, Q, F, n)
    BY <2>1, LeasedPlaced
  <2> QED BY <2>2 DEF LeasedFrom
<1>3. /\ u \in Metrics /\ u.enqueued = m.enqueued /\ u.leased = m.leased + 1
      /\ u.redelivered = m.redelivered /\ u.dead = m.dead
  BY <1>1, MetricsUp
<1> HIDE DEF u
<1>4. Balanced(WaitingIn(E), DOMAIN G, n + 1, dead, u, done)
  BY <1>1, <1>2, <1>3, BalancedLeased
<1>5. QueueGood(E, G, n + 1, dead, u, done)
  BY <1>1, <1>2, <1>3, <1>4 DEF QueueGood
<1> QED BY <1>5 DEF u

\* F without lease l.
Without(G, F, l) == G = [k \in DOMAIN F \ {l} |-> F[k]]

\* ack: a leased task is acknowledged.
LEMMA AckedGood ==
    ASSUME NEW Q, NEW F, NEW n, NEW dead, NEW m, NEW done, QueueGood(Q, F, n, dead, m, done),
           NEW l \in DOMAIN F, NEW G, Without(G, F, l)
    PROVE  QueueGood(Q, G, n, dead, m, Append(done, F[l].task))
<1> DEFINE d == Append(done, F[l].task)
<1>1. /\ Placed(Q, F, n) /\ Single(Q, F) /\ IsFiniteSet(WaitingIn(Q))
      /\ DeadLetters(dead) /\ m \in Metrics /\ done \in Seq(ValidTask)
      /\ Balanced(WaitingIn(Q), DOMAIN F, n, dead, m, done)
      /\ Numbered(WaitingIn(Q), DOMAIN F, dead, m, done)
  BY QueueParts
<1>2. DOMAIN G = DOMAIN F \ {l} /\ \A k \in DOMAIN G : k \in DOMAIN F /\ G[k] = F[k]
  BY DEF Without
<1>3. Placed(Q, G, n)
  <2>1. /\ Q \in [QueueNames -> Seq(ValidTask)] /\ F \in [DOMAIN F -> Lease]
        /\ n \in Nat /\ DOMAIN F \subseteq 1 .. n
        /\ \A q \in QueueNames : \A i \in DOMAIN Q[q] : Q[q][i].queue_name = q
    BY <1>1 DEF Placed
  <2>2. \A k \in DOMAIN G : G[k] \in Lease
    BY <1>2, <2>1
  <2>3. G = [k \in DOMAIN G |-> G[k]]
    BY DEF Without
  <2>4. G \in [DOMAIN G -> Lease]
    BY <2>2, <2>3
  <2>5. DOMAIN G \subseteq 1 .. n
    BY <1>2, <2>1
  <2> QED BY <2>1, <2>4, <2>5 DEF Placed
<1>4. Single(Q, G)
  <2>1. /\ \A q \in QueueNames : \A i, j \in DOMAIN Q[q] : Q[q][i].task_id = Q[q][j].task_id => i = j
        /\ \A q \in QueueNames : \A i \in DOMAIN Q[q] : \A k \in DOMAIN F :
              F[k].task.queue_name = q => Q[q][i].task_id # F[k].task.task_id
        /\ \A k, o \in DOMAIN F :
              /\ F[k].task.task_id = F[o].task.task_id
              /\ F[k].task.queue_name = F[o].task.queue_name
              => k = o
    BY <1>1 DEF Single
  <2>2. \A q \in QueueNames : \A i \in DOMAIN Q[q] : \A k \in DOMAIN G :
           G[k].task.queue_name = q => Q[q][i].task_id # G[k].task.task_id
    BY SMTT(20), <1>2, <2>1
  <2>3. \A k, o \in DOMAIN G :
           /\ G[k].task.task_id = G[o].task.task_id
           /\ G[k].task.queue_name = G[o].task.queue_name
           => k = o
    BY SMT, <1>2, <2>1
  <2> QED BY <2>1, <2>2, <2>3 DEF Single
<1>5. Cardinality(DOMAIN G) = Cardinality(DOMAIN F) - 1
  <2>1. Cardinality(DOMAIN F \ {l}) = Cardinality(DOMAIN F) - 1
    BY <1>1, LeasesFinite, OneMore
  <2> QED BY <1>2, <2>1
<1>6. d \in Seq(ValidTask) /\ Len(d) = Len(done) + 1
  <2>1. F[l] \in Lease
    BY <1>1 DEF Placed
  <2>2. F[l].task \in ValidTask
    BY <2>1 DEF Lease
  <2> QED BY SMT, <1>1, <2>2, AppendFacts
<1> HIDE DEF d
<1>7. Balanced(WaitingIn(Q), DOMAIN G, n, dead, m, d)
  BY <1>1, <1>5, <1>6, BalancedDone
<1>8. QueueGood(Q, G, n, dead, m, d)
  BY <1>1, <1>3, <1>4, <1>6, <1>7 DEF QueueGood
<1> QED BY <1>8 DEF d

-----------------------------------------------------------------------------
(***************************************************************************)
(* The queue's operations keep QueueInv.                                   *)
(***************************************************************************)
\* Leases G were leases of F before, but for the one numbered n + 1.
Kept(G, F, n) == \A l \in DOMAIN G : l # n + 1 => l \in DOMAIN F /\ G[l] = F[l]

\* An envelope validate_task accepts is a task.
LEMMA EnvelopeTask ==
    ASSUME NEW task \in Envelopes, validate_task(task)
    PROVE  task \in ValidTask
BY QueueAssumption DEF ValidTask, QueueNames

\* enqueue keeps the queue good and touches no lease.
LEMMA EnqueueStep ==
    ASSUME QueueInv, NEW task \in Envelopes, enqueue(task)
    PROVE  QueueInv' /\ Kept(in_flight', in_flight, sequence)
<1> DEFINE q == task.queue_name
<1>1. /\ validate_task(task) /\ ~Known(task) /\ Adds(queues', queues, q, task)
      /\ metrics' = [metrics EXCEPT !.enqueued = @ + 1]
      /\ sequence' = sequence /\ in_flight' = in_flight
      /\ dead_letters' = dead_letters /\ acked' = acked
  BY DEF enqueue, Adds
<1>2. task \in ValidTask
  BY <1>1, EnvelopeTask
<1>3. Unknown(queues, in_flight, q, task)
  BY <1>1 DEF Known, Unknown
<1>4. QueueGood(queues, in_flight, sequence, dead_letters, metrics, acked)
  BY DEF QueueInv
<1>5. QueueGood(queues', in_flight, sequence, dead_letters, [metrics EXCEPT !.enqueued = @ + 1], acked)
  BY <1>1, <1>2, <1>3, <1>4, EnqueuedGood
<1>6. QueueInv'
  BY <1>1, <1>5 DEF QueueInv
<1>7. Kept(in_flight', in_flight, sequence)
  BY <1>1 DEF Kept
<1> QED BY <1>6, <1>7

\* Removing leases changes none of the others.
LEMMA WithoutFacts ==
    ASSUME NEW L
    PROVE  /\ DOMAIN InFlightWithout(L) = DOMAIN in_flight \ L
           /\ \A l \in DOMAIN in_flight \ L : InFlightWithout(L)[l] = in_flight[l]
           /\ InFlightWithout(L) = [l \in DOMAIN in_flight \ L |-> in_flight[l]]
BY DEF InFlightWithout

\* The leases a call finds expired or its own are leases.
LEMMA GoneFacts ==
    ASSUME NEW l, NEW worker_id, NEW now
    PROVE  /\ Expired(now) \in SUBSET DOMAIN in_flight
           /\ Owned(l, worker_id, now) \in SUBSET (DOMAIN in_flight \ Expired(now))
           /\ Owned(l, worker_id, now) # {} => Owned(l, worker_id, now) = {l}
           /\ Expired(now) \cup Owned(l, worker_id, now) \in SUBSET DOMAIN in_flight
BY DEF Expired, Owned

\* requeue keeps the queue good and only ends leases.
LEMMA RequeueStep ==
    ASSUME QueueInv, NEW l, NEW worker_id, NEW now, requeue(l, worker_id, now)
    PROVE  /\ QueueInv' /\ Kept(in_flight', in_flight, sequence)
           /\ sequence' = sequence /\ acked' = acked
           /\ DOMAIN in_flight' \subseteq DOMAIN in_flight
<1> DEFINE gone == Expired(now) \cup Owned(l, worker_id, now)
<1>1. /\ in_flight' = InFlightWithout(gone) /\ queues' = QueuesWith(gone)
      /\ dead_letters' = DeadLettersWith(gone, now) /\ metrics' = MetricsWith(gone)
      /\ sequence' = sequence /\ acked' = acked
  BY DEF requeue
<1>2. gone \in SUBSET DOMAIN in_flight
  BY GoneFacts
<1> HIDE DEF gone
<1>3. QueueGood(QueuesWith(gone), InFlightWithout(gone), sequence,
                DeadLettersWith(gone, now), MetricsWith(gone), acked)
  BY <1>2, SweepGood
<1>4. QueueInv'
  BY <1>1, <1>3 DEF QueueInv
<1>5. Kept(in_flight', in_flight, sequence) /\ DOMAIN in_flight' \subseteq DOMAIN in_flight
  BY <1>1, WithoutFacts DEF Kept
<1> QED BY <1>1, <1>4, <1>5

\* ack keeps the queue good, only ends leases, and acknowledges at most the task
\* of lease l.
LEMMA AckStep ==
    ASSUME QueueInv, NEW l, NEW worker_id, NEW now, ack(l, worker_id, now)
    PROVE  /\ QueueInv' /\ Kept(in_flight', in_flight, sequence)
           /\ sequence' = sequence
           /\ \/ acked' = acked
              \/ l \in DOMAIN in_flight /\ acked' = Append(acked, in_flight[l].task)
           /\ DOMAIN in_flight' \subseteq DOMAIN in_flight
<1> DEFINE gone == Expired(now)
           done == Owned(l, worker_id, now)
           F == InFlightWithout(gone)
<1>1. /\ in_flight' = InFlightWithout(gone \cup done) /\ queues' = QueuesWith(gone)
      /\ dead_letters' = DeadLettersWith(gone, now) /\ metrics' = MetricsWith(gone)
      /\ acked' = (IF done = {} THEN acked ELSE Append(acked, in_flight[l].task))
      /\ sequence' = sequence
  BY DEF ack
<1>2. /\ gone \in SUBSET DOMAIN in_flight /\ done \in SUBSET (DOMAIN in_flight \ gone)
      /\ done # {} => done = {l}
  BY GoneFacts
<1> HIDE DEF gone, done
<1>3. QueueGood(QueuesWith(gone), F, sequence, DeadLettersWith(gone, now), MetricsWith(gone), acked)
  BY <1>2, SweepGood
<1>4. Kept(in_flight', in_flight, sequence) /\ DOMAIN in_flight' \subseteq DOMAIN in_flight
  BY <1>1, WithoutFacts DEF Kept
<1>5. CASE done = {}
  <2>1. gone \cup done = gone /\ acked' = acked
    BY <1>1, <1>5
  <2>2. in_flight' = F
    BY <1>1, <2>1
  <2> HIDE DEF F
  <2>3. QueueInv'
    BY <1>1, <1>3, <2>1, <2>2 DEF QueueInv
  <2> QED BY <1>1, <1>4, <2>1, <2>3
<1>6. CASE done # {}
  <2>1. done = {l} /\ acked' = Append(acked, in_flight[l].task) /\ l \in DOMAIN in_flight \ gone
    BY <1>1, <1>2, <1>6
  <2>2. DOMAIN F = DOMAIN in_flight \ gone /\ \A k \in DOMAIN F : F[k] = in_flight[k]
    BY WithoutFacts
  <2>3. l \in DOMAIN F /\ F[l] = in_flight[l]
    BY <2>1, <2>2
  <2>4. Without(in_flight', F, l)
    <3>1. DOMAIN in_flight \ (gone \cup done) = DOMAIN F \ {l}
      BY <2>1, <2>2
    <3>2. in_flight' = [k \in DOMAIN in_flight \ (gone \cup done) |-> in_flight[k]]
      BY <1>1, WithoutFacts
    <3>3. in_flight' = [k \in DOMAIN F \ {l} |-> in_flight[k]]
      BY <3>1, <3>2
    <3>4. [k \in DOMAIN F \ {l} |-> in_flight[k]] = [k \in DOMAIN F \ {l} |-> F[k]]
      BY <2>2
    <3> QED BY <3>3, <3>4 DEF Without
  <2> HIDE DEF F
  <2>5. QueueGood(QueuesWith(gone), in_flight', sequence, DeadLettersWith(gone, now),
                  MetricsWith(gone), Append(acked, F[l].task))
    BY <1>3, <2>3, <2>4, AckedGood
  <2>6. QueueInv'
    BY <1>1, <2>1, <2>3, <2>5 DEF QueueInv
  <2> QED BY <1>1, <1>4, <2>1, <2>6
<1> QED BY <1>5, <1>6

\* lease keeps the queue good, ends leases and adds at most the one of the next
\* number.
LEMMA LeaseStep ==
    ASSUME QueueInv, NEW name, NEW worker_id \in Workers, NEW now \in Times,
           lease(name, worker_id, now)
    PROVE  /\ QueueInv' /\ Kept(in_flight', in_flight, sequence) /\ acked' = acked
           /\ \/ sequence' = sequence /\ DOMAIN in_flight' \subseteq DOMAIN in_flight
              \/ sequence' = sequence + 1 /\ sequence + 1 \in DOMAIN in_flight'
<1> DEFINE gone == Expired(now)
           swept == QueuesWith(gone)
           q == trim(name)
           waiting == IF q \in QueueNames THEN swept[q] ELSE <<>>
           live == InFlightWithout(gone)
           r == [task |-> Head(waiting), worker_id |-> worker_id,
                 expires_at |-> lease_expiry(Head(waiting), now)]
<1>1. /\ dead_letters' = DeadLettersWith(gone, now) /\ acked' = acked
      /\ IF waiting = <<>>
         THEN /\ queues' = swept /\ in_flight' = live /\ metrics' = MetricsWith(gone)
              /\ sequence' = sequence
         ELSE /\ queues' = [swept EXCEPT ![q] = Tail(@)]
              /\ sequence' = sequence + 1
              /\ in_flight' = [l \in DOMAIN live \cup {sequence + 1} |->
                                  IF l = sequence + 1 THEN r ELSE live[l]]
              /\ metrics' = [MetricsWith(gone) EXCEPT !.leased = @ + 1]
  BY DEF lease
<1>2. gone \in SUBSET DOMAIN in_flight
  BY GoneFacts
<1>3. /\ DOMAIN live = DOMAIN in_flight \ gone
      /\ \A l \in DOMAIN in_flight \ gone : live[l] = in_flight[l]
  BY WithoutFacts
<1> HIDE DEF gone
<1>4. QueueGood(swept, live, sequence, DeadLettersWith(gone, now), MetricsWith(gone), acked)
  BY <1>2, SweepGood
<1> HIDE DEF swept, live, r, waiting, q
<1>5. CASE waiting = <<>>
  <2>1. /\ queues' = swept /\ in_flight' = live /\ metrics' = MetricsWith(gone)
        /\ sequence' = sequence
    BY <1>1, <1>5
  <2>2. QueueInv'
    BY <1>1, <1>4, <2>1 DEF QueueInv
  <2>3. Kept(in_flight', in_flight, sequence) /\ DOMAIN in_flight' \subseteq DOMAIN in_flight
    BY <1>3, <2>1 DEF Kept
  <2> QED BY <1>1, <2>1, <2>2, <2>3
<1>6. CASE waiting # <<>>
  <2>1. /\ queues' = [swept EXCEPT ![q] = Tail(swept[q])]
        /\ sequence' = sequence + 1
        /\ metrics' = [MetricsWith(gone) EXCEPT !.leased = @ + 1]
    BY <1>1, <1>6
  <2>2. Grants(in_flight', live, sequence + 1, r)
    BY <1>1, <1>6 DEF Grants
  <2>3. Takes(queues', swept, q)
    BY <2>1 DEF Takes
  <2>4. q \in QueueNames /\ waiting = swept[q]
    BY <1>6 DEF waiting
  <2>5. swept[q] # <<>>
    BY <1>6, <2>4
  <2>6. swept[q] \in Seq(ValidTask)
    BY <1>4, <2>4 DEF QueueGood, Placed
  <2>7. Head(swept[q]) \in ValidTask
    BY SMT, <2>5, <2>6
  <2>8. r.task = Head(swept[q]) /\ r \in Lease
    <3>1. Head(waiting) \in ValidTask
      BY <2>4, <2>7
    <3>2. lease_expiry(Head(waiting), now) \in Nat
      <4>1. Head(waiting).visibility_timeout \in Nat
        BY <3>1 DEF ValidTask, QueueTaskEnvelope
      <4>2. now \in Nat
        BY QueueAssumption
      <4> QED BY SMT, <4>1, <4>2 DEF lease_expiry
    <3>3. r \in Lease
      BY <3>1, <3>2 DEF r, Lease
    <3>4. r.task = Head(waiting)
      BY DEF r
    <3> QED BY <2>4, <3>3, <3>4
  <2>9. QueueGood(queues', in_flight', sequence + 1, DeadLettersWith(gone, now),
                  [MetricsWith(gone) EXCEPT !.leased = @ + 1], acked)
    BY <1>4, <2>2, <2>3, <2>4, <2>5, <2>8, LeasedGood
  <2>10. QueueInv'
    BY <1>1, <2>1, <2>9 DEF QueueInv
  <2>11. /\ DOMAIN in_flight' = DOMAIN live \cup {sequence + 1}
         /\ \A l \in DOMAIN live : l # sequence + 1 => in_flight'[l] = live[l]
    BY <2>2 DEF Grants
  <2>12. Kept(in_flight', in_flight, sequence)
    BY <1>3, <2>11 DEF Kept
  <2> QED BY <1>1, <2>1, <2>10, <2>11, <2>12
<1> QED BY <1>5, <1>6

-----------------------------------------------------------------------------
(***************************************************************************)
(* The worker node's operations.                                           *)
(***************************************************************************)
\* Record r may take the place of execution x.
Follows(r, x) ==
    /\ r.idempotency_key = x.idempotency_key /\ r.lease_id = x.lease_id
    /\ x.state # "Running" => r.state = x.state /\ r.output = x.output
    /\ x.cancellation_intent => r.cancellation_intent

Exact(x) == x.output <=> x.state = "Completed"

\* Executions Y continue those of X.
Continues(Y, X) == \A e \in DOMAIN X : e \in DOMAIN Y /\ Follows(Y[e], X[e])

\* The index leads to the executions X under its keys.
Indexed(X) ==
    \A k \in DOMAIN idempotency_index :
        /\ idempotency_index[k] \in DOMAIN X
        /\ X[idempotency_index[k]].idempotency_key = k
        /\ trim(k) = k

\* The parts of NodeInv.
LEMMA NodeParts ==
    NodeInv <=> /\ executions \in Seq(ExecutionRecord)
                /\ Indexed(executions)
                /\ \A e \in DOMAIN executions : Exact(executions[e])
BY DEF NodeInv, Indexed, Exact

\* Replacing one element of a sequence.
LEMMA ReplaceFacts ==
    ASSUME NEW S, NEW s \in Seq(S), NEW e \in DOMAIN s, NEW r \in S
    PROVE  /\ [s EXCEPT ![e] = r] \in Seq(S) /\ DOMAIN [s EXCEPT ![e] = r] = DOMAIN s
           /\ [s EXCEPT ![e] = r][e] = r
           /\ \A d \in DOMAIN s : d # e => [s EXCEPT ![e] = r][d] = s[d]
BY SMT

\* An execution replaced by a record that may take its place.
Replaces(X, e, r) == X = [executions EXCEPT ![e] = r]

\* heartbeat, complete and cancel replace one execution.
LEMMA ReplaceStep ==
    ASSUME NodeInv, NEW e \in DOMAIN executions, NEW r \in ExecutionRecord,
           Follows(r, executions[e]), Exact(r), Replaces(executions', e, r),
           idempotency_index' = idempotency_index
    PROVE  NodeInv' /\ Continues(executions', executions) /\ (KeysInv => KeysInv')
<1>1. /\ executions \in Seq(ExecutionRecord) /\ Indexed(executions)
      /\ \A d \in DOMAIN executions : Exact(executions[d])
  BY NodeParts
<1>2. /\ executions' \in Seq(ExecutionRecord) /\ DOMAIN executions' = DOMAIN executions
      /\ executions'[e] = r /\ \A d \in DOMAIN executions : d # e => executions'[d] = executions[d]
  BY SMT, <1>1, ReplaceFacts DEF Replaces
<1>3. \A x : Follows(x, x)
  BY DEF Follows
<1>4. Continues(executions', executions)
  BY <1>2, <1>3 DEF Continues
<1>5. \A d \in DOMAIN executions' : Exact(executions'[d])
  BY <1>1, <1>2
<1>6. \A d \in DOMAIN executions : executions'[d].idempotency_key = executions[d].idempotency_key
  BY <1>4 DEF Continues, Follows
<1>7. Indexed(executions)'
  BY <1>1, <1>2, <1>6 DEF Indexed
<1>8. KeysInv => KeysInv'
  BY <1>2, <1>6 DEF KeysInv
<1>9. NodeInv'
  BY <1>2, <1>5, <1>7 DEF NodeInv, Indexed, Exact
<1> QED BY <1>4, <1>8, <1>9

\* What an execution becomes by a heartbeat in time and one too late, by its
\* completion and by its cancellation.
LEMMA RecordSteps ==
    ASSUME NEW x \in ExecutionRecord, Exact(x), NEW now \in Nat
    PROVE  /\ LET r == [x EXCEPT !.last_heartbeat = now]
              IN  r \in ExecutionRecord /\ Follows(r, x) /\ Exact(r)
           /\ x.state = "Running" =>
                 \A s \in {"TimedOut", "Cancelled"} :
                    LET r == [x EXCEPT !.state = s]
                    IN  r \in ExecutionRecord /\ Follows(r, x) /\ Exact(r)
           /\ x.state = "Running" =>
                 LET r == [x EXCEPT !.state = "Completed", !.output = TRUE]
                 IN  r \in ExecutionRecord /\ Follows(r, x) /\ Exact(r)
           /\ LET r == [x EXCEPT !.cancellation_intent = TRUE,
                                 !.state = IF x.state = "Running" THEN "Cancelled" ELSE x.state]
              IN  r \in ExecutionRecord /\ Follows(r, x) /\ Exact(r)
<1>1. LET r == [x EXCEPT !.last_heartbeat = now]
      IN  r \in ExecutionRecord /\ Follows(r, x) /\ Exact(r)
  BY DEF ExecutionRecord, Follows, Exact
<1>2. ASSUME x.state = "Running", NEW s \in {"TimedOut", "Cancelled"}
      PROVE  LET r == [x EXCEPT !.state = s]
             IN  r \in ExecutionRecord /\ Follows(r, x) /\ Exact(r)
  BY <1>2 DEF ExecutionRecord, Follows, Exact
<1>3. ASSUME x.state = "Running"
      PROVE  LET r == [x EXCEPT !.state = "Completed", !.output = TRUE]
             IN  r \in ExecutionRecord /\ Follows(r, x) /\ Exact(r)
  BY <1>3 DEF ExecutionRecord, Follows, Exact
<1>4. LET r == [x EXCEPT !.cancellation_intent = TRUE,
                         !.state = IF x.state = "Running" THEN "Cancelled" ELSE x.state]
      IN  r \in ExecutionRecord /\ Follows(r, x) /\ Exact(r)
  BY DEF ExecutionRecord, Follows, Exact
<1> QED BY <1>1, <1>2, <1>3, <1>4

\* heartbeat
LEMMA HeartbeatStep ==
    ASSUME NodeInv, NEW e \in DOMAIN executions, NEW l, NEW now \in Times, heartbeat(e, l, now)
    PROVE  NodeInv' /\ Continues(executions', executions) /\ (KeysInv => KeysInv')
<1> DEFINE x == executions[e]
           r == IF now > x.last_heartbeat + HeartbeatTimeout
                THEN [x EXCEPT !.state = "TimedOut"] ELSE [x EXCEPT !.last_heartbeat = now]
<1>1. x.state = "Running" /\ Replaces(executions', e, r) /\ idempotency_index' = idempotency_index
  BY DEF heartbeat, RunsUnder, Replaces
<1>2. x \in ExecutionRecord /\ Exact(x)
  BY SMT, NodeParts
<1>3. now \in Nat
  BY QueueAssumption
<1> HIDE DEF x
<1>4. r \in ExecutionRecord /\ Follows(r, x) /\ Exact(r)
  <2>1. LET y == [x EXCEPT !.state = "TimedOut"]
        IN  y \in ExecutionRecord /\ Follows(y, x) /\ Exact(y)
    BY <1>1, <1>2, <1>3, RecordSteps
  <2>2. LET y == [x EXCEPT !.last_heartbeat = now]
        IN  y \in ExecutionRecord /\ Follows(y, x) /\ Exact(y)
    BY <1>1, <1>2, <1>3, RecordSteps
  <2> QED BY <2>1, <2>2
<1> HIDE DEF r
<1> QED BY <1>1, <1>4, ReplaceStep DEF x

\* complete
LEMMA CompleteStep ==
    ASSUME NodeInv, NEW e \in DOMAIN executions, NEW l, complete(e, l)
    PROVE  NodeInv' /\ Continues(executions', executions) /\ (KeysInv => KeysInv')
<1> DEFINE x == executions[e]
           r == IF x.cancellation_intent THEN [x EXCEPT !.state = "Cancelled"]
                ELSE [x EXCEPT !.state = "Completed", !.output = TRUE]
<1>1. x.state = "Running" /\ Replaces(executions', e, r) /\ idempotency_index' = idempotency_index
  BY DEF complete, RunsUnder, Replaces
<1>2. x \in ExecutionRecord /\ Exact(x)
  BY SMT, NodeParts
<1>3. 0 \in Nat
  BY SMT
<1> HIDE DEF x
<1>4. r \in ExecutionRecord /\ Follows(r, x) /\ Exact(r)
  <2>1. LET y == [x EXCEPT !.state = "Cancelled"]
        IN  y \in ExecutionRecord /\ Follows(y, x) /\ Exact(y)
    BY <1>1, <1>2, <1>3, RecordSteps
  <2>2. LET y == [x EXCEPT !.state = "Completed", !.output = TRUE]
        IN  y \in ExecutionRecord /\ Follows(y, x) /\ Exact(y)
    BY <1>1, <1>2, <1>3, RecordSteps
  <2> QED BY <2>1, <2>2
<1> HIDE DEF r
<1> QED BY <1>1, <1>4, ReplaceStep DEF x

\* cancel
LEMMA CancelStep ==
    ASSUME NodeInv, NEW e \in DOMAIN executions, cancel(e)
    PROVE  NodeInv' /\ Continues(executions', executions) /\ (KeysInv => KeysInv')
<1> DEFINE x == executions[e]
           r == [x EXCEPT !.cancellation_intent = TRUE,
                          !.state = IF x.state = "Running" THEN "Cancelled" ELSE x.state]
<1>1. x \in ExecutionRecord /\ Exact(x) /\ executions \in Seq(ExecutionRecord)
  BY SMT, NodeParts
<1>2. Replaces(executions', e, r) /\ idempotency_index' = idempotency_index
  BY <1>1 DEF cancel, Replaces, ExecutionRecord
<1>3. 0 \in Nat
  BY SMT
<1> HIDE DEF x
<1>4. r \in ExecutionRecord /\ Follows(r, x) /\ Exact(r)
  BY <1>1, <1>3, RecordSteps
<1> HIDE DEF r
<1> QED BY <1>2, <1>4, ReplaceStep DEF x

\* start adds an execution under the trimmed key.
LEMMA StartStep ==
    ASSUME NodeInv, NEW request \in Grant, NEW now \in Times, start(request, now)
    PROVE  NodeInv' /\ Continues(executions', executions)
<1> DEFINE key == trimmed(request.idempotency_key)
           e == Len(executions) + 1
           r == Execution(request, now)
<1>1. /\ executions' = Append(executions, r)
      /\ idempotency_index' = [k \in DOMAIN idempotency_index \cup {key} |->
                                  IF k = key THEN e ELSE idempotency_index[k]]
  BY DEF start
<1>2. /\ executions \in Seq(ExecutionRecord) /\ Indexed(executions)
      /\ \A d \in DOMAIN executions : Exact(executions[d])
  BY NodeParts
<1>3. key \in Name /\ trim(key) = key
  <2>1. request.idempotency_key \in Name
    BY DEF Grant
  <2> QED BY <2>1, TrimFacts
<1>4. r \in ExecutionRecord /\ r.idempotency_key = key /\ Exact(r)
  <2>1. /\ request.worker_id \in Workers /\ request.lease_id \in Nat /\ request.assignment_id \in Name
    BY DEF Grant
  <2>2. trimmed(request.assignment_id) \in Name
    BY <2>1, TrimFacts
  <2>3. now \in Nat
    BY QueueAssumption
  <2>4. r \in ExecutionRecord
    BY <1>3, <2>1, <2>2, <2>3 DEF Execution, ExecutionRecord
  <2>5. r.idempotency_key = key /\ r.output = FALSE /\ r.state = "Running"
    BY SMT DEF Execution
  <2> QED BY <2>4, <2>5 DEF Exact
<1> HIDE DEF r, key
<1>5. /\ executions' \in Seq(ExecutionRecord) /\ DOMAIN executions' = DOMAIN executions \cup {e}
      /\ e \notin DOMAIN executions /\ executions'[e] = r
      /\ \A d \in DOMAIN executions : executions'[d] = executions[d]
  BY SMTT(20), <1>1, <1>2, <1>4, AppendFacts
<1> HIDE DEF e
<1>6. Continues(executions', executions)
  BY <1>5 DEF Continues, Follows
<1>7. \A d \in DOMAIN executions' : Exact(executions'[d])
  BY <1>2, <1>4, <1>5
<1>8. Indexed(executions)'
  <2> SUFFICES ASSUME NEW k \in DOMAIN idempotency_index'
               PROVE  /\ idempotency_index'[k] \in DOMAIN executions'
                      /\ executions'[idempotency_index'[k]].idempotency_key = k
                      /\ trim(k) = k
    BY DEF Indexed
  <2>1. CASE k = key
    <3>1. idempotency_index'[k] = e
      BY <1>1, <2>1
    <3> QED BY <1>3, <1>4, <1>5, <2>1, <3>1
  <2>2. CASE k # key
    <3>1. k \in DOMAIN idempotency_index /\ idempotency_index'[k] = idempotency_index[k]
      BY <1>1, <2>2
    <3>2. /\ idempotency_index[k] \in DOMAIN executions
          /\ executions[idempotency_index[k]].idempotency_key = k
          /\ trim(k) = k
      BY <1>2, <3>1 DEF Indexed
    <3> QED BY <1>5, <3>1, <3>2
  <2> QED BY <2>1, <2>2
<1>9. NodeInv'
  BY <1>5, <1>7, <1>8 DEF NodeInv, Indexed, Exact
<1> QED BY <1>6, <1>9

\* When the key of a start call is trimmed, it is a new key, and the index finds
\* the new execution under it.
LEMMA StartKeys ==
    ASSUME NodeInv, KeysInv, NEW request \in Grant, NEW now, start(request, now),
           trim(request.idempotency_key) = request.idempotency_key
    PROVE  KeysInv'
<1> DEFINE key == request.idempotency_key
           e == Len(executions) + 1
           r == Execution(request, now)
<1>1. key \in Name /\ trimmed(key) = key
  <2>1. key \in Name
    BY DEF Grant
  <2> QED BY <2>1, TrimFacts
<1>2. /\ key \notin DOMAIN idempotency_index
      /\ executions' = Append(executions, r)
      /\ idempotency_index' = [k \in DOMAIN idempotency_index \cup {key} |->
                                  IF k = key THEN e ELSE idempotency_index[k]]
  BY <1>1 DEF start, KnownKey
<1>3. executions \in Seq(ExecutionRecord)
  BY DEF NodeInv
<1>4. r.idempotency_key = key
  BY SMT, <1>1 DEF Execution
<1> HIDE DEF r, key
<1>5. /\ DOMAIN executions' = DOMAIN executions \cup {e} /\ executions'[e] = r
      /\ \A d \in DOMAIN executions : executions'[d] = executions[d]
  BY SMT, <1>2, <1>3
<1> HIDE DEF e
<1> SUFFICES ASSUME NEW d \in DOMAIN executions'
             PROVE  /\ executions'[d].idempotency_key \in DOMAIN idempotency_index'
                    /\ idempotency_index'[executions'[d].idempotency_key] = d
  BY DEF KeysInv
<1>6. CASE d = e
  BY <1>2, <1>4, <1>5, <1>6
<1>7. CASE d # e
  <2> DEFINE k == executions[d].idempotency_key
  <2>1. d \in DOMAIN executions /\ executions'[d] = executions[d]
    BY <1>5, <1>7
  <2>2. k \in DOMAIN idempotency_index /\ idempotency_index[k] = d
    BY <2>1 DEF KeysInv
  <2>3. k # key
    BY <1>2, <2>2
  <2> QED BY <1>2, <2>1, <2>2, <2>3
<1> QED BY <1>6, <1>7

-----------------------------------------------------------------------------
(***************************************************************************)
(* Queue and worker node together.                                         *)
(***************************************************************************)
\* An execution of X under the key k is Completed with an output.
Ran(X, k) ==
    \E e \in DOMAIN X : X[e].idempotency_key = trim(k) /\ X[e].state = "Completed" /\ X[e].output

\* What ran has run for good.
LEMMA RanStays ==
    ASSUME NEW X, NEW Y, Continues(Y, X), NEW k, Ran(X, k)
    PROVE  Ran(Y, k)
<1>1. PICK e \in DOMAIN X : X[e].idempotency_key = trim(k) /\ X[e].state = "Completed" /\ X[e].output
  BY DEF Ran
<1>2. e \in DOMAIN Y /\ Follows(Y[e], X[e])
  BY DEF Continues
<1>3. Y[e].idempotency_key = trim(k) /\ Y[e].state = "Completed" /\ Y[e].output
  BY <1>1, <1>2 DEF Follows
<1> QED BY <1>2, <1>3 DEF Ran

\* AckedTaskRan is kept by a step that acknowledges nothing.
LEMMA NothingAcked ==
    ASSUME AckedTaskRan, acked' = acked, Continues(executions', executions)
    PROVE  AckedTaskRan'
<1>1. \A i \in DOMAIN acked : Ran(executions, acked[i].idempotency_key)
  BY DEF AckedTaskRan, Ran
<1>2. \A i \in DOMAIN acked' : Ran(executions', acked'[i].idempotency_key)
  BY <1>1, RanStays
<1> QED BY <1>2 DEF AckedTaskRan, Ran

\* A step that leaves the executions alone continues them.
LEMMA SameContinues ==
    Continues(executions, executions)
BY DEF Continues, Follows

\* A step that leaves the worker node alone keeps what is said of it.
LEMMA NodeFrame ==
    ASSUME NodeInv, executions' = executions, idempotency_index' = idempotency_index
    PROVE  NodeInv' /\ Continues(executions', executions) /\ (KeysInv => KeysInv')
<1>1. Continues(executions', executions)
  BY SameContinues
<1>2. NodeInv'
  BY DEF NodeInv
<1>3. KeysInv => KeysInv'
  BY DEF KeysInv
<1> QED BY <1>1, <1>2, <1>3

\* A step that leaves the queue alone keeps what is said of it.
LEMMA QueueFrame ==
    ASSUME QueueInv, UNCHANGED queue_vars
    PROVE  /\ QueueInv' /\ Kept(in_flight', in_flight, sequence) /\ acked' = acked
           /\ sequence' = sequence /\ DOMAIN in_flight' \subseteq DOMAIN in_flight
<1>1. /\ queues' = queues /\ in_flight' = in_flight /\ sequence' = sequence
      /\ dead_letters' = dead_letters /\ metrics' = metrics /\ acked' = acked
  BY DEF queue_vars
<1> QED BY <1>1 DEF QueueInv, Kept

\* The numbers of the lease records.
LEMMA GrantNumbers ==
    ASSUME QueueInv, GrantInv
    PROVE  /\ granted \in Seq(Grant) /\ DOMAIN granted = 1 .. sequence /\ sequence \in Nat
           /\ DOMAIN in_flight \subseteq DOMAIN granted /\ sequence + 1 \notin DOMAIN in_flight
<1>1. Placed(queues, in_flight, sequence) /\ granted \in Seq(Grant) /\ Len(granted) = sequence
  BY DEF QueueInv, QueueGood, GrantInv
<1>2. sequence \in Nat /\ DOMAIN in_flight \subseteq 1 .. sequence
  BY <1>1 DEF Placed
<1>3. DOMAIN granted = 1 .. sequence
  BY SMT, <1>1
<1>4. sequence + 1 \notin DOMAIN in_flight
  BY <1>1, LeasesFinite
<1> QED BY <1>1, <1>2, <1>3, <1>4

\* The lease records stay what they were when no lease is added.
LEMMA GrantFrame ==
    ASSUME QueueInv, GrantInv, granted' = granted, sequence' = sequence,
           Kept(in_flight', in_flight, sequence), DOMAIN in_flight' \subseteq DOMAIN in_flight
    PROVE  GrantInv'
<1>1. /\ granted \in Seq(Grant) /\ Len(granted) = sequence
      /\ \A l \in DOMAIN in_flight : granted[l].idempotency_key = in_flight[l].task.idempotency_key
      /\ \A l \in DOMAIN granted : \E e \in Envelopes : granted[l].idempotency_key = e.idempotency_key
  BY DEF GrantInv
<1>2. sequence + 1 \notin DOMAIN in_flight
  BY GrantNumbers
<1>3. \A l \in DOMAIN in_flight' : l \in DOMAIN in_flight /\ in_flight'[l] = in_flight[l]
  BY <1>2 DEF Kept
<1>4. \A l \in DOMAIN in_flight' : granted'[l].idempotency_key = in_flight'[l].task.idempotency_key
  BY <1>1, <1>3
<1> QED BY <1>1, <1>4 DEF GrantInv

\* A new lease and its record have the key of the same task.
LEMMA GrantAdded ==
    ASSUME QueueInv, QueueInv', GrantInv, NEW worker_id \in Workers, sequence' = sequence + 1,
           Kept(in_flight', in_flight, sequence), sequence + 1 \in DOMAIN in_flight',
           granted' = Append(granted, [worker_id |-> worker_id, lease_id |-> sequence',
                                       assignment_id |-> in_flight'[sequence'].task.assignment_id,
                                       idempotency_key |-> in_flight'[sequence'].task.idempotency_key])
    PROVE  GrantInv'
<1> DEFINE n == sequence + 1
           t == in_flight'[n].task
           g == [worker_id |-> worker_id, lease_id |-> n,
                 assignment_id |-> t.assignment_id, idempotency_key |-> t.idempotency_key]
<1>1. /\ granted \in Seq(Grant) /\ DOMAIN granted = 1 .. sequence /\ sequence \in Nat
      /\ DOMAIN in_flight \subseteq DOMAIN granted
  BY GrantNumbers
<1>2. t \in ValidTask
  <2>1. Placed(queues', in_flight', sequence')
    BY DEF QueueInv, QueueGood
  <2>2. in_flight'[n] \in Lease
    BY <2>1 DEF Placed
  <2> QED BY <2>2 DEF Lease
<1>3. /\ t.assignment_id \in Name /\ t.idempotency_key \in Name
      /\ \E e \in Envelopes : t.idempotency_key = e.idempotency_key
  BY <1>2 DEF ValidTask, QueueTaskEnvelope
<1>4. granted' = Append(granted, g)
  OBVIOUS
<1> HIDE DEF t
<1>5. n \in Nat
  BY SMT, <1>1
<1>6. g \in Grant /\ g.idempotency_key = t.idempotency_key
  <2>1. g \in Grant
    BY <1>3, <1>5 DEF Grant
  <2>2. g.idempotency_key = t.idempotency_key
    BY SMT
  <2> QED BY <2>1, <2>2
<1> HIDE DEF g
<1>7. Len(granted) = sequence
  BY DEF GrantInv
<1>8. /\ granted' \in Seq(Grant) /\ Len(granted') = n /\ DOMAIN granted' = DOMAIN granted \cup {n}
      /\ granted'[n] = g /\ \A l \in DOMAIN granted : granted'[l] = granted[l]
  BY SMTT(20), <1>1, <1>4, <1>6, <1>7, AppendFacts
<1>9. \A l \in DOMAIN in_flight' : granted'[l].idempotency_key = in_flight'[l].task.idempotency_key
  <2> SUFFICES ASSUME NEW l \in DOMAIN in_flight'
               PROVE  granted'[l].idempotency_key = in_flight'[l].task.idempotency_key
    OBVIOUS
  <2>1. CASE l = n
    BY <1>6, <1>8, <2>1 DEF t
  <2>2. CASE l # n
    <3>1. l \in DOMAIN in_flight /\ in_flight'[l] = in_flight[l]
      BY <2>2 DEF Kept
    <3>2. granted[l].idempotency_key = in_flight[l].task.idempotency_key
      BY <3>1 DEF GrantInv
    <3>3. granted'[l] = granted[l]
      BY <1>1, <1>8, <3>1
    <3> QED BY <3>1, <3>2, <3>3
  <2> QED BY <2>1, <2>2
<1>10. \A l \in DOMAIN granted' : \E e \in Envelopes : granted'[l].idempotency_key = e.idempotency_key
  <2>1. \A l \in DOMAIN granted : \E e \in Envelopes : granted[l].idempotency_key = e.idempotency_key
    BY DEF GrantInv
  <2>2. ASSUME NEW l \in DOMAIN granted'
        PROVE  \E e \in Envelopes : granted'[l].idempotency_key = e.idempotency_key
    <3>1. CASE l = n
      <4>1. PICK e \in Envelopes : t.idempotency_key = e.idempotency_key
        BY <1>3
      <4>2. granted'[l].idempotency_key = t.idempotency_key
        BY <1>6, <1>8, <3>1
      <4> QED BY <4>1, <4>2
    <3>2. CASE l # n
      <4>1. l \in DOMAIN granted /\ granted'[l] = granted[l]
        BY <1>8, <3>2
      <4> QED BY <2>1, <4>1
    <3> QED BY <3>1, <3>2
  <2> QED BY <2>2
<1> HIDE DEF n
<1>11. sequence' = n
  BY DEF n
<1> QED BY <1>8, <1>9, <1>10, <1>11 DEF GrantInv

\* The parts of Inv once each of them is known after a step.
LEMMA InvParts ==
    Inv <=> QueueInv /\ NodeInv /\ GrantInv /\ AckedTaskRan
BY DEF Inv

\* Every step keeps the invariant, the leases of before and the executions.
LEMMA NextKeeps ==
    ASSUME Inv, [Next]_vars
    PROVE  Inv' /\ Kept(in_flight', in_flight, sequence) /\ Continues(executions', executions)
<1>1. QueueInv /\ NodeInv /\ GrantInv /\ AckedTaskRan
  BY InvParts
<1>2. CASE Submit
  <2>1. PICK task \in Envelopes : enqueue(task) /\ UNCHANGED <<node_vars, granted>>
    BY <1>2 DEF Submit
  <2>2. /\ executions' = executions /\ idempotency_index' = idempotency_index /\ granted' = granted
        /\ sequence' = sequence /\ in_flight' = in_flight /\ acked' = acked
    BY <2>1 DEF node_vars, enqueue
  <2>3. QueueInv' /\ Kept(in_flight', in_flight, sequence)
    BY <1>1, <2>1, EnqueueStep
  <2>4. NodeInv' /\ Continues(executions', executions)
    BY <1>1, <2>2, NodeFrame
  <2>5. GrantInv'
    BY <1>1, <2>2, <2>3, GrantFrame
  <2>6. AckedTaskRan'
    BY <1>1, <2>2, <2>4, NothingAcked
  <2> QED BY <2>3, <2>4, <2>5, <2>6 DEF Inv
<1>3. ASSUME NEW worker_id \in Workers, Acquire(worker_id)
      PROVE  Inv' /\ Kept(in_flight', in_flight, sequence) /\ Continues(executions', executions)
  <2>1. PICK q \in QueueNames, now \in Times :
           /\ lease(q, worker_id, now)
           /\ granted' = IF sequence' = sequence THEN granted
                         ELSE Append(granted, [worker_id |-> worker_id, lease_id |-> sequence',
                                               assignment_id |-> in_flight'[sequence'].task.assignment_id,
                                               idempotency_key |-> in_flight'[sequence'].task.idempotency_key])
           /\ UNCHANGED node_vars
    BY <1>3 DEF Acquire
  <2>2. executions' = executions /\ idempotency_index' = idempotency_index
    BY <2>1 DEF node_vars
  <2>3. /\ QueueInv' /\ Kept(in_flight', in_flight, sequence) /\ acked' = acked
        /\ \/ sequence' = sequence /\ DOMAIN in_flight' \subseteq DOMAIN in_flight
           \/ sequence' = sequence + 1 /\ sequence + 1 \in DOMAIN in_flight'
    BY <1>1, <2>1, LeaseStep
  <2>4. NodeInv' /\ Continues(executions', executions)
    BY <1>1, <2>2, NodeFrame
  <2>5. GrantInv'
    <3>1. CASE sequence' = sequence /\ DOMAIN in_flight' \subseteq DOMAIN in_flight
      <4>1. granted' = granted
        BY <2>1, <3>1
      <4> QED BY <1>1, <2>3, <3>1, <4>1, GrantFrame
    <3>2. CASE sequence' = sequence + 1 /\ sequence + 1 \in DOMAIN in_flight'
      <4>1. sequence \in Nat
        BY <1>1, GrantNumbers
      <4>2. sequence' # sequence
        BY SMT, <3>2, <4>1
      <4>3. granted' = Append(granted, [worker_id |-> worker_id, lease_id |-> sequence',
                                        assignment_id |-> in_flight'[sequence'].task.assignment_id,
                                        idempotency_key |-> in_flight'[sequence'].task.idempotency_key])
        BY <2>1, <4>2
      <4> QED BY <1>1, <2>3, <3>2, <4>3, GrantAdded
    <3> QED BY <2>3, <3>1, <3>2
  <2>6. AckedTaskRan'
    BY <1>1, <2>3, <2>4, NothingAcked
  <2> QED BY <2>3, <2>4, <2>5, <2>6 DEF Inv
\* A step of the worker node leaves the queue and the lease records alone.
<1>4. ASSUME NodeInv', Continues(executions', executions), UNCHANGED <<queue_vars, granted>>
      PROVE  Inv' /\ Kept(in_flight', in_flight, sequence) /\ Continues(executions', executions)
  <2>1. UNCHANGED queue_vars /\ granted' = granted
    BY <1>4
  <2>2. /\ QueueInv' /\ Kept(in_flight', in_flight, sequence) /\ acked' = acked
        /\ sequence' = sequence /\ DOMAIN in_flight' \subseteq DOMAIN in_flight
    BY <1>1, <2>1, QueueFrame
  <2>3. GrantInv'
    BY <1>1, <2>1, <2>2, GrantFrame
  <2>4. AckedTaskRan'
    BY <1>1, <1>4, <2>2, NothingAcked
  <2> QED BY <1>4, <2>2, <2>3, <2>4 DEF Inv
<1>5. ASSUME NEW l \in DOMAIN granted, Start(l)
      PROVE  Inv' /\ Kept(in_flight', in_flight, sequence) /\ Continues(executions', executions)
  <2>1. PICK now \in Times : start(granted[l], now) /\ UNCHANGED <<queue_vars, granted>>
    BY <1>5 DEF Start
  <2>2. granted[l] \in Grant
    BY SMT, <1>1 DEF GrantInv
  <2>3. NodeInv' /\ Continues(executions', executions)
    BY <1>1, <2>1, <2>2, StartStep
  <2> QED BY <1>4, <2>1, <2>3
<1>6. ASSUME NEW l \in DOMAIN granted, Heartbeat(l)
      PROVE  Inv' /\ Kept(in_flight', in_flight, sequence) /\ Continues(executions', executions)
  <2>1. PICK e \in DOMAIN executions, now \in Times :
           heartbeat(e, l, now) /\ UNCHANGED <<queue_vars, granted>>
    BY <1>6 DEF Heartbeat
  <2>2. NodeInv' /\ Continues(executions', executions)
    BY <1>1, <2>1, HeartbeatStep
  <2> QED BY <1>4, <2>1, <2>2
<1>7. ASSUME NEW l \in DOMAIN granted, Complete(l)
      PROVE  Inv' /\ Kept(in_flight', in_flight, sequence) /\ Continues(executions', executions)
  <2>1. PICK e \in DOMAIN executions : complete(e, l) /\ UNCHANGED <<queue_vars, granted>>
    BY <1>7 DEF Complete
  <2>2. NodeInv' /\ Continues(executions', executions)
    BY <1>1, <2>1, CompleteStep
  <2> QED BY <1>4, <2>1, <2>2
<1>8. CASE Cancel
  <2>1. PICK e \in DOMAIN executions : cancel(e) /\ UNCHANGED <<queue_vars, granted>>
    BY <1>8 DEF Cancel
  <2>2. NodeInv' /\ Continues(executions', executions)
    BY <1>1, <2>1, CancelStep
  <2> QED BY <1>4, <2>1, <2>2
<1>9. ASSUME NEW l \in DOMAIN granted, Acknowledge(l)
      PROVE  Inv' /\ Kept(in_flight', in_flight, sequence) /\ Continues(executions', executions)
  <2> DEFINE k == granted[l].idempotency_key
             e == idempotency_index[k]
  <2>1. PICK now \in Times : ack(l, granted[l].worker_id, now)
    BY <1>9 DEF Acknowledge
  <2>2. executions' = executions /\ idempotency_index' = idempotency_index /\ granted' = granted
    BY <1>9 DEF Acknowledge, node_vars
  <2>3. /\ QueueInv' /\ Kept(in_flight', in_flight, sequence) /\ sequence' = sequence
        /\ \/ acked' = acked
           \/ l \in DOMAIN in_flight /\ acked' = Append(acked, in_flight[l].task)
        /\ DOMAIN in_flight' \subseteq DOMAIN in_flight
    BY <1>1, <2>1, AckStep
  <2>4. NodeInv' /\ Continues(executions', executions)
    BY <1>1, <2>2, NodeFrame
  <2>5. GrantInv'
    BY <1>1, <2>2, <2>3, GrantFrame
  <2>6. Ran(executions, k)
    <3>1. k \in DOMAIN idempotency_index /\ Replayed(granted[l]) # 0
          /\ executions[Replayed(granted[l])].state = "Completed"
      BY <1>9 DEF Acknowledge, KnownKey
    <3>2. Replayed(granted[l]) = e
      BY <3>1 DEF Replayed
    <3>3. e \in DOMAIN executions /\ executions[e].idempotency_key = k /\ trim(k) = k
      BY <1>1, <3>1 DEF NodeInv
    <3>4. executions[e].state = "Completed" /\ executions[e].output
      BY <1>1, <3>1, <3>2, <3>3 DEF NodeInv
    <3> HIDE DEF e, k
    <3> QED BY <3>3, <3>4 DEF Ran
  <2>7. AckedTaskRan'
    <3>1. CASE acked' = acked
      BY <1>1, <2>4, <3>1, NothingAcked
    <3>2. CASE l \in DOMAIN in_flight /\ acked' = Append(acked, in_flight[l].task)
      <4>1. in_flight[l].task.idempotency_key = k
        BY <1>1, <3>2 DEF GrantInv
      <4>2. in_flight[l].task \in ValidTask /\ acked \in Seq(ValidTask)
        BY <1>1, <3>2 DEF QueueInv, QueueGood, Placed, Lease
      <4>3. /\ DOMAIN acked' = DOMAIN acked \cup {Len(acked) + 1}
            /\ acked'[Len(acked) + 1] = in_flight[l].task
            /\ \A i \in DOMAIN acked : acked'[i] = acked[i]
        BY SMTT(20), <3>2, <4>2, AppendFacts
      <4>4. \A i \in DOMAIN acked : Ran(executions, acked[i].idempotency_key)
        BY <1>1 DEF AckedTaskRan, Ran
      <4> HIDE DEF k
      <4>5. \A i \in DOMAIN acked' : Ran(executions, acked'[i].idempotency_key)
        BY <2>6, <4>1, <4>3, <4>4
      <4> QED BY <2>2, <4>5 DEF AckedTaskRan, Ran
    <3> QED BY <2>3, <3>1, <3>2
  <2> QED BY <2>3, <2>4, <2>5, <2>7 DEF Inv
<1>10. ASSUME NEW l \in DOMAIN granted, GiveBack(l)
       PROVE  Inv' /\ Kept(in_flight', in_flight, sequence) /\ Continues(executions', executions)
  <2>1. PICK worker_id \in Workers, now \in Times : requeue(l, worker_id, now)
    BY <1>10 DEF GiveBack
  <2>2. executions' = executions /\ idempotency_index' = idempotency_index /\ granted' = granted
    BY <1>10 DEF GiveBack, node_vars
  <2>3. /\ QueueInv' /\ Kept(in_flight', in_flight, sequence)
        /\ sequence' = sequence /\ acked' = acked
        /\ DOMAIN in_flight' \subseteq DOMAIN in_flight
    BY <1>1, <2>1, RequeueStep
  <2>4. NodeInv' /\ Continues(executions', executions)
    BY <1>1, <2>2, NodeFrame
  <2>5. GrantInv'
    BY <1>1, <2>2, <2>3, GrantFrame
  <2>6. AckedTaskRan'
    BY <1>1, <2>3, <2>4, NothingAcked
  <2> QED BY <2>3, <2>4, <2>5, <2>6 DEF Inv
<1>11. CASE UNCHANGED vars
  <2>1. UNCHANGED <<queue_vars, granted>> /\ executions' = executions /\ idempotency_index' = idempotency_index
    BY <1>11 DEF vars, node_vars
  <2>2. NodeInv' /\ Continues(executions', executions)
    BY <1>1, <2>1, NodeFrame
  <2> QED BY <1>4, <2>1, <2>2
<1> QED BY <1>2, <1>3, <1>5, <1>6, <1>7, <1>8, <1>9, <1>10, <1>11 DEF Next

\* At the start nothing waits, is leased, granted or executed.
LEMMA InitKeeps ==
    ASSUME Init
    PROVE  Inv /\ KeysInv
<1>1. /\ sequence = 0 /\ queues = [q \in QueueNames |-> <<>>] /\ in_flight = <<>>
      /\ dead_letters = <<>> /\ acked = <<>> /\ granted = <<>>
      /\ executions = <<>> /\ idempotency_index = <<>>
      /\ metrics = [enqueued |-> 0, leased |-> 0, redelivered |-> 0, dead |-> 0]
  BY DEF Init, QueueInit, NodeInit
<1>2. \A S : <<>> \in Seq(S) /\ Len(<<>>) = 0 /\ DOMAIN <<>> = {} /\ 0 \in Nat
  BY SMT
<1>3. \A q \in QueueNames : queues[q] = <<>>
  BY <1>1
<1>4. Placed(queues, in_flight, sequence)
  <2>1. queues \in [QueueNames -> Seq(ValidTask)]
    BY <1>1, <1>2
  <2>2. in_flight \in [DOMAIN in_flight -> Lease]
    BY SMT, <1>1
  <2>3. DOMAIN in_flight \subseteq 1 .. sequence /\ sequence \in Nat
    BY <1>1, <1>2
  <2>4. \A q \in QueueNames : \A i \in DOMAIN queues[q] : queues[q][i].queue_name = q
    BY <1>2, <1>3
  <2> QED BY <2>1, <2>2, <2>3, <2>4 DEF Placed
<1>5. Single(queues, in_flight)
  BY <1>1, <1>2, <1>3 DEF Single
<1>6. WaitingIn(queues) = {}
  <2>1. \A p : p \notin WaitingIn(queues)
    BY <1>2, <1>3, PlacesAre
  <2> QED BY <2>1
<1>7. IsFiniteSet(WaitingIn(queues)) /\ Cardinality(WaitingIn(queues)) = 0 /\ Cardinality(DOMAIN in_flight) = 0
  <2>1. IsFiniteSet({}) /\ Cardinality({}) = 0
    BY FS_EmptySet
  <2>2. DOMAIN in_flight = {}
    BY <1>1, <1>2
  <2> QED BY <1>6, <2>1, <2>2
<1>8. DeadLetters(dead_letters)
  BY <1>1, <1>2 DEF DeadLetters
<1>9. metrics \in Metrics /\ acked \in Seq(ValidTask)
  BY <1>1, <1>2 DEF Metrics
<1>10. Balanced(WaitingIn(queues), DOMAIN in_flight, sequence, dead_letters, metrics, acked)
  <2>1. metrics.enqueued = 0 /\ metrics.leased = 0 /\ metrics.redelivered = 0 /\ metrics.dead = 0
    BY SMT, <1>1
  <2>2. Len(acked) = 0 /\ Len(dead_letters) = 0
    BY <1>1, <1>2
  <2> QED BY SMTT(20), <1>1, <1>7, <2>1, <2>2 DEF Balanced
<1>11. QueueInv
  BY <1>4, <1>5, <1>7, <1>8, <1>9, <1>10 DEF QueueInv, QueueGood
<1>12. NodeInv /\ KeysInv
  BY <1>1, <1>2 DEF NodeInv, KeysInv
<1>13. GrantInv /\ AckedTaskRan
  BY <1>1, <1>2 DEF GrantInv, AckedTaskRan
<1> QED BY <1>11, <1>12, <1>13 DEF Inv

\* When callers write trimmed keys, every step keeps one execution per key.
LEMMA KeysKept ==
    ASSUME Inv, KeysInv, KeysTrimmed, [Next]_vars
    PROVE  KeysInv'
<1>1. QueueInv /\ NodeInv /\ GrantInv
  BY DEF Inv
<1>2. CASE UNCHANGED node_vars
  <2>1. executions' = executions /\ idempotency_index' = idempotency_index
    BY <1>2 DEF node_vars
  <2> QED BY <1>1, <2>1, NodeFrame
<1>3. ASSUME NEW l \in DOMAIN granted, Start(l) PROVE KeysInv'
  <2>1. PICK now \in Times : start(granted[l], now)
    BY <1>3 DEF Start
  <2>2. granted[l] \in Grant
    BY SMT, <1>1 DEF GrantInv
  <2>3. PICK e \in Envelopes : granted[l].idempotency_key = e.idempotency_key
    BY <1>1 DEF GrantInv
  <2>4. trim(granted[l].idempotency_key) = granted[l].idempotency_key
    BY <2>3 DEF KeysTrimmed
  <2> QED BY <1>1, <2>1, <2>2, <2>4, StartKeys
<1>4. ASSUME NEW l \in DOMAIN granted, Heartbeat(l) PROVE KeysInv'
  BY <1>1, <1>4, HeartbeatStep DEF Heartbeat
<1>5. ASSUME NEW l \in DOMAIN granted, Complete(l) PROVE KeysInv'
  BY <1>1, <1>5, CompleteStep DEF Complete
<1>6. CASE Cancel
  BY <1>1, <1>6, CancelStep DEF Cancel
<1>7. CASE Submit
  BY <1>2, <1>7 DEF Submit
<1>8. ASSUME NEW worker_id \in Workers, Acquire(worker_id) PROVE KeysInv'
  BY <1>2, <1>8 DEF Acquire
<1>9. ASSUME NEW l \in DOMAIN granted, Acknowledge(l) \/ GiveBack(l) PROVE KeysInv'
  BY <1>2, <1>9 DEF Acknowledge, GiveBack
<1>10. CASE UNCHANGED vars
  BY <1>2, <1>10 DEF vars
<1> QED BY <1>3, <1>4, <1>5, <1>6, <1>7, <1>8, <1>9, <1>10 DEF Next

-----------------------------------------------------------------------------
(***************************************************************************)
(* What the invariant says.                                                *)
(***************************************************************************)
\* A good queue holds no task id twice.
LEMMA QueueHoldsOnce ==
    ASSUME QueueInv
    PROVE  NoDuplicateDelivery
<1>1. Single(queues, in_flight) /\ Waiting = WaitingIn(queues)
  BY DEF QueueInv, QueueGood, Waiting, WaitingIn
<1>2. /\ \A q \in QueueNames : \A i, j \in DOMAIN queues[q] :
            queues[q][i].task_id = queues[q][j].task_id => i = j
      /\ \A q \in QueueNames : \A i \in DOMAIN queues[q] : \A l \in DOMAIN in_flight :
            in_flight[l].task.queue_name = q => queues[q][i].task_id # in_flight[l].task.task_id
      /\ \A l, m \in DOMAIN in_flight :
            /\ in_flight[l].task.task_id = in_flight[m].task.task_id
            /\ in_flight[l].task.queue_name = in_flight[m].task.queue_name
            => l = m
  BY <1>1 DEF Single
<1>3. \A a \in Waiting : a = <<a[1], a[2]>> /\ a[1] \in QueueNames /\ a[2] \in DOMAIN queues[a[1]]
  BY <1>1, PlacesAre
<1>4. ASSUME NEW a \in Waiting, NEW b \in Waiting,
             queues[a[1]][a[2]].task_id = queues[b[1]][b[2]].task_id, a[1] = b[1]
      PROVE  a = b
  <2>1. a[2] = b[2]
    BY SMTT(20), <1>2, <1>3, <1>4
  <2> QED BY <1>3, <1>4, <2>1
<1>5. ASSUME NEW l \in DOMAIN in_flight, NEW a \in Waiting, a[1] = in_flight[l].task.queue_name
      PROVE  queues[a[1]][a[2]].task_id # in_flight[l].task.task_id
  BY SMTT(20), <1>2, <1>3, <1>5
<1> QED BY <1>2, <1>4, <1>5 DEF NoDuplicateDelivery

\* A good queue accounts for its tasks.
LEMMA QueueAccounts ==
    ASSUME QueueInv
    PROVE  Accounting
<1>1. Balanced(WaitingIn(queues), DOMAIN in_flight, sequence, dead_letters, metrics, acked)
  BY DEF QueueInv, QueueGood
<1>2. Waiting = WaitingIn(queues)
  BY DEF Waiting, WaitingIn
<1> QED BY <1>1, <1>2 DEF Balanced, Accounting

\* A good queue keeps to the attempts of its tasks.
LEMMA QueueKeepsBudget ==
    ASSUME QueueInv
    PROVE  RetryBudget
<1>1. Placed(queues, in_flight, sequence) /\ DeadLetters(dead_letters) /\ Waiting = WaitingIn(queues)
  BY DEF QueueInv, QueueGood, Waiting, WaitingIn
<1>2. queues \in [QueueNames -> Seq(ValidTask)] /\ in_flight \in [DOMAIN in_flight -> Lease]
  BY <1>1 DEF Placed
<1>3. \A t \in ValidTask : validate_task(t)
  BY DEF ValidTask
<1>4. ASSUME NEW a \in Waiting PROVE validate_task(queues[a[1]][a[2]])
  <2>1. a[1] \in QueueNames /\ a[2] \in DOMAIN queues[a[1]]
    BY <1>1, PlacesAre
  <2>2. queues[a[1]] \in Seq(ValidTask)
    BY <1>2, <2>1
  <2>3. queues[a[1]][a[2]] \in ValidTask
    BY SMTT(20), <2>1, <2>2
  <2> QED BY <1>3, <2>3
<1>5. ASSUME NEW l \in DOMAIN in_flight PROVE validate_task(in_flight[l].task)
  BY <1>2, <1>3 DEF Lease
<1>6. \A i \in DOMAIN dead_letters : dead_letters[i].task.attempt = dead_letters[i].task.max_attempts
  BY <1>1 DEF DeadLetters
<1> QED BY <1>4, <1>5, <1>6 DEF RetryBudget

\* The invariant gives every variable its type.
LEMMA InvTypes ==
    ASSUME Inv
    PROVE  TypeOK
<1>1. QueueInv /\ NodeInv /\ GrantInv
  BY DEF Inv
<1>2. Placed(queues, in_flight, sequence)
  BY <1>1 DEF QueueInv, QueueGood
<1>3. \A l \in DOMAIN in_flight : in_flight[l].worker_id \in Workers
  BY <1>2 DEF Placed, Lease
<1>4. \A e \in DOMAIN executions : executions[e] \in ExecutionRecord
  BY SMT, <1>1 DEF NodeInv
<1>5. \A e \in DOMAIN executions :
         executions[e].state \in {"Running", "Completed", "TimedOut", "Cancelled"}
  BY <1>4 DEF ExecutionRecord
<1> QED BY <1>1, <1>2, <1>3, <1>5 DEF TypeOK, Placed, NodeInv, GrantInv

\* One execution per key leaves at most one output.
LEMMA KeysGiveOneOutput ==
    ASSUME KeysInv
    PROVE  OneOutputPerTask
BY DEF KeysInv, OneOutputPerTask

-----------------------------------------------------------------------------
(***************************************************************************)
(* The theorems.                                                           *)
(***************************************************************************)
\* InMemoryQueueAdapter, whatever the envelopes, the clocks and the order of the
\* calls: no task is held twice or lost, each keeps to its retry budget, and a
\* lease that ended (acknowledged, requeued or swept) is never usable again.
THEOREM TasksAreAccounted ==
    Spec => QueueSound
<1>1. Init => Inv
  BY InitKeeps
<1>2. Inv /\ [Next]_vars => Inv'
  BY NextKeeps
<1>3. Inv => NoDuplicateDelivery /\ Accounting /\ RetryBudget
  BY QueueHoldsOnce, QueueAccounts, QueueKeepsBudget DEF Inv
<1>4. Inv /\ [Next]_vars =>
         [\A l \in 1 .. sequence :
            l \in DOMAIN in_flight' => l \in DOMAIN in_flight /\ in_flight'[l] = in_flight[l]]_queue_vars
  <2> SUFFICES ASSUME Inv, [Next]_vars
               PROVE  \A l \in 1 .. sequence :
                         l \in DOMAIN in_flight' => l \in DOMAIN in_flight /\ in_flight'[l] = in_flight[l]
    OBVIOUS
  <2>1. Kept(in_flight', in_flight, sequence)
    BY NextKeeps
  <2>2. sequence \in Nat
    BY GrantNumbers DEF Inv
  <2>3. \A l \in 1 .. sequence : l # sequence + 1
    BY SMT, <2>2
  <2> QED BY <2>1, <2>3 DEF Kept
<1> QED BY <1>1, <1>2, <1>3, <1>4, PTL DEF Spec, QueueSound, LeasesEndOnce

\* The worker node under every delivery: the state has its type, an acknowledged
\* task has run, and an execution that ended (Completed, TimedOut or Cancelled)
\* keeps its state, its output, its lease and its cancellation.
THEOREM AcknowledgedTasksRan ==
    Spec => []TypeOK /\ []AckedTaskRan /\ EndedStaysEnded
<1>1. Init => Inv
  BY InitKeeps
<1>2. Inv /\ [Next]_vars => Inv'
  BY NextKeeps
<1>3. Inv => TypeOK /\ AckedTaskRan
  BY InvTypes DEF Inv
<1>4. Inv /\ [Next]_vars =>
         [\A e \in DOMAIN executions :
            /\ executions'[e].lease_id = executions[e].lease_id
            /\ executions[e].state # "Running" =>
                  /\ executions'[e].state = executions[e].state
                  /\ executions'[e].output = executions[e].output
            /\ executions[e].cancellation_intent => executions'[e].cancellation_intent]_vars
  <2> SUFFICES ASSUME Inv, [Next]_vars
               PROVE  \A e \in DOMAIN executions :
                         /\ executions'[e].lease_id = executions[e].lease_id
                         /\ executions[e].state # "Running" =>
                               /\ executions'[e].state = executions[e].state
                               /\ executions'[e].output = executions[e].output
                         /\ executions[e].cancellation_intent => executions'[e].cancellation_intent
    OBVIOUS
  <2>1. Continues(executions', executions)
    BY NextKeeps
  <2> QED BY <2>1 DEF Continues, Follows
<1> QED BY <1>1, <1>2, <1>3, <1>4, PTL DEF Spec, EndedStaysEnded

\* Queue and worker node together, when callers write idempotency keys without
\* white space around them: of all deliveries of a task, to whichever workers, one
\* leaves an output.  (start looks a key up as it came and records it trimmed, so
\* that a padded key is started again on every delivery.)
THEOREM OneOutputForEachTask ==
    ASSUME KeysTrimmed
    PROVE  Spec => DeliverySound
<1>1. Init => Inv /\ KeysInv
  BY InitKeeps
<1>2. Inv /\ KeysInv /\ [Next]_vars => Inv' /\ KeysInv'
  BY NextKeeps, KeysKept
<1>3. KeysInv => OneOutputPerTask
  BY KeysGiveOneOutput
<1>4. Spec => []OneOutputPerTask
  BY <1>1, <1>2, <1>3, PTL DEF Spec
<1> QED BY <1>4, AcknowledgedTasksRan DEF DeliverySound
===============================================================================
