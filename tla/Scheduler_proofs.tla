--------------------------- MODULE Scheduler_proofs ---------------------------
(***************************************************************************)
(* TLAPS proofs about Scheduler, for any finite set of jobs, any limits,   *)
(* weights and thresholds and any number of calls.                         *)
(***************************************************************************)
EXTENDS Scheduler, FiniteSums

\* The leaves are proved by Zenon but for those that cite another prover.
USE Zenon

-----------------------------------------------------------------------------
\* There are finitely many entities and job ids.
LEMMA FiniteNames == IsFiniteSet(Entities) /\ IsFiniteSet(JobIds)
<1>1. IsFiniteSet(Entities)
  <2> DEFINE f == [job \in Jobs |-> FairnessKey(job)]
  <2>1. f \in Surjection(Jobs, Entities)
    BY DEF Surjection, Entities
  <2> QED BY <2>1, SchedulerAssumption, FS_Surjection
<1>2. IsFiniteSet(JobIds)
  <2> DEFINE f == [job \in Jobs |-> job.job_id]
  <2>1. f \in Surjection(Jobs, JobIds)
    BY DEF Surjection, JobIds
  <2> QED BY <2>1, SchedulerAssumption, FS_Surjection
<1> QED BY <1>1, <1>2

\* The fields of a job are keys of the counters, and numbers.
LEMMA JobNames ==
    ASSUME NEW job \in Jobs
    PROVE  /\ job.job_id \in JobIds /\ job.priority \in Priorities /\ job.tenant_id \in Tenants
           /\ job.project_id \in Projects /\ FairnessKey(job) \in Entities
           /\ job.job_id \in Nat /\ job.priority \in Nat /\ job.tenant_id \in Nat /\ job.project_id \in Nat
           /\ job.deadline_ms \in Nat \cup {NoDeadline}
BY SchedulerAssumption DEF JobIds, Priorities, Tenants, Projects, Entities

\* An entity is a pair of numbers.
LEMMA EntityNames ==
    ASSUME NEW k \in Entities
    PROVE  k[1] \in Nat /\ k[2] \in Nat
BY SMT, JobNames DEF Entities, FairnessKey

\* An entry of active_dispatches.
ActiveDispatch == [job : Jobs, assigned_round : Nat]

\* The types: no counter is negative, and no entity was dispatched, or began to
\* wait, in a round to come.
SchedulerType ==
    /\ queued \in [Jobs -> Nat]
    /\ total_depth \in Nat
    /\ per_priority_depth \in [Priorities -> Nat]
    /\ per_tenant_depth \in [Tenants -> Nat]
    /\ per_project_depth \in [Projects -> Nat]
    /\ dispatch_count \in Nat
    /\ dispatch_by_entity \in [Entities -> Nat]
    /\ last_dispatch_round \in [Entities -> Nat]
    /\ \A k \in Entities : last_dispatch_round[k] <= dispatch_count /\ waiting_since[k] <= dispatch_count
    /\ waiting_since \in [Entities -> Nat]
    /\ DOMAIN active_dispatches \subseteq JobIds
    /\ active_dispatches \in [DOMAIN active_dispatches -> ActiveDispatch]
    /\ \A id \in DOMAIN active_dispatches : active_dispatches[id].job.job_id = id
    /\ preemptions_by_job \in [JobIds -> Nat]
    /\ IsFiniteSet(DOMAIN applied_requeue_tokens)
    /\ admitted \in [JobIds -> Nat]
    /\ completed \in Nat

\* The fairness lag is a number, also when no weight is active.
LEMMA LagType ==
    ASSUME SchedulerType, NEW k \in Entities, NEW round \in Nat
    PROVE  fairness_lag_millis(k, round) \in Int
<1>1. IsFiniteSet({e \in Entities : Active(e)})
  BY FiniteNames, FS_Subset
<1>2. Cardinality({e \in Entities : Active(e)}) \in Nat
  BY <1>1, FS_CardinalityType
<1>3. total_active_weight \in Nat
  BY SMT, <1>2, SchedulerAssumption DEF total_active_weight
<1>4. dispatch_by_entity[k] * 1000 \in Int
  BY SMT DEF SchedulerType
<1>5. round * Weight * 1000 \in Int
  BY SMT, SchedulerAssumption
<1>6. total_active_weight # 0 => (round * Weight * 1000) \div total_active_weight \in Int
  BY SMT, <1>3, <1>5
<1> QED BY SMT, <1>3, <1>4, <1>6 DEF fairness_lag_millis

\* The depth of an entity is a number.
LEMMA DepthType ==
    ASSUME SchedulerType, NEW k \in Entities
    PROVE  Depth(k) \in Nat
<1>1. IsFiniteSet({job \in Jobs : FairnessKey(job) = k})
  BY SchedulerAssumption, FS_Subset
<1> QED BY <1>1, SumType DEF Depth, SchedulerType

\* While total_depth is not zero some entity has a job: this is what makes the
\* choice of pick_dispatch_entity a choice among something.
LEMMA SomeActive ==
    ASSUME SchedulerType, CountersMatch, total_depth # 0
    PROVE  {e \in Entities : Active(e)} # {}
<1>1. \E job \in Jobs : queued[job] # 0
  <2> SUFFICES ASSUME \A job \in Jobs : queued[job] = 0 PROVE FALSE
    OBVIOUS
  <2>1. SumFunctionOnSet(queued, Jobs) = 0
    BY SchedulerAssumption, SumZero DEF SchedulerType
  <2> QED BY <2>1 DEF CountersMatch
<1>2. PICK job \in Jobs : queued[job] # 0
  BY <1>1
<1>3. FairnessKey(job) \in Entities /\ queued[job] > 0
  BY SMT, <1>2, JobNames DEF SchedulerType
<1> QED BY <1>3 DEF Active

\* When an entity is starved, pick_dispatch_entity takes one that was dispatched
\* no later than any other starved one.
LEMMA LongestWaiting ==
    ASSUME SchedulerType, NEW round \in Nat, Starved(round) # {}
    PROVE  LET k == pick_dispatch_entity(round)
           IN  /\ k \in Starved(round)
               /\ \A other \in Starved(round) : last_dispatch_round[k] <= last_dispatch_round[other]
<1> DEFINE wait(k) == <<rounds_since_dispatch(k, round), k[1], k[2]>>
           S == Starved(round)
           R == {p \in S \X S : Less(wait(p[1]), wait(p[2]))}
<1>1. S \subseteq Entities
  BY DEF Starved
<1>2. IsFiniteSet(S)
  BY <1>1, FiniteNames, FS_Subset
<1>3. \A k \in S : rounds_since_dispatch(k, round) \in Int /\ k[1] \in Int /\ k[2] \in Int
  BY SMT, <1>1, EntityNames DEF SchedulerType, rounds_since_dispatch
<1>4. \A a, b \in S : Less(wait(a), wait(b)) <=>
         \/ rounds_since_dispatch(a, round) < rounds_since_dispatch(b, round)
         \/ rounds_since_dispatch(a, round) = rounds_since_dispatch(b, round) /\ a[1] < b[1]
         \/ rounds_since_dispatch(a, round) = rounds_since_dispatch(b, round) /\ a[1] = b[1] /\ a[2] < b[2]
  <2> TAKE a, b \in S
  <2> HIDE DEF S
  <2>1. /\ rounds_since_dispatch(a, round) \in Int /\ a[1] \in Int /\ a[2] \in Int
        /\ rounds_since_dispatch(b, round) \in Int /\ b[1] \in Int /\ b[2] \in Int
    BY <1>3
  <2> QED BY SMT, <2>1 DEF Less
<1> HIDE DEF wait, S
<1>5. \A a, b \in S : <<a, b>> \in R <=> Less(wait(a), wait(b))
  OBVIOUS
<1> HIDE DEF R
<1>6. \A a \in S : <<a, a>> \notin R
  BY SMT, <1>3, <1>4, <1>5
<1>7. \A a, b, c \in S : <<a, b>> \in R /\ <<b, c>> \in R => <<a, c>> \in R
  BY SMT, <1>3, <1>4, <1>5
<1>8. \E m \in S : \A o \in S : <<m, o>> \notin R
  BY <1>2, <1>6, <1>7, MaximalExists DEF S
<1>9. \E m \in S : \A o \in S : ~Less(wait(m), wait(o))
  BY <1>5, <1>8
<1> DEFINE k == CHOOSE m \in S : \A o \in S : ~Less(wait(m), wait(o))
<1>10. k \in S /\ \A o \in S : ~Less(wait(k), wait(o))
  BY <1>9
<1>11. pick_dispatch_entity(round) = k
  BY DEF pick_dispatch_entity, wait, S
<1> HIDE DEF k
<1>12. \A o \in S : rounds_since_dispatch(k, round) >= rounds_since_dispatch(o, round)
  BY SMT, <1>3, <1>4, <1>10
<1>13. \A o \in S : last_dispatch_round[o] \in Nat
  BY <1>1 DEF SchedulerType
<1>14. \A o \in S : last_dispatch_round[k] <= last_dispatch_round[o]
  BY SMT, <1>10, <1>12, <1>13 DEF rounds_since_dispatch
<1> QED BY <1>10, <1>11, <1>14 DEF S

\* pick_dispatch_entity takes an entity that has a job.
LEMMA PickedActive ==
    ASSUME SchedulerType, CountersMatch, total_depth # 0, NEW round \in Nat
    PROVE  pick_dispatch_entity(round) \in Entities /\ Active(pick_dispatch_entity(round))
<1>1. CASE Starved(round) # {}
  BY <1>1, LongestWaiting DEF Starved
<1>2. CASE Starved(round) = {}
  <2> DEFINE lag(k) == fairness_lag_millis(k, round)
             rank(k) == <<lag(k), Depth(k), k[1], k[2]>>
             S == {e \in Entities : Active(e)}
             R == {p \in S \X S : Less(rank(p[1]), rank(p[2]))}
  <2>1. S \subseteq Entities /\ S # {}
    BY SomeActive
  <2>2. IsFiniteSet(S)
    BY <2>1, FiniteNames, FS_Subset
  <2> HIDE DEF S
  <2>3. \A k \in S : lag(k) \in Int /\ Depth(k) \in Int /\ k[1] \in Int /\ k[2] \in Int
    BY SMT, <2>1, EntityNames, LagType, DepthType
  <2> HIDE DEF lag
  <2>4. \A a, b \in S : Less(rank(a), rank(b)) <=>
           \/ lag(a) < lag(b)
           \/ lag(a) = lag(b) /\ Depth(a) < Depth(b)
           \/ lag(a) = lag(b) /\ Depth(a) = Depth(b) /\ a[1] < b[1]
           \/ lag(a) = lag(b) /\ Depth(a) = Depth(b) /\ a[1] = b[1] /\ a[2] < b[2]
    <3> TAKE a, b \in S
    <3>1. /\ lag(a) \in Int /\ Depth(a) \in Int /\ a[1] \in Int /\ a[2] \in Int
          /\ lag(b) \in Int /\ Depth(b) \in Int /\ b[1] \in Int /\ b[2] \in Int
      BY <2>3
    <3> QED BY SMT, <3>1 DEF Less
  <2> HIDE DEF rank
  <2>5. \A a, b \in S : <<a, b>> \in R <=> Less(rank(a), rank(b))
    OBVIOUS
  <2> HIDE DEF R
  <2>6. \A a \in S : <<a, a>> \notin R
    BY SMT, <2>3, <2>4, <2>5
  <2>7. \A a, b, c \in S : <<a, b>> \in R /\ <<b, c>> \in R => <<a, c>> \in R
    BY SMT, <2>3, <2>4, <2>5
  <2>8. \E m \in S : \A o \in S : <<m, o>> \notin R
    BY <2>1, <2>2, <2>6, <2>7, MaximalExists
  <2>9. \E m \in S : \A o \in S : ~Less(rank(m), rank(o))
    BY <2>5, <2>8
  <2> DEFINE k == CHOOSE m \in S : \A o \in S : ~Less(rank(m), rank(o))
  <2>10. k \in S
    BY <2>9
  <2>11. pick_dispatch_entity(round) = k
    BY <1>2 DEF pick_dispatch_entity, rank, lag, S
  <2> QED BY <2>10, <2>11 DEF S
<1> QED BY <1>1, <1>2

\* pop_next takes a job that is in the queue of its entity.
LEMMA PoppedQueued ==
    ASSUME SchedulerType, NEW k \in Entities, Active(k)
    PROVE  pop_next(k) \in Jobs /\ FairnessKey(pop_next(k)) = k /\ queued[pop_next(k)] > 0
<1> DEFINE S == {job \in Jobs : FairnessKey(job) = k /\ queued[job] > 0}
           R == {p \in S \X S : Before(p[2], p[1])}
<1>1. S # {} /\ S \subseteq Jobs
  BY DEF Active
<1>2. IsFiniteSet(S)
  BY SchedulerAssumption, FS_Subset
<1>3. \A j \in S : j.priority \in Nat /\ j.job_id \in Nat /\ j.deadline_ms \in Nat \cup {NoDeadline}
  BY <1>1, JobNames
<1> HIDE DEF S
<1>4. \A a, b \in S : <<a, b>> \in R <=> Before(b, a)
  OBVIOUS
<1> HIDE DEF R
<1>5. \A a \in S : ~Before(a, a)
  BY SMT, <1>3, SchedulerAssumption DEF Before, compare_deadline
<1>6. \A a, b, c \in S : Before(b, a) /\ Before(c, b) => Before(c, a)
  BY SMT, <1>3, SchedulerAssumption DEF Before, compare_deadline
<1>7. \E m \in S : \A o \in S : <<m, o>> \notin R
  BY <1>1, <1>2, <1>4, <1>5, <1>6, MaximalExists
<1>8. \E m \in S : \A o \in S : ~Before(o, m)
  BY <1>4, <1>7
<1> DEFINE j == CHOOSE m \in S : \A o \in S : ~Before(o, m)
<1>9. j \in S
  BY <1>8
<1>10. pop_next(k) = j
  BY DEF pop_next, S
<1> QED BY <1>9, <1>10 DEF S

-----------------------------------------------------------------------------
\* How many jobs of a set are queued.
Count(S) == SumFunctionOnSet(queued, S)

\* How often a job id is queued or active.
Held(id) ==
    Count({job \in Jobs : job.job_id = id})
       + (IF id \in DOMAIN active_dispatches THEN 1 ELSE 0)

\* No job is in more places than it was admitted: what a completion must know,
\* since a dispatch may overwrite the active job of the same id.
NoneDuplicated == \A id \in JobIds : Held(id) <= admitted[id]

\* The other entities that were dispatched since k became starved.
Served(k) ==
    {e \in Entities \ {k} : dispatch_count - last_dispatch_round[e] <= Waited(k) - StarvedFrom}

\* A starved entity has waited no longer than others took their turn, each of
\* them once: the strengthening that makes StarvationBound inductive.
TurnsTaken ==
    \A k \in Entities : Active(k) => Waited(k) < StarvedFrom + Cardinality(Served(k))

\* Changing the count of one job changes the count of the sets it is in.
LEMMA CountChanged ==
    ASSUME SchedulerType, NEW job \in Jobs, NEW S \in SUBSET Jobs,
           \A x \in Jobs : queued'[x] \in Nat /\ (x # job => queued'[x] = queued[x])
    PROVE  /\ Count(S) \in Nat
           /\ Count(S)' = IF job \in S THEN Count(S) - queued[job] + queued'[job] ELSE Count(S)
           /\ job \in S => queued[job] <= Count(S)
<1>1. IsFiniteSet(S)
  BY SchedulerAssumption, FS_Subset
<1>2. \A x \in S : queued[x] \in Nat /\ queued'[x] \in Nat /\ (x # job => queued'[x] = queued[x])
  BY DEF SchedulerType
<1>3. Count(S) \in Nat
  BY <1>1, <1>2, SumType DEF Count
<1>4. Count(S)' = IF job \in S THEN Count(S) - queued[job] + queued'[job] ELSE Count(S)
  BY <1>1, <1>2, SumUpdate DEF Count
<1>5. job \in S => queued[job] <= Count(S)
  BY <1>1, <1>2, SumZero DEF Count
<1> QED BY <1>3, <1>4, <1>5

\* A push adds one to the sets that hold the job.
LEMMA QueuePushed ==
    ASSUME SchedulerType, NEW job \in Jobs, queued' = [queued EXCEPT ![job] = @ + 1],
           NEW S \in SUBSET Jobs
    PROVE  Count(S) \in Nat /\ Count(S)' = Count(S) + (IF job \in S THEN 1 ELSE 0)
<1>1. /\ \A x \in Jobs : queued'[x] \in Nat /\ (x # job => queued'[x] = queued[x])
      /\ queued[job] \in Nat /\ queued'[job] = queued[job] + 1
  BY SMT DEF SchedulerType
<1> QED BY SMT, <1>1, CountChanged

\* A pop takes one from the sets that hold the job, none of them empty.
LEMMA QueuePopped ==
    ASSUME SchedulerType, NEW job \in Jobs, queued[job] > 0,
           queued' = [queued EXCEPT ![job] = @ - 1], NEW S \in SUBSET Jobs
    PROVE  /\ Count(S) \in Nat /\ Count(S)' = Count(S) - (IF job \in S THEN 1 ELSE 0)
           /\ job \in S => Count(S) > 0
<1>1. /\ \A x \in Jobs : queued'[x] \in Nat /\ (x # job => queued'[x] = queued[x])
      /\ queued[job] \in Nat /\ queued'[job] = queued[job] - 1
  BY SMT DEF SchedulerType
<1> QED BY SMT, <1>1, CountChanged

\* A push moves the four counters with the queue.
LEMMA MatchPushed ==
    ASSUME SchedulerType, CountersMatch, NEW job \in Jobs, Push(job)
    PROVE  CountersMatch'
<1>1. queued' = [queued EXCEPT ![job] = @ + 1]
  BY DEF Push
<1>2. \A S \in SUBSET Jobs : Count(S)' = Count(S) + (IF job \in S THEN 1 ELSE 0)
  BY <1>1, QueuePushed
<1>3. total_depth' = Count(Jobs)'
  BY <1>2 DEF Push, CountersMatch, Count
<1>4. ASSUME NEW p \in Priorities
      PROVE  per_priority_depth'[p] = Count({j \in Jobs : j.priority = p})'
  <2> DEFINE P == {j \in Jobs : j.priority = p}
  <2>1. Count(P)' = Count(P) + (IF job \in P THEN 1 ELSE 0)
    BY <1>2
  <2>2. (job \in P <=> job.priority = p) /\ per_priority_depth[p] = Count(P)
    BY DEF CountersMatch, Count
  <2> HIDE DEF P
  <2>3. per_priority_depth'[p] = Count(P)'
    BY SMT, <2>1, <2>2 DEF Push, SchedulerType
  <2> QED BY <2>3 DEF P
<1>5. ASSUME NEW t \in Tenants
      PROVE  per_tenant_depth'[t] = Count({j \in Jobs : j.tenant_id = t})'
  <2> DEFINE P == {j \in Jobs : j.tenant_id = t}
  <2>1. Count(P)' = Count(P) + (IF job \in P THEN 1 ELSE 0)
    BY <1>2
  <2>2. (job \in P <=> job.tenant_id = t) /\ per_tenant_depth[t] = Count(P)
    BY DEF CountersMatch, Count
  <2> HIDE DEF P
  <2>3. per_tenant_depth'[t] = Count(P)'
    BY SMT, <2>1, <2>2 DEF Push, SchedulerType
  <2> QED BY <2>3 DEF P
<1>6. ASSUME NEW p \in Projects
      PROVE  per_project_depth'[p] = Count({j \in Jobs : j.project_id = p})'
  <2> DEFINE P == {j \in Jobs : j.project_id = p}
  <2>1. Count(P)' = Count(P) + (IF job \in P THEN 1 ELSE 0)
    BY <1>2
  <2>2. (job \in P <=> job.project_id = p) /\ per_project_depth[p] = Count(P)
    BY DEF CountersMatch, Count
  <2> HIDE DEF P
  <2>3. per_project_depth'[p] = Count(P)'
    BY SMT, <2>1, <2>2 DEF Push, SchedulerType
  <2> QED BY <2>3 DEF P
<1> QED BY <1>3, <1>4, <1>5, <1>6 DEF CountersMatch, Count

\* What dispatch_next does to the queue and the counters.
Popped(job) ==
    /\ queued' = [queued EXCEPT ![job] = @ - 1]
    /\ total_depth' = total_depth - 1
    /\ per_priority_depth' = Decremented(per_priority_depth, job.priority)
    /\ per_tenant_depth' = Decremented(per_tenant_depth, job.tenant_id)
    /\ per_project_depth' = Decremented(per_project_depth, job.project_id)

\* A pop moves the four counters with the queue, and none of them saturates.
LEMMA MatchPopped ==
    ASSUME SchedulerType, CountersMatch, NEW job \in Jobs, queued[job] > 0, Popped(job)
    PROVE  CountersMatch' /\ total_depth > 0
<1>1. queued' = [queued EXCEPT ![job] = @ - 1]
  BY DEF Popped
<1>2. \A S \in SUBSET Jobs :
         /\ Count(S) \in Nat /\ Count(S)' = Count(S) - (IF job \in S THEN 1 ELSE 0)
         /\ job \in S => Count(S) > 0
  BY <1>1, QueuePopped
<1>3. total_depth' = Count(Jobs)' /\ total_depth > 0
  BY <1>2 DEF Popped, CountersMatch, Count
<1>4. ASSUME NEW p \in Priorities
      PROVE  per_priority_depth'[p] = Count({j \in Jobs : j.priority = p})'
  <2> DEFINE P == {j \in Jobs : j.priority = p}
  <2>1. /\ Count(P) \in Nat /\ Count(P)' = Count(P) - (IF job \in P THEN 1 ELSE 0)
        /\ job \in P => Count(P) > 0
    BY <1>2
  <2>2. (job \in P <=> job.priority = p) /\ per_priority_depth[p] = Count(P)
    BY DEF CountersMatch, Count
  <2> HIDE DEF P
  <2>3. per_priority_depth'[p] = Count(P)'
    BY SMT, <2>1, <2>2 DEF Popped, Decremented, SchedulerType
  <2> QED BY <2>3 DEF P
<1>5. ASSUME NEW t \in Tenants
      PROVE  per_tenant_depth'[t] = Count({j \in Jobs : j.tenant_id = t})'
  <2> DEFINE P == {j \in Jobs : j.tenant_id = t}
  <2>1. /\ Count(P) \in Nat /\ Count(P)' = Count(P) - (IF job \in P THEN 1 ELSE 0)
        /\ job \in P => Count(P) > 0
    BY <1>2
  <2>2. (job \in P <=> job.tenant_id = t) /\ per_tenant_depth[t] = Count(P)
    BY DEF CountersMatch, Count
  <2> HIDE DEF P
  <2>3. per_tenant_depth'[t] = Count(P)'
    BY SMT, <2>1, <2>2 DEF Popped, Decremented, SchedulerType
  <2> QED BY <2>3 DEF P
<1>6. ASSUME NEW p \in Projects
      PROVE  per_project_depth'[p] = Count({j \in Jobs : j.project_id = p})'
  <2> DEFINE P == {j \in Jobs : j.project_id = p}
  <2>1. /\ Count(P) \in Nat /\ Count(P)' = Count(P) - (IF job \in P THEN 1 ELSE 0)
        /\ job \in P => Count(P) > 0
    BY <1>2
  <2>2. (job \in P <=> job.project_id = p) /\ per_project_depth[p] = Count(P)
    BY DEF CountersMatch, Count
  <2> HIDE DEF P
  <2>3. per_project_depth'[p] = Count(P)'
    BY SMT, <2>1, <2>2 DEF Popped, Decremented, SchedulerType
  <2> QED BY <2>3 DEF P
<1> QED BY <1>3, <1>4, <1>5, <1>6 DEF CountersMatch, Count

\* What dispatch_next does once it has chosen an entity and a job.
Dispatched(k, job) ==
    /\ Popped(job)
    /\ dispatch_count' = dispatch_count + 1
    /\ dispatch_by_entity' = [dispatch_by_entity EXCEPT ![k] = @ + 1]
    /\ last_dispatch_round' = [last_dispatch_round EXCEPT ![k] = dispatch_count + 1]
    /\ active_dispatches' =
          [id \in DOMAIN active_dispatches \cup {job.job_id} |->
              IF id = job.job_id THEN [job |-> job, assigned_round |-> dispatch_count + 1]
              ELSE active_dispatches[id]]
    /\ UNCHANGED <<preemptions_by_job, applied_requeue_tokens, admitted, completed, waiting_since>>

\* dispatch_next dispatches a queued job of an entity that no starved entity has
\* waited longer than.
LEMMA DispatchChoice ==
    ASSUME SchedulerType, CountersMatch, dispatch_next
    PROVE  \E k \in Entities, job \in Jobs :
              /\ Active(k) /\ FairnessKey(job) = k /\ queued[job] > 0
              /\ Dispatched(k, job)
              /\ \A e \in Entities :
                    Active(e) /\ (dispatch_count + 1) - last_dispatch_round[e] >= StarvationThreshold =>
                        last_dispatch_round[k] <= last_dispatch_round[e]
<1> DEFINE now == dispatch_count + 1
           k == pick_dispatch_entity(now)
           job == pop_next(k)
<1>1. total_depth # 0 /\ Dispatched(k, job)
  BY DEF dispatch_next, Dispatched, Popped
<1>2. now \in Nat
  BY SMT DEF SchedulerType
<1>3. k \in Entities /\ Active(k)
  <2> HIDE DEF now
  <2> QED BY <1>1, <1>2, PickedActive
<1>4. \A e \in Starved(now) : last_dispatch_round[k] <= last_dispatch_round[e]
  <2> HIDE DEF now
  <2> QED BY <1>2, LongestWaiting
<1>5. ASSUME NEW e \in Entities, Active(e),
             (dispatch_count + 1) - last_dispatch_round[e] >= StarvationThreshold
      PROVE  e \in Starved(now)
  BY <1>5 DEF Starved, rounds_since_dispatch
<1> HIDE DEF k
<1>6. job \in Jobs /\ FairnessKey(job) = k /\ queued[job] > 0
  BY <1>3, PoppedQueued
<1> HIDE DEF job
<1> QED BY <1>1, <1>3, <1>4, <1>5, <1>6
-----------------------------------------------------------------------------
\* Incremented and decremented counters are counters.
LEMMA CounterType ==
    ASSUME NEW K, NEW key \in K, NEW counter \in [K -> Nat]
    PROVE  /\ [counter EXCEPT ![key] = @ + 1] \in [K -> Nat]
           /\ Decremented(counter, key) \in [K -> Nat]
BY SMT DEF Decremented

\* A push keeps the types.
LEMMA PushType ==
    ASSUME SchedulerType, NEW job \in Jobs, Push(job), UNCHANGED rounds
    PROVE  /\ queued' \in [Jobs -> Nat]
           /\ total_depth' \in Nat
           /\ per_priority_depth' \in [Priorities -> Nat]
           /\ per_tenant_depth' \in [Tenants -> Nat]
           /\ per_project_depth' \in [Projects -> Nat]
           /\ dispatch_count' \in Nat
           /\ dispatch_by_entity' \in [Entities -> Nat]
           /\ last_dispatch_round' \in [Entities -> Nat]
           /\ \A k \in Entities : last_dispatch_round'[k] <= dispatch_count' /\ waiting_since'[k] <= dispatch_count'
           /\ waiting_since' \in [Entities -> Nat]
<1>1. UNCHANGED <<dispatch_count, dispatch_by_entity, last_dispatch_round>>
  BY DEF rounds
<1>2. FairnessKey(job) \in Entities
  BY JobNames
<1>3. waiting_since' \in [Entities -> Nat] /\ \A k \in Entities : waiting_since'[k] <= dispatch_count'
  <2> DEFINE v == IF Active(FairnessKey(job)) THEN waiting_since[FairnessKey(job)] ELSE dispatch_count
  <2>1. v \in Nat /\ v <= dispatch_count
    BY SMT, <1>2 DEF SchedulerType
  <2>2. waiting_since' = [waiting_since EXCEPT ![FairnessKey(job)] = v]
    BY DEF Push
  <2> HIDE DEF v
  <2> QED BY <1>1, <1>2, <2>1, <2>2 DEF SchedulerType
<1>4. queued' \in [Jobs -> Nat] /\ total_depth' \in Nat
  BY SMT DEF SchedulerType, Push
<1>5. /\ per_priority_depth' \in [Priorities -> Nat]
      /\ per_tenant_depth' \in [Tenants -> Nat]
      /\ per_project_depth' \in [Projects -> Nat]
  BY JobNames, CounterType DEF SchedulerType, Push
<1> QED BY <1>1, <1>3, <1>4, <1>5 DEF SchedulerType

\* submit keeps the types.
LEMMA submitType ==
    ASSUME SchedulerType, NEW job \in Jobs, submit(job)
    PROVE  SchedulerType'
<1>1. Push(job) /\ UNCHANGED rounds
  BY DEF submit
<1>2. job.job_id \in JobIds
  BY JobNames
<1>3. admitted' \in [JobIds -> Nat]
  BY SMT, <1>2 DEF submit, SchedulerType
<1>4. UNCHANGED <<active_dispatches, preemptions_by_job, applied_requeue_tokens, completed>>
  BY DEF submit
<1> QED BY <1>1, <1>3, <1>4, PushType DEF SchedulerType

\* dispatch_next keeps the types.
LEMMA dispatchType ==
    ASSUME SchedulerType, NEW k \in Entities, NEW job \in Jobs, queued[job] > 0, total_depth > 0,
           Dispatched(k, job)
    PROVE  SchedulerType'
<1>1. /\ queued' \in [Jobs -> Nat]
      /\ total_depth' \in Nat
  BY SMT DEF Dispatched, Popped, SchedulerType
<1>2. /\ per_priority_depth' \in [Priorities -> Nat]
      /\ per_tenant_depth' \in [Tenants -> Nat]
      /\ per_project_depth' \in [Projects -> Nat]
  BY JobNames, CounterType DEF Dispatched, Popped, SchedulerType
<1>3. /\ dispatch_count' \in Nat
      /\ dispatch_by_entity' \in [Entities -> Nat]
      /\ last_dispatch_round' \in [Entities -> Nat]
      /\ waiting_since' \in [Entities -> Nat]
  BY SMT DEF Dispatched, SchedulerType
<1>4. \A e \in Entities : last_dispatch_round'[e] <= dispatch_count' /\ waiting_since'[e] <= dispatch_count'
  BY SMT DEF Dispatched, SchedulerType
<1>5. /\ DOMAIN active_dispatches' \subseteq JobIds
      /\ active_dispatches' \in [DOMAIN active_dispatches' -> ActiveDispatch]
      /\ \A id \in DOMAIN active_dispatches' : active_dispatches'[id].job.job_id = id
  <2>1. job.job_id \in JobIds
    BY JobNames
  <2>2. [job |-> job, assigned_round |-> dispatch_count + 1] \in ActiveDispatch
    BY SMT DEF SchedulerType, ActiveDispatch
  <2> QED BY <2>1, <2>2 DEF Dispatched, SchedulerType
<1>6. UNCHANGED <<preemptions_by_job, applied_requeue_tokens, admitted, completed>>
  BY DEF Dispatched
<1> QED BY <1>1, <1>2, <1>3, <1>4, <1>5, <1>6 DEF SchedulerType

\* What is left of active_dispatches once an id is removed.
LEMMA InactiveType ==
    ASSUME SchedulerType, NEW id \in DOMAIN active_dispatches, Inactive(id)
    PROVE  /\ DOMAIN active_dispatches' = DOMAIN active_dispatches \ {id}
           /\ DOMAIN active_dispatches' \subseteq JobIds
           /\ active_dispatches' \in [DOMAIN active_dispatches' -> ActiveDispatch]
           /\ \A i \in DOMAIN active_dispatches' : active_dispatches'[i].job.job_id = i
           /\ active_dispatches[id].job \in Jobs /\ active_dispatches[id].job.job_id = id /\ id \in JobIds
BY DEF SchedulerType, Inactive, Restrict, ActiveDispatch

\* complete_job keeps the types.
LEMMA completeType ==
    ASSUME SchedulerType, NEW id \in JobIds, complete_job(id)
    PROVE  SchedulerType'
<1>1. id \in DOMAIN active_dispatches /\ Inactive(id)
  BY DEF complete_job
<1>2. completed' \in Nat
  BY SMT DEF complete_job, SchedulerType
<1>3. UNCHANGED <<queued, total_depth, per_priority_depth, per_tenant_depth, per_project_depth>>
  BY DEF complete_job, depths
<1>4. UNCHANGED <<dispatch_count, dispatch_by_entity, last_dispatch_round>>
  BY DEF complete_job, rounds
<1>5. UNCHANGED <<preemptions_by_job, applied_requeue_tokens, admitted, waiting_since>>
  BY DEF complete_job
<1> QED BY <1>1, <1>2, <1>3, <1>4, <1>5, InactiveType DEF SchedulerType

\* preempt_for_rebalance keeps the types.
LEMMA preemptType ==
    ASSUME SchedulerType, NEW id \in JobIds, NEW token \in Tokens, preempt_for_rebalance(id, token)
    PROVE  SchedulerType'
<1>1. id \in DOMAIN active_dispatches /\ Inactive(id)
  BY DEF preempt_for_rebalance
<1>2. active_dispatches[id].job \in Jobs
  BY <1>1, InactiveType
<1>3. Push(active_dispatches[id].job) /\ UNCHANGED rounds
  BY DEF preempt_for_rebalance
<1>4. preemptions_by_job' \in [JobIds -> Nat]
  BY SMT DEF preempt_for_rebalance, SchedulerType
<1>5. IsFiniteSet(DOMAIN applied_requeue_tokens')
  <2>1. DOMAIN applied_requeue_tokens' = DOMAIN applied_requeue_tokens \cup {token}
    BY DEF preempt_for_rebalance
  <2> QED BY SMT, <2>1, FS_AddElement DEF SchedulerType
<1>6. UNCHANGED <<admitted, completed>>
  BY DEF preempt_for_rebalance
<1>7. /\ DOMAIN active_dispatches' \subseteq JobIds
      /\ active_dispatches' \in [DOMAIN active_dispatches' -> ActiveDispatch]
      /\ \A i \in DOMAIN active_dispatches' : active_dispatches'[i].job.job_id = i
  BY <1>1, InactiveType
<1> HIDE DEF Push
<1> QED BY <1>2, <1>3, <1>4, <1>5, <1>6, <1>7, PushType DEF SchedulerType

-----------------------------------------------------------------------------
\* A tally with one entry incremented sums to one more.
LEMMA TallyIncremented ==
    ASSUME NEW f \in [JobIds -> Nat], NEW g \in [JobIds -> Nat], NEW id \in JobIds,
           g[id] = f[id] + 1, \A x \in JobIds : x # id => g[x] = f[x]
    PROVE  SumFunction(f) \in Nat /\ SumFunction(g) = SumFunction(f) + 1
<1>1. DOMAIN f = JobIds /\ DOMAIN g = JobIds
  OBVIOUS
<1>2. \A x \in JobIds : f[x] \in Nat /\ g[x] \in Nat /\ (x # id => g[x] = f[x])
  OBVIOUS
<1>3. SumFunctionOnSet(f, JobIds) \in Nat
  BY <1>2, FiniteNames, SumType
<1>4. SumFunctionOnSet(g, JobIds) = SumFunctionOnSet(f, JobIds) - f[id] + g[id]
  BY SMT, <1>2, FiniteNames, SumUpdate
<1>5. f[id] \in Nat
  OBVIOUS
<1> QED BY SMT, <1>1, <1>3, <1>4, <1>5 DEF SumFunction

\* submit counts one admission.
LEMMA Admitted ==
    ASSUME SchedulerType, NEW job \in Jobs, submit(job)
    PROVE  /\ SumFunction(admitted) \in Nat /\ SumFunction(admitted') = SumFunction(admitted) + 1
           /\ \A x \in JobIds : admitted'[x] = admitted[x] + (IF x = job.job_id THEN 1 ELSE 0)
<1>1. /\ admitted' \in [JobIds -> Nat] /\ admitted'[job.job_id] = admitted[job.job_id] + 1
      /\ \A x \in JobIds : x # job.job_id => admitted'[x] = admitted[x]
  BY SMT, JobNames DEF SchedulerType, submit
<1>2. admitted \in [JobIds -> Nat] /\ job.job_id \in JobIds
  BY JobNames DEF SchedulerType
<1> QED BY SMT, <1>1, <1>2, TallyIncremented

\* A preemption counts once for its job and once for its token.
LEMMA Preempted ==
    ASSUME SchedulerType, NEW id \in JobIds, NEW token \in Tokens, preempt_for_rebalance(id, token)
    PROVE  /\ SumFunction(preemptions_by_job) \in Nat
           /\ SumFunction(preemptions_by_job') = SumFunction(preemptions_by_job) + 1
           /\ \A x \in JobIds : preemptions_by_job'[x] = preemptions_by_job[x] + (IF x = id THEN 1 ELSE 0)
           /\ Cardinality(DOMAIN applied_requeue_tokens') = Cardinality(DOMAIN applied_requeue_tokens) + 1
<1>1. /\ preemptions_by_job' \in [JobIds -> Nat] /\ preemptions_by_job'[id] = preemptions_by_job[id] + 1
      /\ \A x \in JobIds : x # id => preemptions_by_job'[x] = preemptions_by_job[x]
  BY SMT DEF SchedulerType, preempt_for_rebalance
<1>2. preemptions_by_job \in [JobIds -> Nat]
  BY DEF SchedulerType
<1>3. /\ SumFunction(preemptions_by_job) \in Nat
      /\ SumFunction(preemptions_by_job') = SumFunction(preemptions_by_job) + 1
  BY <1>1, <1>2, TallyIncremented
<1>4. /\ DOMAIN applied_requeue_tokens' = DOMAIN applied_requeue_tokens \cup {token}
      /\ token \notin DOMAIN applied_requeue_tokens
  BY DEF preempt_for_rebalance
<1>5. IsFiniteSet(DOMAIN applied_requeue_tokens)
  BY DEF SchedulerType
<1>6. Cardinality(DOMAIN applied_requeue_tokens') = Cardinality(DOMAIN applied_requeue_tokens) + 1
  BY <1>4, <1>5, FS_AddElement
<1> QED BY SMT, <1>1, <1>2, <1>3, <1>6

\* Finitely many jobs are active.
LEMMA ActiveCount ==
    ASSUME SchedulerType
    PROVE  /\ IsFiniteSet(DOMAIN active_dispatches)
           /\ Cardinality(DOMAIN active_dispatches) \in Nat
<1>1. IsFiniteSet(DOMAIN active_dispatches)
  BY FiniteNames, FS_Subset DEF SchedulerType
<1> QED BY <1>1, FS_CardinalityType

-----------------------------------------------------------------------------
\* The inductive invariant of the scheduler.
SchedulerInv ==
    /\ SchedulerType
    /\ CountersMatch
    /\ NoneDuplicated
    /\ JobsConserved
    /\ PreemptionsBounded
    /\ OverfullOnlyByRequeue
    /\ TurnsTaken

\* A push adds one to the queued jobs of its id.
LEMMA HeldPushed ==
    ASSUME SchedulerType, NEW job \in Jobs, Push(job), NEW id \in JobIds
    PROVE  /\ Count({j \in Jobs : j.job_id = id}) \in Nat
           /\ Count({j \in Jobs : j.job_id = id})' =
                 Count({j \in Jobs : j.job_id = id}) + (IF id = job.job_id THEN 1 ELSE 0)
<1> DEFINE P == {j \in Jobs : j.job_id = id}
<1>1. queued' = [queued EXCEPT ![job] = @ + 1]
  BY DEF Push
<1>2. Count(P) \in Nat /\ Count(P)' = Count(P) + (IF job \in P THEN 1 ELSE 0)
  BY <1>1, QueuePushed
<1>3. job \in P <=> id = job.job_id
  OBVIOUS
<1> HIDE DEF P
<1>4. Count(P) \in Nat /\ Count(P)' = Count(P) + (IF id = job.job_id THEN 1 ELSE 0)
  BY <1>2, <1>3
<1> QED BY <1>4 DEF P

\* A pop takes one from the queued jobs of its id.
LEMMA HeldPopped ==
    ASSUME SchedulerType, NEW job \in Jobs, queued[job] > 0, Popped(job), NEW id \in JobIds
    PROVE  /\ Count({j \in Jobs : j.job_id = id}) \in Nat
           /\ Count({j \in Jobs : j.job_id = id})' =
                 Count({j \in Jobs : j.job_id = id}) - (IF id = job.job_id THEN 1 ELSE 0)
           /\ id = job.job_id => Count({j \in Jobs : j.job_id = id}) > 0
<1> DEFINE P == {j \in Jobs : j.job_id = id}
<1>1. queued' = [queued EXCEPT ![job] = @ - 1]
  BY DEF Popped
<1>2. /\ Count(P) \in Nat /\ Count(P)' = Count(P) - (IF job \in P THEN 1 ELSE 0)
      /\ job \in P => Count(P) > 0
  BY <1>1, QueuePopped
<1>3. job \in P <=> id = job.job_id
  OBVIOUS
<1> HIDE DEF P
<1>4. /\ Count(P) \in Nat /\ Count(P)' = Count(P) - (IF id = job.job_id THEN 1 ELSE 0)
      /\ id = job.job_id => Count(P) > 0
  BY <1>2, <1>3
<1> QED BY <1>4 DEF P

\* What is said of the waiting time is about numbers and finite sets.
LEMMA WaitedType ==
    ASSUME SchedulerType, NEW k \in Entities
    PROVE  /\ Waited(k) \in Nat /\ Waited(k) <= dispatch_count - last_dispatch_round[k]
           /\ IsFiniteSet(Served(k)) /\ Cardinality(Served(k)) \in Nat
           /\ StarvedFrom \in Nat /\ StarvedFrom >= 1 /\ StarvedFrom >= StarvationThreshold
           /\ last_dispatch_round[k] \in Nat /\ dispatch_count \in Nat
<1>1. /\ Waited(k) \in Nat /\ Waited(k) <= dispatch_count - last_dispatch_round[k]
      /\ last_dispatch_round[k] \in Nat /\ dispatch_count \in Nat
  BY SMT DEF SchedulerType, Waited
<1>2. IsFiniteSet(Served(k))
  BY FiniteNames, FS_Subset DEF Served
<1>3. StarvedFrom \in Nat /\ StarvedFrom >= 1 /\ StarvedFrom >= StarvationThreshold
  <2>1. StarvationThreshold \in Nat
    BY SchedulerAssumption
  <2> QED BY SMT, <2>1 DEF StarvedFrom
<1> QED BY <1>1, <1>2, <1>3, FS_CardinalityType

\* A push keeps the turns: an entity whose queue was empty begins to wait now.
LEMMA TurnsPushed ==
    ASSUME SchedulerType, SchedulerType', TurnsTaken, NEW job \in Jobs, Push(job), UNCHANGED rounds
    PROVE  TurnsTaken'
<1> SUFFICES ASSUME NEW k \in Entities, Active(k)'
             PROVE  Waited(k)' < StarvedFrom + Cardinality(Served(k)')
  BY DEF TurnsTaken, StarvedFrom
<1>1. UNCHANGED <<dispatch_count, last_dispatch_round>>
  BY DEF rounds
<1>2. Cardinality(Served(k)') \in Nat /\ StarvedFrom \in Nat /\ StarvedFrom >= 1
  <2>1. Served(k)' \in SUBSET Entities
    BY DEF Served
  <2>2. IsFiniteSet(Served(k)')
    BY <2>1, FiniteNames, FS_Subset
  <2> QED BY <2>2, WaitedType, FS_CardinalityType
<1>3. CASE Active(k)
  <2>1. waiting_since'[k] = waiting_since[k]
    BY <1>3 DEF Push, SchedulerType
  <2>2. Waited(k)' = Waited(k)
    BY <1>1, <2>1 DEF Waited
  <2>3. Served(k)' = Served(k)
    BY <1>1, <2>2 DEF Served, StarvedFrom
  <2> QED BY <1>3, <2>2, <2>3 DEF TurnsTaken
<1>4. CASE ~Active(k)
  <2>1. FairnessKey(job) = k
    <3> SUFFICES ASSUME FairnessKey(job) # k PROVE FALSE
      OBVIOUS
    <3>1. PICK j \in Jobs : FairnessKey(j) = k /\ queued'[j] > 0
      BY DEF Active
    <3>2. queued'[j] = queued[j]
      BY <3>1 DEF Push, SchedulerType
    <3> QED BY <1>4, <3>1, <3>2 DEF Active
  <2>2. waiting_since'[k] = dispatch_count
    BY <1>4, <2>1 DEF Push, SchedulerType
  <2>3. Waited(k)' = 0
    BY SMT, <1>1, <2>2 DEF Waited, SchedulerType
  <2> QED BY SMT, <1>2, <2>3
<1> QED BY <1>3, <1>4

\* A dispatch keeps the turns: whoever waits on has waited one round more, and
\* the entity dispatched is one that had not been served since.
LEMMA TurnsDispatched ==
    ASSUME SchedulerType, SchedulerType', TurnsTaken, NEW k \in Entities, NEW job \in Jobs,
           Dispatched(k, job),
           \A e \in Entities :
              Active(e) /\ (dispatch_count + 1) - last_dispatch_round[e] >= StarvationThreshold =>
                  last_dispatch_round[k] <= last_dispatch_round[e]
    PROVE  TurnsTaken'
<1> SUFFICES ASSUME NEW w \in Entities, Active(w)'
             PROVE  Waited(w)' < StarvedFrom + Cardinality(Served(w)')
  BY DEF TurnsTaken, StarvedFrom
<1>1. /\ dispatch_count' = dispatch_count + 1 /\ waiting_since' = waiting_since
      /\ last_dispatch_round' = [last_dispatch_round EXCEPT ![k] = dispatch_count + 1]
      /\ queued' = [queued EXCEPT ![job] = @ - 1]
  BY DEF Dispatched, Popped
<1>2. /\ Cardinality(Served(w)') \in Nat /\ Cardinality(Served(w)) \in Nat
      /\ IsFiniteSet(Served(w)) /\ StarvedFrom \in Nat /\ StarvedFrom >= 1
      /\ StarvedFrom >= StarvationThreshold /\ StarvationThreshold \in Nat
      /\ Waited(w) \in Nat /\ Waited(w) <= dispatch_count - last_dispatch_round[w]
      /\ dispatch_count \in Nat /\ \A e \in Entities : last_dispatch_round[e] \in Nat
  <2>1. Served(w)' \in SUBSET Entities
    BY DEF Served
  <2>2. IsFiniteSet(Served(w)')
    BY <2>1, FiniteNames, FS_Subset
  <2>3. Cardinality(Served(w)') \in Nat
    BY <2>2, FS_CardinalityType
  <2> QED BY <2>3, WaitedType, SchedulerAssumption DEF SchedulerType
<1>3. CASE w = k
  <2>1. last_dispatch_round'[w] = dispatch_count + 1
    BY <1>1, <1>3 DEF SchedulerType
  <2>2. waiting_since[w] \in Nat /\ waiting_since[w] <= dispatch_count
    BY DEF SchedulerType
  <2>3. Waited(w)' = 0
    BY SMT, <1>1, <1>2, <2>1, <2>2 DEF Waited
  <2> QED BY SMT, <1>2, <2>3
<1>4. CASE w # k
  <2>1. last_dispatch_round'[w] = last_dispatch_round[w]
    BY <1>1, <1>4 DEF SchedulerType
  <2>2. Waited(w)' = Waited(w) + 1
    <3>1. /\ waiting_since[w] \in Nat /\ last_dispatch_round[w] \in Nat /\ dispatch_count \in Nat
          /\ dispatch_count' = dispatch_count + 1 /\ waiting_since'[w] = waiting_since[w]
      BY <1>1 DEF SchedulerType
    <3> QED BY SMT, <2>1, <3>1 DEF Waited
  <2>3. CASE Waited(w) + 1 < StarvedFrom
    BY SMT, <1>2, <2>2, <2>3
  <2>4. CASE Waited(w) + 1 >= StarvedFrom
    <3>1. Active(w)
      <4>1. PICK j \in Jobs : FairnessKey(j) = w /\ queued'[j] > 0
        BY DEF Active
      <4>2. queued[j] > 0
        BY SMT, <1>1, <4>1 DEF SchedulerType
      <4> QED BY <4>1, <4>2 DEF Active
    <3>2. last_dispatch_round[k] <= last_dispatch_round[w]
      BY SMT, <1>2, <2>4, <3>1
    <3>3. k \notin Served(w)
      <4>1. /\ dispatch_count \in Nat /\ last_dispatch_round[k] \in Nat
            /\ last_dispatch_round[w] \in Nat /\ Waited(w) \in Nat /\ StarvedFrom \in Nat
            /\ Waited(w) <= dispatch_count - last_dispatch_round[w] /\ StarvedFrom >= 1
        BY <1>2
      <4>2. ~(dispatch_count - last_dispatch_round[k] <= Waited(w) - StarvedFrom)
        BY SMT, <3>2, <4>1
      <4> QED BY <4>2 DEF Served
    <3>4. Served(w)' = Served(w) \cup {k}
      <4>1. \A e \in Entities \ {k} : last_dispatch_round'[e] = last_dispatch_round[e]
        BY <1>1 DEF SchedulerType
      <4>2. last_dispatch_round'[k] = dispatch_count + 1
        BY <1>1 DEF SchedulerType
      <4>3. StarvedFrom' = StarvedFrom
        BY DEF StarvedFrom
      <4>4. ASSUME NEW e \in Entities \ {w}
            PROVE  dispatch_count' - last_dispatch_round'[e] <= Waited(w)' - StarvedFrom <=>
                      e = k \/ dispatch_count - last_dispatch_round[e] <= Waited(w) - StarvedFrom
        BY SMT, <1>1, <1>2, <2>2, <2>4, <4>1, <4>2
      <4> QED BY <1>4, <4>3, <4>4 DEF Served
    <3>5. Cardinality(Served(w)') = Cardinality(Served(w)) + 1
      BY <1>2, <3>3, <3>4, FS_AddElement
    <3>6. Waited(w) < StarvedFrom + Cardinality(Served(w))
      BY <3>1 DEF TurnsTaken
    <3> QED BY SMT, <1>2, <2>2, <3>5, <3>6
  <2> QED BY SMT, <1>2, <2>3, <2>4
<1> QED BY <1>3, <1>4

-----------------------------------------------------------------------------
\* submit keeps the invariant.
LEMMA submitKeeps ==
    ASSUME SchedulerInv, NEW job \in Jobs, submit(job)
    PROVE  SchedulerInv'
<1> USE DEF SchedulerInv
<1>1. Push(job) /\ UNCHANGED rounds /\ UNCHANGED <<active_dispatches, preemptions_by_job, applied_requeue_tokens, completed>>
  BY DEF submit
<1>2. SchedulerType'
  BY submitType
<1>3. CountersMatch'
  BY <1>1, MatchPushed
<1>4. NoneDuplicated'
  <2> SUFFICES ASSUME NEW id \in JobIds PROVE Held(id)' <= admitted'[id]
    BY DEF NoneDuplicated
  <2>1. /\ Count({j \in Jobs : j.job_id = id}) \in Nat
        /\ Count({j \in Jobs : j.job_id = id})' =
              Count({j \in Jobs : j.job_id = id}) + (IF id = job.job_id THEN 1 ELSE 0)
    BY <1>1, HeldPushed
  <2>2. admitted[id] \in Nat /\ admitted'[id] = admitted[id] + (IF id = job.job_id THEN 1 ELSE 0)
    BY Admitted DEF SchedulerType
  <2>3. Held(id) <= admitted[id]
    BY DEF NoneDuplicated
  <2> QED BY SMT, <1>1, <2>1, <2>2, <2>3 DEF Held
<1>5. JobsConserved'
  <2> SUFFICES ASSUME \A id \in JobIds : admitted'[id] <= 1
               PROVE  SumFunction(admitted') = total_depth' + Cardinality(DOMAIN active_dispatches') + completed'
    BY DEF JobsConserved
  <2>1. \A id \in JobIds : admitted[id] <= 1
    BY SMT, Admitted DEF SchedulerType
  <2>2. SumFunction(admitted) = total_depth + Cardinality(DOMAIN active_dispatches) + completed
    BY <2>1 DEF JobsConserved
  <2>3. total_depth' = total_depth + 1
    BY <1>1 DEF Push
  <2>4. Cardinality(DOMAIN active_dispatches) \in Nat /\ total_depth \in Nat /\ completed \in Nat
    BY ActiveCount DEF SchedulerType
  <2>5. SumFunction(admitted') = SumFunction(admitted) + 1
    BY Admitted
  <2>6. DOMAIN active_dispatches' = DOMAIN active_dispatches /\ completed' = completed
    BY <1>1
  <2> QED BY SMT, <2>2, <2>3, <2>4, <2>5, <2>6
<1>6. PreemptionsBounded'
  BY <1>1 DEF PreemptionsBounded
<1>7. OverfullOnlyByRequeue'
  <2>1. SumFunction(preemptions_by_job) \in Nat
    BY SMT, ActiveCount, FS_CardinalityType DEF PreemptionsBounded, SchedulerType
  <2>2. /\ total_depth < MaxTotal
        /\ per_tenant_depth[job.tenant_id] < MaxPerTenant
        /\ per_project_depth[job.project_id] < MaxPerProject
    BY DEF submit, evaluate_admission
  <2>3. MaxTotal \in Nat /\ MaxPerTenant \in Nat /\ MaxPerProject \in Nat
    BY SchedulerAssumption
  <2>4. total_depth' <= MaxTotal + SumFunction(preemptions_by_job)
    BY SMT, <1>1, <2>1, <2>2, <2>3 DEF Push, SchedulerType
  <2>5. \A t \in Tenants : per_tenant_depth'[t] <= MaxPerTenant + SumFunction(preemptions_by_job)
    BY SMT, <1>1, <2>1, <2>2, <2>3 DEF Push, SchedulerType, OverfullOnlyByRequeue
  <2>6. \A p \in Projects : per_project_depth'[p] <= MaxPerProject + SumFunction(preemptions_by_job)
    BY SMT, <1>1, <2>1, <2>2, <2>3 DEF Push, SchedulerType, OverfullOnlyByRequeue
  <2> QED BY <1>1, <2>4, <2>5, <2>6 DEF OverfullOnlyByRequeue
<1>8. TurnsTaken'
  BY <1>1, <1>2, TurnsPushed
<1> QED BY <1>2, <1>3, <1>4, <1>5, <1>6, <1>7, <1>8

\* dispatch_next keeps the invariant; a job that replaces an active one of its id
\* was admitted twice.
LEMMA dispatchKeeps ==
    ASSUME SchedulerInv, dispatch_next
    PROVE  SchedulerInv'
<1>0. SchedulerType /\ CountersMatch /\ NoneDuplicated /\ JobsConserved /\ PreemptionsBounded
      /\ OverfullOnlyByRequeue /\ TurnsTaken
  BY DEF SchedulerInv
<1>1. PICK k \in Entities, job \in Jobs :
         /\ Active(k) /\ FairnessKey(job) = k /\ queued[job] > 0
         /\ Dispatched(k, job)
         /\ \A e \in Entities :
               Active(e) /\ (dispatch_count + 1) - last_dispatch_round[e] >= StarvationThreshold =>
                   last_dispatch_round[k] <= last_dispatch_round[e]
  BY <1>0, DispatchChoice
<1>2. /\ Popped(job)
      /\ UNCHANGED <<preemptions_by_job, applied_requeue_tokens, admitted, completed>>
      /\ DOMAIN active_dispatches' = DOMAIN active_dispatches \cup {job.job_id}
      /\ job.job_id \in JobIds
  BY <1>1, JobNames DEF Dispatched
<1>3. CountersMatch' /\ total_depth > 0
  BY <1>0, <1>1, <1>2, MatchPopped
<1>4. SchedulerType'
  BY <1>0, <1>1, <1>3, dispatchType
<1>5. \A id \in JobIds :
        /\ Count({j \in Jobs : j.job_id = id}) \in Nat
        /\ Count({j \in Jobs : j.job_id = id})' =
              Count({j \in Jobs : j.job_id = id}) - (IF id = job.job_id THEN 1 ELSE 0)
        /\ id = job.job_id => Count({j \in Jobs : j.job_id = id}) > 0
  BY <1>0, <1>1, <1>2, HeldPopped
<1>6. NoneDuplicated'
  <2> SUFFICES ASSUME NEW id \in JobIds PROVE Held(id)' <= admitted'[id]
    BY DEF NoneDuplicated
  <2>1. admitted[id] \in Nat /\ Held(id) <= admitted[id]
    BY <1>0 DEF NoneDuplicated, SchedulerType
  <2> QED BY SMT, <1>2, <1>5, <2>1 DEF Held
<1>7. JobsConserved'
  <2> SUFFICES ASSUME \A id \in JobIds : admitted'[id] <= 1
               PROVE  SumFunction(admitted') = total_depth' + Cardinality(DOMAIN active_dispatches') + completed'
    BY DEF JobsConserved
  <2>1. SumFunction(admitted) = total_depth + Cardinality(DOMAIN active_dispatches) + completed
    BY <1>0, <1>2 DEF JobsConserved
  <2>2. job.job_id \notin DOMAIN active_dispatches
    <3>1. Held(job.job_id) <= admitted[job.job_id] /\ admitted[job.job_id] <= 1 /\ admitted[job.job_id] \in Nat
      BY <1>0, <1>2 DEF NoneDuplicated, SchedulerType
    <3>2. Count({j \in Jobs : j.job_id = job.job_id}) \in Nat /\ Count({j \in Jobs : j.job_id = job.job_id}) > 0
      BY <1>2, <1>5
    <3> QED BY SMT, <3>1, <3>2 DEF Held
  <2>3. Cardinality(DOMAIN active_dispatches') = Cardinality(DOMAIN active_dispatches) + 1
    BY <1>0, <1>2, <2>2, ActiveCount, FS_AddElement
  <2>4. Cardinality(DOMAIN active_dispatches) \in Nat /\ total_depth \in Nat /\ completed \in Nat
    BY <1>0, ActiveCount DEF SchedulerType
  <2>5. total_depth' = total_depth - 1 /\ admitted' = admitted /\ completed' = completed
    BY <1>2 DEF Popped
  <2>6. SumFunction(admitted') = SumFunction(admitted)
    BY <2>5
  <2> QED BY SMT, <2>1, <2>3, <2>4, <2>5, <2>6
<1>8. PreemptionsBounded'
  BY <1>0, <1>2 DEF PreemptionsBounded
<1>9. OverfullOnlyByRequeue'
  <2>1. SumFunction(preemptions_by_job) \in Nat
    BY SMT, <1>0, FS_CardinalityType DEF PreemptionsBounded, SchedulerType
  <2>2. MaxTotal \in Nat /\ MaxPerTenant \in Nat /\ MaxPerProject \in Nat
    BY SchedulerAssumption
  <2>3. total_depth' <= MaxTotal + SumFunction(preemptions_by_job)
    BY SMT, <1>0, <1>2, <2>1, <2>2 DEF Popped, SchedulerType, OverfullOnlyByRequeue
  <2>4. \A t \in Tenants : per_tenant_depth'[t] <= MaxPerTenant + SumFunction(preemptions_by_job)
    BY SMT, <1>0, <1>2, <2>1, <2>2 DEF Popped, Decremented, SchedulerType, OverfullOnlyByRequeue
  <2>5. \A p \in Projects : per_project_depth'[p] <= MaxPerProject + SumFunction(preemptions_by_job)
    BY SMT, <1>0, <1>2, <2>1, <2>2 DEF Popped, Decremented, SchedulerType, OverfullOnlyByRequeue
  <2> QED BY <1>2, <2>3, <2>4, <2>5 DEF OverfullOnlyByRequeue
<1>10. TurnsTaken'
  BY <1>0, <1>1, <1>4, TurnsDispatched
<1> QED BY <1>3, <1>4, <1>6, <1>7, <1>8, <1>9, <1>10 DEF SchedulerInv

\* complete_job keeps the invariant.
LEMMA completeKeeps ==
    ASSUME SchedulerInv, NEW id \in JobIds, complete_job(id)
    PROVE  SchedulerInv'
<1>0. SchedulerType /\ CountersMatch /\ NoneDuplicated /\ JobsConserved /\ PreemptionsBounded
      /\ OverfullOnlyByRequeue /\ TurnsTaken
  BY DEF SchedulerInv
<1>1. id \in DOMAIN active_dispatches /\ completed' = completed + 1
  BY DEF complete_job
<1>2. DOMAIN active_dispatches' = DOMAIN active_dispatches \ {id}
  BY <1>0, InactiveType DEF complete_job
<1>3. /\ UNCHANGED <<queued, total_depth, per_priority_depth, per_tenant_depth, per_project_depth>>
      /\ UNCHANGED <<dispatch_count, dispatch_by_entity, last_dispatch_round>>
      /\ UNCHANGED <<preemptions_by_job, applied_requeue_tokens, admitted, waiting_since>>
  BY DEF complete_job, depths, rounds
<1>4. SchedulerType'
  BY <1>0, completeType
<1>5. CountersMatch'
  BY <1>0, <1>3 DEF CountersMatch
<1>6. NoneDuplicated'
  <2> SUFFICES ASSUME NEW i \in JobIds PROVE Held(i)' <= admitted'[i]
    BY DEF NoneDuplicated
  <2>1. admitted[i] \in Nat /\ Held(i) <= admitted[i]
    BY <1>0 DEF NoneDuplicated, SchedulerType
  <2>2. Count({j \in Jobs : j.job_id = i}) \in Nat
    <3>1. IsFiniteSet({j \in Jobs : j.job_id = i})
      BY SchedulerAssumption, FS_Subset
    <3> QED BY <1>0, <3>1, SumType DEF Count, SchedulerType
  <2>3. Count({j \in Jobs : j.job_id = i})' = Count({j \in Jobs : j.job_id = i})
    BY <1>3 DEF Count
  <2> QED BY SMT, <1>2, <1>3, <2>1, <2>2, <2>3 DEF Held
<1>7. JobsConserved'
  <2> SUFFICES ASSUME \A i \in JobIds : admitted'[i] <= 1
               PROVE  SumFunction(admitted') = total_depth' + Cardinality(DOMAIN active_dispatches') + completed'
    BY DEF JobsConserved
  <2>1. SumFunction(admitted) = total_depth + Cardinality(DOMAIN active_dispatches) + completed
    BY <1>0, <1>3 DEF JobsConserved
  <2>2. Cardinality(DOMAIN active_dispatches') = Cardinality(DOMAIN active_dispatches) - 1
    BY <1>0, <1>1, <1>2, ActiveCount, FS_RemoveElement
  <2>3. Cardinality(DOMAIN active_dispatches) \in Nat /\ total_depth \in Nat /\ completed \in Nat
    BY <1>0, ActiveCount DEF SchedulerType
  <2> QED BY SMT, <1>1, <1>3, <2>1, <2>2, <2>3
<1>8. PreemptionsBounded' /\ OverfullOnlyByRequeue'
  BY <1>0, <1>3 DEF PreemptionsBounded, OverfullOnlyByRequeue
<1>9. TurnsTaken'
  <2>1. \A k \in Entities : Active(k)' = Active(k) /\ Waited(k)' = Waited(k)
    BY <1>3 DEF Active, Waited
  <2>2. \A k \in Entities : Served(k)' = Served(k)
    BY <1>3, <2>1 DEF Served, StarvedFrom
  <2> QED BY <1>0, <2>1, <2>2 DEF TurnsTaken, StarvedFrom
<1> QED BY <1>4, <1>5, <1>6, <1>7, <1>8, <1>9 DEF SchedulerInv

\* preempt_for_rebalance keeps the invariant; the job it requeues is the only
\* one by which a queue may grow past its limit.
LEMMA preemptKeeps ==
    ASSUME SchedulerInv, NEW id \in JobIds, NEW token \in Tokens, preempt_for_rebalance(id, token)
    PROVE  SchedulerInv'
<1>0. SchedulerType /\ CountersMatch /\ NoneDuplicated /\ JobsConserved /\ PreemptionsBounded
      /\ OverfullOnlyByRequeue /\ TurnsTaken
  BY DEF SchedulerInv
<1> DEFINE job == active_dispatches[id].job
<1>1. /\ id \in DOMAIN active_dispatches /\ Inactive(id) /\ Push(job)
      /\ UNCHANGED rounds /\ UNCHANGED <<admitted, completed>>
      /\ preemptions_by_job[id] < MaxPreemptions
  BY DEF preempt_for_rebalance
<1>2. DOMAIN active_dispatches' = DOMAIN active_dispatches \ {id} /\ job \in Jobs /\ job.job_id = id
  BY <1>0, <1>1, InactiveType
<1>3. SchedulerType'
  BY <1>0, preemptType
<1> HIDE DEF job
<1>4. CountersMatch'
  BY <1>0, <1>1, <1>2, MatchPushed
<1>5. /\ SumFunction(preemptions_by_job) \in Nat
      /\ SumFunction(preemptions_by_job') = SumFunction(preemptions_by_job) + 1
      /\ \A x \in JobIds : preemptions_by_job'[x] = preemptions_by_job[x] + (IF x = id THEN 1 ELSE 0)
      /\ Cardinality(DOMAIN applied_requeue_tokens') = Cardinality(DOMAIN applied_requeue_tokens) + 1
  BY <1>0, Preempted
<1>6. NoneDuplicated'
  <2> SUFFICES ASSUME NEW i \in JobIds PROVE Held(i)' <= admitted'[i]
    BY DEF NoneDuplicated
  <2>1. admitted[i] \in Nat /\ Held(i) <= admitted[i]
    BY <1>0 DEF NoneDuplicated, SchedulerType
  <2>2. /\ Count({j \in Jobs : j.job_id = i}) \in Nat
        /\ Count({j \in Jobs : j.job_id = i})' =
              Count({j \in Jobs : j.job_id = i}) + (IF i = job.job_id THEN 1 ELSE 0)
    BY <1>0, <1>1, <1>2, HeldPushed
  <2> QED BY SMT, <1>1, <1>2, <2>1, <2>2 DEF Held
<1>7. JobsConserved'
  <2> SUFFICES ASSUME \A i \in JobIds : admitted'[i] <= 1
               PROVE  SumFunction(admitted') = total_depth' + Cardinality(DOMAIN active_dispatches') + completed'
    BY DEF JobsConserved
  <2>1. SumFunction(admitted) = total_depth + Cardinality(DOMAIN active_dispatches) + completed
    BY <1>0, <1>1 DEF JobsConserved
  <2>2. Cardinality(DOMAIN active_dispatches') = Cardinality(DOMAIN active_dispatches) - 1
    BY SMT, <1>0, <1>1, <1>2, ActiveCount, FS_RemoveElement
  <2>3. Cardinality(DOMAIN active_dispatches) \in Nat /\ total_depth \in Nat /\ completed \in Nat
    BY <1>0, ActiveCount DEF SchedulerType
  <2>4. total_depth' = total_depth + 1 /\ admitted' = admitted /\ completed' = completed
    BY <1>1 DEF Push
  <2>5. SumFunction(admitted') = SumFunction(admitted)
    BY <2>4
  <2> QED BY SMT, <2>1, <2>2, <2>3, <2>4, <2>5
<1>8. PreemptionsBounded'
  <2>1. \A x \in JobIds : preemptions_by_job'[x] <= MaxPreemptions
    BY SMT, <1>0, <1>1, <1>5, SchedulerAssumption DEF PreemptionsBounded, SchedulerType
  <2> QED BY <1>0, <1>5, <2>1 DEF PreemptionsBounded
<1>9. OverfullOnlyByRequeue'
  <2>1. MaxTotal \in Nat /\ MaxPerTenant \in Nat /\ MaxPerProject \in Nat
    BY SchedulerAssumption
  <2>2. total_depth' <= MaxTotal + SumFunction(preemptions_by_job')
    BY SMT, <1>0, <1>1, <1>5, <2>1 DEF Push, SchedulerType, OverfullOnlyByRequeue
  <2>3. \A t \in Tenants : per_tenant_depth'[t] <= MaxPerTenant + SumFunction(preemptions_by_job')
    BY SMT, <1>0, <1>1, <1>5, <2>1 DEF Push, SchedulerType, OverfullOnlyByRequeue
  <2>4. \A p \in Projects : per_project_depth'[p] <= MaxPerProject + SumFunction(preemptions_by_job')
    BY SMT, <1>0, <1>1, <1>5, <2>1 DEF Push, SchedulerType, OverfullOnlyByRequeue
  <2> QED BY <2>2, <2>3, <2>4 DEF OverfullOnlyByRequeue
<1>10. TurnsTaken'
  BY <1>0, <1>1, <1>2, <1>3, TurnsPushed
<1> QED BY <1>3, <1>4, <1>6, <1>7, <1>8, <1>9, <1>10 DEF SchedulerInv

\* The invariant holds of the empty scheduler.
LEMMA SchedulerInit == Init => SchedulerInv
<1> SUFFICES ASSUME Init PROVE SchedulerInv
  OBVIOUS
<1> USE DEF Init
<1>1. \A S \in SUBSET Jobs : Count(S) = 0
  <2> SUFFICES ASSUME NEW S \in SUBSET Jobs PROVE Count(S) = 0
    OBVIOUS
  <2>1. IsFiniteSet(S) /\ \A x \in S : queued[x] = 0
    BY SchedulerAssumption, FS_Subset
  <2> QED BY <2>1, SumZero DEF Count
<1>2. SchedulerType
  BY SMT, FS_EmptySet DEF SchedulerType
<1>3. CountersMatch
  BY <1>1 DEF CountersMatch, Count
<1>4. NoneDuplicated
  BY SMT, <1>1 DEF NoneDuplicated, Held
<1>5. SumFunction(admitted) = 0 /\ SumFunction(preemptions_by_job) = 0
  <2>1. DOMAIN admitted = JobIds /\ \A x \in JobIds : admitted[x] = 0
    OBVIOUS
  <2>2. DOMAIN preemptions_by_job = JobIds /\ \A x \in JobIds : preemptions_by_job[x] = 0
    OBVIOUS
  <2> QED BY <2>1, <2>2, FiniteNames, SumZero DEF SumFunction
<1>6. Cardinality(DOMAIN active_dispatches) = 0 /\ Cardinality(DOMAIN applied_requeue_tokens) = 0
  BY FS_EmptySet
<1>7. JobsConserved
  BY SMT, <1>5, <1>6 DEF JobsConserved
<1>8. PreemptionsBounded
  BY SMT, <1>5, <1>6, SchedulerAssumption DEF PreemptionsBounded
<1>9. OverfullOnlyByRequeue
  BY SMT, <1>5, SchedulerAssumption DEF OverfullOnlyByRequeue
<1>10. TurnsTaken
  BY SMT DEF TurnsTaken, Active
<1> QED BY <1>2, <1>3, <1>4, <1>7, <1>8, <1>9, <1>10 DEF SchedulerInv

\* The invariant depends on nothing but the variables.
LEMMA SchedulerStutter ==
    ASSUME SchedulerInv, UNCHANGED vars
    PROVE  SchedulerInv'
<1>1. /\ UNCHANGED <<queued, total_depth, per_priority_depth, per_tenant_depth, per_project_depth>>
      /\ UNCHANGED <<dispatch_count, dispatch_by_entity, last_dispatch_round>>
      /\ UNCHANGED <<active_dispatches, preemptions_by_job, applied_requeue_tokens>>
      /\ UNCHANGED <<admitted, completed, waiting_since>>
  BY DEF vars, depths, rounds
<1>2. SchedulerType' /\ CountersMatch' /\ JobsConserved' /\ PreemptionsBounded' /\ OverfullOnlyByRequeue'
  BY <1>1 DEF SchedulerInv, SchedulerType, CountersMatch, JobsConserved, PreemptionsBounded, OverfullOnlyByRequeue
<1>3. NoneDuplicated'
  BY <1>1 DEF SchedulerInv, NoneDuplicated, Held, Count
<1>4. TurnsTaken'
  <2>1. \A k \in Entities : Active(k)' = Active(k) /\ Waited(k)' = Waited(k)
    BY <1>1 DEF Active, Waited
  <2>2. \A k \in Entities : Served(k)' = Served(k)
    BY <1>1, <2>1 DEF Served, StarvedFrom
  <2> QED BY <2>1, <2>2 DEF SchedulerInv, TurnsTaken, StarvedFrom
<1> QED BY <1>2, <1>3, <1>4 DEF SchedulerInv

\* The invariant holds in every reachable state.
THEOREM SchedulerSafe == Spec => []SchedulerInv
<1>1. SchedulerInv /\ [Next]_vars => SchedulerInv'
  BY submitKeeps, dispatchKeeps, completeKeeps, preemptKeeps, SchedulerStutter DEF Next
<1> QED BY <1>1, SchedulerInit, PTL DEF Spec

\* The depth counters agree with the queues and no job is lost or duplicated,
\* for any jobs, limits, weights and thresholds and any sequence of calls.
THEOREM JobsAreAccounted == Spec => []JobsAccounted
<1>1. SchedulerInv => JobsAccounted
  BY DEF SchedulerInv, JobsAccounted
<1> QED BY <1>1, SchedulerSafe, PTL

\* Only a requeue lets a queue grow past its limit, and no job is preempted
\* beyond its cap, for any limits and tokens.
THEOREM LimitsAreHeld == Spec => []LimitsHeld
<1>1. SchedulerInv => LimitsHeld
  BY DEF SchedulerInv, LimitsHeld
<1> QED BY <1>1, SchedulerSafe, PTL

\* No entity with a job waits longer than the threshold and one turn of every
\* other entity, for any number of entities, weights and threshold.
THEOREM StarvationIsBounded == Spec => []StarvationBound
<1>1. SchedulerInv => StarvationBound
  <2> SUFFICES ASSUME SchedulerInv, NEW k \in Entities, Active(k)
               PROVE  Waited(k) < StarvedFrom + Cardinality(Entities) - 1
    BY DEF StarvationBound
  <2>1. SchedulerType /\ Waited(k) < StarvedFrom + Cardinality(Served(k))
    BY DEF SchedulerInv, TurnsTaken
  <2>2. Served(k) \in SUBSET (Entities \ {k})
    BY DEF Served
  <2>3. IsFiniteSet(Entities \ {k}) /\ Cardinality(Entities \ {k}) = Cardinality(Entities) - 1
    BY FiniteNames, FS_RemoveElement
  <2>4. Cardinality(Served(k)) <= Cardinality(Entities) - 1
    BY SMT, <2>2, <2>3, FS_Subset
  <2>5. Cardinality(Entities) \in Nat
    BY FiniteNames, FS_CardinalityType
  <2> QED BY SMT, <2>1, <2>4, <2>5, WaitedType
<1> QED BY <1>1, SchedulerSafe, PTL
===============================================================================
