------------------------------ MODULE Scheduler ------------------------------
(***************************************************************************)
(* The resource manager's Scheduler (resource-manager lib.rs): admission   *)
(* control over four depth counters, fairness- and starvation-driven       *)
(* dispatch, completion and preemption with requeue.  Equal jobs in one    *)
(* priority bucket cannot be told apart, so a queue is a count per job.    *)
(***************************************************************************)
EXTENDS Naturals, FiniteSets, Functions

CONSTANTS Jobs,            \* the ScheduledJobs callers submit, any number of times
          Tokens,          \* requeue tokens
          NoDeadline,      \* deadline_ms = None
          MaxTotal, MaxPerPriority, MaxPerTenant, MaxPerProject, DeferAt,  \* AdmissionPolicy
          Weight,          \* default_tenant_weight * default_project_weight
          StarvationThreshold,
          MinRounds, MaxPreemptions,   \* PreemptionPolicy
          MaxAdmitted      \* bound on admissions

VARIABLES queued,          \* job -> how often it is in its entity's queue
          total_depth, per_priority_depth, per_tenant_depth, per_project_depth,
          dispatch_count,
          dispatch_by_entity, last_dispatch_round,
          active_dispatches,       \* job id -> ActiveDispatch
          preemptions_by_job, applied_requeue_tokens,
          admitted,        \* history: job id -> admissions
          completed,       \* history: completions
          waiting_since    \* history: entity -> the round its queue last became non-empty

\* Limits, thresholds and weights are unsigned numbers, zero included.  Names are
\* numbers too: the code compares them only by equality and by their order.
ASSUME SchedulerAssumption ==
    /\ IsFiniteSet(Jobs)
    /\ \A job \in Jobs :
          /\ {job.job_id, job.tenant_id, job.project_id, job.priority} \subseteq Nat
          /\ job.deadline_ms \in Nat \cup {NoDeadline}
    /\ NoDeadline \notin Nat
    /\ {MaxTotal, MaxPerPriority, MaxPerTenant, MaxPerProject, DeferAt, Weight,
        StarvationThreshold, MinRounds, MaxPreemptions} \subseteq Nat

depths == <<queued, total_depth, per_priority_depth, per_tenant_depth, per_project_depth>>
rounds == <<dispatch_count, dispatch_by_entity, last_dispatch_round>>
vars == <<depths, rounds, active_dispatches, preemptions_by_job, applied_requeue_tokens,
          admitted, completed, waiting_since>>

FairnessKey(job) == <<job.tenant_id, job.project_id>>
Entities == {FairnessKey(job) : job \in Jobs}
JobIds == {job.job_id : job \in Jobs}
Priorities == {job.priority : job \in Jobs}
Tenants == {job.tenant_id : job \in Jobs}
Projects == {job.project_id : job \in Jobs}

Init ==
    /\ queued = [job \in Jobs |-> 0]
    /\ total_depth = 0
    /\ per_priority_depth = [p \in Priorities |-> 0]
    /\ per_tenant_depth = [t \in Tenants |-> 0]
    /\ per_project_depth = [p \in Projects |-> 0]
    /\ dispatch_count = 0
    /\ dispatch_by_entity = [k \in Entities |-> 0]
    /\ last_dispatch_round = [k \in Entities |-> 0]
    /\ active_dispatches = [id \in {} |-> 0]
    /\ preemptions_by_job = [id \in JobIds |-> 0]
    /\ applied_requeue_tokens = [token \in {} |-> 0]
    /\ admitted = [id \in JobIds |-> 0]
    /\ completed = 0
    /\ waiting_since = [k \in Entities |-> 0]

Active(k) == \E job \in Jobs : FairnessKey(job) = k /\ queued[job] > 0
-----------------------------------------------------------------------------
\* Mutant of evaluate_admission: the project's limit is not checked.
evaluate_admission_no_project(job) ==
    /\ total_depth < MaxTotal
    /\ per_priority_depth[job.priority] < MaxPerPriority
    /\ per_tenant_depth[job.tenant_id] < MaxPerTenant
    /\ total_depth < DeferAt

\* evaluate_admission answers Admit: every limit has room.  The order in which
\* the code checks them decides only the reason of a refusal.
evaluate_admission(job) ==
    /\ total_depth < MaxTotal
    /\ per_priority_depth[job.priority] < MaxPerPriority
    /\ per_tenant_depth[job.tenant_id] < MaxPerTenant
    /\ per_project_depth[job.project_id] < MaxPerProject
    /\ total_depth < DeferAt

\* What submit and preempt_for_rebalance do to queue a job.
Push(job) ==
    /\ queued' = [queued EXCEPT ![job] = @ + 1]
    /\ total_depth' = total_depth + 1
    /\ per_priority_depth' = [per_priority_depth EXCEPT ![job.priority] = @ + 1]
    /\ per_tenant_depth' = [per_tenant_depth EXCEPT ![job.tenant_id] = @ + 1]
    /\ per_project_depth' = [per_project_depth EXCEPT ![job.project_id] = @ + 1]
    /\ waiting_since' = [waiting_since EXCEPT
                            ![FairnessKey(job)] = IF Active(FairnessKey(job)) THEN @ ELSE dispatch_count]

\* A job that is rejected or deferred leaves the scheduler as it was, and no
\* job id is looked up: a job may be submitted again while it is queued or runs.
submit(job) ==
    /\ SumFunction(admitted) < MaxAdmitted
    /\ evaluate_admission(job)
    /\ Push(job)
    /\ admitted' = [admitted EXCEPT ![job.job_id] = @ + 1]
    /\ UNCHANGED <<rounds, active_dispatches, preemptions_by_job, applied_requeue_tokens, completed>>
-----------------------------------------------------------------------------
(***************************************************************************)
(* pick_dispatch_entity: the longest-waiting starved entity, else the one  *)
(* with the largest fairness lag, then depth; ties go to the greatest key. *)
(* An entity that was never dispatched counts as dispatched in round 0.    *)
(***************************************************************************)
rounds_since_dispatch(k, round) == round - last_dispatch_round[k]

total_active_weight == Weight * Cardinality({k \in Entities : Active(k)})

fairness_lag_millis(k, round) ==
    IF total_active_weight = 0 THEN 0
    ELSE LET expected == (round * Weight * 1000) \div total_active_weight
             actual   == dispatch_by_entity[k] * 1000
         IN  IF expected > actual THEN expected - actual ELSE 0

Depth(k) == SumFunctionOnSet(queued, {job \in Jobs : FairnessKey(job) = k})

\* The lexicographic order of tuples of numbers of one length.
Less(a, b) ==
    \E i \in DOMAIN a : a[i] < b[i] /\ \A h \in 1 .. i - 1 : a[h] = b[h]

Starved(round) ==
    {k \in Entities : Active(k) /\ rounds_since_dispatch(k, round) >= StarvationThreshold}

\* Mutant of pick_dispatch_entity: no starvation override.
pick_dispatch_entity_by_lag(round) ==
    LET rank(k) == <<fairness_lag_millis(k, round), Depth(k), k[1], k[2]>>
    IN  CHOOSE k \in {e \in Entities : Active(e)} :
            \A other \in {e \in Entities : Active(e)} : ~Less(rank(k), rank(other))

pick_dispatch_entity(round) ==
    LET wait(k) == <<rounds_since_dispatch(k, round), k[1], k[2]>>
        rank(k) == <<fairness_lag_millis(k, round), Depth(k), k[1], k[2]>>
    IN
    IF Starved(round) # {}
    THEN CHOOSE k \in Starved(round) : \A other \in Starved(round) : ~Less(wait(k), wait(other))
    ELSE CHOOSE k \in {e \in Entities : Active(e)} :
            \A other \in {e \in Entities : Active(e)} : ~Less(rank(k), rank(other))

\* compare_deadline: a job without a deadline comes last.
compare_deadline(left, right) ==
    left # NoDeadline /\ (right = NoDeadline \/ left < right)

Before(a, b) ==
    \/ a.priority > b.priority
    \/ a.priority = b.priority /\ compare_deadline(a.deadline_ms, b.deadline_ms)
    \/ a.priority = b.priority /\ a.deadline_ms = b.deadline_ms /\ a.job_id < b.job_id

pop_next(k) ==
    LET waiting == {job \in Jobs : FairnessKey(job) = k /\ queued[job] > 0}
    IN  CHOOSE job \in waiting : \A other \in waiting : ~Before(other, job)

\* decrement_counter saturates at zero.
Decremented(counter, key) == [counter EXCEPT ![key] = IF @ > 0 THEN @ - 1 ELSE 0]

\* The dispatched job replaces an active job with the same id, if there is one.
dispatch_next ==
    /\ total_depth # 0
    /\ LET round == dispatch_count + 1
           k     == pick_dispatch_entity(round)
           job   == pop_next(k)
       IN
       /\ queued' = [queued EXCEPT ![job] = @ - 1]
       /\ total_depth' = total_depth - 1
       /\ per_priority_depth' = Decremented(per_priority_depth, job.priority)
       /\ per_tenant_depth' = Decremented(per_tenant_depth, job.tenant_id)
       /\ per_project_depth' = Decremented(per_project_depth, job.project_id)
       /\ dispatch_count' = round
       /\ dispatch_by_entity' = [dispatch_by_entity EXCEPT ![k] = @ + 1]
       /\ last_dispatch_round' = [last_dispatch_round EXCEPT ![k] = round]
       /\ active_dispatches' =
             [id \in DOMAIN active_dispatches \cup {job.job_id} |->
                 IF id = job.job_id THEN [job |-> job, assigned_round |-> round]
                 ELSE active_dispatches[id]]
    /\ UNCHANGED <<preemptions_by_job, applied_requeue_tokens, admitted, completed, waiting_since>>

Inactive(id) == active_dispatches' = Restrict(active_dispatches, DOMAIN active_dispatches \ {id})

complete_job(id) ==
    /\ id \in DOMAIN active_dispatches
    /\ Inactive(id)
    /\ completed' = completed + 1
    /\ UNCHANGED <<depths, rounds, preemptions_by_job, applied_requeue_tokens, admitted, waiting_since>>

\* Mutant of preempt_for_rebalance: the requeued job stays active.
preempt_for_rebalance_keeps_active(id, token) ==
    /\ token \notin DOMAIN applied_requeue_tokens
    /\ id \in DOMAIN active_dispatches
    /\ dispatch_count - active_dispatches[id].assigned_round >= MinRounds
    /\ preemptions_by_job[id] < MaxPreemptions
    /\ applied_requeue_tokens' =
          [t \in DOMAIN applied_requeue_tokens \cup {token} |->
              IF t = token THEN id ELSE applied_requeue_tokens[t]]
    /\ preemptions_by_job' = [preemptions_by_job EXCEPT ![id] = @ + 1]
    /\ Push(active_dispatches[id].job)
    /\ UNCHANGED <<active_dispatches, rounds, admitted, completed>>

\* The requeue that passes the token, activity, runtime and cap checks; it does
\* not ask evaluate_admission.
preempt_for_rebalance(id, token) ==
    /\ token \notin DOMAIN applied_requeue_tokens
    /\ id \in DOMAIN active_dispatches
    /\ dispatch_count - active_dispatches[id].assigned_round >= MinRounds
    /\ preemptions_by_job[id] < MaxPreemptions
    /\ Inactive(id)
    /\ applied_requeue_tokens' =
          [t \in DOMAIN applied_requeue_tokens \cup {token} |->
              IF t = token THEN id ELSE applied_requeue_tokens[t]]
    /\ preemptions_by_job' = [preemptions_by_job EXCEPT ![id] = @ + 1]
    /\ Push(active_dispatches[id].job)
    /\ UNCHANGED <<rounds, admitted, completed>>

Next ==
    \/ \E job \in Jobs : submit(job)
    \/ dispatch_next
    \/ \E id \in JobIds : complete_job(id)
    \/ \E id \in JobIds, token \in Tokens : preempt_for_rebalance(id, token)

Spec == Init /\ [][Next]_vars
-----------------------------------------------------------------------------
\* The four depth counters count what is queued: over any sequence of
\* submissions, dispatches and requeues no counter drifts, so none of the
\* saturating subtractions ever hides an error.
CountersMatch ==
    LET count(S) == SumFunctionOnSet(queued, S) IN
    /\ total_depth = count(Jobs)
    /\ \A p \in Priorities : per_priority_depth[p] = count({job \in Jobs : job.priority = p})
    /\ \A t \in Tenants : per_tenant_depth[t] = count({job \in Jobs : job.tenant_id = t})
    /\ \A p \in Projects : per_project_depth[p] = count({job \in Jobs : job.project_id = p})

\* The rounds for which entity k has had a job queued and was not dispatched.
Waited(k) ==
    dispatch_count - (IF waiting_since[k] > last_dispatch_round[k]
                      THEN waiting_since[k] ELSE last_dispatch_round[k])

\* A threshold of zero starves an entity no earlier than one of one: every
\* dispatch asks in a round after the last.
StarvedFrom == IF StarvationThreshold = 0 THEN 1 ELSE StarvationThreshold

\* No entity with a waiting job is passed over for longer than the starvation
\* threshold and one turn of every other entity, whatever the lags are.
StarvationBound ==
    \A k \in Entities : Active(k) => Waited(k) < StarvedFrom + Cardinality(Entities) - 1

\* As long as no job id is submitted twice, an admitted job is queued, active or
\* completed, and in one of them only.
JobsConserved ==
    (\A id \in JobIds : admitted[id] <= 1) =>
        SumFunction(admitted) = total_depth + Cardinality(DOMAIN active_dispatches) + completed

\* Each requeue token moves a job once, and no job is preempted more often than
\* its cap, whatever the order of the calls and their repetitions.
PreemptionsBounded ==
    /\ SumFunction(preemptions_by_job) = Cardinality(DOMAIN applied_requeue_tokens)
    /\ \A id \in JobIds : preemptions_by_job[id] <= MaxPreemptions

\* "Maximum number of jobs across all queues." (lib.rs:1960) binds admission: the
\* queues hold more than the limits allow only by the requeued jobs, which
\* preempt_for_rebalance puts back without asking.
OverfullOnlyByRequeue ==
    LET requeued == SumFunction(preemptions_by_job) IN
    /\ total_depth <= MaxTotal + requeued
    /\ \A t \in Tenants : per_tenant_depth[t] <= MaxPerTenant + requeued
    /\ \A p \in Projects : per_project_depth[p] <= MaxPerProject + requeued

\* The four depth counters agree with the queues and every submitted job is in
\* exactly one place, over any sequence of submit, dispatch, completion and
\* preempt_for_rebalance.
JobsAccounted == CountersMatch /\ JobsConserved

\* The limits hold where the code checks them: a queue grows past its admission
\* limit only by a requeue, and a job is preempted at most once per token.
LimitsHeld == PreemptionsBounded /\ OverfullOnlyByRequeue
=============================================================================
