----------------------------- MODULE MCScheduler -----------------------------
(***************************************************************************)
(* Scheduler for TLC: four jobs of three fairness entities.                *)
(***************************************************************************)
EXTENDS Scheduler, TLC

\* Tokens are only compared.
Symmetry == Permutations(Tokens)

Job(id, tenant, project, priority, deadline) ==
    [job_id |-> id, tenant_id |-> tenant, project_id |-> project, priority |-> priority,
     deadline_ms |-> deadline]

\* Two projects of one tenant and one of another; in the first entity a job
\* with a deadline and one without.
MixedJobs ==
    {Job(1, 1, 1, 5, NoDeadline), Job(2, 1, 1, 5, 7), Job(3, 1, 2, 5, NoDeadline),
     Job(4, 2, 3, 1, NoDeadline)}
=============================================================================
