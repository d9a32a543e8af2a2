----------------------------- MODULE MCKernelDag -----------------------------
(***************************************************************************)
(* Instances of KernelDag for TLC, and a statement of the documentation    *)
(* that the orchestration does not keep.                                   *)
(***************************************************************************)
EXTENDS KernelDag

CONSTANT Quiet    \* jobs nobody cancels and that have no deadline

\* Jobs meet only in the reservation sweep, which one task makes of every job: a
\* quiet job sweeps the others wherever they are, and is swept by them.
MCNext ==
    \E j \in Jobs :
        \/ enqueue_job(j) \/ run_job_dag(j)
        \/ j \notin Quiet /\ (cancel_job(j) \/ DeadlinePasses(j))

MCFairSpec == Init /\ [][MCNext]_vars /\ \A j \in Jobs : WF_vars(run_job_dag(j))

\* docs/architecture/components/qrtx.md: "Terminal states are immutable".
\* begin_stage closes the job as Error and finish_stage_failure, which has no
\* terminal guard, rewrites it to Cancelled (cancel_after_stage).
TerminalImmutable ==
    [][\A j \in Jobs : is_terminal(job[j]) => job'[j].state = job[j].state]_vars
=============================================================================
