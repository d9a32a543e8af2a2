------------------------------ MODULE KernelDag ------------------------------
(***************************************************************************)
(* The kernel gateway's job orchestration (eigen-kernel rpc.rs): one       *)
(* spawned task per job walks the eight DAG stages of run_job_dag, while   *)
(* CancelJob calls, the clock (deadlines and reservation leases) and other *)
(* jobs' reservation sweeps interleave with it.  Every access takes the    *)
(* jobs lock for one call of KernelRuntimeStore, so a step of the model is *)
(* one such call, or one answer of an adapter.                             *)
(***************************************************************************)
EXTENDS Naturals, Sequences

CONSTANTS Jobs,          \* job ids
          MaxAttempts,   \* RetryPolicy.max_attempts
          None           \* no final retry reason; no cancellation yet

ASSUME AttemptsAssumption == MaxAttempts \in Nat \ {0}

VARIABLES job,           \* job id -> JobRuntimeRecord
          task,          \* job id -> where its run_job_dag is
          expired,       \* job id -> its deadline has passed
          cancelled_at   \* job id -> stages recorded when CancelJob was first accepted

vars == <<job, task, expired, cancelled_at>>
-----------------------------------------------------------------------------
\* The stages of DagStageKind, by their order.
Stages == 1 .. 8
ValidateEnqueue == 1
Compile == 2
Schedule == 4
Execute == 5
Persist == 6
RecordKnowledgeObservability == 7
Finalize == 8

stage_state ==
    <<"Pending", "Compiling", "Optimizing", "Queued", "Running", "Running", "Running", "Done">>

next_state_after_success ==
    <<"Pending", "Optimizing", "Queued", "Running", "Running", "Running", "Running", "Done">>

Terminal == {"Done", "Error", "Cancelled", "Timeout"}
Active == {"Pending", "Compiling", "Optimizing", "Queued", "Running"}

StageRecord == [stage : Stages, status : {"Running", "Succeeded", "Failed"}]

RetryReason == {"DEADLINE_EXCEEDED", "RETRY_EXHAUSTED", "NON_RETRYABLE"}

ASSUME NoneAssumption == None \notin Nat \cup RetryReason

\* The fields callers and the orchestration read.  retry_attempts keeps, for
\* every failed attempt, whether it was retryable.  A job id nobody has
\* submitted yet is "Absent".
JobRuntimeRecord ==
    [state            : Terminal \cup Active \cup {"Absent"},
     current_stage    : Stages,
     stage_records    : Seq(StageRecord),
     cancel_requested : BOOLEAN,
     reservation      : {"held", "release_pending", "released"},
     counts           : BOOLEAN,
     result_ref       : BOOLEAN,
     completion_ref   : BOOLEAN,
     failure_ref      : BOOLEAN,
     retry_attempts   : Seq(BOOLEAN),
     final_reason     : RetryReason \cup {None}]

NewJob ==
    [state |-> "Pending", current_stage |-> ValidateEnqueue, stage_records |-> <<>>,
     cancel_requested |-> FALSE, reservation |-> "held", counts |-> FALSE,
     result_ref |-> FALSE, completion_ref |-> FALSE, failure_ref |-> FALSE,
     retry_attempts |-> <<>>, final_reason |-> None]

is_terminal(r) == r.state \in Terminal
-----------------------------------------------------------------------------
(***************************************************************************)
(* KernelRuntimeStore: what each call does to the record, in one lock.     *)
(***************************************************************************)
HasRecord(r, s) == \E i \in 1 .. Len(r.stage_records) : r.stage_records[i].stage = s

\* Mark the record of stage s, or push one with that status if there is none.
Mark(r, s, status) ==
    IF HasRecord(r, s)
    THEN [i \in 1 .. Len(r.stage_records) |->
             IF r.stage_records[i].stage = s
             THEN [stage |-> s, status |-> status] ELSE r.stage_records[i]]
    ELSE Append(r.stage_records, [stage |-> s, status |-> status])

\* What every path to Error, Cancelled or Timeout writes in one lock: the stage's
\* record, the state, the failure reference and the released reservation.
CloseAs(r, s, state) ==
    [r EXCEPT !.stage_records = Mark(r, s, "Failed"), !.state = state,
              !.failure_ref = TRUE, !.reservation = "released"]

\* complete: the input carries every field required_handoff_fields asks for.
begin_stage(r, s, complete) ==
    IF is_terminal(r) THEN r
    ELSE IF HasRecord(r, s) THEN [r EXCEPT !.current_stage = s]
    ELSE IF ~complete THEN [CloseAs(r, s, "Error") EXCEPT !.current_stage = s]
    ELSE [r EXCEPT !.current_stage = s, !.stage_records = Mark(r, s, "Running")]

\* Neither of the two finish calls looks at the state the job is in.
finish_stage_success(r, s) ==
    [r EXCEPT !.stage_records = Mark(r, s, "Succeeded"),
              !.state = next_state_after_success[s],
              !.completion_ref = @ \/ next_state_after_success[s] = "Done"]

finish_stage_failure(r, s, terminal_state) == CloseAs(r, s, terminal_state)

request_cancel(r) == [r EXCEPT !.cancel_requested = TRUE, !.reservation = "release_pending"]

\* Mutant of request_error_terminalization: a cancelled job is left to the
\* cancellation path.
request_error_terminalization_defers(r) ==
    IF is_terminal(r) \/ r.cancel_requested THEN r ELSE CloseAs(r, r.current_stage, "Error")

request_error_terminalization(r) ==
    IF is_terminal(r) THEN r ELSE CloseAs(r, r.current_stage, "Error")

request_deadline_terminalization(r) ==
    IF is_terminal(r) THEN r
    ELSE [CloseAs(r, r.current_stage, "Timeout") EXCEPT !.cancel_requested = TRUE]
-----------------------------------------------------------------------------
\* Where a job's task stands: the call it makes next, and for which stage.
Calls == {"unspawned", "sweep", "begin", "adapter", "simulate", "attempt", "execute",
          "decide", "give_up", "check", "terminalize", "store", "finish", "set_state",
          "recheck", "cancel_begin", "cancel_finish", "release", "deadline", "failed",
          "returned"}

Goto(j, call, s) == task' = [task EXCEPT ![j] = [at |-> call, stage |-> s]]

Write(j, record) == job' = [job EXCEPT ![j] = record]

Init ==
    /\ job = [j \in Jobs |-> [NewJob EXCEPT !.state = "Absent"]]
    /\ task = [j \in Jobs |-> [at |-> "unspawned", stage |-> ValidateEnqueue]]
    /\ expired = [j \in Jobs |-> FALSE]
    /\ cancelled_at = [j \in Jobs |-> None]

\* enqueue_job of a new id; a known id gets the existing record and no task.
enqueue_job(j) ==
    /\ job[j].state = "Absent"
    /\ Write(j, NewJob)
    /\ Goto(j, "sweep", ValidateEnqueue)
    /\ UNCHANGED <<expired, cancelled_at>>

\* Mutant of cancel_job: no terminal guard.
cancel_job_any_state(j) ==
    /\ job[j].state # "Absent"
    /\ Write(j, request_cancel(job[j]))
    /\ cancelled_at' = [cancelled_at EXCEPT
                           ![j] = IF @ = None THEN Len(job[j].stage_records) ELSE @]
    /\ UNCHANGED <<task, expired>>

\* CancelJob, accepted as long as the job is not terminal, and repeatable.
cancel_job(j) ==
    /\ job[j].state \in Active
    /\ Write(j, request_cancel(job[j]))
    /\ cancelled_at' = [cancelled_at EXCEPT
                           ![j] = IF @ = None THEN Len(job[j].stage_records) ELSE @]
    /\ UNCHANGED <<task, expired>>

\* The clock passes the job's deadline_at (every job has one).
DeadlinePasses(j) ==
    /\ job[j].state # "Absent"
    /\ ~expired[j]
    /\ expired' = [expired EXCEPT ![j] = TRUE]
    /\ UNCHANGED <<job, task, cancelled_at>>

\* A starting task releases every lease that has run out, of whichever job.
sweep_stale_reservations(j) ==
    /\ task[j].at = "sweep"
    /\ \E stale \in SUBSET {k \in Jobs : job[k].state \in Active /\ job[k].reservation = "held"} :
          job' = [k \in Jobs |-> IF k \in stale
                                 THEN [job[k] EXCEPT !.reservation = "released"] ELSE job[k]]
    /\ Goto(j, "begin", ValidateEnqueue)
    /\ UNCHANGED <<expired, cancelled_at>>

\* Mutant of Handoffs: nothing is required before the knowledge stage.
Handoffs_unchecked(j, s) == IF s = ValidateEnqueue THEN {TRUE} ELSE BOOLEAN

\* Whether stage s finds its required_handoff_fields in the upstream output. An
\* adapter may leave one out; the knowledge stage asks for the persist stage's
\* qfs_result_ref, which StoreResult has recorded if it was there.
Handoffs(j, s) ==
    CASE s = ValidateEnqueue              -> {TRUE}
      [] s = RecordKnowledgeObservability -> {job[j].result_ref}
      [] OTHER                            -> BOOLEAN

\* begin_stage with the upstream output.
BeginStage(j) ==
    LET s == task[j].stage IN
    /\ task[j].at = "begin"
    /\ \E complete \in Handoffs(j, s) :
          /\ Write(j, begin_stage(job[j], s, complete))
          /\ IF complete
             THEN \/ s # Execute /\ Goto(j, "adapter", s)
                  \/ s = Execute /\ \E next \in {"failed", "simulate", "attempt"} : Goto(j, next, s)
             ELSE Goto(j, "failed", s)
    /\ UNCHANGED <<expired, cancelled_at>>

\* A stage's adapter answers: success, an error, or a deadline error.
AdapterAnswers(j) ==
    /\ task[j].at = "adapter"
    /\ \E next \in {"check", "failed", "deadline"} : Goto(j, next, task[j].stage)
    /\ UNCHANGED <<job, expired, cancelled_at>>

\* A turn of the simulated-runtime loop: cancelled, past the deadline, past
\* timeout_seconds, or done.
Simulate(j) ==
    LET s == task[j].stage IN
    /\ task[j].at = "simulate"
    /\ IF job[j].cancel_requested THEN Goto(j, "cancel_begin", s)
       ELSE IF expired[j] THEN Goto(j, "terminalize", s)
       ELSE \E next \in {"deadline", "attempt"} : Goto(j, next, s)
    /\ UNCHANGED <<job, expired, cancelled_at>>
-----------------------------------------------------------------------------
(***************************************************************************)
(* execute_with_retry.  Attempt n runs after n-1 recorded failures.        *)
(***************************************************************************)
GiveUp(j, reason) ==
    /\ Write(j, [job[j] EXCEPT !.final_reason = reason])
    /\ Goto(j, "give_up", task[j].stage)

StartAttempt(j) ==
    /\ task[j].at = "attempt"
    /\ IF expired[j] THEN GiveUp(j, "DEADLINE_EXCEEDED")
       ELSE Goto(j, "execute", task[j].stage) /\ UNCHANGED job
    /\ UNCHANGED <<expired, cancelled_at>>

AttemptEnds(j) ==
    /\ task[j].at = "execute"
    /\ \/ IF expired[j] THEN GiveUp(j, "DEADLINE_EXCEEDED")
          ELSE Goto(j, "check", task[j].stage) /\ UNCHANGED job
       \/ \E retryable \in BOOLEAN :
             /\ Write(j, [job[j] EXCEPT !.retry_attempts = Append(@, retryable)])
             /\ Goto(j, "decide", task[j].stage)
    /\ UNCHANGED <<expired, cancelled_at>>

\* The deadline first, then the policy, then the elapsed budget (the clock's choice).
DecideRetry(j) ==
    LET attempts == job[j].retry_attempts
        retryable == attempts[Len(attempts)]
    IN
    /\ task[j].at = "decide"
    /\ IF expired[j] THEN GiveUp(j, "DEADLINE_EXCEEDED")
       ELSE IF ~retryable THEN GiveUp(j, "NON_RETRYABLE")
       ELSE IF Len(attempts) >= MaxAttempts THEN GiveUp(j, "RETRY_EXHAUSTED")
       ELSE \/ GiveUp(j, "DEADLINE_EXCEEDED")
            \/ Goto(j, "attempt", task[j].stage) /\ UNCHANGED job
    /\ UNCHANGED <<expired, cancelled_at>>

FinishExecuteFailure(j) ==
    LET terminal_state == IF job[j].final_reason = "DEADLINE_EXCEEDED" THEN "Timeout" ELSE "Error"
    IN
    /\ task[j].at = "give_up"
    /\ Write(j, finish_stage_failure(job[j], task[j].stage, terminal_state))
    /\ Goto(j, "release", task[j].stage)
    /\ UNCHANGED <<expired, cancelled_at>>
-----------------------------------------------------------------------------
(***************************************************************************)
(* After the adapter: the control check, the results, finish_stage_success *)
(* and the second control check before the next stage.                     *)
(***************************************************************************)
\* Mutant of CheckControl: every check passes the following stage on, as the one
\* after validate does.
CheckControl_next_stage(j) ==
    LET s == task[j].stage IN
    /\ task[j].at = "check"
    /\ IF job[j].cancel_requested \/ expired[j]
       THEN Goto(j, "terminalize", IF s < Finalize THEN s + 1 ELSE s)
       ELSE Goto(j, IF s \in {Execute, Persist} THEN "store" ELSE "finish", s)
    /\ UNCHANGED <<job, expired, cancelled_at>>

\* Mutant of CheckControl: only the deadline is looked at.
CheckControl_deadline_only(j) ==
    LET s == task[j].stage IN
    /\ task[j].at = "check"
    /\ IF expired[j]
       THEN Goto(j, "terminalize", IF s = ValidateEnqueue THEN Compile ELSE s)
       ELSE Goto(j, IF s \in {Execute, Persist} THEN "store" ELSE "finish", s)
    /\ UNCHANGED <<job, expired, cancelled_at>>

\* The check after validate passes Compile on as the stage to terminalize.
CheckControl(j) ==
    LET s == task[j].stage IN
    /\ task[j].at = "check"
    /\ IF job[j].cancel_requested \/ expired[j]
       THEN Goto(j, "terminalize", IF s = ValidateEnqueue THEN Compile ELSE s)
       ELSE Goto(j, IF s \in {Execute, Persist} THEN "store" ELSE "finish", s)
    /\ UNCHANGED <<job, expired, cancelled_at>>

\* set_counts after execute; set_qfs_result_ref after persist, if its output has one.
StoreResult(j) ==
    LET s == task[j].stage IN
    /\ task[j].at = "store"
    /\ \/ s = Execute /\ Write(j, [job[j] EXCEPT !.counts = TRUE])
       \/ s = Persist /\ Write(j, [job[j] EXCEPT !.result_ref = TRUE])
       \/ s = Persist /\ UNCHANGED job
    /\ Goto(j, "finish", s)
    /\ UNCHANGED <<expired, cancelled_at>>

FinishStage(j) ==
    LET s == task[j].stage IN
    /\ task[j].at = "finish"
    /\ Write(j, finish_stage_success(job[j], s))
    /\ \/ s <= Schedule /\ Goto(j, "set_state", s)
       \/ s \in {Execute, Persist} /\ Goto(j, "recheck", s)
       \/ s = RecordKnowledgeObservability /\ Goto(j, "begin", Finalize)
       \/ s = Finalize /\ Goto(j, "returned", s)
    /\ UNCHANGED <<expired, cancelled_at>>

\* Mutant of set_state: the state of the stage just finished is written back.
set_state_of_finished(j) ==
    LET s == task[j].stage IN
    /\ task[j].at = "set_state"
    /\ Write(j, [job[j] EXCEPT !.state = stage_state[s]])
    /\ Goto(j, "recheck", s)
    /\ UNCHANGED <<expired, cancelled_at>>

set_state(j) ==
    LET s == task[j].stage IN
    /\ task[j].at = "set_state"
    /\ Write(j, [job[j] EXCEPT !.state = stage_state[s + 1]])
    /\ Goto(j, "recheck", s)
    /\ UNCHANGED <<expired, cancelled_at>>

Recheck(j) ==
    LET s == task[j].stage IN
    /\ task[j].at = "recheck"
    /\ Goto(j, IF job[j].cancel_requested THEN "cancel_begin" ELSE "begin", s + 1)
    /\ UNCHANGED <<job, expired, cancelled_at>>
-----------------------------------------------------------------------------
\* terminalize_control reads the cancel flag once more before it chooses.
terminalize_control(j) ==
    /\ task[j].at = "terminalize"
    /\ Goto(j, IF job[j].cancel_requested THEN "cancel_begin" ELSE "deadline", task[j].stage)
    /\ UNCHANGED <<job, expired, cancelled_at>>

\* cancel_after_stage begins the stage it cancels, with none of the handoff
\* fields and ignoring the result, ...
CancelBegin(j) ==
    /\ task[j].at = "cancel_begin"
    /\ Write(j, begin_stage(job[j], task[j].stage, FALSE))
    /\ Goto(j, "cancel_finish", task[j].stage)
    /\ UNCHANGED <<expired, cancelled_at>>

\* ... then fails it as Cancelled, whatever state begin_stage left, ...
CancelFinish(j) ==
    /\ task[j].at = "cancel_finish"
    /\ Write(j, finish_stage_failure(job[j], task[j].stage, "Cancelled"))
    /\ Goto(j, "release", task[j].stage)
    /\ UNCHANGED <<expired, cancelled_at>>

\* ... then writes the released reservation, as the retry loop does; that one
\* still returns its error to the spawned task.
ReleaseReservation(j) ==
    /\ task[j].at = "release"
    /\ Write(j, [job[j] EXCEPT !.reservation = "released"])
    /\ Goto(j, IF job[j].state = "Cancelled" THEN "returned" ELSE "failed", task[j].stage)
    /\ UNCHANGED <<expired, cancelled_at>>

\* The deadline path of the control check, and of the spawned task's handler.
TerminalizeDeadline(j) ==
    /\ task[j].at = "deadline"
    /\ Write(j, request_deadline_terminalization(job[j]))
    /\ Goto(j, "returned", task[j].stage)
    /\ UNCHANGED <<expired, cancelled_at>>

TerminalizeError(j) ==
    /\ task[j].at = "failed"
    /\ Write(j, request_error_terminalization(job[j]))
    /\ Goto(j, "returned", task[j].stage)
    /\ UNCHANGED <<expired, cancelled_at>>

run_job_dag(j) ==
    \/ sweep_stale_reservations(j) \/ BeginStage(j) \/ AdapterAnswers(j) \/ Simulate(j)
    \/ StartAttempt(j) \/ AttemptEnds(j) \/ DecideRetry(j) \/ FinishExecuteFailure(j)
    \/ CheckControl(j) \/ StoreResult(j) \/ FinishStage(j) \/ set_state(j) \/ Recheck(j)
    \/ terminalize_control(j) \/ CancelBegin(j) \/ CancelFinish(j) \/ ReleaseReservation(j)
    \/ TerminalizeDeadline(j) \/ TerminalizeError(j)

Next ==
    \E j \in Jobs : enqueue_job(j) \/ cancel_job(j) \/ DeadlinePasses(j) \/ run_job_dag(j)

Spec == Init /\ [][Next]_vars

\* The runtime polls every spawned task, and every adapter call returns.
FairSpec == Spec /\ \A j \in Jobs : WF_vars(run_job_dag(j))
-----------------------------------------------------------------------------
(***************************************************************************)
(* Properties.                                                             *)
(***************************************************************************)
\* Every record, task position and mark has its type.
TypeOK ==
    /\ job \in [Jobs -> JobRuntimeRecord]
    /\ task \in [Jobs -> [at : Calls, stage : Stages]]
    /\ expired \in [Jobs -> BOOLEAN]
    /\ cancelled_at \in [Jobs -> Nat \cup {None}]

\* The stage history is a prefix of the DAG: stage i is the i-th record, and it
\* succeeded before stage i+1 was recorded.  The exception is the control check
\* after validate, which closes a cancelled job at Compile and leaves the
\* validate record Running (rpc.rs:4378).
StagesInOrder ==
    \A j \in Jobs :
        LET records == job[j].stage_records IN
        /\ \A i \in 1 .. Len(records) : records[i].stage = i
        /\ \A i \in 1 .. Len(records) - 1 :
              \/ records[i].status = "Succeeded"
              \/ i = ValidateEnqueue /\ records[i].status = "Running" /\ job[j].cancel_requested

\* finish_stage_success reports Done only for a job whose eight stages all
\* succeeded and whose counts, result and completion references are in place;
\* no job has both a completion and a failure reference.
DoneIsComplete ==
    \A j \in Jobs :
        /\ job[j].completion_ref <=> job[j].state = "Done"
        /\ job[j].state = "Done" =>
              /\ Len(job[j].stage_records) = Finalize
              /\ \A s \in Stages : job[j].stage_records[s].status = "Succeeded"
              /\ job[j].counts /\ job[j].result_ref /\ ~job[j].failure_ref

\* Whichever of the five paths closes a job without success, its reservation is
\* released, its failure reference is set and the stage it stopped in is Failed,
\* although cancel_job and another task's sweep write the reservation as well.
FailureReleases ==
    \A j \in Jobs :
        job[j].state \in Terminal \ {"Done"} =>
            /\ job[j].reservation = "released"
            /\ job[j].failure_ref
            /\ job[j].stage_records[Len(job[j].stage_records)].status = "Failed"

\* No stage that begins after CancelJob was accepted ever completes: the two
\* control checks around each stage (one for the last two) leave no gap except
\* for the stage already in flight.
CancelStopsProgress ==
    \A j \in Jobs :
        cancelled_at[j] # None =>
            \A i \in 1 .. Len(job[j].stage_records) :
                i > cancelled_at[j] => job[j].stage_records[i].status # "Succeeded"

\* execute_with_retry makes at most max_attempts attempts, never repeats one
\* that failed with a non-retryable error, and the reason it records for giving
\* up agrees with the attempts made and with the state the job closes in, also
\* when a cancellation is accepted while it gives up.
RetryFollowsPolicy ==
    \A j \in Jobs :
        LET attempts == job[j].retry_attempts IN
        /\ Len(attempts) <= MaxAttempts
        /\ \A i \in 1 .. Len(attempts) - 1 : attempts[i]
        /\ job[j].final_reason = "NON_RETRYABLE" => attempts # <<>> /\ ~attempts[Len(attempts)]
        /\ job[j].final_reason = "RETRY_EXHAUSTED" =>
              Len(attempts) = MaxAttempts /\ attempts[MaxAttempts]
        /\ job[j].final_reason # None /\ is_terminal(job[j]) =>
              job[j].state = IF job[j].final_reason = "DEADLINE_EXCEEDED" THEN "Timeout" ELSE "Error"

\* The record's state, as GetJobStatus shows it, follows the public lifecycle.
Public == INSTANCE PublicLifecycle WITH
              phase <- [j \in Jobs |-> job[j].state],
              cancelling <- [j \in Jobs |-> cancelled_at[j] # None]

\* The orchestration implements the lifecycle clients rely on (safety part).
ImplementsPublicLifecycle == Public!Spec

\* Every job enqueue_job accepts reaches a terminal state, whatever mixture of
\* cancellations, deadlines, adapter errors and retries it meets.
EveryJobCloses ==
    \A j \in Jobs : job[j].state # "Absent" ~> job[j].state \in Terminal

\* Cancellation and the retry policy bind the task that walks the stages wherever
\* they meet it.
ControlObeyed == CancelStopsProgress /\ RetryFollowsPolicy
=============================================================================
