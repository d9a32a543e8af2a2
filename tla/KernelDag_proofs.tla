-------------------------- MODULE KernelDag_proofs --------------------------
(***************************************************************************)
(* What the invariant of KernelDag gives for any set of jobs and any retry *)
(* limit: the stage history, what Done means, what every unsuccessful close *)
(* leaves behind, that the orchestration implements PublicLifecycle, and   *)
(* that cancellation and the retry policy bind it.                         *)
(***************************************************************************)
EXTENDS KernelDag_invariant

\* The leaves are proved by Zenon but for those that cite another prover.
USE Zenon

\* The records, task positions and marks keep their types, for any set of jobs
\* and any retry limit.
THEOREM TypeCorrect == Spec => []TypeOK
<1>1. IInv => TypeOK
    BY DEF IInv
<1> QED BY <1>1, InvariantHolds, PTL

\* Wherever its task stands, a job's stages up to the last are settled, and a
\* job that ended without success is properly closed.
LEMMA HistoryFacts ==
    ASSUME NEW r \in JobRuntimeRecord, NEW t \in [at : Calls, stage : Stages], NEW c,
           Good(r, t, c)
    PROVE  /\ Settled(r, Len(r.stage_records) - 1)
           /\ r.state \in {"Error", "Cancelled", "Timeout"} => Closed(r)
<1> DEFINE q == r.stage_records
           s == t.stage
           Goal == /\ Settled(r, Len(q) - 1)
                   /\ r.state \in {"Error", "Cancelled", "Timeout"} => Closed(r)
<1>1. /\ q \in Seq(StageRecord) /\ Len(q) \in Nat /\ s \in Stages /\ t.at \in Calls
      /\ Position(r, t) /\ Flags(r, t, c)
    BY SMT DEF JobRuntimeRecord, Good
<1>2. ASSUME NEW k \in Stages, UnderWay(r, k) PROVE Goal
    <2>1. r.state \notin {"Error", "Cancelled", "Timeout"}
        BY <1>2, UnderWayFacts DEF is_terminal, Terminal
    <2> QED BY <1>2, <2>1, UnderWayFacts
<1>3. ASSUME Closed(r) PROVE Goal
    BY <1>3 DEF Closed
<1>4. ASSUME Succeeded(q, Len(q)), r.state \in Active PROVE Goal
    BY SMT, <1>1, <1>4 DEF Succeeded, Settled, Active
<1>5. ASSUME r.state = "Done" PROVE Goal
    <2>1. Len(q) = Finalize /\ Succeeded(q, Finalize)
        BY <1>1, <1>5 DEF Flags
    <2>2. Settled(r, Len(q) - 1)
        BY SMT, <2>1 DEF Succeeded, Settled, Finalize
    <2> QED BY <1>5, <2>2
<1>6. ASSUME Len(q) = 0, r.state \in {"Absent", "Pending"} PROVE Goal
    BY SMT, <1>6 DEF Settled
<1>7. CASE t.at \in {"unspawned", "sweep"}
    <2>1. Len(q) = 0 /\ r.state \in {"Absent", "Pending"}
        BY <1>1, <1>7 DEF Position
    <2> QED BY <1>6, <2>1
<1>8. CASE t.at \in {"begin", "set_state", "recheck"}
    <2>1. Succeeded(q, Len(q))
        BY <1>1, <1>8 DEF Position
    <2>2. \/ r.state = Shown(s)
          \/ s \in 1 .. 4 /\ r.state = next_state_after_success[s]
          \/ s \in 1 .. 6 /\ r.state = Shown(s + 1)
        BY <1>1, <1>8 DEF Position
    <2>3. s \in 1 .. 4 => s < Finalize
        BY SMT DEF Finalize
    <2>4. s \in 1 .. 6 => s + 1 \in Stages
        BY SMT DEF Stages
    <2>5. r.state \in Active
        BY <1>1, <2>2, <2>3, <2>4, ShownFacts
    <2> QED BY <1>4, <2>1, <2>5
<1>9. CASE t.at \in InStage
    <2>1. UnderWay(r, s)
        BY <1>1, <1>9 DEF Position
    <2> QED BY <1>1, <1>2, <2>1
<1>10. CASE t.at \in {"terminalize", "cancel_begin"}
    <2>1. 1 \in Stages
        BY SMT DEF Stages
    <2>2. \/ UnderWay(r, s)
          \/ UnderWay(r, 1)
          \/ Succeeded(q, Len(q)) /\ r.state = Shown(s)
        BY <1>1, <1>10 DEF Position
    <2> QED BY <1>1, <1>2, <1>4, <2>1, <2>2, ShownFacts
<1>11. CASE t.at \in {"cancel_finish", "release", "deadline", "failed", "returned"}
    <2>1. Closed(r) \/ r.state = "Done" \/ \E k \in Stages : UnderWay(r, k)
        BY <1>1, <1>11 DEF Position
    <2> QED BY <1>2, <1>3, <1>5, <2>1
<1> QED BY <1>1, <1>7, <1>8, <1>9, <1>10, <1>11 DEF Calls, InStage

\* run_job_dag records the stages in DAG order, each one only after the one
\* before it has succeeded (or validate was cut short by a cancellation).
THEOREM StagesAlwaysInOrder == Spec => []StagesInOrder
<1>1. IInv => StagesInOrder
    <2> SUFFICES ASSUME IInv, NEW j \in Jobs
                 PROVE  LET records == job[j].stage_records IN
                        /\ \A i \in 1 .. Len(records) : records[i].stage = i
                        /\ \A i \in 1 .. Len(records) - 1 :
                              \/ records[i].status = "Succeeded"
                              \/ /\ i = ValidateEnqueue /\ records[i].status = "Running"
                                 /\ job[j].cancel_requested
        BY DEF StagesInOrder
    <2>1. /\ job[j] \in JobRuntimeRecord /\ task[j] \in [at : Calls, stage : Stages]
          /\ Good(job[j], task[j], cancelled_at[j])
        BY DEF IInv, TypeOK
    <2>2. Settled(job[j], Len(job[j].stage_records) - 1) /\ Ordered(job[j].stage_records)
        BY <2>1, HistoryFacts DEF Good
    <2> QED BY <2>2 DEF Settled, Ordered, ValidateEnqueue
<1> QED BY <1>1, InvariantHolds, PTL

\* A job is Done exactly when it carries a completion reference, and then all
\* eight stages have succeeded and its counts and result reference are set.
THEOREM DoneIsAlwaysComplete == Spec => []DoneIsComplete
<1>1. IInv => DoneIsComplete
    <2> SUFFICES ASSUME IInv, NEW j \in Jobs
                 PROVE  /\ job[j].completion_ref <=> job[j].state = "Done"
                        /\ job[j].state = "Done" =>
                              /\ Len(job[j].stage_records) = Finalize
                              /\ \A s \in Stages : job[j].stage_records[s].status = "Succeeded"
                              /\ job[j].counts /\ job[j].result_ref /\ ~job[j].failure_ref
        BY DEF DoneIsComplete
    <2>1. Flags(job[j], task[j], cancelled_at[j])
        BY JobFacts
    <2>2. ASSUME job[j].state = "Done"
          PROVE  /\ Len(job[j].stage_records) = Finalize
                 /\ Succeeded(job[j].stage_records, Finalize)
                 /\ ~job[j].failure_ref
        BY <2>1, <2>2 DEF Flags
    <2>3. ASSUME job[j].state = "Done"
          PROVE  \A s \in Stages : job[j].stage_records[s].status = "Succeeded"
        BY <2>2, <2>3 DEF Succeeded, Stages, Finalize
    <2>4. /\ Finalize >= Execute /\ Finalize >= RecordKnowledgeObservability
          /\ Execute \in Stages /\ RecordKnowledgeObservability \in Stages
        BY SMT DEF Finalize, Execute, RecordKnowledgeObservability, Stages
    <2>5. ASSUME job[j].state = "Done" PROVE job[j].counts /\ job[j].result_ref
        BY <2>1, <2>2, <2>3, <2>4, <2>5 DEF Flags
    <2>6. job[j].completion_ref <=> job[j].state = "Done"
        BY <2>1 DEF Flags
    <2> QED BY <2>2, <2>3, <2>5, <2>6
<1> QED BY <1>1, InvariantHolds, PTL

\* Every path to Error, Cancelled or Timeout releases the reservation, sets the
\* failure reference and leaves the last stage Failed, whatever cancel_job and
\* the sweeps of other tasks wrote before.
THEOREM FailureAlwaysReleases == Spec => []FailureReleases
<1>1. IInv => FailureReleases
    <2> SUFFICES ASSUME IInv, NEW j \in Jobs, job[j].state \in Terminal \ {"Done"}
                 PROVE  /\ job[j].reservation = "released"
                        /\ job[j].failure_ref
                        /\ job[j].stage_records[Len(job[j].stage_records)].status = "Failed"
        BY DEF FailureReleases
    <2>1. /\ job[j] \in JobRuntimeRecord /\ task[j] \in [at : Calls, stage : Stages]
          /\ Good(job[j], task[j], cancelled_at[j])
        BY DEF IInv, TypeOK
    <2>2. Closed(job[j])
        BY <2>1, HistoryFacts DEF Terminal
    <2> QED BY <2>2 DEF Closed
<1> QED BY <1>1, InvariantHolds, PTL

-----------------------------------------------------------------------------
(***************************************************************************)
(* The orchestration implements PublicLifecycle.                           *)
(***************************************************************************)
\* How one step may change the state of job j, in terms of the record.
Moves(j) ==
    \/ job'[j].state = job[j].state
    \/ /\ job[j].state \in Active
       /\ job'[j].state \in Active
       /\ Public!Rank[job'[j].state] > Public!Rank[job[j].state]
    \/ /\ job[j].state \in Active
       /\ job'[j].state \in Terminal
       /\ job'[j].state = "Done" => job[j].state = "Running"
       /\ job'[j].state = "Cancelled" => cancelled_at[j] # None
    \/ job[j].state = "Error" /\ job'[j].state = "Cancelled" /\ cancelled_at[j] # None

\* A write of one record leaves the other jobs alone.
LEMMA WriteMoves ==
    ASSUME IInv, NEW j \in Jobs, NEW n, Write(j, n)
    PROVE  job'[j] = n /\ \A k \in Jobs \ {j} : job'[k] = job[k]
BY JobFacts DEF Write

\* The steps of the task that leave the job's state alone.
LEMMA QuietMoves ==
    ASSUME IInv, NEW j \in Jobs,
           \/ sweep_stale_reservations(j) \/ AdapterAnswers(j) \/ Simulate(j)
           \/ StartAttempt(j) \/ AttemptEnds(j) \/ DecideRetry(j) \/ CheckControl(j)
           \/ StoreResult(j) \/ Recheck(j) \/ terminalize_control(j)
           \/ ReleaseReservation(j)
    PROVE  \A k \in Jobs : job'[k].state = job[k].state
<1>1. \A k \in Jobs : job[k] \in JobRuntimeRecord
    BY DEF IInv, TypeOK
<1>2. CASE sweep_stale_reservations(j)
    BY SMT, <1>1, <1>2 DEF sweep_stale_reservations, JobRuntimeRecord
<1>3. CASE AdapterAnswers(j) \/ Simulate(j) \/ CheckControl(j) \/ Recheck(j) \/ terminalize_control(j)
    BY <1>3 DEF AdapterAnswers, Simulate, CheckControl, Recheck, terminalize_control
<1>4. ASSUME NEW n, Write(j, n), n.state = job[j].state
      PROVE  \A k \in Jobs : job'[k].state = job[k].state
    BY <1>4, WriteMoves
<1>5. ASSUME NEW reason, GiveUp(j, reason)
      PROVE  \A k \in Jobs : job'[k].state = job[k].state
    <2>1. PICK n : n = [job[j] EXCEPT !.final_reason = reason]
        OBVIOUS
    <2>2. Write(j, n) /\ n.state = job[j].state
        BY <1>1, <1>5, <2>1 DEF GiveUp, JobRuntimeRecord
    <2> QED BY <1>4, <2>2
<1>6. CASE StartAttempt(j) \/ AttemptEnds(j) \/ DecideRetry(j)
    <2>1. \/ \E reason \in RetryReason : GiveUp(j, reason)
          \/ UNCHANGED job
          \/ \E retryable \in BOOLEAN :
                Write(j, [job[j] EXCEPT !.retry_attempts = Append(@, retryable)])
        BY <1>6 DEF StartAttempt, AttemptEnds, DecideRetry, RetryReason
    <2>2. ASSUME NEW retryable,
                 Write(j, [job[j] EXCEPT !.retry_attempts = Append(@, retryable)])
          PROVE  \A k \in Jobs : job'[k].state = job[k].state
        <3>1. PICK n : n = [job[j] EXCEPT !.retry_attempts = Append(@, retryable)]
            OBVIOUS
        <3>2. Write(j, n) /\ n.state = job[j].state
            BY <1>1, <2>2, <3>1 DEF JobRuntimeRecord
        <3> QED BY <1>4, <3>2
    <2> QED BY <1>5, <2>1, <2>2
<1>7. CASE StoreResult(j)
    <2>1. CASE UNCHANGED job
        BY <2>1
    <2>2. ASSUME NEW n, Write(j, n), \/ n = [job[j] EXCEPT !.counts = TRUE]
                                     \/ n = [job[j] EXCEPT !.result_ref = TRUE]
          PROVE  \A k \in Jobs : job'[k].state = job[k].state
        <3>1. n.state = job[j].state
            BY <1>1, <2>2 DEF JobRuntimeRecord
        <3> QED BY <1>4, <2>2, <3>1
    <2> QED BY <1>7, <2>1, <2>2 DEF StoreResult
<1>8. CASE ReleaseReservation(j)
    <2>1. PICK n : Write(j, n) /\ n = [job[j] EXCEPT !.reservation = "released"]
        BY <1>8 DEF ReleaseReservation
    <2>2. n.state = job[j].state
        BY <1>1, <2>1 DEF JobRuntimeRecord
    <2> QED BY <1>4, <2>1, <2>2
<1> QED BY <1>2, <1>3, <1>6, <1>7, <1>8

\* finish_stage_success and set_state move the state forward, or to Done.
LEMMA ForwardMoves ==
    ASSUME IInv, NEW j \in Jobs, FinishStage(j) \/ set_state(j)
    PROVE  Moves(j) /\ \A k \in Jobs \ {j} : job'[k] = job[k]
<1> DEFINE r == job[j]
           s == task[j].stage
<1>1. r \in JobRuntimeRecord /\ s \in Stages
    BY JobFacts
<1>2. CASE FinishStage(j)
    <2>1. r.state = Shown(s)
        BY <1>2, JobFacts DEF FinishStage, Position, InStage, UnderWay
    <2>2. PICK n : Write(j, n) /\ n = finish_stage_success(r, s)
        BY <1>2 DEF FinishStage
    <2>3. n.state = next_state_after_success[s]
        BY <1>1, <2>2 DEF finish_stage_success, JobRuntimeRecord
    <2>4. job'[j] = n /\ \A k \in Jobs \ {j} : job'[k] = job[k]
        BY <2>2, WriteMoves
    <2>5. s \in {1, 2, 3, 4, 5, 6, 7, 8}
        BY SMT, <1>1 DEF Stages
    <2>6. /\ \/ job'[j].state = job[j].state
             \/ job[j].state = "Compiling" /\ job'[j].state = "Optimizing"
             \/ job[j].state = "Optimizing" /\ job'[j].state = "Queued"
             \/ job[j].state = "Queued" /\ job'[j].state = "Running"
             \/ job[j].state = "Running" /\ job'[j].state = "Done"
        BY SMT, <2>1, <2>3, <2>4, <2>5 DEF Shown, stage_state, next_state_after_success, Finalize
    <2> QED BY SMT, <2>4, <2>6 DEF Moves, Public!Rank, Active, Terminal
<1>3. CASE set_state(j)
    <2>1. s \in {1, 2, 3, 4} /\ r.state = next_state_after_success[s]
        BY SMT, <1>3, JobFacts DEF set_state, Position
    <2>2. PICK n : Write(j, n) /\ n = [r EXCEPT !.state = stage_state[s + 1]]
        BY <1>3 DEF set_state
    <2>3. n.state = stage_state[s + 1]
        BY <1>1, <2>2 DEF JobRuntimeRecord
    <2>4. job'[j] = n /\ \A k \in Jobs \ {j} : job'[k] = job[k]
        BY <2>2, WriteMoves
    <2>5. \/ job'[j].state = job[j].state
          \/ job[j].state = "Pending" /\ job'[j].state = "Compiling"
        BY SMT, <2>1, <2>3, <2>4 DEF stage_state, next_state_after_success
    <2> QED BY SMT, <2>4, <2>5 DEF Moves, Public!Rank, Active
<1> QED BY <1>2, <1>3

\* begin_stage leaves the state or closes an active job as Error.
LEMMA BeginMoves ==
    ASSUME IInv, NEW j \in Jobs, BeginStage(j) \/ CancelBegin(j)
    PROVE  Moves(j) /\ \A k \in Jobs \ {j} : job'[k] = job[k]
<1> DEFINE r == job[j]
           s == task[j].stage
<1>1. r \in JobRuntimeRecord
    BY JobFacts
<1>2. PICK complete, n : Write(j, n) /\ n = begin_stage(r, s, complete)
    BY DEF BeginStage, CancelBegin
<1>3. n.state = r.state \/ (r.state \notin Terminal /\ n.state = "Error")
    BY <1>1, <1>2 DEF begin_stage, CloseAs, is_terminal, JobRuntimeRecord
<1>4. task[j].at \in {"begin", "cancel_begin"}
    BY DEF BeginStage, CancelBegin
<1>5. r.state # "Absent"
    <2>1. s \in 1 .. 8 /\ (\A k \in Stages : UnderWay(r, k) => r.state = Shown(k))
        BY JobFacts DEF Stages, UnderWay
    <2>2. \E k \in Stages : r.state = Shown(k)
        BY SMT, <1>4, <2>1, JobFacts DEF Position, Stages
    <2> QED BY SMT, <2>2 DEF Shown, stage_state, Stages, Finalize
<1>6. job'[j] = n /\ \A k \in Jobs \ {j} : job'[k] = job[k]
    BY <1>2, WriteMoves
<1>7. r.state \in Terminal \cup Active
    BY <1>1, <1>5 DEF JobRuntimeRecord
<1> QED BY <1>3, <1>6, <1>7 DEF Moves, Terminal

\* The paths that close a job: from an active state, or from the Error that
\* cancel_after_stage overwrites.
LEMMA CloseMoves ==
    ASSUME IInv, NEW j \in Jobs,
           \/ FinishExecuteFailure(j) \/ CancelFinish(j)
           \/ TerminalizeDeadline(j) \/ TerminalizeError(j)
    PROVE  Moves(j) /\ \A k \in Jobs \ {j} : job'[k] = job[k]
<1> DEFINE r == job[j]
           s == task[j].stage
<1>1. r \in JobRuntimeRecord /\ s \in Stages
    BY JobFacts
<1>2. \A k \in Stages : UnderWay(r, k) => r.state \in Active
    BY SMT DEF UnderWay, Shown, stage_state, Stages, Finalize, Active
<1>3. ASSUME NEW n, Write(j, n),
             \/ n.state = r.state
             \/ r.state \in Active /\ n.state \in {"Error", "Timeout"}
             \/ r.state \in Active \cup {"Error"} /\ n.state = "Cancelled" /\ cancelled_at[j] # None
      PROVE  Moves(j) /\ \A k \in Jobs \ {j} : job'[k] = job[k]
    <2>1. job'[j] = n /\ \A k \in Jobs \ {j} : job'[k] = job[k]
        BY <1>3, WriteMoves
    <2> QED BY <1>3, <2>1 DEF Moves, Terminal
<1>4. CASE FinishExecuteFailure(j)
    <2>1. PICK state \in {"Error", "Timeout"} : Write(j, CloseAs(r, s, state))
        BY <1>4 DEF FinishExecuteFailure, finish_stage_failure
    <2> DEFINE n == CloseAs(r, s, state)
    <2>2. n.state = state
        BY <1>1, <2>1 DEF CloseAs, JobRuntimeRecord
    <2>3. r.state \in Active
        BY <1>1, <1>2, <1>4, JobFacts DEF FinishExecuteFailure, Position, InStage
    <2> QED BY <1>3, <2>1, <2>2, <2>3
<1>5. CASE CancelFinish(j)
    <2>1. PICK n : Write(j, n) /\ n = CloseAs(r, s, "Cancelled")
        BY <1>5 DEF CancelFinish, finish_stage_failure
    <2>2. n.state = "Cancelled"
        BY <1>1, <2>1 DEF CloseAs, JobRuntimeRecord
    <2>3. r.cancel_requested /\ (UnderWay(r, s) \/ r.state = "Error")
        BY <1>5, JobFacts DEF CancelFinish, Position
    <2>4. r.state \in Active \cup {"Error"}
        BY <1>1, <1>2, <2>3
    <2>5. cancelled_at[j] # None
        BY <2>3, <2>4, JobFacts DEF Flags
    <2> QED BY <1>3, <2>1, <2>2, <2>4, <2>5
<1>6. CASE TerminalizeDeadline(j) \/ TerminalizeError(j)
    <2>1. PICK n : /\ Write(j, n)
                   /\ \/ n = request_deadline_terminalization(r)
                      \/ n = request_error_terminalization(r)
        BY <1>6 DEF TerminalizeDeadline, TerminalizeError
    <2>2. \/ n.state = r.state
          \/ r.state \notin Terminal /\ n.state \in {"Error", "Timeout"}
        <3>1. CASE r.state \in Terminal
            BY <2>1, <3>1 DEF request_deadline_terminalization, request_error_terminalization,
                              is_terminal
        <3>2. CASE r.state \notin Terminal
            <4>1. \/ n = [CloseAs(r, r.current_stage, "Timeout") EXCEPT !.cancel_requested = TRUE]
                  \/ n = CloseAs(r, r.current_stage, "Error")
                BY <2>1, <3>2 DEF request_deadline_terminalization,
                                  request_error_terminalization, is_terminal
            <4>2. ASSUME NEW c, NEW state, c = CloseAs(r, r.current_stage, state)
                  PROVE  /\ c.state = state
                         /\ [c EXCEPT !.cancel_requested = TRUE].state = state
                BY <1>1, <4>2 DEF CloseAs, JobRuntimeRecord
            <4> QED BY <3>2, <4>1, <4>2
        <3> QED BY <3>1, <3>2
    <2>3. r.state \in Active \/ Closed(r)
        BY <1>2, <1>6, JobFacts DEF TerminalizeDeadline, TerminalizeError, Position
    <2>4. r.state \in Active \/ r.state \in Terminal
        BY <2>3 DEF Closed, Terminal
    <2> QED BY <1>3, <2>1, <2>2, <2>4
<1> QED BY <1>4, <1>5, <1>6

\* A step of a job's task moves only that job's state, and only as allowed.
LEMMA TaskMoves ==
    ASSUME IInv, NEW j \in Jobs, run_job_dag(j)
    PROVE  /\ Moves(j)
           /\ \A k \in Jobs \ {j} : job'[k].state = job[k].state
           /\ UNCHANGED cancelled_at
<1>1. UNCHANGED cancelled_at
    BY DEF run_job_dag, sweep_stale_reservations, BeginStage, AdapterAnswers, Simulate,
           StartAttempt, AttemptEnds, DecideRetry, FinishExecuteFailure, CheckControl,
           StoreResult, FinishStage, set_state, Recheck, terminalize_control, CancelBegin,
           CancelFinish, ReleaseReservation, TerminalizeDeadline, TerminalizeError
<1>2. CASE \/ sweep_stale_reservations(j) \/ AdapterAnswers(j) \/ Simulate(j)
           \/ StartAttempt(j) \/ AttemptEnds(j) \/ DecideRetry(j) \/ CheckControl(j)
           \/ StoreResult(j) \/ Recheck(j) \/ terminalize_control(j)
           \/ ReleaseReservation(j)
    <2>1. \A k \in Jobs : job'[k].state = job[k].state
        BY <1>2, QuietMoves
    <2> QED BY <1>1, <2>1 DEF Moves
<1>3. CASE FinishStage(j) \/ set_state(j)
    BY <1>1, <1>3, ForwardMoves
<1>4. CASE BeginStage(j) \/ CancelBegin(j)
    BY <1>1, <1>4, BeginMoves
<1>5. CASE \/ FinishExecuteFailure(j) \/ CancelFinish(j)
           \/ TerminalizeDeadline(j) \/ TerminalizeError(j)
    BY <1>1, <1>5, CloseMoves
<1> QED BY <1>2, <1>3, <1>4, <1>5 DEF run_job_dag


\* A move of one job's state is a step of the public lifecycle, or none.
LEMMA MovesArePublic ==
    ASSUME IInv, IInv', NEW j \in Jobs, Moves(j),
           \A k \in Jobs \ {j} : job'[k].state = job[k].state,
           UNCHANGED cancelled_at
    PROVE  [Public!Next]_(Public!view)
<1> DEFINE phase == [k \in Jobs |-> job[k].state]
           cancelling == [k \in Jobs |-> cancelled_at[k] # None]
<1>1. phase' = [phase EXCEPT ![j] = job'[j].state] /\ UNCHANGED cancelling
    OBVIOUS
<1>2. phase[j] = job[j].state /\ cancelling[j] = (cancelled_at[j] # None)
    OBVIOUS
<1>3. Active = DOMAIN Public!Rank
    BY DEF Active, Public!Rank
<1> HIDE DEF phase, cancelling
<1>4. CASE job'[j].state = job[j].state
    <2>1. UNCHANGED phase
        BY <1>4 DEF phase
    <2> QED BY <1>1, <2>1 DEF Public!view, phase, cancelling
<1>5. CASE /\ job[j].state \in Active /\ job'[j].state \in Active
           /\ Public!Rank[job'[j].state] > Public!Rank[job[j].state]
    <2>1. Public!Advance(j)
        BY <1>1, <1>2, <1>3, <1>5 DEF Public!Advance, Public!Open, phase, cancelling
    <2> QED BY <2>1 DEF Public!Next
<1>6. CASE /\ job[j].state \in Active /\ job'[j].state \in Terminal
           /\ job'[j].state = "Done" => job[j].state = "Running"
           /\ job'[j].state = "Cancelled" => cancelled_at[j] # None
    <2>1. Public!Close(j)
        BY <1>1, <1>2, <1>3, <1>6 DEF Public!Close, Public!Open, Terminal, phase, cancelling
    <2> QED BY <2>1 DEF Public!Next
<1>7. CASE job[j].state = "Error" /\ job'[j].state = "Cancelled" /\ cancelled_at[j] # None
    <2>1. Public!Reclassify(j)
        BY <1>1, <1>2, <1>7 DEF Public!Reclassify, phase, cancelling
    <2> QED BY <2>1 DEF Public!Next
<1> QED BY <1>4, <1>5, <1>6, <1>7 DEF Moves

\* A submission is the lifecycle's Submit.
LEMMA EnqueueIsPublic ==
    ASSUME IInv, NEW j \in Jobs, enqueue_job(j)
    PROVE  Public!Next
<1>1. job'[j] = NewJob /\ (\A k \in Jobs \ {j} : job'[k] = job[k])
    BY WriteMoves DEF enqueue_job
<1>2. NewJob.state = "Pending"
    BY DEF NewJob
<1>3. Public!Submit(j)
    BY <1>1, <1>2 DEF enqueue_job, Public!Submit
<1> QED BY <1>3 DEF Public!Next

\* An accepted CancelJob is the lifecycle's AcceptCancel.
LEMMA CancelIsPublic ==
    ASSUME IInv, NEW j \in Jobs, cancel_job(j)
    PROVE  Public!Next
<1>1. PICK n : Write(j, n) /\ n = request_cancel(job[j])
    BY DEF cancel_job
<1>2. n.state = job[j].state
    BY <1>1, JobFacts DEF request_cancel, JobRuntimeRecord
<1>3. \A k \in Jobs : job'[k].state = job[k].state
    BY <1>1, <1>2, WriteMoves
<1>4. cancelled_at \in [Jobs -> Nat \cup {None}] /\ Len(job[j].stage_records) \in Nat
    <2>1. job[j] \in JobRuntimeRecord /\ cancelled_at \in [Jobs -> Nat \cup {None}]
        BY DEF IInv, TypeOK
    <2>2. job[j].stage_records \in Seq(StageRecord)
        BY <2>1 DEF JobRuntimeRecord
    <2> QED BY SMT, <2>1, <2>2
<1>5. cancelled_at'[j] # None
    BY <1>4, NoneAssumption DEF cancel_job
<1>6. \A k \in Jobs \ {j} : cancelled_at'[k] = cancelled_at[k]
    BY <1>4 DEF cancel_job
<1>7. job[j].state \in DOMAIN Public!Rank
    BY DEF cancel_job, Active, Public!Rank
<1>8. Public!AcceptCancel(j)
    BY <1>3, <1>5, <1>6, <1>7 DEF Public!AcceptCancel, Public!Open
<1> QED BY <1>8 DEF Public!Next

\* The orchestration implements the lifecycle that clients rely on when they poll
\* a job: whatever the interleaving of the tasks, cancellations, deadlines and
\* sweeps, the reported state only advances, closes once, and becomes Cancelled
\* only after an accepted CancelJob.
THEOREM ImplementsLifecycle == Spec => ImplementsPublicLifecycle
<1>1. Init => Public!Init
    <2> SUFFICES ASSUME Init PROVE Public!Init
        OBVIOUS
    <2>1. [NewJob EXCEPT !.state = "Absent"].state = "Absent"
        BY DEF NewJob
    <2>2. \A j \in Jobs : job[j].state = "Absent"
        BY <2>1 DEF Init
    <2>3. \A j \in Jobs : (cancelled_at[j] # None) = FALSE
        BY DEF Init
    <2> QED BY <2>2, <2>3 DEF Public!Init
<1>2. IInv /\ IInv' /\ [Next]_vars => [Public!Next]_(Public!view)
    <2> SUFFICES ASSUME IInv, IInv', [Next]_vars PROVE [Public!Next]_(Public!view)
        OBVIOUS
    <2>1. ASSUME NEW j \in Jobs, enqueue_job(j) PROVE Public!Next
        BY <2>1, EnqueueIsPublic
    <2>2. ASSUME NEW j \in Jobs, cancel_job(j) PROVE Public!Next
        BY <2>2, CancelIsPublic
    <2>3. ASSUME NEW j \in Jobs, run_job_dag(j) PROVE [Public!Next]_(Public!view)
        <3>1. /\ Moves(j)
              /\ \A k \in Jobs \ {j} : job'[k].state = job[k].state
              /\ UNCHANGED cancelled_at
            BY <2>3, TaskMoves
        <3> QED BY <3>1, MovesArePublic
    <2>4. ASSUME UNCHANGED <<job, cancelled_at>> PROVE [Public!Next]_(Public!view)
        BY <2>4 DEF Public!view
    <2> QED BY <2>1, <2>2, <2>3, <2>4 DEF Next, DeadlinePasses, vars
<1> QED BY <1>1, <1>2, InvariantHolds, PTL DEF Spec, ImplementsPublicLifecycle, Public!Spec
-----------------------------------------------------------------------------
(***************************************************************************)
(* Cancellation and the retry policy are obeyed.                           *)
(***************************************************************************)
\* A task that has passed its control check finishes no stage begun after a
\* cancellation.
Cancels(r, t, c) ==
    /\ r.state = "Absent" => c = None
    /\ c # None =>
          /\ r.cancel_requested
          /\ \A i \in 1 .. Len(r.stage_records) :
                i > c => r.stage_records[i].status # "Succeeded"
          /\ t.at \in {"store", "finish"} => Len(r.stage_records) <= c

\* The calls at which the last attempt may have been the last one allowed.
Resting == {"decide", "give_up", "release", "failed", "returned"}

ReasonState(reason) == IF reason = "DEADLINE_EXCEEDED" THEN "Timeout" ELSE "Error"

Retries(r, t) ==
    LET a == r.retry_attempts IN
    /\ Len(a) <= MaxAttempts
    /\ \A i \in 1 .. Len(a) - 1 : a[i]
    /\ t.at \notin Resting => Len(a) < MaxAttempts /\ \A i \in 1 .. Len(a) : a[i]
    /\ t.at = "decide" => a # <<>>
    /\ r.final_reason # None =>
          /\ t.at \in Resting \ {"decide"}
          /\ t.at # "give_up" => r.state = ReasonState(r.final_reason)
    /\ r.final_reason = "NON_RETRYABLE" => a # <<>> /\ ~a[Len(a)]
    /\ r.final_reason = "RETRY_EXHAUSTED" => Len(a) = MaxAttempts /\ a[MaxAttempts]

Control == \A j \in Jobs : Cancels(job[j], task[j], cancelled_at[j]) /\ Retries(job[j], task[j])

\* Only the job a step is about can lose the two facts.
LEMMA ControlFrame ==
    ASSUME Control, NEW j \in Jobs,
           \A k \in Jobs \ {j} :
               job'[k] = job[k] /\ task'[k] = task[k] /\ cancelled_at'[k] = cancelled_at[k],
           Cancels(job'[j], task'[j], cancelled_at'[j]), Retries(job'[j], task'[j])
    PROVE  Control'
<1>1. ASSUME NEW k \in Jobs
      PROVE  Cancels(job'[k], task'[k], cancelled_at'[k]) /\ Retries(job'[k], task'[k])
    <2>1. CASE k = j
        BY <2>1
    <2>2. CASE k # j
        BY <2>2 DEF Control
    <2> QED BY <2>1, <2>2
<1> QED BY <1>1 DEF Control

\* The sequences of a record and their lengths.
LEMMA RecordFacts ==
    ASSUME NEW r \in JobRuntimeRecord
    PROVE  /\ r.current_stage \in Stages
           /\ Len(r.stage_records) \in Nat
           /\ r.retry_attempts \in Seq(BOOLEAN) /\ Len(r.retry_attempts) \in Nat
BY SMT DEF JobRuntimeRecord

\* Steps that leave the stage history and the cancellation of a job alone.
LEMMA CancelsKept ==
    ASSUME NEW r, NEW t, NEW c, NEW n, NEW u, Cancels(r, t, c),
           n.stage_records = r.stage_records, n.cancel_requested = r.cancel_requested,
           n.state = "Absent" => r.state = "Absent",
           u.at \in {"store", "finish"} => t.at \in {"store", "finish"} \/ ~r.cancel_requested
    PROVE  Cancels(n, u, c)
BY DEF Cancels

\* What a marked history holds: the new status, or what was there.
LEMMA MarkHolds ==
    ASSUME NEW r \in JobRuntimeRecord, NEW s \in Stages, NEW status, NEW m, m = Mark(r, s, status),
           NEW i \in 1 .. Len(m)
    PROVE  \/ m[i].status = status
           \/ i \in 1 .. Len(r.stage_records) /\ m[i] = r.stage_records[i]
<1> DEFINE q == r.stage_records
<1>1. q \in Seq(StageRecord) /\ Len(q) \in Nat
    BY SMT DEF JobRuntimeRecord
<1>2. CASE HasRecord(r, s)
    <2>1. m = [k \in 1 .. Len(q) |-> IF q[k].stage = s THEN [stage |-> s, status |-> status] ELSE q[k]]
        BY <1>2 DEF Mark
    <2>2. Len(m) = Len(q)
        BY SMT, <1>1, <2>1
    <2> QED BY SMT, <1>1, <2>1, <2>2
<1>3. CASE ~HasRecord(r, s)
    <2> DEFINE e == [stage |-> s, status |-> status]
    <2>1. m = Append(q, e)
        BY <1>3 DEF Mark
    <2>2. /\ Len(m) = Len(q) + 1 /\ m[Len(q) + 1] = e
          /\ \A k \in 1 .. Len(q) : m[k] = q[k]
        BY SMT, <1>1, <2>1
    <2>3. e.status = status
        OBVIOUS
    <2> HIDE DEF e, q
    <2> QED BY SMT, <1>1, <2>2, <2>3 DEF q
<1> QED BY <1>2, <1>3

\* Steps that mark a stage otherwise than as succeeded.
LEMMA CancelsMarked ==
    ASSUME NEW r \in JobRuntimeRecord, NEW t, NEW c \in Nat \cup {None}, NEW n, NEW u,
           NEW s \in Stages, NEW status, status # "Succeeded",
           Cancels(r, t, c), n.stage_records = Mark(r, s, status),
           r.cancel_requested => n.cancel_requested, n.state = "Absent" => r.state = "Absent",
           u.at \notin {"store", "finish"}
    PROVE  Cancels(n, u, c)
<1>1. \A i \in 1 .. Len(n.stage_records) :
         \/ n.stage_records[i].status = status
         \/ i \in 1 .. Len(r.stage_records) /\ n.stage_records[i] = r.stage_records[i]
    BY SMT, MarkHolds
<1> QED BY <1>1 DEF Cancels

\* Steps that leave the attempts and the final reason of a job that has not
\* given up.
LEMMA RetriesKept ==
    ASSUME NEW r, NEW t, NEW n, NEW u, Retries(r, t),
           n.retry_attempts = r.retry_attempts, n.final_reason = r.final_reason,
           t.at \notin Resting, u.at # "decide"
    PROVE  Retries(n, u)
BY DEF Retries, Resting

\* Steps that leave the attempts, the final reason and the state, at the same call
\* or at one after giving up.
LEMMA RetriesStay ==
    ASSUME NEW r, NEW t, NEW n, NEW u, Retries(r, t),
           n.retry_attempts = r.retry_attempts, n.final_reason = r.final_reason,
           n.state = r.state \/ r.final_reason = None,
           \/ u.at = t.at
           \/ t.at \in {"release", "failed"} /\ u.at \in {"failed", "returned"}
    PROVE  Retries(n, u)
BY DEF Retries, Resting

\* What closing a job leaves of the fields the two facts read.
LEMMA CloseFields ==
    ASSUME NEW r \in JobRuntimeRecord, NEW s, NEW state, NEW n, n = CloseAs(r, s, state)
    PROVE  /\ n.stage_records = Mark(r, s, "Failed") /\ n.state = state
           /\ n.cancel_requested = r.cancel_requested
           /\ n.retry_attempts = r.retry_attempts /\ n.final_reason = r.final_reason
BY DEF CloseAs, JobRuntimeRecord

\* A step of job j's task: the new record and the new call decide.
LEMMA TaskStep ==
    ASSUME IInv, Control, NEW j \in Jobs, NEW n, NEW call, NEW s,
           Write(j, n), Goto(j, call, s), UNCHANGED cancelled_at,
           Cancels(n, [at |-> call, stage |-> s], cancelled_at[j]),
           Retries(n, [at |-> call, stage |-> s])
    PROVE  Control'
<1>1. /\ job'[j] = n /\ task'[j] = [at |-> call, stage |-> s]
      /\ \A k \in Jobs \ {j} : job'[k] = job[k] /\ task'[k] = task[k]
    BY SMT, JobFacts DEF Write, Goto
<1> QED BY <1>1, ControlFrame

\* A call that only moves the task.
LEMMA GotoControl ==
    ASSUME IInv, Control, NEW j \in Jobs, NEW call, NEW s,
           Goto(j, call, s), UNCHANGED <<job, cancelled_at>>,
           task[j].at \notin Resting, call # "decide",
           call \in {"store", "finish"} => ~job[j].cancel_requested
    PROVE  Control'
<1>2. Cancels(job[j], task[j], cancelled_at[j]) /\ Retries(job[j], task[j])
    BY DEF Control
<1>3. Cancels(job[j], [at |-> call, stage |-> s], cancelled_at[j])
    BY <1>2, CancelsKept
<1>4. Retries(job[j], [at |-> call, stage |-> s])
    BY SMT, <1>2, RetriesKept
<1>5. Write(j, job[j])
    BY JobFacts DEF Write
<1> QED BY <1>3, <1>4, <1>5, TaskStep

\* The steps that only move the task.
LEMMA MoveControl ==
    ASSUME IInv, Control, NEW j \in Jobs,
           \/ AdapterAnswers(j) \/ Simulate(j) \/ CheckControl(j) \/ Recheck(j)
           \/ terminalize_control(j)
    PROVE  Control'
<1> DEFINE s == task[j].stage
<1>1. UNCHANGED <<job, cancelled_at>> /\ task[j].at \notin Resting
    BY DEF AdapterAnswers, Simulate, CheckControl, Recheck, terminalize_control, Resting
<1>2. \/ \E call \in {"check", "failed", "deadline", "cancel_begin", "terminalize", "attempt"} :
            Goto(j, call, s)
      \/ Goto(j, "terminalize", Compile)
      \/ ~job[j].cancel_requested /\ \E call \in {"store", "finish"} : Goto(j, call, s)
      \/ \E call \in {"cancel_begin", "begin"} : Goto(j, call, s + 1)
    <2>1. CASE AdapterAnswers(j) \/ Simulate(j)
        BY <2>1 DEF AdapterAnswers, Simulate
    <2>2. CASE CheckControl(j)
        BY <2>2 DEF CheckControl
    <2>3. CASE Recheck(j) \/ terminalize_control(j)
        BY <2>3 DEF Recheck, terminalize_control
    <2> QED BY <2>1, <2>2, <2>3
<1>3. ASSUME NEW call \in {"check", "failed", "deadline", "cancel_begin", "terminalize", "attempt", "begin"},
             NEW k, Goto(j, call, k)
      PROVE  Control'
    BY <1>1, <1>3, GotoControl
<1>4. ASSUME ~job[j].cancel_requested, NEW call \in {"store", "finish"}, Goto(j, call, s)
      PROVE  Control'
    BY <1>1, <1>4, GotoControl
<1> HIDE DEF s
<1> QED BY <1>2, <1>3, <1>4

\* The calls that rewrite a field the two facts do not read.
LEMMA WriteControl ==
    ASSUME IInv, Control, NEW j \in Jobs, StoreResult(j) \/ set_state(j)
    PROVE  Control'
<1> DEFINE r == job[j]
<1>1. r \in JobRuntimeRecord
    BY JobFacts
<1>2. Cancels(r, task[j], cancelled_at[j]) /\ Retries(r, task[j])
    BY DEF Control
<1>3. PICK n, call, s :
         /\ Write(j, n) /\ Goto(j, call, s) /\ UNCHANGED cancelled_at
         /\ task[j].at \notin Resting /\ call # "decide"
         /\ call \in {"store", "finish"} => task[j].at = "store"
         /\ n.stage_records = r.stage_records /\ n.cancel_requested = r.cancel_requested
         /\ n.retry_attempts = r.retry_attempts /\ n.final_reason = r.final_reason
         /\ n.state = "Absent" => r.state = "Absent"
    <2>1. CASE StoreResult(j)
        <3>1. PICK n : /\ Write(j, n)
                       /\ \/ n = [r EXCEPT !.counts = TRUE]
                          \/ n = [r EXCEPT !.result_ref = TRUE]
                          \/ n = r
            <4>1. Write(j, r) \/ job' # job
                BY JobFacts DEF Write
            <4> QED BY <2>1, <4>1 DEF StoreResult
        <3>2. /\ n.stage_records = r.stage_records /\ n.cancel_requested = r.cancel_requested
              /\ n.retry_attempts = r.retry_attempts /\ n.final_reason = r.final_reason
              /\ n.state = r.state
            BY <1>1, <3>1 DEF JobRuntimeRecord
        <3>3. Goto(j, "finish", task[j].stage) /\ task[j].at = "store" /\ UNCHANGED cancelled_at
            BY <2>1 DEF StoreResult
        <3> QED BY <3>1, <3>2, <3>3 DEF Resting
    <2>2. CASE set_state(j)
        <3>1. PICK n : Write(j, n) /\ n = [r EXCEPT !.state = stage_state[task[j].stage + 1]]
            BY <2>2 DEF set_state
        <3>2. /\ n.stage_records = r.stage_records /\ n.cancel_requested = r.cancel_requested
              /\ n.retry_attempts = r.retry_attempts /\ n.final_reason = r.final_reason
              /\ n.state = stage_state[task[j].stage + 1]
            BY <1>1, <3>1 DEF JobRuntimeRecord
        <3>3. Goto(j, "recheck", task[j].stage) /\ task[j].at = "set_state" /\ UNCHANGED cancelled_at
            BY <2>2 DEF set_state
        <3>4. task[j].stage \in 1 .. 4
            BY <3>3, JobFacts DEF Position
        <3>5. n.state # "Absent"
            BY SMT, <3>2, <3>4 DEF stage_state
        <3> QED BY <3>1, <3>2, <3>3, <3>5 DEF Resting
    <2> QED BY <2>1, <2>2
<1> HIDE DEF r
<1>4. Cancels(n, [at |-> call, stage |-> s], cancelled_at[j])
    BY SMT, <1>2, <1>3, CancelsKept
<1>5. Retries(n, [at |-> call, stage |-> s])
    BY SMT, <1>2, <1>3, RetriesKept
<1> QED BY <1>3, <1>4, <1>5, TaskStep

\* How a call that begins, fails or closes a stage may change the record.
Outcome(r, n) ==
    /\ n.retry_attempts = r.retry_attempts /\ n.final_reason = r.final_reason
    /\ n.state = "Absent" => r.state = "Absent"
    /\ r.cancel_requested => n.cancel_requested
    /\ \/ n.stage_records = r.stage_records /\ n.cancel_requested = r.cancel_requested
       \/ \E k \in Stages : \E status \in {"Running", "Failed"} : n.stage_records = Mark(r, k, status)

\* Closing a job is such a change.
LEMMA CloseOutcome ==
    ASSUME NEW r \in JobRuntimeRecord, NEW s \in Stages, NEW state \in Terminal,
           NEW n, n = CloseAs(r, s, state)
    PROVE  Outcome(r, n)
<1>1. state # "Absent"
    BY DEF Terminal
<1> QED BY SMT, <1>1, CloseFields DEF Outcome

\* So is closing it for its deadline.
LEMMA DeadlineOutcome ==
    ASSUME NEW r \in JobRuntimeRecord, NEW n, n = request_deadline_terminalization(r)
    PROVE  Outcome(r, n)
<1> DEFINE c == CloseAs(r, r.current_stage, "Timeout")
<1>1. r.current_stage \in Stages
    BY DEF JobRuntimeRecord
<1>2. CASE n = r
    BY <1>2 DEF Outcome
<1>3. CASE n = [c EXCEPT !.cancel_requested = TRUE]
    <2>1. /\ n.stage_records = Mark(r, r.current_stage, "Failed") /\ n.state = "Timeout"
          /\ n.cancel_requested
          /\ n.retry_attempts = r.retry_attempts /\ n.final_reason = r.final_reason
        BY <1>3 DEF CloseAs, JobRuntimeRecord
    <2> QED BY <1>1, <2>1 DEF Outcome
<1> QED BY <1>2, <1>3 DEF request_deadline_terminalization

\* So is beginning a stage.
LEMMA BeginOutcome ==
    ASSUME NEW r \in JobRuntimeRecord, NEW s \in Stages, NEW complete,
           NEW n, n = begin_stage(r, s, complete)
    PROVE  Outcome(r, n)
<1> DEFINE c == CloseAs(r, s, "Error")
<1>2. CASE n = r
    BY <1>2 DEF Outcome
<1>3. CASE n = [r EXCEPT !.current_stage = s]
    <2>1. /\ n.stage_records = r.stage_records /\ n.state = r.state
          /\ n.cancel_requested = r.cancel_requested
          /\ n.retry_attempts = r.retry_attempts /\ n.final_reason = r.final_reason
        BY <1>3 DEF JobRuntimeRecord
    <2> QED BY <2>1 DEF Outcome
<1>4. CASE n = [c EXCEPT !.current_stage = s]
    <2>1. /\ n.stage_records = Mark(r, s, "Failed") /\ n.state = "Error"
          /\ n.cancel_requested = r.cancel_requested
          /\ n.retry_attempts = r.retry_attempts /\ n.final_reason = r.final_reason
        BY <1>4 DEF CloseAs, JobRuntimeRecord
    <2> QED BY <2>1 DEF Outcome
<1>5. CASE n = [r EXCEPT !.current_stage = s, !.stage_records = Mark(r, s, "Running")]
    <2>1. /\ n.stage_records = Mark(r, s, "Running") /\ n.state = r.state
          /\ n.cancel_requested = r.cancel_requested
          /\ n.retry_attempts = r.retry_attempts /\ n.final_reason = r.final_reason
        BY <1>5 DEF JobRuntimeRecord
    <2> QED BY <2>1 DEF Outcome
<1> QED BY <1>2, <1>3, <1>4, <1>5 DEF begin_stage

\* Such a change keeps the two facts of a job that has not given up.
LEMMA OutcomeControl ==
    ASSUME IInv, Control, NEW j \in Jobs, NEW n, NEW call, NEW s,
           Write(j, n), Goto(j, call, s), UNCHANGED cancelled_at,
           task[j].at \notin Resting, call \notin {"store", "finish", "decide"},
           Outcome(job[j], n)
    PROVE  Control'
<1> DEFINE r == job[j]
           u == [at |-> call, stage |-> s]
<1>1. r \in JobRuntimeRecord /\ cancelled_at[j] \in Nat \cup {None}
    BY JobFacts
<1>2. Cancels(r, task[j], cancelled_at[j]) /\ Retries(r, task[j]) /\ u.at = call
    BY DEF Control
<1>3. Write(j, n) /\ Outcome(r, n)
    OBVIOUS
<1> HIDE DEF r, u
<1>4. Retries(n, u)
    BY <1>2, <1>3, RetriesKept DEF Outcome
<1>5. Cancels(n, u, cancelled_at[j])
    <2>1. CASE n.stage_records = r.stage_records /\ n.cancel_requested = r.cancel_requested
        BY <1>2, <1>3, <2>1, CancelsKept DEF Outcome
    <2>2. ASSUME NEW k \in Stages, NEW status \in {"Running", "Failed"},
                 n.stage_records = Mark(r, k, status)
          PROVE  Cancels(n, u, cancelled_at[j])
        BY <1>1, <1>2, <1>3, <2>2, CancelsMarked DEF Outcome
    <2> QED BY <1>3, <2>1, <2>2 DEF Outcome
<1> QED BY <1>4, <1>5, TaskStep DEF u

\* The steps that begin, cancel or expire a stage.
LEMMA CloseControl ==
    ASSUME IInv, Control, NEW j \in Jobs,
           BeginStage(j) \/ CancelBegin(j) \/ CancelFinish(j) \/ TerminalizeDeadline(j)
    PROVE  Control'
<1> DEFINE r == job[j]
           s == task[j].stage
<1>1. r \in JobRuntimeRecord /\ s \in Stages
    BY JobFacts
<1>2. task[j].at \notin Resting /\ UNCHANGED cancelled_at
    BY DEF BeginStage, CancelBegin, CancelFinish, TerminalizeDeadline, Resting
<1>3. CASE BeginStage(j)
    <2>1. PICK complete : Write(j, begin_stage(r, s, complete))
        BY <1>3 DEF BeginStage
    <2>2. PICK call \in {"adapter", "failed", "simulate", "attempt"} : Goto(j, call, s)
        BY <1>3 DEF BeginStage
    <2>3. Outcome(r, begin_stage(r, s, complete))
        BY <1>1, BeginOutcome
    <2> QED BY <1>2, <2>1, <2>2, <2>3, OutcomeControl
<1>4. CASE CancelBegin(j)
    <2>1. PICK n, complete : n = begin_stage(r, s, complete) /\ Write(j, n)
        BY <1>4 DEF CancelBegin
    <2>2. Outcome(r, n) /\ Goto(j, "cancel_finish", s)
        BY <1>1, <1>4, <2>1, BeginOutcome DEF CancelBegin
    <2> QED BY SMT, <1>2, <2>1, <2>2, OutcomeControl
<1>5. CASE CancelFinish(j)
    <2>1. Write(j, CloseAs(r, s, "Cancelled")) /\ Goto(j, "release", s)
        BY <1>5 DEF CancelFinish, finish_stage_failure
    <2>2. Outcome(r, CloseAs(r, s, "Cancelled"))
        BY <1>1, CloseOutcome DEF Terminal
    <2> QED BY SMT, <1>2, <2>1, <2>2, OutcomeControl
<1>6. CASE TerminalizeDeadline(j)
    <2>1. Write(j, request_deadline_terminalization(r)) /\ Goto(j, "returned", s)
        BY <1>6 DEF TerminalizeDeadline
    <2>2. Outcome(r, request_deadline_terminalization(r))
        BY <1>1, DeadlineOutcome
    <2> QED BY SMT, <1>2, <2>1, <2>2, OutcomeControl
<1> QED BY <1>3, <1>4, <1>5, <1>6

\* A stage that succeeds was recorded before any cancellation.
LEMMA FinishControl ==
    ASSUME IInv, Control, NEW j \in Jobs, FinishStage(j)
    PROVE  Control'
<1> DEFINE r == job[j]
           s == task[j].stage
           m == Mark(r, s, "Succeeded")
<1>1. r \in JobRuntimeRecord /\ s \in Stages /\ s \in 1 .. 8 /\ cancelled_at[j] \in Nat \cup {None}
      /\ Ordered(r.stage_records) /\ Len(r.stage_records) \in Nat
    <2>1. r \in JobRuntimeRecord /\ s \in Stages /\ cancelled_at[j] \in Nat \cup {None}
          /\ Ordered(r.stage_records)
        BY JobFacts
    <2> QED BY <2>1, RecordFacts DEF Stages
<1>2. Cancels(r, task[j], cancelled_at[j]) /\ Retries(r, task[j])
    BY DEF Control
<1>3. task[j].at = "finish" /\ UNCHANGED cancelled_at /\ Len(r.stage_records) = s
    BY JobFacts DEF FinishStage, Position, InStage, UnderWay
<1>4. PICK n : n = finish_stage_success(r, s) /\ Write(j, n)
    BY DEF FinishStage
<1>5. /\ n.stage_records = m /\ n.state = next_state_after_success[s]
      /\ n.cancel_requested = r.cancel_requested
      /\ n.retry_attempts = r.retry_attempts /\ n.final_reason = r.final_reason
    BY <1>1, <1>4 DEF finish_stage_success, JobRuntimeRecord
<1>6. n.state # "Absent"
    BY SMT, <1>1, <1>5 DEF next_state_after_success
<1>7. PICK call, k :
         call \in {"set_state", "recheck", "begin", "returned"} /\ Goto(j, call, k)
    BY SMT DEF FinishStage
<1>8. Len(m) = Len(r.stage_records)
    <2>1. s <= Len(r.stage_records) /\ s <= Len(r.stage_records) + 1
        BY SMT, <1>1, <1>3
    <2> HIDE DEF m
    <2>2. Marked(r, s, "Succeeded", m)
        BY <1>1, <2>1, MarkFacts DEF m
    <2> QED BY <2>1, <2>2 DEF Marked
<1> HIDE DEF r, s, m
<1>9. Retries(n, [at |-> call, stage |-> k])
    BY SMT, <1>2, <1>3, <1>5, <1>7, RetriesKept DEF Resting
<1>10. Cancels(n, [at |-> call, stage |-> k], cancelled_at[j])
    BY SMT, <1>1, <1>2, <1>3, <1>5, <1>6, <1>7, <1>8 DEF Cancels
<1> QED BY <1>3, <1>4, <1>7, <1>9, <1>10, TaskStep

\* An entry added to a sequence leaves the others in place.
LEMMA AppendHolds ==
    ASSUME NEW S, NEW q \in Seq(S), NEW e \in S
    PROVE  /\ Len(Append(q, e)) = Len(q) + 1
           /\ \A i \in 1 .. Len(q) : Append(q, e)[i] = q[i]
           /\ Append(q, e) # <<>>
<1>1. Len(q) \in Nat /\ Append(q, e) \in Seq(S) /\ Len(<<>>) = 0
    BY SMT
<1>2. Len(Append(q, e)) = Len(q) + 1
    BY SMT
<1>3. \A i \in 1 .. Len(q) : Append(q, e)[i] = q[i]
    BY SMT, <1>1
<1> QED BY SMT, <1>1, <1>2, <1>3

\* Giving up with a reason that fits the attempts.
LEMMA GiveUpControl ==
    ASSUME IInv, Control, NEW j \in Jobs, NEW reason \in RetryReason, GiveUp(j, reason),
           UNCHANGED cancelled_at, task[j].at \in {"attempt", "execute", "decide"},
           LET a == job[j].retry_attempts IN
           /\ reason = "NON_RETRYABLE" => a # <<>> /\ ~a[Len(a)]
           /\ reason = "RETRY_EXHAUSTED" => Len(a) = MaxAttempts /\ a[MaxAttempts]
    PROVE  Control'
<1> DEFINE r == job[j]
           u == [at |-> "give_up", stage |-> task[j].stage]
<1>1. r \in JobRuntimeRecord
    BY JobFacts
<1>2. Cancels(r, task[j], cancelled_at[j]) /\ Retries(r, task[j])
    BY DEF Control
<1>3. PICK n : n = [r EXCEPT !.final_reason = reason] /\ Write(j, n)
    BY DEF GiveUp
<1>4. /\ n.stage_records = r.stage_records /\ n.state = r.state
      /\ n.cancel_requested = r.cancel_requested
      /\ n.retry_attempts = r.retry_attempts /\ n.final_reason = reason
    BY <1>1, <1>3 DEF JobRuntimeRecord
<1>5. Cancels(n, u, cancelled_at[j])
    BY SMT, <1>2, <1>4, CancelsKept
<1>6. Retries(n, u)
    BY <1>2, <1>4 DEF Retries, Resting
<1> QED BY <1>3, <1>5, <1>6, TaskStep DEF GiveUp

\* The calls of execute_with_retry.
LEMMA AttemptControl ==
    ASSUME IInv, Control, NEW j \in Jobs, StartAttempt(j) \/ AttemptEnds(j) \/ DecideRetry(j)
    PROVE  Control'
<1> DEFINE r == job[j]
           a == r.retry_attempts
           s == task[j].stage
<1>1. r \in JobRuntimeRecord /\ a \in Seq(BOOLEAN) /\ Len(a) \in Nat
    <2>1. r \in JobRuntimeRecord
        BY JobFacts
    <2> QED BY <2>1, RecordFacts
<1>2. Cancels(r, task[j], cancelled_at[j]) /\ Retries(r, task[j])
    BY DEF Control
<1>3. UNCHANGED cancelled_at /\ task[j].at \in {"attempt", "execute", "decide"}
    BY DEF StartAttempt, AttemptEnds, DecideRetry
<1>4. "DEADLINE_EXCEEDED" \in RetryReason /\ "NON_RETRYABLE" \in RetryReason
      /\ "RETRY_EXHAUSTED" \in RetryReason
    BY DEF RetryReason
<1>5. ASSUME GiveUp(j, "DEADLINE_EXCEEDED") PROVE Control'
    BY <1>3, <1>4, <1>5, GiveUpControl
<1>6. ASSUME NEW call \in {"execute", "check"}, Goto(j, call, s), UNCHANGED job,
             task[j].at \in {"attempt", "execute"}
      PROVE  Control'
    BY <1>3, <1>6, GotoControl DEF Resting
<1>7. CASE StartAttempt(j)
    BY <1>5, <1>6, <1>7 DEF StartAttempt
<1>8. CASE AttemptEnds(j)
    <2>1. ASSUME NEW retryable \in BOOLEAN, Goto(j, "decide", s), task[j].at = "execute",
                 Write(j, [r EXCEPT !.retry_attempts = Append(@, retryable)])
          PROVE  Control'
        <3>1. PICK n : n = [r EXCEPT !.retry_attempts = Append(a, retryable)] /\ Write(j, n)
            BY <2>1
        <3>2. /\ n.stage_records = r.stage_records /\ n.state = r.state
              /\ n.cancel_requested = r.cancel_requested
              /\ n.retry_attempts = Append(a, retryable) /\ n.final_reason = r.final_reason
            BY <1>1, <3>1 DEF JobRuntimeRecord
        <3>3. /\ Len(a) < MaxAttempts /\ \A i \in 1 .. Len(a) : a[i]
              /\ r.final_reason = None
            BY <1>2, <2>1 DEF Retries, Resting
        <3>4. /\ Len(n.retry_attempts) = Len(a) + 1
              /\ \A i \in 1 .. Len(a) : n.retry_attempts[i] = a[i]
              /\ n.retry_attempts # <<>>
            <4>1. /\ Len(Append(a, retryable)) = Len(a) + 1
                  /\ \A i \in 1 .. Len(a) : Append(a, retryable)[i] = a[i]
                  /\ Append(a, retryable) # <<>>
                <5> HIDE DEF a
                <5> QED BY <1>1, <2>1, AppendHolds
            <4> HIDE DEF a
            <4> QED BY <3>2, <4>1
        <3>5. None \notin RetryReason /\ MaxAttempts \in Nat
            BY NoneAssumption, AttemptsAssumption
        <3>6. Len(n.retry_attempts) <= MaxAttempts
            BY SMT, <1>1, <3>3, <3>4, <3>5
        <3>7. \A i \in 1 .. Len(n.retry_attempts) - 1 : n.retry_attempts[i]
            BY SMT, <1>1, <3>3, <3>4
        <3>8. Retries(n, [at |-> "decide", stage |-> s])
            BY <1>4, <3>2, <3>3, <3>4, <3>5, <3>6, <3>7 DEF Retries, Resting
        <3>9. Cancels(n, [at |-> "decide", stage |-> s], cancelled_at[j])
            BY SMT, <1>2, <3>2, CancelsKept
        <3> QED BY <1>3, <2>1, <3>1, <3>8, <3>9, TaskStep
    <2>2. \/ GiveUp(j, "DEADLINE_EXCEEDED")
          \/ Goto(j, "check", s) /\ UNCHANGED job
          \/ \E retryable \in BOOLEAN :
                /\ Write(j, [r EXCEPT !.retry_attempts = Append(@, retryable)])
                /\ Goto(j, "decide", s)
        BY <1>8 DEF AttemptEnds
    <2>3. task[j].at = "execute"
        BY <1>8 DEF AttemptEnds
    <2> QED BY <1>5, <1>6, <2>1, <2>2, <2>3
<1>9. CASE DecideRetry(j)
    <2>1. /\ task[j].at = "decide" /\ a # <<>> /\ Len(a) <= MaxAttempts
          /\ \A i \in 1 .. Len(a) - 1 : a[i]
          /\ r.final_reason = None
        BY <1>2, <1>9 DEF DecideRetry, Retries
    <2>2. ASSUME ~a[Len(a)], GiveUp(j, "NON_RETRYABLE") PROVE Control'
        BY <1>3, <1>4, <2>1, <2>2, GiveUpControl
    <2>3. ASSUME a[Len(a)], Len(a) >= MaxAttempts, GiveUp(j, "RETRY_EXHAUSTED") PROVE Control'
        <3>1. Len(a) = MaxAttempts
            BY SMT, <1>1, <2>1, <2>3, AttemptsAssumption
        <3> QED BY <1>3, <1>4, <2>3, <3>1, GiveUpControl
    <2>4. ASSUME a[Len(a)], ~(Len(a) >= MaxAttempts), Goto(j, "attempt", s), UNCHANGED job
          PROVE  Control'
        <3>1. Len(a) < MaxAttempts /\ \A i \in 1 .. Len(a) : a[i]
            BY SMT, <1>1, <2>1, <2>4, AttemptsAssumption
        <3>2. None \notin RetryReason
            BY NoneAssumption
        <3>3. Retries(r, [at |-> "attempt", stage |-> s])
            BY <1>2, <1>4, <2>1, <3>1, <3>2 DEF Retries, Resting
        <3>4. Cancels(r, [at |-> "attempt", stage |-> s], cancelled_at[j])
            BY <1>2, CancelsKept
        <3>5. Write(j, r)
            BY <2>4, JobFacts DEF Write
        <3> QED BY <1>3, <2>4, <3>3, <3>4, <3>5, TaskStep
    <2> QED BY <1>5, <1>9, <2>2, <2>3, <2>4 DEF DecideRetry
<1> QED BY <1>7, <1>8, <1>9

\* A job that gave up closes in the state its reason asks for, and stays there.
LEMMA GaveUpControl ==
    ASSUME IInv, Control, NEW j \in Jobs,
           FinishExecuteFailure(j) \/ ReleaseReservation(j) \/ TerminalizeError(j)
    PROVE  Control'
<1> DEFINE r == job[j]
           s == task[j].stage
<1>1. r \in JobRuntimeRecord /\ s \in Stages /\ r.current_stage \in Stages
      /\ cancelled_at[j] \in Nat \cup {None}
    <2>1. r \in JobRuntimeRecord /\ s \in Stages /\ cancelled_at[j] \in Nat \cup {None}
        BY JobFacts
    <2> QED BY <2>1, RecordFacts
<1>2. Cancels(r, task[j], cancelled_at[j]) /\ Retries(r, task[j])
    BY DEF Control
<1>3. UNCHANGED cancelled_at
    BY DEF FinishExecuteFailure, ReleaseReservation, TerminalizeError
<1>4. CASE FinishExecuteFailure(j)
    <2> DEFINE u == [at |-> "release", stage |-> s]
    <2>1. task[j].at = "give_up" /\ Goto(j, "release", s)
        BY <1>4 DEF FinishExecuteFailure
    <2>2. PICK n : n = CloseAs(r, s, ReasonState(r.final_reason)) /\ Write(j, n)
        BY <1>4 DEF FinishExecuteFailure, finish_stage_failure, ReasonState
    <2>3. /\ n.stage_records = Mark(r, s, "Failed") /\ n.state = ReasonState(r.final_reason)
          /\ n.cancel_requested = r.cancel_requested
          /\ n.retry_attempts = r.retry_attempts /\ n.final_reason = r.final_reason
        BY SMT, <1>1, <2>2, CloseFields
    <2>4. n.state # "Absent"
        BY <2>3 DEF ReasonState
    <2>5. Cancels(n, u, cancelled_at[j])
        <3>1. u.at \notin {"store", "finish"} /\ "Failed" # "Succeeded"
            OBVIOUS
        <3> HIDE DEF r, s, u
        <3> QED BY <1>1, <1>2, <2>3, <2>4, <3>1, CancelsMarked
    <2>6. Retries(n, u)
        BY <1>2, <2>1, <2>3 DEF Retries, Resting
    <2> QED BY <1>3, <2>1, <2>2, <2>5, <2>6, TaskStep
<1>5. CASE ReleaseReservation(j)
    <2>1. PICK n : n = [r EXCEPT !.reservation = "released"] /\ Write(j, n)
        BY <1>5 DEF ReleaseReservation
    <2>2. PICK call \in {"returned", "failed"} : Goto(j, call, s)
        BY <1>5 DEF ReleaseReservation
    <2>3. /\ n.stage_records = r.stage_records /\ n.state = r.state
          /\ n.cancel_requested = r.cancel_requested
          /\ n.retry_attempts = r.retry_attempts /\ n.final_reason = r.final_reason
        BY <1>1, <2>1 DEF JobRuntimeRecord
    <2>4. task[j].at = "release"
        BY <1>5 DEF ReleaseReservation
    <2>5. Cancels(n, [at |-> call, stage |-> s], cancelled_at[j])
        BY SMT, <1>2, <2>3, CancelsKept
    <2>6. Retries(n, [at |-> call, stage |-> s])
        BY SMT, <1>2, <2>3, <2>4, RetriesStay
    <2> QED BY <1>3, <2>1, <2>2, <2>5, <2>6, TaskStep
<1>6. CASE TerminalizeError(j)
    <2> DEFINE u == [at |-> "returned", stage |-> s]
    <2>1. task[j].at = "failed" /\ Goto(j, "returned", s)
        BY <1>6 DEF TerminalizeError
    <2>2. PICK n : n = request_error_terminalization(r) /\ Write(j, n)
        BY <1>6 DEF TerminalizeError
    <2>3. CASE is_terminal(r)
        <3>1. n = r
            BY <2>2, <2>3 DEF request_error_terminalization
        <3>2. Cancels(n, u, cancelled_at[j]) /\ Retries(n, u)
            BY SMT, <1>2, <2>1, <3>1, CancelsKept, RetriesStay
        <3> QED BY <1>3, <2>1, <2>2, <3>2, TaskStep
    <2>4. CASE ~is_terminal(r)
        <3>1. n = CloseAs(r, r.current_stage, "Error")
            BY <2>2, <2>4 DEF request_error_terminalization
        <3>2. /\ n.stage_records = Mark(r, r.current_stage, "Failed") /\ n.state = "Error"
              /\ n.cancel_requested = r.cancel_requested
              /\ n.retry_attempts = r.retry_attempts /\ n.final_reason = r.final_reason
            BY SMT, <1>1, <3>1, CloseFields
        <3>3. r.final_reason = None
            BY <1>2, <2>1, <2>4 DEF Retries, ReasonState, is_terminal, Terminal
        <3>4. Cancels(n, u, cancelled_at[j])
            <4>1. u.at \notin {"store", "finish"} /\ "Failed" # "Succeeded" /\ n.state # "Absent"
                BY <3>2
            <4> HIDE DEF r, s, u
            <4> QED BY <1>1, <1>2, <3>2, <4>1, CancelsMarked
        <3>5. Retries(n, u)
            BY SMT, <1>2, <2>1, <3>2, <3>3, RetriesStay
        <3> QED BY <1>3, <2>1, <2>2, <3>4, <3>5, TaskStep
    <2> QED BY <2>3, <2>4
<1> QED BY <1>4, <1>5, <1>6

\* EnqueueJob, CancelJob, the clock and the reservation sweep.
LEMMA CallerControl ==
    ASSUME IInv, Control, NEW j \in Jobs,
           enqueue_job(j) \/ cancel_job(j) \/ DeadlinePasses(j) \/ sweep_stale_reservations(j)
    PROVE  Control'
<1> DEFINE r == job[j]
<1>1. r \in JobRuntimeRecord /\ cancelled_at[j] \in Nat \cup {None} /\ Len(r.stage_records) \in Nat
    <2>1. r \in JobRuntimeRecord /\ cancelled_at[j] \in Nat \cup {None}
        BY JobFacts
    <2> QED BY <2>1, RecordFacts
<1>2. Cancels(r, task[j], cancelled_at[j]) /\ Retries(r, task[j])
    BY DEF Control
<1>3. CASE enqueue_job(j)
    <2>1. PICK n : n = NewJob /\ Write(j, n)
        BY <1>3 DEF enqueue_job
    <2>2. n.state = "Pending" /\ n.retry_attempts = <<>> /\ n.final_reason = None
        BY <2>1 DEF NewJob
    <2>3. cancelled_at[j] = None /\ Goto(j, "sweep", ValidateEnqueue) /\ UNCHANGED cancelled_at
        BY <1>2, <1>3 DEF enqueue_job, Cancels
    <2>4. Cancels(n, [at |-> "sweep", stage |-> ValidateEnqueue], cancelled_at[j])
        BY <2>2, <2>3 DEF Cancels
    <2>5. None \notin RetryReason /\ 0 < MaxAttempts /\ 0 <= MaxAttempts
        BY SMT, NoneAssumption, AttemptsAssumption
    <2>6. Retries(n, [at |-> "sweep", stage |-> ValidateEnqueue])
        BY SMT, <2>2, <2>5 DEF Retries, Resting, RetryReason
    <2> QED BY <2>1, <2>3, <2>4, <2>6, TaskStep
<1>4. CASE cancel_job(j)
    <2>1. PICK n : n = request_cancel(r) /\ Write(j, n)
        BY <1>4 DEF cancel_job
    <2>2. /\ n.stage_records = r.stage_records /\ n.state = r.state /\ n.cancel_requested
          /\ n.retry_attempts = r.retry_attempts /\ n.final_reason = r.final_reason
        BY <1>1, <2>1 DEF request_cancel, JobRuntimeRecord
    <2>3. /\ job'[j] = n /\ task' = task
          /\ cancelled_at'[j] = IF cancelled_at[j] = None THEN Len(r.stage_records) ELSE cancelled_at[j]
          /\ \A k \in Jobs \ {j} : job'[k] = job[k] /\ cancelled_at'[k] = cancelled_at[k]
        BY <1>4, <2>1, JobFacts DEF cancel_job, Write
    <2>4. r.state # "Absent"
        BY <1>4 DEF cancel_job, Active
    <2>5. Cancels(n, task[j], cancelled_at'[j])
        BY SMT, <1>1, <1>2, <2>2, <2>3, <2>4 DEF Cancels
    <2>6. Retries(n, task[j])
        BY <1>2, <2>2, RetriesStay
    <2> QED BY <2>3, <2>5, <2>6, ControlFrame
<1>5. CASE DeadlinePasses(j)
    BY <1>5 DEF DeadlinePasses, Control
<1>6. CASE sweep_stale_reservations(j)
    <2>1. \A k \in Jobs :
            /\ job'[k].stage_records = job[k].stage_records /\ job'[k].state = job[k].state
            /\ job'[k].cancel_requested = job[k].cancel_requested
            /\ job'[k].retry_attempts = job[k].retry_attempts
            /\ job'[k].final_reason = job[k].final_reason
        <3>1. \A k \in Jobs : job[k] \in JobRuntimeRecord
            BY DEF IInv, TypeOK
        <3> QED BY SMT, <1>6, <3>1 DEF sweep_stale_reservations, JobRuntimeRecord
    <2>2. /\ UNCHANGED cancelled_at /\ task[j].at = "sweep" /\ task'[j].at = "begin"
          /\ \A k \in Jobs \ {j} : task'[k] = task[k]
        BY <1>6, JobFacts DEF sweep_stale_reservations, Goto
    <2>3. ASSUME NEW k \in Jobs
          PROVE  Cancels(job'[k], task'[k], cancelled_at'[k]) /\ Retries(job'[k], task'[k])
        <3>1. Cancels(job[k], task[k], cancelled_at[k]) /\ Retries(job[k], task[k])
            BY DEF Control
        <3>2. CASE k = j
            <4>1. cancelled_at'[k] = cancelled_at[k] /\ task[k].at = "sweep" /\ task'[k].at = "begin"
                BY <2>2, <3>2
            <4>2. Cancels(job'[k], task'[k], cancelled_at'[k])
                BY SMT, <2>1, <3>1, <4>1, CancelsKept
            <4>3. Retries(job'[k], task'[k])
                BY SMT, <2>1, <3>1, <4>1, RetriesKept DEF Resting
            <4> QED BY <4>2, <4>3
        <3>3. CASE k # j
            BY SMT, <2>1, <2>2, <3>1, <3>3, CancelsKept, RetriesStay
        <3> QED BY <3>2, <3>3
    <2> QED BY <2>3 DEF Control
<1> QED BY <1>3, <1>4, <1>5, <1>6

\* No stage begun after a cancellation succeeds, and execute_with_retry keeps to
\* its policy and closes the job in the state its final reason names, for any set
\* of jobs and any retry limit.
THEOREM ControlAlwaysObeyed == Spec => []ControlObeyed
<1>1. Init => Control
    <2> SUFFICES ASSUME Init, NEW j \in Jobs
                 PROVE  Cancels(job[j], task[j], cancelled_at[j]) /\ Retries(job[j], task[j])
        BY DEF Control
    <2>1. /\ job[j].retry_attempts = <<>> /\ job[j].final_reason = None
          /\ task[j].at = "unspawned" /\ cancelled_at[j] = None
        BY DEF Init, NewJob
    <2>2. None \notin RetryReason /\ 0 < MaxAttempts /\ 0 <= MaxAttempts
        BY SMT, NoneAssumption, AttemptsAssumption
    <2> QED BY SMT, <2>1, <2>2 DEF Cancels, Retries, Resting, RetryReason
<1>2. IInv /\ Control /\ [Next]_vars => Control'
    <2> SUFFICES ASSUME IInv, Control, [Next]_vars PROVE Control'
        OBVIOUS
    <2>1. CASE UNCHANGED vars
        BY <2>1 DEF vars, Control
    <2>2. ASSUME NEW j \in Jobs,
                 enqueue_job(j) \/ cancel_job(j) \/ DeadlinePasses(j) \/ run_job_dag(j)
          PROVE  Control'
        BY <2>2, CallerControl, MoveControl, WriteControl, CloseControl, FinishControl,
           AttemptControl, GaveUpControl DEF run_job_dag
    <2> QED BY <2>1, <2>2 DEF Next
<1>3. IInv /\ Control => ControlObeyed
    <2>1. ASSUME IInv, Control PROVE CancelStopsProgress
        BY <2>1 DEF Control, Cancels, CancelStopsProgress
    <2>2. ASSUME IInv, Control, NEW j \in Jobs
          PROVE  LET attempts == job[j].retry_attempts IN
                 /\ Len(attempts) <= MaxAttempts
                 /\ \A i \in 1 .. Len(attempts) - 1 : attempts[i]
                 /\ job[j].final_reason = "NON_RETRYABLE" => attempts # <<>> /\ ~attempts[Len(attempts)]
                 /\ job[j].final_reason = "RETRY_EXHAUSTED" =>
                       Len(attempts) = MaxAttempts /\ attempts[MaxAttempts]
                 /\ job[j].final_reason # None /\ is_terminal(job[j]) =>
                       job[j].state = ReasonState(job[j].final_reason)
        <3>1. Retries(job[j], task[j])
            BY <2>2 DEF Control
        <3>2. task[j].at = "give_up" => ~is_terminal(job[j])
            <4>1. task[j].at = "give_up" => UnderWay(job[j], task[j].stage)
                BY <2>2, JobFacts DEF Position, InStage
            <4> QED BY <2>2, <4>1, JobFacts, UnderWayFacts
        <3> QED BY <3>1, <3>2 DEF Retries
    <2> QED BY <2>1, <2>2 DEF ControlObeyed, RetryFollowsPolicy, ReasonState
<1> QED BY <1>1, <1>2, <1>3, InvariantHolds, PTL DEF Spec
=============================================================================
