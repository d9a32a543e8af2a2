------------------------ MODULE KernelDag_invariant ------------------------
(***************************************************************************)
(* The inductive invariant of KernelDag: for every position of a job's     *)
(* task, how its stage records, state and flags stand.  Here are the facts *)
(* about marking and closing a record, and that every step keeps the       *)
(* invariant.                                                              *)
(***************************************************************************)
EXTENDS KernelDag, TLAPS

\* The leaves are proved by Zenon but for those that cite another prover.
USE Zenon

\* A sequence stays one of its type when an element is appended.
LEMMA AppendedType ==
    ASSUME NEW S, NEW q \in Seq(S), NEW e \in S
    PROVE  Append(q, e) \in Seq(S)
  BY SMT

\* A task is at one of these calls after begin_stage of its stage and before the
\* stage is finished.
InStage == {"adapter", "simulate", "attempt", "execute", "decide", "give_up", "check",
            "store", "finish"}

Ordered(q) == \A i \in 1 .. Len(q) : q[i].stage = i

Succeeded(q, n) == \A i \in 1 .. n : q[i].status = "Succeeded"

\* The state a job shows while its task works on stage s.
Shown(s) == IF s = Finalize THEN "Running" ELSE stage_state[s]

\* The last record is the stage under way and every earlier one has succeeded.
UnderWay(r, n) ==
    LET q == r.stage_records IN
    /\ Len(q) = n /\ n \in Stages
    /\ r.current_stage = n
    /\ Succeeded(q, n - 1)
    /\ q[n].status = "Running"
    /\ r.state = Shown(n)

\* The first n stages have succeeded, but for a validate that a cancellation
\* left running.
Settled(r, n) ==
    \A i \in 1 .. n :
        \/ r.stage_records[i].status = "Succeeded"
        \/ i = 1 /\ r.stage_records[i].status = "Running" /\ r.cancel_requested

\* The job is closed without success.
Closed(r) ==
    LET q == r.stage_records IN
    /\ r.state \in {"Error", "Cancelled", "Timeout"}
    /\ Len(q) \in Stages
    /\ q[Len(q)].status = "Failed"
    /\ Settled(r, Len(q) - 1)
    /\ r.reservation = "released"
    /\ r.failure_ref

Position(r, t) ==
    LET q == r.stage_records
        n == Len(q)
        s == t.stage
    IN
    /\ t.at = "unspawned" => r.state = "Absent" /\ n = 0
    /\ t.at = "sweep" => s = 1 /\ n = 0 /\ r.state = "Pending"
    /\ t.at = "begin" => n = s - 1 /\ Succeeded(q, n) /\ r.state = Shown(s)
    /\ t.at \in InStage => UnderWay(r, s)
    /\ t.at \in {"store", "simulate", "attempt", "execute", "decide", "give_up"} =>
          s \in {Execute, Persist}
    /\ t.at = "set_state" =>
          s \in 1 .. 4 /\ n = s /\ Succeeded(q, n) /\ r.state = next_state_after_success[s]
    /\ t.at = "recheck" => s \in 1 .. 6 /\ n = s /\ Succeeded(q, n) /\ r.state = Shown(s + 1)
    /\ t.at = "terminalize" => UnderWay(r, s) \/ (s = 2 /\ UnderWay(r, 1))
    /\ t.at = "cancel_begin" =>
          /\ r.cancel_requested
          /\ \/ UnderWay(r, s)
             \/ s = 2 /\ UnderWay(r, 1)
             \/ n = s - 1 /\ Succeeded(q, n) /\ r.state = Shown(s)
    /\ t.at = "cancel_finish" =>
          /\ r.cancel_requested
          /\ n = s
          /\ UnderWay(r, s) \/ (Closed(r) /\ r.state = "Error")
    /\ t.at = "release" => Closed(r)
    /\ t.at = "deadline" => \E k \in Stages : UnderWay(r, k)
    /\ t.at = "failed" => Closed(r) \/ (\E k \in Stages : UnderWay(r, k))
    /\ t.at = "returned" => r.state = "Done" \/ Closed(r)

\* The flags of the record agree with its state and its stage records.
Flags(r, t, c) ==
    LET q == r.stage_records IN
    /\ r.completion_ref <=> r.state = "Done"
    /\ r.failure_ref <=> r.state \in {"Error", "Cancelled", "Timeout"}
    /\ r.state \in Active \cup {"Error"} /\ r.cancel_requested => c # None
    /\ Len(q) >= Execute /\ q[Execute].status = "Succeeded" => r.counts
    /\ t.at = "finish" /\ t.stage = Execute => r.counts
    /\ Len(q) >= RecordKnowledgeObservability
       /\ q[RecordKnowledgeObservability].status # "Failed" => r.result_ref
    /\ r.state = "Done" => t.at = "returned" /\ Len(q) = Finalize /\ Succeeded(q, Finalize)

Good(r, t, c) == Ordered(r.stage_records) /\ Position(r, t) /\ Flags(r, t, c)

IInv == TypeOK /\ \A j \in Jobs : Good(job[j], task[j], cancelled_at[j])
-----------------------------------------------------------------------------
\* m is the history of r, in DAG order, with stage s in the given status.
Marked(r, s, status, m) ==
    /\ m \in Seq(StageRecord)
    /\ s <= Len(r.stage_records) => Len(m) = Len(r.stage_records)
    /\ s = Len(r.stage_records) + 1 => Len(m) = s
    /\ Ordered(m)
    /\ m[s].status = status
    /\ \A i \in 1 .. Len(r.stage_records) : i # s => m[i] = r.stage_records[i]

\* What marking a stage's record does to a history in DAG order.
LEMMA MarkFacts ==
    ASSUME NEW r \in JobRuntimeRecord, Ordered(r.stage_records),
           NEW s \in Stages, s <= Len(r.stage_records) + 1,
           NEW status \in {"Running", "Succeeded", "Failed"},
           NEW m, m = Mark(r, s, status)
    PROVE  Marked(r, s, status, m)
<1> DEFINE q == r.stage_records
           e == [stage |-> s, status |-> status]
<1>1. q \in Seq(StageRecord) /\ Len(q) \in Nat /\ e \in StageRecord /\ s \in Nat
    BY SMT DEF JobRuntimeRecord, StageRecord, Stages
<1>2. CASE HasRecord(r, s)
    <2>1. s \in 1 .. Len(q)
        BY <1>1, <1>2 DEF HasRecord, Ordered
    <2>2. m = [i \in 1 .. Len(q) |-> IF q[i].stage = s THEN e ELSE q[i]]
        BY <1>2 DEF Mark
    <2>3. \A i \in 1 .. Len(q) : q[i] \in StageRecord /\ q[i].stage = i
        BY SMT, <1>1 DEF Ordered
    <2>4. m \in Seq(StageRecord) /\ Len(m) = Len(q)
        BY SMT, <1>1, <2>2, <2>3
    <2>5. \A i \in 1 .. Len(q) : m[i] = IF i = s THEN e ELSE q[i]
        BY SMT, <2>2, <2>3
    <2>6. Ordered(m)
        BY SMT, <1>1, <2>3, <2>4, <2>5 DEF Ordered
    <2>7. m[s].status = status
        BY SMT, <2>1, <2>5
    <2>8. s # Len(q) + 1
        BY SMT, <1>1, <2>1
    <2> QED BY <2>4, <2>5, <2>6, <2>7, <2>8 DEF Marked
<1>3. CASE ~HasRecord(r, s)
    <2>1. s = Len(q) + 1
        BY SMT, <1>1, <1>3 DEF HasRecord, Ordered, Stages
    <2>2. m = Append(q, e)
        BY <1>3 DEF Mark
    <2>3. /\ m \in Seq(StageRecord)
          /\ Len(m) = Len(q) + 1
          /\ \A i \in 1 .. Len(q) : m[i] = q[i]
          /\ m[Len(q) + 1] = e
        BY SMT, <1>1, <2>2
    <2>4. Ordered(m)
        BY SMT, <1>1, <2>1, <2>3 DEF Ordered
    <2> HIDE DEF q
    <2>5. m[s].status = status
        BY SMT, <2>1, <2>3
    <2>6. ~(s <= Len(q)) /\ Len(m) = s
        BY SMT, <1>1, <2>1, <2>3
    <2> QED BY <2>3, <2>4, <2>5, <2>6 DEF Marked, q
<1> QED BY <1>2, <1>3

\* n is a closed job whose record is that of r before stage s.
ClosedFrom(r, s, state, n) ==
    /\ n \in JobRuntimeRecord
    /\ Ordered(n.stage_records)
    /\ Closed(n) /\ n.state = state /\ Len(n.stage_records) = s
    /\ n.cancel_requested = r.cancel_requested
    /\ n.current_stage = r.current_stage
    /\ n.counts = r.counts /\ n.result_ref = r.result_ref
    /\ n.completion_ref = r.completion_ref
    /\ \A i \in 1 .. s - 1 : n.stage_records[i] = r.stage_records[i]

\* Closing a job at its last stage, or at the one after it, gives a closed job.
LEMMA CloseFacts ==
    ASSUME NEW r \in JobRuntimeRecord, Ordered(r.stage_records), NEW s \in Stages,
           Len(r.stage_records) \in {s - 1, s}, Settled(r, s - 1),
           NEW state \in {"Error", "Cancelled", "Timeout"},
           NEW n, n = CloseAs(r, s, state)
    PROVE  ClosedFrom(r, s, state, n)
<1> DEFINE q == r.stage_records
           m == Mark(r, s, "Failed")
<1>1. q \in Seq(StageRecord) /\ Len(q) \in Nat /\ s \in Nat /\ s <= Len(q) + 1
    BY SMT DEF JobRuntimeRecord, Stages
<1>2. /\ m \in Seq(StageRecord)
      /\ Len(m) = s
      /\ Ordered(m)
      /\ m[s].status = "Failed"
      /\ \A i \in 1 .. s - 1 : m[i] = q[i]
    <2> HIDE DEF m
    <2>1. /\ m \in Seq(StageRecord)
          /\ s <= Len(q) => Len(m) = Len(q)
          /\ s = Len(q) + 1 => Len(m) = s
          /\ Ordered(m)
          /\ m[s].status = "Failed"
          /\ \A i \in 1 .. Len(q) : i # s => m[i] = q[i]
        <3>1. Marked(r, s, "Failed", m)
            BY <1>1, MarkFacts DEF m
        <3> QED BY <3>1 DEF Marked
    <2>2. (s <= Len(q) \/ s = Len(q) + 1) /\ (s <= Len(q) => Len(q) = s)
        BY SMT, <1>1
    <2>3. \A i \in 1 .. s - 1 : i \in 1 .. Len(q) /\ i # s
        BY SMT, <1>1
    <2> QED BY <2>1, <2>2, <2>3
<1>3. /\ n \in JobRuntimeRecord
      /\ n.stage_records = m /\ n.state = state
      /\ n.failure_ref /\ n.reservation = "released"
      /\ n.cancel_requested = r.cancel_requested
      /\ n.current_stage = r.current_stage
      /\ n.counts = r.counts /\ n.result_ref = r.result_ref
      /\ n.completion_ref = r.completion_ref
    BY <1>2 DEF JobRuntimeRecord, CloseAs, Terminal
<1> HIDE DEF m
<1>4. Settled(n, s - 1)
    BY SMT, <1>1, <1>2, <1>3 DEF Settled
<1>5. Closed(n)
    BY <1>1, <1>2, <1>3, <1>4 DEF Closed, Stages
<1> QED BY <1>2, <1>3, <1>5 DEF ClosedFrom

\* The flags of a record closed at stage s: what the stages before it had set is
\* as it was.
LEMMA ClosedFlags ==
    ASSUME NEW r, NEW n, NEW s \in Stages, NEW t, NEW u, NEW c,
           Flags(r, t, c), r.state \in Active \cup {"Error"},
           Len(r.stage_records) \in {s - 1, s},
           Closed(n), Len(n.stage_records) = s,
           n.cancel_requested = r.cancel_requested, n.counts = r.counts,
           n.result_ref = r.result_ref, n.completion_ref = r.completion_ref,
           \A i \in 1 .. s - 1 : n.stage_records[i] = r.stage_records[i],
           u.at # "finish"
    PROVE  Flags(n, u, c)
<1>1. n.stage_records[s].status = "Failed" /\ n.failure_ref
      /\ n.state \in {"Error", "Cancelled", "Timeout"}
    BY DEF Closed
<1>2. /\ n.completion_ref <=> n.state = "Done"
      /\ n.failure_ref <=> n.state \in {"Error", "Cancelled", "Timeout"}
      /\ n.state \in Active \cup {"Error"} /\ n.cancel_requested => c # None
      /\ n.state # "Done"
    BY <1>1 DEF Flags, Active
<1>3. s >= 5 /\ n.stage_records[5].status = "Succeeded" => n.counts
    <2>1. CASE s = 5
        BY <1>1, <2>1
    <2>2. CASE s # 5 /\ s >= 5
        <3>1. 5 \in 1 .. s - 1 /\ Len(r.stage_records) >= 5
            BY SMT, <2>2 DEF Stages
        <3> QED BY <3>1 DEF Flags, Execute
    <2> QED BY <2>1, <2>2
<1>4. s >= 7 /\ n.stage_records[7].status # "Failed" => n.result_ref
    <2>1. CASE s = 7
        BY <1>1, <2>1
    <2>2. CASE s # 7 /\ s >= 7
        <3>1. 7 \in 1 .. s - 1 /\ Len(r.stage_records) >= 7
            BY SMT, <2>2 DEF Stages
        <3> QED BY <3>1 DEF Flags, RecordKnowledgeObservability
    <2> QED BY <2>1, <2>2
<1> QED BY <1>2, <1>3, <1>4 DEF Flags, Execute, RecordKnowledgeObservability

\* An action that rewrites one job keeps the invariant if the new values of
\* that job are good.
LEMMA Frame ==
    ASSUME IInv, NEW j \in Jobs, NEW r \in JobRuntimeRecord,
           NEW call \in Calls, NEW s \in Stages,
           Write(j, r), Goto(j, call, s), UNCHANGED <<expired, cancelled_at>>,
           Ordered(r.stage_records),
           Position(r, task'[j]), Flags(r, task'[j], cancelled_at[j])
    PROVE  IInv'
<1>1. /\ job' = [job EXCEPT ![j] = r] /\ job \in [Jobs -> JobRuntimeRecord]
      /\ task' = [task EXCEPT ![j] = [at |-> call, stage |-> s]]
      /\ task \in [Jobs -> [at : Calls, stage : Stages]]
    BY DEF IInv, TypeOK, Write, Goto
<1>2. TypeOK'
    BY <1>1 DEF IInv, TypeOK
<1>3. ASSUME NEW k \in Jobs PROVE Good(job'[k], task'[k], cancelled_at'[k])
    <2>1. CASE k = j
        <3>1. job'[j] = r
            BY <1>1
        <3> QED BY <2>1, <3>1 DEF Good
    <2>2. CASE k # j
        <3>1. job'[k] = job[k] /\ task'[k] = task[k]
            BY <1>1, <2>2
        <3> QED BY <3>1 DEF IInv
    <2> QED BY <2>1, <2>2
<1> QED BY <1>2, <1>3 DEF IInv

\* What the invariant says of one job, and where Goto takes its task.
LEMMA JobFacts ==
    ASSUME IInv, NEW j \in Jobs
    PROVE  /\ job \in [Jobs -> JobRuntimeRecord]
           /\ task \in [Jobs -> [at : Calls, stage : Stages]]
           /\ expired \in [Jobs -> BOOLEAN]
           /\ cancelled_at \in [Jobs -> Nat \cup {None}]
           /\ job[j] \in JobRuntimeRecord
           /\ task[j] \in [at : Calls, stage : Stages]
           /\ task[j].stage \in Stages
           /\ cancelled_at[j] \in Nat \cup {None}
           /\ Ordered(job[j].stage_records)
           /\ Position(job[j], task[j])
           /\ Flags(job[j], task[j], cancelled_at[j])
           /\ \A call, s : Goto(j, call, s) => task'[j].at = call /\ task'[j].stage = s
BY SMT DEF IInv, TypeOK, Good, Goto

\* Moving the task on without touching the record.
LEMMA GotoKeeps ==
    ASSUME IInv, NEW j \in Jobs, NEW call \in Calls, NEW s \in Stages,
           Goto(j, call, s), UNCHANGED <<job, expired, cancelled_at>>,
           Position(job[j], task'[j]), Flags(job[j], task'[j], cancelled_at[j])
    PROVE  IInv'
<1>1. /\ Write(j, job[j]) /\ job[j] \in JobRuntimeRecord
      /\ Ordered(job[j].stage_records)
    BY JobFacts DEF Write
<1> QED BY <1>1, Frame

\* An adapter answer keeps the invariant: only the task moves.
LEMMA AdapterKeeps ==
    ASSUME IInv, NEW j \in Jobs, AdapterAnswers(j)
    PROVE  IInv'
<1> DEFINE r == job[j]
           s == task[j].stage
<1>1. PICK next \in {"check", "failed", "deadline"} : Goto(j, next, s)
    BY DEF AdapterAnswers
<1>2. /\ task[j].at = "adapter" /\ s \in Stages /\ UnderWay(r, s)
      /\ task'[j].at = next /\ task'[j].stage = s
    BY <1>1, JobFacts DEF AdapterAnswers, Position, InStage
<1>3. Position(r, task'[j])
    BY <1>2 DEF Position, InStage
<1>4. Flags(r, task'[j], cancelled_at[j])
    BY <1>2, JobFacts DEF Flags
<1>5. next \in Calls
    BY DEF Calls
<1> QED BY <1>1, <1>2, <1>3, <1>4, <1>5, GotoKeeps DEF AdapterAnswers

\* A turn of the simulated-runtime loop keeps the invariant.
LEMMA SimulateKeeps ==
    ASSUME IInv, NEW j \in Jobs, Simulate(j)
    PROVE  IInv'
<1> DEFINE r == job[j]
           s == task[j].stage
<1>1. PICK next \in {"cancel_begin", "terminalize", "deadline", "attempt"} :
          Goto(j, next, s) /\ (next = "cancel_begin" => r.cancel_requested)
    BY DEF Simulate
<1>2. /\ task[j].at = "simulate" /\ s \in Stages /\ UnderWay(r, s)
      /\ s \in {Execute, Persist}
      /\ task'[j].at = next /\ task'[j].stage = s
    BY <1>1, JobFacts DEF Simulate, Position, InStage
<1>3. Position(r, task'[j])
    BY <1>1, <1>2 DEF Position, InStage
<1>4. Flags(r, task'[j], cancelled_at[j])
    BY <1>2, JobFacts DEF Flags
<1>5. next \in Calls
    BY DEF Calls
<1> QED BY <1>1, <1>2, <1>3, <1>4, <1>5, GotoKeeps DEF Simulate

\* The control check after an adapter keeps the invariant.
LEMMA CheckKeeps ==
    ASSUME IInv, NEW j \in Jobs, CheckControl(j)
    PROVE  IInv'
<1> DEFINE r == job[j]
           s == task[j].stage
<1>1. /\ task[j].at = "check" /\ s \in Stages /\ UnderWay(r, s)
    BY JobFacts DEF CheckControl, Position, InStage
<1>2. CASE Goto(j, "terminalize", IF s = ValidateEnqueue THEN Compile ELSE s)
    <2>1. PICK k \in Stages : Goto(j, "terminalize", k) /\ (k = s \/ (k = 2 /\ s = 1))
        BY SMT, <1>1, <1>2 DEF ValidateEnqueue, Compile, Stages
    <2>2. task'[j].at = "terminalize" /\ task'[j].stage = k
        BY <2>1, JobFacts
    <2>3. Position(r, task'[j])
        BY <1>1, <2>1, <2>2 DEF Position, InStage
    <2>4. Flags(r, task'[j], cancelled_at[j])
        BY <1>1, <2>2, JobFacts DEF Flags
    <2>5. "terminalize" \in Calls
        BY DEF Calls
    <2> QED BY <2>1, <2>3, <2>4, <2>5, GotoKeeps DEF CheckControl
<1>3. CASE Goto(j, IF s \in {Execute, Persist} THEN "store" ELSE "finish", s)
    <2>1. PICK next \in {"store", "finish"} :
             Goto(j, next, s) /\ (next = "store" <=> s \in {Execute, Persist})
        BY <1>3
    <2>2. task'[j].at = next /\ task'[j].stage = s
        BY <2>1, JobFacts
    <2>3. Position(r, task'[j])
        BY <1>1, <2>1, <2>2 DEF Position, InStage
    <2>4. Flags(r, task'[j], cancelled_at[j])
        BY <1>1, <2>1, <2>2, JobFacts DEF Flags
    <2>5. next \in Calls
        BY DEF Calls
    <2> QED BY <1>1, <2>1, <2>3, <2>4, <2>5, GotoKeeps DEF CheckControl
<1> QED BY <1>2, <1>3 DEF CheckControl

\* The control check before the next stage keeps the invariant.
LEMMA RecheckKeeps ==
    ASSUME IInv, NEW j \in Jobs, Recheck(j)
    PROVE  IInv'
<1> DEFINE r == job[j]
           s == task[j].stage
           q == r.stage_records
<1>1. /\ task[j].at = "recheck" /\ s \in 1 .. 6 /\ Len(q) = s
      /\ Succeeded(q, Len(q)) /\ r.state = Shown(s + 1)
    BY JobFacts DEF Recheck, Position
<1>2. PICK next \in {"cancel_begin", "begin"} :
          Goto(j, next, s + 1) /\ (next = "cancel_begin" => r.cancel_requested)
    BY DEF Recheck
<1>3. task'[j].at = next /\ task'[j].stage = s + 1 /\ Len(q) = task'[j].stage - 1
    BY SMT, <1>1, <1>2, JobFacts
<1>4. Position(r, task'[j])
    BY <1>1, <1>2, <1>3 DEF Position, InStage
<1>5. Flags(r, task'[j], cancelled_at[j])
    BY <1>1, <1>3, JobFacts DEF Flags
<1>6. next \in Calls /\ s + 1 \in Stages
    BY SMT, <1>1 DEF Calls, Stages
<1> QED BY <1>2, <1>4, <1>5, <1>6, GotoKeeps DEF Recheck

\* terminalize_control's choice keeps the invariant.
LEMMA TerminalizeKeeps ==
    ASSUME IInv, NEW j \in Jobs, terminalize_control(j)
    PROVE  IInv'
<1> DEFINE r == job[j]
           s == task[j].stage
<1>1. /\ task[j].at = "terminalize" /\ s \in Stages
      /\ UnderWay(r, s) \/ (s = 2 /\ UnderWay(r, 1))
    BY JobFacts DEF terminalize_control, Position
<1>2. PICK next \in {"cancel_begin", "deadline"} :
          Goto(j, next, s) /\ (next = "cancel_begin" => r.cancel_requested)
    BY DEF terminalize_control
<1>3. task'[j].at = next /\ task'[j].stage = s
    BY <1>2, JobFacts
<1>4. \E k \in Stages : UnderWay(r, k)
    BY SMT, <1>1 DEF Stages
<1>5. Position(r, task'[j])
    BY <1>1, <1>2, <1>3, <1>4 DEF Position, InStage
<1>6. Flags(r, task'[j], cancelled_at[j])
    BY <1>1, <1>3, JobFacts DEF Flags
<1>7. next \in Calls
    BY DEF Calls
<1> QED BY <1>1, <1>2, <1>5, <1>6, <1>7, GotoKeeps DEF terminalize_control

\* Position does not depend on the retry fields, the results or, for an active
\* job, the reservation; and it survives a cancellation request.
LEMMA PositionStable ==
    ASSUME NEW r \in JobRuntimeRecord, NEW n \in JobRuntimeRecord, NEW t,
           n.state = r.state, n.current_stage = r.current_stage,
           n.stage_records = r.stage_records, n.failure_ref = r.failure_ref,
           r.cancel_requested => n.cancel_requested,
           n.reservation \in {r.reservation, "released"} \/ r.state \in Active,
           Position(r, t)
    PROVE  Position(n, t)
<1>1. ASSUME NEW k PROVE UnderWay(r, k) => UnderWay(n, k)
    BY DEF UnderWay
<1>2. Closed(r) => Closed(n)
    <2>1. ASSUME NEW k, Settled(r, k) PROVE Settled(n, k)
        BY <2>1 DEF Settled
    <2> QED BY <2>1 DEF Closed, Active
<1>3. \A k \in Stages : UnderWay(r, k) => UnderWay(n, k)
    BY <1>1
<1> QED BY SMT, <1>1, <1>2, <1>3 DEF Position

\* enqueue_job keeps the invariant: a new record with an empty history.
LEMMA EnqueueKeeps ==
    ASSUME IInv, NEW j \in Jobs, enqueue_job(j)
    PROVE  IInv'
<1>1. NewJob \in JobRuntimeRecord
    <2>1. <<>> \in Seq(StageRecord) /\ <<>> \in Seq(BOOLEAN)
        BY SMT
    <2> QED BY SMT, <2>1 DEF NewJob, JobRuntimeRecord, Active, Stages, ValidateEnqueue
<1>2. /\ Ordered(NewJob.stage_records) /\ Len(NewJob.stage_records) = 0
      /\ NewJob.state = "Pending" /\ ~NewJob.cancel_requested
      /\ ~NewJob.completion_ref /\ ~NewJob.failure_ref
    BY SMT DEF NewJob, Ordered
<1>3. Goto(j, "sweep", 1) /\ Write(j, NewJob)
    BY DEF enqueue_job, ValidateEnqueue
<1>4. task'[j].at = "sweep" /\ task'[j].stage = 1
    BY <1>3, JobFacts
<1>5. Position(NewJob, task'[j])
    BY <1>2, <1>4 DEF Position, InStage
<1>6. Flags(NewJob, task'[j], cancelled_at[j])
    BY SMT, <1>2, <1>4 DEF Flags, Execute, RecordKnowledgeObservability
<1>7. "sweep" \in Calls /\ 1 \in Stages
    BY SMT DEF Calls, Stages
<1> QED BY <1>1, <1>2, <1>3, <1>5, <1>6, <1>7, Frame DEF enqueue_job

\* cancel_job keeps the invariant: it writes two flags of an active job.
LEMMA CancelKeeps ==
    ASSUME IInv, NEW j \in Jobs, cancel_job(j)
    PROVE  IInv'
<1> DEFINE n == request_cancel(job[j])
<1>1. /\ n \in JobRuntimeRecord /\ n.state = job[j].state
      /\ n.current_stage = job[j].current_stage
      /\ n.stage_records = job[j].stage_records /\ n.failure_ref = job[j].failure_ref
      /\ n.completion_ref = job[j].completion_ref
      /\ n.counts = job[j].counts /\ n.result_ref = job[j].result_ref
      /\ n.cancel_requested
    <2>1. job[j] \in JobRuntimeRecord
        BY JobFacts
    <2>2. ASSUME NEW r \in JobRuntimeRecord, NEW m, m = request_cancel(r)
          PROVE  /\ m \in JobRuntimeRecord /\ m.state = r.state
                 /\ m.current_stage = r.current_stage
                 /\ m.stage_records = r.stage_records /\ m.failure_ref = r.failure_ref
                 /\ m.completion_ref = r.completion_ref
                 /\ m.counts = r.counts /\ m.result_ref = r.result_ref
                 /\ m.cancel_requested
        BY <2>2 DEF request_cancel, JobRuntimeRecord
    <2> QED BY <2>1, <2>2
<1> HIDE DEF n
<1>2. job' = [job EXCEPT ![j] = n]
    BY DEF cancel_job, Write, n
<1>3. /\ cancelled_at' \in [Jobs -> Nat \cup {None}]
      /\ cancelled_at'[j] # None
      /\ \A k \in Jobs \ {j} : cancelled_at'[k] = cancelled_at[k]
    <2>1. Len(job[j].stage_records) \in Nat
        BY SMT, JobFacts DEF JobRuntimeRecord
    <2> QED BY <2>1, JobFacts, NoneAssumption DEF cancel_job
<1>4. TypeOK'
    BY <1>1, <1>2, <1>3, JobFacts DEF TypeOK, cancel_job
<1>5. Position(n, task[j])
    BY <1>1, JobFacts, PositionStable DEF cancel_job
<1>6. Flags(n, task[j], cancelled_at'[j])
    BY SMT, <1>1, <1>3, JobFacts DEF Flags
<1>7. ASSUME NEW k \in Jobs PROVE Good(job'[k], task'[k], cancelled_at'[k])
    <2>1. CASE k = j
        <3>1. job'[j] = n /\ task'[j] = task[j]
            BY <1>2, JobFacts DEF cancel_job
        <3>2. Ordered(n.stage_records)
            BY <1>1, JobFacts
        <3> QED BY <1>5, <1>6, <2>1, <3>1, <3>2 DEF Good
    <2>2. CASE k # j
        <3>1. job'[k] = job[k] /\ task'[k] = task[k] /\ cancelled_at'[k] = cancelled_at[k]
            BY <1>2, <1>3, <2>2, JobFacts DEF cancel_job
        <3> QED BY <3>1 DEF IInv
    <2> QED BY <2>1, <2>2
<1> QED BY <1>4, <1>7 DEF IInv

\* The passing of a deadline keeps the invariant.
LEMMA DeadlinePassesKeeps ==
    ASSUME IInv, NEW j \in Jobs, DeadlinePasses(j)
    PROVE  IInv'
<1>1. TypeOK'
    BY DEF IInv, TypeOK, DeadlinePasses
<1> QED BY <1>1 DEF IInv, DeadlinePasses, Good

\* The states a job passes through on its way to Done are active ones.
LEMMA ShownFacts ==
    ASSUME NEW s \in Stages
    PROVE  /\ Shown(s) \in Active
           /\ Shown(s) \notin Terminal
           /\ s < Finalize => next_state_after_success[s] \in Active
           /\ s < Finalize => next_state_after_success[s] \notin Terminal
           /\ s \in 5 .. 7 => next_state_after_success[s] = Shown(s + 1)
           /\ s \in 1 .. 4 => stage_state[s + 1] = Shown(s + 1)
           /\ next_state_after_success[Finalize] = "Done"
<1>1. s \in {1, 2, 3, 4, 5, 6, 7, 8}
    BY SMT DEF Stages
<1> QED BY SMT, <1>1 DEF Shown, stage_state, next_state_after_success, Active, Terminal, Finalize

\* sweep_stale_reservations keeps the invariant of every job it touches.
LEMMA SweepKeeps ==
    ASSUME IInv, NEW j \in Jobs, sweep_stale_reservations(j)
    PROVE  IInv'
<1>1. PICK stale \in SUBSET {k \in Jobs : job[k].state \in Active /\ job[k].reservation = "held"} :
         job' = [k \in Jobs |-> IF k \in stale
                                THEN [job[k] EXCEPT !.reservation = "released"] ELSE job[k]]
    BY DEF sweep_stale_reservations
<1>2. ASSUME NEW k \in Jobs
      PROVE  /\ job'[k] \in JobRuntimeRecord /\ job'[k].state = job[k].state
             /\ job'[k].current_stage = job[k].current_stage
             /\ job'[k].stage_records = job[k].stage_records
             /\ job'[k].failure_ref = job[k].failure_ref
             /\ job'[k].completion_ref = job[k].completion_ref
             /\ job'[k].counts = job[k].counts /\ job'[k].result_ref = job[k].result_ref
             /\ job'[k].cancel_requested = job[k].cancel_requested
             /\ job'[k].reservation \in {job[k].reservation, "released"}
    <2>1. ASSUME NEW r \in JobRuntimeRecord, NEW m, m = [r EXCEPT !.reservation = "released"]
          PROVE  /\ m \in JobRuntimeRecord /\ m.state = r.state
                 /\ m.current_stage = r.current_stage /\ m.stage_records = r.stage_records
                 /\ m.failure_ref = r.failure_ref /\ m.completion_ref = r.completion_ref
                 /\ m.counts = r.counts /\ m.result_ref = r.result_ref
                 /\ m.cancel_requested = r.cancel_requested /\ m.reservation = "released"
        BY <2>1 DEF JobRuntimeRecord
    <2>2. job[k] \in JobRuntimeRecord
        BY JobFacts
    <2>3. CASE k \in stale
        <3>1. job'[k] = [job[k] EXCEPT !.reservation = "released"]
            BY <1>1, <2>3
        <3> QED BY SMT, <2>1, <2>2, <3>1
    <2>4. CASE k \notin stale
        BY <1>1, <2>2, <2>4
    <2> QED BY <2>3, <2>4
<1>3. Goto(j, "begin", 1)
    BY DEF sweep_stale_reservations, ValidateEnqueue
<1>4. TypeOK'
    <2>1. job' \in [Jobs -> JobRuntimeRecord]
        BY <1>1, <1>2
    <2>2. "begin" \in Calls /\ 1 \in Stages
        BY SMT DEF Calls, Stages
    <2>3. task' \in [Jobs -> [at : Calls, stage : Stages]]
        BY <1>3, <2>2, JobFacts DEF Goto
    <2> QED BY <2>1, <2>3, JobFacts DEF TypeOK, sweep_stale_reservations
<1>5. task'[j].at = "begin" /\ task'[j].stage = 1 /\ \A k \in Jobs \ {j} : task'[k] = task[k]
    BY <1>3, JobFacts DEF Goto
<1>6. ASSUME NEW k \in Jobs PROVE Position(job'[k], task'[k])
    <2>1. Position(job[k], task'[k])
        <3>1. CASE k # j
            BY <1>5, <3>1, JobFacts
        <3>2. CASE k = j
            <4>1. /\ Len(job[j].stage_records) = 0 /\ job[j].state = "Pending"
                BY JobFacts DEF sweep_stale_reservations, Position
            <4>2. Shown(1) = "Pending"
                BY SMT DEF Shown, stage_state, Finalize
            <4>3. Succeeded(job[j].stage_records, 0)
                BY SMT DEF Succeeded
            <4> QED BY SMT, <1>5, <3>2, <4>1, <4>2, <4>3 DEF Position, InStage
        <3> QED BY <3>1, <3>2
    <2>2. job[k] \in JobRuntimeRecord
        BY JobFacts
    <2> QED BY SMT, <1>2, <2>1, <2>2, PositionStable
<1>7. ASSUME NEW k \in Jobs PROVE Flags(job'[k], task'[k], cancelled_at'[k])
    <2>1. Flags(job[k], task'[k], cancelled_at[k])
        <3>1. CASE k # j
            BY <1>5, <3>1, JobFacts
        <3>2. CASE k = j
            BY <1>5, <3>2, JobFacts DEF Flags, sweep_stale_reservations
        <3> QED BY <3>1, <3>2
    <2> QED BY <1>2, <2>1 DEF Flags, sweep_stale_reservations
<1>8. ASSUME NEW k \in Jobs PROVE Good(job'[k], task'[k], cancelled_at'[k])
    BY <1>2, <1>6, <1>7, JobFacts DEF Good
<1> QED BY <1>4, <1>8 DEF IInv

\* begin_stage keeps the invariant, with and without its handoff fields.
LEMMA BeginKeeps ==
    ASSUME IInv, NEW j \in Jobs, BeginStage(j)
    PROVE  IInv'
<1> DEFINE r == job[j]
           s == task[j].stage
           q == r.stage_records
<1>1. /\ task[j].at = "begin" /\ s \in Stages /\ Len(q) = s - 1
      /\ Succeeded(q, s - 1) /\ r.state = Shown(s)
      /\ r \in JobRuntimeRecord /\ q \in Seq(StageRecord) /\ Ordered(q)
    BY JobFacts DEF BeginStage, Position, JobRuntimeRecord
<1>2. ~is_terminal(r) /\ r.state \in Active
    BY <1>1, ShownFacts DEF is_terminal
<1>3. ~HasRecord(r, s)
    BY SMT, <1>1 DEF HasRecord, Ordered, Stages
<1>4. PICK complete \in BOOLEAN :
         /\ s = RecordKnowledgeObservability => complete = r.result_ref
         /\ Write(j, begin_stage(r, s, complete))
         /\ IF complete
            THEN \/ s # Execute /\ Goto(j, "adapter", s)
                 \/ s = Execute /\ \E next \in {"failed", "simulate", "attempt"} : Goto(j, next, s)
            ELSE Goto(j, "failed", s)
    <2>1. PICK complete \in Handoffs(j, s) :
             /\ Write(j, begin_stage(r, s, complete))
             /\ IF complete
                THEN \/ s # Execute /\ Goto(j, "adapter", s)
                     \/ s = Execute /\ \E next \in {"failed", "simulate", "attempt"} : Goto(j, next, s)
                ELSE Goto(j, "failed", s)
        BY DEF BeginStage
    <2>2. complete \in BOOLEAN /\ (s = RecordKnowledgeObservability => complete = r.result_ref)
        <3>1. r.result_ref \in BOOLEAN /\ RecordKnowledgeObservability # ValidateEnqueue
            BY SMT, <1>1 DEF JobRuntimeRecord, RecordKnowledgeObservability, ValidateEnqueue
        <3> QED BY <2>1, <3>1 DEF Handoffs
    <2> QED BY <2>1, <2>2
<1>5. Flags(r, task[j], cancelled_at[j])
    BY JobFacts
<1>6. CASE complete
    <2> DEFINE n == begin_stage(r, s, complete)
               m == Mark(r, s, "Running")
    <2>1. /\ m \in Seq(StageRecord) /\ Len(m) = s /\ Ordered(m) /\ m[s].status = "Running"
          /\ \A i \in 1 .. s - 1 : m[i] = q[i]
        <3>1. s <= Len(q) + 1 /\ s = Len(q) + 1 /\ s \in Nat
            BY SMT, <1>1 DEF Stages
        <3>2. r \in JobRuntimeRecord /\ Ordered(r.stage_records) /\ s <= Len(r.stage_records) + 1
            BY <1>1, <3>1
        <3>3. "Running" \in {"Running", "Succeeded", "Failed"}
            OBVIOUS
        <3>4. /\ m \in Seq(StageRecord)
              /\ s = Len(r.stage_records) + 1 => Len(m) = s
              /\ Ordered(m)
              /\ m[s].status = "Running"
              /\ \A i \in 1 .. Len(r.stage_records) : i # s => m[i] = r.stage_records[i]
            <4> HIDE DEF q, n
            <4>1. Marked(r, s, "Running", m)
                BY <1>1, <3>2, <3>3, MarkFacts
            <4> QED BY <4>1 DEF Marked
        <3>5. \A i \in 1 .. s - 1 : i \in 1 .. Len(q) /\ i # s
            BY SMT, <1>1, <3>1
        <3> HIDE DEF m
        <3> QED BY <3>1, <3>4, <3>5
    <2>2. n = [r EXCEPT !.current_stage = s, !.stage_records = m]
        BY <1>2, <1>3, <1>6 DEF begin_stage
    <2> HIDE DEF m
    <2>3. /\ n \in JobRuntimeRecord /\ n.state = r.state /\ n.current_stage = s
          /\ n.stage_records = m /\ n.failure_ref = r.failure_ref
          /\ n.completion_ref = r.completion_ref /\ n.counts = r.counts
          /\ n.result_ref = r.result_ref /\ n.cancel_requested = r.cancel_requested
        BY <1>1, <2>1, <2>2 DEF JobRuntimeRecord
    <2> HIDE DEF n
    <2>4. UnderWay(n, s)
        BY <1>1, <2>1, <2>3 DEF UnderWay, Succeeded, Stages
    <2>5. PICK next \in {"adapter", "failed", "simulate", "attempt"} :
             Goto(j, next, s) /\ (next \in {"simulate", "attempt"} => s = Execute)
        BY <1>4, <1>6
    <2>6. task'[j].at = next /\ task'[j].stage = s
        BY <2>5, JobFacts
    <2>7. Position(n, task'[j])
        BY <1>1, <2>4, <2>5, <2>6 DEF Position, InStage
    <2>8. Flags(n, task'[j], cancelled_at[j])
        <3>1. s = RecordKnowledgeObservability => n.result_ref
            BY <1>4, <1>6, <2>3
        <3>2. /\ n.completion_ref <=> n.state = "Done"
              /\ n.failure_ref <=> n.state \in {"Error", "Cancelled", "Timeout"}
              /\ n.state \in Active \cup {"Error"} /\ n.cancel_requested => cancelled_at[j] # None
              /\ n.state # "Done"
            BY <1>2, <1>5, <2>3 DEF Flags, Active
        <3>3. Len(m) >= 5 /\ m[5].status = "Succeeded" => n.counts
            BY SMT, <1>1, <1>5, <2>1, <2>3 DEF Flags, Execute, Stages
        <3>4. Len(m) >= 7 /\ m[7].status # "Failed" => n.result_ref
            <4>1. CASE s = 7
                BY <3>1, <4>1 DEF RecordKnowledgeObservability
            <4>2. CASE s # 7 /\ Len(m) >= 7
                <5>1. s = 8 /\ Len(q) = 7 /\ m[7] = q[7]
                    BY SMT, <1>1, <2>1, <4>2 DEF Stages
                <5> QED BY SMT, <1>5, <2>3, <5>1 DEF Flags, RecordKnowledgeObservability
            <4> QED BY <4>1, <4>2
        <3>5. next # "finish"
            OBVIOUS
        <3> QED BY <2>3, <2>6, <3>2, <3>3, <3>4, <3>5
                DEF Flags, Execute, RecordKnowledgeObservability
    <2>9. next \in Calls
        BY DEF Calls
    <2> QED BY <1>1, <1>4, <2>1, <2>3, <2>5, <2>7, <2>8, <2>9, Frame DEF BeginStage, n
<1>7. CASE ~complete
    <2> DEFINE n == begin_stage(r, s, complete)
               d == CloseAs(r, s, "Error")
    <2>1. n = [d EXCEPT !.current_stage = s]
        BY <1>2, <1>3, <1>7 DEF begin_stage
    <2>2. Settled(r, s - 1) /\ Len(q) \in {s - 1, s}
        BY <1>1 DEF Settled, Succeeded
    <2> HIDE DEF d
    <2>3. /\ d \in JobRuntimeRecord
          /\ Ordered(d.stage_records)
          /\ Closed(d) /\ d.state = "Error" /\ Len(d.stage_records) = s
          /\ d.cancel_requested = r.cancel_requested
          /\ d.counts = r.counts /\ d.result_ref = r.result_ref
          /\ d.completion_ref = r.completion_ref
          /\ \A i \in 1 .. s - 1 : d.stage_records[i] = q[i]
        <3>1. ClosedFrom(r, s, "Error", d)
            BY <1>1, <2>2, CloseFacts DEF d
        <3> QED BY <3>1 DEF ClosedFrom
    <2>4. /\ n \in JobRuntimeRecord /\ n.state = d.state
          /\ n.stage_records = d.stage_records /\ n.failure_ref = d.failure_ref
          /\ n.completion_ref = d.completion_ref /\ n.counts = d.counts
          /\ n.result_ref = d.result_ref /\ n.cancel_requested = d.cancel_requested
          /\ n.reservation = d.reservation
        BY <1>1, <2>1, <2>3 DEF JobRuntimeRecord
    <2> HIDE DEF n
    <2>5. Closed(n)
        BY SMT, <2>3, <2>4 DEF Closed, Settled
    <2>6. Goto(j, "failed", s) /\ task'[j].at = "failed" /\ task'[j].stage = s
        BY <1>4, <1>7, JobFacts
    <2>7. Position(n, task'[j])
        BY <2>5, <2>6 DEF Position, InStage
    <2>8. d.stage_records[s].status = "Failed" /\ d.failure_ref
        BY <2>3 DEF Closed
    <2>9. Flags(n, task'[j], cancelled_at[j])
        <3>1. /\ n.cancel_requested = r.cancel_requested /\ n.counts = r.counts
              /\ n.result_ref = r.result_ref /\ n.completion_ref = r.completion_ref
              /\ Len(n.stage_records) = s /\ r.state \in Active \cup {"Error"}
              /\ \A i \in 1 .. s - 1 : n.stage_records[i] = r.stage_records[i]
              /\ task'[j].at # "finish"
            BY <1>2, <2>3, <2>4, <2>6
        <3> QED BY <1>1, <1>5, <2>2, <2>5, <3>1, ClosedFlags
    <2>10. "failed" \in Calls
        BY DEF Calls
    <2> QED BY <1>1, <1>4, <2>3, <2>4, <2>6, <2>7, <2>9, <2>10, Frame DEF BeginStage, n
<1> QED BY <1>6, <1>7
-----------------------------------------------------------------------------

\* A step that changes only the retry fields of a job under way, or nothing.
LEMMA RetryKeeps ==
    ASSUME IInv, NEW j \in Jobs, NEW n \in JobRuntimeRecord,
           task[j].at \in {"attempt", "execute", "decide"},
           Write(j, n), UNCHANGED <<expired, cancelled_at>>,
           n.state = job[j].state, n.current_stage = job[j].current_stage,
           n.stage_records = job[j].stage_records, n.failure_ref = job[j].failure_ref,
           n.completion_ref = job[j].completion_ref, n.counts = job[j].counts,
           n.result_ref = job[j].result_ref, n.cancel_requested = job[j].cancel_requested,
           n.reservation = job[j].reservation,
           NEW next \in {"attempt", "execute", "decide", "give_up", "check"},
           Goto(j, next, task[j].stage)
    PROVE  IInv'
<1> DEFINE s == task[j].stage
<1>0. /\ s \in Stages /\ Position(job[j], task[j]) /\ Flags(job[j], task[j], cancelled_at[j])
      /\ Ordered(n.stage_records)
      /\ task'[j].at = next /\ task'[j].stage = s
    BY SMT, JobFacts
<1>1. /\ s \in Stages /\ s \in {Execute, Persist} /\ UnderWay(job[j], s)
      /\ Flags(job[j], task[j], cancelled_at[j])
      /\ Ordered(n.stage_records)
      /\ task'[j].at = next /\ task'[j].stage = s
    BY <1>0 DEF Position, InStage
<1>2. UnderWay(n, s)
    BY <1>1 DEF UnderWay
<1>3. Position(n, task'[j])
    BY <1>1, <1>2 DEF Position, InStage
<1>4. Flags(n, task'[j], cancelled_at[j])
    BY <1>1 DEF Flags
<1>5. next \in Calls
    BY DEF Calls
<1> QED BY <1>1, <1>3, <1>4, <1>5, Frame

\* Recording the final retry reason keeps the invariant.
LEMMA GiveUpKeeps ==
    ASSUME IInv, NEW j \in Jobs, NEW reason \in RetryReason, GiveUp(j, reason),
           task[j].at \in {"attempt", "execute", "decide"}, UNCHANGED <<expired, cancelled_at>>
    PROVE  IInv'
<1>1. job[j] \in JobRuntimeRecord
    BY JobFacts
<1>2. ASSUME NEW r \in JobRuntimeRecord, NEW n, n = [r EXCEPT !.final_reason = reason]
      PROVE  /\ n \in JobRuntimeRecord /\ n.state = r.state
             /\ n.current_stage = r.current_stage /\ n.stage_records = r.stage_records
             /\ n.failure_ref = r.failure_ref /\ n.completion_ref = r.completion_ref
             /\ n.counts = r.counts /\ n.result_ref = r.result_ref
             /\ n.cancel_requested = r.cancel_requested /\ n.reservation = r.reservation
    BY <1>2 DEF JobRuntimeRecord
<1>3. PICK n : n = [job[j] EXCEPT !.final_reason = reason]
    OBVIOUS
<1>4. Write(j, n) /\ Goto(j, "give_up", task[j].stage)
    BY <1>3 DEF GiveUp
<1>5. /\ n \in JobRuntimeRecord /\ n.state = job[j].state
      /\ n.current_stage = job[j].current_stage /\ n.stage_records = job[j].stage_records
      /\ n.failure_ref = job[j].failure_ref /\ n.completion_ref = job[j].completion_ref
      /\ n.counts = job[j].counts /\ n.result_ref = job[j].result_ref
      /\ n.cancel_requested = job[j].cancel_requested
      /\ n.reservation = job[j].reservation
    BY <1>1, <1>2, <1>3
<1> QED BY <1>4, <1>5, RetryKeeps

\* The three steps of the retry loop keep the invariant.
LEMMA AttemptKeeps ==
    ASSUME IInv, NEW j \in Jobs, StartAttempt(j) \/ AttemptEnds(j) \/ DecideRetry(j)
    PROVE  IInv'
<1>1. /\ task[j].at \in {"attempt", "execute", "decide"}
      /\ UNCHANGED <<expired, cancelled_at>>
    BY DEF StartAttempt, AttemptEnds, DecideRetry
<1>2. \/ \E reason \in RetryReason : GiveUp(j, reason)
      \/ \E next \in {"execute", "check", "attempt"} :
            Goto(j, next, task[j].stage) /\ UNCHANGED job
      \/ \E retryable \in BOOLEAN :
            /\ Write(j, [job[j] EXCEPT !.retry_attempts = Append(@, retryable)])
            /\ Goto(j, "decide", task[j].stage)
    BY DEF StartAttempt, AttemptEnds, DecideRetry, RetryReason
<1>3. CASE \E reason \in RetryReason : GiveUp(j, reason)
    BY <1>1, <1>3, GiveUpKeeps
<1>4. CASE \E next \in {"execute", "check", "attempt"} :
              Goto(j, next, task[j].stage) /\ UNCHANGED job
    <2>1. Write(j, job[j]) /\ job[j] \in JobRuntimeRecord
        BY <1>4, JobFacts DEF Write
    <2> QED BY <1>1, <1>4, <2>1, RetryKeeps
<1>5. ASSUME NEW retryable \in BOOLEAN,
             Write(j, [job[j] EXCEPT !.retry_attempts = Append(@, retryable)]),
             Goto(j, "decide", task[j].stage)
      PROVE  IInv'
    <2>1. job[j] \in JobRuntimeRecord
        BY JobFacts
    <2>2. ASSUME NEW r \in JobRuntimeRecord, NEW n,
                 n = [r EXCEPT !.retry_attempts = Append(@, retryable)]
          PROVE  /\ n \in JobRuntimeRecord /\ n.state = r.state
                 /\ n.current_stage = r.current_stage /\ n.stage_records = r.stage_records
                 /\ n.failure_ref = r.failure_ref /\ n.completion_ref = r.completion_ref
                 /\ n.counts = r.counts /\ n.result_ref = r.result_ref
                 /\ n.cancel_requested = r.cancel_requested /\ n.reservation = r.reservation
        <3>1. r.retry_attempts \in Seq(BOOLEAN)
            BY DEF JobRuntimeRecord
        <3>2. PICK attempts : attempts = Append(r.retry_attempts, retryable)
            OBVIOUS
        <3>3. attempts \in Seq(BOOLEAN)
            BY <3>1, <3>2, AppendedType
        <3>4. n = [r EXCEPT !.retry_attempts = attempts]
            BY <2>2, <3>2
        <3> QED BY <3>3, <3>4 DEF JobRuntimeRecord
    <2>3. PICK n : n = [job[j] EXCEPT !.retry_attempts = Append(@, retryable)]
        OBVIOUS
    <2>4. Write(j, n)
        BY <1>5, <2>3
    <2>5. /\ n \in JobRuntimeRecord /\ n.state = job[j].state
          /\ n.current_stage = job[j].current_stage /\ n.stage_records = job[j].stage_records
          /\ n.failure_ref = job[j].failure_ref /\ n.completion_ref = job[j].completion_ref
          /\ n.counts = job[j].counts /\ n.result_ref = job[j].result_ref
          /\ n.cancel_requested = job[j].cancel_requested
          /\ n.reservation = job[j].reservation
        BY <2>1, <2>2, <2>3
    <2> QED BY <1>1, <1>5, <2>4, <2>5, RetryKeeps
<1> QED BY <1>2, <1>3, <1>4, <1>5

\* A step that closes a job at its last stage, or at the one after it.
LEMMA CloseKeeps ==
    ASSUME IInv, NEW j \in Jobs, NEW s \in Stages,
           Len(job[j].stage_records) \in {s - 1, s}, Settled(job[j], s - 1),
           job[j].state \in Active \cup {"Error"},
           NEW state \in {"Error", "Cancelled", "Timeout"},
           Write(j, CloseAs(job[j], s, state)), UNCHANGED <<expired, cancelled_at>>,
           NEW next \in {"release", "returned"}, Goto(j, next, task[j].stage)
    PROVE  IInv'
<1>1. PICK n : n = CloseAs(job[j], s, state)
    OBVIOUS
<1>2. /\ job[j] \in JobRuntimeRecord /\ Ordered(job[j].stage_records)
      /\ Flags(job[j], task[j], cancelled_at[j])
      /\ task'[j].at = next /\ task'[j].stage = task[j].stage
      /\ task[j].stage \in Stages
    BY JobFacts
<1>3. /\ n \in JobRuntimeRecord
      /\ Ordered(n.stage_records)
      /\ Closed(n) /\ n.state = state /\ Len(n.stage_records) = s
      /\ n.cancel_requested = job[j].cancel_requested
      /\ n.counts = job[j].counts /\ n.result_ref = job[j].result_ref
      /\ n.completion_ref = job[j].completion_ref
      /\ \A i \in 1 .. s - 1 : n.stage_records[i] = job[j].stage_records[i]
    <2>1. ClosedFrom(job[j], s, state, n)
        BY <1>1, <1>2, CloseFacts
    <2> QED BY <2>1 DEF ClosedFrom
<1>4. Position(n, task'[j])
    BY <1>2, <1>3 DEF Position, InStage
<1>5. n.stage_records[s].status = "Failed" /\ n.failure_ref
    BY <1>3 DEF Closed
<1>6. Flags(n, task'[j], cancelled_at[j])
    BY <1>2, <1>3, ClosedFlags
<1>7. next \in Calls /\ Write(j, n)
    BY <1>1 DEF Calls
<1> QED BY <1>2, <1>3, <1>4, <1>6, <1>7, Frame

\* A job under way may be closed at its stage.
LEMMA UnderWayFacts ==
    ASSUME NEW r \in JobRuntimeRecord, NEW s \in Stages, UnderWay(r, s)
    PROVE  /\ Len(r.stage_records) = s /\ r.current_stage = s
           /\ Len(r.stage_records) \in {s - 1, s}
           /\ Settled(r, s - 1)
           /\ r.state \in Active \cup {"Error"}
           /\ ~is_terminal(r)
BY ShownFacts DEF UnderWay, Settled, Succeeded, is_terminal

\* Closing a job from the retry loop keeps the invariant.
LEMMA ExecuteFailureKeeps ==
    ASSUME IInv, NEW j \in Jobs, FinishExecuteFailure(j)
    PROVE  IInv'
<1> DEFINE s == task[j].stage
<1>1. s \in Stages /\ UnderWay(job[j], s) /\ job[j] \in JobRuntimeRecord
    BY JobFacts DEF FinishExecuteFailure, Position, InStage
<1>2. PICK state \in {"Timeout", "Error"} : Write(j, CloseAs(job[j], s, state))
    BY DEF FinishExecuteFailure, finish_stage_failure
<1> QED BY <1>1, <1>2, UnderWayFacts, CloseKeeps DEF FinishExecuteFailure

\* cancel_after_stage's finish_stage_failure keeps the invariant.
LEMMA CancelFinishKeeps ==
    ASSUME IInv, NEW j \in Jobs, CancelFinish(j)
    PROVE  IInv'
<1> DEFINE s == task[j].stage
           r == job[j]
<1>1. /\ s \in Stages /\ r \in JobRuntimeRecord /\ Len(r.stage_records) = s
      /\ UnderWay(r, s) \/ (Closed(r) /\ r.state = "Error")
    BY JobFacts DEF CancelFinish, Position
<1>2. Len(r.stage_records) \in {s - 1, s} /\ Settled(r, s - 1) /\ r.state \in Active \cup {"Error"}
    <2>1. CASE UnderWay(r, s)
        BY <1>1, <2>1, UnderWayFacts
    <2>2. CASE Closed(r) /\ r.state = "Error"
        BY <1>1, <2>2 DEF Closed
    <2> QED BY <1>1, <2>1, <2>2
<1> QED BY <1>1, <1>2, CloseKeeps DEF CancelFinish, finish_stage_failure

\* request_error_terminalization keeps the invariant.
LEMMA TerminalizeErrorKeeps ==
    ASSUME IInv, NEW j \in Jobs, TerminalizeError(j)
    PROVE  IInv'
<1> DEFINE r == job[j]
<1>1. /\ r \in JobRuntimeRecord /\ task[j].at = "failed"
      /\ Closed(r) \/ (\E k \in Stages : UnderWay(r, k))
    BY JobFacts DEF TerminalizeError, Position
<1>2. CASE \E k \in Stages : UnderWay(r, k)
    <2>1. PICK k \in Stages : UnderWay(r, k)
        BY <1>2
    <2>2. request_error_terminalization(r) = CloseAs(r, k, "Error")
        BY <1>1, <2>1, UnderWayFacts DEF request_error_terminalization
    <2> QED BY <1>1, <2>1, <2>2, UnderWayFacts, CloseKeeps DEF TerminalizeError
<1>3. CASE Closed(r)
    <2>1. request_error_terminalization(r) = r
        BY <1>3 DEF request_error_terminalization, is_terminal, Closed, Terminal
    <2>2. UNCHANGED job
        BY <2>1, JobFacts DEF TerminalizeError, Write
    <2>3. task'[j].at = "returned"
        BY JobFacts DEF TerminalizeError
    <2>4. Position(r, task'[j])
        BY <1>3, <2>3 DEF Position, InStage
    <2>5. Flags(r, task'[j], cancelled_at[j])
        BY <2>3, JobFacts DEF Flags
    <2>6. "returned" \in Calls /\ task[j].stage \in Stages
        BY JobFacts DEF Calls
    <2> QED BY <2>2, <2>4, <2>5, <2>6, GotoKeeps DEF TerminalizeError
<1> QED BY <1>1, <1>2, <1>3

\* request_deadline_terminalization keeps the invariant.
LEMMA TerminalizeDeadlineKeeps ==
    ASSUME IInv, NEW j \in Jobs, TerminalizeDeadline(j)
    PROVE  IInv'
<1> DEFINE r == job[j]
<1>1. /\ r \in JobRuntimeRecord /\ task[j].at = "deadline" /\ task[j].stage \in Stages
      /\ Ordered(r.stage_records) /\ Flags(r, task[j], cancelled_at[j])
      /\ task'[j].at = "returned"
    BY JobFacts DEF TerminalizeDeadline
<1>2. PICK k \in Stages : UnderWay(r, k)
    BY <1>1, JobFacts DEF Position
<1>3. PICK d : d = CloseAs(r, k, "Timeout")
    OBVIOUS
<1>4. /\ d \in JobRuntimeRecord
      /\ Ordered(d.stage_records)
      /\ Closed(d) /\ d.state = "Timeout" /\ Len(d.stage_records) = k
      /\ d.counts = r.counts /\ d.result_ref = r.result_ref
      /\ d.completion_ref = r.completion_ref
      /\ \A i \in 1 .. k - 1 : d.stage_records[i] = r.stage_records[i]
    <2>1. Len(r.stage_records) \in {k - 1, k} /\ Settled(r, k - 1)
        BY <1>1, <1>2, UnderWayFacts
    <2>2. ClosedFrom(r, k, "Timeout", d)
        BY <1>1, <1>3, <2>1, CloseFacts
    <2> QED BY <2>2 DEF ClosedFrom
<1>5. PICK n : n = [d EXCEPT !.cancel_requested = TRUE]
    OBVIOUS
<1>6. Write(j, n)
    <2>1. r.current_stage = k /\ ~is_terminal(r)
        BY <1>1, <1>2, UnderWayFacts
    <2> QED BY <1>3, <1>5, <2>1 DEF TerminalizeDeadline, request_deadline_terminalization
<1>7. /\ n \in JobRuntimeRecord /\ n.state = d.state
      /\ n.stage_records = d.stage_records /\ n.failure_ref = d.failure_ref
      /\ n.completion_ref = d.completion_ref /\ n.counts = d.counts
      /\ n.result_ref = d.result_ref /\ n.cancel_requested
      /\ n.reservation = d.reservation
    BY <1>4, <1>5 DEF JobRuntimeRecord
<1>8. Closed(n)
    BY SMT, <1>4, <1>7 DEF Closed, Settled
<1>9. Position(n, task'[j])
    BY <1>1, <1>8 DEF Position, InStage
<1>10. d.stage_records[k].status = "Failed" /\ d.failure_ref
    BY <1>4 DEF Closed
<1>11. r.state # "Done" /\ Len(r.stage_records) = k
    BY <1>1, <1>2, UnderWayFacts DEF is_terminal, Terminal
<1>12. Flags(n, task'[j], cancelled_at[j])
    BY SMT, <1>1, <1>4, <1>7, <1>10, <1>11 DEF Flags, Stages, Execute,
        RecordKnowledgeObservability, Active
<1>13. "returned" \in Calls
    BY DEF Calls
<1> QED BY <1>1, <1>4, <1>6, <1>7, <1>9, <1>12, <1>13, Frame DEF TerminalizeDeadline

\* The second release of the reservation changes nothing in the record.
LEMMA ReleaseKeeps ==
    ASSUME IInv, NEW j \in Jobs, ReleaseReservation(j)
    PROVE  IInv'
<1> DEFINE r == job[j]
<1>1. /\ r \in JobRuntimeRecord /\ Closed(r) /\ task[j].stage \in Stages
      /\ Ordered(r.stage_records) /\ Flags(r, task[j], cancelled_at[j])
    BY JobFacts DEF ReleaseReservation, Position
<1>2. [r EXCEPT !.reservation = "released"] = r
    BY <1>1 DEF Closed, JobRuntimeRecord
<1>3. UNCHANGED job
    BY <1>2, JobFacts DEF ReleaseReservation, Write
<1>4. PICK next \in {"returned", "failed"} : Goto(j, next, task[j].stage)
    BY DEF ReleaseReservation
<1>5. task'[j].at = next
    BY <1>4, JobFacts
<1>6. Position(r, task'[j])
    BY <1>1, <1>5 DEF Position, InStage
<1>7. Flags(r, task'[j], cancelled_at[j])
    BY <1>1, <1>5 DEF Flags, Closed
<1>8. next \in Calls
    BY DEF Calls
<1> QED BY <1>1, <1>3, <1>4, <1>6, <1>7, <1>8, GotoKeeps DEF ReleaseReservation

\* set_counts and set_qfs_result_ref keep the invariant.
LEMMA StoreKeeps ==
    ASSUME IInv, NEW j \in Jobs, StoreResult(j)
    PROVE  IInv'
<1> DEFINE r == job[j]
           s == task[j].stage
<1>1. /\ r \in JobRuntimeRecord /\ s \in Stages /\ s \in {Execute, Persist} /\ UnderWay(r, s)
      /\ Ordered(r.stage_records) /\ Flags(r, task[j], cancelled_at[j])
      /\ task'[j].at = "finish" /\ task'[j].stage = s
    BY JobFacts DEF StoreResult, Position, InStage
<1>2. PICK n : /\ Write(j, n)
               /\ \/ s = Execute /\ n = [r EXCEPT !.counts = TRUE]
                  \/ s = Persist /\ n = [r EXCEPT !.result_ref = TRUE]
                  \/ s = Persist /\ n = r
    <2>1. CASE UNCHANGED job /\ s = Persist
        BY <2>1, JobFacts DEF Write
    <2> QED BY <2>1 DEF StoreResult
<1>3. /\ n \in JobRuntimeRecord /\ n.state = r.state /\ n.current_stage = r.current_stage
      /\ n.stage_records = r.stage_records /\ n.failure_ref = r.failure_ref
      /\ n.completion_ref = r.completion_ref
      /\ n.cancel_requested = r.cancel_requested
      /\ r.counts => n.counts
      /\ r.result_ref => n.result_ref
      /\ s = Execute => n.counts
    <2>1. CASE s = Execute
        <3>1. n = [r EXCEPT !.counts = TRUE] /\ s # Persist
            BY SMT, <1>2, <2>1 DEF Execute, Persist
        <3>2. /\ n \in JobRuntimeRecord /\ n.state = r.state
              /\ n.current_stage = r.current_stage
              /\ n.stage_records = r.stage_records /\ n.failure_ref = r.failure_ref
              /\ n.completion_ref = r.completion_ref
              /\ n.cancel_requested = r.cancel_requested
              /\ n.counts = TRUE /\ n.result_ref = r.result_ref
            BY <1>1, <3>1 DEF JobRuntimeRecord
        <3> QED BY <3>1, <3>2
    <2>2. CASE s = Persist
        <3>1. (n = r \/ n = [r EXCEPT !.result_ref = TRUE]) /\ s # Execute
            BY SMT, <1>2, <2>2 DEF Execute, Persist
        <3>2. /\ n \in JobRuntimeRecord /\ n.state = r.state
              /\ n.current_stage = r.current_stage
              /\ n.stage_records = r.stage_records /\ n.failure_ref = r.failure_ref
              /\ n.completion_ref = r.completion_ref
              /\ n.cancel_requested = r.cancel_requested
              /\ n.counts = r.counts /\ (r.result_ref => n.result_ref)
            <4>1. CASE n = r
                BY <1>1, <4>1
            <4>2. CASE n = [r EXCEPT !.result_ref = TRUE]
                BY <1>1, <4>2 DEF JobRuntimeRecord
            <4> QED BY <3>1, <4>1, <4>2
        <3> QED BY <3>1, <3>2
    <2> QED BY <1>1, <2>1, <2>2
<1>4. UnderWay(n, s)
    BY <1>1, <1>3 DEF UnderWay
<1>5. Position(n, task'[j])
    BY <1>1, <1>4 DEF Position, InStage
<1>6. r.state # "Done"
    BY <1>1, UnderWayFacts DEF is_terminal, Terminal
<1>7. Flags(n, task'[j], cancelled_at[j])
    BY <1>1, <1>3, <1>6 DEF Flags
<1>8. "finish" \in Calls
    BY DEF Calls
<1> QED BY <1>1, <1>2, <1>3, <1>5, <1>7, <1>8, Frame DEF StoreResult

\* finish_stage_success keeps the invariant, for each kind of stage.
LEMMA FinishKeeps ==
    ASSUME IInv, NEW j \in Jobs, FinishStage(j)
    PROVE  IInv'
<1> DEFINE r == job[j]
           s == task[j].stage
           q == r.stage_records
           m == Mark(r, s, "Succeeded")
           after == next_state_after_success[s]
<1>1. /\ r \in JobRuntimeRecord /\ s \in Stages /\ UnderWay(r, s) /\ task[j].at = "finish"
      /\ Ordered(q) /\ Flags(r, task[j], cancelled_at[j]) /\ q \in Seq(StageRecord)
      /\ Len(q) = s /\ s \in Nat
    <2>1. /\ r \in JobRuntimeRecord /\ s \in Stages /\ UnderWay(r, s) /\ task[j].at = "finish"
          /\ Ordered(q) /\ Flags(r, task[j], cancelled_at[j])
        BY JobFacts DEF FinishStage, Position, InStage
    <2>2. q \in Seq(StageRecord) /\ Len(q) = s /\ s \in Nat
        BY SMT, <2>1 DEF UnderWay, JobRuntimeRecord, Stages
    <2> QED BY <2>1, <2>2
<1>2. /\ m \in Seq(StageRecord) /\ Len(m) = s /\ Ordered(m) /\ m[s].status = "Succeeded"
      /\ \A i \in 1 .. s - 1 : m[i] = q[i]
    <2> HIDE DEF m
    <2>1. s <= Len(q) + 1 /\ s <= Len(q) /\ \A i \in 1 .. s - 1 : i \in 1 .. Len(q) /\ i # s
        BY SMT, <1>1
    <2>2. /\ m \in Seq(StageRecord)
          /\ s <= Len(q) => Len(m) = Len(q)
          /\ Ordered(m)
          /\ m[s].status = "Succeeded"
          /\ \A i \in 1 .. Len(q) : i # s => m[i] = q[i]
        <3>1. /\ r \in JobRuntimeRecord /\ Ordered(r.stage_records) /\ s \in Stages
              /\ m = Mark(r, s, "Succeeded") /\ s <= Len(r.stage_records) + 1
            BY <1>1, <2>1 DEF m
        <3> HIDE DEF r, s, q
        <3>2. Marked(r, s, "Succeeded", m)
            BY <3>1, MarkFacts
        <3> QED BY <3>2 DEF Marked, q
    <2> QED BY <1>1, <2>1, <2>2
<1> HIDE DEF m
<1>3. Succeeded(m, s)
    BY SMT, <1>1, <1>2 DEF Succeeded, UnderWay
<1>4. after \in Active \cup {"Done"} /\ (after = "Done" <=> s = Finalize)
    BY SMT, <1>1, ShownFacts DEF Stages, Finalize, Active, Terminal
<1> HIDE DEF after
<1>5. PICK n : Write(j, n) /\ n = [r EXCEPT !.stage_records = m, !.state = after,
                                          !.completion_ref = @ \/ after = "Done"]
    BY DEF FinishStage, finish_stage_success, m, after
<1>6. ~r.completion_ref /\ ~r.failure_ref /\ r.state \in Active
    BY <1>1, UnderWayFacts DEF Flags, is_terminal, Terminal, Active
<1>7. /\ n \in JobRuntimeRecord /\ n.state = after /\ n.stage_records = m
      /\ n.failure_ref = r.failure_ref /\ n.cancel_requested = r.cancel_requested
      /\ n.counts = r.counts /\ n.result_ref = r.result_ref
      /\ n.completion_ref <=> after = "Done"
    BY <1>1, <1>2, <1>4, <1>5, <1>6 DEF JobRuntimeRecord, Terminal
<1>8. ASSUME NEW t, t.at # "finish", n.state = "Done" => t.at = "returned"
      PROVE  Flags(n, t, cancelled_at[j])
    <2>1. /\ n.completion_ref <=> n.state = "Done"
          /\ n.failure_ref <=> n.state \in {"Error", "Cancelled", "Timeout"}
          /\ n.state \in Active \cup {"Error"} /\ n.cancel_requested => cancelled_at[j] # None
        BY <1>1, <1>4, <1>6, <1>7 DEF Flags, Active
    <2>2. Len(m) >= Execute /\ m[Execute].status = "Succeeded" => n.counts
        BY SMT, <1>1, <1>2, <1>7 DEF Flags, Execute
    <2>3. Len(m) >= RecordKnowledgeObservability
          /\ m[RecordKnowledgeObservability].status # "Failed" => n.result_ref
        <3>1. q[s].status = "Running"
            BY <1>1 DEF UnderWay
        <3> QED BY SMT, <1>1, <1>2, <1>7, <3>1 DEF Flags, RecordKnowledgeObservability
    <2>4. n.state = "Done" => t.at = "returned" /\ Len(m) = Finalize /\ Succeeded(m, Finalize)
        BY <1>2, <1>3, <1>4, <1>7, <1>8
    <2> QED BY <1>7, <1>8, <2>1, <2>2, <2>3, <2>4 DEF Flags
<1>9. CASE s <= Schedule /\ Goto(j, "set_state", s)
    <2>1. task'[j].at = "set_state" /\ task'[j].stage = s /\ s \in 1 .. 4
        BY SMT, <1>1, <1>9, JobFacts DEF Schedule, Stages
    <2>2. Position(n, task'[j])
        BY <1>2, <1>3, <1>7, <2>1 DEF Position, InStage, after
    <2>3. Flags(n, task'[j], cancelled_at[j])
        BY SMT, <1>4, <1>7, <1>8, <2>1 DEF Finalize
    <2>4. "set_state" \in Calls
        BY DEF Calls
    <2> QED BY <1>1, <1>2, <1>5, <1>7, <1>9, <2>2, <2>3, <2>4, Frame DEF FinishStage
<1>10. CASE s \in {Execute, Persist} /\ Goto(j, "recheck", s)
    <2>1. task'[j].at = "recheck" /\ task'[j].stage = s /\ s \in 5 .. 6
        BY SMT, <1>1, <1>10, JobFacts DEF Execute, Persist
    <2>2. after = Shown(s + 1) /\ s \in 1 .. 6
        BY SMT, <1>1, <2>1, ShownFacts DEF after
    <2>3. Position(n, task'[j])
        BY <1>2, <1>3, <1>7, <2>1, <2>2 DEF Position, InStage
    <2>4. Flags(n, task'[j], cancelled_at[j])
        BY SMT, <1>4, <1>7, <1>8, <2>1 DEF Finalize
    <2>5. "recheck" \in Calls
        BY DEF Calls
    <2> QED BY <1>1, <1>2, <1>5, <1>7, <1>10, <2>3, <2>4, <2>5, Frame DEF FinishStage
<1>11. CASE s = RecordKnowledgeObservability /\ Goto(j, "begin", Finalize)
    <2>1. task'[j].at = "begin" /\ task'[j].stage = 8 /\ s = 7 /\ Goto(j, "begin", 8)
        BY <1>11, JobFacts DEF RecordKnowledgeObservability, Finalize
    <2>2. after = Shown(8)
        BY SMT, <1>1, <2>1, ShownFacts DEF after
    <2>3. Position(n, task'[j])
        <3>1. /\ Len(n.stage_records) = task'[j].stage - 1
              /\ Succeeded(n.stage_records, Len(n.stage_records))
              /\ n.state = Shown(task'[j].stage)
            <4>1. Len(m) = 7 /\ Succeeded(m, 7)
                BY <1>2, <1>3, <2>1
            <4>2. n.stage_records = m /\ n.state = Shown(8)
                BY <1>7, <2>2
            <4>3. task'[j].stage = 8 /\ 8 - 1 = 7
                BY SMT, <2>1
            <4> QED BY <4>1, <4>2, <4>3
        <3> QED BY <2>1, <3>1 DEF Position, InStage
    <2>4. Flags(n, task'[j], cancelled_at[j])
        BY SMT, <1>4, <1>7, <1>8, <2>1 DEF Finalize
    <2>5. "begin" \in Calls /\ 8 \in Stages
        BY SMT DEF Calls, Stages
    <2> QED BY ZenonT(30), <1>1, <1>2, <1>5, <1>7, <2>1, <2>3, <2>4, <2>5, Frame DEF FinishStage
<1>12. CASE s = Finalize /\ Goto(j, "returned", s)
    <2>1. task'[j].at = "returned" /\ task'[j].stage = s /\ n.state = "Done"
        BY <1>4, <1>7, <1>12, JobFacts
    <2>2. Position(n, task'[j])
        BY <2>1 DEF Position, InStage
    <2>3. Flags(n, task'[j], cancelled_at[j])
        BY <1>8, <2>1
    <2>4. "returned" \in Calls
        BY DEF Calls
    <2> QED BY <1>1, <1>2, <1>5, <1>7, <1>12, <2>2, <2>3, <2>4, Frame DEF FinishStage
<1> QED BY <1>9, <1>10, <1>11, <1>12 DEF FinishStage

\* set_state, after one of the first four stages, keeps the invariant.
LEMMA SetStateKeeps ==
    ASSUME IInv, NEW j \in Jobs, set_state(j)
    PROVE  IInv'
<1> DEFINE r == job[j]
           s == task[j].stage
           q == r.stage_records
           shown == Shown(s + 1)
<1>1. /\ r \in JobRuntimeRecord /\ s \in 1 .. 4 /\ Len(q) = s /\ Succeeded(q, s)
      /\ r.state = next_state_after_success[s]
      /\ Ordered(q) /\ Flags(r, task[j], cancelled_at[j])
      /\ task'[j].at = "recheck" /\ task'[j].stage = s
    BY JobFacts DEF set_state, Position
<1>2. s \in Stages /\ s + 1 \in Stages /\ s < Finalize
    BY SMT, <1>1 DEF Stages, Finalize
<1>3. stage_state[s + 1] = shown /\ shown \in Active /\ r.state \in Active
    BY <1>1, <1>2, ShownFacts
<1> HIDE DEF shown
<1>4. PICK n : Write(j, n) /\ n = [r EXCEPT !.state = shown]
    BY <1>3 DEF set_state
<1>5. /\ n \in JobRuntimeRecord /\ n.state = shown /\ n.stage_records = q
      /\ n.failure_ref = r.failure_ref /\ n.completion_ref = r.completion_ref
      /\ n.counts = r.counts /\ n.result_ref = r.result_ref
      /\ n.cancel_requested = r.cancel_requested
    BY <1>1, <1>3, <1>4 DEF JobRuntimeRecord
<1>6. s \in 1 .. 6
    BY SMT, <1>1
<1>7. Position(n, task'[j])
    BY <1>1, <1>5, <1>6 DEF Position, InStage, shown
<1>8. Flags(n, task'[j], cancelled_at[j])
    BY <1>1, <1>3, <1>5 DEF Flags, Active
<1>9. "recheck" \in Calls
    BY DEF Calls
<1> QED BY <1>1, <1>2, <1>4, <1>5, <1>7, <1>8, <1>9, Frame DEF set_state

\* cancel_after_stage's begin_stage keeps the invariant.
LEMMA CancelBeginKeeps ==
    ASSUME IInv, NEW j \in Jobs, CancelBegin(j)
    PROVE  IInv'
<1> DEFINE r == job[j]
           s == task[j].stage
           q == r.stage_records
<1>1. /\ r \in JobRuntimeRecord /\ s \in Stages /\ Ordered(q)
      /\ Flags(r, task[j], cancelled_at[j]) /\ r.cancel_requested
      /\ \/ UnderWay(r, s)
         \/ s = 2 /\ UnderWay(r, 1)
         \/ Len(q) = s - 1 /\ Succeeded(q, Len(q)) /\ r.state = Shown(s)
      /\ task'[j].at = "cancel_finish" /\ task'[j].stage = s
    BY JobFacts DEF CancelBegin, Position
<1>2. /\ r \in JobRuntimeRecord /\ s \in Stages /\ Ordered(q)
      /\ q \in Seq(StageRecord) /\ Len(q) \in Nat /\ s \in Nat /\ s >= 1
    BY SMT, <1>1 DEF JobRuntimeRecord, Stages
<1>3. "cancel_finish" \in Calls /\ task'[j].at = "cancel_finish"
    BY <1>1 DEF Calls
<1>4. PICK n : n = begin_stage(r, s, FALSE) /\ Write(j, n)
    BY DEF CancelBegin
<1>5. CASE UnderWay(r, s)
    <2>1. ~is_terminal(r) /\ Len(q) = s /\ r.current_stage = s
        BY <1>1, <1>5, UnderWayFacts
    <2>2. HasRecord(r, s)
        BY SMT, <1>2, <2>1 DEF HasRecord, Ordered
    <2>3. n = r
        BY <1>1, <1>4, <2>1, <2>2 DEF begin_stage, JobRuntimeRecord
    <2>4. Position(r, task'[j])
        BY <1>1, <1>5, <2>1 DEF Position, InStage
    <2>5. Flags(r, task'[j], cancelled_at[j])
        BY <1>1, <2>1 DEF Flags, is_terminal, Terminal
    <2> QED BY <1>1, <1>3, <1>4, <2>3, <2>4, <2>5, Frame DEF CancelBegin
<1>6. CASE (s = 2 /\ UnderWay(r, 1)) \/ (Len(q) = s - 1 /\ Succeeded(q, Len(q)) /\ r.state = Shown(s))
    <2>1. ~is_terminal(r) /\ Len(q) = s - 1 /\ Settled(r, s - 1) /\ r.state \in Active
        <3>1. CASE s = 2 /\ UnderWay(r, 1)
            <4>1. 1 \in Stages
                BY SMT DEF Stages
            <4>2. Len(q) = 1 /\ ~is_terminal(r) /\ r.state \in Active /\ q[1].status = "Running"
                BY <1>1, <3>1, <4>1, UnderWayFacts, ShownFacts DEF UnderWay
            <4>3. \A i \in 1 .. s - 1 : i = 1
                BY SMT, <3>1
            <4> QED BY SMT, <1>1, <3>1, <4>2, <4>3 DEF Settled
        <3>2. CASE Len(q) = s - 1 /\ Succeeded(q, Len(q)) /\ r.state = Shown(s)
            BY <1>1, <3>2, ShownFacts DEF is_terminal, Settled, Succeeded
        <3> QED BY <1>6, <3>1, <3>2
    <2>2. ~HasRecord(r, s)
        BY SMT, <1>2, <2>1 DEF HasRecord, Ordered
    <2>3. PICK d : d = CloseAs(r, s, "Error")
        OBVIOUS
    <2>4. n = [d EXCEPT !.current_stage = s]
        BY <1>4, <2>1, <2>2, <2>3 DEF begin_stage
    <2>5. Len(q) \in {s - 1, s}
        BY <2>1
    <2>6. /\ d \in JobRuntimeRecord
          /\ Ordered(d.stage_records)
          /\ Closed(d) /\ d.state = "Error" /\ Len(d.stage_records) = s
          /\ d.cancel_requested = r.cancel_requested
          /\ d.counts = r.counts /\ d.result_ref = r.result_ref
          /\ d.completion_ref = r.completion_ref
          /\ \A i \in 1 .. s - 1 : d.stage_records[i] = q[i]
        <3>1. ClosedFrom(r, s, "Error", d)
            BY <1>2, <2>1, <2>3, <2>5, CloseFacts
        <3> QED BY <3>1 DEF ClosedFrom
    <2>7. /\ n \in JobRuntimeRecord /\ n.state = d.state
          /\ n.stage_records = d.stage_records /\ n.failure_ref = d.failure_ref
          /\ n.completion_ref = d.completion_ref /\ n.counts = d.counts
          /\ n.result_ref = d.result_ref /\ n.cancel_requested = d.cancel_requested
          /\ n.reservation = d.reservation
        BY <1>1, <2>4, <2>6 DEF JobRuntimeRecord
    <2>8. Closed(n)
        BY SMT, <2>6, <2>7 DEF Closed, Settled
    <2>9. Position(n, task'[j])
        BY <1>1, <2>6, <2>7, <2>8 DEF Position, InStage
    <2>10. d.stage_records[s].status = "Failed" /\ d.failure_ref
        BY <2>6 DEF Closed
    <2>11. Flags(n, task'[j], cancelled_at[j])
        <3>1. /\ n.cancel_requested = r.cancel_requested /\ n.counts = r.counts
              /\ n.result_ref = r.result_ref /\ n.completion_ref = r.completion_ref
              /\ Len(n.stage_records) = s /\ r.state \in Active \cup {"Error"}
              /\ \A i \in 1 .. s - 1 : n.stage_records[i] = r.stage_records[i]
              /\ task'[j].at # "finish"
            BY <1>3, <2>1, <2>6, <2>7
        <3> QED BY <1>1, <2>5, <2>8, <3>1, ClosedFlags
    <2> QED BY <1>1, <1>3, <1>4, <2>6, <2>7, <2>9, <2>11, Frame DEF CancelBegin
<1> QED BY <1>1, <1>5, <1>6

\* The invariant holds when no job has been submitted.
LEMMA InitEstablishes == Init => IInv
<1> SUFFICES ASSUME Init PROVE IInv
    OBVIOUS
<1> DEFINE r == [NewJob EXCEPT !.state = "Absent"]
<1>1. /\ r \in JobRuntimeRecord /\ r.stage_records = <<>> /\ r.state = "Absent"
      /\ ~r.completion_ref /\ ~r.failure_ref /\ ~r.cancel_requested
    <2>1. NewJob \in JobRuntimeRecord
        <3>1. <<>> \in Seq(StageRecord) /\ <<>> \in Seq(BOOLEAN)
            BY SMT
        <3> QED BY SMT, <3>1 DEF NewJob, JobRuntimeRecord, Active, Stages, ValidateEnqueue
    <2>2. r \in JobRuntimeRecord
        BY <2>1 DEF JobRuntimeRecord
    <2>3. /\ r.stage_records = <<>> /\ r.state = "Absent"
          /\ ~r.completion_ref /\ ~r.failure_ref /\ ~r.cancel_requested
        BY DEF NewJob
    <2> QED BY <2>2, <2>3
<1> HIDE DEF r
<1>2. TypeOK
    BY SMT, <1>1 DEF Init, TypeOK, Calls, Stages, ValidateEnqueue, r
<1>3. ASSUME NEW j \in Jobs PROVE Good(job[j], task[j], cancelled_at[j])
    <2>1. job[j] = r /\ task[j].at = "unspawned"
        BY DEF Init, r
    <2>2. Ordered(r.stage_records) /\ Len(r.stage_records) = 0
        BY SMT, <1>1 DEF Ordered
    <2>3. Position(r, task[j])
        BY <1>1, <2>1, <2>2 DEF Position, InStage
    <2>4. Flags(r, task[j], cancelled_at[j])
        BY SMT, <1>1, <2>1, <2>2 DEF Flags, Execute, RecordKnowledgeObservability
    <2> QED BY <2>1, <2>2, <2>3, <2>4 DEF Good
<1> QED BY <1>2, <1>3 DEF IInv

\* Every step keeps the invariant.
LEMMA NextPreserves == IInv /\ [Next]_vars => IInv'
<1> SUFFICES ASSUME IInv, [Next]_vars PROVE IInv'
    OBVIOUS
<1>1. CASE UNCHANGED vars
    BY <1>1 DEF vars, IInv, TypeOK, Good
<1>2. ASSUME NEW j \in Jobs,
             enqueue_job(j) \/ cancel_job(j) \/ DeadlinePasses(j) \/ run_job_dag(j)
      PROVE  IInv'
    BY <1>2, EnqueueKeeps, CancelKeeps, DeadlinePassesKeeps, SweepKeeps, BeginKeeps,
       AdapterKeeps, SimulateKeeps, AttemptKeeps, ExecuteFailureKeeps, CheckKeeps, StoreKeeps,
       FinishKeeps, SetStateKeeps, RecheckKeeps, TerminalizeKeeps, CancelBeginKeeps,
       CancelFinishKeeps, ReleaseKeeps, TerminalizeDeadlineKeeps, TerminalizeErrorKeeps
       DEF run_job_dag
<1> QED BY <1>1, <1>2 DEF Next

\* The inductive invariant holds in every reachable state of the orchestration.
THEOREM InvariantHolds == Spec => []IInv
BY InitEstablishes, NextPreserves, PTL DEF Spec
=============================================================================
