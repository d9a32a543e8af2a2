------------------------------ MODULE JobGateway ------------------------------
(***************************************************************************)
(* JobService.SubmitJob of the System API (system_api/grpc_impl.py) in     *)
(* front of the kernel gateway, with its idempotency records and the       *)
(* restart of the process. A call takes the service lock twice, around the *)
(* look-up and around the record, and calls the kernel in between without  *)
(* it.                                                                     *)
(*                                                                         *)
(* A request is its fields: via says where the idempotency key travels     *)
(* ("envelope", "metadata" or "none"), rid is the request id and body      *)
(* stands for name, target, program, options and metadata. Authentication, *)
(* the payload limits and the response texts are left out.                 *)
(***************************************************************************)
EXTENDS Integers, FiniteSets

CONSTANTS Calls,        \* SubmitJob calls, each on a thread of the server
          Request,      \* the request each call carries
          Batches,      \* the sets of calls that one behaviour makes
          Ttl,          \* SYSTEM_API_IDEMPOTENCY_TTL_SECONDS
          MaxClock, MaxFaults

ASSUME JobGatewayAssumption ==
    /\ Ttl \in Nat \ {0} /\ MaxClock \in Nat /\ MaxFaults \in Nat
    /\ \A c \in Calls : Request[c].via \in {"envelope", "metadata", "none"}

VARIABLES clock,         \* time.time()
          faults,        \* crashes, failed writes and lost answers so far
          idempotency,   \* self._idempotency
          records_file,  \* the file at _idempotency_store_path
          submit,        \* where each SubmitJob call stands
          kernel_jobs,   \* the kernel's jobs: id -> its request
          raced,         \* keys looked up while another call on them was open
          orphaned,      \* keys with a job whose record was lost or has expired
          unsaved        \* keys recorded in memory only, after a failed write

gatewayVars == <<clock, faults, idempotency, records_file, submit, kernel_jobs,
                 raced, orphaned, unsaved>>
recordVars == <<idempotency, records_file, raced, orphaned, unsaved>>

NoJob == <<"none", 0>>

\* The fingerprint covers every field of the request, the request id included.
RequestFingerprint(c) == Request[c]

\* (key, explicit) of SubmitJob: without an explicit key the fingerprint.
IdempotencyKey(c) ==
    IF Request[c].via # "none" THEN <<"explicit", Request[c].key>>
                               ELSE <<"fingerprint", RequestFingerprint(c)>>

\* _sweep_expired_idempotency, and what _load_idempotency_records keeps.
Live(records, now) ==
    [k \in {k \in DOMAIN records : records[k].expires > now} |-> records[k]]

Lost(before, after) == DOMAIN before \ DOMAIN after

Answer(kind, job) == [pc |-> "done", kind |-> kind, job |-> job]
At(pc, job) == [pc |-> pc, kind |-> "none", job |-> job]
InFlight(c) == submit[c].pc \in {"enqueue", "record"}

\* The job id the kernel gives a submission: fresh when the envelope carries a
\* key, otherwise the fingerprint of the submission.
KernelJobId(c) ==
    IF Request[c].via = "envelope" THEN <<"uuid", Cardinality(DOMAIN kernel_jobs)>>
                                   ELSE <<"fingerprint", Request[c]>>

\* create_or_get_job.
CreateOrGetJob(c) ==
    LET id == KernelJobId(c)
    IN  IF id \in DOMAIN kernel_jobs THEN kernel_jobs
        ELSE [j \in DOMAIN kernel_jobs \cup {id} |->
                IF j = id THEN Request[c] ELSE kernel_jobs[j]]

\* The calls of batch are about to be made.
GatewayInit(batch) ==
    /\ clock = 0 /\ faults = 0
    /\ idempotency = <<>> /\ records_file = <<>>
    /\ submit = [c \in Calls |-> IF c \in batch THEN At("idle", NoJob)
                                               ELSE Answer("unsent", NoJob)]
    /\ kernel_jobs = <<>>
    /\ raced = {} /\ orphaned = {} /\ unsaved = {}

\* A write of the records file: it succeeds, or it fails once more.
\* ok is FALSE only when a fault is left.
Write(ok, records) ==
    /\ ok \/ faults < MaxFaults
    /\ faults' = IF ok THEN faults ELSE faults + 1
    /\ records_file' = IF ok THEN records ELSE records_file

\* First locked section of SubmitJob: sweep, look up, and decide between
\* conflict, replay and a new submission. A failed write of the sweep ends
\* the call with an error after the memory was swept.
SubmitLookup(c) ==
    LET live == Live(idempotency, clock)
        key  == IdempotencyKey(c)
        next == CASE key \notin DOMAIN live -> At("enqueue", NoJob)
                  [] key \in DOMAIN live /\ live[key].fingerprint # RequestFingerprint(c) ->
                         Answer("conflict", live[key].job)
                  [] OTHER -> At("replay", live[key].job)
    IN  /\ submit[c].pc = "idle"
        /\ idempotency' = live
        /\ orphaned' = orphaned \cup Lost(idempotency, live)
        /\ \E ok \in BOOLEAN :
              /\ IF live = idempotency
                 THEN ok /\ UNCHANGED <<faults, records_file, unsaved>>
                 ELSE /\ Write(ok, live)
                      /\ unsaved' = IF ok THEN {} ELSE unsaved
              /\ submit' = [submit EXCEPT ![c] = IF ok THEN next ELSE Answer("error", NoJob)]
              /\ raced' = IF ok /\ next.pc = "enqueue" /\ \E d \in Calls \ {c} :
                                InFlight(d) /\ IdempotencyKey(d) = key
                          THEN raced \cup {key} ELSE raced
        /\ UNCHANGED <<clock, kernel_jobs>>

\* The replay asks the kernel for the recorded job's status.
SubmitReplay(c) ==
    /\ submit[c].pc = "replay"
    /\ \/ /\ submit' = [submit EXCEPT ![c] = Answer("replayed", submit[c].job)]
          /\ UNCHANGED faults
       \/ /\ faults < MaxFaults
          /\ faults' = faults + 1
          /\ submit' = [submit EXCEPT ![c] = Answer("error", NoJob)]
    /\ UNCHANGED <<clock, recordVars, kernel_jobs>>

\* enqueue_job, outside the lock: answered, refused by the kernel or the
\* channel, or carried out with its answer lost.
SubmitEnqueue(c) ==
    /\ submit[c].pc = "enqueue"
    /\ \/ /\ kernel_jobs' = CreateOrGetJob(c)
          /\ submit' = [submit EXCEPT ![c] = At("record", KernelJobId(c))]
          /\ UNCHANGED <<faults, orphaned>>
       \/ /\ faults < MaxFaults
          /\ faults' = faults + 1
          /\ submit' = [submit EXCEPT ![c] = Answer("error", NoJob)]
          /\ \/ UNCHANGED <<kernel_jobs, orphaned>>
             \/ /\ kernel_jobs' = CreateOrGetJob(c)
                /\ orphaned' = orphaned \cup {IdempotencyKey(c)}
    /\ UNCHANGED <<clock, idempotency, records_file, raced, unsaved>>

NewRecord(c) == [job         |-> submit[c].job,
                 fingerprint |-> RequestFingerprint(c),
                 expires     |-> clock + Ttl]

\* Mutant of Recorded: the record replaces the whole table.
RecordedAlone(c) == [k \in {IdempotencyKey(c)} |-> NewRecord(c)]

\* The table with the call's record, which replaces any other of its key.
Recorded(c) ==
    [k \in DOMAIN idempotency \cup {IdempotencyKey(c)} |->
        IF k = IdempotencyKey(c) THEN NewRecord(c) ELSE idempotency[k]]

\* Second locked section: record, save, answer.
SubmitRecord(c) ==
    /\ submit[c].pc = "record"
    /\ idempotency' = Recorded(c)
    /\ \E ok \in BOOLEAN :
          /\ Write(ok, Recorded(c))
          /\ unsaved' = IF ok THEN {} ELSE unsaved \cup {IdempotencyKey(c)}
          /\ submit' = [submit EXCEPT ![c] = IF ok THEN Answer("accepted", submit[c].job)
                                                   ELSE Answer("error", NoJob)]
    /\ UNCHANGED <<clock, kernel_jobs, raced, orphaned>>

\* The process dies and starts again: open calls are lost, the records are
\* read back from the file.
Restart ==
    LET loaded == Live(records_file, clock)
    IN  /\ faults < MaxFaults
        /\ faults' = faults + 1
        /\ idempotency' = loaded
        /\ orphaned' = orphaned \cup unsaved \cup Lost(idempotency, Live(idempotency, clock))
                       \cup {IdempotencyKey(c) : c \in {d \in Calls : submit[d].pc = "record"}}
        /\ unsaved' = {}
        /\ submit' = [c \in Calls |-> IF submit[c].pc \in {"idle", "done"} THEN submit[c]
                                      ELSE Answer("lost", NoJob)]
        /\ UNCHANGED <<clock, records_file, kernel_jobs, raced>>

Tick ==
    /\ clock < MaxClock
    /\ clock' = clock + 1
    /\ UNCHANGED <<faults, recordVars, submit, kernel_jobs>>

SubmitNext ==
    \/ \E c \in Calls : SubmitLookup(c) \/ SubmitReplay(c) \/ SubmitEnqueue(c) \/ SubmitRecord(c)
    \/ Restart \/ Tick

GatewaySpec == (\E batch \in Batches : GatewayInit(batch)) /\ [][SubmitNext]_gatewayVars
-----------------------------------------------------------------------------
Answered(c) == submit[c].kind \in {"accepted", "replayed"}

\* Two SubmitJob calls with the same request are answered with the same job,
\* across restarts and failed writes. The only exceptions are keys of the
\* envelope, for which the kernel creates a job per call: two of their calls
\* were open at once, or the record of the first was lost or has expired.
SameRequestSameJob ==
    \A c, d \in Calls :
        (Answered(c) /\ Answered(d) /\ Request[c] = Request[d] /\ submit[c].job # submit[d].job)
            => /\ Request[c].via = "envelope"
               /\ IdempotencyKey(c) \in raced \cup orphaned

\* A job runs for a client that was never told its id only if a fault hit the
\* submission: without faults every kernel job is named by an answer or is
\* about to be.
NoSilentJob ==
    faults = 0 => \A j \in DOMAIN kernel_jobs :
                     \E c \in Calls : submit[c].job = j /\ submit[c].pc \in {"record", "done"}

\* A record that has not expired stays and keeps its
\* job: it changes only when two calls on its key were open at once, and a
\* restart drops it only if its write had failed.
LiveRecordKept ==
    [][\A k \in DOMAIN idempotency :
          idempotency[k].expires > clock =>
              \/ k \in DOMAIN idempotency' /\ idempotency'[k].job = idempotency[k].job
              \/ k \in raced
              \/ k \in orphaned']_gatewayVars

\* SubmitJob over concurrent calls, retries, a failing kernel and a lost cache:
\* equal requests get one job, no job runs that no caller can learn of by
\* retrying, and a live idempotency record is kept.
SubmissionsSound == []SameRequestSameJob /\ []NoSilentJob /\ LiveRecordKept
=============================================================================
