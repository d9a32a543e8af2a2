---------------------------- MODULE Services_proofs ----------------------------
(***************************************************************************)
(* TLAPS proofs about the System API and the driver manager, which         *)
(* MCServices runs on small instances: SubmitJob, the job streams, the     *)
(* device reservations, the driver registry and ExecuteCircuit. Each has   *)
(* its own specification, inductive invariant and theorem, for every value *)
(* of its constants.                                                       *)
(***************************************************************************)
EXTENDS JobGateway, JobStreams, DeviceReservations, DriverRegistry, DriverExecution, TLAPS

\* The leaves are proved by Zenon but for those that cite another prover.
USE Zenon

(****************************************************************************)
(* SubmitJob.                                                              *)
(****************************************************************************)
\* A call that answers, or is about to answer, with the job of a record.
Named(c) == submit[c].pc = "replay" \/ Answered(c)

\* A call that is not over has no answer yet.
GatewayType ==
    /\ DOMAIN submit = Calls
    /\ \A c \in Calls : submit[c].pc # "done" => submit[c].kind = "none"
    /\ clock \in Nat /\ faults \in Nat

\* A key that was neither raced nor orphaned is in the hands of one call, or its
\* record names the job of every call that was answered.
Settled ==
    \A c \in Calls :
        LET key == IdempotencyKey(c) IN
        key \notin raced \cup orphaned =>
            /\ InFlight(c) => key \notin DOMAIN idempotency
            /\ Named(c) => key \in DOMAIN idempotency /\ idempotency[key].job = submit[c].job
            /\ \A d \in Calls : InFlight(c) /\ InFlight(d) /\ IdempotencyKey(d) = key => c = d

\* Without a key of the envelope the kernel derives the job from the request.
Derived(request, job) == request.via # "envelope" => job = <<"fingerprint", request>>

\* So the job of every such record, in memory and in the file, and of every call
\* is a function of its request.
DerivedJobs ==
    /\ \A k \in DOMAIN idempotency : Derived(idempotency[k].fingerprint, idempotency[k].job)
    /\ \A k \in DOMAIN records_file : Derived(records_file[k].fingerprint, records_file[k].job)
    /\ \A c \in Calls : submit[c].pc = "record" \/ Named(c) => Derived(Request[c], submit[c].job)

\* A record that is not marked unsaved is in the file as it is in memory.
Saved ==
    \A k \in DOMAIN idempotency \ unsaved :
        k \in DOMAIN records_file /\ records_file[k] = idempotency[k]

\* The inductive invariant of SubmitJob.
GatewayInv == GatewayType /\ Settled /\ DerivedJobs /\ Saved /\ NoSilentJob

\* Sweeping keeps the records that have not expired as they are.
LEMMA LiveFacts ==
    ASSUME NEW records, NEW moment
    PROVE  /\ DOMAIN Live(records, moment) \subseteq DOMAIN records
           /\ \A k \in DOMAIN Live(records, moment) : Live(records, moment)[k] = records[k]
           /\ \A k \in DOMAIN records : records[k].expires > moment => k \in DOMAIN Live(records, moment)
           /\ \A k \in DOMAIN Live(records, moment) : records[k].expires > moment
  BY DEF Live

\* No record, no job, no answer at the start.
LEMMA GatewayBegins == (\E batch \in Batches : GatewayInit(batch)) => GatewayInv
  <1> SUFFICES ASSUME NEW batch \in Batches, GatewayInit(batch) PROVE GatewayInv
    OBVIOUS
  <1>1. /\ DOMAIN submit = Calls
        /\ \A c \in Calls : submit[c] \in {At("idle", NoJob), Answer("unsent", NoJob)}
    BY DEF GatewayInit
  <1>2. \A c \in Calls : ~InFlight(c) /\ ~Named(c) /\ submit[c].pc # "record"
                         /\ (submit[c].pc # "done" => submit[c].kind = "none")
    BY SMT, <1>1 DEF InFlight, Named, Answered, At, Answer
  <1>3. DOMAIN idempotency = {} /\ DOMAIN records_file = {} /\ DOMAIN kernel_jobs = {}
    BY SMT DEF GatewayInit
  <1> QED BY <1>1, <1>2, <1>3 DEF GatewayInit, GatewayInv, GatewayType, Settled, DerivedJobs, Saved, NoSilentJob

\* The first locked section: a record that is swept orphans its key, and a call
\* goes on to the kernel only where no record is left.
LEMMA LookupKeeps ==
    ASSUME GatewayInv, NEW c \in Calls, SubmitLookup(c)
    PROVE  GatewayInv'
  <1> DEFINE live == Live(idempotency, clock)
             key == IdempotencyKey(c)
             next == CASE key \notin DOMAIN live -> At("enqueue", NoJob)
                  [] key \in DOMAIN live /\ live[key].fingerprint # RequestFingerprint(c) ->
                         Answer("conflict", live[key].job)
                  [] OTHER -> At("replay", live[key].job)
  <1>1. PICK ok \in BOOLEAN :
              /\ IF live = idempotency
                 THEN ok /\ UNCHANGED <<faults, records_file, unsaved>>
                 ELSE /\ Write(ok, live)
                      /\ unsaved' = IF ok THEN {} ELSE unsaved
              /\ submit' = [submit EXCEPT ![c] = IF ok THEN next ELSE Answer("error", NoJob)]
              /\ raced' = IF ok /\ next.pc = "enqueue" /\ \E d \in Calls \ {c} :
                                InFlight(d) /\ IdempotencyKey(d) = key
                          THEN raced \cup {key} ELSE raced
    BY DEF SubmitLookup
  <1>2. /\ submit[c].pc = "idle" /\ idempotency' = live
        /\ orphaned' = orphaned \cup Lost(idempotency, live)
        /\ UNCHANGED <<clock, kernel_jobs>>
    BY DEF SubmitLookup
  <1>3. /\ DOMAIN live \subseteq DOMAIN idempotency
        /\ \A k \in DOMAIN live : live[k] = idempotency[k]
    BY LiveFacts
  <1> HIDE DEF live
  <1>4. \/ next = At("enqueue", NoJob) /\ key \notin DOMAIN live
        \/ next = Answer("conflict", live[key].job)
        \/ /\ next = At("replay", live[key].job) /\ key \in DOMAIN live
           /\ live[key].fingerprint = Request[c]
    BY DEF RequestFingerprint
  <1> HIDE DEF next
  <1>5. /\ DOMAIN submit' = Calls /\ \A d \in Calls \ {c} : submit'[d] = submit[d]
        /\ submit'[c] = IF ok THEN next ELSE Answer("error", NoJob)
    BY <1>1 DEF GatewayInv, GatewayType
  <1>6. /\ records_file' = records_file \/ records_file' = live
        /\ faults' \in Nat /\ (faults' = 0 => faults = 0)
    BY SMT, <1>1 DEF Write, GatewayInv, GatewayType
  <1>7. /\ InFlight(c)' => next = At("enqueue", NoJob) /\ ok /\ key \notin DOMAIN live
        /\ Named(c)' => /\ key \in DOMAIN live /\ submit'[c].job = live[key].job
                        /\ live[key].fingerprint = Request[c] /\ ok
        /\ submit'[c].pc # "record"
        /\ submit'[c].pc # "done" => submit'[c].kind = "none"
    BY SMT, <1>4, <1>5 DEF InFlight, Named, Answered, At, Answer
  <1>8. \A d \in Calls \ {c} : InFlight(d)' = InFlight(d) /\ Named(d)' = Named(d)
    BY <1>5 DEF InFlight, Named, Answered
  <1>9. ~InFlight(c) /\ ~Named(c)
    BY <1>2 DEF InFlight, Named, Answered, GatewayInv, GatewayType
  <1>10. GatewayType'
    BY <1>2, <1>5, <1>6, <1>7 DEF GatewayInv, GatewayType
  <1>11. Settled'
    <2> SUFFICES ASSUME NEW d \in Calls, IdempotencyKey(d) \notin raced' \cup orphaned'
                 PROVE  /\ InFlight(d)' => IdempotencyKey(d) \notin DOMAIN live
                        /\ Named(d)' => /\ IdempotencyKey(d) \in DOMAIN live
                                        /\ live[IdempotencyKey(d)].job = submit'[d].job
                        /\ \A e \in Calls : InFlight(d)' /\ InFlight(e)'
                                               /\ IdempotencyKey(e) = IdempotencyKey(d) => d = e
      BY <1>2 DEF Settled, IdempotencyKey, RequestFingerprint
    <2>1. /\ IdempotencyKey(d) \notin raced \cup orphaned
          /\ IdempotencyKey(d) \in DOMAIN idempotency => IdempotencyKey(d) \in DOMAIN live
      BY <1>1, <1>2 DEF Lost
    <2>2. CASE d = c
      <3>1. ASSUME NEW e \in Calls, InFlight(c)', InFlight(e)', IdempotencyKey(e) = key, e # c
            PROVE  FALSE
        <4>1. InFlight(e) /\ ok /\ next.pc = "enqueue"
          BY SMT, <1>7, <1>8, <3>1 DEF At
        <4>2. key \in raced'
          BY <1>1, <3>1, <4>1
        <4> QED BY <2>2, <4>2
      <3> QED BY <1>7, <2>2, <3>1
    <2>3. CASE d # c
      <3>1. InFlight(d)' = InFlight(d) /\ Named(d)' = Named(d) /\ submit'[d] = submit[d]
        BY <1>5, <1>8, <2>3
      <3>2. /\ InFlight(d) => IdempotencyKey(d) \notin DOMAIN idempotency
            /\ Named(d) => /\ IdempotencyKey(d) \in DOMAIN idempotency
                           /\ idempotency[IdempotencyKey(d)].job = submit[d].job
            /\ \A e \in Calls : InFlight(d) /\ InFlight(e)
                                   /\ IdempotencyKey(e) = IdempotencyKey(d) => d = e
        BY <2>1 DEF GatewayInv, Settled
      <3>3. ASSUME InFlight(d)', InFlight(c)', IdempotencyKey(c) = IdempotencyKey(d)
            PROVE  FALSE
        <4>1. ok /\ next.pc = "enqueue" /\ InFlight(d)
          BY SMT, <1>7, <3>1, <3>3 DEF At
        <4>2. key \in raced'
          BY <1>1, <2>3, <3>3, <4>1
        <4> QED BY <3>3, <4>2
      <3> QED BY <1>3, <1>8, <2>1, <3>1, <3>2, <3>3
    <2> QED BY <2>2, <2>3
  <1>12. DerivedJobs'
    <2>1. \A k \in DOMAIN live : Derived(live[k].fingerprint, live[k].job)
      BY <1>3 DEF GatewayInv, DerivedJobs
    <2>2. \A k \in DOMAIN records_file' : Derived(records_file'[k].fingerprint, records_file'[k].job)
      BY <1>6, <2>1 DEF GatewayInv, DerivedJobs
    <2>3. ASSUME NEW d \in Calls, submit'[d].pc = "record" \/ Named(d)'
          PROVE  Derived(Request[d], submit'[d].job)
      <3>1. CASE d = c
        BY <1>7, <2>1, <2>3, <3>1
      <3>2. CASE d # c
        BY <1>5, <1>8, <2>3, <3>2 DEF GatewayInv, DerivedJobs
      <3> QED BY <3>1, <3>2
    <2> QED BY <1>2, <2>1, <2>2, <2>3 DEF DerivedJobs
  <1>13. Saved'
    <2>1. CASE records_file' = live
      BY <1>2, <2>1 DEF Saved
    <2>2. CASE records_file' = records_file /\ unsaved' = unsaved
      BY <1>2, <1>3, <2>2 DEF Saved, GatewayInv
    <2> QED BY <1>1, <2>1, <2>2 DEF Write
  <1>14. NoSilentJob'
    <2> SUFFICES ASSUME faults' = 0, NEW j \in DOMAIN kernel_jobs'
                 PROVE  \E d \in Calls : submit'[d].job = j /\ submit'[d].pc \in {"record", "done"}
      BY DEF NoSilentJob
    <2>1. PICK d \in Calls : submit[d].job = j /\ submit[d].pc \in {"record", "done"}
      BY <1>2, <1>6 DEF GatewayInv, NoSilentJob
    <2>2. d # c
      BY <1>2, <2>1
    <2> QED BY <1>5, <2>1, <2>2
  <1> QED BY <1>10, <1>11, <1>12, <1>13, <1>14 DEF GatewayInv

\* What a step means that only answers or moves call c on.
LEMMA OthersStand ==
    ASSUME NEW c \in Calls, NEW new, DOMAIN submit = Calls,
           submit' = [submit EXCEPT ![c] = new]
    PROVE  /\ DOMAIN submit' = Calls /\ submit'[c] = new
           /\ \A d \in Calls \ {c} : /\ submit'[d] = submit[d]
                                     /\ InFlight(d)' = InFlight(d) /\ Named(d)' = Named(d)
  BY DEF InFlight, Named, Answered

\* The replay answers with the job of the record, or with an error.
LEMMA ReplayKeeps ==
    ASSUME GatewayInv, NEW c \in Calls, SubmitReplay(c)
    PROVE  GatewayInv'
  <1>1. PICK new : /\ submit' = [submit EXCEPT ![c] = new]
                   /\ new \in {Answer("replayed", submit[c].job), Answer("error", NoJob)}
    BY DEF SubmitReplay
  <1>2. /\ UNCHANGED <<clock, idempotency, records_file, raced, orphaned, unsaved, kernel_jobs>>
        /\ submit[c].pc = "replay" /\ faults' \in Nat /\ (faults' = 0 => faults = 0)
    BY SMT DEF SubmitReplay, recordVars, GatewayInv, GatewayType
  <1>3. /\ DOMAIN submit' = Calls /\ submit'[c] = new
        /\ \A d \in Calls \ {c} : /\ submit'[d] = submit[d]
                                  /\ InFlight(d)' = InFlight(d) /\ Named(d)' = Named(d)
    BY <1>1, OthersStand DEF GatewayInv, GatewayType
  <1>4. /\ ~InFlight(c)' /\ Named(c) /\ submit'[c].pc = "done"
        /\ Named(c)' => submit'[c].job = submit[c].job
    BY SMT, <1>1, <1>2, <1>3 DEF InFlight, Named, Answered, Answer
  <1>5. GatewayType'
    BY <1>2, <1>3, <1>4 DEF GatewayInv, GatewayType
  <1>6. Settled'
    <2> SUFFICES ASSUME NEW d \in Calls, IdempotencyKey(d) \notin raced \cup orphaned
                 PROVE  /\ InFlight(d)' => IdempotencyKey(d) \notin DOMAIN idempotency
                        /\ Named(d)' => /\ IdempotencyKey(d) \in DOMAIN idempotency
                                        /\ idempotency[IdempotencyKey(d)].job = submit'[d].job
                        /\ \A e \in Calls : InFlight(d)' /\ InFlight(e)'
                                               /\ IdempotencyKey(e) = IdempotencyKey(d) => d = e
      BY <1>2 DEF Settled, IdempotencyKey, RequestFingerprint
    <2>1. /\ InFlight(d) => IdempotencyKey(d) \notin DOMAIN idempotency
          /\ Named(d) => /\ IdempotencyKey(d) \in DOMAIN idempotency
                         /\ idempotency[IdempotencyKey(d)].job = submit[d].job
          /\ \A e \in Calls : InFlight(d) /\ InFlight(e)
                                 /\ IdempotencyKey(e) = IdempotencyKey(d) => d = e
      BY DEF GatewayInv, Settled
    <2>2. CASE d = c
      BY <1>4, <2>1, <2>2
    <2>3. CASE d # c
      BY <1>3, <1>4, <2>1, <2>3
    <2> QED BY <2>2, <2>3
  <1>7. DerivedJobs'
    <2>1. ASSUME NEW d \in Calls, submit'[d].pc = "record" \/ Named(d)'
          PROVE  Derived(Request[d], submit'[d].job)
      BY <1>3, <1>4, <2>1 DEF GatewayInv, DerivedJobs
    <2> QED BY <1>2, <2>1 DEF GatewayInv, DerivedJobs
  <1>8. Saved'
    BY <1>2 DEF GatewayInv, Saved
  <1>9. NoSilentJob'
    <2> SUFFICES ASSUME faults' = 0, NEW j \in DOMAIN kernel_jobs'
                 PROVE  \E d \in Calls : submit'[d].job = j /\ submit'[d].pc \in {"record", "done"}
      BY DEF NoSilentJob
    <2>1. PICK d \in Calls : submit[d].job = j /\ submit[d].pc \in {"record", "done"}
      BY <1>2 DEF GatewayInv, NoSilentJob
    <2> QED BY <1>2, <1>3, <2>1
  <1> QED BY <1>5, <1>6, <1>7, <1>8, <1>9 DEF GatewayInv

\* The kernel call: the job it made is the caller's, or its answer was a fault.
LEMMA EnqueueKeeps ==
    ASSUME GatewayInv, NEW c \in Calls, SubmitEnqueue(c)
    PROVE  GatewayInv'
  <1>1. PICK new : /\ submit' = [submit EXCEPT ![c] = new]
                   /\ new \in {At("record", KernelJobId(c)), Answer("error", NoJob)}
                   /\ \/ faults' = faults + 1
                      \/ /\ new = At("record", KernelJobId(c)) /\ faults' = faults
                         /\ kernel_jobs' = CreateOrGetJob(c)
    BY DEF SubmitEnqueue
  <1>2. /\ UNCHANGED <<clock, idempotency, records_file, raced, unsaved>>
        /\ orphaned \subseteq orphaned' /\ submit[c].pc = "enqueue"
    BY DEF SubmitEnqueue
  <1>3. /\ DOMAIN submit' = Calls /\ submit'[c] = new
        /\ \A d \in Calls \ {c} : /\ submit'[d] = submit[d]
                                  /\ InFlight(d)' = InFlight(d) /\ Named(d)' = Named(d)
    BY <1>1, OthersStand DEF GatewayInv, GatewayType
  <1>4. /\ InFlight(c) /\ ~Named(c)' /\ submit'[c].pc \in {"record", "done"}
        /\ submit'[c].pc # "done" => submit'[c].kind = "none"
        /\ submit'[c].pc = "record" => submit'[c].job = KernelJobId(c)
    BY SMT, <1>1, <1>2, <1>3 DEF InFlight, Named, Answered, Answer, At
  <1>5. GatewayType'
    BY SMT, <1>1, <1>2, <1>3, <1>4 DEF GatewayInv, GatewayType
  <1>6. Settled'
    <2> SUFFICES ASSUME NEW d \in Calls, IdempotencyKey(d) \notin raced \cup orphaned
                 PROVE  /\ InFlight(d)' => IdempotencyKey(d) \notin DOMAIN idempotency
                        /\ Named(d)' => /\ IdempotencyKey(d) \in DOMAIN idempotency
                                        /\ idempotency[IdempotencyKey(d)].job = submit'[d].job
                        /\ \A e \in Calls : InFlight(d)' /\ InFlight(e)'
                                               /\ IdempotencyKey(e) = IdempotencyKey(d) => d = e
      BY <1>2 DEF Settled, IdempotencyKey, RequestFingerprint
    <2>1. /\ InFlight(d) => IdempotencyKey(d) \notin DOMAIN idempotency
          /\ Named(d) => /\ IdempotencyKey(d) \in DOMAIN idempotency
                         /\ idempotency[IdempotencyKey(d)].job = submit[d].job
          /\ \A e \in Calls : InFlight(d) /\ InFlight(e)
                                 /\ IdempotencyKey(e) = IdempotencyKey(d) => d = e
      BY DEF GatewayInv, Settled
    <2>2. \A e \in Calls : InFlight(e)' => InFlight(e)
      BY <1>3, <1>4
    <2>3. Named(d)' => Named(d) /\ submit'[d] = submit[d]
      BY <1>3, <1>4
    <2> QED BY <2>1, <2>2, <2>3
  <1>7. DerivedJobs'
    <2>1. ASSUME NEW d \in Calls, submit'[d].pc = "record" \/ Named(d)'
          PROVE  Derived(Request[d], submit'[d].job)
      <3>1. CASE d = c
        BY <1>4, <2>1, <3>1 DEF Derived, KernelJobId
      <3>2. CASE d # c
        BY <1>3, <2>1, <3>2 DEF GatewayInv, DerivedJobs
      <3> QED BY <3>1, <3>2
    <2> QED BY <1>2, <2>1 DEF GatewayInv, DerivedJobs
  <1>8. Saved'
    BY <1>2 DEF GatewayInv, Saved
  <1>9. NoSilentJob'
    <2> SUFFICES ASSUME faults' = 0, NEW j \in DOMAIN kernel_jobs'
                 PROVE  \E d \in Calls : submit'[d].job = j /\ submit'[d].pc \in {"record", "done"}
      BY DEF NoSilentJob
    <2>1. /\ faults = 0 /\ submit'[c] = At("record", KernelJobId(c))
          /\ kernel_jobs' = CreateOrGetJob(c)
      BY SMT, <1>1, <1>3 DEF GatewayInv, GatewayType
    <2>2. j = KernelJobId(c) \/ j \in DOMAIN kernel_jobs
      BY <2>1 DEF CreateOrGetJob
    <2>3. CASE j = KernelJobId(c)
      BY SMT, <2>1, <2>3 DEF At
    <2>4. CASE j \in DOMAIN kernel_jobs
      <3>1. PICK d \in Calls : submit[d].job = j /\ submit[d].pc \in {"record", "done"}
        BY <2>1, <2>4 DEF GatewayInv, NoSilentJob
      <3> QED BY <1>2, <1>3, <3>1
    <2> QED BY <2>2, <2>3, <2>4
  <1> QED BY <1>5, <1>6, <1>7, <1>8, <1>9 DEF GatewayInv

\* The second locked section: the record names the job of the answer.
LEMMA RecordKeeps ==
    ASSUME GatewayInv, NEW c \in Calls, SubmitRecord(c)
    PROVE  GatewayInv'
  <1> DEFINE key == IdempotencyKey(c)
  <1>1. PICK ok \in BOOLEAN :
              /\ Write(ok, Recorded(c))
              /\ unsaved' = IF ok THEN {} ELSE unsaved \cup {key}
              /\ submit' = [submit EXCEPT ![c] = IF ok THEN Answer("accepted", submit[c].job)
                                                       ELSE Answer("error", NoJob)]
    BY DEF SubmitRecord
  <1>2. /\ UNCHANGED <<clock, kernel_jobs, raced, orphaned>>
        /\ submit[c].pc = "record" /\ idempotency' = Recorded(c)
    BY DEF SubmitRecord
  <1>3. /\ DOMAIN submit' = Calls
        /\ submit'[c] = IF ok THEN Answer("accepted", submit[c].job) ELSE Answer("error", NoJob)
        /\ \A d \in Calls \ {c} : /\ submit'[d] = submit[d]
                                  /\ InFlight(d)' = InFlight(d) /\ Named(d)' = Named(d)
    BY <1>1, OthersStand DEF GatewayInv, GatewayType
  <1>4. /\ InFlight(c) /\ ~InFlight(c)' /\ submit'[c].pc = "done"
        /\ Named(c)' => submit'[c].job = submit[c].job /\ ok
    BY <1>1, <1>2, <1>3 DEF InFlight, Named, Answered, Answer
  <1>5. /\ faults' \in Nat
        /\ faults' = 0 => faults = 0 /\ ok
        /\ records_file' = IF ok THEN Recorded(c) ELSE records_file
    BY SMT, <1>1 DEF Write, GatewayInv, GatewayType
  <1>6. /\ DOMAIN Recorded(c) = DOMAIN idempotency \cup {key}
        /\ Recorded(c)[key].job = submit[c].job
        /\ Recorded(c)[key].fingerprint = Request[c]
        /\ \A k \in DOMAIN idempotency \ {key} : Recorded(c)[k] = idempotency[k]
    BY DEF Recorded, NewRecord, RequestFingerprint
  <1>7. GatewayType'
    BY <1>2, <1>3, <1>4, <1>5 DEF GatewayInv, GatewayType
  <1>8. Settled'
    <2> SUFFICES ASSUME NEW d \in Calls, IdempotencyKey(d) \notin raced \cup orphaned
                 PROVE  /\ InFlight(d)' => IdempotencyKey(d) \notin DOMAIN Recorded(c)
                        /\ Named(d)' => /\ IdempotencyKey(d) \in DOMAIN Recorded(c)
                                        /\ Recorded(c)[IdempotencyKey(d)].job = submit'[d].job
                        /\ \A e \in Calls : InFlight(d)' /\ InFlight(e)'
                                               /\ IdempotencyKey(e) = IdempotencyKey(d) => d = e
      BY <1>2 DEF Settled, IdempotencyKey, RequestFingerprint
    <2>1. /\ InFlight(d) => IdempotencyKey(d) \notin DOMAIN idempotency
          /\ Named(d) => /\ IdempotencyKey(d) \in DOMAIN idempotency
                         /\ idempotency[IdempotencyKey(d)].job = submit[d].job
          /\ \A e \in Calls : InFlight(d) /\ InFlight(e)
                                 /\ IdempotencyKey(e) = IdempotencyKey(d) => d = e
      BY DEF GatewayInv, Settled
    <2>2. CASE d = c
      BY <1>4, <1>6, <2>2
    <2>3. CASE d # c
      <3>1. submit'[d] = submit[d] /\ InFlight(d)' = InFlight(d) /\ Named(d)' = Named(d)
        BY <1>3, <2>3
      <3>2. InFlight(d) => IdempotencyKey(d) # key
        BY <1>4, <2>1, <2>3
      <3>3. Named(d) => IdempotencyKey(d) # key
        <4> SUFFICES ASSUME Named(d), IdempotencyKey(d) = key PROVE FALSE
          OBVIOUS
        <4>1. key \notin DOMAIN idempotency
          BY <1>4 DEF GatewayInv, Settled
        <4> QED BY <2>1, <4>1
      <3>4. \A e \in Calls : InFlight(e)' => InFlight(e)
        BY <1>3, <1>4
      <3> QED BY <1>6, <2>1, <3>1, <3>2, <3>3, <3>4
    <2> QED BY <2>2, <2>3
  <1>9. DerivedJobs'
    <2>1. \A k \in DOMAIN Recorded(c) : Derived(Recorded(c)[k].fingerprint, Recorded(c)[k].job)
      BY <1>2, <1>6 DEF GatewayInv, DerivedJobs
    <2>2. \A k \in DOMAIN records_file' : Derived(records_file'[k].fingerprint, records_file'[k].job)
      BY <1>5, <2>1 DEF GatewayInv, DerivedJobs
    <2>3. ASSUME NEW d \in Calls, submit'[d].pc = "record" \/ Named(d)'
          PROVE  Derived(Request[d], submit'[d].job)
      BY <1>2, <1>3, <1>4, <2>3 DEF GatewayInv, DerivedJobs
    <2> QED BY <1>2, <2>1, <2>2, <2>3 DEF DerivedJobs
  <1>10. Saved'
    <2>1. CASE ok
      BY <1>2, <1>5, <2>1 DEF Saved
    <2>2. CASE ~ok
      BY <1>1, <1>2, <1>5, <1>6, <2>2 DEF GatewayInv, Saved
    <2> QED BY <2>1, <2>2
  <1>11. NoSilentJob'
    <2> SUFFICES ASSUME faults' = 0, NEW j \in DOMAIN kernel_jobs'
                 PROVE  \E d \in Calls : submit'[d].job = j /\ submit'[d].pc \in {"record", "done"}
      BY DEF NoSilentJob
    <2>1. PICK d \in Calls : submit[d].job = j /\ submit[d].pc \in {"record", "done"}
      BY <1>2, <1>5 DEF GatewayInv, NoSilentJob
    <2>2. submit'[c].job = submit[c].job
      BY SMT, <1>3, <1>5 DEF Answer
    <2> QED BY <1>3, <1>4, <2>1, <2>2
  <1> QED BY <1>7, <1>8, <1>9, <1>10, <1>11 DEF GatewayInv

\* A restart reads back every live record that was saved, and orphans the keys
\* of the others and of the calls whose job was not recorded yet.
LEMMA RestartKeeps ==
    ASSUME GatewayInv, Restart
    PROVE  GatewayInv'
  <1> DEFINE loaded == Live(records_file, clock)
  <1>1. /\ UNCHANGED <<clock, records_file, kernel_jobs, raced>>
        /\ faults' = faults + 1 /\ idempotency' = loaded /\ unsaved' = {}
        /\ unsaved \subseteq orphaned' /\ orphaned \subseteq orphaned'
        /\ Lost(idempotency, Live(idempotency, clock)) \subseteq orphaned'
    BY DEF Restart
  <1>2. /\ DOMAIN submit' = Calls
        /\ \A c \in Calls : submit'[c] = IF submit[c].pc \in {"idle", "done"} THEN submit[c]
                                         ELSE Answer("lost", NoJob)
    BY DEF Restart
  <1>3. /\ DOMAIN loaded \subseteq DOMAIN records_file
        /\ \A k \in DOMAIN loaded : loaded[k] = records_file[k]
        /\ \A k \in DOMAIN records_file : records_file[k].expires > clock => k \in DOMAIN loaded
    BY LiveFacts
  <1>4. \A k \in DOMAIN Live(idempotency, clock) : k \in DOMAIN idempotency /\ idempotency[k].expires > clock
    BY LiveFacts
  <1> HIDE DEF loaded
  <1>5. \A c \in Calls : /\ ~InFlight(c)' /\ submit'[c].pc # "record"
                         /\ Named(c)' => Named(c) /\ submit'[c] = submit[c]
                         /\ submit'[c].pc # "done" => submit'[c].kind = "none"
    BY SMT, <1>2 DEF InFlight, Named, Answered, Answer, GatewayInv, GatewayType
  <1>6. GatewayType'
    BY SMT, <1>1, <1>2, <1>5 DEF GatewayInv, GatewayType
  <1>7. Settled'
    <2> SUFFICES ASSUME NEW d \in Calls, IdempotencyKey(d) \notin raced \cup orphaned', Named(d)'
                 PROVE  /\ IdempotencyKey(d) \in DOMAIN loaded
                        /\ loaded[IdempotencyKey(d)].job = submit'[d].job
      BY <1>1, <1>5 DEF Settled, IdempotencyKey, RequestFingerprint
    <2>1. Named(d) /\ submit'[d] = submit[d]
      BY <1>5
    <2>2. /\ IdempotencyKey(d) \in DOMAIN idempotency
          /\ idempotency[IdempotencyKey(d)].job = submit[d].job
      BY <1>1, <2>1 DEF GatewayInv, Settled
    <2>3. idempotency[IdempotencyKey(d)].expires > clock
      BY <1>1, <1>4, <2>2 DEF Lost
    <2>4. /\ IdempotencyKey(d) \in DOMAIN records_file
          /\ records_file[IdempotencyKey(d)] = idempotency[IdempotencyKey(d)]
      BY <1>1, <2>2 DEF GatewayInv, Saved
    <2> QED BY <1>3, <2>1, <2>2, <2>3, <2>4
  <1>8. DerivedJobs'
    <2>1. \A k \in DOMAIN loaded : Derived(loaded[k].fingerprint, loaded[k].job)
      BY <1>3 DEF GatewayInv, DerivedJobs
    <2>2. ASSUME NEW d \in Calls, submit'[d].pc = "record" \/ Named(d)'
          PROVE  Derived(Request[d], submit'[d].job)
      BY <1>5, <2>2 DEF GatewayInv, DerivedJobs
    <2> QED BY <1>1, <2>1, <2>2 DEF GatewayInv, DerivedJobs
  <1>9. Saved'
    BY <1>1, <1>3 DEF Saved
  <1>10. NoSilentJob'
    BY SMT, <1>1 DEF NoSilentJob, GatewayInv, GatewayType
  <1> QED BY <1>6, <1>7, <1>8, <1>9, <1>10 DEF GatewayInv

\* The clock, or a step of another component, changes nothing of this.
LEMMA TickKeeps ==
    ASSUME GatewayInv, Tick \/ UNCHANGED gatewayVars
    PROVE  GatewayInv'
  <1>1. /\ UNCHANGED <<faults, idempotency, records_file, submit, kernel_jobs, raced, orphaned, unsaved>>
        /\ clock' \in Nat
    BY SMT DEF Tick, recordVars, gatewayVars, GatewayInv, GatewayType
  <1>2. GatewayType'
    BY <1>1 DEF GatewayInv, GatewayType
  <1>3. Settled'
    BY <1>1 DEF GatewayInv, Settled, Named, Answered, InFlight, IdempotencyKey, RequestFingerprint
  <1>4. DerivedJobs'
    BY <1>1 DEF GatewayInv, DerivedJobs, Named, Answered
  <1>5. Saved' /\ NoSilentJob'
    BY <1>1 DEF GatewayInv, Saved, NoSilentJob
  <1> QED BY <1>2, <1>3, <1>4, <1>5 DEF GatewayInv

\* Every step of a call keeps a live record with its job, or leaves its key in
\* raced or orphaned.
LEMMA StepKeepsRecords ==
    ASSUME GatewayInv, [SubmitNext]_gatewayVars,
           NEW k \in DOMAIN idempotency, idempotency[k].expires > clock
    PROVE  \/ k \in DOMAIN idempotency' /\ idempotency'[k].job = idempotency[k].job
           \/ k \in raced
           \/ k \in orphaned'
  <1>1. CASE UNCHANGED idempotency
    BY <1>1
  <1>2. CASE \E c \in Calls : SubmitLookup(c)
    <2>1. idempotency' = Live(idempotency, clock)
      BY <1>2 DEF SubmitLookup
    <2> QED BY SMT, <2>1, LiveFacts
  <1>3. ASSUME NEW c \in Calls, SubmitRecord(c)
        PROVE  \/ k \in DOMAIN idempotency' /\ idempotency'[k].job = idempotency[k].job
               \/ k \in raced \/ k \in orphaned'
    <2>1. idempotency' = Recorded(c) /\ orphaned' = orphaned /\ InFlight(c)
      BY <1>3 DEF SubmitRecord, InFlight
    <2>2. CASE k = IdempotencyKey(c)
      BY <2>1, <2>2 DEF GatewayInv, Settled
    <2>3. CASE k # IdempotencyKey(c)
      BY <2>1, <2>3 DEF Recorded
    <2> QED BY <2>2, <2>3
  <1>4. CASE Restart
    <2>1. idempotency' = Live(records_file, clock) /\ unsaved \subseteq orphaned'
      BY <1>4 DEF Restart
    <2>2. CASE k \notin unsaved
      <3>1. k \in DOMAIN records_file /\ records_file[k] = idempotency[k]
        BY <2>2 DEF GatewayInv, Saved
      <3>2. k \in DOMAIN Live(records_file, clock) /\ Live(records_file, clock)[k] = records_file[k]
        BY <3>1, LiveFacts
      <3> QED BY <2>1, <3>1, <3>2
    <2> QED BY <2>1, <2>2
  <1>5. CASE Tick \/ UNCHANGED gatewayVars \/ \E c \in Calls : SubmitReplay(c) \/ SubmitEnqueue(c)
    BY <1>1, <1>5 DEF Tick, gatewayVars, recordVars, SubmitReplay, SubmitEnqueue
  <1> QED BY <1>2, <1>3, <1>4, <1>5 DEF SubmitNext

\* Calls with one request have one key: unless that was raced or orphaned their
\* answers name the job of its one record; and without a key of the envelope the
\* job is derived from the request.
LEMMA SameJob == GatewayInv => SameRequestSameJob
  <1> SUFFICES ASSUME GatewayInv, NEW c \in Calls, NEW d \in Calls, Answered(c), Answered(d),
                      Request[c] = Request[d], submit[c].job # submit[d].job
               PROVE  Request[c].via = "envelope" /\ IdempotencyKey(c) \in raced \cup orphaned
    BY DEF SameRequestSameJob
  <1>1. Named(c) /\ Named(d) /\ IdempotencyKey(c) = IdempotencyKey(d)
    BY DEF Named, IdempotencyKey, RequestFingerprint
  <1>2. IdempotencyKey(c) \in raced \cup orphaned
    BY <1>1 DEF GatewayInv, Settled
  <1>3. Derived(Request[c], submit[c].job) /\ Derived(Request[d], submit[d].job)
    BY <1>1 DEF GatewayInv, DerivedJobs
  <1> QED BY <1>2, <1>3 DEF Derived

\* SubmitJob gives equal requests one job, lets no job run unnoticed unless a
\* fault hit its submission, and keeps a live record with its job: for any calls,
\* requests, expiry time and number of faults and restarts.
THEOREM SubmissionsAreSound == GatewaySpec => SubmissionsSound
  <1>1. (\E batch \in Batches : GatewayInit(batch)) => GatewayInv
    BY GatewayBegins
  <1>2. GatewayInv /\ [SubmitNext]_gatewayVars => GatewayInv'
    BY LookupKeeps, ReplayKeeps, EnqueueKeeps, RecordKeeps, RestartKeeps, TickKeeps DEF SubmitNext
  <1>3. GatewayInv => SameRequestSameJob /\ NoSilentJob
    BY SameJob DEF GatewayInv
  <1> DEFINE Kept == \A k \in DOMAIN idempotency :
                        idempotency[k].expires > clock =>
                            \/ k \in DOMAIN idempotency' /\ idempotency'[k].job = idempotency[k].job
                            \/ k \in raced
                            \/ k \in orphaned'
  <1>4. GatewayInv /\ [SubmitNext]_gatewayVars => [Kept]_gatewayVars
    BY StepKeepsRecords
  <1> QED BY <1>1, <1>2, <1>3, <1>4, PTL DEF GatewaySpec, SubmissionsSound, LiveRecordKept
-----------------------------------------------------------------------------
(****************************************************************************)
(* The job streams.                                                        *)
(****************************************************************************)
\* One update of a stream.
StreamUpdate == [event_seq : Nat, stage : Nat, outcome : BOOLEAN]
\* A StreamJobUpdates client: its open call and what it has seen.
Stream == [open : BOOLEAN, items : Seq(StreamUpdate), last : Nat, seen : Seq(StreamUpdate)]

\* The update of a stage, or the placeholder that has the number of the first.
OfStage(u) == u.stage = u.event_seq \/ (u.event_seq = 1 /\ u.stage = 0)

\* What is left of an open call is a run of consecutive numbers that begins no
\* later than behind the last number the client saw.
Unread(s) ==
    /\ \A i \in 1..Len(s.items) : /\ s.items[i].event_seq = s.items[1].event_seq + (i - 1)
                                  /\ OfStage(s.items[i])
    /\ s.items # <<>> => s.items[1].event_seq \in 1..(s.last + 1)

\* What it has seen are the numbers up to the last, each once and in order.
Seen(s) ==
    /\ Len(s.seen) = s.last
    /\ \A i \in 1..Len(s.seen) : s.seen[i].event_seq = i /\ OfStage(s.seen[i])

\* The inductive invariant of the streams.
StreamsInv ==
    /\ stages \in Nat /\ open \in BOOLEAN /\ terminal \in BOOLEAN
    /\ streams \in [Watchers -> Stream]
    /\ \A w \in Watchers : Unread(streams[w]) /\ Seen(streams[w])

\* What Append does to a sequence.
LEMMA AppendedLast ==
    ASSUME NEW S, NEW q \in Seq(S), NEW x \in S
    PROVE  /\ Len(Append(q, x)) = Len(q) + 1 /\ Append(q, x)[Len(q) + 1] = x
           /\ \A i \in 1..Len(q) : Append(q, x)[i] = q[i]
  BY SMT

\* all_stage_updates numbers its updates from 1 without a gap.
LEMMA UpdatesInOrder ==
    ASSUME stages \in Nat, open \in BOOLEAN, terminal \in BOOLEAN
    PROVE  /\ KernelUpdates \in Seq(StreamUpdate) /\ KernelUpdates # <<>>
           /\ \A i \in 1..Len(KernelUpdates) : /\ KernelUpdates[i].event_seq = i
                                               /\ OfStage(KernelUpdates[i])
  <1>1. CASE stages = 0
    BY SMT, <1>1 DEF KernelUpdates, Update, StreamUpdate, OfStage
  <1>2. CASE stages # 0
    <2>1. \A i \in 1..stages : Update(i, i, Outcome(i)) \in StreamUpdate
      BY SMT DEF Update, StreamUpdate, Outcome
    <2>2. KernelUpdates = [i \in 1..stages |-> Update(i, i, Outcome(i))]
      BY <1>2 DEF KernelUpdates
    <2>3. KernelUpdates \in Seq(StreamUpdate) /\ Len(KernelUpdates) = stages
      BY SMT, <2>1, <2>2
    <2>4. KernelUpdates # <<>>
      BY SMT, <1>2, <2>3
    <2> QED BY <2>2, <2>3, <2>4 DEF Update, OfStage
  <1> QED BY <1>1, <1>2

\* A turn of the yield loop drops an update the client has, or passes on the one
\* that comes next.
LEMMA YieldKeeps ==
    ASSUME NEW s \in Stream, Unread(s), Seen(s), s.items # <<>>,
           NEW new, new = IF Fresh(Head(s.items), s.last)
               THEN [s EXCEPT !.items = Tail(@), !.last = Head(s.items).event_seq,
                              !.seen = Append(@, Head(s.items))]
               ELSE [s EXCEPT !.items = Tail(@)]
    PROVE  new \in Stream /\ Unread(new) /\ Seen(new)
  <1> DEFINE items == s.items
             u == Head(items)
             rest == Tail(items)
             n == Len(items)
  <1>1. items \in Seq(StreamUpdate) /\ s.seen \in Seq(StreamUpdate) /\ s.last \in Nat /\ s.open \in BOOLEAN
    BY DEF Stream
  <1>2. /\ u = items[1] /\ u \in StreamUpdate
        /\ rest \in Seq(StreamUpdate) /\ n \in Nat /\ n # 0 /\ Len(rest) = n - 1
        /\ \A i \in 1..Len(rest) : rest[i] = items[i + 1]
    BY SMT, <1>1
  <1>3. /\ OfStage(u) /\ u.event_seq \in 1..(s.last + 1)
        /\ \A i \in 1..n : items[i].event_seq = u.event_seq + (i - 1) /\ OfStage(items[i])
    BY SMT, <1>2 DEF Unread
  <1>4. \A i \in 1..Len(rest) : rest[i].event_seq = u.event_seq + i /\ OfStage(rest[i])
    <2> TAKE i \in 1..Len(rest)
    <2>1. i + 1 \in 1..n /\ rest[i] = items[i + 1] /\ (i + 1) - 1 = i
      BY SMT, <1>2
    <2> QED BY <1>3, <2>1
  <1>5. rest # <<>> => rest[1].event_seq = u.event_seq + 1 /\ 1 \in 1..Len(rest)
    <2> SUFFICES ASSUME rest # <<>> PROVE rest[1].event_seq = u.event_seq + 1 /\ 1 \in 1..Len(rest)
      OBVIOUS
    <2>1. 1 \in 1..Len(rest)
      BY SMT, <1>2
    <2> HIDE DEF rest, u, items
    <2> QED BY <1>4, <2>1
  <1>6. u.event_seq \in Nat
    BY <1>2 DEF StreamUpdate
  <1> HIDE DEF items, rest, n
  <1>7. CASE u.event_seq > s.last
    <2>1. new = [s EXCEPT !.items = rest, !.last = u.event_seq, !.seen = Append(s.seen, u)]
      BY <1>7 DEF Fresh, rest, items
    <2> HIDE DEF u
    <2>2. /\ new.items = rest /\ new.last = u.event_seq /\ new.seen = Append(s.seen, u)
          /\ new \in Stream
      <3>1. Append(s.seen, u) \in Seq(StreamUpdate)
        BY SMT, <1>1, <1>2
      <3> HIDE DEF u
      <3> QED BY <1>1, <1>2, <1>6, <2>1, <3>1 DEF Stream
    <2>3. u.event_seq = s.last + 1
      BY SMT, <1>1, <1>3, <1>6, <1>7
    <2>4. Unread(new)
      <3>1. \A i \in 1..Len(rest) : rest[i].event_seq = rest[1].event_seq + (i - 1)
        <4> TAKE i \in 1..Len(rest)
        <4>1. rest # <<>> /\ i \in Nat
          BY SMT, <1>2
        <4> QED BY SMT, <1>4, <1>5, <1>6, <4>1
      <3>2. rest # <<>> => rest[1].event_seq \in 1..(u.event_seq + 1)
        BY SMT, <1>5, <1>6
      <3> QED BY <1>4, <2>2, <3>1, <3>2 DEF Unread
    <2>5. Seen(new)
      <3>1. /\ Len(s.seen) = s.last
            /\ \A i \in 1..Len(s.seen) : s.seen[i].event_seq = i /\ OfStage(s.seen[i])
        BY DEF Seen
      <3>2. /\ Len(new.seen) = s.last + 1 /\ new.seen[s.last + 1] = u
            /\ \A i \in 1..s.last : new.seen[i] = s.seen[i]
        <4>1. new.seen = Append(s.seen, u) /\ Len(s.seen) = s.last /\ s.seen \in Seq(StreamUpdate)
          BY <1>1, <2>2, <3>1 DEF Stream
        <4> QED BY SMT, <1>2, <4>1, AppendedLast
      <3>3. ASSUME NEW i \in 1..Len(new.seen)
            PROVE  new.seen[i].event_seq = i /\ OfStage(new.seen[i])
        <4>1. CASE i = s.last + 1
          BY <1>3, <2>3, <3>2, <4>1
        <4>2. CASE i # s.last + 1
          <5>1. i \in 1..s.last
            BY SMT, <1>1, <3>2, <4>2
          <5> QED BY <3>1, <3>2, <5>1
        <4> QED BY <4>1, <4>2
      <3> QED BY <2>2, <2>3, <3>2, <3>3 DEF Seen
    <2> QED BY <2>2, <2>4, <2>5
  <1>8. CASE ~(u.event_seq > s.last)
    <2>1. new = [s EXCEPT !.items = rest]
      BY <1>8 DEF Fresh, rest, items
    <2> HIDE DEF u
    <2>2. /\ new.items = rest /\ new.last = s.last /\ new.seen = s.seen /\ new \in Stream
      BY <1>1, <1>2, <2>1 DEF Stream
    <2>3. Unread(new)
      <3>1. \A i \in 1..Len(rest) : rest[i].event_seq = rest[1].event_seq + (i - 1)
        <4> TAKE i \in 1..Len(rest)
        <4>1. rest # <<>> /\ i \in Nat
          BY SMT, <1>2
        <4> QED BY SMT, <1>4, <1>5, <1>6, <4>1
      <3>2. rest # <<>> => rest[1].event_seq \in 1..(s.last + 1)
        BY SMT, <1>1, <1>5, <1>6, <1>8
      <3> QED BY <1>4, <2>2, <3>1, <3>2 DEF Unread
    <2>4. Seen(new)
      BY <2>2 DEF Seen
    <2> QED BY <2>2, <2>3, <2>4
  <1> QED BY <1>7, <1>8

\* Every step of the kernel, a stream or an asker keeps the invariant.
LEMMA StreamsKeep ==
    ASSUME StreamsInv, [StreamsNext]_streamVars
    PROVE  StreamsInv'
  <1>1. CASE BeginStage \/ FinishStage \/ JobTerminates
    <2>1. stages' \in Nat /\ open' \in BOOLEAN /\ terminal' \in BOOLEAN
      <3>1. stages \in Nat /\ open \in BOOLEAN /\ terminal \in BOOLEAN
        BY DEF StreamsInv
      <3>2. CASE BeginStage
        BY SMT, <3>1, <3>2 DEF BeginStage
      <3>3. CASE FinishStage
        BY <3>1, <3>3 DEF FinishStage
      <3>4. CASE JobTerminates
        BY <3>1, <3>4 DEF JobTerminates
      <3> QED BY <1>1, <3>2, <3>3, <3>4
    <2>2. streams' = streams
      BY <1>1 DEF BeginStage, FinishStage, JobTerminates
    <2> QED BY <2>1, <2>2 DEF StreamsInv
  <1>2. CASE UNCHANGED <<kernelVars, streams>>
    BY <1>2 DEF StreamsInv, kernelVars, Unread, Seen
  <1>3. ASSUME NEW w \in Watchers, NEW new \in Stream, Unread(new), Seen(new),
               streams' = [streams EXCEPT ![w] = new], UNCHANGED kernelVars
        PROVE  StreamsInv'
    <2>1. streams' \in [Watchers -> Stream]
      BY <1>3 DEF StreamsInv
    <2>2. \A v \in Watchers : streams'[v] = IF v = w THEN new ELSE streams[v]
      BY <1>3 DEF StreamsInv
    <2>3. \A v \in Watchers : Unread(streams'[v]) /\ Seen(streams'[v])
      BY <1>3, <2>2 DEF StreamsInv
    <2> QED BY <1>3, <2>1, <2>3 DEF StreamsInv, kernelVars
  <1>4. ASSUME NEW w \in Watchers, StreamOpen(w)
        PROVE  StreamsInv'
    <2> DEFINE new == [streams[w] EXCEPT !.open = TRUE, !.items = KernelUpdates]
    <2>1. streams' = [streams EXCEPT ![w] = new] /\ UNCHANGED kernelVars
      BY <1>4 DEF StreamOpen
    <2>2. streams[w] \in Stream /\ Seen(streams[w])
      BY DEF StreamsInv
    <2>3. /\ KernelUpdates \in Seq(StreamUpdate) /\ KernelUpdates # <<>>
          /\ \A i \in 1..Len(KernelUpdates) : /\ KernelUpdates[i].event_seq = i
                                              /\ OfStage(KernelUpdates[i])
      BY UpdatesInOrder DEF StreamsInv
    <2>4. /\ new \in Stream /\ new.items = KernelUpdates
          /\ new.last = streams[w].last /\ new.seen = streams[w].seen
      BY <2>2, <2>3 DEF Stream
    <2>5. Seen(new)
      BY <2>2, <2>4 DEF Seen
    <2>6. Unread(new)
      <3> DEFINE u == KernelUpdates
      <3>1. new.last \in Nat
        BY <2>4 DEF Stream
      <3>2. 1 \in 1..Len(u)
        BY SMT, <2>3
      <3> HIDE DEF u
      <3>3. \A i \in 1..Len(u) : u[i].event_seq = u[1].event_seq + (i - 1)
        BY SMT, <2>3, <3>2 DEF u
      <3>4. u[1].event_seq \in 1..(new.last + 1)
        BY SMT, <2>3, <3>1, <3>2 DEF u
      <3> QED BY <2>3, <2>4, <3>3, <3>4 DEF Unread, u
    <2> HIDE DEF new
    <2> QED BY <1>3, <2>1, <2>4, <2>5, <2>6
  <1>5. ASSUME NEW w \in Watchers, StreamYield(w)
        PROVE  StreamsInv'
    <2> DEFINE s == streams[w]
               new == IF Fresh(Head(s.items), s.last)
                      THEN [s EXCEPT !.items = Tail(@), !.last = Head(s.items).event_seq,
                                     !.seen = Append(@, Head(s.items))]
                      ELSE [s EXCEPT !.items = Tail(@)]
    <2>1. s \in Stream /\ Unread(s) /\ Seen(s)
      BY DEF StreamsInv
    <2>2. s.items # <<>> /\ streams' = [streams EXCEPT ![w] = new] /\ UNCHANGED kernelVars
      BY <1>5 DEF StreamYield
    <2> HIDE DEF s
    <2>3. new \in Stream /\ Unread(new) /\ Seen(new)
      BY <2>1, <2>2, YieldKeeps
    <2> HIDE DEF new
    <2> QED BY <1>3, <2>2, <2>3
  <1>6. ASSUME NEW w \in Watchers, StreamClose(w) \/ StreamDrop(w)
        PROVE  StreamsInv'
    <2>1. streams[w] \in Stream /\ Unread(streams[w]) /\ Seen(streams[w])
      BY DEF StreamsInv
    <2>2. PICK new : /\ streams' = [streams EXCEPT ![w] = new] /\ UNCHANGED kernelVars
                     /\ new = [streams[w] EXCEPT !.open = FALSE, !.items = <<>>]
      <3>1. CASE StreamClose(w)
        <4>1. [streams[w] EXCEPT !.open = FALSE] = [streams[w] EXCEPT !.open = FALSE, !.items = <<>>]
          BY <2>1, <3>1 DEF StreamClose, Stream
        <4> QED BY <3>1, <4>1 DEF StreamClose
      <3>2. CASE StreamDrop(w)
        BY <3>2 DEF StreamDrop
      <3> QED BY <1>6, <3>1, <3>2
    <2>3. /\ new \in Stream /\ new.items = <<>> /\ new.last = streams[w].last
          /\ new.seen = streams[w].seen
      <3>1. <<>> \in Seq(StreamUpdate)
        BY SMT
      <3> QED BY <2>1, <2>2, <3>1 DEF Stream
    <2>4. Unread(new) /\ Seen(new)
      BY SMT, <2>1, <2>3 DEF Unread, Seen
    <2> QED BY <1>3, <2>2, <2>3, <2>4
  <1>7. CASE \E a \in Askers : RationaleAsk(a) \/ RationaleAnswer(a) \/ RationaleAbort(a)
    BY <1>2, <1>7 DEF RationaleAsk, RationaleAnswer, RationaleAbort
  <1>8. CASE TimePasses \/ UNCHANGED streamVars
    BY <1>2, <1>8 DEF TimePasses, streamVars, kernelVars
  <1> QED BY <1>1, <1>4, <1>5, <1>6, <1>7, <1>8 DEF StreamsNext

\* A watcher sees the updates of the stages once and in order across all its
\* connections, for any number of stages, watchers and broken connections.
THEOREM UpdatesArriveOnceInOrder == StreamsSpec => []SeenIsPrefix
  <1>1. StreamsInit => StreamsInv
    <2> SUFFICES ASSUME StreamsInit PROVE StreamsInv
      OBVIOUS
    <2> DEFINE new == [open |-> FALSE, items |-> <<>>, last |-> 0, seen |-> <<>>]
    <2>1. <<>> \in Seq(StreamUpdate)
      BY SMT
    <2>2. new \in Stream /\ Unread(new) /\ Seen(new)
      BY SMT, <2>1 DEF Stream, Unread, Seen
    <2>3. streams = [w \in Watchers |-> new]
      BY DEF StreamsInit
    <2> HIDE DEF new
    <2> QED BY <2>2, <2>3 DEF StreamsInit, StreamsInv
  <1>2. StreamsInv /\ [StreamsNext]_streamVars => StreamsInv'
    BY StreamsKeep
  <1>3. StreamsInv => SeenIsPrefix
    BY SMT DEF StreamsInv, Seen, OfStage, SeenIsPrefix
  <1> QED BY <1>1, <1>2, <1>3, PTL DEF StreamsSpec

(****************************************************************************)
(* The device reservations.                                                *)
(****************************************************************************)
Entry == [state : {"ACTIVE", "EXPIRED"}, expires : Nat]
IsTable(t) == \A r \in DOMAIN t : t[r] \in Entry

\* The values the locked section computes with; no call has a stamp from the
\* future.
ReservationTypes ==
    /\ now \in Nat
    /\ reserve \in [ReserveCalls -> [pc : {"idle", "stamped", "granted", "conflict", "error"},
                                     stamp : Nat, at : Nat, until : Nat]]
    /\ \A c \in ReserveCalls : reserve[c].stamp <= now
    /\ IsTable(reservations) /\ IsTable(table_file)

OneActive(t) ==
    \A r, s \in DOMAIN t :
        (r[1] = s[1] /\ t[r].state = "ACTIVE" /\ t[s].state = "ACTIVE") => r = s

\* What a caller was granted is in the table until it is over, unless a later
\* call of the same owner has moved the expiry back.
Grants(t) ==
    \A c \in ReserveCalls :
        reserve[c].pc = "granted" =>
            \/ ReservationId(c) \in shortened
            \/ reserve[c].until <= now
            \/ /\ ReservationId(c) \in DOMAIN t
               /\ t[ReservationId(c)].state = "ACTIVE"
               /\ t[ReservationId(c)].expires >= reserve[c].until

Agrees(t) ==
    \A r \in DOMAIN t \ partial : r \in DOMAIN artifacts /\ artifacts[r].expires = t[r].expires

\* What a restart relies on: the file is as good as the memory.
Good(t) == OneActive(t) /\ Grants(t) /\ Agrees(t)

ReservationInv == ReservationTypes /\ Good(reservations) /\ Good(table_file) /\ GrantsExclusive
-----------------------------------------------------------------------------
\* A sweep changes no expiry and ends exactly the reservations that are over.
LEMMA SweepFacts ==
    ASSUME NEW t, IsTable(t), NEW k \in Nat
    PROVE  LET s == SweepReservations(t, k)
           IN  /\ DOMAIN s = DOMAIN t
               /\ IsTable(s)
               /\ \A r \in DOMAIN t :
                     /\ s[r].expires = t[r].expires
                     /\ s[r].state = "ACTIVE" <=> t[r].state = "ACTIVE" /\ k < t[r].expires
  BY SMT DEF SweepReservations, IsTable, Entry

\* A grant writes its own reservation and leaves the others alone.
LEMMA UpsertFacts ==
    ASSUME NEW t, IsTable(t), NEW c \in ReserveCalls, ReservationTypes
    PROVE  LET u == Upsert(t, c)
           IN  /\ DOMAIN u = DOMAIN t \cup {ReservationId(c)}
               /\ IsTable(u)
               /\ u[ReservationId(c)] = [state |-> "ACTIVE", expires |-> Expiry(c)]
               /\ \A r \in DOMAIN t \ {ReservationId(c)} : u[r] = t[r]
  <1>1. Expiry(c) \in Nat
    BY SMT, DeviceReservationsAssumption DEF ReservationTypes, Expiry
  <1> QED
    BY <1>1 DEF Upsert, IsTable, Entry

\* Before the first call there is no reservation and no grant.
LEMMA ReservationsBegin == ReservationsInit => ReservationInv
  <1> SUFFICES ASSUME ReservationsInit PROVE ReservationInv
    OBVIOUS
  <1>1. DOMAIN reservations = {} /\ DOMAIN table_file = {}
    BY SMT DEF ReservationsInit
  <1>2. \A c \in ReserveCalls : reserve[c] = NoStamp
    BY DEF ReservationsInit
  <1>3. ReservationTypes
    BY SMT, <1>1 DEF ReservationsInit, ReservationTypes, NoStamp, IsTable
  <1> QED
    BY SMT, <1>1, <1>2, <1>3 DEF ReservationInv, Good, OneActive, Grants, Agrees, GrantsExclusive, NoStamp

\* A table that was swept with a stamp no later than now is as good as before.
LEMMA SweepKeepsGood ==
    ASSUME ReservationTypes, NEW t, IsTable(t), Good(t), NEW k \in Nat, k <= now
    PROVE  Good(SweepReservations(t, k))
  <1> DEFINE s == SweepReservations(t, k)
  <1>1. /\ DOMAIN s = DOMAIN t
        /\ \A r \in DOMAIN t :
              /\ s[r].expires = t[r].expires
              /\ s[r].state = "ACTIVE" <=> t[r].state = "ACTIVE" /\ k < t[r].expires
    BY SweepFacts
  <1> HIDE DEF s
  <1>2. OneActive(s)
    BY <1>1 DEF Good, OneActive
  <1>3. Grants(s)
    <2> SUFFICES ASSUME NEW c \in ReserveCalls, reserve[c].pc = "granted",
                        ReservationId(c) \notin shortened, ~(reserve[c].until <= now)
                 PROVE  /\ ReservationId(c) \in DOMAIN s
                        /\ s[ReservationId(c)].state = "ACTIVE"
                        /\ s[ReservationId(c)].expires >= reserve[c].until
      BY DEF Grants
    <2>1. /\ ReservationId(c) \in DOMAIN t
          /\ t[ReservationId(c)].state = "ACTIVE"
          /\ t[ReservationId(c)].expires >= reserve[c].until
      BY DEF Good, Grants
    <2>2. t[ReservationId(c)].expires \in Nat /\ reserve[c].until \in Nat /\ now \in Nat
      BY <2>1 DEF IsTable, Entry, ReservationTypes
    <2> QED
      BY SMT, <1>1, <2>1, <2>2
  <1>4. Agrees(s)
    BY <1>1 DEF Good, Agrees
  <1> QED
    BY <1>2, <1>3, <1>4 DEF Good, s
-----------------------------------------------------------------------------
\* No call is granted by this step, and none loses what it was told.
NoNewGrant ==
    \A d \in ReserveCalls : reserve'[d].pc = "granted" => reserve'[d] = reserve[d]

\* A step that grants nothing keeps the invariant if it keeps the types and
\* writes to memory and to the file only tables that are good.
LEMMA FrameKeeps ==
    ASSUME ReservationInv, ReservationTypes', NoNewGrant, now' >= now, UNCHANGED <<artifacts, shortened, partial>>,
           OneActive(reservations'), Grants(reservations'), Agrees(reservations'),
           OneActive(table_file'), Grants(table_file'), Agrees(table_file')
    PROVE  ReservationInv'
  <1>1. \A d \in ReserveCalls : reserve'[d].until \in Nat /\ now \in Nat /\ now' \in Nat
    BY DEF ReservationInv, ReservationTypes
  <1>2. OneActive(reservations)' /\ OneActive(table_file)'
    BY DEF OneActive
  <1>3. Grants(reservations)' /\ Grants(table_file)'
    BY SMT, <1>1 DEF Grants, NoNewGrant
  <1>4. Agrees(reservations)' /\ Agrees(table_file)'
    BY DEF Agrees
  <1>5. GrantsExclusive'
    BY SMT DEF ReservationInv, GrantsExclusive, NoNewGrant
  <1> QED
    BY <1>2, <1>3, <1>4, <1>5 DEF ReservationInv, Good

\* The clock is read before the lock is taken.
LEMMA StampKeeps ==
    ASSUME ReservationInv, NEW c \in ReserveCalls, ReserveStamp(c)
    PROVE  ReservationInv'
  <1>1. /\ reserve' = [reserve EXCEPT ![c].pc = "stamped", ![c].stamp = now]
        /\ UNCHANGED <<now, reservations, table_file, artifacts, shortened, partial>>
    BY DEF ReserveStamp
  <1>2. /\ reserve' \in [ReserveCalls -> [pc : {"idle", "stamped", "granted", "conflict", "error"},
                                          stamp : Nat, at : Nat, until : Nat]]
        /\ \A d \in ReserveCalls \ {c} : reserve'[d] = reserve[d]
        /\ reserve'[c].pc = "stamped" /\ reserve'[c].stamp = now
    BY ZenonT(60), <1>1 DEF ReservationInv, ReservationTypes
  <1>3. NoNewGrant /\ \A d \in ReserveCalls : reserve'[d].stamp <= now
    BY SMT, <1>2 DEF ReservationInv, ReservationTypes, NoNewGrant
  <1>4. ReservationTypes'
    BY SMT, <1>1, <1>2, <1>3 DEF ReservationInv, ReservationTypes, IsTable
  <1> QED
    BY SMT, <1>1, <1>3, <1>4, FrameKeeps DEF ReservationInv, ReservationTypes, Good

\* What the sweep at the start of the locked section leaves.
LEMMA SweptIsGood ==
    ASSUME ReservationInv, NEW c \in ReserveCalls
    PROVE  LET s == SweepReservations(reservations, reserve[c].stamp) IN Good(s) /\ IsTable(s)
  <1>1. reserve[c].stamp \in Nat /\ reserve[c].stamp <= now
    BY DEF ReservationInv, ReservationTypes
  <1> QED
    BY <1>1, SweepKeepsGood, SweepFacts DEF ReservationInv, ReservationTypes

\* The end of a call changes that call alone.
LEMMA ReturnedFacts ==
    ASSUME ReservationTypes, NEW c \in ReserveCalls, NEW p \in {"granted", "conflict", "error"},
           NEW u \in Nat, Returned(c, p, u), now' = now
    PROVE  /\ reserve' \in [ReserveCalls -> [pc : {"idle", "stamped", "granted", "conflict", "error"},
                                             stamp : Nat, at : Nat, until : Nat]]
           /\ \A d \in ReserveCalls : reserve'[d].stamp <= now'
           /\ \A d \in ReserveCalls \ {c} : reserve'[d] = reserve[d]
           /\ reserve'[c].pc = p /\ reserve'[c].until = u /\ reserve'[c].at = now
  BY ZenonT(60) DEF ReservationTypes, Returned

\* A sweep that cannot be saved ends the call with the memory swept.
LEMMA SweepFailsKeeps ==
    ASSUME ReservationInv, NEW c \in ReserveCalls, ReserveSweepFails(c)
    PROVE  ReservationInv'
  <1> DEFINE s == SweepReservations(reservations, reserve[c].stamp)
  <1>1. Good(s) /\ IsTable(s)
    BY SweptIsGood
  <1>2. /\ reservations' = s /\ UNCHANGED <<now, table_file, artifacts, shortened, partial>>
        /\ Returned(c, "error", 0)
    BY DEF ReserveSweepFails
  <1> HIDE DEF s
  <1>3. ReservationTypes' /\ NoNewGrant
    BY <1>1, <1>2, ReturnedFacts DEF ReservationInv, ReservationTypes, NoNewGrant, IsTable
  <1> QED
    BY SMT, <1>1, <1>2, <1>3, FrameKeeps DEF ReservationInv, ReservationTypes, Good

\* A refused call leaves memory and file swept, and grants nothing.
LEMMA ConflictKeeps ==
    ASSUME ReservationInv, NEW c \in ReserveCalls, ReserveConflict(c)
    PROVE  ReservationInv'
  <1> DEFINE s == SweepReservations(reservations, reserve[c].stamp)
  <1>1. Good(s) /\ IsTable(s)
    BY SweptIsGood
  <1>2. /\ reservations' = s /\ table_file' \in {s, table_file}
        /\ UNCHANGED <<now, artifacts, shortened, partial>>
        /\ Returned(c, "conflict", 0)
    BY DEF ReserveConflict
  <1> HIDE DEF s
  <1>3. IsTable(reservations') /\ IsTable(table_file')
    BY <1>1, <1>2 DEF ReservationInv, ReservationTypes
  <1>4. ReservationTypes' /\ NoNewGrant
    BY <1>2, <1>3, ReturnedFacts DEF ReservationInv, ReservationTypes, NoNewGrant, IsTable
  <1>5. Good(reservations') /\ Good(table_file')
    BY <1>1, <1>2 DEF ReservationInv
  <1> QED
    BY SMT, <1>2, <1>4, <1>5, FrameKeeps DEF ReservationInv, ReservationTypes, Good

\* The next process starts from the file, which is as good as the memory was.
LEMMA ReloadKeeps ==
    ASSUME ReservationInv, ReservationsRestart
    PROVE  ReservationInv'
  <1> DEFINE s == SweepReservations(table_file, now)
  <1>1. Good(s) /\ IsTable(s)
    BY SMT, SweepKeepsGood, SweepFacts DEF ReservationInv, ReservationTypes
  <1>2. /\ reservations' = s /\ table_file' = s
        /\ UNCHANGED <<now, artifacts, shortened, partial>>
    BY DEF ReservationsRestart
  <1> HIDE DEF s
  <1>3. ReservationTypes'
    BY SMT, <1>1, <1>2 DEF ReservationInv, ReservationTypes, ReservationsRestart, NoStamp, IsTable
  <1>4. NoNewGrant
    BY DEF ReservationInv, ReservationTypes, ReservationsRestart, NoStamp, NoNewGrant
  <1> QED
    BY SMT, <1>1, <1>2, <1>3, <1>4, FrameKeeps DEF ReservationInv, ReservationTypes, Good

\* Time ends grants and starts none.
LEMMA NowKeeps ==
    ASSUME ReservationInv, ReservationsTick
    PROVE  ReservationInv'
  <1>1. ReservationTypes'
    BY SMT DEF ReservationInv, ReservationTypes, ReservationsTick, IsTable
  <1>2. NoNewGrant
    BY DEF ReservationsTick, NoNewGrant
  <1> QED
    BY SMT, <1>1, <1>2, FrameKeeps DEF ReservationInv, ReservationTypes, ReservationsTick, Good

\* The order of the naturals is total and transitive.
LEMMA NotLess == \A x, y, z \in Nat : ~(x < y) /\ y >= z => x >= z
  BY SMT

\* The order of the naturals is reflexive.
LEMMA SelfGeq == \A x \in Nat : x >= x
  BY SMT

\* The order of the naturals is antisymmetric.
LEMMA LessNotLeq == \A x, y \in Nat : x < y => ~(y <= x)
  BY SMT

\* The call that finds its device free, or already its own.
LEMMA GrantKeeps ==
    ASSUME ReservationInv, NEW c \in ReserveCalls, ReserveGrant(c)
    PROVE  ReservationInv'
  <1> DEFINE s  == SweepReservations(reservations, reserve[c].stamp)
             id == ReservationId(c)
             t  == Upsert(s, c)
  <1>1. Good(s) /\ IsTable(s)
    BY SweptIsGood
  <1>2. /\ DOMAIN t = DOMAIN s \cup {id} /\ IsTable(t)
        /\ t[id].state = "ACTIVE" /\ t[id].expires = Expiry(c)
        /\ \A r \in DOMAIN s \ {id} : t[r] = s[r]
    <2> HIDE DEF s
    <2>1. ReservationTypes
      BY DEF ReservationInv
    <2>2. /\ DOMAIN t = DOMAIN s \cup {id} /\ IsTable(t)
          /\ t[id] = [state |-> "ACTIVE", expires |-> Expiry(c)]
          /\ \A r \in DOMAIN s \ {id} : t[r] = s[r]
      BY <1>1, <2>1, UpsertFacts
    <2> HIDE DEF t
    <2> QED
      BY SMT, <2>2
  <1>3. /\ ActiveOn(s, Reserve[c].device) \ {id} = {}
        /\ reservations' = t /\ now' = now
        /\ shortened' = IF /\ id \in DOMAIN s /\ s[id].state = "ACTIVE"
                           /\ t[id].expires < s[id].expires
                        THEN shortened \cup {id} ELSE shortened
    BY DEF ReserveGrant
  <1>4. PICK wrote \in {"ok", "nothing", "no artifact"} :
              /\ table_file' = IF wrote # "nothing" THEN t
                               ELSE IF s # reservations THEN s ELSE table_file
              /\ artifacts' = IF wrote = "ok" THEN WriteArtifact(t, id) ELSE artifacts
              /\ IF wrote = "ok"
                 THEN Returned(c, "granted", t[id].expires) /\ UNCHANGED <<partial, reserve_faults>>
                 ELSE Returned(c, "error", 0) /\ Fault /\ partial' = partial \cup {id}
    BY DEF ReserveGrant
  <1> HIDE DEF s, t
  \* The table with the new reservation has one holder per device.
  <1>5. OneActive(t)
    <2> SUFFICES ASSUME NEW q \in DOMAIN t, NEW r \in DOMAIN t, q[1] = r[1],
                        t[q].state = "ACTIVE", t[r].state = "ACTIVE"
                 PROVE  q = r
      BY DEF OneActive
    <2>1. \A e \in DOMAIN s : e[1] = Reserve[c].device /\ s[e].state = "ACTIVE" => e = id
      BY <1>3 DEF ActiveOn
    <2>2. id[1] = Reserve[c].device
      BY DEF ReservationId
    <2> QED
      BY <1>1, <1>2, <2>1, <2>2 DEF Good, OneActive
  \* What was granted before is still covered by it, in memory.
  <1>6. \A d \in ReserveCalls :
           reserve[d].pc = "granted" =>
               \/ ReservationId(d) \in shortened'
               \/ reserve[d].until <= now
               \/ /\ ReservationId(d) \in DOMAIN t
                  /\ t[ReservationId(d)].state = "ACTIVE"
                  /\ t[ReservationId(d)].expires >= reserve[d].until
    <2> SUFFICES ASSUME NEW d \in ReserveCalls, reserve[d].pc = "granted",
                        ReservationId(d) \notin shortened', ~(reserve[d].until <= now)
                 PROVE  /\ ReservationId(d) \in DOMAIN t
                        /\ t[ReservationId(d)].state = "ACTIVE"
                        /\ t[ReservationId(d)].expires >= reserve[d].until
      OBVIOUS
    <2>1. /\ ReservationId(d) \in DOMAIN s
          /\ s[ReservationId(d)].state = "ACTIVE"
          /\ s[ReservationId(d)].expires >= reserve[d].until
      BY <1>1, <1>3 DEF Good, Grants
    <2>2. CASE ReservationId(d) # id
      BY <1>2, <2>1, <2>2
    <2>3. CASE ReservationId(d) = id
      <3>1. ~(t[id].expires < s[id].expires)
        BY <1>3, <2>1, <2>3
      <3>2. t[id].expires \in Nat /\ s[id].expires \in Nat /\ reserve[d].until \in Nat
        BY <1>1, <1>2, <2>1, <2>3 DEF IsTable, Entry, ReservationInv, ReservationTypes
      <3>3. s[id].expires >= reserve[d].until
        BY <2>1, <2>3
      <3>4. t[id].expires >= reserve[d].until
        BY <3>1, <3>2, <3>3, NotLess
      <3> QED
        BY <1>2, <2>3, <3>4
    <2> QED
      BY <2>2, <2>3
  \* Who is told that they hold the device holds it in the table that is saved.
  <1>7. /\ reserve' \in [ReserveCalls -> [pc : {"idle", "stamped", "granted", "conflict", "error"},
                                          stamp : Nat, at : Nat, until : Nat]]
        /\ \A d \in ReserveCalls : reserve'[d].stamp <= now'
        /\ \A d \in ReserveCalls \ {c} : reserve'[d] = reserve[d]
        /\ reserve'[c].pc = "granted" =>
              /\ wrote = "ok" /\ reserve'[c].until = t[id].expires /\ reserve'[c].at = now
    <2>1. t[id].expires \in Nat /\ ReservationTypes
      BY <1>2 DEF IsTable, Entry, ReservationInv
    <2>2. CASE wrote = "ok"
      BY <1>3, <1>4, <2>1, <2>2, ReturnedFacts
    <2>3. CASE wrote # "ok"
      <3>1. Returned(c, "error", 0)
        BY <1>4, <2>3
      <3> QED
        BY <1>3, <2>1, <3>1, ReturnedFacts
    <2> QED
      BY <2>2, <2>3
  <1>8. table_file' \in {t, s, table_file} /\ (wrote = "ok" => table_file' = t)
    BY <1>4
  <1>9. ReservationTypes'
    <2>1. IsTable(reservations') /\ IsTable(table_file')
      BY <1>1, <1>2, <1>3, <1>8 DEF ReservationInv, ReservationTypes
    <2> QED
      BY <1>3, <1>7, <2>1 DEF ReservationInv, ReservationTypes, IsTable
  <1>10. shortened \subseteq shortened'
    BY <1>3
  <1>11. Grants(reservations)'
    <2> SUFFICES ASSUME NEW d \in ReserveCalls, reserve'[d].pc = "granted"
                 PROVE  \/ ReservationId(d) \in shortened'
                        \/ reserve'[d].until <= now
                        \/ /\ ReservationId(d) \in DOMAIN t
                           /\ t[ReservationId(d)].state = "ACTIVE"
                           /\ t[ReservationId(d)].expires >= reserve'[d].until
      BY <1>3 DEF Grants, ReservationId
    <2>1. CASE d # c
      BY <1>6, <1>7, <2>1
    <2>2. CASE d = c
      <3>1. t[id].expires \in Nat
        BY <1>2 DEF IsTable, Entry
      <3>2. reserve'[d].until = t[id].expires
        BY <1>7, <2>2
      <3>3. t[id].expires >= reserve'[d].until
        BY <3>1, <3>2, SelfGeq
      <3> QED
        BY <1>2, <2>2, <3>3
    <2> QED
      BY <2>1, <2>2
  <1>12. Grants(table_file)'
    <2>1. CASE wrote = "ok"
      BY <1>3, <1>8, <1>11, <2>1 DEF Grants, ReservationId
    <2>2. CASE wrote # "ok"
      <3> SUFFICES ASSUME NEW d \in ReserveCalls, reserve'[d].pc = "granted",
                          ReservationId(d) \notin shortened', ~(reserve'[d].until <= now')
                   PROVE  /\ ReservationId(d) \in DOMAIN table_file'
                          /\ table_file'[ReservationId(d)].state = "ACTIVE"
                          /\ table_file'[ReservationId(d)].expires >= reserve'[d].until
        BY DEF Grants, ReservationId
      <3>1. reserve'[d] = reserve[d]
        BY <1>7, <2>2
      <3>2. Grants(s) /\ Grants(table_file)
        BY <1>1 DEF Good, ReservationInv
      <3>3. CASE table_file' = t
        BY <1>3, <1>6, <3>1, <3>3
      <3>4. CASE table_file' \in {s, table_file}
        BY <1>3, <1>10, <3>1, <3>2, <3>4 DEF Grants
      <3> QED
        BY <1>8, <3>3, <3>4
    <2> QED
      BY <2>1, <2>2
  <1>13. OneActive(reservations)' /\ OneActive(table_file)'
    <2>1. OneActive(reservations') /\ OneActive(table_file')
      BY <1>1, <1>3, <1>5, <1>8 DEF Good, ReservationInv
    <2> QED
      BY <2>1 DEF OneActive
  \* The artifact is written with the table's entry, or its failure is on record.
  <1>14. Agrees(reservations)' /\ Agrees(table_file)'
    <2>1. Agrees(s) /\ Agrees(table_file)
      BY <1>1 DEF Good, ReservationInv
    <2>2. CASE wrote = "ok"
      <3>1. /\ partial' = partial /\ reservations' = t /\ table_file' = t
            /\ artifacts' = WriteArtifact(t, id)
        BY <1>3, <1>4, <1>8, <2>2
      <3>2. /\ DOMAIN artifacts' = DOMAIN artifacts \cup {id} /\ artifacts'[id] = t[id]
            /\ \A r \in DOMAIN artifacts \ {id} : artifacts'[r] = artifacts[r]
        BY <3>1 DEF WriteArtifact
      <3> QED
        BY ZenonT(60), <1>2, <2>1, <3>1, <3>2 DEF Agrees
    <2>3. CASE wrote # "ok"
      <3>1. partial' = partial \cup {id} /\ artifacts' = artifacts
        BY <1>4, <2>3
      <3>2. reservations' = t
        BY <1>3
      <3>3. CASE table_file' = t
        BY ZenonT(60), <1>2, <2>1, <3>1, <3>2, <3>3 DEF Agrees
      <3>4. CASE table_file' \in {s, table_file}
        BY <1>2, <2>1, <3>1, <3>2, <3>4 DEF Agrees
      <3> QED
        BY <1>8, <3>3, <3>4
    <2> QED
      BY <2>2, <2>3
  \* A rival that was granted the device is over, or had its expiry moved back.
  <1>15. ASSUME NEW d \in ReserveCalls, d # c, reserve'[d].pc = "granted", now < reserve'[d].until,
                Reserve[c].device = Reserve[d].device, Reserve[c].owner # Reserve[d].owner
         PROVE  ReservationId(d) \in shortened'
    <2>1. reserve'[d] = reserve[d]
      BY <1>7, <1>15
    <2>2. reserve[d].until \in Nat /\ now \in Nat
      BY DEF ReservationInv, ReservationTypes
    <2>3. ReservationId(d) # id /\ ReservationId(d)[1] = Reserve[c].device
      BY <1>15 DEF ReservationId
    <2>4. ~(/\ ReservationId(d) \in DOMAIN s /\ s[ReservationId(d)].state = "ACTIVE")
      BY <1>3, <2>3 DEF ActiveOn
    <2>5. ~(reserve[d].until <= now)
      BY <1>15, <2>1, <2>2, LessNotLeq
    <2>6. reserve[d].pc = "granted" /\ Grants(s)
      BY <1>1, <1>15, <2>1 DEF Good
    <2>7. ReservationId(d) \in shortened
      BY <2>4, <2>5, <2>6 DEF Grants
    <2> QED
      BY <1>10, <2>7
  <1>16. GrantsExclusive'
    <2> SUFFICES ASSUME NEW d \in ReserveCalls, NEW e \in ReserveCalls,
                        reserve'[d].pc = "granted", reserve'[e].pc = "granted",
                        Reserve[d].device = Reserve[e].device, Reserve[d].owner # Reserve[e].owner,
                        reserve'[d].at < reserve'[e].until, reserve'[e].at < reserve'[d].until
                 PROVE  shortened' \cap {ReservationId(d), ReservationId(e)} # {}
      BY DEF GrantsExclusive, ReservationId
    <2>1. CASE d = c
      <3>1. e # c /\ now < reserve'[e].until
        BY <1>7, <2>1
      <3> QED
        BY <1>15, <2>1, <3>1
    <2>2. CASE e = c
      <3>1. d # c /\ now < reserve'[d].until
        BY <1>7, <2>2
      <3> QED
        BY <1>15, <2>2, <3>1
    <2>3. CASE d # c /\ e # c
      <3>1. reserve'[d] = reserve[d] /\ reserve'[e] = reserve[e]
        BY <1>7, <2>3
      <3> QED
        BY <1>10, <3>1 DEF ReservationInv, GrantsExclusive
    <2> QED
      BY <2>1, <2>2, <2>3
  <1> QED
    BY <1>9, <1>11, <1>12, <1>13, <1>14, <1>16 DEF ReservationInv, Good
-----------------------------------------------------------------------------
\* Every step of the service keeps the invariant.
LEMMA ReservationsKeep == ReservationInv /\ [ReservationsNext]_reservationVars => ReservationInv'
  <1> SUFFICES ASSUME ReservationInv, [ReservationsNext]_reservationVars PROVE ReservationInv'
    OBVIOUS
  <1>1. CASE \E c \in ReserveCalls :
                ReserveStamp(c) \/ ReserveSweepFails(c) \/ ReserveConflict(c) \/ ReserveGrant(c)
    BY <1>1, StampKeeps, SweepFailsKeeps, ConflictKeeps, GrantKeeps
  <1>2. CASE ReservationsRestart
    BY <1>2, ReloadKeeps
  <1>3. CASE ReservationsTick
    BY <1>3, NowKeeps
  <1>4. CASE UNCHANGED reservationVars
    BY SMT, <1>4 DEF reservationVars, ReservationInv, ReservationTypes, Good, OneActive, Grants, Agrees, GrantsExclusive, IsTable
  <1> QED
    BY <1>1, <1>2, <1>3, <1>4 DEF ReservationsNext

\* A device has one holder in memory and in the file, no two owners are told
\* that they hold it at once, and artifacts agree with the table, for any calls,
\* lifetimes, faults and restarts of ReserveDevice.
THEOREM ReservationsAlwaysSound == ReservationsSpec => []ReservationsSound
  <1>1. ReservationInv => ReservationsSound
    BY DEF ReservationInv, Good, OneActive, Agrees, ReservationsSound, OneActivePerDevice, ArtifactAgrees
  <1> QED
    BY <1>1, ReservationsBegin, ReservationsKeep, PTL DEF ReservationsSpec
-----------------------------------------------------------------------------
(****************************************************************************)
(* The driver registry.                                                    *)
(****************************************************************************)
\* A registration holds the devices its driver listed when it was added, all or
\* none, and every one of them leads back to it.
Registrations ==
    \A n \in DOMAIN registered :
        /\ registered[n].devices \in {{}, Ids(Driver[registered[n].object].devices)}
        /\ \A d \in registered[n].devices : d \in DOMAIN owner /\ owner[d] = n

\* The refusals and their counters.
Tallied == rejects \in [Counters -> Nat] /\ refused \in Nat /\ RefusalsCounted

\* The inductive invariant of the registry.
RegistryInv == Registrations /\ IndexExact /\ InitializeFailsClosed /\ Tallied
               /\ DOMAIN init_error = Objects /\ DOMAIN numbers = Objects

\* add_driver indexes exactly the devices it registers, none of them taken.
LEMMA AddKeeps ==
    ASSUME RegistryInv, NEW o \in Objects, AddDriver(o)
    PROVE  Registrations' /\ IndexExact'
  <1> DEFINE ids == Ids(Listed(o))
             name == Driver[o].name
  <1>1. /\ name \notin DOMAIN registered /\ ids \cap DOMAIN owner = {}
        /\ owner' = [d \in DOMAIN owner \cup ids |-> IF d \in ids THEN name ELSE owner[d]]
        /\ registered' = [n \in DOMAIN registered \cup {name} |->
                            IF n = name THEN [object |-> o, devices |-> ids] ELSE registered[n]]
        /\ DOMAIN profiles' = DOMAIN profiles \cup ids
    BY DEF AddDriver, AddRefused
  <1>2. /\ \A d \in ids : profiles'[d].driver = name
        /\ \A d \in DOMAIN profiles \ ids : profiles'[d] = profiles[d]
    <2>1. profiles' = [d \in DOMAIN profiles \cup ids |->
                        IF d \in ids THEN Profile(o, CHOOSE device \in Listed(o) : device.id = d)
                                     ELSE profiles[d]]
      BY DEF AddDriver
    <2> HIDE DEF ids
    <2>2. \A device : Profile(o, device).driver = name
      BY DEF Profile
    <2> QED BY <2>1, <2>2
  <1>3. ids \in {{}, Ids(Driver[o].devices)}
    BY DEF Listed, Ids
  <1> HIDE DEF ids, name
  <1>4. /\ DOMAIN registered' = DOMAIN registered \cup {name}
        /\ registered'[name].object = o /\ registered'[name].devices = ids
        /\ \A n \in DOMAIN registered : registered'[n] = registered[n]
    BY <1>1
  <1>5. /\ DOMAIN owner' = DOMAIN owner \cup ids
        /\ \A d \in ids : owner'[d] = name
        /\ \A d \in DOMAIN owner : owner'[d] = owner[d] /\ d \notin ids
    BY <1>1
  <1>6. Registrations'
    <2> SUFFICES ASSUME NEW n \in DOMAIN registered'
                 PROVE  /\ registered'[n].devices \in {{}, Ids(Driver[registered'[n].object].devices)}
                        /\ \A d \in registered'[n].devices : d \in DOMAIN owner' /\ owner'[d] = n
      BY DEF Registrations, Ids
    <2>1. CASE n = name
      BY <1>3, <1>4, <1>5, <2>1
    <2>2. CASE n # name
      BY <1>4, <1>5, <2>2 DEF RegistryInv, Registrations
    <2> QED BY <2>1, <2>2
  <1>7. IndexExact'
    <2>1. DOMAIN profiles' = DOMAIN owner'
      BY <1>1, <1>5 DEF RegistryInv, IndexExact
    <2>2. DOMAIN owner' = UNION {registered'[n].devices : n \in DOMAIN registered'}
      <3>1. DOMAIN owner = UNION {registered[n].devices : n \in DOMAIN registered}
        BY DEF RegistryInv, IndexExact
      <3>2. ASSUME NEW d \in DOMAIN owner' PROVE \E n \in DOMAIN registered' : d \in registered'[n].devices
        <4>1. CASE d \in ids
          BY <1>4, <4>1
        <4>2. CASE d \notin ids
          BY SMT, <1>4, <1>5, <3>1, <4>2
        <4> QED BY <4>1, <4>2
      <3>3. ASSUME NEW n \in DOMAIN registered', NEW d \in registered'[n].devices PROVE d \in DOMAIN owner'
        BY <1>6, <3>3 DEF Registrations
      <3> QED BY <3>2, <3>3
    <2>3. ASSUME NEW d \in DOMAIN owner'
          PROVE  /\ owner'[d] \in DOMAIN registered'
                 /\ d \in registered'[owner'[d]].devices /\ profiles'[d].driver = owner'[d]
      <3>1. CASE d \in ids
        BY SMT, <1>2, <1>4, <1>5, <3>1
      <3>2. CASE d \notin ids
        <4>1. d \in DOMAIN owner /\ owner'[d] = owner[d]
          BY <1>5, <3>2
        <4>2. /\ owner[d] \in DOMAIN registered /\ d \in registered[owner[d]].devices
              /\ profiles[d].driver = owner[d] /\ d \in DOMAIN profiles
          BY <4>1 DEF RegistryInv, IndexExact
        <4> QED BY <1>2, <1>4, <3>2, <4>1, <4>2
      <3> QED BY <3>1, <3>2
    <2> QED BY <2>1, <2>2, <2>3 DEF IndexExact
  <1> QED BY <1>6, <1>7

\* remove_driver drops exactly the devices of its registration from the index.
LEMMA RemoveKeeps ==
    ASSUME RegistryInv, NEW n \in Names, RemoveDriver(n)
    PROVE  Registrations' /\ IndexExact'
  <1> DEFINE gone == registered[n].devices
  <1>1. /\ n \in DOMAIN registered
        /\ owner' = [d \in DOMAIN owner \ gone |-> owner[d]]
        /\ profiles' = [d \in DOMAIN profiles \ gone |-> profiles[d]]
        /\ registered' = [m \in DOMAIN registered \ {n} |-> registered[m]]
    BY DEF RemoveDriver, Forgetting, Released
  <1> HIDE DEF gone
  <1>2. /\ DOMAIN owner' = DOMAIN owner \ gone /\ \A d \in DOMAIN owner' : owner'[d] = owner[d]
        /\ DOMAIN profiles' = DOMAIN profiles \ gone /\ \A d \in DOMAIN profiles' : profiles'[d] = profiles[d]
        /\ DOMAIN registered' = DOMAIN registered \ {n}
        /\ \A m \in DOMAIN registered' : registered'[m] = registered[m]
    BY <1>1
  <1>3. \A m \in DOMAIN registered : \A d \in registered[m].devices : d \in DOMAIN owner /\ owner[d] = m
    BY DEF RegistryInv, Registrations
  <1>4. \A m \in DOMAIN registered' : \A d \in registered[m].devices : d \notin gone
    BY SMT, <1>1, <1>2, <1>3 DEF gone
  <1>5. Registrations'
    <2> SUFFICES ASSUME NEW m \in DOMAIN registered'
                 PROVE  /\ registered'[m].devices \in {{}, Ids(Driver[registered'[m].object].devices)}
                        /\ \A d \in registered'[m].devices : d \in DOMAIN owner' /\ owner'[d] = m
      BY DEF Registrations, Ids
    <2> QED BY <1>2, <1>3, <1>4 DEF RegistryInv, Registrations
  <1>6. IndexExact'
    <2>1. DOMAIN profiles' = DOMAIN owner'
      BY <1>2 DEF RegistryInv, IndexExact
    <2>2. \A d \in DOMAIN owner : owner[d] \in DOMAIN registered /\ d \in registered[owner[d]].devices
      BY DEF RegistryInv, IndexExact
    <2>3. \A d \in DOMAIN owner' : /\ owner'[d] \in DOMAIN registered'
                                   /\ d \in registered'[owner'[d]].devices
      BY SMT, <1>2, <2>2 DEF gone
    <2>4. \A d \in DOMAIN owner' : profiles'[d].driver = owner'[d]
      BY <1>2, <2>1 DEF RegistryInv, IndexExact
    <2>5. DOMAIN owner' = UNION {registered'[m].devices : m \in DOMAIN registered'}
      <3>1. ASSUME NEW d \in DOMAIN owner' PROVE \E m \in DOMAIN registered' : d \in registered'[m].devices
        BY <2>3
      <3>2. ASSUME NEW m \in DOMAIN registered', NEW d \in registered'[m].devices PROVE d \in DOMAIN owner'
        BY <1>2, <1>3, <1>4
      <3> QED BY <3>1, <3>2
    <2> QED BY <2>1, <2>3, <2>4, <2>5 DEF IndexExact
  <1> QED BY <1>5, <1>6

\* initialize of one driver touches nothing of the registry.
LEMMA InitializeKeeps ==
    ASSUME RegistryInv, NEW o \in Objects, NEW config, Initialize(o, config)
    PROVE  /\ InitializeFailsClosed' /\ UNCHANGED <<registered, owner, profiles, rejects, refused>>
           /\ DOMAIN init_error' = Objects /\ DOMAIN numbers' = Objects
  <1> DEFINE objection == IF ProviderConfigError(config) # "" THEN ProviderConfigError(config)
                                                         ELSE AuthError(o, config)
             ok == objection = "" /\ config.numbers
             verdict == IF config.numbers THEN "valid" ELSE "invalid"
  <1>1. /\ init_error' = [init_error EXCEPT ![o] = objection]
        /\ numbers' = [numbers EXCEPT ![o] = verdict]
        /\ ready' = Initialized(o, ok)
        /\ UNCHANGED <<registered, owner, profiles, rejects, refused>>
    BY DEF Initialize
  <1> HIDE DEF objection
  <1>2. /\ DOMAIN init_error' = Objects /\ DOMAIN numbers' = Objects
        /\ init_error'[o] = objection /\ numbers'[o] = verdict
        /\ \A q \in Objects : q # o => init_error'[q] = init_error[q] /\ numbers'[q] = numbers[q]
        /\ \A q \in Objects : q # o => (q \in ready' <=> q \in ready)
        /\ o \in ready' <=> ok
    BY <1>1 DEF RegistryInv, Initialized
  <1>3. InitializeFailsClosed'
    <2> SUFFICES ASSUME NEW q \in Objects, numbers'[q] # "never"
                 PROVE  /\ q \in ready' => init_error'[q] = "" /\ numbers'[q] = "valid"
                        /\ q \notin ready' => init_error'[q] # "" \/ numbers'[q] = "invalid"
      BY DEF InitializeFailsClosed
    <2>1. CASE q = o
      BY <1>2, <2>1
    <2>2. CASE q # o
      BY <1>2, <2>2 DEF RegistryInv, InitializeFailsClosed
    <2> QED BY <2>1, <2>2
  <1> QED BY <1>1, <1>2, <1>3

\* A refusal is counted under the one policy that was broken first.
LEMMA RejectKeeps ==
    ASSUME RegistryInv, NEW p, RejectPlugin(p)
    PROVE  Tallied'
  <1> DEFINE k == PolicyBroken(p)
  <1>1. k \in Counters
    BY DEF RejectPlugin, PolicyBroken, Counters
  <1>2. rejects' = [rejects EXCEPT ![k] = @ + 1] /\ refused' = refused + 1
    BY DEF RejectPlugin
  <1> HIDE DEF k
  <1>3. /\ rejects' \in [Counters -> Nat] /\ rejects'[k] = rejects[k] + 1
        /\ \A x \in Counters : rejects[x] \in Nat /\ (x # k => rejects'[x] = rejects[x])
    BY SMT, <1>1, <1>2 DEF RegistryInv, Tallied
  <1>4. refused \in Nat /\ RefusalsCounted
    BY DEF RegistryInv, Tallied
  <1>5. RefusalsCounted'
    <2>1. CASE k = "in_process"
      BY SMT, <1>2, <1>3, <1>4, <2>1 DEF RefusalsCounted, Counters
    <2>2. CASE k = "boundary"
      BY SMT, <1>2, <1>3, <1>4, <2>2 DEF RefusalsCounted, Counters
    <2>3. CASE k = "sandbox"
      BY SMT, <1>2, <1>3, <1>4, <2>3 DEF RefusalsCounted, Counters
    <2>4. CASE k = "signature"
      BY SMT, <1>2, <1>3, <1>4, <2>4 DEF RefusalsCounted, Counters
    <2>5. CASE k = "matrix"
      BY SMT, <1>2, <1>3, <1>4, <2>5 DEF RefusalsCounted, Counters
    <2> QED BY <1>1, <2>1, <2>2, <2>3, <2>4, <2>5 DEF Counters
  <1> QED BY SMT, <1>2, <1>3, <1>4, <1>5 DEF Tallied

\* Every call of the registry keeps the invariant.
LEMMA RegistryKeeps ==
    ASSUME RegistryInv, [DriversNext \/ SessionsNext]_registryVars
    PROVE  RegistryInv'
  <1> DEFINE initVars == <<ready, init_error, numbers>>
             indexVars == <<registered, owner, profiles>>
             tallyVars == <<rejects, refused>>
  <1>1. UNCHANGED initVars => InitializeFailsClosed' /\ DOMAIN init_error' = Objects /\ DOMAIN numbers' = Objects
    BY DEF RegistryInv, InitializeFailsClosed
  <1>2. UNCHANGED indexVars => Registrations' /\ IndexExact'
    BY SMT DEF RegistryInv, Registrations, IndexExact
  <1>3. UNCHANGED tallyVars => Tallied'
    BY DEF RegistryInv, Tallied, RefusalsCounted
  <1>4. ASSUME NEW o \in Objects, AddDriver(o) PROVE RegistryInv'
    BY <1>1, <1>3, <1>4, AddKeeps DEF AddDriver, RegistryInv
  <1>5. ASSUME NEW n \in Names, RemoveDriver(n) PROVE RegistryInv'
    BY <1>1, <1>3, <1>5, RemoveKeeps DEF RemoveDriver, RegistryInv
  <1>6. ASSUME NEW o \in Objects, NEW config, Initialize(o, config) PROVE RegistryInv'
    BY <1>2, <1>3, <1>6, InitializeKeeps DEF RegistryInv
  <1>7. ASSUME NEW p, RejectPlugin(p) PROVE RegistryInv'
    BY <1>1, <1>2, <1>7, RejectKeeps DEF RejectPlugin, RegistryInv
  <1>8. CASE UNCHANGED registryVars \/ \E n \in Names, k \in SessionKeys :
                                            GetOrCreateSession(n, k) \/ InvalidateSession(n, k)
    BY <1>1, <1>2, <1>3, <1>8 DEF registryVars, GetOrCreateSession, InvalidateSession, RegistryInv
  <1> QED BY <1>4, <1>5, <1>6, <1>7, <1>8 DEF DriversNext, SessionsNext, AddPluginDriver

\* A listed device leads through the index to the driver that listed it.
LEMMA ServedFollows == RegistryInv => ListedIsServed /\ HealthyServes
  <1> SUFFICES ASSUME RegistryInv PROVE ListedIsServed /\ HealthyServes
    OBVIOUS
  <1>1. HealthyServes
    BY DEF RegistryInv, IndexExact, HealthyServes, Healthy
  <1>2. ASSUME NEW n \in DOMAIN registered, NEW device \in Listed(registered[n].object),
               registered[n].devices # {}
        PROVE  /\ DriverForDevice(device.id) \in DOMAIN registered
               /\ registered[DriverForDevice(device.id)].object \in ready
    <2>1. registered[n].object \in ready /\ device \in Driver[registered[n].object].devices
      BY DEF Listed
    <2>2. device.id \in registered[n].devices
      BY SMT, <1>2, <2>1 DEF RegistryInv, Registrations, Ids
    <2>3. device.id \in DOMAIN owner /\ owner[device.id] = n
      BY <2>2 DEF RegistryInv, Registrations
    <2> QED BY <2>1, <2>3 DEF DriverForDevice
  <1>3. ASSUME NEW n \in DOMAIN registered, NEW device \in Listed(registered[n].object)
        PROVE  device \in Driver[registered[n].object].devices
    BY DEF Listed
  <1> QED BY SMT, <1>1, <1>2, <1>3 DEF ListedIsServed, ListDevices

\* No call makes an invalidated session active again.
LEMMA SessionsStay ==
    ASSUME [DriversNext \/ SessionsNext]_registryVars, NEW key \in DOMAIN sessions,
           sessions[key] = "invalidated"
    PROVE  key \in DOMAIN sessions' /\ sessions'[key] = "invalidated"
  <1>1. CASE UNCHANGED sessions
    BY <1>1
  <1>2. ASSUME NEW n \in Names, NEW k \in SessionKeys, GetOrCreateSession(n, k)
        PROVE  key \in DOMAIN sessions' /\ sessions'[key] = "invalidated"
    BY <1>2 DEF GetOrCreateSession, SessionTable, SessionCreated
  <1>3. ASSUME NEW n \in Names, NEW k \in SessionKeys, InvalidateSession(n, k)
        PROVE  key \in DOMAIN sessions' /\ sessions'[key] = "invalidated"
    BY <1>3 DEF InvalidateSession
  <1>4. CASE DriversNext \/ UNCHANGED registryVars
    BY <1>1, <1>4 DEF DriversNext, registryVars, Initialize, AddDriver, AddPluginDriver, RejectPlugin, RemoveDriver
  <1>5. CASE \/ \E o \in Objects : AddDriver(o)
             \/ \E n \in Names : RemoveDriver(n)
    BY <1>1, <1>5 DEF AddDriver, RemoveDriver
  <1> QED BY <1>2, <1>3, <1>4, <1>5 DEF SessionsNext

\* The registry starts empty.
LEMMA RegistryBegins == RegistryInit => RegistryInv
  <1> SUFFICES ASSUME RegistryInit PROVE RegistryInv
    OBVIOUS
  <1>1. DOMAIN registered = {} /\ DOMAIN owner = {} /\ DOMAIN profiles = {}
    <2>1. registered = <<>> /\ owner = <<>> /\ profiles = <<>>
      BY DEF RegistryInit
    <2> QED BY SMT, <2>1
  <1>2. Registrations /\ IndexExact
    BY <1>1 DEF Registrations, IndexExact
  <1>3. rejects \in [Counters -> Nat] /\ refused = 0 /\ \A k \in Counters : rejects[k] = 0
    BY DEF RegistryInit
  <1>4. RefusalsCounted
    BY SMT, <1>3 DEF RefusalsCounted, Counters
  <1>5. InitializeFailsClosed /\ DOMAIN init_error = Objects /\ DOMAIN numbers = Objects
    <2>1. init_error = [o \in Objects |-> ""] /\ numbers = [o \in Objects |-> "never"]
      BY DEF RegistryInit
    <2> QED BY <2>1 DEF InitializeFailsClosed
  <1> QED BY <1>2, <1>3, <1>4, <1>5 DEF RegistryInv, Tallied

\* The registry's index, profiles, listing, health and refusal counters stay exact,
\* initialisation fails closed and an invalidated session stays so, for any
\* drivers, devices, configurations and order of calls.
THEOREM RegistryIsExact ==
    RegistrySpec => /\ []IndexExact /\ []ListedIsServed /\ []HealthyServes
                    /\ []InitializeFailsClosed /\ []RefusalsCounted /\ InvalidatedForever
  <1>1. RegistryInit => RegistryInv
    BY RegistryBegins
  <1>2. RegistryInv /\ [DriversNext \/ SessionsNext]_registryVars => RegistryInv'
    BY RegistryKeeps
  <1>3. RegistryInv => /\ IndexExact /\ ListedIsServed /\ HealthyServes
                       /\ InitializeFailsClosed /\ RefusalsCounted
    BY ServedFollows DEF RegistryInv, Tallied
  <1> DEFINE Stay == \A key \in DOMAIN sessions : sessions[key] = "invalidated" =>
                        key \in DOMAIN sessions' /\ sessions'[key] = "invalidated"
  <1>4. [DriversNext \/ SessionsNext]_registryVars => [Stay]_registryVars
    BY SessionsStay
  <1> QED BY <1>1, <1>2, <1>3, <1>4, PTL DEF RegistrySpec, InvalidatedForever
-----------------------------------------------------------------------------
(****************************************************************************)
(* ExecuteCircuit.                                                         *)
(****************************************************************************)
\* The status codes that occur.
Codes == {"UNAVAILABLE", "INVALID_ARGUMENT", "ABORTED", "RESOURCE_EXHAUSTED", "DEADLINE_EXCEEDED",
          "PERMISSION_DENIED", "FAILED_PRECONDITION", "UNIMPLEMENTED", "INTERNAL", "none"}
\* The state of an ExecuteCircuit call.
Execution == [pc : {"received", "calling", "aborted", "done"}, request : RpcRequests, kind : Kinds,
              attempt : Nat, errors : Seq(Codes), code : Codes, cut : BOOLEAN]

\* While the provider is being called every earlier failure was transient, one
\* per attempt made, and the deadline has not passed.
ExecutionInv ==
    /\ exec \in Execution /\ elapsed \in Nat
    /\ exec.pc = "received" => exec.errors = <<>> /\ exec.attempt = 0 /\ elapsed = 0 /\ ~exec.cut
    /\ exec.pc = "calling" =>
          /\ elapsed <= Timeout /\ exec.attempt \in 1..(MaxRetries + 1) /\ ~exec.cut
          /\ Len(exec.errors) = exec.attempt - 1
          /\ \A i \in 1..Len(exec.errors) : IsRetryable(exec.errors[i])
    /\ RetriesSound

\* map_backend_error keeps every code of its table.
LEMMA MappedCode ==
    ASSUME NEW code \in Codes
    PROVE  /\ MapBackendError(code).code \in Codes
           /\ MapBackendError(code).code = IF code \in {"ABORTED", "INTERNAL", "none"} THEN "INTERNAL" ELSE code
  BY DEF Codes, MapBackendError, Taxonomy

\* Normalising an error yields a status code.
LEMMA NormalizedCode ==
    ASSUME NEW kind \in Kinds, NEW e \in Raised
    PROVE  NormalizeProviderError(kind, e) \in Codes
  BY DEF Kinds, Raised, Texts, NormalizeProviderError, BraketError, QiskitError, Codes

\* RetryInfo accompanies exactly the codes the driver retries.
LEMMA AdviceFollowsCode ==
    ASSUME NEW code
    PROVE  /\ AbortDetails(code).retryable = (AbortDetails(code).retry_after > 0)
           /\ AbortDetails(code).retryable = IsRetryable(code)
  BY SMT DEF AbortDetails, RetryDelay, IsRetryable

\* The sleep ends no later than the deadline.
LEMMA PauseBounded ==
    ASSUME NEW attempt \in Nat, NEW t \in Nat, t < Timeout
    PROVE  t + Pause(attempt, t) \in Nat /\ t + Pause(attempt, t) <= Timeout
  <1>1. Backoff * attempt \in Nat /\ Timeout \in Nat
    BY SMT, DriverExecutionAssumption
  <1> DEFINE b == Backoff * attempt
  <1> HIDE DEF b
  <1>2. b \in Nat
    BY <1>1 DEF b
  <1>3. Pause(attempt, t) = IF b < Timeout - t THEN b ELSE Timeout - t
    BY DEF Pause, Smaller, b
  <1> QED BY SMT, <1>1, <1>2, <1>3

\* A call that was just received has failed in no attempt.
LEMMA ExecutionBegins == ExecutionInit => ExecutionInv
  <1> SUFFICES ASSUME ExecutionInit PROVE ExecutionInv
    OBVIOUS
  <1>1. PICK request \in RpcRequests, kind \in Kinds :
          exec = [pc |-> "received", request |-> request, kind |-> kind, attempt |-> 0,
                  errors |-> <<>>, code |-> "none", cut |-> FALSE]
    BY DEF ExecutionInit
  <1>2. <<>> \in Seq(Codes) /\ "none" \in Codes
    BY SMT DEF Codes
  <1>3. exec \in Execution
    BY <1>1, <1>2 DEF Execution
  <1>4. elapsed = 0 /\ Timeout \in Nat /\ MaxRetries \in Nat
    BY DriverExecutionAssumption DEF ExecutionInit
  <1> QED BY SMT, <1>1, <1>3, <1>4 DEF ExecutionInv, RetriesSound, CallTimeBounded, RetriesAreTransient, AdviceAgrees

\* A call that is refused before the first attempt.
LEMMA RefusalKeeps ==
    ASSUME ExecutionInv, exec.pc = "received", NEW code \in Codes, Aborted(code), UNCHANGED elapsed
    PROVE  ExecutionInv'
  <1> DEFINE c == MapBackendError(code).code
  <1>1. c \in Codes /\ exec' = [exec EXCEPT !.pc = "aborted", !.code = c]
    BY MappedCode DEF Aborted
  <1> HIDE DEF c
  <1>2. /\ exec' \in Execution /\ exec'.pc = "aborted" /\ exec'.code = c
        /\ exec'.errors = <<>> /\ exec'.attempt = 0
    BY <1>1 DEF ExecutionInv, Execution
  <1>3. CallTimeBounded'
    BY DEF ExecutionInv, RetriesSound, CallTimeBounded
  <1>4. RetriesAreTransient'
    BY SMT, <1>2, DriverExecutionAssumption DEF RetriesAreTransient
  <1>5. AdviceAgrees'
    BY <1>2, AdviceFollowsCode DEF AdviceAgrees
  <1> QED BY <1>2, <1>3, <1>4, <1>5 DEF ExecutionInv, RetriesSound

\* The first attempt starts at once.
LEMMA StartKeeps ==
    ASSUME ExecutionInv, exec.pc = "received", UNCHANGED elapsed,
           exec' = [exec EXCEPT !.pc = "calling", !.attempt = 1]
    PROVE  ExecutionInv'
  <1>1. /\ exec' \in Execution /\ exec'.pc = "calling" /\ exec'.attempt = 1
        /\ exec'.errors = <<>> /\ ~exec'.cut /\ elapsed' = 0
    BY DEF ExecutionInv, Execution
  <1>2. Timeout \in Nat /\ MaxRetries \in Nat
    BY DriverExecutionAssumption
  <1> QED BY SMT, <1>1, <1>2 DEF ExecutionInv, RetriesSound, CallTimeBounded, RetriesAreTransient, AdviceAgrees

\* A call that succeeds took at most one timeout more.
LEMMA AnswerKeeps ==
    ASSUME ExecutionInv, ProviderAnswers
    PROVE  ExecutionInv'
  <1>1. /\ exec' \in Execution /\ exec'.pc = "done" /\ exec'.attempt = exec.attempt
        /\ exec'.errors = exec.errors /\ exec'.cut = exec.cut
    BY DEF ExecutionInv, Execution, ProviderAnswers
  <1>2. Timeout \in Nat /\ elapsed \in Nat /\ elapsed <= Timeout /\ elapsed' \in elapsed..(elapsed + Timeout)
    BY DriverExecutionAssumption DEF ExecutionInv, ProviderAnswers
  <1>3. elapsed' \in Nat /\ CallTimeBounded'
    BY SMT, <1>2 DEF CallTimeBounded
  <1>4. RetriesAreTransient'
    BY <1>1 DEF ExecutionInv, RetriesSound, RetriesAreTransient
  <1> QED BY <1>1, <1>3, <1>4 DEF ExecutionInv, RetriesSound, AdviceAgrees

\* One more failure of the provider, as the loop sees it.
LEMMA FailureKeeps ==
    ASSUME ExecutionInv, ProviderFails
    PROVE  ExecutionInv'
  <1>1. PICK e \in Raised, t \in elapsed..(elapsed + Timeout) :
          LET code   == NormalizeProviderError(exec.kind, e)
              errors == Append(exec.errors, code)
          IN  IF GivesUp(code, exec.attempt)
              THEN /\ exec' = [exec EXCEPT !.pc = "aborted", !.errors = errors,
                                           !.code = MapBackendError(code).code]
                   /\ elapsed' = t
              ELSE IF t >= Timeout
              THEN /\ exec' = [exec EXCEPT !.pc = "aborted", !.errors = errors, !.cut = TRUE,
                                           !.code = "DEADLINE_EXCEEDED"]
                   /\ elapsed' = t
              ELSE /\ exec' = [exec EXCEPT !.attempt = @ + 1, !.errors = errors]
                   /\ elapsed' = t + Pause(exec.attempt, t)
    BY DEF ProviderFails
  <1> DEFINE code == NormalizeProviderError(exec.kind, e)
             errors == Append(exec.errors, code)
             n == exec.attempt
  <1>2. /\ exec \in Execution /\ exec.pc = "calling" /\ ~exec.cut
        /\ elapsed \in Nat /\ elapsed <= Timeout /\ n \in 1..(MaxRetries + 1)
        /\ Len(exec.errors) = n - 1
        /\ \A i \in 1..Len(exec.errors) : IsRetryable(exec.errors[i])
    BY DEF ExecutionInv, ProviderFails
  <1>3. exec.errors \in Seq(Codes) /\ exec.kind \in Kinds
    BY <1>2 DEF Execution
  <1>4. Timeout \in Nat /\ MaxRetries \in Nat
    BY DriverExecutionAssumption
  <1>5. t \in Nat /\ t <= 2 * Timeout
    BY SMT, <1>2, <1>4
  <1>6. code \in Codes
    BY <1>3, NormalizedCode
  <1>7. n \in Nat /\ n <= MaxRetries + 1
    BY SMT, <1>2, <1>4
  <1> HIDE DEF code, n
  <1>8. /\ errors \in Seq(Codes) /\ Len(errors) = n /\ errors[n] = code /\ errors # <<>>
        /\ \A i \in 1..n : i # n => errors[i] = exec.errors[i] /\ i \in 1..Len(exec.errors)
    BY SMT, <1>2, <1>3, <1>6, <1>7
  <1> HIDE DEF errors
  <1>9. \A i \in 1..n : i # n => IsRetryable(errors[i])
    BY <1>2, <1>8
  <1>10. CASE GivesUp(code, n)
    <2> DEFINE c == MapBackendError(code).code
    <2>1. /\ exec' = [exec EXCEPT !.pc = "aborted", !.errors = errors, !.code = c] /\ elapsed' = t
      BY <1>1, <1>10 DEF code, errors, n
    <2>2. c \in Codes
      BY <1>6, MappedCode
    <2> HIDE DEF c
    <2>3. /\ exec' \in Execution /\ exec'.pc = "aborted" /\ exec'.errors = errors
          /\ exec'.code = c /\ exec'.attempt = n /\ ~exec'.cut
      BY <1>2, <1>8, <2>1, <2>2 DEF Execution, n
    <2>4. CallTimeBounded'
      BY <1>5, <2>1 DEF CallTimeBounded
    <2>5. RetriesAreTransient'
      BY SMT, <1>7, <1>8, <1>9, <2>3 DEF RetriesAreTransient
    <2>6. AdviceAgrees'
      BY <1>8, <2>3, AdviceFollowsCode DEF AdviceAgrees, c
    <2> QED BY <1>5, <2>1, <2>3, <2>4, <2>5, <2>6 DEF ExecutionInv, RetriesSound
  <1>11. CASE ~GivesUp(code, n) /\ t >= Timeout
    <2>1. /\ exec' = [exec EXCEPT !.pc = "aborted", !.errors = errors, !.cut = TRUE,
                                  !.code = "DEADLINE_EXCEEDED"] /\ elapsed' = t
      BY <1>1, <1>11 DEF code, errors, n
    <2>2. "DEADLINE_EXCEEDED" \in Codes
      BY DEF Codes
    <2>3. /\ exec' \in Execution /\ exec'.pc = "aborted" /\ exec'.errors = errors
          /\ exec'.code = "DEADLINE_EXCEEDED" /\ exec'.attempt = n /\ exec'.cut
      BY <1>2, <1>8, <2>1, <2>2 DEF Execution, n
    <2>4. CallTimeBounded'
      BY <1>5, <2>1 DEF CallTimeBounded
    <2>5. IsRetryable(code)
      BY <1>11 DEF GivesUp
    <2>6. RetriesAreTransient'
      <3>1. \A i \in 1..n : IsRetryable(errors[i])
        BY <1>8, <1>9, <2>5
      <3> QED BY <1>7, <1>8, <2>3, <3>1 DEF RetriesAreTransient
    <2>7. AdviceAgrees'
      BY <1>8, <2>3, AdviceFollowsCode DEF AdviceAgrees
    <2> QED BY <1>5, <2>1, <2>3, <2>4, <2>6, <2>7 DEF ExecutionInv, RetriesSound
  <1>12. CASE ~GivesUp(code, n) /\ ~(t >= Timeout)
    <2>1. exec' = [exec EXCEPT !.attempt = n + 1, !.errors = errors] /\ elapsed' = t + Pause(n, t)
      BY <1>1, <1>12 DEF code, errors, n
    <2>2. /\ exec' \in Execution /\ exec'.pc = "calling" /\ exec'.errors = errors
          /\ exec'.attempt = n + 1 /\ ~exec'.cut
      <3>1. n + 1 \in Nat
        BY SMT, <1>7
      <3> QED BY <1>2, <1>8, <2>1, <3>1 DEF Execution
    <2>3. elapsed' \in Nat /\ elapsed' <= Timeout
      BY SMT, <1>4, <1>5, <1>7, <1>12, <2>1, PauseBounded
    <2>4. IsRetryable(code) /\ n + 1 \in 1..(MaxRetries + 1)
      BY SMT, <1>4, <1>7, <1>12 DEF GivesUp
    <2>5. \A i \in 1..n : IsRetryable(errors[i])
      BY <1>8, <1>9, <2>4
    <2>6. CallTimeBounded'
      BY SMT, <1>4, <2>3 DEF CallTimeBounded
    <2>7. RetriesAreTransient'
      BY SMT, <1>8, <1>4, <2>2, <2>4, <2>5 DEF RetriesAreTransient
    <2>8. AdviceAgrees'
      BY <2>2 DEF AdviceAgrees
    <2>9. Len(exec'.errors) = exec'.attempt - 1
      BY SMT, <1>7, <1>8, <2>2
    <2> QED BY <1>8, <2>2, <2>3, <2>4, <2>5, <2>6, <2>7, <2>8, <2>9 DEF ExecutionInv, RetriesSound
  <1> QED BY <1>10, <1>11, <1>12

\* ExecuteCircuit ends within twice its timeout, repeats only transient failures
\* and at most MaxRetries times, and its advice agrees with its error: for any
\* timeout, number of retries and backoff.
THEOREM RetriesAreSound == ExecutionSpec => []RetriesSound
  <1>1. ExecutionInit => ExecutionInv
    BY ExecutionBegins
  <1>2. ExecutionInv /\ [ExecutionNext]_executionVars => ExecutionInv'
    <2> SUFFICES ASSUME ExecutionInv, [ExecutionNext]_executionVars PROVE ExecutionInv'
      OBVIOUS
    <2>1. CASE RefuseRequest
      BY <2>1, RefusalKeeps DEF RefuseRequest, Codes
    <2>2. CASE StartExecution
      BY <2>2, RefusalKeeps, StartKeeps DEF StartExecution, Codes
    <2>3. CASE UNCHANGED executionVars
      BY <2>3 DEF executionVars, ExecutionInv, RetriesSound, CallTimeBounded, RetriesAreTransient, AdviceAgrees
    <2> QED BY <2>1, <2>2, <2>3, AnswerKeeps, FailureKeeps DEF ExecutionNext
  <1>3. ExecutionInv => RetriesSound
    BY DEF ExecutionInv
  <1> QED BY <1>1, <1>2, <1>3, PTL DEF ExecutionSpec
===============================================================================
