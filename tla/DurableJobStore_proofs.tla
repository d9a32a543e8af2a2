------------------------ MODULE DurableJobStore_proofs ------------------------
(***************************************************************************)
(* TLAPS proofs about DurableJobStore, for any set of jobs and any number  *)
(* of crashes and failed appends, and about its locks, for any number of   *)
(* threads, jobs and events.                                               *)
(***************************************************************************)
EXTENDS DurableJobStore, DurableStoreLocks, WellFoundedInduction, TLAPS

\* The leaves are proved by Zenon but for those that cite another prover.
USE Zenon

-----------------------------------------------------------------------------
(* The locks. *)

Creating == {"create_record", "create_snapshot"}
Applying == {"apply_persist", "apply_log", "apply_record"}

\* Each thread inside a call holds the lock the call entered with.
LocksHeld ==
    \A t \in Threads : /\ pc[t] \in Applying <=> records_lock = t
                       /\ pc[t] \in Creating <=> logs_lock = t

\* A thread inside a call has its job, and the job is as far along as the call:
\* create_job has not shown it yet or just has, apply_event found it.
CallsMakeSense ==
    /\ \A t \in Threads :
         /\ pc[t] # "idle" => arg[t] \in StoredJobs
         /\ pc[t] = "create_record" => arg[t] \in has_log /\ sequence[arg[t]] = 0
         /\ pc[t] \in Applying => sequence[arg[t]] \in 1..MaxEvents
    /\ \A j \in StoredJobs : sequence[j] = 0 => log_len[j] = 0 /\ disk_len[j] = 0
    /\ \A j \in StoredJobs : sequence[j] # 0 => j \in has_log

LocksInv == LocksType /\ LocksHeld /\ CallsMakeSense /\ WriteAheadOrder

\* The invariant holds before the first call.
LEMMA LocksBegin == LocksInit => LocksInv
  BY SMT, LocksAssumption
     DEF LocksInit, LocksInv, LocksType, LocksHeld, CallsMakeSense, WriteAheadOrder, Creating, Applying

\* Every step of a thread keeps types, locks and calls in order.
LEMMA StepKeepsLocks ==
    ASSUME LocksInv, NEW t \in Threads, Step(t)
    PROVE  LocksType' /\ LocksHeld' /\ CallsMakeSense'
  <1> USE LocksAssumption
      DEF LocksInv, LocksType, LocksHeld, CallsMakeSense, Creating, Applying, Goto, locks
  <1>1. ASSUME NEW j \in StoredJobs, CreateLog(t, j)
        PROVE  LocksType' /\ LocksHeld' /\ CallsMakeSense'
    BY <1>1 DEF CreateLog
  <1>2. CASE CreateRecord(t)
    BY SMT, <1>2 DEF CreateRecord
  <1>3. CASE CreateSnapshot(t)
    BY <1>3 DEF CreateSnapshot
  <1>4. ASSUME NEW j \in StoredJobs, ApplyLookup(t, j)
        PROVE  LocksType' /\ LocksHeld' /\ CallsMakeSense'
    BY <1>4 DEF ApplyLookup
  <1>5. CASE ApplyPersist(t)
    BY SMT, <1>5 DEF ApplyPersist
  <1>6. CASE ApplyLog(t)
    BY SMT, <1>6 DEF ApplyLog
  <1>7. CASE ApplyRecord(t)
    BY SMT, <1>7 DEF ApplyRecord
  <1> QED BY <1>1, <1>2, <1>3, <1>4, <1>5, <1>6, <1>7 DEF Step

\* Every step keeps file, log and record of each job in write-ahead order.
LEMMA StepKeepsOrder ==
    ASSUME LocksInv, NEW t \in Threads, Step(t)
    PROVE  WriteAheadOrder'
  <1> SUFFICES ASSUME NEW j \in StoredJobs, sequence'[j] # 0
               PROVE  /\ j \in has_log'
                      /\ log_len'[j] = IF Inside(j, "apply_record")' THEN sequence'[j]
                                                                    ELSE sequence'[j] - 1
                      /\ disk_len'[j] = IF Inside(j, "apply_log")' THEN log_len'[j] + 1
                                                                  ELSE log_len'[j]
    BY DEF WriteAheadOrder
  \* Only the holder of the records lock is inside apply_event.
  <1>1. \A u \in Threads : pc[u] \in Applying => records_lock = u
    BY DEF LocksInv, LocksHeld
  <1>2. \A u, v \in Threads : pc[u] \in Applying /\ pc[v] \in Applying => u = v
    BY <1>1
  <1> USE LocksAssumption DEF Goto, locks, Inside
  <1>3. ASSUME NEW k \in StoredJobs, CreateLog(t, k)
        PROVE  /\ j \in has_log'
               /\ log_len'[j] = IF Inside(j, "apply_record")' THEN sequence'[j]
                                                             ELSE sequence'[j] - 1
               /\ disk_len'[j] = IF Inside(j, "apply_log")' THEN log_len'[j] + 1
                                                           ELSE log_len'[j]
    BY <1>3 DEF CreateLog, LocksInv, LocksType, WriteAheadOrder
  <1>4. CASE CreateRecord(t)
    <2>1. CASE arg[t] = j
      <3>1. \A u \in Threads : arg[u] = j => pc[u] \notin Applying
        BY SMT, <1>4, <2>1 DEF CreateRecord, LocksInv, CallsMakeSense
      <3>2. \A u \in Threads : arg'[u] = j => pc'[u] \notin {"apply_record", "apply_log"}
        BY <1>4, <3>1 DEF CreateRecord, LocksInv, LocksType, Applying
      <3>3. sequence'[j] = 1 /\ log_len'[j] = 0 /\ disk_len'[j] = 0 /\ j \in has_log'
        BY <1>4, <2>1 DEF CreateRecord, LocksInv, LocksType, CallsMakeSense
      <3> QED BY SMT, <3>2, <3>3
    <2>2. CASE arg[t] # j
      BY <1>4, <2>2 DEF CreateRecord, LocksInv, LocksType, WriteAheadOrder
    <2> QED BY <2>1, <2>2
  <1>5. CASE CreateSnapshot(t)
    BY SMT, <1>5 DEF CreateSnapshot, LocksInv, LocksType, WriteAheadOrder
  <1>6. ASSUME NEW k \in StoredJobs, ApplyLookup(t, k)
        PROVE  /\ j \in has_log'
               /\ log_len'[j] = IF Inside(j, "apply_record")' THEN sequence'[j]
                                                             ELSE sequence'[j] - 1
               /\ disk_len'[j] = IF Inside(j, "apply_log")' THEN log_len'[j] + 1
                                                           ELSE log_len'[j]
    BY <1>6 DEF ApplyLookup, LocksInv, LocksType, WriteAheadOrder
  <1>7. CASE ApplyPersist(t)
    BY <1>2, <1>7 DEF ApplyPersist, LocksInv, LocksType, WriteAheadOrder, Applying
  <1>8. CASE ApplyLog(t)
    BY SMT, <1>2, <1>8 DEF ApplyLog, LocksInv, LocksType, WriteAheadOrder, Applying
  <1>9. CASE ApplyRecord(t)
    BY SMT, <1>2, <1>9 DEF ApplyRecord, LocksInv, LocksType, WriteAheadOrder, Applying, CallsMakeSense
  <1> QED BY <1>3, <1>4, <1>5, <1>6, <1>7, <1>8, <1>9 DEF Step

\* Whatever the interleaving, a visible job has a log, its file is never behind
\* its log and its log never behind its record.
THEOREM WriteAheadAlways == LocksSpec => []WriteAheadOrder
  <1>1. LocksInv /\ [LocksNext]_lockVars => LocksInv'
    <2> SUFFICES ASSUME LocksInv, [LocksNext]_lockVars PROVE LocksInv'
      OBVIOUS
    <2>1. CASE LocksNext
      BY <2>1, StepKeepsLocks, StepKeepsOrder DEF LocksNext, LocksInv
    <2>2. CASE UNCHANGED lockVars
      BY <2>2 DEF lockVars, LocksInv, LocksType, LocksHeld, CallsMakeSense, WriteAheadOrder, Inside
    <2> QED BY <2>1, <2>2
  <1>2. LocksInv => WriteAheadOrder
    BY DEF LocksInv
  <1> QED BY LocksBegin, <1>1, <1>2, PTL DEF LocksSpec
-----------------------------------------------------------------------------
(* Sequences and maps. *)

\* A sequence with one element replaced.
LEMMA SeqReplaced ==
    ASSUME NEW S, NEW q \in Seq(S), NEW i \in 1..Len(q), NEW e \in S
    PROVE  /\ [q EXCEPT ![i] = e] \in Seq(S)
           /\ Len([q EXCEPT ![i] = e]) = Len(q)
           /\ \A k \in 1..Len(q) : [q EXCEPT ![i] = e][k] = IF k = i THEN e ELSE q[k]
  BY SMT

\* A sequence with an element appended.
LEMMA SeqGrown ==
    ASSUME NEW S, NEW q \in Seq(S), NEW e \in S
    PROVE  /\ Append(q, e) \in Seq(S) /\ Len(q) \in Nat
           /\ Len(Append(q, e)) = Len(q) + 1 /\ Append(q, e)[Len(q) + 1] = e
           /\ \A i \in 1..Len(q) : Append(q, e)[i] = q[i]
  BY SMT

\* Sequences of one length that agree everywhere are equal.
LEMMA SeqSame ==
    ASSUME NEW S, NEW q \in Seq(S), NEW r \in Seq(S), Len(q) = Len(r),
           \A i \in 1..Len(q) : q[i] = r[i]
    PROVE  q = r
  BY SMT

\* The empty map has no keys and is of every type.
LEMMA EmptyFacts ==
    ASSUME NEW S, NEW K
    PROVE  /\ DOMAIN Empty = {}
           /\ DOMAIN Empty \subseteq K
           /\ Empty \in [DOMAIN Empty -> S]
  BY DEF Empty

-----------------------------------------------------------------------------
(* The lifecycle. *)

\* A transition that is not refused leads to a state of the lifecycle.
LEMMA TransitionType ==
    ASSUME NEW from \in JobState, NEW event \in JobEvent,
           transition(from, event) # Invalid
    PROVE  transition(from, event) \in JobState
  BY DEF transition, Invalid, JobState

\* A log extended by a legal event from the state it replays to replays to
\* the event's target; an empty log may be extended by any legal event.
LEMMA ReplayAppend ==
    ASSUME NEW log \in Seq(StateTransitionEvent),
           NEW ev \in StateTransitionEvent,
           transition(ev.from_state, ev.event) = ev.to_state,
           log # <<>> => replay_to_current_state(log) = ev.from_state
    PROVE  replay_to_current_state(Append(log, ev)) = ev.to_state
  <1> DEFINE new == Append(log, ev)
  <1>1. /\ Len(new) = Len(log) + 1
        /\ Len(log) \in Nat
        /\ new # <<>>
        /\ new[Len(new)] = ev
        /\ \A i \in 1..Len(log) : new[i] = log[i]
    BY SMT
  <1>2. log # <<>> => /\ Replayable(log)
                      /\ log[Len(log)].to_state = ev.from_state
    BY DEF replay_to_current_state, StateTransitionEvent, JobState, Invalid
  <1>3. Replayable(new)
    <2> SUFFICES ASSUME NEW i \in 1..Len(new)
                 PROVE  /\ i > 1 => new[i].from_state = new[i - 1].to_state
                        /\ transition(new[i].from_state, new[i].event) = new[i].to_state
      BY DEF Replayable
    <2>1. CASE i = Len(new)
      <3>1. transition(new[i].from_state, new[i].event) = new[i].to_state
        BY <1>1, <2>1
      <3>2. ASSUME i > 1 PROVE new[i].from_state = new[i - 1].to_state
        <4>1. log # <<>> /\ i - 1 = Len(log) /\ i - 1 \in 1..Len(log)
          BY SMT, <1>1, <2>1, <3>2
        <4> QED BY <1>1, <1>2, <2>1, <4>1
      <3> QED BY <3>1, <3>2
    <2>2. CASE i # Len(new)
      <3>1. log # <<>> /\ i \in 1..Len(log) /\ (i > 1 => i - 1 \in 1..Len(log))
        BY SMT, <1>1, <2>2
      <3> QED BY <1>1, <1>2, <3>1 DEF Replayable
    <2> QED BY <2>1, <2>2
  <1> QED BY <1>1, <1>3 DEF replay_to_current_state

-----------------------------------------------------------------------------
(* The inductive invariant. *)

\* RecordsMatchLogs is not inductive: a recovery replaces the in-memory log by
\* the lines on disk. So the disk must be known to start a job's story at
\* Pending, although the record's sequence number restarts at 1 with every
\* recovery: a line numbered 1 is first in its file only if the job was still
\* Pending when it was written.
DiskStartsPending ==
    /\ \A j \in DOMAIN events_file :
         /\ events_file[j].open => events_file[j].lines # <<>>
         /\ events_file[j].lines # <<>> /\ events_file[j].lines[1].sequence = 1
              => events_file[j].lines[1].from_state = "Pending"
    /\ \A j \in DOMAIN records :
         records[j].sequence = 1 /\ FileOf(j).lines = <<>> => records[j].state = "Pending"

IInv == TypeOK /\ RecordsMatchLogs /\ DiskStartsPending

\* The event apply_event builds is well formed, legal, and starts at the
\* record's state.
LEMMA EventOfFacts ==
    ASSUME TypeOK, NEW j \in Jobs, NEW event \in JobEvent, Accepts(j, event)
    PROVE  /\ EventOf(j, event) \in StateTransitionEvent
           /\ EventOf(j, event).sequence = records[j].sequence
           /\ EventOf(j, event).from_state = records[j].state
           /\ EventOf(j, event).event = event
           /\ EventOf(j, event).to_state = transition(records[j].state, event)
           /\ EventOf(j, event).to_state \in JobState
  <1>1. /\ records[j] \in DurableJobRecord
        /\ transition(records[j].state, event) # Invalid
    BY DEF TypeOK, Accepts
  <1>2. transition(records[j].state, event) \in JobState
    BY <1>1, TransitionType DEF DurableJobRecord
  <1> QED
    BY <1>1, <1>2 DEF EventOf, TransitionEvent, StateTransitionEvent, DurableJobRecord

\* FileOf is a log file, also when there is no file yet.
LEMMA FileOfType ==
    ASSUME TypeOK, NEW j \in Jobs
    PROVE  FileOf(j) \in LogFile
  BY SMT DEF TypeOK, FileOf, EmptyFile, LogFile

\* Put yields a log file that is not empty, keeps a first line that is not
\* the unterminated one, and never makes a line numbered 1 out of one.
LEMMA PutFacts ==
    ASSUME NEW file \in LogFile, file.open => file.lines # <<>>,
           NEW line \in StateTransitionEvent \cup {Garbage}, NEW open \in BOOLEAN
    PROVE  /\ Put(file, line, open) \in LogFile
           /\ Put(file, line, open).lines # <<>>
           /\ file.lines = <<>> => Put(file, line, open).lines[1] = line
           /\ file.lines # <<>> => \/ Put(file, line, open).lines[1] = file.lines[1]
                                   \/ Put(file, line, open).lines[1] = Garbage
  <1>1. file.lines \in Seq(StateTransitionEvent \cup {Garbage}) /\ file.open \in BOOLEAN
    BY DEF LogFile
  <1>2. CASE file.open
    <2>1. Put(file, line, open).lines = [file.lines EXCEPT ![Len(file.lines)] = Garbage]
      BY <1>2 DEF Put
    <2>2. file.lines # <<>> /\ Len(file.lines) \in 1..Len(file.lines)
      BY SMT, <1>1, <1>2
    <2>3. /\ [file.lines EXCEPT ![Len(file.lines)] = Garbage]
               \in Seq(StateTransitionEvent \cup {Garbage})
          /\ Len([file.lines EXCEPT ![Len(file.lines)] = Garbage]) = Len(file.lines)
      BY SMT, <1>1, <2>2, SeqReplaced, Garbage \in StateTransitionEvent \cup {Garbage}
    <2> QED BY SMT, <1>1, <1>2, <2>1, <2>2, <2>3 DEF Put, LogFile
  <1>3. CASE ~file.open
    <2>1. Put(file, line, open).lines = Append(file.lines, line)
      BY <1>3 DEF Put
    <2> QED BY SMT, <1>1, <1>3, <2>1 DEF Put, LogFile
  <1> QED BY <1>2, <1>3

\* The part of DiskStartsPending that speaks of a directory of event files.
FilesStartPending(files) ==
    \A j \in DOMAIN files :
        /\ files[j].open => files[j].lines # <<>>
        /\ files[j].lines # <<>> /\ files[j].lines[1].sequence = 1
             => files[j].lines[1].from_state = "Pending"

\* Whatever an append of an accepted event leaves on disk, complete or torn,
\* is well typed, still starts at Pending, and concerns that job only.
LEMMA AppendFacts ==
    ASSUME TypeOK, DiskStartsPending, NEW j \in Jobs, NEW event \in JobEvent,
           Accepts(j, event),
           NEW files \in {append_log_line(j, EventOf(j, event))}
                           \cup TornAppends(j, EventOf(j, event))
    PROVE  /\ DOMAIN files \subseteq Jobs
           /\ files \in [DOMAIN files -> LogFile]
           /\ FilesStartPending(files)
           /\ \A k \in Jobs \ {j} : /\ k \in DOMAIN files <=> k \in DOMAIN events_file
                                    /\ k \in DOMAIN files => files[k] = events_file[k]
  <1> DEFINE ev == EventOf(j, event)
             old == FileOf(j)
  <1>1. ev \in StateTransitionEvent /\ ev.sequence = records[j].sequence
                                    /\ ev.from_state = records[j].state
    BY EventOfFacts
  <1>2. old \in LogFile /\ (old.open => old.lines # <<>>)
                        /\ (old.lines # <<>> /\ old.lines[1].sequence = 1
                              => old.lines[1].from_state = "Pending")
    BY FileOfType DEF DiskStartsPending, FileOf, EmptyFile
  <1>3. old.lines = <<>> /\ ev.sequence = 1 => ev.from_state = "Pending"
    BY <1>1 DEF DiskStartsPending, Accepts
  <1>4. FilesStartPending(events_file)
    BY DEF DiskStartsPending, FilesStartPending
  <1> DEFINE Fine(file) ==
               /\ file \in LogFile
               /\ file.open => file.lines # <<>>
               /\ file.lines # <<>> /\ file.lines[1].sequence = 1
                    => file.lines[1].from_state = "Pending"
  <1>5. ASSUME NEW line \in {ev, Garbage}, NEW open \in BOOLEAN
        PROVE  Fine(Put(old, line, open))
    <2>1. line \in StateTransitionEvent \cup {Garbage}
      BY <1>1
    <2>2. /\ Put(old, line, open) \in LogFile
          /\ Put(old, line, open).lines # <<>>
          /\ old.lines = <<>> => Put(old, line, open).lines[1] = line
          /\ old.lines # <<>> => \/ Put(old, line, open).lines[1] = old.lines[1]
                                 \/ Put(old, line, open).lines[1] = Garbage
      BY <1>2, <2>1, PutFacts
    <2>3. Garbage.sequence = 0
      BY DEF Garbage
    <2> QED BY SMT, <1>2, <1>3, <2>2, <2>3
  <1>6. files = events_file \/ \E file : Fine(file) /\ files = Insert(events_file, j, file)
    <2>1. CASE files = append_log_line(j, ev)
      BY <2>1, <1>5 DEF append_log_line
    <2>2. CASE files \in TornAppends(j, ev)
      <3>1. Fine(old)
        BY <1>2
      <3>2. files = events_file
              \/ \E file \in {old, Put(old, Garbage, TRUE), Put(old, ev, TRUE),
                              Put(old, ev, FALSE)} : files = Insert(events_file, j, file)
        BY <2>2 DEF TornAppends
      <3>3. /\ Fine(Put(old, Garbage, TRUE))
            /\ Fine(Put(old, ev, TRUE))
            /\ Fine(Put(old, ev, FALSE))
        BY <1>5
      <3> HIDE DEF Fine, ev, old
      <3> QED BY <3>1, <3>2, <3>3
    <2> QED BY <2>1, <2>2
  <1>7. CASE files = events_file
    BY <1>4, <1>7 DEF TypeOK
  <1>8. ASSUME NEW file, Fine(file), files = Insert(events_file, j, file)
        PROVE  /\ DOMAIN files \subseteq Jobs
               /\ files \in [DOMAIN files -> LogFile]
               /\ FilesStartPending(files)
               /\ \A k \in Jobs \ {j} : /\ k \in DOMAIN files <=> k \in DOMAIN events_file
                                        /\ k \in DOMAIN files => files[k] = events_file[k]
    <2>1. DOMAIN events_file \subseteq Jobs /\ events_file \in [DOMAIN events_file -> LogFile]
      BY DEF TypeOK
    <2> file \in LogFile
      BY <1>8
    <2>2. /\ DOMAIN files = DOMAIN events_file \cup {j}
          /\ DOMAIN files \subseteq Jobs
          /\ files \in [DOMAIN files -> LogFile]
          /\ files[j] = file
          /\ \A k \in DOMAIN events_file : k # j => files[k] = events_file[k]
      BY <1>8, <2>1 DEF Insert
    <2>3. FilesStartPending(files)
      BY SMT, <1>4, <1>8, <2>2 DEF FilesStartPending
    <2> QED BY <2>2, <2>3
  <1> QED BY <1>6, <1>7, <1>8

-----------------------------------------------------------------------------
\* The invariant holds before the first call.
LEMMA InitEstablishes == Init => IInv
  <1> SUFFICES ASSUME Init PROVE IInv
    OBVIOUS
  <1>1. /\ records = Empty /\ event_logs = Empty /\ snapshot_file = Empty
        /\ events_file = Empty /\ acked = Empty
        /\ DOMAIN Empty = {}
    BY DEF Init, Empty
  <1>2. TypeOK
    BY SMT, <1>1, EmptyFacts, BoundsAssumption DEF Init, TypeOK
  <1> QED BY <1>1, <1>2 DEF IInv, RecordsMatchLogs, DiskStartsPending

\* create_job adds an empty log and a Pending record together.
LEMMA CreatePreserves ==
    ASSUME IInv, NEW j \in Jobs, create_job(j)
    PROVE  IInv'
  <1> USE DEF IInv
  <1>1. /\ records' = Insert(records, j, NewRecord)
        /\ event_logs' = Insert(event_logs, j, <<>>)
        /\ acked' = Insert(acked, j, "Pending")
        /\ UNCHANGED <<events_file, up, recovery, crashes, history>>
        /\ j \notin DOMAIN events_file
    BY DEF create_job, Fresh
  <1>2. /\ NewRecord \in DurableJobRecord
        /\ "Pending" \in JobState
        /\ <<>> \in Seq(StateTransitionEvent)
    BY SMT DEF NewRecord, DurableJobRecord, JobState
  <1>3. /\ DOMAIN snapshot_file' \subseteq Jobs
        /\ snapshot_file' \in [DOMAIN snapshot_file' -> {"bad", "ok"}]
    <2>1. \/ snapshot_file' = snapshot_file
          \/ \E v \in {"bad", "ok"} : snapshot_file' = Insert(snapshot_file, j, v)
      BY DEF create_job, TornSnapshots
    <2> QED BY <2>1 DEF TypeOK, Insert
  <1>4. io_failures' \in 0..MaxIoFailures
    BY SMT, BoundsAssumption DEF create_job, TypeOK
  <1>5. /\ DOMAIN records' \subseteq Jobs
        /\ records' \in [DOMAIN records' -> DurableJobRecord]
    BY <1>1, <1>2 DEF TypeOK, Insert
  <1>6. /\ DOMAIN event_logs' \subseteq Jobs
        /\ event_logs' \in [DOMAIN event_logs' -> Seq(StateTransitionEvent)]
    BY <1>1, <1>2 DEF TypeOK, Insert
  <1>7. /\ DOMAIN acked' \subseteq Jobs
        /\ acked' \in [DOMAIN acked' -> JobState]
    BY <1>1, <1>2 DEF TypeOK, Insert
  <1>8. TypeOK'
    BY <1>1, <1>3, <1>4, <1>5, <1>6, <1>7 DEF TypeOK
  <1>9. /\ DOMAIN records' = DOMAIN records \cup {j}
        /\ DOMAIN event_logs' = DOMAIN event_logs \cup {j}
        /\ records'[j] = NewRecord /\ event_logs'[j] = <<>>
        /\ \A k \in DOMAIN records \ {j} : records'[k] = records[k]
        /\ \A k \in DOMAIN event_logs \ {j} : event_logs'[k] = event_logs[k]
    BY <1>1 DEF Insert
  <1>10. RecordsMatchLogs'
    BY SMT, <1>9 DEF RecordsMatchLogs, NewRecord
  <1>11. DiskStartsPending'
    BY SMT, <1>1, <1>9 DEF DiskStartsPending, FileOf, NewRecord
  <1> QED BY <1>8, <1>10, <1>11

\* apply_event moves the record and both logs by the same event.
LEMMA ApplyPreserves ==
    ASSUME IInv, NEW j \in Jobs, NEW event \in JobEvent, apply_event(j, event)
    PROVE  IInv'
  <1> USE DEF IInv
  <1> DEFINE ev == EventOf(j, event)
  <1>1. Accepts(j, event) /\ j \in DOMAIN records
    BY DEF apply_event, Accepts
  <1>2. /\ ev \in StateTransitionEvent
        /\ ev.from_state = records[j].state
        /\ ev.to_state \in JobState
        /\ transition(ev.from_state, ev.event) = ev.to_state
    BY SMT, <1>1, EventOfFacts
  <1>3. /\ events_file' \in {append_log_line(j, ev)} \cup TornAppends(j, ev)
        /\ io_failures' \in {io_failures, io_failures + 1}
        /\ io_failures' = io_failures + 1 => io_failures < MaxIoFailures
        /\ event_logs' = [event_logs EXCEPT ![j] = Append(@, ev)]
        /\ records' = [records EXCEPT ![j] = [state      |-> ev.to_state,
                                              sequence   |-> records[j].sequence + 1,
                                              attributes |-> records[j].attributes]]
        /\ history' = [history EXCEPT ![j] = Append(@, ev)]
        /\ acked' = [acked EXCEPT ![j] = ev.to_state]
        /\ UNCHANGED <<snapshot_file, up, recovery, crashes>>
    BY SMT, <1>1 DEF apply_event, RecordsMatchLogs, TypeOK
  <1> HIDE DEF ev
  <1>4. /\ DOMAIN events_file' \subseteq Jobs
        /\ events_file' \in [DOMAIN events_file' -> LogFile]
        /\ FilesStartPending(events_file')
        /\ \A k \in Jobs \ {j} :
             /\ k \in DOMAIN events_file' <=> k \in DOMAIN events_file
             /\ k \in DOMAIN events_file' => events_file'[k] = events_file[k]
    BY <1>1, <1>3, AppendFacts DEF ev
  <1>5. /\ records'[j].state = ev.to_state
        /\ records'[j].sequence = records[j].sequence + 1
        /\ records'[j] \in DurableJobRecord
        /\ DOMAIN records' = DOMAIN records
        /\ \A k \in DOMAIN records \ {j} : records'[k] = records[k]
    <2>1. records[j] \in DurableJobRecord /\ records[j].sequence \in Nat \ {0}
      BY <1>1 DEF TypeOK, DurableJobRecord
    <2> QED BY SMT, <1>1, <1>2, <1>3, <2>1 DEF DurableJobRecord
  <1>6. /\ j \in DOMAIN event_logs
        /\ event_logs[j] \in Seq(StateTransitionEvent)
        /\ event_logs'[j] = Append(event_logs[j], ev)
        /\ DOMAIN event_logs' = DOMAIN event_logs
        /\ \A k \in DOMAIN event_logs \ {j} : event_logs'[k] = event_logs[k]
    BY <1>1, <1>3 DEF RecordsMatchLogs, TypeOK
  <1>7. TypeOK'
    <2>1. /\ DOMAIN records' \subseteq Jobs
          /\ records' \in [DOMAIN records' -> DurableJobRecord]
      BY <1>3, <1>5 DEF TypeOK
    <2>2. /\ DOMAIN event_logs' \subseteq Jobs
          /\ event_logs' \in [DOMAIN event_logs' -> Seq(StateTransitionEvent)]
      BY SMT, <1>2, <1>3, <1>6 DEF TypeOK
    <2>3. history' \in [Jobs -> Seq(StateTransitionEvent)]
      BY SMT, <1>2, <1>3 DEF TypeOK
    <2>4. /\ DOMAIN acked' \subseteq Jobs
          /\ acked' \in [DOMAIN acked' -> JobState]
      BY <1>2, <1>3 DEF TypeOK
    <2>5. io_failures' \in 0..MaxIoFailures
      BY SMT, <1>3, BoundsAssumption DEF TypeOK
    <2> QED BY <1>3, <1>4, <2>1, <2>2, <2>3, <2>4, <2>5 DEF TypeOK
  <1>8. RecordsMatchLogs'
    <2>1. replay_to_current_state(event_logs'[j]) = records'[j].state
      BY <1>1, <1>2, <1>5, <1>6, ReplayAppend DEF RecordsMatchLogs
    <2>2. event_logs'[j] # <<>> /\ event_logs'[j][1].from_state = "Pending"
      BY SMT, <1>1, <1>2, <1>6 DEF RecordsMatchLogs
    <2> QED BY <1>5, <1>6, <2>1, <2>2 DEF RecordsMatchLogs
  <1>9. DiskStartsPending'
    <2>1. records'[j].sequence # 1
      BY SMT, <1>1, <1>5 DEF TypeOK, DurableJobRecord
    <2>2. ASSUME NEW k \in DOMAIN records', records'[k].sequence = 1, FileOf(k)'.lines = <<>>
          PROVE  records'[k].state = "Pending"
      <3>1. k # j /\ k \in Jobs /\ k \in DOMAIN records /\ records'[k] = records[k]
        BY <1>5, <2>1, <2>2 DEF TypeOK
      <3>2. FileOf(k)' = FileOf(k)
        BY <1>4, <3>1 DEF FileOf
      <3> QED BY <2>2, <3>1, <3>2 DEF DiskStartsPending
    <2> QED BY <1>4, <2>2 DEF DiskStartsPending, FilesStartPending
  <1> QED BY <1>7, <1>8, <1>9

\* A repeated terminal event and the attribute setters leave logs, files and
\* states alone.
LEMMA SettersPreserve ==
    ASSUME IInv, NEW j \in Jobs,
           \/ \E event \in JobEvent : apply_event_again(j, event)
           \/ \E attribute \in Attributes : set_attribute(j, attribute)
    PROVE  IInv'
  <1> USE DEF IInv
  <1>1. CASE \E event \in JobEvent : apply_event_again(j, event)
    <2>1. /\ UNCHANGED <<records, event_logs, snapshot_file, events_file>>
          /\ UNCHANGED <<up, recovery, crashes, io_failures, history>>
          /\ acked' = [acked EXCEPT ![j] = records[j].state]
          /\ records[j].state \in JobState
      BY <1>1 DEF apply_event_again, memory, disk, TypeOK, DurableJobRecord
    <2>2. TypeOK'
      BY <2>1 DEF TypeOK
    <2> QED BY <2>1, <2>2 DEF RecordsMatchLogs, DiskStartsPending, FileOf
  <1>2. ASSUME NEW attribute \in Attributes, set_attribute(j, attribute)
        PROVE  IInv'
    <2>1. /\ j \in DOMAIN records
          /\ records' = [records EXCEPT ![j].attributes = @ \cup {attribute}]
          /\ UNCHANGED <<event_logs, snapshot_file, events_file>>
          /\ UNCHANGED <<up, recovery, crashes, io_failures, history, acked>>
      BY <1>2 DEF set_attribute, disk
    <2>2. /\ DOMAIN records' = DOMAIN records
          /\ records' \in [DOMAIN records' -> DurableJobRecord]
          /\ \A k \in DOMAIN records : /\ records'[k].state = records[k].state
                                       /\ records'[k].sequence = records[k].sequence
      BY <1>2, <2>1 DEF TypeOK, DurableJobRecord
    <2>3. TypeOK'
      BY <2>1, <2>2 DEF TypeOK
    <2> QED BY SMT, <2>1, <2>2, <2>3 DEF RecordsMatchLogs, DiskStartsPending, FileOf
  <1> QED BY <1>1, <1>2

\* A crash empties the memory and leaves the disk starting at Pending.
LEMMA CrashPreserves ==
    ASSUME IInv, Crash
    PROVE  IInv'
  <1> USE DEF IInv
  <1>1. /\ records' = Empty /\ event_logs' = Empty /\ up' = FALSE
        /\ crashes' = crashes + 1 /\ crashes < MaxCrashes
        /\ UNCHANGED <<recovery, io_failures, acked>>
    BY DEF Crash
  <1>2. /\ DOMAIN snapshot_file' \subseteq Jobs
        /\ snapshot_file' \in [DOMAIN snapshot_file' -> {"bad", "ok"}]
    <2>1. \/ snapshot_file' = snapshot_file
          \/ \E j \in Jobs, v \in {"bad", "ok"} : snapshot_file' = Insert(snapshot_file, j, v)
      BY DEF Crash, TornSnapshots
    <2> QED BY <2>1 DEF TypeOK, Insert
  <1>3. /\ DOMAIN events_file' \subseteq Jobs
        /\ events_file' \in [DOMAIN events_file' -> LogFile]
        /\ FilesStartPending(events_file')
        /\ history' \in [Jobs -> Seq(StateTransitionEvent)]
    <2>1. CASE UNCHANGED <<events_file, history>>
      BY <2>1 DEF TypeOK, DiskStartsPending, FilesStartPending
    <2>2. ASSUME NEW j \in Jobs, NEW event \in JobEvent, Accepts(j, event),
                 events_file' \in TornAppends(j, EventOf(j, event)),
                 history' = [history EXCEPT ![j] = Append(@, EventOf(j, event))]
          PROVE  /\ DOMAIN events_file' \subseteq Jobs
                 /\ events_file' \in [DOMAIN events_file' -> LogFile]
                 /\ FilesStartPending(events_file')
                 /\ history' \in [Jobs -> Seq(StateTransitionEvent)]
      <3>1. /\ DOMAIN events_file' \subseteq Jobs
            /\ events_file' \in [DOMAIN events_file' -> LogFile]
            /\ FilesStartPending(events_file')
        BY <2>2, AppendFacts
      <3>2. EventOf(j, event) \in StateTransitionEvent
        BY <2>2, EventOfFacts
      <3> QED BY SMT, <2>2, <3>1, <3>2 DEF TypeOK
    <2> QED BY <2>1, <2>2 DEF Crash
  <1>4. /\ crashes' \in 0..MaxCrashes
        /\ io_failures' \in 0..MaxIoFailures
    BY SMT, <1>1, BoundsAssumption DEF TypeOK
  <1>5. TypeOK'
    BY <1>1, <1>2, <1>3, <1>4, EmptyFacts DEF TypeOK
  <1>6. RecordsMatchLogs' /\ DiskStartsPending'
    BY <1>1, <1>3, EmptyFacts DEF RecordsMatchLogs, DiskStartsPending, FilesStartPending
  <1> QED BY <1>5, <1>6

\* A recovery loads only logs that replay, and they start at Pending.
LEMMA RecoverPreserves ==
    ASSUME IInv, recover_from_qfs
    PROVE  IInv'
  <1> USE DEF IInv
  <1>1. /\ DOMAIN records' = Loaded /\ DOMAIN event_logs' = Loaded
        /\ \A j \in Loaded :
             /\ event_logs'[j] = events_file[j].lines
             /\ records'[j] = [state |-> replay_to_current_state(events_file[j].lines),
                               sequence |-> 1, attributes |-> {}]
        /\ records' = [j \in Loaded |-> records'[j]]
        /\ event_logs' = [j \in Loaded |-> event_logs'[j]]
        /\ up' = TRUE /\ recovery' \in {"ok", "err"}
        /\ UNCHANGED <<snapshot_file, events_file>>
        /\ UNCHANGED <<crashes, io_failures, history, acked>>
    BY DEF recover_from_qfs, NewRecord, disk
  <1>2. ASSUME NEW j \in Loaded
        PROVE  /\ j \in Jobs /\ j \in DOMAIN events_file
               /\ events_file[j].lines \in Seq(StateTransitionEvent)
               /\ events_file[j].lines # <<>>
               /\ events_file[j].lines[1].from_state = "Pending"
               /\ replay_to_current_state(events_file[j].lines) \in JobState
    <2> DEFINE lines == events_file[j].lines
    <2>1. j \in Jobs /\ j \in DOMAIN events_file /\ LoadsCleanly(j)
      <3>1. j \in Recoverable /\ j \in Nat
        BY JobsAssumption DEF Loaded, Recoverable, TypeOK
      <3> QED BY SMT, <3>1 DEF Loaded, Recoverable, TypeOK
    <2>2. /\ lines \in Seq(StateTransitionEvent \cup {Garbage})
          /\ \A i \in 1..Len(lines) : lines[i] # Garbage
          /\ SequencesContiguous(lines)
          /\ lines # <<>>
          /\ replay_to_current_state(lines) = lines[Len(lines)].to_state
      BY <2>1 DEF TypeOK, LogFile, LoadsCleanly, verify, replay_to_current_state
    <2>3. lines \in Seq(StateTransitionEvent) /\ 1 \in 1..Len(lines) /\ Len(lines) \in 1..Len(lines)
      BY SMT, <2>2
    <2>4. lines[1].sequence = 1 /\ lines[Len(lines)].to_state \in JobState
      BY SMT, <2>2, <2>3 DEF SequencesContiguous, StateTransitionEvent
    <2> QED BY <2>1, <2>2, <2>3, <2>4 DEF DiskStartsPending
  <1>3. TypeOK'
    <2>1. \A j \in Loaded : /\ records'[j] \in DurableJobRecord
                            /\ event_logs'[j] \in Seq(StateTransitionEvent)
      BY SMT, <1>1, <1>2 DEF DurableJobRecord
    <2> QED BY <1>1, <1>2, <2>1 DEF TypeOK
  <1>4. RecordsMatchLogs'
    BY SMT, <1>1, <1>2 DEF RecordsMatchLogs
  <1>5. DiskStartsPending'
    BY <1>1, <1>2 DEF DiskStartsPending, FileOf
  <1> QED BY <1>3, <1>4, <1>5

\* Every step preserves the invariant.
LEMMA NextPreserves == IInv /\ [Next]_vars => IInv'
  <1> SUFFICES ASSUME IInv, [Next]_vars PROVE IInv'
    OBVIOUS
  <1>1. CASE \E j \in Jobs : create_job(j)
    BY <1>1, CreatePreserves
  <1>2. CASE \E j \in Jobs, event \in JobEvent : apply_event(j, event)
    BY <1>2, ApplyPreserves
  <1>3. CASE \E j \in Jobs, event \in JobEvent : apply_event_again(j, event)
    BY <1>3, SettersPreserve
  <1>4. CASE \E j \in Jobs, attribute \in Attributes : set_attribute(j, attribute)
    BY <1>4, SettersPreserve
  <1>5. CASE Crash
    BY <1>5, CrashPreserves
  <1>6. CASE recover_from_qfs
    BY <1>6, RecoverPreserves
  <1>7. CASE UNCHANGED vars
    BY <1>7 DEF vars, IInv, TypeOK, RecordsMatchLogs, DiskStartsPending, FileOf
  <1> QED BY <1>1, <1>2, <1>3, <1>4, <1>5, <1>6, <1>7 DEF Next

\* The invariant holds in every reachable state.
THEOREM InvariantHolds == Spec => []IInv
  BY InitEstablishes, NextPreserves, PTL DEF Spec

\* Records, logs, files and counters keep their types whatever appends fail and
\* however often the process dies.
THEOREM TypeCorrect == Spec => []TypeOK
  <1>1. IInv => TypeOK
    BY DEF IInv
  <1> QED BY <1>1, InvariantHolds, PTL

\* The record of a job always agrees with its in-memory event log, also right
\* after a recovery from files that crashes and failed appends have torn.
THEOREM RecordsAlwaysMatchLogs == Spec => []RecordsMatchLogs
  <1>1. IInv => RecordsMatchLogs
    BY DEF IInv
  <1> QED BY <1>1, InvariantHolds, PTL
-----------------------------------------------------------------------------
(* The replay loop. *)

\* The replay loop returns what the closed form says, on every log of events:
\* also on one whose events do not follow from each other.
LEMMA LoopIsClosedForm ==
    ASSUME NEW log \in Seq(StateTransitionEvent)
    PROVE  replay_loop(log) = replay_to_current_state(log)
<1> DEFINE n == Len(log)
           Fits(i) == /\ i > 1 => log[i].from_state = log[i - 1].to_state
                      /\ transition(log[i].from_state, log[i].event) = log[i].to_state
           loop(f) == [i \in 0..n |-> IF i = 0 THEN log[1].from_state
                                               ELSE replay_step(f[i - 1], log[i])]
           closed == [i \in 0..n |-> IF i = 0 THEN log[1].from_state
                                     ELSE IF \A k \in 1..i : Fits(k) THEN log[i].to_state ELSE Invalid]
           after == CHOOSE f : f = loop(f)
<1>1. CASE log = <<>>
  BY <1>1 DEF replay_loop, replay_to_current_state
<1>2. CASE log # <<>>
  <2>1. n \in Nat \ {0} /\ \A i \in 1..n : /\ log[i] \in StateTransitionEvent
                                          /\ log[i].from_state # Invalid /\ log[i].to_state # Invalid
    <3>1. n \in Nat \ {0} /\ \A i \in 1..n : log[i] \in StateTransitionEvent
      BY SMT, <1>2
    <3>2. Invalid \notin JobState
      BY DEF Invalid, JobState
    <3> QED BY <3>1, <3>2 DEF StateTransitionEvent
  <2> HIDE DEF n
  <2>2. ASSUME NEW i \in 1..n
        PROVE  closed[i] = replay_step(closed[i - 1], log[i])
    <3>1. i \in Nat /\ i \in 0..n /\ i # 0 /\ i - 1 \in 0..n
      BY SMT, <2>1
    <3>2. closed[i] = IF \A k \in 1..i : Fits(k) THEN log[i].to_state ELSE Invalid
      BY <3>1
    <3>3. CASE i = 1
      <4>1. closed[i - 1] = log[1].from_state
        BY SMT, <3>1, <3>3
      <4>2. (\A k \in 1..i : Fits(k)) <=> transition(log[1].from_state, log[1].event) = log[1].to_state
        BY SMT, <3>3
      <4> QED BY <2>1, <3>2, <3>3, <4>1, <4>2 DEF replay_step
    <3>4. CASE i # 1 /\ \A k \in 1..i - 1 : Fits(k)
      <4>1. closed[i - 1] = log[i - 1].to_state
        BY SMT, <3>1, <3>4
      <4>2. (\A k \in 1..i : Fits(k)) <=> Fits(i)
        BY SMT, <3>1, <3>4
      <4>3. log[i - 1].to_state # Invalid
        BY SMT, <2>1, <3>1, <3>4
      <4> QED BY SMT, <3>1, <3>2, <3>4, <4>1, <4>2, <4>3 DEF replay_step
    <3>5. CASE i # 1 /\ ~\A k \in 1..i - 1 : Fits(k)
      <4>1. closed[i - 1] = Invalid
        BY SMT, <3>1, <3>5
      <4>2. ~\A k \in 1..i : Fits(k)
        BY SMT, <3>1, <3>5
      <4> QED BY <2>1, <3>1, <3>2, <4>1, <4>2 DEF replay_step
    <3> QED BY <3>3, <3>4, <3>5
  <2>3. closed = loop(closed)
    <3>1. closed[0] = log[1].from_state
      BY SMT, <2>1
    <3>2. \A i \in 0..n : closed[i] = loop(closed)[i]
      <4> SUFFICES ASSUME NEW i \in 0..n PROVE closed[i] = loop(closed)[i]
        OBVIOUS
      <4>1. CASE i = 0
        BY <3>1, <4>1
      <4>2. CASE i # 0
        <5>1. i \in 1..n
          BY SMT, <2>1, <4>2
        <5>2. closed[i] = replay_step(closed[i - 1], log[i])
          BY <2>2, <5>1
        <5> HIDE DEF closed
        <5> QED BY <4>2, <5>2
      <4> QED BY <4>1, <4>2
    <3>3. closed = [i \in 0..n |-> closed[i]]
      OBVIOUS
    <3> HIDE DEF closed
    <3> QED BY <3>2, <3>3
  <2>4. after = loop(after)
    BY <2>3
  <2> HIDE DEF after, closed
  <2>5. \A i \in 0..n : after[i] = closed[i]
    <3> DEFINE T == {i \in 0..n : after[i] # closed[i]}
    <3>1. SUFFICES ASSUME T # {} PROVE FALSE
      OBVIOUS
    <3>2. T \subseteq Nat
      BY SMT, <2>1
    <3> HIDE DEF T
    <3>3. PICK x \in T : \A y \in T : ~(<<y, x>> \in OpToRel(<, Nat))
      BY <3>1, <3>2, NatLessThanWellFounded, WFMin
    <3>4. \A y \in T : ~(y < x)
      BY <3>2, <3>3 DEF OpToRel
    <3>5. x \in 0..n /\ after[x] # closed[x] /\ \A y \in 0..n : y < x => after[y] = closed[y]
      BY <3>4 DEF T
    <3>6. after[x] = loop(after)[x] /\ closed[x] = loop(closed)[x]
      BY <2>3, <2>4
    <3>7. CASE x = 0
      BY <3>5, <3>6, <3>7
    <3>8. CASE x # 0
      <4>1. x - 1 \in 0..n /\ x - 1 < x
        BY SMT, <2>1, <3>5, <3>8
      <4> QED BY <3>5, <3>6, <3>8, <4>1
    <3> QED BY <3>7, <3>8
  <2>6. replay_loop(log) = closed[n]
    <3>1. replay_loop(log) = after[n]
      BY <1>2 DEF replay_loop, after, n
    <3> QED BY SMT, <2>1, <2>5, <3>1
  <2> QED BY SMT, <1>2, <2>1, <2>6 DEF closed, n, replay_to_current_state, Replayable
<1> QED BY <1>1, <1>2

\* The loop and the closed form agree on every log that is in memory or can be
\* read from the disk, whatever holes failed appends have left in it.
THEOREM ReplayAlwaysAgrees == Spec => []ReplayAgrees
  <1>1. TypeOK => ReplayAgrees
    <2> SUFFICES ASSUME TypeOK PROVE ReplayAgrees
      OBVIOUS
    <2>1. ASSUME NEW j \in DOMAIN event_logs
          PROVE  replay_loop(event_logs[j]) = replay_to_current_state(event_logs[j])
      <3>1. event_logs[j] \in Seq(StateTransitionEvent)
        BY DEF TypeOK
      <3> QED BY <3>1, LoopIsClosedForm
    <2>2. ASSUME NEW j \in DOMAIN events_file,
                 \A i \in 1..Len(events_file[j].lines) : events_file[j].lines[i] # Garbage
          PROVE  replay_loop(events_file[j].lines) = replay_to_current_state(events_file[j].lines)
      <3>1. events_file[j].lines \in Seq(StateTransitionEvent \cup {Garbage})
        BY DEF TypeOK, LogFile
      <3>2. events_file[j].lines \in Seq(StateTransitionEvent)
        BY SMT, <2>2, <3>1
      <3> QED BY <3>2, LoopIsClosedForm
    <2> QED BY <2>1, <2>2 DEF ReplayAgrees
  <1> QED BY <1>1, TypeCorrect, PTL
-----------------------------------------------------------------------------
(* What the callers were told. *)

\* A transition that leads to a state leaves a live one, and either ends the
\* job or takes it to the next stage of Pending, Compiling, Running.
LEMMA TransitionAdvances ==
    ASSUME NEW from \in JobState, NEW event \in JobEvent, transition(from, event) \in JobState
    PROVE  /\ ~is_terminal(from)
           /\ \/ is_terminal(transition(from, event))
              \/ from = "Pending" /\ transition(from, event) = "Compiling"
              \/ from = "Compiling" /\ transition(from, event) = "Running"
  <1>1. ~is_terminal(from)
    BY DEF transition, JobState, is_terminal, Invalid
  <1>2. from \in {"Pending", "Compiling", "Running"}
    BY <1>1 DEF is_terminal, JobState
  <1>3. transition(from, event) # Invalid
    BY DEF JobState, Invalid
  <1> HIDE DEF Invalid
  <1>4. CASE from = "Pending"
    BY <1>1, <1>3, <1>4 DEF transition, is_terminal
  <1>5. CASE from = "Compiling"
    BY <1>1, <1>3, <1>5 DEF transition, is_terminal
  <1>6. CASE from = "Running"
    BY <1>1, <1>3, <1>6 DEF transition, is_terminal
  <1> QED BY <1>1, <1>2, <1>4, <1>5, <1>6

\* The lifecycle has no cycle: the length of a log that replays from Pending to
\* a live state is the rank of that state.
LEMMA LiveLogLength ==
    ASSUME NEW log \in Seq(StateTransitionEvent), log # <<>>, Replayable(log),
           log[1].from_state = "Pending", ~is_terminal(log[Len(log)].to_state)
    PROVE  \/ Len(log) = 1 /\ log[Len(log)].to_state = "Compiling"
           \/ Len(log) = 2 /\ log[Len(log)].to_state = "Running"
  <1>1. Len(log) \in Nat /\ Len(log) >= 1
    BY SMT
  <1>2. ASSUME NEW i \in 1..Len(log)
        PROVE  /\ ~is_terminal(log[i].from_state)
               /\ i > 1 => log[i].from_state = log[i - 1].to_state
               /\ \/ is_terminal(log[i].to_state)
                  \/ log[i].from_state = "Pending" /\ log[i].to_state = "Compiling"
                  \/ log[i].from_state = "Compiling" /\ log[i].to_state = "Running"
    <2>1. /\ log[i] \in StateTransitionEvent
          /\ transition(log[i].from_state, log[i].event) = log[i].to_state
          /\ i > 1 => log[i].from_state = log[i - 1].to_state
      BY SMT DEF Replayable
    <2>2. /\ log[i].from_state \in JobState /\ log[i].event \in JobEvent
          /\ log[i].to_state \in JobState
      BY <2>1 DEF StateTransitionEvent
    <2> QED BY <2>1, <2>2, TransitionAdvances
  <1>3. CASE Len(log) = 1
    BY SMT, <1>2, <1>3 DEF is_terminal
  <1>4. CASE Len(log) >= 2
    <2>1. 1 \in 1..Len(log) /\ 2 \in 1..Len(log) /\ 2 - 1 = 1
      BY SMT, <1>1, <1>4
    <2>2. log[2].from_state = log[1].to_state /\ ~is_terminal(log[2].from_state)
      BY SMT, <1>2, <2>1
    <2>3. log[1].to_state = "Compiling"
      BY <1>2, <2>1, <2>2
    <2>4. is_terminal(log[2].to_state) \/ log[2].to_state = "Running"
      BY <1>2, <2>1, <2>2, <2>3
    <2>5. CASE Len(log) = 2
      BY <2>4, <2>5
    <2>6. CASE Len(log) >= 3
      <3>1. 3 \in 1..Len(log) /\ 3 - 1 = 2
        BY SMT, <1>1, <2>6
      <3>2. log[3].from_state = log[2].to_state /\ ~is_terminal(log[3].from_state)
        BY SMT, <1>2, <3>1
      <3>3. log[3].from_state = "Running"
        BY <2>4, <3>2
      <3>4. is_terminal(log[3].to_state)
        BY <1>2, <3>1, <3>3
      <3>5. Len(log) # 3
        BY <3>4
      <3>6. 4 \in 1..Len(log) /\ 4 - 1 = 3
        <4> DEFINE n == Len(log)
        <4>1. n \in Nat /\ n >= 3 /\ n # 3
          BY <1>1, <2>6, <3>5
        <4> HIDE DEF n
        <4>2. 4 \in 1..n /\ 4 - 1 = 3
          BY SMT, <4>1
        <4> QED BY <4>2 DEF n
      <3>7. log[4].from_state = log[3].to_state /\ ~is_terminal(log[4].from_state)
        BY SMT, <1>2, <3>6
      <3> QED BY <3>4, <3>7
    <2>7. Len(log) = 2 \/ Len(log) >= 3
      <3> DEFINE n == Len(log)
      <3>1. n \in Nat /\ n >= 2
        BY <1>1, <1>4
      <3> HIDE DEF n
      <3>2. n = 2 \/ n >= 3
        BY SMT, <3>1
      <3> QED BY <3>2 DEF n
    <2> QED BY <2>5, <2>6, <2>7
  <1>5. Len(log) = 1 \/ Len(log) >= 2
    <2> DEFINE n == Len(log)
    <2>1. n \in Nat /\ n >= 1
      BY <1>1
    <2> HIDE DEF n
    <2>2. n = 1 \/ n >= 2
      BY SMT, <2>1
    <2> QED BY <2>2 DEF n
  <1> QED BY <1>3, <1>4, <1>5

\* What a log that verifies is: events numbered from 1 that replay.
LEMMA VerifiedFacts ==
    ASSUME NEW lines \in Seq(StateTransitionEvent \cup {Garbage}), verify(lines)
    PROVE  /\ lines \in Seq(StateTransitionEvent) /\ lines # <<>>
           /\ Len(lines) \in Nat /\ Len(lines) >= 1
           /\ \A i \in 1..Len(lines) : lines[i].sequence = i
           /\ Replayable(lines)
           /\ replay_to_current_state(lines) = lines[Len(lines)].to_state
           /\ lines[Len(lines)].to_state \in JobState
  <1>1. /\ lines # <<>> /\ Replayable(lines)
        /\ replay_to_current_state(lines) = lines[Len(lines)].to_state
        /\ \A i \in 1..Len(lines) : lines[i].sequence = i
    BY DEF verify, replay_to_current_state, SequencesContiguous
  <1>2. Len(lines) \in Nat /\ Len(lines) >= 1
    BY SMT, <1>1
  <1>3. Garbage.sequence = 0
    BY DEF Garbage
  <1>4. \A i \in 1..Len(lines) : lines[i] \in StateTransitionEvent
    BY SMT, <1>1, <1>3
  <1>5. lines \in Seq(StateTransitionEvent)
    BY SMT, <1>4
  <1>6. lines[Len(lines)] \in StateTransitionEvent
    BY SMT, <1>2, <1>4
  <1> QED BY <1>1, <1>2, <1>5, <1>6 DEF StateTransitionEvent

\* A file still verifies after a write only if the write ended a whole line, the
\* lines before it verify, and it carries on their numbers and their states.
LEMMA VerifiedPut ==
    ASSUME NEW file \in LogFile, file.open => file.lines # <<>>,
           NEW line \in StateTransitionEvent \cup {Garbage}, NEW open \in BOOLEAN,
           verify(Put(file, line, open).lines)
    PROVE  /\ ~file.open
           /\ Put(file, line, open).lines = Append(file.lines, line)
           /\ line \in StateTransitionEvent
           /\ line.sequence = Len(file.lines) + 1
           /\ replay_to_current_state(Put(file, line, open).lines) = line.to_state
           /\ file.lines # <<>> => /\ verify(file.lines)
                                   /\ replay_to_current_state(file.lines) = line.from_state
  <1> DEFINE old == file.lines
             new == Put(file, line, open).lines
  <1>1. old \in Seq(StateTransitionEvent \cup {Garbage}) /\ file.open \in BOOLEAN
    BY DEF LogFile
  <1>2. Put(file, line, open) \in LogFile
    BY PutFacts
  <1>3. new \in Seq(StateTransitionEvent \cup {Garbage})
    BY <1>2 DEF LogFile
  <1>4. /\ new \in Seq(StateTransitionEvent)
        /\ \A i \in 1..Len(new) : new[i].sequence = i
        /\ Replayable(new) /\ Len(new) \in Nat /\ Len(new) >= 1
        /\ replay_to_current_state(new) = new[Len(new)].to_state
    BY <1>3, VerifiedFacts
  <1>5. ~file.open
    <2> SUFFICES ASSUME file.open PROVE FALSE
      OBVIOUS
    <2>1. new = [old EXCEPT ![Len(old)] = Garbage]
      BY DEF Put
    <2>2. Len(old) \in 1..Len(old)
      BY SMT, <1>1
    <2>3. Len(new) = Len(old) /\ new[Len(old)] = Garbage
      BY SMT, <1>1, <2>1, <2>2, SeqReplaced, Garbage \in StateTransitionEvent \cup {Garbage}
    <2>4. Garbage.sequence = 0
      BY DEF Garbage
    <2> QED BY SMT, <1>4, <2>2, <2>3, <2>4
  <1>6. new = Append(old, line)
    BY <1>5 DEF Put
  <1>7. /\ Len(new) = Len(old) + 1 /\ Len(old) \in Nat /\ new[Len(new)] = line
        /\ \A i \in 1..Len(old) : new[i] = old[i]
    BY SMT, <1>1, <1>6
  <1>8. /\ line \in StateTransitionEvent /\ line.sequence = Len(old) + 1
        /\ replay_to_current_state(new) = line.to_state
    BY SMT, <1>4, <1>7
  <1>9. ASSUME old # <<>>
        PROVE  verify(old) /\ replay_to_current_state(old) = line.from_state
    <2>1. Len(old) \in 1..Len(old) /\ Len(old) + 1 \in 1..Len(new) /\ Len(old) >= 1
      BY SMT, <1>1, <1>7, <1>9
    <2>2. \A i \in 1..Len(old) : /\ i \in 1..Len(new) /\ old[i] = new[i]
                                 /\ i > 1 => old[i - 1] = new[i - 1]
      BY SMT, <1>7
    <2>3. Replayable(old) /\ SequencesContiguous(old)
      <3> SUFFICES ASSUME NEW i \in 1..Len(old)
                   PROVE  /\ i > 1 => old[i].from_state = old[i - 1].to_state
                          /\ transition(old[i].from_state, old[i].event) = old[i].to_state
                          /\ old[i].sequence = i
        BY DEF Replayable, SequencesContiguous
      <3>1. i \in 1..Len(new) /\ old[i] = new[i] /\ (i > 1 => old[i - 1] = new[i - 1])
        BY <2>2
      <3>2. /\ new[i].sequence = i
            /\ i > 1 => new[i].from_state = new[i - 1].to_state
            /\ transition(new[i].from_state, new[i].event) = new[i].to_state
        BY <1>4, <3>1 DEF Replayable
      <3> QED BY <3>1, <3>2
    <2>4. old[Len(old)].to_state = line.from_state
      <3>1. new[Len(old) + 1].from_state = new[(Len(old) + 1) - 1].to_state
        BY SMT, <1>4, <2>1 DEF Replayable
      <3>2. /\ new[Len(old) + 1] = line /\ (Len(old) + 1) - 1 = Len(old)
            /\ old[Len(old)] = new[Len(old)]
        BY SMT, <1>7, <2>1, <2>2
      <3> QED BY <3>1, <3>2
    <2>5. line.from_state # Invalid
      BY <1>8 DEF StateTransitionEvent, JobState, Invalid
    <2> QED BY <1>9, <2>3, <2>4, <2>5 DEF verify, replay_to_current_state
  <1> QED BY <1>5, <1>6, <1>8, <1>9

-----------------------------------------------------------------------------
\* The lines are the first ones of the log.
Begins(lines, log) ==
    Len(lines) <= Len(log) /\ \A i \in 1..Len(lines) : lines[i] = log[i]

\* Where a record stands in its job's story. A record that was never recovered
\* numbers its events as the history does and shows what its callers were told;
\* one that was recovered numbers them from 1 again, behind the log it loaded.
\* What a file tells, if it verifies, is the beginning of the history.
Story ==
    /\ DOMAIN records \subseteq DOMAIN acked
    /\ DOMAIN events_file \subseteq DOMAIN acked
    /\ \A j \in Jobs \ DOMAIN acked : history[j] = <<>>
    /\ \A j \in DOMAIN records :
         \/ /\ records[j].sequence = Len(history[j]) + 1
            /\ records[j].state = acked[j]
         \/ /\ records[j].sequence <= Len(event_logs[j])
            /\ Len(event_logs[j]) <= Len(history[j])
    /\ \A j \in DOMAIN events_file :
         verify(events_file[j].lines) =>
            Begins(events_file[j].lines, history[j])

\* An append of a recovered record never leaves a file that verifies: the
\* number of the line would have to be its place in the file, and the states
\* of the lifecycle do not come back.
LEMMA OnlyFirstLifeVerifies ==
    ASSUME IInv, NEW j \in Jobs, NEW event \in JobEvent, Accepts(j, event),
           verify(Append(FileOf(j).lines, EventOf(j, event))), ~FileOf(j).open
    PROVE  ~(records[j].sequence <= Len(event_logs[j]))
  <1> SUFFICES ASSUME records[j].sequence <= Len(event_logs[j]) PROVE FALSE
    OBVIOUS
  <1> DEFINE ev == EventOf(j, event)
             old == FileOf(j).lines
             log == event_logs[j]
  <1>1. /\ ev \in StateTransitionEvent /\ ev.sequence = records[j].sequence
        /\ ev.from_state = records[j].state
    BY EventOfFacts DEF IInv
  <1>2. FileOf(j) \in LogFile /\ (FileOf(j).open => old # <<>>)
    BY FileOfType DEF IInv, DiskStartsPending, FileOf, EmptyFile
  <1>3. Put(FileOf(j), ev, FALSE).lines = Append(old, ev)
    BY DEF Put
  <1>4. /\ ev.sequence = Len(old) + 1
        /\ old # <<>> => verify(old) /\ replay_to_current_state(old) = ev.from_state
    BY <1>1, <1>2, <1>3, VerifiedPut
  <1>5. old \in Seq(StateTransitionEvent \cup {Garbage}) /\ Len(old) \in Nat
    BY SMT, <1>2 DEF LogFile
  <1>6. /\ j \in DOMAIN records /\ ~is_terminal(records[j].state)
        /\ records[j].state \in JobState
        /\ j \in DOMAIN event_logs /\ log \in Seq(StateTransitionEvent) /\ Len(log) \in Nat
    BY SMT DEF Accepts, IInv, RecordsMatchLogs, TypeOK, DurableJobRecord
  <1>7. Len(log) >= Len(old) + 1 /\ Len(log) >= 1 /\ log # <<>>
    BY SMT, <1>1, <1>4, <1>5, <1>6
  <1>8. /\ log[1].from_state = "Pending" /\ Replayable(log)
        /\ log[Len(log)].to_state = records[j].state
    BY <1>6, <1>7 DEF IInv, RecordsMatchLogs, replay_to_current_state, JobState, Invalid
  <1>9. \/ Len(log) = 1 /\ records[j].state = "Compiling"
        \/ Len(log) = 2 /\ records[j].state = "Running"
    <2> HIDE DEF log
    <2> QED BY <1>6, <1>7, <1>8, LiveLogLength
  <1>10. CASE old = <<>>
    <2>1. records[j].sequence = 1
      BY SMT, <1>1, <1>4, <1>10
    <2>2. records[j].state = "Pending"
      BY <1>6, <1>10, <2>1 DEF IInv, DiskStartsPending
    <2> QED BY <1>9, <2>2
  <1>11. CASE old # <<>>
    <2>1. /\ old \in Seq(StateTransitionEvent) /\ Replayable(old) /\ Len(old) >= 1
          /\ old[1].sequence = 1
          /\ old[Len(old)].to_state = records[j].state
      <3>1. verify(old)
        BY <1>4, <1>11
      <3> QED BY SMT, <1>1, <1>4, <1>5, <1>11, <3>1, VerifiedFacts
    <2>2. old[1].from_state = "Pending"
      BY <1>11, <2>1 DEF IInv, DiskStartsPending, FileOf, EmptyFile
    <2>3. \/ Len(old) = 1 /\ records[j].state = "Compiling"
          \/ Len(old) = 2 /\ records[j].state = "Running"
      <3> HIDE DEF old
      <3> QED BY <1>6, <1>11, <2>1, <2>2, LiveLogLength
    <2> QED BY SMT, <1>5, <1>6, <1>7, <1>9, <2>3
  <1> QED BY <1>10, <1>11

\* A state and the state the last answered call reported: the same, or the
\* state one event later.
OneFurther(state, told) ==
    state = told \/ \E event \in JobEvent : state = transition(told, event)

\* While no append has failed, a file that verifies ends where the record is,
\* and at most one event beyond what the callers were told.
Told ==
    io_failures = 0 =>
        /\ \A j \in DOMAIN records : OneFurther(records[j].state, acked[j])
        /\ \A j \in DOMAIN events_file :
             verify(events_file[j].lines) =>
                LET state == replay_to_current_state(events_file[j].lines) IN
                /\ OneFurther(state, acked[j])
                /\ j \in DOMAIN records => records[j].state = state

\* What an append of an accepted event leaves of the files that verify: every
\* one as it was, but for the job's own file with the event as its last line.
LEMMA AppendOutcome ==
    ASSUME IInv, NEW j \in Jobs, NEW event \in JobEvent, Accepts(j, event),
           NEW files \in {append_log_line(j, EventOf(j, event))}
                           \cup TornAppends(j, EventOf(j, event))
    PROVE  /\ DOMAIN files \subseteq DOMAIN events_file \cup {j}
           /\ \A k \in DOMAIN files : verify(files[k].lines) =>
                \/ k \in DOMAIN events_file /\ files[k].lines = events_file[k].lines
                \/ /\ k = j /\ ~FileOf(j).open
                   /\ files[j].lines = Append(FileOf(j).lines, EventOf(j, event))
           /\ files = append_log_line(j, EventOf(j, event)) /\ verify(files[j].lines) =>
                files[j].lines = Append(FileOf(j).lines, EventOf(j, event))
  <1> DEFINE ev == EventOf(j, event)
             old == FileOf(j)
  <1>1. ev \in StateTransitionEvent /\ ev \in StateTransitionEvent \cup {Garbage}
    BY EventOfFacts DEF IInv
  <1>2. old \in LogFile /\ (old.open => old.lines # <<>>)
    BY FileOfType DEF IInv, DiskStartsPending, FileOf, EmptyFile
  <1> DEFINE Appended(file) == ~old.open /\ file.lines = Append(old.lines, ev)
  <1>3. ASSUME NEW open \in BOOLEAN, verify(Put(old, ev, open).lines)
        PROVE  Appended(Put(old, ev, open))
    <2>1. Put(old, ev, open).lines = Append(old.lines, ev)
      BY <1>1, <1>2, <1>3, VerifiedPut
    <2>2. ~old.open
      BY <1>1, <1>2, <1>3, VerifiedPut
    <2> QED BY <2>1, <2>2
  <1>4. ~verify(Put(old, Garbage, TRUE).lines)
    <2> SUFFICES ASSUME verify(Put(old, Garbage, TRUE).lines) PROVE FALSE
      OBVIOUS
    <2>1. Garbage \in StateTransitionEvent
      BY <1>2, VerifiedPut
    <2> QED BY <2>1 DEF Garbage, StateTransitionEvent
  <1>5. ~verify(EmptyFile.lines)
    BY DEF verify, replay_to_current_state, EmptyFile
  <1>6. CASE files = events_file
    <2>1. ASSUME files = append_log_line(j, ev), verify(files[j].lines)
          PROVE  files[j].lines = Append(old.lines, ev)
      <3>1. files[j] = Put(old, ev, FALSE)
        BY <2>1 DEF append_log_line, Insert
      <3> QED BY <1>3, <2>1, <3>1
    <2> QED BY <1>6, <2>1
  <1>7. ASSUME NEW file \in {old, Put(old, Garbage, TRUE), Put(old, ev, TRUE), Put(old, ev, FALSE)},
               files = Insert(events_file, j, file)
        PROVE  /\ DOMAIN files \subseteq DOMAIN events_file \cup {j}
               /\ \A k \in DOMAIN files : verify(files[k].lines) =>
                    \/ k \in DOMAIN events_file /\ files[k].lines = events_file[k].lines
                    \/ k = j /\ Appended(files[j])
    <2>1. /\ DOMAIN files = DOMAIN events_file \cup {j} /\ files[j] = file
          /\ \A k \in DOMAIN events_file \ {j} : files[k] = events_file[k]
      BY <1>7 DEF Insert
    <2>2. ASSUME verify(file.lines)
          PROVE  Appended(file) \/ (j \in DOMAIN events_file /\ file = events_file[j])
      <3>1. CASE file = old
        BY <1>5, <2>2, <3>1 DEF FileOf
      <3>2. CASE file \in {Put(old, ev, TRUE), Put(old, ev, FALSE)}
        BY <1>3, <2>2, <3>2
      <3> QED BY <1>4, <1>7, <2>2, <3>1, <3>2
    <2> HIDE DEF Appended
    <2> QED BY <2>1, <2>2
  <1>8. CASE files = append_log_line(j, ev)
    <2>1. files = Insert(events_file, j, Put(old, ev, FALSE))
      BY <1>8 DEF append_log_line
    <2>2. files[j] = Put(old, ev, FALSE)
      BY <2>1 DEF Insert
    <2>3. verify(files[j].lines) => files[j].lines = Append(old.lines, ev)
      BY <1>3, <2>2
    <2> QED BY <1>7, <2>1, <2>3
  <1>9. CASE files \in TornAppends(j, ev) /\ files # events_file
    <2>1. PICK file \in {old, Put(old, Garbage, TRUE), Put(old, ev, TRUE), Put(old, ev, FALSE)} :
             files = Insert(events_file, j, file)
      BY <1>9 DEF TornAppends
    <2>2. ASSUME files = append_log_line(j, ev), verify(files[j].lines)
          PROVE  files[j].lines = Append(old.lines, ev)
      <3>1. files[j] = Put(old, ev, FALSE)
        BY <2>2 DEF append_log_line, Insert
      <3> QED BY <1>3, <2>2, <3>1
    <2> QED BY <1>7, <2>1, <2>2
  <1> QED BY <1>6, <1>8, <1>9

\* If the file verifies with an event as its new last line, the record was never
\* recovered, and the event has the same place in the lines and in the history.
LEMMA AppendedBegins ==
    ASSUME IInv, Story, NEW j \in Jobs, NEW event \in JobEvent, Accepts(j, event),
           verify(Append(FileOf(j).lines, EventOf(j, event))), ~FileOf(j).open
    PROVE  /\ records[j].sequence = Len(history[j]) + 1 /\ records[j].state = acked[j]
           /\ Begins(Append(FileOf(j).lines, EventOf(j, event)),
                     Append(history[j], EventOf(j, event)))
           /\ replay_to_current_state(Append(FileOf(j).lines, EventOf(j, event)))
                 = EventOf(j, event).to_state
  <1> DEFINE ev == EventOf(j, event)
             old == FileOf(j).lines
             new == Append(old, ev)
             log == history[j]
  <1>1. records[j].sequence = Len(log) + 1 /\ records[j].state = acked[j]
    BY OnlyFirstLifeVerifies DEF Story, Accepts
  <1>2. ev \in StateTransitionEvent /\ ev.sequence = records[j].sequence
    BY EventOfFacts DEF IInv
  <1>3. FileOf(j) \in LogFile /\ (FileOf(j).open => old # <<>>)
    BY FileOfType DEF IInv, DiskStartsPending, FileOf, EmptyFile
  <1>4. Put(FileOf(j), ev, FALSE).lines = new
    BY DEF Put
  <1>5. /\ ev.sequence = Len(old) + 1 /\ (old # <<>> => verify(old))
        /\ replay_to_current_state(new) = ev.to_state
    <2>1. verify(Put(FileOf(j), ev, FALSE).lines)
      BY <1>4
    <2> HIDE DEF ev
    <2>2. /\ ev.sequence = Len(old) + 1 /\ (old # <<>> => verify(old))
          /\ replay_to_current_state(Put(FileOf(j), ev, FALSE).lines) = ev.to_state
      BY <1>2, <1>3, <2>1, VerifiedPut
    <2> QED BY <1>4, <2>2
  <1>6. old # <<>> => Begins(old, log)
    BY <1>5 DEF Story, FileOf, EmptyFile
  <1>7. old \in Seq(StateTransitionEvent \cup {Garbage}) /\ log \in Seq(StateTransitionEvent)
    BY <1>3 DEF LogFile, IInv, TypeOK
  <1> HIDE DEF ev, old, log
  <1>8. Len(old) = Len(log) /\ Len(old) \in Nat
    <2>1. Len(old) \in Nat /\ Len(log) \in Nat
      BY SMT, <1>7
    <2>2. Len(log) + 1 = Len(old) + 1
      BY <1>1, <1>2, <1>5
    <2> QED BY SMT, <2>1, <2>2
  <1>9. /\ Len(new) = Len(old) + 1 /\ new[Len(old) + 1] = ev
        /\ \A i \in 1..Len(old) : new[i] = old[i]
        /\ Len(Append(log, ev)) = Len(log) + 1 /\ Append(log, ev)[Len(log) + 1] = ev
        /\ \A i \in 1..Len(log) : Append(log, ev)[i] = log[i]
    BY SMT, <1>2, <1>7, SeqGrown
  <1>10. \A i \in 1..Len(old) : old[i] = log[i]
    BY SMT, <1>6, <1>8 DEF Begins
  <1>11. Begins(new, Append(log, ev))
    BY SMT, <1>8, <1>9, <1>10 DEF Begins
  <1> QED BY <1>1, <1>5, <1>11 DEF ev, old, log

\* Lines that begin a log still do when the log grows.
LEMMA StillBegins ==
    ASSUME NEW S, NEW lines \in Seq(S), NEW T, NEW log \in Seq(T), NEW ev \in T, Begins(lines, log)
    PROVE  Begins(lines, Append(log, ev))
  BY SMT DEF Begins

\* The two hold before the first call.
LEMMA StoryBegins == Init => Story /\ Told
  <1> SUFFICES ASSUME Init PROVE Story /\ Told
    OBVIOUS
  <1>1. /\ records = Empty /\ events_file = Empty /\ acked = Empty /\ DOMAIN Empty = {}
        /\ history = [j \in Jobs |-> <<>>]
    BY DEF Init, Empty
  <1> QED BY <1>1 DEF Story, Told

\* create_job begins a story: a fresh id has no history.
LEMMA CreateTells ==
    ASSUME IInv, Story, Told, NEW j \in Jobs, create_job(j)
    PROVE  Story' /\ Told'
  <1>1. /\ records' = Insert(records, j, NewRecord)
        /\ event_logs' = Insert(event_logs, j, <<>>)
        /\ acked' = Insert(acked, j, "Pending")
        /\ events_file' = events_file /\ history' = history
        /\ j \notin DOMAIN acked /\ j \notin DOMAIN events_file
    BY DEF create_job, Fresh
  <1>2. /\ DOMAIN records' = DOMAIN records \cup {j} /\ records'[j] = NewRecord
        /\ \A k \in DOMAIN records \ {j} : records'[k] = records[k]
        /\ \A k \in DOMAIN event_logs \ {j} : event_logs'[k] = event_logs[k]
        /\ DOMAIN acked' = DOMAIN acked \cup {j} /\ acked'[j] = "Pending"
        /\ \A k \in DOMAIN acked : acked'[k] = acked[k]
    BY <1>1 DEF Insert
  <1>3. history[j] = <<>> /\ j \notin DOMAIN records /\ DOMAIN records = DOMAIN event_logs
    BY <1>1 DEF Story, IInv, RecordsMatchLogs
  <1>4. records'[j].sequence = Len(history'[j]) + 1 /\ records'[j].state = acked'[j]
    BY SMT, <1>1, <1>2, <1>3 DEF NewRecord
  <1>5. Story'
    BY <1>1, <1>2, <1>3, <1>4 DEF Story
  <1>6. io_failures' = 0 => io_failures = 0
    BY SMT DEF create_job, IInv, TypeOK
  <1>7. Told'
    <2> SUFFICES ASSUME io_failures' = 0
                 PROVE  /\ \A k \in DOMAIN records' : OneFurther(records'[k].state, acked'[k])
                        /\ \A k \in DOMAIN events_file' :
                             verify(events_file'[k].lines) =>
                                /\ OneFurther(replay_to_current_state(events_file'[k].lines), acked'[k])
                                /\ k \in DOMAIN records' =>
                                     records'[k].state = replay_to_current_state(events_file'[k].lines)
      BY DEF Told
    <2>1. OneFurther(records'[j].state, acked'[j])
      BY <1>4 DEF OneFurther
    <2> QED BY <1>1, <1>2, <1>3, <1>6, <2>1 DEF Told, Story
  <1> QED BY <1>5, <1>7

\* apply_event adds the event to the history and, if the file verifies after
\* it, to the lines: its place is the same in both.
LEMMA ApplyTells ==
    ASSUME IInv, Story, Told, NEW j \in Jobs, NEW event \in JobEvent, apply_event(j, event)
    PROVE  Story' /\ Told'
  <1> DEFINE ev == EventOf(j, event)
             old == FileOf(j).lines
  <1>1. /\ Accepts(j, event) /\ j \in DOMAIN records /\ j \in DOMAIN event_logs
        /\ j \in DOMAIN acked /\ DOMAIN event_logs = DOMAIN records
    BY DEF apply_event, Accepts, IInv, RecordsMatchLogs, Story
  <1>2. /\ ev \in StateTransitionEvent /\ ev.sequence = records[j].sequence
        /\ ev.to_state = transition(records[j].state, event)
    BY <1>1, EventOfFacts DEF IInv
  <1>3. /\ events_file' \in {append_log_line(j, ev)} \cup TornAppends(j, ev)
        /\ io_failures' = 0 => io_failures = 0 /\ events_file' = append_log_line(j, ev)
        /\ event_logs' = [event_logs EXCEPT ![j] = Append(@, ev)]
        /\ records' = [records EXCEPT ![j] = [state      |-> ev.to_state,
                                              sequence   |-> records[j].sequence + 1,
                                              attributes |-> records[j].attributes]]
        /\ history' = [history EXCEPT ![j] = Append(@, ev)]
        /\ acked' = [acked EXCEPT ![j] = ev.to_state]
    BY SMT, <1>1 DEF apply_event, IInv, TypeOK
  <1>4. /\ history[j] \in Seq(StateTransitionEvent) /\ event_logs[j] \in Seq(StateTransitionEvent)
        /\ DOMAIN history = Jobs /\ records[j].sequence \in Nat
        /\ DOMAIN records \subseteq Jobs
    BY <1>1 DEF IInv, TypeOK, DurableJobRecord
  <1>5. /\ DOMAIN events_file' \subseteq DOMAIN events_file \cup {j}
        /\ \A k \in DOMAIN events_file' : verify(events_file'[k].lines) =>
             \/ k \in DOMAIN events_file /\ events_file'[k].lines = events_file[k].lines
             \/ k = j /\ ~FileOf(j).open /\ events_file'[j].lines = Append(old, ev)
        /\ events_file' = append_log_line(j, ev) /\ verify(events_file'[j].lines) =>
             events_file'[j].lines = Append(old, ev)
    BY <1>1, <1>3, AppendOutcome
  <1> HIDE DEF ev
  <1>6. /\ DOMAIN records' = DOMAIN records /\ DOMAIN acked' = DOMAIN acked
        /\ records'[j].state = ev.to_state /\ records'[j].sequence = records[j].sequence + 1
        /\ acked'[j] = ev.to_state
        /\ \A k \in DOMAIN records \ {j} : records'[k] = records[k] /\ event_logs'[k] = event_logs[k]
        /\ \A k \in DOMAIN acked \ {j} : acked'[k] = acked[k]
        /\ \A k \in Jobs \ {j} : history'[k] = history[k]
        /\ history'[j] = Append(history[j], ev) /\ event_logs'[j] = Append(event_logs[j], ev)
    BY <1>1, <1>3, <1>4
  <1>7. /\ Len(history'[j]) = Len(history[j]) + 1 /\ Len(event_logs'[j]) = Len(event_logs[j]) + 1
        /\ Len(history[j]) \in Nat /\ Len(event_logs[j]) \in Nat
    <2>1. Len(Append(history[j], ev)) = Len(history[j]) + 1 /\ Len(history[j]) \in Nat
      BY SMT, <1>2, <1>4, SeqGrown
    <2>2. Len(Append(event_logs[j], ev)) = Len(event_logs[j]) + 1 /\ Len(event_logs[j]) \in Nat
      BY SMT, <1>2, <1>4, SeqGrown
    <2> QED BY <1>6, <2>1, <2>2
  <1>8. \/ /\ records'[j].sequence = Len(history'[j]) + 1 /\ records'[j].state = acked'[j]
        \/ /\ records'[j].sequence <= Len(event_logs'[j]) /\ Len(event_logs'[j]) <= Len(history'[j])
    BY SMT, <1>1, <1>4, <1>6, <1>7 DEF Story
  <1>9. ASSUME NEW lines, j \in DOMAIN events_file, lines = events_file[j].lines, verify(lines)
        PROVE  Begins(lines, history'[j])
    <2>1. lines \in Seq(StateTransitionEvent \cup {Garbage})
      BY <1>9 DEF IInv, TypeOK, LogFile
    <2>2. Begins(lines, history[j])
      BY <1>9 DEF Story
    <2>3. Begins(lines, Append(history[j], ev))
      BY <1>2, <1>4, <2>1, <2>2, StillBegins
    <2> QED BY <1>6, <2>3
  <1>10. ASSUME verify(Append(old, ev)), ~FileOf(j).open
         PROVE  Begins(Append(old, ev), history'[j])
    BY <1>1, <1>6, <1>10, AppendedBegins DEF ev
  <1>11. Story'
    <2>1. ASSUME NEW k \in DOMAIN events_file', verify(events_file'[k].lines)
          PROVE  Begins(events_file'[k].lines, history'[k])
      <3>1. CASE k = j
        BY <1>5, <1>9, <1>10, <2>1, <3>1
      <3>2. CASE k # j
        <4>1. k \in DOMAIN events_file /\ events_file'[k].lines = events_file[k].lines /\ k \in Jobs
          BY <1>5, <2>1, <3>2 DEF IInv, TypeOK
        <4> QED BY <1>6, <2>1, <3>2, <4>1 DEF Story
      <3> QED BY <3>1, <3>2
    <2>2. ASSUME NEW k \in DOMAIN records'
          PROVE  \/ /\ records'[k].sequence = Len(history'[k]) + 1 /\ records'[k].state = acked'[k]
                 \/ /\ records'[k].sequence <= Len(event_logs'[k])
                    /\ Len(event_logs'[k]) <= Len(history'[k])
      <3>1. CASE k = j
        BY <1>8, <3>1
      <3>2. CASE k # j
        BY <1>4, <1>6, <2>2, <3>2 DEF Story
      <3> QED BY <3>1, <3>2
    <2>3. \A k \in Jobs \ DOMAIN acked' : history'[k] = <<>>
      BY <1>1, <1>6 DEF Story
    <2>4. DOMAIN records' \subseteq DOMAIN acked' /\ DOMAIN events_file' \subseteq DOMAIN acked'
      BY <1>1, <1>5, <1>6 DEF Story
    <2> QED BY <2>1, <2>2, <2>3, <2>4 DEF Story
  <1>12. Told'
    <2> SUFFICES ASSUME io_failures' = 0
                 PROVE  /\ \A k \in DOMAIN records' : OneFurther(records'[k].state, acked'[k])
                        /\ \A k \in DOMAIN events_file' :
                             verify(events_file'[k].lines) =>
                                /\ OneFurther(replay_to_current_state(events_file'[k].lines), acked'[k])
                                /\ k \in DOMAIN records' =>
                                     records'[k].state = replay_to_current_state(events_file'[k].lines)
      BY DEF Told
    <2>1. io_failures = 0 /\ events_file' = append_log_line(j, ev)
      BY <1>3
    <2>2. OneFurther(records'[j].state, acked'[j])
      BY <1>6 DEF OneFurther
    <2>3. \A k \in DOMAIN records' : OneFurther(records'[k].state, acked'[k])
      BY <1>6, <2>1, <2>2 DEF Told, Story
    <2>4. ASSUME j \in DOMAIN events_file', verify(events_file'[j].lines)
          PROVE  replay_to_current_state(events_file'[j].lines) = ev.to_state
      <3>1. events_file'[j].lines = Append(old, ev)
        BY <1>5, <2>1, <2>4
      <3>2. replay_to_current_state(Append(old, ev)) = Append(old, ev)[Len(Append(old, ev))].to_state
        BY <2>4, <3>1 DEF verify, replay_to_current_state
      <3>3. old \in Seq(StateTransitionEvent \cup {Garbage})
        BY FileOfType DEF IInv, LogFile
      <3>4. Append(old, ev)[Len(Append(old, ev))] = ev
        BY SMT, <1>2, <3>3, SeqGrown
      <3> QED BY <3>1, <3>2, <3>4
    <2>5. ASSUME NEW k \in DOMAIN events_file', k # j, verify(events_file'[k].lines)
          PROVE  /\ OneFurther(replay_to_current_state(events_file'[k].lines), acked'[k])
                 /\ k \in DOMAIN records' =>
                      records'[k].state = replay_to_current_state(events_file'[k].lines)
      <3>1. k \in DOMAIN events_file /\ events_file'[k].lines = events_file[k].lines
        BY <1>5, <2>5
      <3> QED BY <1>6, <2>1, <2>5, <3>1 DEF Told, Story
    <2> QED BY <1>6, <2>2, <2>3, <2>4, <2>5
  <1> QED BY <1>11, <1>12

\* A repeated terminal event tells the record's state again; a setter changes
\* neither states nor numbers.
LEMMA SettersTell ==
    ASSUME IInv, Story, Told, NEW j \in Jobs,
           \/ \E event \in JobEvent : apply_event_again(j, event)
           \/ \E attribute \in Attributes : set_attribute(j, attribute)
    PROVE  Story' /\ Told'
  <1>1. CASE \E event \in JobEvent : apply_event_again(j, event)
    <2>1. /\ UNCHANGED <<records, event_logs, events_file, history, io_failures>>
          /\ j \in DOMAIN records /\ j \in DOMAIN acked
          /\ acked' = [acked EXCEPT ![j] = records[j].state]
      BY <1>1 DEF apply_event_again, memory, disk, Story
    <2>2. /\ DOMAIN acked' = DOMAIN acked /\ acked'[j] = records[j].state
          /\ \A k \in DOMAIN acked \ {j} : acked'[k] = acked[k]
      BY <2>1
    <2>3. Story'
      BY <2>1, <2>2 DEF Story
    <2>4. OneFurther(records[j].state, acked'[j])
      BY <2>2 DEF OneFurther
    <2>5. Told'
      BY SMT, <2>1, <2>2, <2>4 DEF Told, Story
    <2> QED BY <2>3, <2>5
  <1>2. ASSUME NEW attribute \in Attributes, set_attribute(j, attribute)
        PROVE  Story' /\ Told'
    <2>1. /\ records' = [records EXCEPT ![j].attributes = @ \cup {attribute}]
          /\ UNCHANGED <<event_logs, events_file, history, io_failures, acked>>
          /\ j \in DOMAIN records /\ records[j] \in DurableJobRecord
      BY <1>2 DEF set_attribute, disk, IInv, TypeOK
    <2>2. /\ DOMAIN records' = DOMAIN records
          /\ \A k \in DOMAIN records : /\ records'[k].state = records[k].state
                                       /\ records'[k].sequence = records[k].sequence
      BY <2>1 DEF DurableJobRecord
    <2> QED BY <2>1, <2>2 DEF Story, Told
  <1> QED BY <1>1, <1>2

\* A crash may leave one event on disk that no caller was told of. It verifies
\* only if the record had never been recovered, and such a record is where its
\* callers were told it is.
LEMMA CrashTells ==
    ASSUME IInv, Story, Told, Crash
    PROVE  Story' /\ Told'
  <1>1. /\ records' = Empty /\ event_logs' = Empty /\ DOMAIN Empty = {}
        /\ UNCHANGED <<io_failures, acked>>
    BY DEF Crash, Empty
  <1>2. CASE UNCHANGED <<events_file, history>>
    BY <1>1, <1>2 DEF Story, Told
  <1>3. ASSUME NEW j \in Jobs, NEW event \in JobEvent, Accepts(j, event),
               events_file' \in TornAppends(j, EventOf(j, event)),
               history' = [history EXCEPT ![j] = Append(@, EventOf(j, event))]
        PROVE  Story' /\ Told'
    <2> DEFINE ev == EventOf(j, event)
               old == FileOf(j).lines
    <2>1. /\ j \in DOMAIN records /\ j \in DOMAIN acked
      BY <1>3 DEF Accepts, Story
    <2>2. /\ ev \in StateTransitionEvent /\ ev.sequence = records[j].sequence
          /\ ev.to_state = transition(records[j].state, event)
      BY <1>3, EventOfFacts DEF IInv
    <2>3. /\ DOMAIN events_file' \subseteq DOMAIN events_file \cup {j}
          /\ \A k \in DOMAIN events_file' : verify(events_file'[k].lines) =>
               \/ k \in DOMAIN events_file /\ events_file'[k].lines = events_file[k].lines
               \/ k = j /\ ~FileOf(j).open /\ events_file'[j].lines = Append(old, ev)
      BY SMT, <1>3, AppendOutcome
    <2>4. history[j] \in Seq(StateTransitionEvent) /\ DOMAIN history = Jobs
      BY DEF IInv, TypeOK
    <2>5. ASSUME verify(Append(old, ev)), ~FileOf(j).open
          PROVE  /\ records[j].state = acked[j]
                 /\ Begins(Append(old, ev), Append(history[j], ev))
                 /\ replay_to_current_state(Append(old, ev)) = ev.to_state
      BY <1>3, <2>5, AppendedBegins
    <2> HIDE DEF ev
    <2>6. /\ \A k \in Jobs \ {j} : history'[k] = history[k]
          /\ history'[j] = Append(history[j], ev)
      BY <1>3, <2>4 DEF ev
    <2>7. ASSUME j \in DOMAIN events_file, verify(events_file[j].lines)
          PROVE  Begins(events_file[j].lines, history'[j])
      <3>1. events_file[j].lines \in Seq(StateTransitionEvent \cup {Garbage})
        BY <2>7 DEF IInv, TypeOK, LogFile
      <3>2. Begins(events_file[j].lines, history[j])
        BY <2>7 DEF Story
      <3> QED BY <2>2, <2>4, <2>6, <3>1, <3>2, StillBegins
    <2>8. ASSUME NEW k \in DOMAIN events_file', verify(events_file'[k].lines)
          PROVE  /\ Begins(events_file'[k].lines, history'[k])
                 /\ io_failures = 0 =>
                       OneFurther(replay_to_current_state(events_file'[k].lines), acked[k])
      <3>1. CASE k \in DOMAIN events_file /\ events_file'[k].lines = events_file[k].lines
        <4>1. Begins(events_file[k].lines, history'[k])
          <5>1. k # j => k \in Jobs /\ history'[k] = history[k]
            BY <2>6, <3>1 DEF IInv, TypeOK
          <5> QED BY <2>7, <2>8, <3>1, <5>1 DEF Story
        <4> QED BY <2>8, <3>1, <4>1 DEF Told
      <3>2. CASE k = j /\ ~FileOf(j).open /\ events_file'[j].lines = Append(old, ev)
        <4>1. verify(Append(old, ev))
          BY <2>8, <3>2
        <4>2. records[j].state = acked[j] /\ OneFurther(ev.to_state, acked[j])
          BY <2>2, <2>5, <3>2, <4>1 DEF OneFurther
        <4> QED BY <2>5, <2>6, <3>2, <4>1, <4>2
      <3> QED BY <2>3, <2>8, <3>1, <3>2
    <2>9. /\ \A k \in Jobs \ DOMAIN acked : history'[k] = <<>>
          /\ DOMAIN events_file' \subseteq DOMAIN acked
      BY <2>1, <2>3, <2>6 DEF Story
    <2>10. Story'
      BY <1>1, <2>8, <2>9 DEF Story
    <2>11. Told'
      BY <1>1, <2>8 DEF Told
    <2> QED BY <2>10, <2>11
  <1> QED BY <1>2, <1>3 DEF Crash

\* What a recovery loads: logs that verify, of jobs the callers know.
LEMMA LoadedFacts ==
    ASSUME IInv, Story, recover_from_qfs, NEW j \in Loaded
    PROVE  /\ j \in DOMAIN events_file /\ j \in DOMAIN acked /\ j \in Jobs
           /\ verify(events_file[j].lines)
           /\ events_file[j].lines \in Seq(StateTransitionEvent)
           /\ Len(events_file[j].lines) \in Nat /\ Len(events_file[j].lines) >= 1
           /\ Begins(events_file[j].lines, history[j])
           /\ event_logs'[j] = events_file[j].lines
           /\ records'[j].sequence = 1
           /\ records'[j].state = replay_to_current_state(events_file[j].lines)
  <1>1. j \in Recoverable /\ j \in Nat
    BY JobsAssumption DEF Loaded, Recoverable, IInv, TypeOK
  <1>2. j \in DOMAIN events_file /\ j \in Jobs /\ LoadsCleanly(j)
    BY SMT, <1>1 DEF Loaded, Recoverable, IInv, TypeOK
  <1>3. verify(events_file[j].lines) /\ events_file[j].lines \in Seq(StateTransitionEvent \cup {Garbage})
    BY <1>2 DEF LoadsCleanly, IInv, TypeOK, LogFile
  <1>4. /\ event_logs'[j] = events_file[j].lines
        /\ records'[j] = [NewRecord EXCEPT !.state = replay_to_current_state(events_file[j].lines)]
    BY DEF recover_from_qfs
  <1>5. records'[j].sequence = 1 /\ records'[j].state = replay_to_current_state(events_file[j].lines)
    BY <1>4 DEF NewRecord
  <1> QED BY <1>2, <1>3, <1>4, <1>5, VerifiedFacts DEF Story

\* A recovery puts every record where its file ends.
LEMMA RecoverTells ==
    ASSUME IInv, Story, Told, recover_from_qfs
    PROVE  Story' /\ Told'
  <1>1. /\ DOMAIN records' = Loaded
        /\ UNCHANGED <<events_file, history, acked, io_failures>>
    BY DEF recover_from_qfs, disk
  <1>2. ASSUME NEW j \in Loaded
        PROVE  /\ records'[j].sequence <= Len(event_logs'[j])
               /\ Len(event_logs'[j]) <= Len(history[j])
               /\ j \in DOMAIN acked
               /\ io_failures = 0 => OneFurther(records'[j].state, acked[j])
               /\ records'[j].state = replay_to_current_state(events_file[j].lines)
    <2>1. /\ j \in DOMAIN events_file /\ verify(events_file[j].lines)
          /\ Len(events_file[j].lines) \in Nat /\ Len(events_file[j].lines) >= 1
          /\ Begins(events_file[j].lines, history[j]) /\ j \in DOMAIN acked
          /\ event_logs'[j] = events_file[j].lines
          /\ records'[j].sequence = 1
          /\ records'[j].state = replay_to_current_state(events_file[j].lines)
      BY LoadedFacts
    <2> QED BY <2>1 DEF Begins, Told
  <1>3. Story'
    BY <1>1, <1>2 DEF Story
  <1>4. Told'
    BY <1>1, <1>2 DEF Told
  <1> QED BY <1>3, <1>4

\* Every step carries the stories on.
LEMMA NextTells == IInv /\ Story /\ Told /\ [Next]_vars => Story' /\ Told'
  <1> SUFFICES ASSUME IInv, Story, Told, [Next]_vars PROVE Story' /\ Told'
    OBVIOUS
  <1>1. CASE \E j \in Jobs : create_job(j)
    BY <1>1, CreateTells
  <1>2. CASE \E j \in Jobs, event \in JobEvent : apply_event(j, event)
    BY <1>2, ApplyTells
  <1>3. CASE \E j \in Jobs, event \in JobEvent : apply_event_again(j, event)
    BY <1>3, SettersTell
  <1>4. CASE \E j \in Jobs, attribute \in Attributes : set_attribute(j, attribute)
    BY <1>4, SettersTell
  <1>5. CASE Crash
    BY <1>5, CrashTells
  <1>6. CASE recover_from_qfs
    BY <1>6, RecoverTells
  <1>7. CASE UNCHANGED vars
    BY <1>7 DEF vars, Story, Told
  <1> QED BY <1>1, <1>2, <1>3, <1>4, <1>5, <1>6, <1>7 DEF Next

\* The stories hold in every reachable state.
THEOREM StoryHolds == Spec => [](Story /\ Told)
  BY InvariantHolds, StoryBegins, NextTells, PTL DEF Spec

\* As long as no append has failed, whatever crashes the process has lived
\* through, apply_event's answers are never taken back: a record is in the
\* state last reported for its job, or one event further.
THEOREM AcknowledgedNeverLost == Spec => []NoAcknowledgedLoss
  <1>1. Told => NoAcknowledgedLoss
    BY DEF Told, NoAcknowledgedLoss, OneFurther
  <1> QED BY <1>1, StoryHolds, PTL

\* recover_from_qfs loads nothing but a non-empty prefix of what apply_event
\* handed to QFS for the job, whatever appends failed or were cut before.
THEOREM RecoveryIsPrefix == Spec => RecoveredLogIsPrefix
  <1>1. IInv /\ Story /\ [Next]_vars => [RecoveryLoadsPrefix]_vars
    <2> SUFFICES ASSUME IInv, Story, recover_from_qfs, NEW j \in DOMAIN event_logs'
                 PROVE  \E n \in 1..Len(history[j]) : event_logs'[j] = SubSeq(history[j], 1, n)
      BY DEF RecoveryLoadsPrefix
    <2> DEFINE lines == events_file[j].lines
               log == history[j]
    <2>1. j \in Loaded
      BY DEF recover_from_qfs
    <2>2. /\ lines \in Seq(StateTransitionEvent) /\ Len(lines) \in Nat /\ Len(lines) >= 1
          /\ Begins(lines, log) /\ event_logs'[j] = lines /\ j \in Jobs
      BY <2>1, LoadedFacts
    <2>3. log \in Seq(StateTransitionEvent) /\ Len(log) \in Nat
      BY SMT, <2>2 DEF IInv, TypeOK
    <2> HIDE DEF lines, log
    <2>4. Len(lines) <= Len(log) /\ \A i \in 1..Len(lines) : lines[i] = log[i]
      BY <2>2 DEF Begins
    <2>5. /\ SubSeq(log, 1, Len(lines)) \in Seq(StateTransitionEvent)
          /\ Len(SubSeq(log, 1, Len(lines))) = Len(lines)
          /\ \A i \in 1..Len(lines) : SubSeq(log, 1, Len(lines))[i] = log[i]
      BY SMT, <2>2, <2>3, <2>4
    <2>6. lines = SubSeq(log, 1, Len(lines))
      BY SMT, <2>2, <2>4, <2>5, SeqSame
    <2>7. Len(lines) \in 1..Len(log)
      BY SMT, <2>2, <2>3, <2>4
    <2> QED BY <2>2, <2>6, <2>7 DEF log
  <1> QED BY <1>1, InvariantHolds, StoryHolds, PTL DEF Spec, RecoveredLogIsPrefix
===============================================================================
