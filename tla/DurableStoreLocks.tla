-------------------------- MODULE DurableStoreLocks --------------------------
(***************************************************************************)
(* The two locks of the durable job store (durable_job_store.rs) and the   *)
(* order in which concurrent calls through cloned handles take them.  An   *)
(* action is what a thread does between two lock operations; transitions   *)
(* are reduced to counting them, since only their number and place matter. *)
(***************************************************************************)
EXTENDS Naturals, FiniteSets

CONSTANTS Threads, StoredJobs,
          MaxEvents,   \* a job takes at most three transitions
          None         \* no thread, no job

ASSUME LocksAssumption ==
    /\ MaxEvents \in Nat
    /\ None \notin Threads \cup StoredJobs

VARIABLES pc,            \* where each thread is
          arg,           \* the job its call is about
          records_lock,  \* the writer of `records`, or None
          logs_lock,     \* the writer of `event_logs`, or None
          sequence,      \* job -> sequence of its record; 0: no record
          log_len,       \* job -> length of its in-memory log
          has_log,       \* jobs with an in-memory log
          disk_len       \* job -> lines in its events file

lockVars == <<pc, arg, records_lock, logs_lock, sequence, log_len, has_log, disk_len>>

locks == <<records_lock, logs_lock>>

LocksInit ==
    /\ pc = [t \in Threads |-> "idle"]
    /\ arg = [t \in Threads |-> None]
    /\ records_lock = None
    /\ logs_lock = None
    /\ sequence = [j \in StoredJobs |-> 0]
    /\ log_len = [j \in StoredJobs |-> 0]
    /\ has_log = {}
    /\ disk_len = [j \in StoredJobs |-> 0]

Goto(t, label) == pc' = [pc EXCEPT ![t] = label]
-----------------------------------------------------------------------------
\* create_job takes event_logs and keeps it to the end ...
CreateLog(t, j) ==
    /\ pc[t] = "idle"
    /\ j \notin has_log
    /\ logs_lock = None
    /\ logs_lock' = t
    /\ has_log' = has_log \cup {j}
    /\ arg' = [arg EXCEPT ![t] = j]
    /\ Goto(t, "create_record")
    /\ UNCHANGED <<records_lock, sequence, log_len, disk_len>>

\* ... takes records, inside it, for one statement ...
CreateRecord(t) ==
    /\ pc[t] = "create_record"
    /\ records_lock = None
    /\ sequence' = [sequence EXCEPT ![arg[t]] = 1]
    /\ Goto(t, "create_snapshot")
    /\ UNCHANGED <<arg, locks, log_len, has_log, disk_len>>

\* Mutant of CreateSnapshot: event_logs is never released.
CreateSnapshot_keeps_lock(t) ==
    /\ pc[t] = "create_snapshot"
    /\ arg' = [arg EXCEPT ![t] = None]
    /\ Goto(t, "idle")
    /\ UNCHANGED <<locks, sequence, log_len, has_log, disk_len>>

\* ... and appends the snapshot before it lets event_logs go.
CreateSnapshot(t) ==
    /\ pc[t] = "create_snapshot"
    /\ logs_lock' = None
    /\ arg' = [arg EXCEPT ![t] = None]
    /\ Goto(t, "idle")
    /\ UNCHANGED <<records_lock, sequence, log_len, has_log, disk_len>>

\* apply_event takes records and keeps it to the end ...
ApplyLookup(t, j) ==
    /\ pc[t] = "idle"
    /\ records_lock = None
    /\ sequence[j] \in 1..MaxEvents
    /\ records_lock' = t
    /\ arg' = [arg EXCEPT ![t] = j]
    /\ Goto(t, "apply_persist")
    /\ UNCHANGED <<logs_lock, sequence, log_len, has_log, disk_len>>

\* Mutant of ApplyPersist: records is let go once the event is on disk.
ApplyPersist_unlocks(t) ==
    /\ pc[t] = "apply_persist"
    /\ disk_len' = [disk_len EXCEPT ![arg[t]] = @ + 1]
    /\ records_lock' = None
    /\ Goto(t, "apply_log")
    /\ UNCHANGED <<arg, logs_lock, sequence, log_len, has_log>>

ApplyPersist(t) ==
    /\ pc[t] = "apply_persist"
    /\ disk_len' = [disk_len EXCEPT ![arg[t]] = @ + 1]
    /\ Goto(t, "apply_log")
    /\ UNCHANGED <<arg, locks, sequence, log_len, has_log>>

\* ... takes event_logs, inside it, for one statement ...
ApplyLog(t) ==
    /\ pc[t] = "apply_log"
    /\ logs_lock = None
    /\ log_len' = [log_len EXCEPT ![arg[t]] = IF arg[t] \in has_log THEN @ + 1 ELSE @]
    /\ Goto(t, "apply_record")
    /\ UNCHANGED <<arg, locks, sequence, has_log, disk_len>>

\* ... and updates the record before it lets records go.
ApplyRecord(t) ==
    /\ pc[t] = "apply_record"
    /\ sequence' = [sequence EXCEPT ![arg[t]] = @ + 1]
    /\ records_lock' = None
    /\ arg' = [arg EXCEPT ![t] = None]
    /\ Goto(t, "idle")
    /\ UNCHANGED <<logs_lock, log_len, has_log, disk_len>>

Step(t) ==
    \/ \E j \in StoredJobs : CreateLog(t, j)
    \/ CreateRecord(t)
    \/ CreateSnapshot(t)
    \/ \E j \in StoredJobs : ApplyLookup(t, j)
    \/ ApplyPersist(t)
    \/ ApplyLog(t)
    \/ ApplyRecord(t)

LocksNext == \E t \in Threads : Step(t)

LocksSpec == LocksInit /\ [][LocksNext]_lockVars

\* A thread inside a call runs on whenever the lock it waits for is free:
\* parking_lot hands a lock over eventually. No thread has to start a call.
Continue(t) ==
    CreateRecord(t) \/ CreateSnapshot(t) \/ ApplyPersist(t) \/ ApplyLog(t) \/ ApplyRecord(t)

FairLocksSpec == LocksSpec /\ \A t \in Threads : SF_lockVars(Continue(t))
-----------------------------------------------------------------------------
\* Program counters, locks and counters keep their types.
LocksType ==
    /\ pc \in [Threads -> {"idle", "create_record", "create_snapshot",
                           "apply_persist", "apply_log", "apply_record"}]
    /\ arg \in [Threads -> StoredJobs \cup {None}]
    /\ records_lock \in Threads \cup {None}
    /\ logs_lock \in Threads \cup {None}
    /\ sequence \in [StoredJobs -> 0..MaxEvents + 1]
    /\ log_len \in [StoredJobs -> Nat]
    /\ has_log \in SUBSET StoredJobs
    /\ disk_len \in [StoredJobs -> Nat]

\* Some thread is at that point of a call about job j.
Inside(j, label) == \E t \in Threads : arg[t] = j /\ pc[t] = label

\* A job that get() can see has an event log, and its log, its file and its
\* record are at the same event, except that the one thread inside apply_event
\* on that job has written the file, then the log, and not yet the record: the
\* log runs ahead of the record and the file ahead of the log, never the
\* reverse.
WriteAheadOrder ==
    \A j \in StoredJobs :
        sequence[j] # 0 =>
            /\ j \in has_log
            /\ log_len[j] = IF Inside(j, "apply_record") THEN sequence[j] ELSE sequence[j] - 1
            /\ disk_len[j] = IF Inside(j, "apply_log") THEN log_len[j] + 1 ELSE log_len[j]

\* Two calls block each other in one way only: one thread is in create_job,
\* holding event_logs and waiting for records, while another is in apply_event,
\* holding records and waiting for event_logs.
LockInversion ==
    \E t, u \in Threads : pc[t] = "create_record" /\ pc[u] = "apply_log"

OnlyInversionBlocks ==
    \A t \in Threads :
        pc[t] # "idle" /\ ~LockInversion => \E u \in Threads : ENABLED Continue(u)

\* "Clone handle for sharing across async boundaries"
\* (durable_job_store.rs:312): calls made through cloned handles return.
EveryCallReturns == \A t \in Threads : pc[t] # "idle" ~> pc[t] = "idle"
=============================================================================
