--------------------------- MODULE DurableJobStore ---------------------------
(***************************************************************************)
(* The kernel's event-sourced job store (durable_job_store.rs) over the    *)
(* local QFS log files it appends to (local_circuit_fs.rs).  Each public   *)
(* method is one action: its body runs under the records lock (the lock    *)
(* order itself is the subject of DurableStoreLocks).  A process crash     *)
(* empties the two in-memory maps and may cut appends short; a restart     *)
(* runs recover_from_qfs.  Maps and directories are functions whose domain *)
(* is the set of keys present.                                             *)
(***************************************************************************)
EXTENDS EventLog, Integers, FiniteSets

CONSTANTS Jobs,           \* job ids; ordered like the BTreeSet of the recovery
          Attributes,     \* descriptive fields: error, counts, results_metadata
          MaxCrashes,     \* bound on process crashes
          MaxIoFailures   \* bound on appends that return an I/O error

ASSUME JobsAssumption == Jobs \subseteq Nat
ASSUME BoundsAssumption == MaxCrashes \in Nat /\ MaxIoFailures \in Nat

VARIABLES records,        \* job id -> in-memory record
          event_logs,     \* job id -> in-memory event log
          snapshot_file,  \* job id -> logs/replay_snapshot.jsonl
          events_file,    \* job id -> logs/state_events.jsonl
          up,             \* the process is running and has recovered
          recovery,       \* what the last recover_from_qfs returned
          crashes, io_failures,
          history,        \* every event ever handed to QFS, oldest first
          acked           \* the state of the last record a call returned

vars == <<records, event_logs, snapshot_file, events_file, up, recovery,
          crashes, io_failures, history, acked>>

memory == <<records, event_logs>>
disk   == <<snapshot_file, events_file>>

\* The record fields a caller can tell apart: the state, the next sequence
\* number, and which of the descriptive fields have been filled in.
DurableJobRecord ==
    [state : JobState, sequence : Nat \ {0}, attributes : SUBSET Attributes]

\* The record create_job inserts, and all that the replay snapshot ever holds.
NewRecord == [state |-> "Pending", sequence |-> 1, attributes |-> {}]

\* A line of the events file that serde_json cannot parse.
Garbage == [sequence |-> 0, event |-> Invalid, from_state |-> Invalid, to_state |-> Invalid]

\* A log file: its lines, and whether the last one lacks its newline.
LogFile == [lines : Seq(StateTransitionEvent \cup {Garbage}), open : BOOLEAN]

EmptyFile == [lines |-> <<>>, open |-> FALSE]

Empty == [j \in {} |-> Invalid]

Insert(map, key, value) ==
    [k \in DOMAIN map \cup {key} |-> IF k = key THEN value ELSE map[k]]

Init ==
    /\ records = Empty
    /\ event_logs = Empty
    /\ snapshot_file = Empty
    /\ events_file = Empty
    /\ up = TRUE
    /\ recovery = "none"
    /\ crashes = 0
    /\ io_failures = 0
    /\ history = [j \in Jobs |-> <<>>]
    /\ acked = Empty
-----------------------------------------------------------------------------
(***************************************************************************)
(* append_log_line: create the file, write the line, write the newline,    *)
(* flush, sync.  Bytes written after an unterminated line run into it and  *)
(* neither of the two parses any more.                                     *)
(***************************************************************************)
FileOf(j) == IF j \in DOMAIN events_file THEN events_file[j] ELSE EmptyFile

Put(file, line, open) ==
    [lines |-> IF file.open
               THEN [file.lines EXCEPT ![Len(file.lines)] = Garbage]
               ELSE Append(file.lines, line),
     open  |-> open]

\* Mutant of append_log_line: the file is opened with create_new and a second
\* append finds it there.
append_log_line_create_new(j, line) ==
    IF j \in DOMAIN events_file THEN events_file
    ELSE Insert(events_file, j, Put(FileOf(j), line, FALSE))

append_log_line(j, line) == Insert(events_file, j, Put(FileOf(j), line, FALSE))

\* What an append leaves behind when an error or a crash stops it half way:
\* nothing, the file just created, a cut line, a line without its newline,
\* or everything (only the sync or the return was missed).
TornAppends(j, line) ==
    {events_file} \cup
    {Insert(events_file, j, file) :
        file \in {FileOf(j), Put(FileOf(j), Garbage, TRUE),
                  Put(FileOf(j), line, TRUE), Put(FileOf(j), line, FALSE)}}

\* The same for the snapshot, which is appended once, to a file of its own; an
\* empty and a cut snapshot are both "bad": neither parses.
TornSnapshots(j) ==
    {snapshot_file} \cup {Insert(snapshot_file, j, s) : s \in {"bad", "ok"}}
-----------------------------------------------------------------------------
\* job_id is a fresh v4 UUID: an id the process and the disk have never seen.
Fresh(j) ==
    j \notin DOMAIN acked \cup DOMAIN snapshot_file \cup DOMAIN events_file

\* create_job: log, then record, then the snapshot, whose failure is ignored.
create_job(j) ==
    /\ up
    /\ Fresh(j)
    /\ event_logs' = Insert(event_logs, j, <<>>)
    /\ records' = Insert(records, j, NewRecord)
    /\ \/ /\ snapshot_file' = Insert(snapshot_file, j, "ok")
          /\ UNCHANGED io_failures
       \/ /\ io_failures < MaxIoFailures
          /\ io_failures' = io_failures + 1
          /\ snapshot_file' \in TornSnapshots(j)
    /\ acked' = Insert(acked, j, "Pending")
    /\ UNCHANGED <<events_file, up, recovery, crashes, history>>

\* The event apply_event builds for a job whose record accepts it.
EventOf(j, event) ==
    TransitionEvent(records[j].sequence, event, records[j].state,
                    transition(records[j].state, event))

Accepts(j, event) ==
    /\ j \in DOMAIN records
    /\ ~is_terminal(records[j].state)
    /\ transition(records[j].state, event) # Invalid

\* apply_event on a job that accepts the event: QFS first, whose failure is
\* only warned about, then the in-memory log, then the record.
apply_event(j, event) ==
    /\ up
    /\ Accepts(j, event)
    /\ LET ev == EventOf(j, event) IN
       /\ \/ /\ events_file' = append_log_line(j, ev)
             /\ UNCHANGED io_failures
          \/ /\ io_failures < MaxIoFailures
             /\ io_failures' = io_failures + 1
             /\ events_file' \in TornAppends(j, ev)
       /\ event_logs' = IF j \in DOMAIN event_logs
                        THEN [event_logs EXCEPT ![j] = Append(@, ev)]
                        ELSE event_logs
       /\ records' = [records EXCEPT ![j] = [state      |-> ev.to_state,
                                             sequence   |-> @.sequence + 1,
                                             attributes |-> @.attributes]]
       /\ history' = [history EXCEPT ![j] = Append(@, ev)]
       /\ acked' = [acked EXCEPT ![j] = ev.to_state]
    /\ UNCHANGED <<snapshot_file, up, recovery, crashes>>

\* apply_event answers Ok with the record as it stands when a terminal event
\* is repeated; every other call returns Err. Neither changes the store, but
\* the repeated answer tells the caller the state again.
apply_event_again(j, event) ==
    /\ up
    /\ j \in DOMAIN records
    /\ is_terminal(records[j].state)
    /\ terminal_state_for_event(event) = records[j].state
    /\ acked' = [acked EXCEPT ![j] = records[j].state]
    /\ UNCHANGED <<memory, disk, up, recovery, crashes, io_failures, history>>

\* set_error, set_counts and set_results_metadata: memory only, no guard on
\* the state.
set_attribute(j, attribute) ==
    /\ up
    /\ j \in DOMAIN records
    /\ records' = [records EXCEPT ![j].attributes = @ \cup {attribute}]
    /\ UNCHANGED <<event_logs, disk, up, recovery, crashes, io_failures, history, acked>>

\* The process dies; create_job holds the event-log lock and apply_event the
\* record lock while they append, so at most one append of each kind is cut.
Crash ==
    /\ up
    /\ crashes < MaxCrashes
    /\ crashes' = crashes + 1
    /\ up' = FALSE
    /\ records' = Empty
    /\ event_logs' = Empty
    /\ \/ UNCHANGED snapshot_file
       \/ \E j \in Jobs : Fresh(j) /\ snapshot_file' \in TornSnapshots(j)
    /\ \/ UNCHANGED <<events_file, history>>
       \/ \E j \in Jobs, event \in JobEvent :
            /\ Accepts(j, event)
            /\ events_file' \in TornAppends(j, EventOf(j, event))
            /\ history' = [history EXCEPT ![j] = Append(@, EventOf(j, event))]
    /\ UNCHANGED <<recovery, io_failures, acked>>

\* A job whose snapshot or event file cannot be read is skipped.
Recoverable == DOMAIN snapshot_file \cap DOMAIN events_file

\* Mutant of LoadsCleanly: the recovery does not verify the log it has read.
LoadsCleanly_unverified(j) ==
    /\ snapshot_file[j] = "ok"
    /\ \A i \in 1..Len(events_file[j].lines) : events_file[j].lines[i] # Garbage

LoadsCleanly(j) ==
    /\ snapshot_file[j] = "ok"
    /\ \A i \in 1..Len(events_file[j].lines) : events_file[j].lines[i] # Garbage
    /\ verify(events_file[j].lines)

\* recover_from_qfs walks the jobs in id order and returns at the first one
\* that does not load; the jobs before it stay inserted. Every record field
\* but the state comes from the snapshot.
Loaded == {j \in Recoverable : \A k \in Recoverable : k <= j => LoadsCleanly(k)}

recover_from_qfs ==
    /\ ~up
    /\ up' = TRUE
    /\ recovery' = IF Loaded = Recoverable THEN "ok" ELSE "err"
    /\ event_logs' = [j \in Loaded |-> events_file[j].lines]
    /\ records' = [j \in Loaded |->
                     [NewRecord EXCEPT !.state = replay_to_current_state(events_file[j].lines)]]
    /\ UNCHANGED <<disk, crashes, io_failures, history, acked>>

Next ==
    \/ \E j \in Jobs : create_job(j)
    \/ \E j \in Jobs, event \in JobEvent : apply_event(j, event)
    \/ \E j \in Jobs, event \in JobEvent : apply_event_again(j, event)
    \/ \E j \in Jobs, attribute \in Attributes : set_attribute(j, attribute)
    \/ Crash
    \/ recover_from_qfs

Spec == Init /\ [][Next]_vars
-----------------------------------------------------------------------------
\* Every variable holds a value of its kind: records, logs and files of known
\* jobs only, and a process that is down has no in-memory job.
TypeOK ==
    /\ DOMAIN records \subseteq Jobs
    /\ records \in [DOMAIN records -> DurableJobRecord]
    /\ DOMAIN event_logs \subseteq Jobs
    /\ event_logs \in [DOMAIN event_logs -> Seq(StateTransitionEvent)]
    /\ DOMAIN snapshot_file \subseteq Jobs
    /\ snapshot_file \in [DOMAIN snapshot_file -> {"bad", "ok"}]
    /\ DOMAIN events_file \subseteq Jobs
    /\ events_file \in [DOMAIN events_file -> LogFile]
    /\ up \in BOOLEAN
    /\ recovery \in {"none", "ok", "err"}
    /\ crashes \in 0..MaxCrashes
    /\ io_failures \in 0..MaxIoFailures
    /\ history \in [Jobs -> Seq(StateTransitionEvent)]
    /\ DOMAIN acked \subseteq Jobs
    /\ acked \in [DOMAIN acked -> JobState]

\* The record and the event log of a job never disagree: both are present or
\* both absent, the log replays without error, and the record is in the state
\* that replaying the log gives (verify_event_log's promise, here also after
\* failed appends, crashes and recoveries).
RecordsMatchLogs ==
    /\ DOMAIN records = DOMAIN event_logs
    /\ \A j \in DOMAIN records :
         IF event_logs[j] = <<>>
         THEN records[j].state = "Pending"
         ELSE /\ event_logs[j][1].from_state = "Pending"
              /\ replay_to_current_state(event_logs[j]) = records[j].state

\* What recover_from_qfs loads is a prefix of what apply_event handed to QFS,
\* however appends failed or were cut: it never skips, reorders or invents a
\* transition, and a log with a hole in it is refused.
RecoveryLoadsPrefix ==
    recover_from_qfs =>
        \A j \in DOMAIN event_logs' :
            \E n \in 1..Len(history[j]) : event_logs'[j] = SubSeq(history[j], 1, n)

RecoveredLogIsPrefix == [][RecoveryLoadsPrefix]_vars

\* As long as no append has failed, a record in memory is in the state the
\* last answered call reported, or one event further when the crash hit after
\* that event had reached the disk.
NoAcknowledgedLoss ==
    io_failures = 0 =>
        \A j \in DOMAIN records :
            \/ records[j].state = acked[j]
            \/ \E event \in JobEvent : records[j].state = transition(acked[j], event)

\* On every log that is in memory or can be read from the disk, whatever holes
\* failed appends have left in it, the loop returns what the closed form says.
ReplayAgrees ==
    /\ \A j \in DOMAIN event_logs :
         replay_loop(event_logs[j]) = replay_to_current_state(event_logs[j])
    /\ \A j \in DOMAIN events_file :
         LET lines == events_file[j].lines IN
         (\A i \in 1..Len(lines) : lines[i] # Garbage) =>
            replay_loop(lines) = replay_to_current_state(lines)
=============================================================================
