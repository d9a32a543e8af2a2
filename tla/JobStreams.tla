------------------------------ MODULE JobStreams ------------------------------
(***************************************************************************)
(* The read side of JobService (system_api/grpc_impl.py) on one kernel job:*)
(* StreamJobUpdates, whose clients resume from the last event number they  *)
(* saw, and GetDispatchRationale, which asks again until the job has been  *)
(* scheduled or the wait is over.                                          *)
(*                                                                         *)
(* The kernel's part is rpc.rs: its stream ignores last_event_seq and ends *)
(* by itself, at a moment this model leaves open (the job is terminal or   *)
(* ten seconds have passed), after one update per stage record. Other      *)
(* fields of an update and the kernel's cancellation are left out.         *)
(***************************************************************************)
EXTENDS Integers, Sequences

CONSTANTS Watchers,       \* clients of StreamJobUpdates
          Askers,         \* clients of GetDispatchRationale
          MaxStages,      \* stages of the job's DAG
          ScheduleStage,  \* the position of its schedule stage
          Wait,           \* SYSTEM_API_DISPATCH_RATIONALE_WAIT_SECONDS
          MaxDrops, MaxTime

ASSUME JobStreamsAssumption ==
    /\ MaxStages \in Nat \ {0} /\ ScheduleStage \in 1..MaxStages
    /\ Wait \in Nat /\ MaxDrops \in Nat /\ MaxTime \in Nat

VARIABLES stages,     \* stage records of the job, pushed when a stage begins
          open,       \* the newest of them is still running
          scheduled,  \* the schedule stage has succeeded
          terminal,   \* job.is_terminal()
          streams,    \* per watcher: the open call's unread updates, and what it saw
          drops,      \* streams cut off so far
          rationale,  \* per asker: where GetDispatchRationale stands
          time        \* time.time()

kernelVars == <<stages, open, scheduled, terminal>>
streamVars == <<stages, open, scheduled, terminal, streams, drops, rationale, time>>

Update(seq, stage, outcome) == [event_seq |-> seq, stage |-> stage, outcome |-> outcome]
Outcome(i) == ~(open /\ i = stages)

\* Mutant of KernelUpdates: the stage recorded last is left out.
KernelUpdatesShort ==
    IF stages = 0 THEN <<Update(1, 0, terminal)>>
                  ELSE [i \in 1..(stages - 1) |-> Update(i, i, Outcome(i))]

\* all_stage_updates: one update per stage record, numbered by its position, or
\* a placeholder that takes number 1. stage 0 marks the placeholder; outcome
\* says whether the update already carries what became of the stage.
KernelUpdates ==
    IF stages = 0 THEN <<Update(1, 0, terminal)>>
                  ELSE [i \in 1..stages |-> Update(i, i, Outcome(i))]

StreamsInit ==
    /\ stages = 0 /\ open = FALSE /\ scheduled = FALSE /\ terminal = FALSE /\ drops = 0 /\ time = 0
    /\ streams = [w \in Watchers |-> [open |-> FALSE, items |-> <<>>, last |-> 0, seen |-> <<>>]]
    /\ rationale = [a \in Askers |-> [pc |-> "idle", deadline |-> 0]]

\* begin_stage: the record is pushed before the stage has run.
BeginStage ==
    /\ ~terminal /\ ~open
    /\ stages' = stages + 1 /\ open' = TRUE
    /\ UNCHANGED <<scheduled, terminal, streams, drops, rationale, time>>

\* finish_stage_success: the record is completed in place; the last stage ends
\* the job.
FinishStage ==
    /\ open
    /\ open' = FALSE
    /\ scheduled' = (scheduled \/ stages = ScheduleStage)
    /\ terminal' = (stages = MaxStages)
    /\ UNCHANGED <<stages, streams, drops, rationale, time>>

\* A deadline or an error: the record of the current stage is completed in
\* place, or pushed when the job had not begun its first stage.
JobTerminates ==
    /\ ~terminal
    /\ terminal' = TRUE /\ open' = FALSE
    /\ stages' = IF stages = 0 THEN 1 ELSE stages
    /\ UNCHANGED <<scheduled, streams, drops, rationale, time>>

\* StreamJobUpdates up to the end of _collect: the whole kernel stream is read
\* before anything is passed on.
StreamOpen(w) ==
    /\ ~streams[w].open
    /\ streams' = [streams EXCEPT ![w].open = TRUE, ![w].items = KernelUpdates]
    /\ UNCHANGED <<kernelVars, drops, rationale, time>>

\* Mutant of Fresh: the update the client saw last is sent again.
FreshOrSeen(update, last) == update.event_seq >= last

\* The filter of the yield loop.
Fresh(update, last) == update.event_seq > last

\* One turn of the yield loop; last is last_emitted_seq, which the client sends
\* back as last_event_seq when it resumes.
StreamYield(w) ==
    LET s == streams[w]
        u == Head(s.items)
    IN  /\ s.open /\ s.items # <<>>
        /\ streams' = [streams EXCEPT ![w] =
               IF Fresh(u, s.last)
               THEN [s EXCEPT !.items = Tail(@), !.last = u.event_seq, !.seen = Append(@, u)]
               ELSE [s EXCEPT !.items = Tail(@)]]
        /\ UNCHANGED <<kernelVars, drops, rationale, time>>

StreamClose(w) ==
    /\ streams[w].open /\ streams[w].items = <<>>
    /\ streams' = [streams EXCEPT ![w].open = FALSE]
    /\ UNCHANGED <<kernelVars, drops, rationale, time>>

\* The connection breaks, or the kernel call fails, before the stream is done.
StreamDrop(w) ==
    /\ streams[w].open /\ streams[w].items # <<>> /\ drops < MaxDrops
    /\ drops' = drops + 1
    /\ streams' = [streams EXCEPT ![w].open = FALSE, ![w].items = <<>>]
    /\ UNCHANGED <<kernelVars, rationale, time>>

RationaleAsk(a) ==
    /\ rationale[a].pc = "idle" /\ time + Wait <= MaxTime
    /\ rationale' = [rationale EXCEPT ![a] = [pc |-> "asking", deadline |-> time + Wait]]
    /\ UNCHANGED <<kernelVars, streams, drops, time>>

\* The kernel answers once the schedule stage has succeeded, and
\* FAILED_PRECONDITION before that: a turn of the loop that changes nothing.
RationaleAnswer(a) ==
    /\ rationale[a].pc = "asking" /\ scheduled
    /\ rationale' = [rationale EXCEPT ![a].pc = "answered"]
    /\ UNCHANGED <<kernelVars, streams, drops, time>>

\* The deadline is looked at only after a refused attempt, and it is the only
\* way out: a job that ended before its schedule stage is asked for until then.
RationaleAbort(a) ==
    /\ rationale[a].pc = "asking" /\ ~scheduled
    /\ time >= rationale[a].deadline
    /\ rationale' = [rationale EXCEPT ![a].pc = "aborted"]
    /\ UNCHANGED <<kernelVars, streams, drops, time>>

TimePasses ==
    /\ time < MaxTime
    /\ time' = time + 1
    /\ UNCHANGED <<kernelVars, streams, drops, rationale>>

StreamsNext ==
    \/ BeginStage \/ FinishStage \/ JobTerminates \/ TimePasses
    \/ \E w \in Watchers : StreamOpen(w) \/ StreamYield(w) \/ StreamClose(w) \/ StreamDrop(w)
    \/ \E a \in Askers : RationaleAsk(a) \/ RationaleAnswer(a) \/ RationaleAbort(a)

\* A server thread that can go on does so, the kernel's DAG makes progress and
\* time passes; nothing makes a job fail, a connection break or a client ask.
StreamsFairness ==
    /\ WF_streamVars(BeginStage \/ FinishStage) /\ WF_streamVars(TimePasses)
    /\ \A w \in Watchers : WF_streamVars(StreamOpen(w) \/ StreamYield(w) \/ StreamClose(w))
    /\ \A a \in Askers : WF_streamVars(RationaleAnswer(a) \/ RationaleAbort(a))

StreamsSpec == StreamsInit /\ [][StreamsNext]_streamVars
-----------------------------------------------------------------------------
\* What a watcher has seen, over all its connections, is every stage's update
\* up to its last number, once and in order. The one exception is the first
\* stage: a watcher that got the placeholder resumes behind number 1 and never
\* sees the update that later takes that number.
SeenIsPrefix ==
    \A w \in Watchers :
        LET s == streams[w]
        IN  /\ Len(s.seen) = s.last
            /\ \A i \in 1..Len(s.seen) : /\ s.seen[i].event_seq = i
                                         /\ s.seen[i].stage = i \/ (i = 1 /\ s.seen[i].stage = 0)

\* A watcher that resumes whenever its stream ends gets the number of the last
\* stage, whatever connections broke on the way.
EveryStageArrives ==
    \A w \in Watchers : <>[](terminal /\ (stages > 0 => streams[w].last = stages))

\* GetDispatchRationale returns: with the rationale, or with the kernel's
\* refusal once the wait is over.
RationaleReturns ==
    \A a \in Askers : (rationale[a].pc = "asking") ~> (rationale[a].pc \in {"answered", "aborted"})
=============================================================================
