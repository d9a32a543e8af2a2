------------------------------- MODULE EventLog -------------------------------
(***************************************************************************)
(* The job lifecycle of the qrtx crate (job_state_machine.rs): states,     *)
(* events and the transition function; and the append-only log of the      *)
(* transitions of one job (event_log.rs). A log is a sequence of events;   *)
(* the job id is the log's own index and timestamps, trace and request ids *)
(* do not take part in replay.                                             *)
(***************************************************************************)
EXTENDS Naturals, Sequences

JobState ==
    {"Pending", "Compiling", "Running", "Done", "Error", "Cancelled", "Timeout"}

JobEvent ==
    {"StartCompiling", "StartRunning", "Complete", "Fail", "Cancel", "TimeOut"}

\* Err(TransitionError::Invalid), and also a failed replay.
Invalid == "Invalid"

is_terminal(state) == state \in {"Done", "Error", "Cancelled", "Timeout"}

\* The match of `transition`, arm by arm; Invalid stands for its Err.
transition(from, event) ==
    CASE from = "Pending" /\ event = "StartCompiling" -> "Compiling"
      [] from = "Compiling" /\ event = "StartRunning" -> "Running"
      [] from = "Running" /\ event = "Complete"       -> "Done"
      [] ~is_terminal(from) /\ event = "Cancel"       -> "Cancelled"
      [] ~is_terminal(from) /\ event = "Fail"         -> "Error"
      [] ~is_terminal(from) /\ event = "TimeOut"      -> "Timeout"
      [] OTHER                                        -> Invalid

\* Option<JobState>: Invalid is None, which equals no record's state.
terminal_state_for_event(event) ==
    CASE event = "Complete" -> "Done"
      [] event = "Fail"     -> "Error"
      [] event = "Cancel"   -> "Cancelled"
      [] event = "TimeOut"  -> "Timeout"
      [] OTHER              -> Invalid
-----------------------------------------------------------------------------
StateTransitionEvent ==
    [sequence : Nat \ {0}, event : JobEvent, from_state : JobState, to_state : JobState]

\* StateTransitionEvent::new
TransitionEvent(sequence, event, from, to) ==
    [sequence |-> sequence, event |-> event, from_state |-> from, to_state |-> to]

\* Mutant of Replayable: the second event's from_state is not compared.
Replayable_off_by_one(log) ==
    \A i \in 1..Len(log) :
        /\ i > 2 => log[i].from_state = log[i - 1].to_state
        /\ transition(log[i].from_state, log[i].event) = log[i].to_state

\* No event of the log makes the replay loop return an error: each starts
\* where its predecessor ended, is legal there, and ends where it says.
Replayable(log) ==
    \A i \in 1..Len(log) :
        /\ i > 1 => log[i].from_state = log[i - 1].to_state
        /\ transition(log[i].from_state, log[i].event) = log[i].to_state

\* The state after the last event, or Invalid for every ReplayError. The
\* replay starts from the first event's own from_state.
replay_to_current_state(log) ==
    IF log # <<>> /\ Replayable(log) THEN log[Len(log)].to_state ELSE Invalid

\* The loop itself: current_state after each event, and Invalid from the first
\* error on.
replay_step(current_state, ev) ==
    LET next == IF current_state = Invalid THEN Invalid ELSE transition(current_state, ev.event)
    IN  IF ev.from_state = current_state /\ next = ev.to_state THEN next ELSE Invalid

replay_loop(log) ==
    LET after[i \in 0..Len(log)] ==
            IF i = 0 THEN log[1].from_state ELSE replay_step(after[i - 1], log[i])
    IN  IF log = <<>> THEN Invalid ELSE after[Len(log)]

SequencesContiguous(log) == \A i \in 1..Len(log) : log[i].sequence = i

\* Mutant of verify: the sequence numbers are not looked at.
verify_unsequenced(log) == replay_to_current_state(log) # Invalid

\* TRUE for Ok(()); note that an empty log does not verify.
verify(log) ==
    /\ SequencesContiguous(log)
    /\ replay_to_current_state(log) # Invalid
=============================================================================
