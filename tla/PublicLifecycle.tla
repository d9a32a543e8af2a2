--------------------------- MODULE PublicLifecycle ---------------------------
(***************************************************************************)
(* What a client of the kernel gateway can rely on when it polls a job's   *)
(* state: progress is one-way through the active states, a job that closes *)
(* stays closed (with the one exception the code has: an Error may become  *)
(* Cancelled when a cancellation had been accepted), and only an accepted  *)
(* cancellation closes a job as Cancelled.                                 *)
(***************************************************************************)
EXTENDS Naturals

CONSTANT Jobs

VARIABLES phase,      \* job id -> the state GetJobStatus reports
          cancelling  \* job id -> a CancelJob has been accepted

view == <<phase, cancelling>>

\* The active states in the order in which a job passes through them.
Rank == [Pending |-> 1, Compiling |-> 2, Optimizing |-> 3, Queued |-> 4, Running |-> 5]

Open(j) == phase[j] \in DOMAIN Rank

Init ==
    /\ phase = [j \in Jobs |-> "Absent"]
    /\ cancelling = [j \in Jobs |-> FALSE]

Submit(j) ==
    /\ phase[j] = "Absent"
    /\ phase' = [phase EXCEPT ![j] = "Pending"]
    /\ UNCHANGED cancelling

Advance(j) ==
    /\ Open(j)
    /\ \E next \in DOMAIN Rank :
          /\ Rank[next] > Rank[phase[j]]
          /\ phase' = [phase EXCEPT ![j] = next]
    /\ UNCHANGED cancelling

AcceptCancel(j) ==
    /\ Open(j)
    /\ cancelling' = [cancelling EXCEPT ![j] = TRUE]
    /\ UNCHANGED phase

Close(j) ==
    /\ Open(j)
    /\ \E outcome \in {"Done", "Error", "Cancelled", "Timeout"} :
          /\ outcome = "Done" => phase[j] = "Running"
          /\ outcome = "Cancelled" => cancelling[j]
          /\ phase' = [phase EXCEPT ![j] = outcome]
    /\ UNCHANGED cancelling

\* cancel_after_stage of a stage that never began.
Reclassify(j) ==
    /\ phase[j] = "Error"
    /\ cancelling[j]
    /\ phase' = [phase EXCEPT ![j] = "Cancelled"]
    /\ UNCHANGED cancelling

Next ==
    \E j \in Jobs : Submit(j) \/ Advance(j) \/ AcceptCancel(j) \/ Close(j) \/ Reclassify(j)

Spec == Init /\ [][Next]_view
=============================================================================
