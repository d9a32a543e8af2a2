---------------------------- MODULE DriverExecution ----------------------------
(***************************************************************************)
(* DriverManagerService.ExecuteCircuit (driver_manager/grpc_impl.py) over  *)
(* a provider driver: the checks of the request, the retry loop under a    *)
(* deadline that the Braket and Qiskit drivers share, and the error the    *)
(* caller receives. The provider is external: a call to it takes up to the *)
(* timeout it is given and returns counts or an error; it may have run the *)
(* circuit in either case.                                                 *)
(***************************************************************************)
EXTENDS Integers, Sequences, FiniteSets

CONSTANTS Timeout,      \* timeout_sec
          MaxRetries,   \* max_retries
          Backoff       \* retry_backoff_sec

ASSUME DriverExecutionAssumption ==
    Timeout \in Nat \ {0} /\ MaxRetries \in Nat /\ Backoff \in Nat \ {0}

VARIABLES exec,         \* the ExecuteCircuit call
          elapsed       \* time since the retry loop computed its deadline

executionVars == <<exec, elapsed>>

RpcRequests == [device : {"none", "unknown", "known"}, format : {"none", "aqo", "qasm"},
                data : BOOLEAN, shots : {0, 1}]
Kinds == {"braket", "qiskit"}

\* What a provider says of a failure, as far as the drivers look at it.
Texts == {"", "throttled", "quota", "timeout", "denied"}
Raised == [code : {"UNAVAILABLE", "INVALID_ARGUMENT", "ABORTED"}, text : Texts]

ExecutionInit ==
    /\ \E request \in RpcRequests, kind \in Kinds :
          exec = [pc |-> "received", request |-> request, kind |-> kind, attempt |-> 0,
                  errors |-> <<>>, code |-> "none", cut |-> FALSE]
    /\ elapsed = 0
-----------------------------------------------------------------------------
\* The code and the message parts an error is normalised by.
BraketError(e) ==
    IF e.text = "throttled" THEN "RESOURCE_EXHAUSTED"
    ELSE IF e.text = "timeout" THEN "DEADLINE_EXCEEDED"
    ELSE IF e.text = "denied" THEN "PERMISSION_DENIED" ELSE e.code
QiskitError(e) ==
    IF e.text = "quota" THEN "RESOURCE_EXHAUSTED"
    ELSE IF e.text = "timeout" THEN "DEADLINE_EXCEEDED" ELSE e.code

NormalizeProviderError(kind, e) == IF kind = "braket" THEN BraketError(e) ELSE QiskitError(e)

\* _is_retryable.
IsRetryable(code) == code \in {"UNAVAILABLE", "DEADLINE_EXCEEDED", "RESOURCE_EXHAUSTED"}

\* _retry_delay_for, 0 when no RetryInfo is attached.
RetryDelay(code) ==
    CASE code = "UNAVAILABLE" -> 1 [] code = "RESOURCE_EXHAUSTED" -> 5
      [] code = "DEADLINE_EXCEEDED" -> 2 [] OTHER -> 0

Taxonomy ==
    [UNAUTHENTICATED |-> "auth", PERMISSION_DENIED |-> "auth", UNAVAILABLE |-> "network",
     RESOURCE_EXHAUSTED |-> "quota", DEADLINE_EXCEEDED |-> "network",
     FAILED_PRECONDITION |-> "runtime", UNIMPLEMENTED |-> "provider",
     INVALID_ARGUMENT |-> "provider"]

\* map_backend_error: a code outside the table becomes INTERNAL.
MapBackendError(code) ==
    IF code \in DOMAIN Taxonomy THEN [code |-> code, taxonomy |-> Taxonomy[code]]
                                ELSE [code |-> "INTERNAL", taxonomy |-> "internal"]

\* The details abort_normalized packs into the status.
AbortDetails(code) ==
    [retryable    |-> code \in {"UNAVAILABLE", "RESOURCE_EXHAUSTED", "DEADLINE_EXCEEDED"},
     retry_after  |-> RetryDelay(code),
     precondition |-> code = "FAILED_PRECONDITION"]

Aborted(code) == exec' = [exec EXCEPT !.pc = "aborted", !.code = MapBackendError(code).code]
-----------------------------------------------------------------------------
\* The checks of ExecuteCircuit, in their order.
RequestInvalid(r) == r.device = "none" \/ r.format = "none" \/ ~r.data \/ r.shots <= 0
RefuseRequest ==
    /\ exec.pc = "received"
    /\ \/ RequestInvalid(exec.request) /\ Aborted("INVALID_ARGUMENT")
       \/ ~RequestInvalid(exec.request) /\ exec.request.device = "unknown" /\ Aborted("INVALID_ARGUMENT")
       \/ /\ ~RequestInvalid(exec.request) /\ exec.request.device = "known"
          /\ exec.request.format # "aqo" /\ Aborted("UNIMPLEMENTED")
    /\ UNCHANGED elapsed

\* execute_circuit of the driver: _ensure_ready, then the deadline.
StartExecution ==
    /\ exec.pc = "received" /\ ~RequestInvalid(exec.request)
    /\ exec.request.device = "known" /\ exec.request.format = "aqo"
    /\ \/ Aborted("FAILED_PRECONDITION")
       \/ exec' = [exec EXCEPT !.pc = "calling", !.attempt = 1]
    /\ UNCHANGED elapsed

\* _invoke_runtime returns counts.
ProviderAnswers ==
    /\ exec.pc = "calling"
    /\ elapsed' \in elapsed..(elapsed + Timeout)
    /\ exec' = [exec EXCEPT !.pc = "done"]

Smaller(a, b) == IF a < b THEN a ELSE b

\* The error is raised as it is.
GivesUp(code, attempt) == ~IsRetryable(code) \/ attempt >= MaxRetries + 1

\* Mutant of Pause: the backoff is not cut at the deadline.
PauseUncut(attempt, t) == Backoff * attempt

\* sleep_sec.
Pause(attempt, t) == Smaller(Backoff * attempt, Timeout - t)

\* One failed attempt: normalise, give up, run out of time, or sleep and retry.
ProviderFails ==
    /\ exec.pc = "calling"
    /\ \E e \in Raised, t \in elapsed..(elapsed + Timeout) :
          LET code   == NormalizeProviderError(exec.kind, e)
              errors == Append(exec.errors, code)
          IN  IF GivesUp(code, exec.attempt)
              THEN /\ exec' = [exec EXCEPT !.pc = "aborted", !.errors = errors,
                                           !.code = MapBackendError(code).code]
                   /\ elapsed' = t
              ELSE IF t >= Timeout
              THEN /\ exec' = [exec EXCEPT !.pc = "aborted", !.errors = errors, !.cut = TRUE,
                                           !.code = "DEADLINE_EXCEEDED"]
                   /\ elapsed' = t
              ELSE /\ exec' = [exec EXCEPT !.attempt = @ + 1, !.errors = errors]
                   /\ elapsed' = t + Pause(exec.attempt, t)

ExecutionNext == RefuseRequest \/ StartExecution \/ ProviderAnswers \/ ProviderFails

ExecutionSpec == ExecutionInit /\ [][ExecutionNext]_executionVars
-----------------------------------------------------------------------------
\* The caller waits at most twice the timeout: the last attempt may start at
\* the deadline and has the whole timeout again.
CallTimeBounded == elapsed <= 2 * Timeout

\* Only transient failures are retried, at most MaxRetries times, so a circuit
\* reaches the provider no more than MaxRetries + 1 times.
RetriesAreTransient ==
    /\ exec.attempt <= MaxRetries + 1
    /\ \A i \in 1..Len(exec.errors) :
          (i < exec.attempt \/ exec.cut) => IsRetryable(exec.errors[i])

\* The status the caller sees tells the truth about retrying: RetryInfo is
\* attached exactly when the driver itself would have retried, and the code is
\* that of the last failure unless the deadline cut the loop.
AdviceAgrees ==
    exec.pc = "aborted" =>
        LET details == AbortDetails(exec.code)
        IN  /\ details.retryable = (details.retry_after > 0)
            /\ details.retryable = IsRetryable(exec.code)
            /\ (exec.errors # <<>> /\ ~exec.cut) =>
                  exec.code = MapBackendError(exec.errors[Len(exec.errors)]).code

\* ExecuteCircuit over a failing provider: its retries end in time, repeat only
\* what may be repeated, and the advice it answers with agrees with the error.
RetriesSound == CallTimeBounded /\ RetriesAreTransient /\ AdviceAgrees
=============================================================================
