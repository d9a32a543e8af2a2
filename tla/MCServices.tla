------------------------------ MODULE MCServices ------------------------------
(***************************************************************************)
(* Small instances of the System API (SubmitJob, the job streams, device   *)
(* reservations, the QFS store) and of the driver manager behind it        *)
(* (registry, sessions, one ExecuteCircuit call, one circuit on the        *)
(* simulator). Each part has a lock and state of its own and none reads    *)
(* another's state, so a behaviour follows one of them: part says which,   *)
(* and the others stay in one fixed state.                                 *)
(***************************************************************************)
EXTENDS JobGateway, JobStreams, DeviceReservations, QfsArtifacts,
        DriverRegistry, DriverExecution, StatevectorSimulator

VARIABLE part

Parts == {"submit", "streams", "devices", "blobs", "checkpoints",
          "drivers", "sessions", "execution", "simulator"}

MCInit ==
    /\ part \in Parts
    /\ \E batch \in Batches \cup {{}} : (part = "submit" <=> batch # {}) /\ GatewayInit(batch)
    /\ StreamsInit /\ ReservationsInit /\ QfsInit
    /\ RegistryInit /\ SimulatorInit /\ ExecutionInit
    /\ part # "execution" => exec.kind = "braket" /\ exec.request = CHOOSE r \in RpcRequests : TRUE

ApiRests == UNCHANGED <<gatewayVars, streamVars, reservationVars, qfsVars>>
ManagerRests == UNCHANGED <<registryVars, executionVars, simulatorVars>>

ApiNext ==
    \/ part = "submit" /\ SubmitNext /\ UNCHANGED <<streamVars, reservationVars, qfsVars>>
    \/ part = "streams" /\ StreamsNext /\ UNCHANGED <<gatewayVars, reservationVars, qfsVars>>
    \/ part = "devices" /\ ReservationsNext /\ UNCHANGED <<gatewayVars, streamVars, qfsVars>>
    \/ part = "blobs" /\ BlobsNext /\ UNCHANGED <<gatewayVars, streamVars, reservationVars>>
    \/ part = "checkpoints" /\ CheckpointsNext /\ UNCHANGED <<gatewayVars, streamVars, reservationVars>>

ManagerNext ==
    \/ part = "drivers" /\ DriversNext /\ UNCHANGED <<executionVars, simulatorVars>>
    \/ part = "sessions" /\ SessionsNext /\ UNCHANGED <<executionVars, simulatorVars>>
    \/ part = "execution" /\ ExecutionNext /\ UNCHANGED <<registryVars, simulatorVars>>
    \/ part = "simulator" /\ SimulatorNext /\ UNCHANGED <<registryVars, executionVars>>

MCNext ==
    /\ part' = part
    /\ \/ ApiNext /\ ManagerRests
       \/ ManagerNext /\ ApiRests

\* The streams with the fairness of their threads; the other parts promise no
\* progress and may stop at any point.
MCFairSpec ==
    /\ MCInit /\ [][MCNext]_<<gatewayVars, streamVars, reservationVars, qfsVars,
                              registryVars, executionVars, simulatorVars, part>>
    /\ part = "streams" => StreamsFairness
-----------------------------------------------------------------------------
\* A watcher that resumes whenever its stream ends gets an update of the last
\* stage, whatever connections broke on the way.
StagesArrive == part = "streams" => EveryStageArrives

\* Every GetDispatchRationale call returns, with the rationale or with the
\* kernel's refusal once the wait is over.
RationaleAnswered == part = "streams" => RationaleReturns

\* StreamJobUpdates and GetDispatchRationale both come to an end whatever
\* connections break: neither waits for something that was already sent.
StreamsAnswer == StagesArrive /\ RationaleAnswered
-----------------------------------------------------------------------------
(***************************************************************************)
(* Submissions: two equal requests and a retry of theirs with a new        *)
(* request id under one key of the envelope, and two equal requests under  *)
(* a key of the metadata. Reservations: one owner with two calls of        *)
(* different length and one rival on one device.                           *)
(***************************************************************************)
SubmitRequest(via, key, rid) == [via |-> via, key |-> key, body |-> "program", rid |-> rid]
MCCalls == 1..5
MCRequest == <<SubmitRequest("envelope", "k", 1), SubmitRequest("envelope", "k", 1),
               SubmitRequest("envelope", "k", 2),
               SubmitRequest("metadata", "m", 1), SubmitRequest("metadata", "m", 1)>>
MCBatches == {{1, 2, 3}, {1, 4, 5}}

ReserveRequest(holder, length) == [device |-> "sim", owner |-> holder, ttl |-> length]
MCReserveCalls == 1..3
MCReserve == <<ReserveRequest("a", 2), ReserveRequest("a", 1), ReserveRequest("b", 1)>>
-----------------------------------------------------------------------------
(***************************************************************************)
(* A simulator, a Braket and a Qiskit driver, and a plugin that claims the *)
(* Braket device; circuits of two qubits with one symbol bound by the      *)
(* payload and one only by the options.                                    *)
(***************************************************************************)
Device(id, provider, name, backend) ==
    [id |-> id, provider |-> provider, profile |-> "", name |-> name, backend |-> backend]
Object(name, kind, devices) == [name |-> name, kind |-> kind, api |-> "1.0", devices |-> devices]

MCObjects == {"sim", "aws", "clone"}
MCDriver ==
    [sim   |-> Object("simulator", "simulator", {Device("sim:local", "", "Local AQO simulator", "simulator")}),
     aws   |-> Object("aws-braket", "braket", {Device("aws:braket", "aws_braket", "AWS Braket", "qpu")}),
     clone |-> Object("plugin", "qiskit", {Device("aws:braket", "clone", "", ""),
                                           Device("plugin:1", "", "", "")})]
MCDeviceOrder == <<"aws:braket", "plugin:1", "sim:local">>

Secret(state, expired, value) == [state |-> state, expired |-> expired, value |-> value]
Config(version, isolation, raw, ref, valid, secret) ==
    [version |-> version, isolation |-> isolation, raw |-> raw, ref |-> ref,
     numbers |-> valid, secret |-> secret]
Good == Secret("rotated", FALSE, "key pair")
MCConfigs ==
    {Config("1.0", "process", FALSE, TRUE, valid, Good) : valid \in BOOLEAN}
    \cup {Config("1.0", "sandbox", FALSE, TRUE, TRUE, Secret(state, expired, "key pair")) :
              state \in {"absent", "revoked", "draft"}, expired \in BOOLEAN}
    \cup {Config("1.0", "sandbox", FALSE, TRUE, TRUE, Secret("issued", FALSE, "blank")),
          Config("0.9", "process", FALSE, TRUE, TRUE, Good),
          Config("1.0", "none", FALSE, TRUE, TRUE, Good),
          Config("1.0", "process", TRUE, TRUE, TRUE, Good),
          Config("1.0", "process", FALSE, FALSE, TRUE, Good)}

Plugin(runtime, baseline, signed, digests) ==
    [runtime |-> runtime, artifact |-> "oci", baseline |-> baseline, signed |-> signed,
     trust |-> "sigstore-keyless-v1", digests |-> digests]
MCPlugins == {Plugin("in_process", TRUE, TRUE, TRUE), Plugin("runc", TRUE, TRUE, TRUE),
              Plugin("runsc", FALSE, TRUE, TRUE), Plugin("runsc", TRUE, FALSE, TRUE),
              Plugin("runsc", TRUE, TRUE, FALSE), Plugin("runsc", TRUE, TRUE, TRUE)}

Measurement(q, c) == [q |-> q, c |-> c]
MCMeasureOps == {Measurement(<<0>>, <<0>>), Measurement(<<1>>, <<0>>), Measurement(<<0, 1>>, <<1, 0>>),
                 Measurement(<<0, 1>>, <<2, 1>>), Measurement(<<0, 1>>, <<1, 1>>),
                 Measurement(<<0>>, <<0, 1>>), Measurement(<<2>>, <<0>>)}
MCSymbols == {"alpha", "beta"}
MCParameters == [alpha |-> "quarter"]
MCOptions == [alpha |-> "half", beta |-> "beta"]
==============================================================================
