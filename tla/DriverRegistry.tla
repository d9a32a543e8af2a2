---------------------------- MODULE DriverRegistry ----------------------------
(***************************************************************************)
(* The driver manager's registry (driver_manager/registry.py) and the      *)
(* drivers behind it: initialisation from configuration and secrets,       *)
(* add_driver, add_plugin_driver, remove_driver, the reverse index from    *)
(* devices to drivers, the device profiles, and the sessions of the        *)
(* registry and of the simulator. serve() initialises and adds drivers     *)
(* before the server starts; the registry itself takes the calls in any    *)
(* order, one at a time.                                                   *)
(***************************************************************************)
EXTENDS Integers, Sequences, FiniteSets

CONSTANTS Objects,      \* driver objects
          Driver,        \* the name, kind, api version and devices of each object
          Configs,       \* provider configurations initialize may be given
          Plugins,       \* runtime specs and signatures add_plugin_driver may be given
          SessionKeys,
          DeviceOrder,   \* the device ids in sorted order
          Requests,      \* profile names a caller may ask for
          MaxInits,      \* bound: initialize calls
          MaxRejects     \* bound: plugins refused

VARIABLES ready,         \* the objects with _initialized
          init_error,    \* _init_error of each object
          numbers,       \* were the numbers of each object's last configuration valid
          inits,
          registered,    \* self._drivers: name -> object and device_ids
          owner,         \* self._device_to_driver
          profiles,      \* self._device_profiles
          rejects,       \* self._policy_reject_counters
          refused,       \* plugins refused by a policy so far
          sessions,      \* self._sessions of the registry
          handed         \* the states of the sessions handed out

registryVars == <<ready, init_error, numbers, inits, registered, owner, profiles,
                  rejects, refused, sessions, handed>>

Counters == {"in_process", "boundary", "sandbox", "signature", "matrix"}

RegistryInit ==
    /\ ready = {o \in Objects : Driver[o].kind = "simulator"}
    /\ init_error = [o \in Objects |-> ""]
    /\ numbers = [o \in Objects |-> "never"] /\ inits = 0
    /\ registered = <<>> /\ owner = <<>> /\ profiles = <<>>
    /\ rejects = [k \in Counters |-> 0] /\ refused = 0
    /\ sessions = <<>> /\ handed = {}
-----------------------------------------------------------------------------
\* SecretLifecycleStore.get: the value of an active secret, or why there is none.
SecretGet(secret) ==
    IF secret.state = "absent" THEN "missing secret"
    ELSE IF secret.expired THEN "expired secret"
    ELSE IF secret.state = "revoked" THEN "revoked secret"
    ELSE IF secret.state \notin {"issued", "rotated"} THEN "inactive secret" ELSE "ok"

\* _validate_provider_config: the first objection to a configuration, or "".
ProviderConfigError(config) ==
    IF config.version # "1.0" THEN "version"
    ELSE IF config.isolation \notin {"process", "sandbox"} THEN "isolation"
    ELSE IF config.raw THEN "raw credentials"
    ELSE IF ~config.ref THEN "no secret ref" ELSE ""

\* _resolve_auth of the Braket driver wants both halves of a key pair, that of
\* the Qiskit driver a token.
BraketAuthError(secret) ==
    IF SecretGet(secret) = "ok" /\ secret.value = "key pair" THEN "" ELSE "credentials"
QiskitAuthError(secret) ==
    IF SecretGet(secret) = "ok" /\ secret.value # "blank" THEN "" ELSE "credentials"

AuthError(o, config) ==
    IF Driver[o].kind = "braket" THEN BraketAuthError(config.secret)
                                 ELSE QiskitAuthError(config.secret)

\* get_devices: a provider driver that is not initialised has none.
Listed(o) == IF o \in ready THEN Driver[o].devices ELSE {}

\* _initialized is cleared first and set again at the very end.
Initialized(o, ok) == IF ok THEN ready \cup {o} ELSE ready \ {o}

\* initialize(config) of a provider driver. A timeout or retry count that is
\* out of range raises after the checks that set _init_error.
Initialize(o, config) ==
    LET objection == IF ProviderConfigError(config) # "" THEN ProviderConfigError(config)
                                                         ELSE AuthError(o, config)
        ok == objection = "" /\ config.numbers
    IN  /\ Driver[o].kind # "simulator" /\ inits < MaxInits
        /\ inits' = inits + 1
        /\ init_error' = [init_error EXCEPT ![o] = objection]
        /\ numbers' = [numbers EXCEPT ![o] = IF config.numbers THEN "valid" ELSE "invalid"]
        /\ ready' = Initialized(o, ok)
        /\ UNCHANGED <<registered, owner, profiles, rejects, refused, sessions, handed>>
-----------------------------------------------------------------------------
First(options) == SelectSeq(options, LAMBDA x : x # "")[1]

\* _build_device_profile. The names a device leaves empty fall back in turn.
Profile(o, device) ==
    LET name == First(<<device.provider, device.profile, device.name, Driver[o].name>>)
    IN  [profile_name |-> name, version |-> Driver[o].api, device |-> device.id,
         driver |-> Driver[o].name,
         backend |-> First(<<device.backend, device.provider, name>>)]

Ids(devices) == {device.id : device \in devices}

\* The checks of add_driver: all of them come before the first write.
AddRefused(o) ==
    \/ Driver[o].name \in DOMAIN registered
    \/ Driver[o].api = ""
    \/ "" \in Ids(Listed(o))
    \/ Ids(Listed(o)) \cap DOMAIN owner # {}

\* add_driver.
AddDriver(o) ==
    LET ids == Ids(Listed(o))
        profile(d) == Profile(o, CHOOSE device \in Listed(o) : device.id = d)
    IN  /\ ~AddRefused(o)
        /\ owner' = [d \in DOMAIN owner \cup ids |->
                        IF d \in ids THEN Driver[o].name ELSE owner[d]]
        /\ profiles' = [d \in DOMAIN profiles \cup ids |->
                        IF d \in ids THEN profile(d) ELSE profiles[d]]
        /\ registered' = [n \in DOMAIN registered \cup {Driver[o].name} |->
                            IF n = Driver[o].name THEN [object |-> o, devices |-> ids]
                                                  ELSE registered[n]]
        /\ UNCHANGED <<ready, init_error, numbers, inits, rejects, refused, sessions, handed>>

\* _enforce_plugin_runtime_policy and _enforce_signature_policy: the counter
\* of the first policy a plugin breaks, or "".
PolicyBroken(p) ==
    IF p.runtime = "in_process" THEN "in_process"
    ELSE IF p.artifact # "oci" \/ p.runtime # "runsc" THEN "boundary"
    ELSE IF ~p.baseline THEN "sandbox"
    ELSE IF ~p.signed \/ p.trust # "sigstore-keyless-v1" THEN "signature"
    ELSE IF ~p.digests THEN "matrix" ELSE ""

AddPluginDriver(o, p) == PolicyBroken(p) = "" /\ AddDriver(o)

\* add_plugin_driver when a policy refuses the plugin.
RejectPlugin(p) ==
    /\ PolicyBroken(p) # "" /\ refused < MaxRejects
    /\ rejects' = [rejects EXCEPT ![PolicyBroken(p)] = @ + 1]
    /\ refused' = refused + 1
    /\ UNCHANGED <<ready, init_error, numbers, inits, registered, owner, profiles,
                   sessions, handed>>

Forgetting(f, keys) == [d \in DOMAIN f \ keys |-> f[d]]

\* The devices remove_driver gives up: the frozen set of the registration.
Released(n) == registered[n].devices

\* remove_driver of a registered name; the sessions under that name stay.
RemoveDriver(n) ==
    /\ n \in DOMAIN registered
    /\ owner' = Forgetting(owner, Released(n))
    /\ profiles' = Forgetting(profiles, Released(n))
    /\ registered' = Forgetting(registered, {n})
    /\ UNCHANGED <<ready, init_error, numbers, inits, rejects, refused, sessions, handed>>
-----------------------------------------------------------------------------
SessionCreated(key) ==
    [s \in DOMAIN sessions \cup {key} |-> IF s = key THEN "active" ELSE sessions[s]]

\* Mutant of SessionTable: a session that is no longer active is replaced.
SessionTableFresh(key) ==
    IF key \in DOMAIN sessions /\ sessions[key] = "active" THEN sessions ELSE SessionCreated(key)

\* The table get_or_create_session leaves: any entry of the key is kept.
SessionTable(key) == IF key \in DOMAIN sessions THEN sessions ELSE SessionCreated(key)

\* get_or_create_session.
GetOrCreateSession(n, k) ==
    /\ sessions' = SessionTable(<<n, k>>)
    /\ handed' = handed \cup {[key |-> <<n, k>>, state |-> sessions'[<<n, k>>]]}
    /\ UNCHANGED <<ready, init_error, numbers, inits, registered, owner, profiles, rejects, refused>>

\* invalidate_session.
InvalidateSession(n, k) ==
    /\ <<n, k>> \in DOMAIN sessions
    /\ sessions' = [sessions EXCEPT ![<<n, k>>] = "invalidated"]
    /\ UNCHANGED <<ready, init_error, numbers, inits, registered, owner, profiles,
                   rejects, refused, handed>>

Names == {Driver[o].name : o \in Objects}

DriversNext ==
    \/ \E o \in Objects :
          \/ \E config \in Configs : Initialize(o, config)
          \/ AddDriver(o)
          \/ \E p \in Plugins : AddPluginDriver(o, p)
    \/ \E p \in Plugins : RejectPlugin(p)
    \/ \E n \in Names : RemoveDriver(n)

\* Sessions are keyed by name alone: whether a driver of that name is
\* registered, removed or replaced makes no difference to them.
SessionsNext ==
    \/ \E n \in Names, k \in SessionKeys : GetOrCreateSession(n, k) \/ InvalidateSession(n, k)
    \/ \E o \in Objects : AddDriver(o)
    \/ \E n \in Names : RemoveDriver(n)

RegistrySpec == RegistryInit /\ [][DriversNext \/ SessionsNext]_registryVars
-----------------------------------------------------------------------------
\* get_driver_for_device, list_devices, health_snapshot with /healthz.
DriverForDevice(d) == IF d \in DOMAIN owner THEN owner[d] ELSE "none"
ListDevices == UNION {Listed(registered[n].object) : n \in DOMAIN registered}

Healthy ==
    /\ DOMAIN registered # {}
    /\ \A n \in DOMAIN registered : registered[n].object \in ready

\* device_profile_snapshot: the profiles in the order of their device ids.
ProfileSnapshot ==
    LET ids == SelectSeq(DeviceOrder, LAMBDA d : d \in DOMAIN profiles)
    IN  [i \in 1..Len(ids) |-> profiles[ids[i]]]

\* resolve_device_profile: the profile of the device if the request names it in
\* any way, otherwise the first simulator's, otherwise an error.
ResolveProfile(d, requested) ==
    LET own == profiles[d]
        simulators == SelectSeq(ProfileSnapshot, LAMBDA p :
                          "simulator" \in {p.profile_name, p.driver, p.backend})
    IN  IF requested \in {"", own.profile_name, own.driver, own.backend, own.version, own.device}
        THEN own
        ELSE IF simulators # <<>> THEN simulators[1] ELSE [driver |-> "error"]
-----------------------------------------------------------------------------
\* The reverse index, the profiles and the registrations describe the same
\* devices: nothing a sequence of adds, removals and initialisations leaves
\* behind can route a circuit to a driver that is gone.
IndexExact ==
    /\ DOMAIN profiles = DOMAIN owner
    /\ DOMAIN owner = UNION {registered[n].devices : n \in DOMAIN registered}
    /\ \A d \in DOMAIN owner :
          /\ owner[d] \in DOMAIN registered
          /\ d \in registered[owner[d]].devices /\ profiles[d].driver = owner[d]

\* A device that ListDevices shows is one ExecuteCircuit finds, and its driver
\* accepts work. The exception is a driver that was added before it was ready:
\* it was indexed with no devices, and stays so once it is initialised.
ListedIsServed ==
    \A device \in ListDevices :
        \/ /\ DriverForDevice(device.id) \in DOMAIN registered
           /\ registered[DriverForDevice(device.id)].object \in ready
        \/ \E n \in DOMAIN registered :
              device \in Driver[registered[n].object].devices /\ registered[n].devices = {}

\* /healthz is green only if no indexed device would answer that its driver is
\* not initialised.
HealthyServes ==
    Healthy => \A d \in DOMAIN owner : registered[owner[d]].object \in ready

\* initialize fails closed: a driver is ready exactly when its last
\* configuration was accepted, and one that is not ready can say why, unless a
\* number was out of range.
InitializeFailsClosed ==
    \A o \in Objects : numbers[o] # "never" =>
        /\ o \in ready => init_error[o] = "" /\ numbers[o] = "valid"
        /\ o \notin ready => init_error[o] # "" \/ numbers[o] = "invalid"

\* Profile negotiation fails closed: an answer that is not the device's own
\* profile is that of a registered simulator, and there is no answer only when
\* none is registered.
NegotiationFailsClosed ==
    \A d \in DOMAIN profiles, requested \in Requests :
        LET p == ResolveProfile(d, requested)
        IN  IF p.driver = "error" THEN "simulator" \notin DOMAIN registered
            ELSE /\ p.driver \in DOMAIN registered
                 /\ p.device # d => requested # profiles[d].driver /\ p.backend = "simulator"

\* An invalidated session stays what it is for the life of the process: the
\* key is burnt, get_or_create_session never makes a fresh one under it.
InvalidatedForever ==
    [][\A key \in DOMAIN sessions :
          sessions[key] = "invalidated" =>
              key \in DOMAIN sessions' /\ sessions'[key] = "invalidated"]_registryVars

\* Every refused registration is counted under exactly one reason.
RefusalsCounted ==
    refused = rejects["in_process"] + rejects["boundary"] + rejects["sandbox"]
                + rejects["signature"] + rejects["matrix"]

\* The registry over any order of initialization, registration, removal and
\* refusal: its device index, its listing, its health and its negotiation all
\* speak of the same drivers, and fail closed; an invalidated session stays so.
RegistrySound ==
    /\ []IndexExact /\ []ListedIsServed /\ []HealthyServes
    /\ []InitializeFailsClosed /\ []NegotiationFailsClosed /\ []RefusalsCounted
    /\ InvalidatedForever
=============================================================================
