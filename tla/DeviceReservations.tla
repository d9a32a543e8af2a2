-------------------------- MODULE DeviceReservations --------------------------
(***************************************************************************)
(* DeviceService.ReserveDevice of the System API (system_api/grpc_impl.py).*)
(* A call reads the clock before it takes the service lock; the locked     *)
(* section sweeps, refuses or writes the reservation, saves the table to a *)
(* file and writes an artifact to QFS. A failed save or artifact write     *)
(* ends the call with an error after the table was changed.                *)
(*                                                                         *)
(* The reservation id is a digest of device, purpose and owner: here the   *)
(* pair of device and owner, where an owner stands for subject, tenant,    *)
(* project and purpose.                                                    *)
(***************************************************************************)
EXTENDS Integers, FiniteSets

CONSTANTS ReserveCalls,  \* ReserveDevice calls, each on a thread of the server
          Reserve,       \* the device, owner and ttl_seconds of each call
          MaxNow, MaxReserveFaults

ASSUME DeviceReservationsAssumption ==
    /\ \A c \in ReserveCalls : Reserve[c].ttl \in Nat \ {0}
    /\ MaxNow \in Nat /\ MaxReserveFaults \in Nat

VARIABLES now,           \* time.time()
          reservations,  \* self._reservations
          table_file,    \* the file at _reservation_store_path
          artifacts,     \* the reservation artifacts in QFS
          reserve,       \* where each call stands, its stamp and what it was told
          shortened,     \* reservations whose expiry a call has moved back
          partial,       \* reservations whose save or artifact write failed
          reserve_faults

reservationVars == <<now, reservations, table_file, artifacts, reserve, shortened,
                     partial, reserve_faults>>

ReservationId(c) == <<Reserve[c].device, Reserve[c].owner>>
NoStamp == [pc |-> "idle", stamp |-> 0, at |-> 0, until |-> 0]

ReservationsInit ==
    /\ now = 0 /\ reserve_faults = 0
    /\ reservations = <<>> /\ table_file = <<>> /\ artifacts = <<>>
    /\ reserve = [c \in ReserveCalls |-> NoStamp]
    /\ shortened = {} /\ partial = {}

\* The request is checked and time.time() is read, before the lock.
ReserveStamp(c) ==
    /\ reserve[c].pc = "idle"
    /\ reserve' = [reserve EXCEPT ![c].pc = "stamped", ![c].stamp = now]
    /\ UNCHANGED <<now, reservations, table_file, artifacts, shortened, partial, reserve_faults>>

\* Mutant of SweepReservations: a reservation ends one tick early.
SweepEarly(table, t) ==
    [r \in DOMAIN table |->
        IF table[r].state = "ACTIVE" /\ t + 1 >= table[r].expires
        THEN [table[r] EXCEPT !.state = "EXPIRED"] ELSE table[r]]

\* _sweep_expired_reservations(t).
SweepReservations(table, t) ==
    [r \in DOMAIN table |->
        IF table[r].state = "ACTIVE" /\ t >= table[r].expires
        THEN [table[r] EXCEPT !.state = "EXPIRED"] ELSE table[r]]

\* The active reservations of a device.
ActiveOn(table, device) ==
    {r \in DOMAIN table : r[1] = device /\ table[r].state = "ACTIVE"}

\* expires_at_unix = now_unix + ttl_seconds, with the stamp read before the lock.
Expiry(c) == reserve[c].stamp + Reserve[c].ttl

Upsert(table, c) ==
    LET id == ReservationId(c)
    IN  [r \in DOMAIN table \cup {id} |->
            IF r = id THEN [state |-> "ACTIVE", expires |-> Expiry(c)] ELSE table[r]]

Returned(c, pc, until) ==
    reserve' = [reserve EXCEPT ![c].pc = pc, ![c].at = now, ![c].until = until]
Fault == reserve_faults < MaxReserveFaults /\ reserve_faults' = reserve_faults + 1

\* The locked section when the sweep's own save fails.
ReserveSweepFails(c) ==
    LET swept == SweepReservations(reservations, reserve[c].stamp)
    IN  /\ reserve[c].pc = "stamped" /\ swept # reservations
        /\ Fault
        /\ reservations' = swept
        /\ Returned(c, "error", 0)
        /\ UNCHANGED <<now, table_file, artifacts, shortened, partial>>

\* The locked section when another owner holds the device.
ReserveConflict(c) ==
    LET swept == SweepReservations(reservations, reserve[c].stamp)
    IN  /\ reserve[c].pc = "stamped"
        /\ ActiveOn(swept, Reserve[c].device) \ {ReservationId(c)} # {}
        /\ reservations' = swept
        /\ table_file' = IF swept # reservations THEN swept ELSE table_file
        /\ Returned(c, "conflict", 0)
        /\ UNCHANGED <<now, artifacts, shortened, partial, reserve_faults>>

\* _write_reservation_artifact.
WriteArtifact(table, id) ==
    [r \in DOMAIN artifacts \cup {id} |-> IF r = id THEN table[id] ELSE artifacts[r]]

\* The locked section when the device is free or already the caller's.
ReserveGrant(c) ==
    LET swept == SweepReservations(reservations, reserve[c].stamp)
        id    == ReservationId(c)
        table == Upsert(swept, c)
    IN  /\ reserve[c].pc = "stamped"
        /\ ActiveOn(swept, Reserve[c].device) \ {id} = {}
        /\ reservations' = table
        /\ shortened' = IF /\ id \in DOMAIN swept /\ swept[id].state = "ACTIVE"
                           /\ table[id].expires < swept[id].expires
                        THEN shortened \cup {id} ELSE shortened
        /\ \E writes \in {"ok", "nothing", "no artifact"} :
              /\ table_file' = IF writes # "nothing" THEN table
                               ELSE IF swept # reservations THEN swept ELSE table_file
              /\ artifacts' = IF writes = "ok" THEN WriteArtifact(table, id) ELSE artifacts
              /\ IF writes = "ok"
                 THEN Returned(c, "granted", table[id].expires) /\ UNCHANGED <<partial, reserve_faults>>
                 ELSE Returned(c, "error", 0) /\ Fault /\ partial' = partial \cup {id}
        /\ UNCHANGED now

\* The process dies and starts again: __init__ loads the file, sweeps and saves.
ReservationsRestart ==
    LET loaded == SweepReservations(table_file, now)
    IN  /\ Fault
        /\ reservations' = loaded
        /\ table_file' = loaded
        /\ reserve' = [c \in ReserveCalls |-> IF reserve[c].pc = "stamped"
                                              THEN [NoStamp EXCEPT !.pc = "error"] ELSE reserve[c]]
        /\ UNCHANGED <<now, artifacts, shortened, partial>>

ReservationsTick ==
    /\ now < MaxNow
    /\ now' = now + 1
    /\ UNCHANGED <<reservations, table_file, artifacts, reserve, shortened, partial, reserve_faults>>

ReservationsNext ==
    \/ \E c \in ReserveCalls :
          ReserveStamp(c) \/ ReserveSweepFails(c) \/ ReserveConflict(c) \/ ReserveGrant(c)
    \/ ReservationsRestart \/ ReservationsTick

ReservationsSpec == ReservationsInit /\ [][ReservationsNext]_reservationVars
-----------------------------------------------------------------------------
\* At most one reservation of a device is ACTIVE, in memory and in the file
\* the next process will load.
OneActivePerDevice ==
    \A table \in {reservations, table_file} : \A r, s \in DOMAIN table :
        (r[1] = s[1] /\ table[r].state = "ACTIVE" /\ table[s].state = "ACTIVE") => r = s

\* Two owners are never told that they hold the same device at the same time,
\* across restarts. The exception is an owner with two calls open at once: the
\* one with the older stamp may be served last and move the expiry back, below
\* what the other was told.
GrantsExclusive ==
    \A c, d \in ReserveCalls :
        (/\ reserve[c].pc = "granted" /\ reserve[d].pc = "granted"
         /\ Reserve[c].device = Reserve[d].device /\ Reserve[c].owner # Reserve[d].owner
         /\ reserve[c].at < reserve[d].until /\ reserve[d].at < reserve[c].until)
            => shortened \cap {ReservationId(c), ReservationId(d)} # {}

\* The artifact in QFS carries the expiry of the reservation in the table,
\* unless a call on that reservation failed half-way.
ArtifactAgrees ==
    \A r \in DOMAIN reservations \ partial :
        r \in DOMAIN artifacts /\ artifacts[r].expires = reservations[r].expires

\* Over concurrent ReserveDevice calls, expiry, failed artifact writes and
\* restarts: a device has one holder, an answered grant excludes every other, and
\* the artifact in QFS tells the expiry the table holds.
ReservationsSound == OneActivePerDevice /\ GrantsExclusive /\ ArtifactAgrees
=============================================================================
