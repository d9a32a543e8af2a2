----------------------------- MODULE QfsArtifacts -----------------------------
(***************************************************************************)
(* The QFS side of the System API (system_api/qfs_store.py): the retrying  *)
(* store over a list of backends, the metadata index, the retention        *)
(* executor that runs beside the writers, the checkpoint catalogue with    *)
(* its quota and the LRU restore cache.                                    *)
(*                                                                         *)
(* A blob is the number of the write that made it, 0 when there is none.   *)
(* Refs are all of the form qfs://jobs/...; the other fields of the        *)
(* metadata only pass validation here.                                     *)
(***************************************************************************)
EXTENDS Integers, Sequences, FiniteSets, Functions

CONSTANTS Refs,         \* artifact refs
          BackendCount, \* backends of the QFSStore, tried in order
          Lifetime,     \* retention_until - created_at of a new artifact
          MaxWrites, MaxFailovers, MaxEpoch,
          Checkpoints,  \* checkpoint ids
          Sizes,        \* payload sizes of checkpoints
          MaxArtifacts, MaxBytes,   \* CheckpointQuotaPolicy
          Capacity,     \* QFSRestoreCache capacity
          MaxUses

ASSUME QfsArtifactsAssumption ==
    /\ BackendCount \in Nat \ {0} /\ Lifetime \in Nat /\ Capacity \in Nat \ {0}
    /\ MaxArtifacts \in Nat /\ MaxBytes \in Nat /\ Sizes \subseteq Nat
    /\ MaxWrites \in Nat /\ MaxFailovers \in Nat /\ MaxEpoch \in Nat /\ MaxUses \in Nat

VARIABLES epoch,      \* now_epoch_ms
          blobs,      \* per backend: ref -> number of the write
          writes,     \* writes so far
          failovers,  \* backend attempts that failed so far
          written,    \* ref -> backend and number of the last successful write
          index,      \* QFSMetadataIndex: ref -> retention_until
          cleanup,    \* the retention executor
          exposed,    \* refs a run of the executor met between write and index entry
          catalog,    \* CheckpointCatalog._items: id -> size and retention_until
          cache,      \* QFSRestoreCache: id -> last access
          used        \* id -> number of its last put or hit, cached or not

storeVars == <<epoch, blobs, writes, failovers, written, index, cleanup, exposed>>
checkpointVars == <<catalog, cache, used>>
qfsVars == <<epoch, blobs, writes, failovers, written, index, cleanup, exposed,
             catalog, cache, used>>

Backends == 1..BackendCount
Idle == [pc |-> "idle", snapshot |-> <<>>, now |-> 0, refs |-> {}]

QfsInit ==
    /\ epoch = 0 /\ writes = 0 /\ failovers = 0
    /\ blobs = [b \in Backends |-> [r \in Refs |-> 0]]
    /\ written = [r \in Refs |-> [backend |-> 1, write |-> 0]]
    /\ index = <<>> /\ cleanup = Idle /\ exposed = {}
    /\ catalog = <<>> /\ cache = <<>> /\ used = [i \in Checkpoints |-> 0]

\* QFSStore._run: the operation is carried out by the first backend that does
\* not raise; every earlier one counts as a failed attempt. The retries only
\* repeat this choice, so they add no outcome of their own.
RunOn(b) ==
    /\ failovers + (b - 1) <= MaxFailovers
    /\ failovers' = failovers + (b - 1)

Running == cleanup.pc # "idle"

\* put_bytes and atomic_write_bytes.
PutBytes(r) ==
    \E b \in Backends :
        /\ writes < MaxWrites /\ RunOn(b)
        /\ writes' = writes + 1
        /\ blobs' = [blobs EXCEPT ![b][r] = writes + 1]
        /\ written' = [written EXCEPT ![r] = [backend |-> b, write |-> writes + 1]]
        /\ exposed' = IF Running THEN exposed \cup {r} ELSE exposed \ {r}
        /\ UNCHANGED <<epoch, index, cleanup, checkpointVars>>

\* QFSMetadataIndex.upsert of valid metadata for an artifact being written now.
IndexUpsert(r) ==
    /\ writes < MaxWrites
    /\ writes' = writes + 1
    /\ index' = [s \in DOMAIN index \cup {r} |-> IF s = r THEN epoch + Lifetime ELSE index[s]]
    /\ exposed' = IF Running THEN exposed \cup {r} ELSE exposed
    /\ UNCHANGED <<epoch, blobs, failovers, written, cleanup, checkpointVars>>

\* QFSRetentionExecutor.run: read the clock and copy the index, then list the
\* refs, then delete one by one.
CleanupSnapshot ==
    /\ ~Running
    /\ cleanup' = [Idle EXCEPT !.pc = "list", !.snapshot = index, !.now = epoch]
    /\ exposed' = exposed \cup {r \in Refs : r \notin DOMAIN index \/ epoch >= index[r]}
    /\ UNCHANGED <<epoch, blobs, writes, failovers, written, index, checkpointVars>>

CleanupList ==
    /\ cleanup.pc = "list"
    /\ \E b \in Backends :
          /\ RunOn(b)
          /\ cleanup' = [cleanup EXCEPT !.pc = "sweep", !.refs = {r \in Refs : blobs[b][r] # 0}]
    /\ UNCHANGED <<epoch, blobs, writes, written, index, exposed, checkpointVars>>

\* Mutant of Doomed: the last moment of the retention window is outside it.
DoomedEarly(r) ==
    \/ r \notin DOMAIN cleanup.snapshot
    \/ cleanup.now + 1 >= cleanup.snapshot[r]

\* ORPHAN_NOT_INDEXED or RETENTION_EXPIRED, judged by the copies.
Doomed(r) ==
    \/ r \notin DOMAIN cleanup.snapshot
    \/ cleanup.now >= cleanup.snapshot[r]

CleanupNext ==
    /\ cleanup.pc = "sweep"
    /\ IF cleanup.refs = {}
       THEN cleanup' = Idle /\ UNCHANGED <<blobs, failovers>>
       ELSE \E r \in cleanup.refs :
              /\ cleanup' = [cleanup EXCEPT !.refs = @ \ {r}]
              /\ IF Doomed(r)
                 THEN \E b \in Backends : RunOn(b) /\ blobs' = [blobs EXCEPT ![b][r] = 0]
                 ELSE UNCHANGED <<blobs, failovers>>
    /\ UNCHANGED <<epoch, writes, written, index, exposed, checkpointVars>>

EpochTick ==
    /\ epoch < MaxEpoch
    /\ epoch' = epoch + 1
    /\ UNCHANGED <<blobs, writes, failovers, written, index, cleanup, exposed, checkpointVars>>

BlobsNext ==
    \/ \E r \in Refs : PutBytes(r) \/ IndexUpsert(r)
    \/ CleanupSnapshot \/ CleanupList \/ CleanupNext \/ EpochTick
-----------------------------------------------------------------------------
TotalBytes(items) == SumFunction([i \in DOMAIN items |-> items[i].size])

\* The two quota checks; others are the items under other ids.
QuotaAdmits(others, size) ==
    /\ Cardinality(DOMAIN others) + 1 <= MaxArtifacts
    /\ TotalBytes(others) + size <= MaxBytes

Without(items, id) == [i \in DOMAIN items \ {id} |-> items[i]]
With(items, id, value) == [i \in DOMAIN items \cup {id} |-> IF i = id THEN value ELSE items[i]]

\* CheckpointCatalog.upsert that passes; a refused one changes nothing. Items
\* past their retention still count.
CatalogUpsert(id, size) ==
    /\ QuotaAdmits(Without(catalog, id), size)
    /\ catalog' = With(catalog, id, [size |-> size, until |-> epoch + Lifetime])
    /\ UNCHANGED <<storeVars, cache, used>>

\* CheckpointCatalog.get of an item that is past its retention.
CatalogGetExpired(id) ==
    /\ id \in DOMAIN catalog /\ epoch >= catalog[id].until
    /\ catalog' = Without(catalog, id)
    /\ UNCHANGED <<storeVars, cache, used>>

\* The number of the last access.
Uses ==
    LET numbers_used == {0} \cup {used[i] : i \in Checkpoints}
    IN  CHOOSE n \in numbers_used : \A m \in numbers_used : n >= m

\* min(self._last_access_ns): the access numbers are distinct.
Evicted(entries) ==
    CHOOSE i \in DOMAIN entries : \A j \in DOMAIN entries : entries[i] <= entries[j]

\* QFSRestoreCache.put: at most one entry is over the capacity.
CachePut(id) ==
    LET entries == With(cache, id, Uses + 1)
    IN  /\ Uses < MaxUses
        /\ cache' = IF Cardinality(DOMAIN entries) > Capacity
                    THEN Without(entries, Evicted(entries)) ELSE entries
        /\ used' = [used EXCEPT ![id] = Uses + 1]
        /\ UNCHANGED <<storeVars, catalog>>

\* QFSRestoreCache.get of a cached checkpoint; a miss only logs an event.
CacheHit(id) ==
    /\ Uses < MaxUses /\ id \in DOMAIN cache
    /\ cache' = [cache EXCEPT ![id] = Uses + 1]
    /\ used' = [used EXCEPT ![id] = Uses + 1]
    /\ UNCHANGED <<storeVars, catalog>>

CheckpointTick ==
    /\ epoch < MaxEpoch
    /\ epoch' = epoch + 1
    /\ UNCHANGED <<blobs, writes, failovers, written, index, cleanup, exposed, checkpointVars>>

CheckpointsNext ==
    \/ \E id \in Checkpoints :
          \/ \E size \in Sizes : CatalogUpsert(id, size)
          \/ CatalogGetExpired(id) \/ CachePut(id) \/ CacheHit(id)
    \/ CheckpointTick

QfsSpec == QfsInit /\ [][BlobsNext \/ CheckpointsNext]_qfsVars
-----------------------------------------------------------------------------
Readable(r) == blobs[written[r].backend][r] = written[r].write

\* The executor never deletes an artifact that is indexed and inside its
\* retention window, unless the artifact was written or indexed while the
\* executor was running, or a run fell between the write and the index entry:
\* the executor judges by a copy of the index, and no order of the writer's
\* two steps is safe from it.
RetainedSurvives ==
    \A r \in Refs \ exposed :
        (written[r].write # 0 /\ r \in DOMAIN index /\ index[r] > epoch) => Readable(r)

\* The catalogue never holds more artifacts or bytes than its quota.
QuotaHeld ==
    /\ Cardinality(DOMAIN catalog) <= MaxArtifacts
    /\ TotalBytes(catalog) <= MaxBytes

\* The cache holds the checkpoints used last, up to its capacity: whatever was
\* evicted was used before everything that is still there.
CacheKeepsRecent ==
    /\ Cardinality(DOMAIN cache) <= Capacity
    /\ \A i \in DOMAIN cache : \A j \in Checkpoints \ DOMAIN cache : used[j] < cache[i]

\* The QFS store next to its retention executor and two backends: retention takes
\* nothing that is still covered, the catalogue keeps to its quota and the restore
\* cache to the checkpoints used last.
QfsSound == RetainedSurvives /\ QuotaHeld /\ CacheKeepsRecent
=============================================================================
