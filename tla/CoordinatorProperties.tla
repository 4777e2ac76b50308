----------------------- MODULE CoordinatorProperties -----------------------
(***************************************************************************)
(* What makes the coordinator correct.  Objects and rows are deleted in    *)
(* several steps, by several handlers, while entries, history and rows     *)
(* change; each property relates two of the tables, or a table and the     *)
(* bucket, across such steps.                                              *)
(***************************************************************************)
EXTENDS SyncCoordinator

(* Blobs, rows and references *)

\* The content of every live entry can be downloaded: whatever an upload, a
\* commit, collection, a purge and a repair do to one blob in between, no
\* entry is left with a blob the bucket has no object for
\* (mutation-service.commitMutations against blob-gc-service.deleteBlobs and
\* vault-service.repairSyncState).
ReferencedObjectsExist ==
  \A e \in Entry: entries[e].blob # NoBlob => entries[e].blob \in objects

\* An unexpired version can be restored: blobs that only history refers to
\* keep their object until the version expires or is purged
\* (blob-collectability.ts, entry-service.purgeDeletedEntries).
RetainedObjectsExist ==
  \A v \in history: v.blob # NoBlob /\ v.expires > now => v.blob \in objects

\* A row is live exactly while an entry refers to its blob.  Collection and
\* repair look at the state, staging and commits at the references; if the
\* two disagreed a blob would leak for ever or be collected in use
\* (blob-record-operations.ts, blob-gc-policy.decideUnlinkedBlob).
LiveIffCurrent ==
  \A b \in Blob: (blobs[b] # NoRow /\ blobs[b].state = "live") <=> Current(b)

\* A blob history still needs never looks like an unfinished upload, so no
\* stage request finds the corruption blob-policy.ts:48-59 pauses a vault for.
RetainedNeverStaged ==
  \A v \in history:
    v.blob # NoBlob /\ v.expires > now =>
      blobs[v.blob] # NoRow /\ blobs[v.blob].state # "staged"

\* storage_used_bytes, kept by increments in four different transactions, is
\* the sum of the sizes of the rows (blob-record-operations.ts:44-60, 95-104).
BytesMatchRows == used = RowBytes(Blob)

\* No step takes the bytes the rows stand for above the limit in force,
\* whatever was collected, repaired or uploaded again before
\* (blob-policy.ts:80-100).
RowsWithinQuota ==
  [][RowBytes(Blob)' > RowBytes(Blob) /\ policy.limit > 0
       => RowBytes(Blob)' <= policy.limit]_vars

-----------------------------------------------------------------------------
(* The log of the vault *)

Vault == [e \in Entry |-> [rev |-> entries[e].rev, blob |-> entries[e].blob]]

Log == INSTANCE VaultLog WITH vault <- Vault

\* The coordinator implements the log it promises: however requests are
\* repeated, batched or made from an outdated revision, a mutation is applied
\* once, and on the revision it was made from (mutation-service.ts:70-133).
CommitsExtendLog == Log!Spec

Revision(e) == Cardinality({i \in DOMAIN log: log[i].entry = e})

\* The entries table is the state the log leads to: the row of an entry holds
\* the number, the place and the content of its last mutation, and the cursor
\* counts every mutation, so that a client that has read up to the cursor has
\* missed nothing (entry-store.ts:22-102, mutation-service.ts:188-250).
EntriesFollowLog ==
  /\ thread \notin Session => cursor = Len(log)
  /\ \A e \in Entry:
       /\ entries[e].rev = Revision(e)
       /\ \A i \in DOMAIN log: log[i].entry = e => entries[e].seq \in i .. Len(log)
       /\ entries[e].rev > 0 => LET last == log[entries[e].seq]
                                IN last.entry = e /\ last.blob = entries[e].blob

-----------------------------------------------------------------------------
(* Pauses *)

\* Once a vault is paused nothing is committed, not even by a request that
\* was already waiting for the bucket (mutation-service.ts:62).
NothingMovesWhilePaused == [][pause # NoPause => UNCHANGED <<entries, log>>]_vars

\* "Sync repair does not clear manual pauses": only an explicit resume does,
\* though a repair clears the pause on what it read before it waited
\* for the bucket (vault-service.ts:133, 213-215).
RepairKeepsManualPause == [][pause = ManualPause /\ pause' # ManualPause => ResumeSync]_vars
=============================================================================
