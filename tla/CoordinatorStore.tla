-------------------------- MODULE CoordinatorStore --------------------------
(***************************************************************************)
(* The tables one vault's coordinator keeps in SQLite (db/do), the objects *)
(* it keeps in the blob bucket, and the pure rules that read them: which   *)
(* blobs are referenced, what a stage request may do, which rows garbage   *)
(* collection may take, what one mutation does to an entry.                *)
(*                                                                         *)
(* Nothing here is an action.  SyncCoordinator turns these rules into the  *)
(* steps of the handlers that use them.                                    *)
(***************************************************************************)
EXTENDS Integers, Sequences, FiniteSets, FiniteSetsExt

CONSTANTS
  Entry,         \* entry ids
  Blob,          \* blob ids
  Session,       \* client requests in flight, at most one per slot
  Repairer,      \* operator repair requests in flight
  Alarm,         \* the maintenance alarm
  MutationId,    \* ids the clients give to their mutations
  NoBlob, NoRow, NoMutation, Free,
  ByteSize,      \* the sizes a client declares for an upload
  Policy,        \* the limits the control plane may send
  Grace,         \* BLOB_GRACE_PERIOD
  StaleAfter,    \* STAGED_BLOB_STALE_MS
  Bucket         \* AUTO_ENTRY_VERSION_BUCKET_MS

\* The sums over rows are sums over finite tables.
ASSUME BlobAssumption == IsFiniteSet(Blob)

ASSUME SizeAssumption == ByteSize \subseteq Nat

ASSUME TimingAssumption ==
  /\ Grace \in Nat \ {0}
  /\ StaleAfter \in Nat \ {0}
  /\ Bucket \in Nat \ {0}

ASSUME PolicyAssumption ==
  Policy \subseteq [limit: Nat, maxFile: Nat, retention: Nat]

ASSUME SentinelAssumption ==
  /\ NoBlob \notin Blob
  /\ NoMutation \notin MutationId \cup (Session \X Nat \X Entry \X Nat)
  /\ \A id \in MutationId: id \notin Session \X Nat \X Entry \X Nat

ASSUME ProcessAssumption ==
  /\ Session \cap Repairer = {}
  /\ Alarm \notin Session \cup Repairer
  /\ Free \notin Session \cup Repairer \cup {Alarm}

VARIABLES
  entries,       \* entries: revision, current blob, updated_seq, last mutation
  history,       \* entry_versions
  blobs,         \* blobs: the row of each blob id, or NoRow
  objects,       \* the blob ids the bucket holds an object for
  cursor,        \* coordinator_state.current_cursor
  used,          \* coordinator_state.storage_used_bytes
  policy,        \* coordinator_state: limits and retention
  pause,         \* coordinator_state: sync_paused_at and its reason
  now            \* Date.now()

store == <<entries, history, blobs, objects, cursor, used, policy, pause, now>>

-----------------------------------------------------------------------------
(* Rows *)

Never == -1      \* a NULL delete_after
NoBucket == -1   \* a NULL bucket_start_ms

\* A restore gives its mutations fresh UUIDs; no client ever sends them again.
Id == MutationId \cup (Session \X Nat \X Entry \X Nat)

\* blob = NoBlob is a delete; keep asks for a before_restore version.
Mutation == [id: Id, entry: Entry, base: Nat, blob: Blob \cup {NoBlob}, keep: BOOLEAN]

\* rev = 0 stands for a missing row.
EntryRow == [rev: Nat, blob: Blob \cup {NoBlob}, seq: Nat, mut: Id \cup {NoMutation}]

Version == [entry: Entry, rev: Nat, blob: Blob \cup {NoBlob}, 
            reason: {"auto", "before_delete", "before_restore"},
            bucket: Nat \cup {NoBucket}, captured: Nat, expires: Nat]

BlobRow == [state: {"staged", "live", "pending_delete"}, size: Nat, created: Nat, 
            due: Nat \cup {Never}]

ASSUME RowAssumption == NoRow \notin BlobRow

NoPause == "none"
ManualPause == "manual"
StalePause == "staged blob"

\* used is left to BytesMatchRows, which says more than a type.
TablesOK ==
  /\ entries \in [Entry -> EntryRow]
  /\ history \subseteq Version
  /\ blobs \in [Blob -> BlobRow \cup {NoRow}]
  /\ objects \subseteq Blob
  /\ cursor \in Nat
  /\ policy \in Policy
  /\ pause \in {NoPause, ManualPause, StalePause}
  /\ now \in Nat

-----------------------------------------------------------------------------
(* Reference facts *)

Current(b) == \E e \in Entry: entries[e].blob = b

Retained(b, t) == \E v \in history: v.blob = b /\ v.expires > t

Pinned(b, t) == Current(b) \/ Retained(b, t)

\* Mutant: collection forgets the history.
CollectibleUnlessCurrent(b, t) ==
  /\ blobs[b] # NoRow
  /\ blobs[b].state \in {"staged", "pending_delete"}
  /\ blobs[b].due # Never /\ blobs[b].due <= t
  /\ ~Current(b)

\* The SQL predicate: state IN (...) AND delete_after <= t AND NOT referenced.
Collectible(b, t) ==
  /\ blobs[b] # NoRow
  /\ blobs[b].state \in {"staged", "pending_delete"}
  /\ blobs[b].due # Never /\ blobs[b].due <= t
  /\ ~Pinned(b, t)

StaleStaged(t) ==
  {b \in Blob: /\ blobs[b] # NoRow
               /\ blobs[b].state = "staged"
               /\ blobs[b].created <= t - StaleAfter}

Unexpired(t) == {v \in history: v.expires > t}

\* A version a restore or a purge may use: captured within the retention window.
Restorable(v) == v.captured >= now - policy.retention

-----------------------------------------------------------------------------
(* Byte accounting: sqlite's max(0, used + delta) *)

Adjusted(delta) == IF used + delta < 0 THEN 0 ELSE used + delta

RowBytes(S) == MapThenSumSet(LAMBDA b: IF blobs[b] = NoRow THEN 0 ELSE blobs[b].size, S)

-----------------------------------------------------------------------------
(* Staging *)

\* A pinned blob that is still staged an hour after it was created is taken
\* for corruption, and pauses the vault.
StageFindsCorruption(b) ==
  /\ blobs[b] # NoRow
  /\ Pinned(b, now)
  /\ blobs[b].state = "staged"
  /\ now - blobs[b].created >= StaleAfter

\* Mutant: the quota is checked without the upload that asks.
WithinQuotaSoFar(n) == policy.limit > 0 => used <= policy.limit

WithinQuota(n) == policy.limit > 0 => used + n <= policy.limit

\* Mutant: a blob only history refers to may be staged again.
StageAcceptedUnlessCurrent(b, n) ==
  /\ policy.maxFile > 0 => n <= policy.maxFile
  /\ IF blobs[b] = NoRow
     THEN WithinQuota(n)
     ELSE ~Current(b) /\ blobs[b].size = n

StageAccepted(b, n) ==
  /\ policy.maxFile > 0 => n <= policy.maxFile
  /\ IF blobs[b] = NoRow
     THEN WithinQuota(n)
     ELSE ~Pinned(b, now) /\ blobs[b].size = n

\* A repeated stage keeps the size and the creation time of the row.
StagedRow(b, n) ==
  IF blobs[b] = NoRow
  THEN [state |-> "staged", size |-> n, created |-> now, due |-> now + Grace]
  ELSE [blobs[b] EXCEPT !.state = "staged", !.due = now + Grace]

\* Mutant: a repeated stage is charged again.
StageBytesAgain(b, n) == n

StageBytes(b, n) == IF blobs[b] = NoRow THEN n ELSE 0

-----------------------------------------------------------------------------
(* One mutation of the commit loop *)

Forced(m) == m.blob = NoBlob \/ m.keep

ForcedVersion(m) ==
  [entry |-> m.entry, rev |-> entries[m.entry].rev, blob |-> entries[m.entry].blob,
   reason |-> IF m.blob = NoBlob THEN "before_delete" ELSE "before_restore",
   bucket |-> NoBucket, captured |-> now, expires |-> now + policy.retention]

AutoVersion(m) ==
  [entry |-> m.entry, rev |-> m.base + 1, blob |-> m.blob, reason |-> "auto",
   bucket |-> now \div Bucket, captured |-> now, expires |-> now + policy.retention]

\* The unique index on (entry, reason, bucket) drops a second auto version of a
\* bucket; forced versions have a NULL bucket, which never conflicts.
BucketTaken(m) ==
  \E v \in history: /\ v.entry = m.entry
                    /\ v.reason = "auto"
                    /\ v.bucket = now \div Bucket

CapturedVersions(m) ==
  IF Forced(m)
  THEN IF entries[m.entry].rev > 0 THEN {ForcedVersion(m)} ELSE {}
  ELSE IF m.base > 0 /\ ~BucketTaken(m) THEN {AutoVersion(m)} ELSE {}

\* Mutant: a delete keeps the revision.
MutatedUnlessDelete(m, seq) ==
  [entries EXCEPT ![m.entry] =
     [rev |-> IF m.blob = NoBlob THEN @.rev ELSE @.rev + 1, blob |-> m.blob,
      seq |-> seq, mut |-> m.id]]

\* Mutant: every mutation of a batch gets the cursor the batch began with.
MutatedAtCursor(m, seq) ==
  [entries EXCEPT ![m.entry] =
     [rev |-> @.rev + 1, blob |-> m.blob, seq |-> cursor + 1, mut |-> m.id]]

Mutated(m, seq) ==
  [entries EXCEPT ![m.entry] =
     [rev |-> @.rev + 1, blob |-> m.blob, seq |-> seq, mut |-> m.id]]

\* Mutant: the blob that is replaced stays live.
RelinkedNew(m) ==
  [b \in Blob |-> IF blobs[b] # NoRow /\ b = m.blob
                  THEN [blobs[b] EXCEPT !.state = "live", !.due = Never]
                  ELSE blobs[b]]

\* Mutant: the blob that is replaced is retired even if another entry has it.
RelinkedAlone(m) ==
  [b \in Blob |->
     IF blobs[b] = NoRow THEN NoRow
     ELSE IF b = m.blob THEN [blobs[b] EXCEPT !.state = "live", !.due = Never]
     ELSE IF b = entries[m.entry].blob
          THEN [blobs[b] EXCEPT !.state = "pending_delete", !.due = now]
     ELSE blobs[b]]

\* The new blob becomes live; the blob it replaces is retired as soon as no
\* entry refers to it, even while history still pins it.
Relinked(m) ==
  LET old == entries[m.entry].blob
      orphaned(b) == \A e \in Entry \ {m.entry}: entries[e].blob # b
  IN [b \in Blob |->
        IF blobs[b] = NoRow THEN NoRow
        ELSE IF b = m.blob THEN [blobs[b] EXCEPT !.state = "live", !.due = Never]
        ELSE IF b = old /\ orphaned(b)
             THEN [blobs[b] EXCEPT !.state = "pending_delete", !.due = now]
        ELSE blobs[b]]

-----------------------------------------------------------------------------
(* Purging *)

\* listDeletedEntries and decideDeletedEntryPurge: a deleted entry with a
\* version that could still be restored.
Purgeable(e) ==
  /\ entries[e].rev > 0
  /\ entries[e].blob = NoBlob
  /\ \E v \in history: v.entry = e /\ v.blob # NoBlob /\ Restorable(v)

\* markUnpinnedBlobPendingDelete of a set of blobs, against the versions kept.
Unpinned(S, kept) ==
  {b \in S: /\ blobs[b] # NoRow
            /\ blobs[b].state # "staged"
            /\ ~Current(b)
            /\ \A v \in kept: ~(v.blob = b /\ v.expires > now)}

Retired(S) ==
  [b \in Blob |->
     IF b \in S
     THEN [blobs[b] EXCEPT !.state = "pending_delete",
             !.due = IF @ = Never \/ @ > now THEN now ELSE @]
     ELSE blobs[b]]
=============================================================================
