------------------- MODULE SerializedCoordinator_proofs -------------------
(***************************************************************************)
(* What the vault lock buys: with it no entry and no unexpired version     *)
(* ever loses its object.  A handler may wait for the bucket between the   *)
(* moment it looks at the references and the moment it acts on them; the   *)
(* invariant says what it may rely on when it resumes.                     *)
(***************************************************************************)
EXTENDS SyncCoordinator_proofs

\* Only the holder of the lock is inside a handler.
HolderOnly == \A p \in Process: pc[p] \in InHandler => lock = p

PinnedStored == \A b \in Blob: Pinned(b, now) => b \in objects

\* A commit knows of every blob of its mutations that it is missing, unless
\* it still has to ask.
Asked ==
  \A s \in Session: pc[s] = "checking" => Uploads(msg[s]) \subseteq batch[s] \cup gone[s] \cup objects

Answered ==
  \A s \in Session: pc[s] = "committing" => Uploads(msg[s]) \subseteq gone[s] \cup objects

\* What collection, or a repair, is about to erase is still not needed.
Condemned == \A p \in Process: pc[p] = "deleting" => \A b \in batch[p]: ~Pinned(b, now)

Erased == \A r \in Repairer: pc[r] = "erasing" => \A b \in gone[r]: ~Pinned(b, now)

SafeInv == HolderOnly /\ PinnedStored /\ Asked /\ Answered /\ Condemned /\ Erased

Proved == TypeOK /\ LiveIffCurrent /\ RetainedNeverStaged /\ StartedInThePast

-----------------------------------------------------------------------------
(* The lock *)

LEMMA LockIsTaken ==
  ASSUME Serialized, NEW p, NEW label, Await(p, label)
  PROVE  lock' = p /\ pc' = [pc EXCEPT ![p] = label]
PROOF BY Zenon DEF Await

LEMMA LockIsFree ==
  ASSUME Serialized, NEW p, Enter(p)
  PROVE  lock = Free /\ pc[p] = "idle"
PROOF BY Zenon DEF Enter

LEMMA UnlockedIsFree ==
  ASSUME Serialized, Unlocked
  PROVE  lock = Free
PROOF BY Zenon DEF Unlocked

\* References only fade when no mutation is applied.
LEMMA PinnedFades ==
  ASSUME TypeOK, TypeOK', UNCHANGED entries, history' \subseteq history, now' >= now,
         NEW b \in Blob, Pinned(b, now)'
  PROVE  Pinned(b, now)
<1>1. now \in Nat /\ now' \in Nat /\ \A v \in history: v.expires \in Nat
  BY DEF TypeOK, TablesOK, Version
<1>2. CASE Current(b)'
  BY <1>2 DEF Pinned, Current
<1>3. CASE Retained(b, now)'
  <2>1. PICK v \in history': v.blob = b /\ v.expires > now'
    BY <1>3 DEF Retained
  <2>2. v \in history /\ v.expires > now
    BY <1>1, <2>1
  <2> QED
    BY <2>1, <2>2 DEF Pinned, Retained
<1> QED
  BY <1>2, <1>3 DEF Pinned

\* A step that erases only what nobody needs keeps what is needed.
LEMMA StoredStays ==
  ASSUME TypeOK, TypeOK', PinnedStored, UNCHANGED entries, history' \subseteq history,
         now' >= now, \A b \in objects: b \in objects' \/ ~Pinned(b, now)
  PROVE  PinnedStored'
<1> SUFFICES ASSUME NEW b \in Blob, Pinned(b, now)' PROVE b \in objects'
  BY DEF PinnedStored
<1>1. Pinned(b, now)
  BY PinnedFades
<1> QED
  BY <1>1 DEF PinnedStored

\* A step of a process that holds the lock, or takes or leaves it free, has to
\* answer for that process only.
LEMMA OneInside ==
  ASSUME Serialized, TypeOK, SafeInv,
         NEW p \in Process, lock \in {Free, p},
         \A q \in Process \ {p}: pc'[q] = pc[q],
         pc'[p] \in InHandler => lock' = p,
         PinnedStored',
         p \in Session /\ pc'[p] = "checking" =>
           Uploads(msg'[p]) \subseteq batch'[p] \cup gone'[p] \cup objects',
         p \in Session /\ pc'[p] = "committing" => Uploads(msg'[p]) \subseteq gone'[p] \cup objects',
         pc'[p] = "deleting" => \A b \in batch'[p]: ~Pinned(b, now)',
         pc'[p] = "erasing" => \A b \in gone'[p]: ~Pinned(b, now)'
  PROVE  SafeInv'
<1>1. \A q \in Process \ {p}: pc'[q] \notin InHandler
  BY ProcessAssumption DEF SafeInv, HolderOnly, Process
<1>2. Session \subseteq Process /\ Repairer \subseteq Process
  BY Parameters
<1>3. {"checking", "committing", "deleting", "erasing"} \subseteq InHandler
  BY DEF InHandler
<1>4. HolderOnly'
  BY <1>1 DEF HolderOnly
<1>5. Asked'
  BY <1>1, <1>2, <1>3 DEF Asked
<1>6. Answered'
  BY <1>1, <1>2, <1>3 DEF Answered
<1>7. Condemned'
  BY <1>1, <1>3 DEF Condemned
<1>8. Erased'
  BY <1>1, <1>2, <1>3 DEF Erased
<1> QED
  BY <1>4, <1>5, <1>6, <1>7, <1>8 DEF SafeInv

\* A step outside the handlers only adds objects and lets time pass.
LEMMA NobodyInside ==
  ASSUME TypeOK, TypeOK', SafeInv,
         UNCHANGED <<entries, lock, msg, gone>>, history' = history, now' >= now,
         objects \subseteq objects',
         \A q \in Process: (pc'[q] = pc[q] /\ batch'[q] = batch[q]) \/ pc'[q] \notin InHandler
  PROVE  SafeInv'
<1>1. Session \subseteq Process /\ Repairer \subseteq Process
  BY Parameters
<1>2. {"checking", "committing", "deleting", "erasing"} \subseteq InHandler
  BY DEF InHandler
<1>3. \A b \in Blob: ~Pinned(b, now) => ~Pinned(b, now)'
  BY PinnedFades
<1>4. PinnedStored'
  BY StoredStays DEF SafeInv
<1>5. HolderOnly'
  BY DEF SafeInv, HolderOnly
<1>6. Asked'
  BY <1>1, <1>2 DEF SafeInv, Asked
<1>7. Answered'
  BY <1>1, <1>2 DEF SafeInv, Answered
<1>8. Condemned'
  BY <1>2, <1>3 DEF SafeInv, Condemned, TypeOK, HandlersOK
<1>9. Erased'
  BY <1>1, <1>2, <1>3 DEF SafeInv, Erased, TypeOK, HandlersOK
<1> QED
  BY <1>4, <1>5, <1>6, <1>7, <1>8, <1>9 DEF SafeInv

-----------------------------------------------------------------------------
(* The steps *)

LEMMA UploadSafe ==
  ASSUME Proved, TypeOK', SafeInv, Serialized, NEW s \in Session, Upload(s)
  PROVE  SafeInv'
<1> USE Parameters DEF Proved
<1>1. now \in Nat /\ pc \in [Process -> InHandler \cup {"idle", "uploading"}]
  BY DEF TypeOK, TablesOK, HandlersOK
<1>2. ASSUME NEW b \in Blob, NEW n \in ByteSize, StageBlob(s, b, n)
      PROVE  SafeInv'
  <2>1. lock = Free /\ pc[s] = "idle"
    BY <1>2, LockIsFree DEF StageBlob
  <2>2. UNCHANGED <<entries, history, objects, now, lock>>
    BY <1>2 DEF StageBlob
  <2>3. pc' = pc \/ pc' = [pc EXCEPT ![s] = "uploading"]
    <3>1. CASE StageFindsCorruption(b)
      BY <1>2, <3>1, Zenon DEF StageBlob
    <3>2. CASE ~StageFindsCorruption(b)
      BY <1>2, <3>2, Zenon DEF StageBlob
    <3> QED
      BY <3>1, <3>2
  <2>4. pc'[s] \in {"idle", "uploading"} /\ pc'[s] \notin InHandler
    BY <1>1, <2>1, <2>3 DEF InHandler
  <2>5. PinnedStored'
    BY <1>1, <2>2, StoredStays DEF SafeInv
  <2> QED
    BY <1>1, <2>1, <2>3, <2>4, <2>5, OneInside
<1>3. ASSUME NEW b \in Blob, PutObject(s, b) \/ AbortUpload(s, b)
      PROVE  SafeInv'
  <2>1. /\ UNCHANGED <<entries, history, lock, msg, gone, now>> /\ objects \subseteq objects'
        /\ pc' = [pc EXCEPT ![s] = "idle"] /\ batch' = [batch EXCEPT ![s] = {}]
    BY <1>3 DEF PutObject, AbortUpload
  <2>2. \A q \in Process: (pc'[q] = pc[q] /\ batch'[q] = batch[q]) \/ pc'[q] \notin InHandler
    BY <1>1, <2>1 DEF TypeOK, HandlersOK, InHandler
  <2> QED
    BY <1>1, <2>1, <2>2, NobodyInside
<1> QED
  BY <1>2, <1>3 DEF Upload

LEMMA StartChecksSafe ==
  ASSUME Proved, TypeOK', SafeInv, Serialized, NEW s \in Session, NEW ms,
         Enter(s), StartChecks(s, ms), UNCHANGED store
  PROVE  SafeInv'
<1>1. lock = Free /\ lock' = s /\ pc' = [pc EXCEPT ![s] = "checking"]
  BY LockIsFree, LockIsTaken DEF StartChecks
<1>2. /\ pc \in [Process -> InHandler \cup {"idle", "uploading"}] /\ s \in Process
      /\ msg \in [Session -> Seq(Mutation)] /\ batch \in [Process -> SUBSET Blob] /\ now \in Nat
  BY Parameters DEF Proved, TypeOK, TablesOK, HandlersOK
<1>3. msg'[s] = ms /\ batch'[s] = Uploads(ms)
  BY <1>2 DEF StartChecks
<1>4. PinnedStored'
  BY <1>2, StoredStays DEF SafeInv, store, Proved
<1> QED
  BY <1>1, <1>2, <1>3, <1>4, OneInside DEF Proved

\* Applying a mutation makes nothing needed but the blob it names, which was
\* found, and blobs that were needed before.
LEMMA ApplySafe ==
  ASSUME Proved, TypeOK', SafeInv, Serialized, NEW s \in Session, ApplyMutation(s)
  PROVE  SafeInv'
<1> DEFINE m == msg[s][step]
<1>1. /\ pc[s] = "committing" /\ m \in Mutation /\ m \in Range(msg[s])
      /\ m.blob # NoBlob => m.blob \notin gone[s]
      /\ entries' = Mutated(m, next + 1)
      /\ history' = history \cup CapturedVersions(m)
      /\ UNCHANGED <<objects, now, lock, pc, msg, batch, gone>>
  BY DEF ApplyMutation, Applies, Committing, Proved, TypeOK, HandlersOK, Range
<1>2. s \in Process /\ lock = s
  BY <1>1, Parameters DEF SafeInv, HolderOnly, InHandler
<1>3. Uploads(msg[s]) \subseteq gone[s] \cup objects
  BY <1>1 DEF SafeInv, Answered
<1>4. m.blob # NoBlob => m.blob \in objects
  BY <1>1, <1>3 DEF Uploads
<1>5. PinnedStored'
  <2> SUFFICES ASSUME NEW b \in Blob, Pinned(b, now)', ~Pinned(b, now), b # m.blob
               PROVE  FALSE
    BY <1>1, <1>4, SentinelAssumption DEF SafeInv, PinnedStored
  <2>1. CASE Current(b)'
    <3>1. \A e \in Entry: entries'[e].blob = IF e = m.entry THEN m.blob ELSE entries[e].blob
      BY <1>1 DEF Mutated, Mutation, Proved, TypeOK, TablesOK, EntryRow
    <3> QED
      BY <2>1, <3>1 DEF Current, Pinned
  <2>2. CASE Retained(b, now)'
    <3>1. PICK v \in history': v.blob = b /\ v.expires > now
      BY <1>1, <2>2 DEF Retained
    <3>2. v \in CapturedVersions(m)
      BY <1>1, <3>1 DEF Pinned, Retained
    <3> QED
      BY <1>1, <3>1, <3>2, CapturedBlob, SentinelAssumption DEF Pinned, Proved
  <2> QED
    BY <2>1, <2>2 DEF Pinned
<1> QED
  BY <1>1, <1>2, <1>3, <1>5, OneInside DEF Proved, InHandler

LEMMA CommitSafe ==
  ASSUME Proved, TypeOK', SafeInv, Serialized, NEW s \in Session, Commit(s)
  PROVE  SafeInv'
<1>1. /\ pc \in [Process -> InHandler \cup {"idle", "uploading"}] /\ s \in Process
      /\ msg \in [Session -> Seq(Mutation)] /\ batch \in [Process -> SUBSET Blob]
      /\ gone \in [Process -> SUBSET Blob] /\ now \in Nat
  BY Parameters DEF Proved, TypeOK, TablesOK, HandlersOK
<1>2. pc[s] \in InHandler => lock = s
  BY <1>1 DEF SafeInv, HolderOnly
<1>3. ASSUME ReceiveCommit(s) \/ RestoreVersions(s)
      PROVE  SafeInv'
  <2>1. /\ Enter(s) /\ UNCHANGED store
        /\ (\E ms: StartChecks(s, ms))
    BY <1>3 DEF ReceiveCommit, RestoreVersions
  <2> QED
    BY <2>1, StartChecksSafe
<1>4. ASSUME NEW b \in Blob, CheckObject(s, b)
      PROVE  SafeInv'
  <2>1. /\ pc[s] = "checking" /\ UNCHANGED <<store, lock, pc, msg>>
        /\ batch'[s] = batch[s] \ {b}
        /\ gone'[s] = IF b \in objects THEN gone[s] ELSE gone[s] \cup {b}
    BY <1>1, <1>4 DEF CheckObject, Resume
  <2>2. Uploads(msg'[s]) \subseteq batch'[s] \cup gone'[s] \cup objects'
    BY <2>1 DEF SafeInv, Asked, store
  <2>3. PinnedStored'
    BY <1>1, <2>1, StoredStays DEF SafeInv, store, Proved
  <2> QED
    BY <1>1, <1>2, <2>1, <2>2, <2>3, OneInside DEF Proved, InHandler
<1>5. ASSUME BeginCommit(s)
      PROVE  SafeInv'
  <2>1. pc[s] = "checking" /\ batch[s] = {} /\ UNCHANGED store
    BY <1>5 DEF BeginCommit, Resume
  <2>2. PinnedStored' /\ lock = s
    BY <1>1, <1>2, <2>1, StoredStays DEF SafeInv, store, Proved, InHandler
  <2>3. CASE WritesAllowed
    <3>1. pc' = [pc EXCEPT ![s] = "committing"] /\ UNCHANGED <<lock, msg, batch, gone>>
      BY <1>5, <2>3, Zenon DEF BeginCommit
    <3>2. Uploads(msg'[s]) \subseteq gone'[s] \cup objects'
      BY <2>1, <3>1 DEF SafeInv, Asked, store
    <3> QED
      BY <1>1, <2>2, <3>1, <3>2, OneInside DEF Proved
  <2>4. CASE ~WritesAllowed
    <3>1. pc' = [pc EXCEPT ![s] = "idle"]
      BY <1>5, <2>4, Zenon DEF BeginCommit, Finish
    <3> QED
      BY <1>1, <2>2, <3>1, OneInside DEF Proved, InHandler
  <2> QED
    BY <2>3, <2>4
<1>6. ASSUME SkipMutation(s)
      PROVE  SafeInv'
  <2>1. pc[s] = "committing" /\ UNCHANGED <<store, lock, pc, msg, batch, gone>>
    BY <1>6 DEF SkipMutation, Committing
  <2>2. PinnedStored' /\ Uploads(msg'[s]) \subseteq gone'[s] \cup objects'
    BY <1>1, <2>1, StoredStays DEF SafeInv, Answered, store, Proved
  <2> QED
    BY <1>1, <1>2, <2>1, <2>2, OneInside DEF Proved, InHandler
<1>7. ASSUME SaveCommit(s)
      PROVE  SafeInv'
  <2>1. /\ pc[s] = "committing" /\ pc' = [pc EXCEPT ![s] = "idle"]
        /\ UNCHANGED <<entries, history, objects, now>>
    BY <1>7 DEF SaveCommit, Finish
  <2>2. PinnedStored'
    BY <1>1, <2>1, StoredStays DEF SafeInv, Proved
  <2> QED
    BY <1>1, <1>2, <2>1, <2>2, OneInside DEF Proved, InHandler
<1> QED
  BY <1>3, <1>4, <1>5, <1>6, <1>7, ApplySafe DEF Commit

\* Collection picks what nothing refers to, seen from a time not after now.
LEMMA DeleteBatchSafe ==
  ASSUME Proved, TypeOK', SafeInv, Serialized, NEW p \in Process, NEW S, NEW t,
         DeleteBatch(p, S, t), lock \in {Free, p}, pc[p] \in InHandler,
         UNCHANGED <<entries, objects, now>>, history' \subseteq history,
         \A b \in S: b \in Blob /\ ~Pinned(b, now)
  PROVE  SafeInv'
<1>1. /\ pc \in [Process -> InHandler \cup {"idle", "uploading"}] /\ now \in Nat
      /\ batch \in [Process -> SUBSET Blob]
  BY DEF Proved, TypeOK, TablesOK, HandlersOK
<1>2. PinnedStored'
  BY <1>1, StoredStays DEF SafeInv, Proved
<1>3. CASE S = {}
  <2>1. pc' = [pc EXCEPT ![p] = "idle"]
    BY <1>3 DEF DeleteBatch, Finish
  <2> QED
    BY <1>1, <1>2, <2>1, OneInside DEF Proved, InHandler
<1>4. CASE S # {}
  <2>1. Await(p, "deleting") /\ batch' = [batch EXCEPT ![p] = S]
    BY <1>4 DEF DeleteBatch
  <2>2. lock' = p /\ pc' = [pc EXCEPT ![p] = "deleting"] /\ batch'[p] = S
    BY <1>1, <2>1, LockIsTaken
  <2>3. \A b \in S: ~Pinned(b, now)'
    BY <1>1, PinnedFades DEF Proved
  <2> QED
    BY <1>1, <1>2, <2>2, <2>3, OneInside DEF Proved
<1> QED
  BY <1>3, <1>4

LEMMA CollectSafe ==
  ASSUME Proved, TypeOK', SafeInv, Serialized, Collect
  PROVE  SafeInv'
<1>1. /\ pc \in [Process -> InHandler \cup {"idle", "uploading"}] /\ now \in Nat
      /\ at[Alarm] \in Nat /\ at[Alarm] <= now
  BY Parameters DEF Proved, TypeOK, TablesOK, HandlersOK, StartedInThePast
<1>2. CASE StartGc
  <2>1. lock = Free /\ lock' = Alarm /\ pc' = [pc EXCEPT ![Alarm] = "allowing"]
    BY <1>2, LockIsFree, LockIsTaken DEF StartGc
  <2>2. PinnedStored'
    BY <1>1, <1>2, StoredStays DEF StartGc, SafeInv, Proved, store
  <2> QED
    BY <1>1, <2>1, <2>2, OneInside, Parameters DEF Proved
<1>3. CASE ListCollectible
  <2>1. PICK S \in SUBSET {b \in Blob: Collectible(b, at[Alarm])}: DeleteBatch(Alarm, S, at[Alarm])
    BY <1>3 DEF ListCollectible, Batches
  <2>2. \A b \in S: b \in Blob /\ ~Pinned(b, now)
    <3> SUFFICES ASSUME NEW b \in S, Pinned(b, now) PROVE FALSE
      BY <2>1
    <3>1. ~Pinned(b, at[Alarm])
      BY <2>1 DEF Collectible
    <3> QED
      BY <1>1, <3>1 DEF Pinned, Retained, Proved, TypeOK, TablesOK, Version
  <2>3. pc[Alarm] = "allowing" /\ lock = Alarm
    BY <1>3, Parameters DEF ListCollectible, Resume, SafeInv, HolderOnly, InHandler
  <2>4. UNCHANGED <<entries, objects, now>> /\ history' \subseteq history
    BY <1>3 DEF ListCollectible, Unexpired
  <2> QED
    BY <2>1, <2>2, <2>3, <2>4, DeleteBatchSafe, Parameters DEF InHandler
<1> QED
  BY <1>2, <1>3 DEF Collect

LEMMA PurgeSafe ==
  ASSUME Proved, TypeOK', SafeInv, Serialized, NEW s \in Session, Purge(s)
  PROVE  SafeInv'
<1>1. /\ pc \in [Process -> InHandler \cup {"idle", "uploading"}] /\ now \in Nat
      /\ s \in Process /\ batch[s] \in SUBSET Blob
  BY Parameters DEF Proved, TypeOK, TablesOK, HandlersOK
<1>2. CASE PurgeEntries(s)
  <2>1. lock = Free /\ lock' = s /\ pc' = [pc EXCEPT ![s] = "purging"]
    BY <1>2, LockIsFree, LockIsTaken DEF PurgeEntries
  <2>2. UNCHANGED <<entries, objects, now>> /\ history' \subseteq history
    BY <1>2 DEF PurgeEntries
  <2>3. PinnedStored'
    BY <1>1, <2>2, StoredStays DEF SafeInv, Proved
  <2> QED
    BY <1>1, <2>1, <2>3, OneInside DEF Proved
<1>3. CASE CollectPurged(s)
  <2>1. PICK S \in SUBSET {b \in Blob: ~Pinned(b, now)}: DeleteBatch(s, S, now)
    BY <1>1, <1>3 DEF CollectPurged
  <2>2. pc[s] = "purging" /\ lock = s
    BY <1>1, <1>3 DEF CollectPurged, Resume, SafeInv, HolderOnly, InHandler
  <2>3. UNCHANGED <<entries, objects, now>> /\ history' \subseteq history
    BY <1>3 DEF CollectPurged, Unexpired
  <2> QED
    BY <1>1, <2>1, <2>2, <2>3, DeleteBatchSafe DEF InHandler
<1> QED
  BY <1>2, <1>3 DEF Purge

LEMMA DeleteSafe ==
  ASSUME Proved, TypeOK', SafeInv, Serialized, NEW p \in Session \cup {Alarm}, Delete(p)
  PROVE  SafeInv'
<1>1. /\ pc \in [Process -> InHandler \cup {"idle", "uploading"}] /\ now \in Nat
      /\ p \in Process /\ batch \in [Process -> SUBSET Blob]
  BY Parameters DEF Proved, TypeOK, TablesOK, HandlersOK
<1>2. pc[p] = "deleting" /\ lock = p
  BY <1>1 DEF Delete, DeleteObject, DeleteFails, DeleteRecords, Resume, SafeInv, HolderOnly,
    InHandler
<1>3. ASSUME NEW b \in Blob, DeleteObject(p, b) \/ DeleteFails(p, b)
      PROVE  SafeInv'
  <2>1. /\ UNCHANGED <<entries, history, now, lock, pc>> /\ b \in batch[p]
        /\ batch'[p] = batch[p] \ {b}
        /\ objects \ {b} \subseteq objects'
    BY <1>1, <1>3 DEF DeleteObject, DeleteFails
  <2>2. \A c \in batch[p]: c \in Blob /\ ~Pinned(c, now)
    BY <1>1, <1>2 DEF SafeInv, Condemned
  <2>3. PinnedStored'
    BY <1>1, <2>1, <2>2, StoredStays DEF SafeInv, Proved
  <2>4. \A c \in batch'[p]: ~Pinned(c, now)'
    BY <1>1, <2>1, <2>2, PinnedFades DEF Proved
  <2> QED
    BY <1>1, <1>2, <2>1, <2>3, <2>4, OneInside DEF Proved
<1>4. ASSUME DeleteRecords(p)
      PROVE  SafeInv'
  <2>1. UNCHANGED <<entries, history, objects, now>> /\ pc' = [pc EXCEPT ![p] = "idle"]
    BY <1>4 DEF DeleteRecords, Finish
  <2>2. PinnedStored'
    BY <1>1, <2>1, StoredStays DEF SafeInv, Proved
  <2> QED
    BY <1>1, <1>2, <2>1, <2>2, OneInside DEF Proved, InHandler
<1> QED
  BY <1>3, <1>4 DEF Delete

\* A needed blob has a row that is not staged or is pinned, so a repair drops
\* the row, and then the object, of blobs nobody needs.
LEMMA RepairSafe ==
  ASSUME Proved, TypeOK', SafeInv, Serialized, NEW r \in Repairer, Repair(r)
  PROVE  SafeInv'
<1>1. /\ pc \in [Process -> InHandler \cup {"idle", "uploading"}] /\ now \in Nat
      /\ r \in Process /\ gone \in [Process -> SUBSET Blob]
      /\ at[r] \in Nat /\ at[r] <= now
  BY Parameters DEF Proved, TypeOK, TablesOK, HandlersOK, StartedInThePast
<1>2. pc[r] \in InHandler => lock = r
  BY <1>1 DEF SafeInv, HolderOnly
<1>3. CASE StartRepair(r)
  <2>1. lock = Free /\ lock' = r /\ pc' = [pc EXCEPT ![r] = "repairing"]
    BY <1>3, LockIsFree, LockIsTaken DEF StartRepair
  <2>2. PinnedStored'
    BY <1>1, <1>3, StoredStays DEF StartRepair, SafeInv, Proved, store
  <2> QED
    BY <1>1, <2>1, <2>2, OneInside DEF Proved
<1>4. ASSUME NEW b \in Blob, RepairRow(r, b)
      PROVE  SafeInv'
  <2>1. pc[r] = "repairing" /\ lock = r /\ UNCHANGED <<entries, history, objects, now>>
    BY <1>2, <1>4 DEF RepairRow, InHandler
  <2>2. PinnedStored'
    BY <1>1, <2>1, StoredStays DEF SafeInv, Proved
  <2>3. CASE RepairKeeps(b, at[r])
    <3>1. UNCHANGED <<pc, lock>>
      BY <1>4, <2>3, Zenon DEF RepairRow
    <3> QED
      BY <1>1, <2>1, <2>2, <3>1, OneInside DEF Proved
  <2>4. CASE ~RepairKeeps(b, at[r])
    <3>1. gone' = [gone EXCEPT ![r] = {b}] /\ Await(r, "erasing")
      BY <1>4, <2>4, Zenon DEF RepairRow
    <3>2. lock' = r /\ pc' = [pc EXCEPT ![r] = "erasing"] /\ gone'[r] = {b}
      BY <1>1, <3>1, LockIsTaken
    <3>3. ~Pinned(b, now)
      <4>1. ~Current(b)
        BY <2>4 DEF RepairKeeps, Pinned, Proved, LiveIffCurrent
      <4>2. ~Retained(b, now)
        <5> SUFFICES ASSUME NEW v \in history, v.blob = b, v.expires > now PROVE FALSE
          BY DEF Retained
        <5>1. blobs[b] # NoRow /\ blobs[b].state # "staged"
          BY SentinelAssumption DEF Proved, RetainedNeverStaged
        <5> QED
          BY <2>4, <5>1 DEF RepairKeeps
      <4> QED
        BY <4>1, <4>2 DEF Pinned
    <3>4. ~Pinned(b, now)'
      BY <1>1, <2>1, <3>3, PinnedFades DEF Proved
    <3> QED
      BY <1>1, <2>1, <2>2, <3>2, <3>4, OneInside DEF Proved
  <2> QED
    BY <2>3, <2>4
<1>5. CASE EraseObject(r)
  <2>1. /\ pc[r] = "erasing" /\ UNCHANGED <<entries, history, now>>
        /\ objects \ gone[r] \subseteq objects' /\ Await(r, "repairing")
    BY <1>5 DEF EraseObject, Resume
  <2>2. lock = r /\ lock' = r /\ pc' = [pc EXCEPT ![r] = "repairing"]
    BY <1>2, <2>1, LockIsTaken DEF InHandler
  <2>3. \A b \in gone[r]: ~Pinned(b, now)
    BY <2>1 DEF SafeInv, Erased
  <2>4. PinnedStored'
    BY <1>1, <2>1, <2>3, StoredStays DEF SafeInv, Proved
  <2> QED
    BY <1>1, <2>2, <2>4, OneInside DEF Proved
<1>6. CASE FinishRepair(r)
  <2>1. /\ pc[r] = "repairing" /\ UNCHANGED <<entries, history, objects, now>>
        /\ pc' = [pc EXCEPT ![r] = "idle"]
    BY <1>6 DEF FinishRepair, Finish
  <2>2. PinnedStored'
    BY <1>1, <2>1, StoredStays DEF SafeInv, Proved
  <2> QED
    BY <1>1, <1>2, <2>1, <2>2, OneInside DEF Proved, InHandler
<1> QED
  BY <1>3, <1>4, <1>5, <1>6 DEF Repair

LEMMA AbandonSafe ==
  ASSUME Proved, TypeOK', SafeInv, Serialized, NEW p \in Process, Abandon(p)
  PROVE  SafeInv'
<1>1. pc \in [Process -> InHandler \cup {"idle", "uploading"}] /\ now \in Nat
  BY DEF Proved, TypeOK, TablesOK, HandlersOK
<1>2. /\ lock = p /\ pc' = [pc EXCEPT ![p] = "idle"]
      /\ UNCHANGED <<entries, history, objects, now>>
  BY DEF Abandon, Finish, store, SafeInv, HolderOnly
<1>3. PinnedStored'
  BY <1>1, <1>2, StoredStays DEF SafeInv, Proved
<1> QED
  BY <1>1, <1>2, <1>3, OneInside DEF Proved, InHandler

\* The operator, the limits and time touch no reference and no object.
LEMMA OutsideSafe ==
  ASSUME Proved, TypeOK', SafeInv,
         PauseSync \/ ResumeSync \/ ApplyPolicy \/ Tick \/ UNCHANGED vars
  PROVE  SafeInv'
<1>1. now \in Nat
  BY DEF Proved, TypeOK, TablesOK
<1>2. /\ UNCHANGED <<entries, history, objects, lock, msg, gone, pc, batch>>
      /\ now' \in {now, now + 1}
  BY DEF PauseSync, ResumeSync, ApplyPolicy, Tick, vars, store, handler
<1> QED
  BY <1>1, <1>2, NobodyInside DEF Proved

-----------------------------------------------------------------------------
(* With the lock, no object that is needed is ever erased *)

LEMMA SafeInvariant == ASSUME Serialized PROVE Spec => []SafeInv
<1>1. Init => SafeInv
  <2> SUFFICES ASSUME Init PROVE SafeInv
    OBVIOUS
  <2>1. \A p \in Process: pc[p] = "idle"
    BY DEF Init
  <2>2. \A b \in Blob: ~Pinned(b, now)
    BY SentinelAssumption DEF Init, Pinned, Current, Retained
  <2> QED
    BY <2>1, <2>2, Parameters DEF SafeInv, HolderOnly, PinnedStored, Asked, Answered,
      Condemned, Erased, InHandler
<1>2. Proved /\ TypeOK' /\ SafeInv /\ [Next]_vars => SafeInv'
  BY UploadSafe, CommitSafe, PurgeSafe, CollectSafe, DeleteSafe, RepairSafe, AbandonSafe,
    OutsideSafe
  DEF Next
<1>3. Spec => []Proved
  BY Typing, LiveRows, HistoryNeverStaged, Clock, PTL DEF Proved
<1>4. Proved => TypeOK
  BY DEF Proved
<1> QED
  BY <1>1, <1>2, <1>3, <1>4, PTL DEF Spec

\* Under the vault lock every entry's content can be downloaded, for any number
\* of uploads, commits, purges, collections and repairs, whatever fails.
THEOREM ReferencedObjects == ASSUME Serialized PROVE Spec => []ReferencedObjectsExist
<1>1. TypeOK /\ SafeInv => ReferencedObjectsExist
  BY DEF TypeOK, TablesOK, EntryRow, SafeInv, PinnedStored, Pinned, Current,
    ReferencedObjectsExist
<1> QED
  BY <1>1, Typing, SafeInvariant, PTL

\* Under the vault lock every unexpired version can be restored.
THEOREM RetainedObjects == ASSUME Serialized PROVE Spec => []RetainedObjectsExist
<1>1. TypeOK /\ SafeInv => RetainedObjectsExist
  BY DEF TypeOK, TablesOK, Version, SafeInv, PinnedStored, Pinned, Retained,
    RetainedObjectsExist
<1> QED
  BY <1>1, Typing, SafeInvariant, PTL

-----------------------------------------------------------------------------
(* Pauses *)

\* While an operator's repair is under way the operator's pause is not set.
RepairsUnpaused ==
  \A r \in Repairer: pc[r] \in {"repairing", "erasing"} => pause # ManualPause

LEMMA RepairsStayUnpaused ==
  ASSUME Serialized, TypeOK, HolderOnly, RepairsUnpaused, [Next]_vars
  PROVE  RepairsUnpaused'
<1> USE DEF RepairsUnpaused
<1> DEFINE Steady(p) == /\ UNCHANGED pause \/ pause' # ManualPause
                        /\ \A q \in Process \ {p}: pc'[q] = pc[q]
                        /\ pc'[p] = pc[p] \/ pc'[p] \notin {"repairing", "erasing"}
<1>0. /\ Session \subseteq Process /\ Repairer \subseteq Process /\ Alarm \in Process
      /\ pc \in [Process -> InHandler \cup {"idle", "uploading"}]
      /\ "repairing" \in InHandler /\ "erasing" \in InHandler
      /\ NoPause # ManualPause /\ StalePause # ManualPause
  BY Parameters DEF TypeOK, HandlersOK, InHandler, NoPause, ManualPause, StalePause
<1>a. ASSUME NEW p \in Process, Steady(p)
      PROVE  RepairsUnpaused'
  BY <1>0, <1>a
<1>1. ASSUME NEW s \in Session, NEW b \in Blob,
             \/ \E n \in ByteSize: StageBlob(s, b, n)
             \/ PutObject(s, b) \/ AbortUpload(s, b) \/ CheckObject(s, b)
      PROVE  RepairsUnpaused'
  <2>1. Steady(s)
    BY <1>0, <1>1 DEF StageBlob, PutObject, AbortUpload, CheckObject, store
  <2> QED
    BY <1>0, <1>a, <2>1
<1>2. ASSUME NEW s \in Session,
             \/ ReceiveCommit(s) \/ RestoreVersions(s) \/ BeginCommit(s) \/ SkipMutation(s)
             \/ ApplyMutation(s) \/ SaveCommit(s) \/ PurgeEntries(s) \/ CollectPurged(s)
      PROVE  RepairsUnpaused'
  <2>1. Steady(s)
    BY <1>0, <1>2 DEF ReceiveCommit, RestoreVersions, BeginCommit, SkipMutation, ApplyMutation,
         SaveCommit, PurgeEntries, CollectPurged, StartChecks, DeleteBatch, Await, Finish, store
  <2> QED
    BY <1>0, <1>a, <2>1
<1>3. ASSUME StartGc \/ ListCollectible
      PROVE  RepairsUnpaused'
  <2>1. Steady(Alarm)
    BY <1>0, <1>3 DEF StartGc, ListCollectible, DeleteBatch, Await, Finish, store
  <2> QED
    BY <1>0, <1>a, <2>1
<1>4. ASSUME NEW p \in Session \cup {Alarm},
             \/ \E b \in Blob: DeleteObject(p, b) \/ DeleteFails(p, b)
             \/ DeleteRecords(p)
      PROVE  RepairsUnpaused'
  <2>1. Steady(p)
    BY <1>0, <1>4 DEF DeleteObject, DeleteFails, DeleteRecords, Finish, store
  <2> QED
    BY <1>0, <1>a, <2>1
<1>5. ASSUME NEW r \in Repairer, StartRepair(r)
      PROVE  RepairsUnpaused'
  BY <1>0, <1>5 DEF StartRepair, MayRepair, store
<1>6. ASSUME NEW r \in Repairer,
             EraseObject(r) \/ FinishRepair(r) \/ \E b \in Blob: RepairRow(r, b)
      PROVE  RepairsUnpaused'
  <2>1. pause # ManualPause
    BY <1>0, <1>6 DEF EraseObject, FinishRepair, RepairRow, Resume
  <2>2. pause' # ManualPause
    BY <1>0, <1>6, <2>1 DEF EraseObject, FinishRepair, RepairRow
  <2> QED
    BY <2>2
<1>7. ASSUME NEW p \in Process, Abandon(p)
      PROVE  RepairsUnpaused'
  <2>1. Steady(p)
    BY <1>0, <1>7 DEF Abandon, Finish, store
  <2> QED
    BY <1>a, <2>1
<1>8. ASSUME PauseSync
      PROVE  RepairsUnpaused'
  <2>1. lock = Free /\ UNCHANGED pc
    BY <1>8, UnlockedIsFree DEF PauseSync, handler
  <2>2. \A p \in Process: pc[p] \notin InHandler
    BY <2>1, ProcessAssumption DEF HolderOnly, Process
  <2> QED
    BY <1>0, <2>1, <2>2
<1>9. ASSUME ResumeSync \/ ApplyPolicy \/ Tick \/ UNCHANGED vars
      PROVE  RepairsUnpaused'
  BY <1>0, <1>9 DEF ResumeSync, ApplyPolicy, Tick, vars, store, handler
<1> HIDE DEF RepairsUnpaused
<1> QED
  BY <1>1, <1>2, <1>3, <1>4, <1>5, <1>6, <1>7, <1>8, <1>9
  DEF Next, Upload, Commit, Purge, Collect, Delete, Repair

\* With the vault lock only a resume lifts the operator's pause: a repair
\* clears a pause on what it read before it waited for the bucket, and the
\* lock keeps the operator out meanwhile (vault-service.ts:133, 213-215).
THEOREM ManualPauseStays == ASSUME Serialized PROVE Spec => RepairKeepsManualPause
<1>1. Init => RepairsUnpaused
  BY Parameters DEF Init, RepairsUnpaused
<1>2. TypeOK /\ SafeInv /\ RepairsUnpaused /\ [Next]_vars => RepairsUnpaused'
  BY RepairsStayUnpaused DEF SafeInv
<1>3. RepairsUnpaused /\ [Next]_vars
        => [pause = ManualPause /\ pause' # ManualPause => ResumeSync]_vars
  <2> SUFFICES ASSUME RepairsUnpaused, Next, pause = ManualPause, pause' # ManualPause
               PROVE  ResumeSync
    BY DEF vars, store
  <2>0. ManualPause # NoPause
    BY DEF ManualPause, NoPause
  <2>1. ASSUME NEW s \in Session, NEW b \in Blob,
               \/ \E n \in ByteSize: StageBlob(s, b, n)
               \/ PutObject(s, b) \/ AbortUpload(s, b) \/ CheckObject(s, b)
        PROVE  FALSE
    BY <2>0, <2>1 DEF StageBlob, WritesAllowed, PutObject, AbortUpload, CheckObject, store
  <2>2. ASSUME NEW s \in Session,
               \/ ReceiveCommit(s) \/ RestoreVersions(s) \/ BeginCommit(s) \/ SkipMutation(s)
               \/ ApplyMutation(s) \/ SaveCommit(s) \/ PurgeEntries(s) \/ CollectPurged(s)
        PROVE  FALSE
    BY <2>2 DEF ReceiveCommit, RestoreVersions, BeginCommit, SkipMutation, ApplyMutation,
         SaveCommit, PurgeEntries, CollectPurged, store
  <2>3. ASSUME StartGc \/ ListCollectible
        PROVE  FALSE
    BY <2>3 DEF StartGc, ListCollectible, store
  <2>4. ASSUME NEW p \in Session \cup {Alarm},
               \/ \E b \in Blob: DeleteObject(p, b) \/ DeleteFails(p, b)
               \/ DeleteRecords(p)
        PROVE  FALSE
    BY <2>4 DEF DeleteObject, DeleteFails, DeleteRecords
  <2>5. ASSUME NEW r \in Repairer,
               \/ StartRepair(r) \/ EraseObject(r) \/ FinishRepair(r)
               \/ \E b \in Blob: RepairRow(r, b)
        PROVE  FALSE
    BY <2>5 DEF RepairsUnpaused, StartRepair, EraseObject, FinishRepair, RepairRow, store
  <2>6. ASSUME (\E p \in Process: Abandon(p)) \/ PauseSync \/ ApplyPolicy \/ Tick
        PROVE  FALSE
    BY <2>0, <2>6 DEF Abandon, PauseSync, ApplyPolicy, Tick, store
  <2> QED
    BY <2>1, <2>2, <2>3, <2>4, <2>5, <2>6
    DEF Next, Upload, Commit, Purge, Collect, Delete, Repair
<1>4. Spec => []SafeInv
  BY SafeInvariant
<1> QED
  BY <1>1, <1>2, <1>3, <1>4, Typing, PTL DEF Spec, RepairKeepsManualPause
=============================================================================
