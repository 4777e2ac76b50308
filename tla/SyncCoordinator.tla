--------------------------- MODULE SyncCoordinator ---------------------------
(***************************************************************************)
(* The per-vault coordinator as the processes that run in it: client       *)
(* requests (upload, commit, restore, purge), the maintenance alarm that   *)
(* collects blobs, and the operator's repair.                              *)
(*                                                                         *)
(* A handler is cut into one action per stretch of JavaScript between two  *)
(* awaits on something outside the coordinator's own storage (the blob     *)
(* bucket, the control-plane database).  A stretch that needs several      *)
(* actions, such as the loop of a commit transaction, holds "thread", so   *)
(* that nothing runs in between.                                           *)
(*                                                                         *)
(* Serialized = TRUE is the Node runtime, where VaultLockRegistry admits   *)
(* one handler at a time; FALSE is the Durable Object, where other events  *)
(* are delivered at such an await.                                         *)
(***************************************************************************)
EXTENDS CoordinatorStore

CONSTANTS
  Serialized,
  MaxTime,       \* bound on the clock
  MaxRev,        \* bound on the revision of an entry
  MaxBatch,      \* bound on the mutations of one commit
  GcBatchSize,   \* GC_BATCH_SIZE
  MaxRepair      \* MAX_REPAIRABLE_STALE_STAGED_BLOBS

ASSUME RuntimeAssumption == Serialized \in BOOLEAN

ASSUME BoundAssumption ==
  /\ {MaxTime, MaxRev, MaxBatch} \subseteq Nat
  /\ {GcBatchSize, MaxRepair} \subseteq Nat \ {0}

VARIABLES
  lock,    \* the process that holds the vault lock, or Free
  thread,  \* the process in the middle of a synchronous stretch, or Free
  pc,      \* what each process is waiting for
  at,      \* the time a process read when it started
  msg,     \* the mutations a session asked to commit
  step,    \* the mutation the running commit transaction looks at
  next,    \* the cursor that transaction has reached
  batch,   \* the blobs a process still has to ask the bucket about
  gone,    \* the blobs the bucket told it are missing, or were deleted
  repair,  \* what a repair saw: the pause it started from, and an issue
  log      \* history variable: the mutations applied, in cursor order

handler == <<lock, thread, pc, at, msg, step, next, batch, gone, repair>>
vars == <<store, handler, log>>

Process == Session \cup Repairer \cup {Alarm}

\* Waiting for the bucket or the control plane inside a handler.  An upload
\* streams to the bucket without the coordinator, so it holds no lock.
InHandler ==
  {"checking", "committing", "purging", "allowing", "deleting", "repairing", "erasing"}

HandlersOK ==
  /\ lock \in Process \cup {Free}
  /\ thread \in Process \cup {Free}
  /\ pc \in [Process -> InHandler \cup {"idle", "uploading"}]
  /\ at \in [Process -> Nat]
  /\ msg \in [Session -> Seq(Mutation)]
  /\ step \in Nat \ {0}
  /\ next \in Nat
  /\ batch \in [Process -> SUBSET Blob]
  /\ gone \in [Process -> SUBSET Blob]
  /\ repair \in [Repairer -> [pause: {NoPause, StalePause}, issue: BOOLEAN]]

TypeOK == TablesOK /\ HandlersOK /\ log \in Seq(Mutation)

LeftStaged == {[state |-> "staged", size |-> n, created |-> 0, due |-> Grace] : n \in ByteSize}

\* A new vault, or one an earlier build of the coordinator left paused over
\* uploads it never collected.
Init ==
  /\ pause \in {NoPause, StalePause}
  /\ blobs \in [Blob -> {NoRow} \cup (IF pause = NoPause THEN {} ELSE LeftStaged)]
  /\ objects \in SUBSET {b \in Blob: blobs[b] # NoRow}
  /\ used = RowBytes(Blob)
  /\ entries = [e \in Entry |-> [rev |-> 0, blob |-> NoBlob, seq |-> 0, mut |-> NoMutation]]
  /\ history = {}
  /\ cursor = 0
  /\ policy \in Policy
  /\ now = 0
  /\ lock = Free
  /\ thread = Free
  /\ pc = [p \in Process |-> "idle"]
  /\ at = [p \in Process |-> 0]
  /\ msg = [s \in Session |-> <<>>]
  /\ step = 1
  /\ next = 0
  /\ batch = [p \in Process |-> {}]
  /\ gone = [p \in Process |-> {}]
  /\ repair = [r \in Repairer |-> [pause |-> NoPause, issue |-> FALSE]]
  /\ log = <<>>

-----------------------------------------------------------------------------
(* Entering, resuming and leaving a handler *)

Enter(p) ==
  /\ pc[p] = "idle"
  /\ thread = Free
  /\ Serialized => lock = Free

\* A request that comes and goes without an await.
Unlocked ==
  /\ thread = Free
  /\ Serialized => lock = Free

Resume(p, label) ==
  /\ pc[p] = label
  /\ thread = Free

Await(p, label) ==
  /\ pc' = [pc EXCEPT ![p] = label]
  /\ lock' = IF Serialized THEN p ELSE Free

\* The handler returns; what it held in local variables is gone.
Finish(p) ==
  /\ pc' = [pc EXCEPT ![p] = "idle"]
  /\ lock' = Free
  /\ at' = [at EXCEPT ![p] = 0]
  /\ batch' = [batch EXCEPT ![p] = {}]
  /\ gone' = [gone EXCEPT ![p] = {}]

\* Mutant: nobody asks whether the vault is paused.
WritesAlways == TRUE

WritesAllowed == pause = NoPause

-----------------------------------------------------------------------------
(* Uploading: stage through the coordinator, then stream to the bucket *)

StageBlob(s, b, n) ==
  /\ Enter(s)
  /\ WritesAllowed
  /\ IF StageFindsCorruption(b)
     THEN /\ pause' = StalePause
          /\ UNCHANGED <<blobs, used, pc, batch>>
     ELSE /\ StageAccepted(b, n)
          /\ blobs' = [blobs EXCEPT ![b] = StagedRow(b, n)]
          /\ used' = Adjusted(StageBytes(b, n))
          /\ pc' = [pc EXCEPT ![s] = "uploading"]
          /\ batch' = [batch EXCEPT ![s] = {b}]
          /\ UNCHANGED pause
  /\ UNCHANGED <<entries, history, objects, cursor, policy, now, lock, thread, at, msg,
                 step, next, gone, repair, log>>

\* The bucket stores an object whole or not at all.
PutObject(s, b) ==
  /\ Resume(s, "uploading") /\ b \in batch[s]
  /\ objects' = objects \cup {b}
  /\ pc' = [pc EXCEPT ![s] = "idle"]
  /\ batch' = [batch EXCEPT ![s] = {}]
  /\ UNCHANGED <<entries, history, blobs, cursor, used, policy, pause, now, lock, thread,
                 at, msg, step, next, gone, repair, log>>

\* The upload fails, is cut short, or its acknowledgement is lost.  The abort
\* that follows leaves the row, its bytes and its deadline to collection.
AbortUpload(s, b) ==
  /\ Resume(s, "uploading") /\ b \in batch[s]
  /\ objects' \in {objects, objects \cup {b}}
  /\ pc' = [pc EXCEPT ![s] = "idle"]
  /\ batch' = [batch EXCEPT ![s] = {}]
  /\ UNCHANGED <<entries, history, blobs, cursor, used, policy, pause, now, lock, thread,
                 at, msg, step, next, gone, repair, log>>

-----------------------------------------------------------------------------
(* Committing: ask the bucket for every blob, then one transaction *)

\* A client gives an id to one mutation only, and may send it again.
Sent == Range(log) \cup UNION {Range(msg[s]) : s \in Session}

Fresh(m) == \A other \in Sent: other.id = m.id => other = m

Uploads(ms) == {m.blob : m \in Range(ms)} \ {NoBlob}

ClientMutation ==
  {m \in [id: MutationId, entry: Entry, base: 0 .. MaxRev - 1, 
          blob: Blob \cup {NoBlob}, keep: {FALSE}]:
     m.base <= entries[m.entry].rev}

StartChecks(s, ms) ==
  /\ msg' = [msg EXCEPT ![s] = ms]
  /\ batch' = [batch EXCEPT ![s] = Uploads(ms)]
  /\ gone' = [gone EXCEPT ![s] = {}]
  /\ Await(s, "checking")

ReceiveCommit(s) ==
  /\ Enter(s)
  /\ \E n \in 1 .. MaxBatch: \E ms \in [1 .. n -> {m \in ClientMutation: Fresh(m)}]:
       /\ \A i, j \in 1 .. n: ms[i].id = ms[j].id => ms[i] = ms[j]
       /\ StartChecks(s, ms)
  /\ UNCHANGED <<store, thread, at, step, next, repair, log>>

RestoreMutation(s, i, v) ==
  [id |-> <<s, i, v.entry, entries[v.entry].rev>>, entry |-> v.entry,
   base |-> entries[v.entry].rev, blob |-> v.blob, keep |-> TRUE]

\* The rows are read before the commit; its transaction checks the revisions again.
RestoreVersions(s) ==
  /\ Enter(s)
  /\ \E n \in 1 .. MaxBatch:
       \E vs \in [1 .. n -> {v \in history: Restorable(v) /\ entries[v.entry].rev < MaxRev}]:
         StartChecks(s, [i \in 1 .. n |-> RestoreMutation(s, i, vs[i])])
  /\ UNCHANGED <<store, thread, at, step, next, repair, log>>

\* One answer of the concurrent HEAD requests.
CheckObject(s, b) ==
  /\ Resume(s, "checking") /\ b \in batch[s]
  /\ batch' = [batch EXCEPT ![s] = @ \ {b}]
  /\ gone' = [gone EXCEPT ![s] = IF b \in objects THEN @ ELSE @ \cup {b}]
  /\ UNCHANGED <<store, lock, thread, pc, at, msg, step, next, repair, log>>

BeginCommit(s) ==
  /\ Resume(s, "checking") /\ batch[s] = {}
  /\ IF WritesAllowed
     THEN /\ pc' = [pc EXCEPT ![s] = "committing"]
          /\ thread' = s
          /\ step' = 1
          /\ next' = cursor
          /\ UNCHANGED <<lock, at, msg, batch, gone>>
     ELSE /\ Finish(s)
          /\ msg' = [msg EXCEPT ![s] = <<>>]
          /\ UNCHANGED <<thread, step, next>>
  /\ UNCHANGED <<store, repair, log>>

Committing(s) == thread = s /\ pc[s] = "committing" /\ step <= Len(msg[s])

DuplicateInBatch(s) == \E i \in 1 .. step - 1: msg[s][i].id = msg[s][step].id

\* Mutant: the missing objects are forgotten inside the transaction.
AppliesUnchecked(s) ==
  LET m == msg[s][step]
  IN /\ ~DuplicateInBatch(s)
     /\ entries[m.entry].mut # m.id
     /\ entries[m.entry].rev = m.base
     /\ m.blob # NoBlob => blobs[m.blob] # NoRow

\* Mutant: the last writer wins.
AppliesUnbased(s) ==
  LET m == msg[s][step]
  IN /\ ~DuplicateInBatch(s)
     /\ entries[m.entry].mut # m.id
     /\ m.blob # NoBlob => m.blob \notin gone[s] /\ blobs[m.blob] # NoRow

\* The outcome decideEntryMutation and the blob checks leave for applying.
Applies(s) ==
  LET m == msg[s][step]
  IN /\ ~DuplicateInBatch(s)
     /\ entries[m.entry].mut # m.id
     /\ entries[m.entry].rev = m.base
     /\ m.blob # NoBlob => m.blob \notin gone[s] /\ blobs[m.blob] # NoRow

\* Duplicate, replayed, stale, or without a staged blob: nothing changes.
SkipMutation(s) ==
  /\ Committing(s) /\ ~Applies(s)
  /\ step' = step + 1
  /\ UNCHANGED <<store, lock, thread, pc, at, msg, next, batch, gone, repair, log>>

ApplyMutation(s) ==
  LET m == msg[s][step]
  IN /\ Committing(s) /\ Applies(s)
     /\ history' = history \cup CapturedVersions(m)
     /\ entries' = Mutated(m, next + 1)
     /\ blobs' = Relinked(m)
     /\ next' = next + 1
     /\ log' = Append(log, m)
     /\ step' = step + 1
     /\ UNCHANGED <<objects, cursor, used, policy, pause, now, lock, thread, pc, at, msg,
                    batch, gone, repair>>

SaveCommit(s) ==
  /\ thread = s /\ pc[s] = "committing" /\ step > Len(msg[s])
  /\ cursor' = next
  /\ thread' = Free
  /\ Finish(s)
  /\ msg' = [msg EXCEPT ![s] = <<>>]
  /\ step' = 1
  /\ UNCHANGED <<entries, history, blobs, objects, used, policy, pause, now, next, repair,
                 log>>

-----------------------------------------------------------------------------
(* Collecting blobs *)

\* Deleting the records of the objects the bucket confirmed; the transaction
\* checks again that each one may go.
DeletedRows(p) == {b \in gone[p]: Collectible(b, at[p])}

Batches(S) == {B \in SUBSET S: Cardinality(B) = Min({GcBatchSize, Cardinality(S)})}

\* Either there is nothing to delete, or the bucket is asked to delete.
DeleteBatch(p, S, t) ==
  IF S = {}
  THEN Finish(p)
  ELSE /\ Await(p, "deleting")
       /\ at' = [at EXCEPT ![p] = t]
       /\ batch' = [batch EXCEPT ![p] = S]
       /\ UNCHANGED gone

\* The alarm reads the clock once, then asks whether this vault may be collected.
StartGc ==
  /\ Enter(Alarm)
  /\ at' = [at EXCEPT ![Alarm] = now]
  /\ Await(Alarm, "allowing")
  /\ UNCHANGED <<store, thread, msg, step, next, batch, gone, repair, log>>

ListCollectible ==
  /\ Resume(Alarm, "allowing")
  /\ history' = Unexpired(at[Alarm])
  /\ \E S \in Batches({b \in Blob: Collectible(b, at[Alarm])}): DeleteBatch(Alarm, S, at[Alarm])
  /\ UNCHANGED <<entries, blobs, objects, cursor, used, policy, pause, now, thread, msg,
                 step, next, repair, log>>

\* purgeDeletedEntries: each entry in a transaction, with no await in between.
PurgeEntries(s) ==
  /\ Enter(s)
  /\ WritesAllowed
  /\ \E E \in SUBSET {e \in Entry: Purgeable(e)}:
       LET versions == {v \in history: v.entry \in E}
       IN /\ E # {}
          /\ history' = history \ versions
          /\ batch' = [batch EXCEPT ![s] = {v.blob : v \in versions} \ {NoBlob}]
  /\ Await(s, "purging")
  /\ UNCHANGED <<entries, blobs, objects, cursor, used, policy, pause, now, thread, at,
                 msg, step, next, gone, repair, log>>

\* collectPurgedBlobs, once the control plane allowed it.
CollectPurged(s) ==
  LET retired == Retired(Unpinned(batch[s], Unexpired(now)))
      due(b) == /\ retired[b] # NoRow
                /\ retired[b].state \in {"staged", "pending_delete"}
                /\ retired[b].due # Never /\ retired[b].due <= now
                /\ ~Pinned(b, now)
  IN /\ Resume(s, "purging")
     /\ history' = Unexpired(now)
     /\ blobs' = retired
     /\ DeleteBatch(s, {b \in batch[s]: due(b)}, now)
     /\ UNCHANGED <<entries, objects, cursor, used, policy, pause, now, thread, msg, step,
                    next, repair, log>>

DeleteObject(p, b) ==
  /\ Resume(p, "deleting") /\ b \in batch[p]
  /\ objects' = objects \ {b}
  /\ batch' = [batch EXCEPT ![p] = @ \ {b}]
  /\ gone' = [gone EXCEPT ![p] = @ \cup {b}]
  /\ UNCHANGED <<entries, history, blobs, cursor, used, policy, pause, now, lock, thread,
                 pc, at, msg, step, next, repair, log>>

\* A key the bucket reports as failed may be deleted all the same.
DeleteFails(p, b) ==
  /\ Resume(p, "deleting") /\ b \in batch[p]
  /\ objects' \in {objects, objects \ {b}}
  /\ batch' = [batch EXCEPT ![p] = @ \ {b}]
  /\ UNCHANGED <<entries, history, blobs, cursor, used, policy, pause, now, lock, thread,
                 pc, at, msg, step, next, gone, repair, log>>

DeleteRecords(p) ==
  /\ Resume(p, "deleting") /\ batch[p] = {}
  /\ blobs' = [b \in Blob |-> IF b \in DeletedRows(p) THEN NoRow ELSE blobs[b]]
  /\ used' = Adjusted(-RowBytes(DeletedRows(p)))
  /\ Finish(p)
  /\ UNCHANGED <<entries, history, objects, cursor, policy, pause, now, thread, msg, step,
                 next, repair, log>>

-----------------------------------------------------------------------------
(* Repairing: drop the row of each stale staged blob, then its object *)

\* Mutant: a repair starts from any pause.
MayAlwaysRepair == TRUE

MayRepair == pause # ManualPause

StartRepair(r) ==
  /\ Enter(r)
  /\ MayRepair
  /\ Cardinality(StaleStaged(now)) <= MaxRepair
  /\ at' = [at EXCEPT ![r] = now]
  /\ batch' = [batch EXCEPT ![r] = StaleStaged(now)]
  /\ repair' = [repair EXCEPT ![r] = [pause |-> pause, issue |-> FALSE]]
  /\ Await(r, "repairing")
  /\ thread' = r
  /\ UNCHANGED <<store, msg, step, next, gone, log>>

\* deleteUnreferencedStagedBlob: a row that is no longer staged, or is pinned,
\* is reported and kept; a row that is gone has its object erased again.
RepairKeeps(b, t) == blobs[b] # NoRow /\ (blobs[b].state # "staged" \/ Pinned(b, t))

RepairRow(r, b) ==
  /\ thread = r /\ pc[r] = "repairing" /\ b \in batch[r]
  /\ batch' = [batch EXCEPT ![r] = @ \ {b}]
  /\ IF RepairKeeps(b, at[r])
     THEN /\ repair' = [repair EXCEPT ![r].issue = TRUE]
          /\ UNCHANGED <<blobs, used, gone, pc, lock, thread>>
     ELSE /\ used' = Adjusted(-RowBytes({b}))
          /\ blobs' = [blobs EXCEPT ![b] = NoRow]
          /\ gone' = [gone EXCEPT ![r] = {b}]
          /\ Await(r, "erasing")
          /\ thread' = Free
          /\ UNCHANGED repair
  /\ UNCHANGED <<entries, history, objects, cursor, policy, pause, now, at, msg, step,
                 next, log>>

EraseObject(r) ==
  /\ Resume(r, "erasing")
  /\ \/ objects' = objects \ gone[r] /\ UNCHANGED repair
     \/ /\ objects' \in {objects, objects \ gone[r]}
        /\ repair' = [repair EXCEPT ![r].issue = TRUE]
  /\ Await(r, "repairing")
  /\ gone' = [gone EXCEPT ![r] = {}]
  /\ thread' = r
  /\ UNCHANGED <<entries, history, blobs, cursor, used, policy, pause, now, at, msg, step,
                 next, batch, log>>

\* The pause is cleared on the word of the snapshot the repair started from.
RepairClears(r) ==
  /\ repair[r].pause # NoPause
  /\ ~repair[r].issue
  /\ StaleStaged(at[r]) = {}

FinishRepair(r) ==
  /\ thread = r /\ pc[r] = "repairing" /\ batch[r] = {}
  /\ pause' = IF RepairClears(r) THEN NoPause ELSE pause
  /\ thread' = Free
  /\ Finish(r)
  /\ repair' = [repair EXCEPT ![r] = [pause |-> NoPause, issue |-> FALSE]]
  /\ UNCHANGED <<entries, history, blobs, objects, cursor, used, policy, now, msg, step,
                 next, log>>

-----------------------------------------------------------------------------
(* The operator's pause, the limits, failures and time *)

\* pauseSync keeps an earlier pause; a repair pause refuses both.
PauseSync ==
  /\ Unlocked /\ pause = NoPause
  /\ pause' = ManualPause
  /\ UNCHANGED <<entries, history, blobs, objects, cursor, used, policy, now, handler, log>>

ResumeSync ==
  /\ Unlocked /\ pause = ManualPause
  /\ pause' = NoPause
  /\ UNCHANGED <<entries, history, blobs, objects, cursor, used, policy, now, handler, log>>

ApplyPolicy ==
  /\ Unlocked
  /\ policy' \in Policy \ {policy}
  /\ UNCHANGED <<entries, history, blobs, objects, cursor, used, pause, now, handler, log>>

\* A handler dies at an await: a call it waited for failed, the control plane
\* refused, or the process crashed.  What it had persisted stays.
Abandon(p) ==
  /\ pc[p] \in InHandler \ {"committing", "repairing"}
  /\ thread = Free
  /\ Finish(p)
  /\ msg' = [s \in Session |-> IF s = p THEN <<>> ELSE msg[s]]
  /\ repair' = [r \in Repairer |-> IF r = p THEN [pause |-> NoPause, issue |-> FALSE]
                                   ELSE repair[r]]
  /\ UNCHANGED <<store, thread, step, next, log>>

Tick ==
  /\ thread = Free
  /\ now < MaxTime
  /\ now' = now + 1
  /\ UNCHANGED <<entries, history, blobs, objects, cursor, used, policy, pause, handler, log>>

-----------------------------------------------------------------------------

Upload(s) ==
  \E b \in Blob:
    \/ \E n \in ByteSize: StageBlob(s, b, n)
    \/ PutObject(s, b)
    \/ AbortUpload(s, b)

Commit(s) ==
  \/ ReceiveCommit(s)
  \/ RestoreVersions(s)
  \/ \E b \in Blob: CheckObject(s, b)
  \/ BeginCommit(s)
  \/ SkipMutation(s)
  \/ ApplyMutation(s)
  \/ SaveCommit(s)

Purge(s) == PurgeEntries(s) \/ CollectPurged(s)

Collect == StartGc \/ ListCollectible

Delete(p) ==
  \/ \E b \in Blob: DeleteObject(p, b) \/ DeleteFails(p, b)
  \/ DeleteRecords(p)

Repair(r) ==
  \/ StartRepair(r)
  \/ \E b \in Blob: RepairRow(r, b)
  \/ EraseObject(r)
  \/ FinishRepair(r)

Next ==
  \/ \E s \in Session: Upload(s) \/ Commit(s) \/ Purge(s)
  \/ Collect
  \/ \E p \in Session \cup {Alarm}: Delete(p)
  \/ \E r \in Repairer: Repair(r)
  \/ \E p \in Process: Abandon(p)
  \/ PauseSync \/ ResumeSync \/ ApplyPolicy \/ Tick

Spec == Init /\ [][Next]_vars
=============================================================================
