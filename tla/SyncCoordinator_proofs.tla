----------------------- MODULE SyncCoordinator_proofs -----------------------
(***************************************************************************)
(* What holds of the coordinator for any number of entries, blobs,         *)
(* requests and repairs, and with or without the vault lock unless a       *)
(* theorem says so.                                                        *)
(***************************************************************************)
EXTENDS CoordinatorProperties, FiniteSetTheorems, WellFoundedInduction, TLAPS

-----------------------------------------------------------------------------
(* The rules keep the shape of the rows *)

LEMMA Parameters ==
  /\ Session \subseteq Process /\ Repairer \subseteq Process /\ Alarm \in Process
  /\ Grace \in Nat /\ StaleAfter \in Nat /\ Bucket \in Nat /\ Bucket > 0
  /\ MaxRev \in Nat
PROOF BY TimingAssumption, BoundAssumption DEF Process

LEMMA StagedRowType ==
  ASSUME TablesOK, NEW b \in Blob, NEW n \in Nat
  PROVE  StagedRow(b, n) \in BlobRow
<1>1. now \in Nat /\ now + Grace \in Nat
  BY Parameters DEF TablesOK
<1>2. CASE blobs[b] = NoRow
  BY <1>1, <1>2 DEF StagedRow, BlobRow
<1>3. CASE blobs[b] # NoRow
  <2>1. blobs[b] \in BlobRow
    BY <1>3 DEF TablesOK
  <2> QED
    BY <1>1, <1>3, <2>1 DEF StagedRow, BlobRow
<1> QED
  BY <1>2, <1>3

LEMMA RelinkedType ==
  ASSUME TablesOK, NEW m \in Mutation
  PROVE  Relinked(m) \in [Blob -> BlobRow \cup {NoRow}]
PROOF BY ZenonT(90) DEF TablesOK, Relinked, BlobRow, Never

LEMMA RetiredType ==
  ASSUME TablesOK, NEW S \in SUBSET {b \in Blob: blobs[b] # NoRow}
  PROVE  Retired(S) \in [Blob -> BlobRow \cup {NoRow}]
PROOF BY ZenonT(90) DEF TablesOK, Retired, BlobRow, Never

LEMMA MutatedType ==
  ASSUME TablesOK, NEW m \in Mutation, NEW seq \in Nat
  PROVE  Mutated(m, seq) \in [Entry -> EntryRow]
PROOF BY DEF TablesOK, Mutated, EntryRow, Mutation

LEMMA CapturedVersionsType ==
  ASSUME TablesOK, NEW m \in Mutation
  PROVE  CapturedVersions(m) \subseteq Version
<1>1. policy.retention \in Nat
  BY PolicyAssumption DEF TablesOK
<1>2. now + policy.retention \in Nat /\ now \div Bucket \in Nat
  BY <1>1, Parameters DEF TablesOK
<1>3. /\ m.entry \in Entry /\ m.base \in Nat /\ m.blob \in Blob \cup {NoBlob}
      /\ entries[m.entry] \in EntryRow
  BY DEF Mutation, TablesOK
<1>4. ForcedVersion(m) \in Version
  BY <1>2, <1>3 DEF ForcedVersion, Version, EntryRow, TablesOK
<1>5. AutoVersion(m) \in Version
  BY <1>2, <1>3 DEF AutoVersion, Version, TablesOK
<1> QED
  BY <1>4, <1>5 DEF CapturedVersions

-----------------------------------------------------------------------------
(* Types *)

LEMMA FinishType ==
  ASSUME HandlersOK, NEW p \in Process, Finish(p)
  PROVE  /\ lock' \in Process \cup {Free}
         /\ pc' \in [Process -> InHandler \cup {"idle", "uploading"}]
         /\ at' \in [Process -> Nat]
         /\ batch' \in [Process -> SUBSET Blob]
         /\ gone' \in [Process -> SUBSET Blob]
PROOF BY DEF HandlersOK, Finish

LEMMA AwaitType ==
  ASSUME HandlersOK, NEW p \in Process, NEW label \in InHandler, Await(p, label)
  PROVE  /\ lock' \in Process \cup {Free}
         /\ pc' \in [Process -> InHandler \cup {"idle", "uploading"}]
PROOF BY DEF HandlersOK, Await

LEMMA StartChecksType ==
  ASSUME HandlersOK, NEW s \in Session, NEW ms \in Seq(Mutation), StartChecks(s, ms)
  PROVE  /\ lock' \in Process \cup {Free}
         /\ pc' \in [Process -> InHandler \cup {"idle", "uploading"}]
         /\ msg' \in [Session -> Seq(Mutation)]
         /\ batch' \in [Process -> SUBSET Blob]
         /\ gone' \in [Process -> SUBSET Blob]
<1>1. Uploads(ms) \in SUBSET Blob
  <2>1. \A m \in Mutation: m.blob \in Blob \cup {NoBlob}
    BY DEF Mutation
  <2>2. Range(ms) \subseteq Mutation
    BY DEF Range
  <2> QED
    BY <2>1, <2>2 DEF Uploads
<1>2. s \in Process
  BY Parameters
<1>3. Await(s, "checking") /\ "checking" \in InHandler
  BY DEF StartChecks, InHandler
<1> QED
  BY <1>1, <1>2, <1>3, AwaitType DEF HandlersOK, StartChecks

LEMMA ClientMutationType ==
  ASSUME NEW m \in ClientMutation
  PROVE  m \in Mutation /\ m.id \in MutationId
<1>1. m \in [id: MutationId, entry: Entry, base: 0 .. MaxRev - 1,
             blob: Blob \cup {NoBlob}, keep: {FALSE}]
  BY DEF ClientMutation
<1>2. MutationId \subseteq Id /\ 0 .. MaxRev - 1 \subseteq Nat /\ {FALSE} \subseteq BOOLEAN
  BY Parameters DEF Id
<1> QED
  BY <1>1, <1>2 DEF Mutation

LEMMA RestoreMutationType ==
  ASSUME TypeOK, NEW s \in Session, NEW i \in Nat, NEW v \in history
  PROVE  LET m == RestoreMutation(s, i, v)
         IN /\ m \in Mutation /\ m.id = <<s, i, m.entry, m.base>> /\ m.entry \in Entry
            /\ m.base = entries[m.entry].rev /\ m.base \in Nat
<1>1. v.entry \in Entry /\ v.blob \in Blob \cup {NoBlob} /\ entries[v.entry].rev \in Nat
  BY DEF Version, EntryRow, TypeOK, TablesOK
<1> QED
  BY <1>1 DEF RestoreMutation, Mutation, Id

LEMMA DeleteBatchType ==
  ASSUME HandlersOK, NEW p \in Process, NEW S \in SUBSET Blob, NEW t \in Nat,
         DeleteBatch(p, S, t)
  PROVE  /\ lock' \in Process \cup {Free}
         /\ pc' \in [Process -> InHandler \cup {"idle", "uploading"}]
         /\ at' \in [Process -> Nat]
         /\ batch' \in [Process -> SUBSET Blob]
         /\ gone' \in [Process -> SUBSET Blob]
<1>1. CASE S = {}
  BY <1>1, FinishType DEF DeleteBatch
<1>2. CASE S # {}
  <2>1. Await(p, "deleting") /\ "deleting" \in InHandler
    BY <1>2 DEF DeleteBatch, InHandler
  <2> QED
    BY ZenonT(90), <1>2, <2>1, AwaitType DEF DeleteBatch, HandlersOK
<1> QED
  BY <1>1, <1>2

\* Every table and every handler's local state keeps its shape; the part that
\* could fail is that a repair never starts from a manual pause.
THEOREM Typing == Spec => []TypeOK
<1>1. Init => TypeOK
  BY SizeAssumption, Parameters DEF Init, LeftStaged, BlobRow, EntryRow, TypeOK, TablesOK, HandlersOK
<1>2. TypeOK /\ [Next]_vars => TypeOK'
  <2> SUFFICES ASSUME TypeOK, [Next]_vars PROVE TypeOK'
    OBVIOUS
  <2> USE Parameters DEF TypeOK, TablesOK, HandlersOK, Enter, Unlocked, Resume, Await, Finish, InHandler,
        store, handler
  <2>1. ASSUME NEW s \in Session, NEW b \in Blob, NEW n \in ByteSize, StageBlob(s, b, n)
        PROVE  TypeOK'
    <3>1. s \in Process /\ n \in Nat
      BY SizeAssumption, Parameters
    <3>2. CASE StageFindsCorruption(b)
      BY <2>1, <3>2 DEF StageBlob
    <3>3. CASE ~StageFindsCorruption(b)
      <4>1. StagedRow(b, n) \in BlobRow
        BY <3>1, StagedRowType DEF TypeOK
      <4> QED
        <5>1. /\ blobs' = [blobs EXCEPT ![b] = StagedRow(b, n)]
              /\ pc' = [pc EXCEPT ![s] = "uploading"]
              /\ batch' = [batch EXCEPT ![s] = {b}]
              /\ UNCHANGED pause
          BY <2>1, <3>3, Zenon DEF StageBlob
        <5> QED
          BY <2>1, <3>1, <4>1, <5>1 DEF StageBlob
    <3> QED
      BY <3>2, <3>3
  <2>2. ASSUME NEW s \in Session, NEW b \in Blob, PutObject(s, b)
        PROVE  TypeOK'
    BY <2>2 DEF PutObject
  <2>3. ASSUME NEW s \in Session, NEW b \in Blob, AbortUpload(s, b)
        PROVE  TypeOK'
    BY <2>3 DEF AbortUpload
  <2>4. ASSUME NEW s \in Session, ReceiveCommit(s)
        PROVE  TypeOK'
    <3>1. PICK n \in 1 .. MaxBatch: \E ms \in [1 .. n -> ClientMutation]: StartChecks(s, ms)
      BY <2>4 DEF ReceiveCommit
    <3>2. PICK ms \in [1 .. n -> ClientMutation]: StartChecks(s, ms)
      BY <3>1
    <3>3. ClientMutation \subseteq Mutation
      BY ClientMutationType
    <3>4. ms \in Seq(Mutation)
      BY <3>3, BoundAssumption
    <3> QED
      BY <2>4, <3>2, <3>4, StartChecksType DEF ReceiveCommit
  <2>5. ASSUME NEW s \in Session, RestoreVersions(s)
        PROVE  TypeOK'
    <3>1. PICK n \in 1 .. MaxBatch: \E vs \in [1 .. n -> history]:
            StartChecks(s, [i \in 1 .. n |-> RestoreMutation(s, i, vs[i])])
      BY ZenonT(90), <2>5 DEF RestoreVersions
    <3>2. PICK vs \in [1 .. n -> history]:
            StartChecks(s, [i \in 1 .. n |-> RestoreMutation(s, i, vs[i])])
      BY <3>1
    <3>3. \A i \in 1 .. n: RestoreMutation(s, i, vs[i]) \in Mutation
      <4>1. \A i \in 1 .. n: i \in Nat /\ vs[i] \in history
        BY <3>2
      <4>2. \A i \in Nat: \A v \in history: RestoreMutation(s, i, v) \in Mutation
        BY ZenonT(90), RestoreMutationType
      <4> QED BY ZenonT(90), <4>1, <4>2
    <3>4. [i \in 1 .. n |-> RestoreMutation(s, i, vs[i])] \in Seq(Mutation)
      BY <3>3, BoundAssumption
    <3> QED
      BY <2>5, <3>2, <3>4, StartChecksType DEF RestoreVersions
  <2>6. ASSUME NEW s \in Session, NEW b \in Blob, CheckObject(s, b)
        PROVE  TypeOK'
    BY <2>6 DEF CheckObject
  <2>7. ASSUME NEW s \in Session, BeginCommit(s)
        PROVE  TypeOK'
    <3>1. CASE WritesAllowed
      <4>1. /\ pc' = [pc EXCEPT ![s] = "committing"] /\ thread' = s /\ step' = 1
            /\ next' = cursor /\ UNCHANGED <<store, lock, at, msg, batch, gone, repair, log>>
        BY <2>7, <3>1, Zenon DEF BeginCommit
      <4> QED
        BY <4>1
    <3>2. CASE ~WritesAllowed
      <4>1. /\ Finish(s) /\ msg' = [msg EXCEPT ![s] = <<>>]
            /\ UNCHANGED <<store, thread, step, next, repair, log>>
        BY <2>7, <3>2, Zenon DEF BeginCommit
      <4> QED
        BY <4>1, FinishType
    <3> QED
      BY <3>1, <3>2
  <2>8. ASSUME NEW s \in Session, SkipMutation(s)
        PROVE  TypeOK'
    BY <2>8 DEF SkipMutation
  <2>9. ASSUME NEW s \in Session, ApplyMutation(s)
        PROVE  TypeOK'
    <3> DEFINE m == msg[s][step]
    <3>1. m \in Mutation
      BY <2>9 DEF ApplyMutation, Committing
    <3>2. CapturedVersions(m) \subseteq Version
      BY <3>1, CapturedVersionsType DEF TypeOK
    <3>3. Mutated(m, next + 1) \in [Entry -> EntryRow]
      BY <3>1, MutatedType DEF TypeOK
    <3>4. Relinked(m) \in [Blob -> BlobRow \cup {NoRow}]
      BY <3>1, RelinkedType DEF TypeOK
    <3>5. Append(log, m) \in Seq(Mutation)
      BY <3>1
    <3> HIDE DEF m
    <3> QED
      <4>1. /\ entries' = Mutated(m, next + 1) /\ history' = history \cup CapturedVersions(m)
            /\ blobs' = Relinked(m) /\ log' = Append(log, m)
        BY ZenonT(90), <2>9 DEF ApplyMutation, m
      <4> QED
        BY <2>9, <3>2, <3>3, <3>4, <3>5, <4>1 DEF ApplyMutation
  <2>10. ASSUME NEW s \in Session, SaveCommit(s)
        PROVE  TypeOK'
    BY <2>10 DEF SaveCommit
  <2>11. ASSUME NEW s \in Session, PurgeEntries(s)
        PROVE  TypeOK'
    <3>1. PICK E \in SUBSET Entry:
            LET versions == {v \in history: v.entry \in E}
            IN /\ history' = history \ versions
               /\ batch' = [batch EXCEPT ![s] = {v.blob : v \in versions} \ {NoBlob}]
      BY <2>11 DEF PurgeEntries
    <3>2. {v.blob : v \in {v \in history: v.entry \in E}} \ {NoBlob} \in SUBSET Blob
      <4>1. history \subseteq Version
        BY DEF TypeOK
      <4>2. \A v \in Version: v.blob \in Blob \cup {NoBlob}
        BY DEF Version
      <4>3. ASSUME NEW b \in {v.blob : v \in {v \in history: v.entry \in E}}
            PROVE  b \in Blob \cup {NoBlob}
        <5>1. PICK v \in history: b = v.blob
          OBVIOUS
        <5> QED
          BY <4>1, <4>2, <5>1
      <4> QED
        BY <4>3
    <3>3. Await(s, "purging") /\ "purging" \in InHandler
      BY <2>11 DEF PurgeEntries
    <3> QED
      BY <2>11, <3>1, <3>2, <3>3, AwaitType DEF PurgeEntries
  <2>12. ASSUME NEW s \in Session, CollectPurged(s)
        PROVE  TypeOK'
    <3> DEFINE S == Unpinned(batch[s], Unexpired(now))
               R == Retired(S)
    <3>1. S \in SUBSET {b \in Blob: blobs[b] # NoRow}
      BY Parameters DEF Unpinned
    <3>2. R \in [Blob -> BlobRow \cup {NoRow}]
      BY <3>1, RetiredType DEF TypeOK
    <3>3. PICK D \in SUBSET Blob: DeleteBatch(s, D, now)
      BY <2>12, Parameters DEF CollectPurged
    <3>4. s \in Process
      BY Parameters
    <3>5. history' \subseteq Version /\ blobs' = R
      BY <2>12 DEF CollectPurged, Unexpired
    <3> HIDE DEF R
    <3> QED
      BY <2>12, <3>2, <3>3, <3>4, <3>5, DeleteBatchType DEF CollectPurged
  <2>13. ASSUME StartGc
        PROVE  TypeOK'
    BY <2>13 DEF StartGc
  <2>14. ASSUME ListCollectible
        PROVE  TypeOK'
    <3>1. PICK D \in SUBSET Blob: DeleteBatch(Alarm, D, at[Alarm])
      BY <2>14 DEF ListCollectible, Batches
    <3>2. history' \subseteq Version
      BY <2>14 DEF ListCollectible, Unexpired
    <3> QED
      BY <2>14, <3>1, <3>2, DeleteBatchType DEF ListCollectible
  <2>15. ASSUME NEW p \in Session \cup {Alarm}, NEW b \in Blob, DeleteObject(p, b)
        PROVE  TypeOK'
    BY <2>15 DEF DeleteObject
  <2>16. ASSUME NEW p \in Session \cup {Alarm}, NEW b \in Blob, DeleteFails(p, b)
        PROVE  TypeOK'
    BY <2>16 DEF DeleteFails
  <2>17. ASSUME NEW p \in Session \cup {Alarm}, DeleteRecords(p)
        PROVE  TypeOK'
    BY <2>17 DEF DeleteRecords
  <2>18. ASSUME NEW r \in Repairer, StartRepair(r)
        PROVE  TypeOK'
    <3>1. StaleStaged(now) \in SUBSET Blob
      BY DEF StaleStaged
    <3>2. pause \in {NoPause, StalePause}
      BY <2>18 DEF StartRepair, MayRepair
    <3> QED
      BY <2>18, <3>1, <3>2 DEF StartRepair
  <2>19. ASSUME NEW r \in Repairer, NEW b \in Blob, RepairRow(r, b)
        PROVE  TypeOK'
    <3>1. CASE RepairKeeps(b, at[r])
      BY ZenonT(90), <2>19, <3>1 DEF RepairRow
    <3>2. CASE ~RepairKeeps(b, at[r])
      <4>1. /\ blobs' = [blobs EXCEPT ![b] = NoRow] /\ gone' = [gone EXCEPT ![r] = {b}]
            /\ Await(r, "erasing") /\ thread' = Free /\ UNCHANGED repair
        BY <2>19, <3>2, Zenon DEF RepairRow
      <4> QED
        BY ZenonT(90), <2>19, <4>1, AwaitType DEF RepairRow
    <3> QED
      BY <3>1, <3>2
  <2>20. ASSUME NEW r \in Repairer, EraseObject(r)
        PROVE  TypeOK'
    BY ZenonT(90), <2>20 DEF EraseObject
  <2>21. ASSUME NEW r \in Repairer, FinishRepair(r)
        PROVE  TypeOK'
    BY <2>21 DEF FinishRepair
  <2>22. ASSUME NEW p \in Process, Abandon(p)
        PROVE  TypeOK'
    BY <2>22 DEF Abandon
  <2>23. ASSUME PauseSync
        PROVE  TypeOK'
    BY <2>23 DEF PauseSync
  <2>24. ASSUME ResumeSync
        PROVE  TypeOK'
    BY <2>24 DEF ResumeSync
  <2>25. ASSUME ApplyPolicy
        PROVE  TypeOK'
    BY <2>25 DEF ApplyPolicy
  <2>26. ASSUME Tick
        PROVE  TypeOK'
    BY <2>26 DEF Tick
  <2>27. ASSUME UNCHANGED vars
        PROVE  TypeOK'
    BY <2>27 DEF vars
  <2> QED
    BY <2>1, <2>2, <2>3, <2>4, <2>5, <2>6, <2>7, <2>8, <2>9, <2>10, <2>11, <2>12, <2>13,
       <2>14, <2>15, <2>16, <2>17, <2>18, <2>19, <2>20, <2>21, <2>22, <2>23, <2>24, <2>25,
       <2>26, <2>27
    DEF Next, Upload, Commit, Purge, Collect, Delete, Repair
<1> QED
  BY <1>1, <1>2, PTL DEF Spec

-----------------------------------------------------------------------------
(* Rows and references *)

\* The five actions that change a row or a reference; any other step may only
\* forget versions and let time pass.
LEMMA RowSteps ==
  ASSUME TypeOK, [Next]_vars
  PROVE  \/ \E s \in Session, b \in Blob, n \in ByteSize: StageBlob(s, b, n)
         \/ \E s \in Session: ApplyMutation(s)
         \/ \E s \in Session: CollectPurged(s)
         \/ \E p \in Session \cup {Alarm}: DeleteRecords(p)
         \/ \E r \in Repairer, b \in Blob: RepairRow(r, b)
         \/ UNCHANGED <<entries, blobs>> /\ history' \subseteq history /\ now' >= now
<1>1. now \in Nat
  BY DEF TypeOK, TablesOK
<1> DEFINE Quiet == UNCHANGED <<entries, blobs>> /\ history' \subseteq history /\ now' >= now
<1>2. ASSUME NEW s \in Session, NEW b \in Blob, PutObject(s, b) \/ AbortUpload(s, b) \/ CheckObject(s, b)
      PROVE  Quiet
  BY <1>1, <1>2 DEF PutObject, AbortUpload, CheckObject, store
<1>3. ASSUME NEW s \in Session,
             \/ ReceiveCommit(s) \/ RestoreVersions(s) \/ BeginCommit(s)
             \/ SkipMutation(s) \/ SaveCommit(s)
      PROVE  Quiet
  BY <1>1, <1>3 DEF ReceiveCommit, RestoreVersions, BeginCommit, SkipMutation, SaveCommit, store
<1>4. ASSUME NEW s \in Session, PurgeEntries(s)
      PROVE  Quiet
  BY <1>1, <1>4 DEF PurgeEntries
<1>5. ASSUME StartGc \/ ListCollectible
      PROVE  Quiet
  BY <1>1, <1>5 DEF StartGc, ListCollectible, Unexpired, store
<1>6. ASSUME NEW p \in Session \cup {Alarm}, NEW b \in Blob, DeleteObject(p, b) \/ DeleteFails(p, b)
      PROVE  Quiet
  BY <1>1, <1>6 DEF DeleteObject, DeleteFails
<1>7. ASSUME NEW r \in Repairer, StartRepair(r) \/ EraseObject(r) \/ FinishRepair(r)
      PROVE  Quiet
  BY <1>1, <1>7 DEF StartRepair, EraseObject, FinishRepair, store
<1>8. ASSUME \/ \E p \in Process: Abandon(p)
             \/ PauseSync \/ ResumeSync \/ ApplyPolicy \/ Tick \/ UNCHANGED vars
      PROVE  Quiet
  BY <1>1, <1>8 DEF Abandon, PauseSync, ResumeSync, ApplyPolicy, Tick, vars, store
<1> QED
  BY <1>2, <1>3, <1>4, <1>5, <1>6, <1>7, <1>8
  DEF Next, Upload, Commit, Purge, Collect, Delete, Repair

\* Linking a blob makes exactly the referenced rows live.
LEMMA RelinkedLive ==
  ASSUME TypeOK, LiveIffCurrent, NEW s \in Session, ApplyMutation(s)
  PROVE  LiveIffCurrent'
<1> DEFINE m == msg[s][step]
           e == m.entry
           old == entries[e].blob
<1>1. /\ m \in Mutation
      /\ entries' = Mutated(m, next + 1) /\ blobs' = Relinked(m)
      /\ m.blob # NoBlob => blobs[m.blob] # NoRow
  BY DEF ApplyMutation, Applies, Committing, TypeOK, HandlersOK
<1>2. e \in Entry /\ m.blob \in Blob \cup {NoBlob}
  BY <1>1 DEF Mutation
<1>3. \A f \in Entry: entries'[f].blob = IF f = e THEN m.blob ELSE entries[f].blob
  BY <1>1, <1>2 DEF Mutated, TypeOK, TablesOK, EntryRow
<1> SUFFICES ASSUME NEW b \in Blob
             PROVE  (blobs'[b] # NoRow /\ blobs'[b].state = "live") <=> Current(b)'
  BY DEF LiveIffCurrent
<1>4. Current(b)' <=> b = m.blob \/ \E f \in Entry \ {e}: entries[f].blob = b
  BY <1>2, <1>3 DEF Current
<1>5. blobs[b] # NoRow => blobs[b] \in BlobRow
  BY DEF TypeOK, TablesOK
<1>6. (blobs[b] # NoRow /\ blobs[b].state = "live") <=> Current(b)
  BY DEF LiveIffCurrent
<1>7. CASE blobs[b] = NoRow
  <2>1. blobs'[b] = NoRow
    BY <1>1, <1>7 DEF Relinked
  <2> QED
    BY ZenonT(90), <1>1, <1>4, <1>6, <1>7, <2>1, SentinelAssumption DEF Current
<1>8. CASE blobs[b] # NoRow /\ b = m.blob
  <2>1. blobs'[b] = [blobs[b] EXCEPT !.state = "live", !.due = Never]
    BY <1>1, <1>8 DEF Relinked
  <2>2. blobs'[b] \in BlobRow /\ blobs'[b].state = "live"
    BY <1>5, <1>8, <2>1 DEF BlobRow
  <2> QED
    BY <1>4, <1>8, <2>2, RowAssumption
<1>9. CASE blobs[b] # NoRow /\ b # m.blob /\ b = old /\ \A f \in Entry \ {e}: entries[f].blob # b
  <2>1. blobs'[b] = [blobs[b] EXCEPT !.state = "pending_delete", !.due = now]
    BY <1>1, <1>9 DEF Relinked
  <2>2. blobs'[b].state = "pending_delete"
    BY <1>5, <1>9, <2>1 DEF BlobRow
  <2> QED
    BY <1>4, <1>9, <2>2
<1>10. CASE /\ blobs[b] # NoRow /\ b # m.blob
            /\ ~(b = old /\ \A f \in Entry \ {e}: entries[f].blob # b)
  <2>1. blobs'[b] = blobs[b]
    BY <1>1, <1>10 DEF Relinked
  <2>2. Current(b)' <=> Current(b)
    BY <1>2, <1>4, <1>10 DEF Current
  <2> QED
    BY ZenonT(90), <1>6, <2>1, <2>2
<1> QED
  BY <1>7, <1>8, <1>9, <1>10

\* Retiring a blob that no entry refers to leaves the live rows alone.
LEMMA RetiredLive ==
  ASSUME TypeOK, LiveIffCurrent, NEW s \in Session, CollectPurged(s)
  PROVE  LiveIffCurrent'
<1> DEFINE S == Unpinned(batch[s], Unexpired(now))
<1>1. UNCHANGED entries /\ blobs' = Retired(S)
  BY DEF CollectPurged
<1>2. \A b \in S: b \in Blob /\ blobs[b] # NoRow /\ ~Current(b)
  BY Parameters DEF Unpinned, TypeOK, HandlersOK
<1> SUFFICES ASSUME NEW b \in Blob
             PROVE  (blobs'[b] # NoRow /\ blobs'[b].state = "live") <=> Current(b)'
  BY DEF LiveIffCurrent
<1>3. Current(b)' <=> Current(b)
  BY <1>1 DEF Current
<1>4. CASE b \in S
  <2>1. blobs[b] \in BlobRow
    BY <1>2, <1>4 DEF TypeOK, TablesOK
  <2>2. blobs'[b].state = "pending_delete"
    BY <1>1, <1>4, <2>1 DEF Retired, BlobRow
  <2> QED
    BY <1>2, <1>3, <1>4, <2>2
<1>5. CASE b \notin S
  <2>1. blobs'[b] = blobs[b]
    BY <1>1, <1>5 DEF Retired
  <2> QED
    BY <1>3, <2>1 DEF LiveIffCurrent
<1> QED
  BY <1>4, <1>5

\* A row is live exactly while an entry refers to its blob, in every order of
\* uploads, commits, collections and repairs: only rows that are not live are
\* staged again, retired or deleted.
THEOREM LiveRows == Spec => []LiveIffCurrent
<1>1. Init => LiveIffCurrent
  <2> SUFFICES ASSUME Init PROVE LiveIffCurrent
    OBVIOUS
  <2>1. \A b \in Blob: ~Current(b)
    BY SentinelAssumption DEF Init, Current
  <2>2. \A b \in Blob: blobs[b] # NoRow => blobs[b].state = "staged"
    BY DEF Init, LeftStaged
  <2> QED
    BY <2>1, <2>2 DEF LiveIffCurrent
<1>2. TypeOK /\ LiveIffCurrent /\ [Next]_vars => LiveIffCurrent'
  <2> SUFFICES ASSUME TypeOK, LiveIffCurrent, [Next]_vars PROVE LiveIffCurrent'
    OBVIOUS
  <2>1. ASSUME NEW s \in Session, NEW b \in Blob, NEW n \in ByteSize, StageBlob(s, b, n)
        PROVE  LiveIffCurrent'
    <3>1. UNCHANGED entries
      BY <2>1 DEF StageBlob
    <3>2. CASE StageFindsCorruption(b)
      <4>1. UNCHANGED blobs
        BY <2>1, <3>2, Zenon DEF StageBlob
      <4> QED
        BY <3>1, <4>1 DEF LiveIffCurrent, Current
    <3>3. CASE ~StageFindsCorruption(b)
      <4>1. StageAccepted(b, n) /\ blobs' = [blobs EXCEPT ![b] = StagedRow(b, n)]
        BY <2>1, <3>3, Zenon DEF StageBlob
      <4>2. ~Current(b)
        BY <4>1 DEF StageAccepted, Pinned, LiveIffCurrent
      <4>3. n \in Nat
        BY SizeAssumption
      <4>4. StagedRow(b, n) \in BlobRow /\ StagedRow(b, n).state = "staged"
        <5>1. StagedRow(b, n) \in BlobRow
          BY <4>3, StagedRowType DEF TypeOK
        <5>2. blobs[b] # NoRow => blobs[b] \in BlobRow
          BY DEF TypeOK, TablesOK
        <5> QED
          BY <5>1, <5>2 DEF StagedRow, BlobRow
      <4> QED
        BY <3>1, <4>1, <4>2, <4>4 DEF LiveIffCurrent, Current, TypeOK, TablesOK
    <3> QED
      BY <3>2, <3>3
  <2>2. ASSUME NEW s \in Session, ApplyMutation(s)
        PROVE  LiveIffCurrent'
    BY <2>2, RelinkedLive
  <2>3. ASSUME NEW s \in Session, CollectPurged(s)
        PROVE  LiveIffCurrent'
    BY <2>3, RetiredLive
  <2>4. ASSUME NEW p \in Session \cup {Alarm}, DeleteRecords(p)
        PROVE  LiveIffCurrent'
    <3>1. UNCHANGED entries
      BY <2>4 DEF DeleteRecords
    <3>2. \A b \in Blob: blobs'[b] = IF b \in DeletedRows(p) THEN NoRow ELSE blobs[b]
      BY <2>4 DEF DeleteRecords
    <3>3. \A b \in DeletedRows(p): ~Current(b)
      BY DEF DeletedRows, Collectible, Pinned
    <3> QED
      BY <3>1, <3>2, <3>3 DEF LiveIffCurrent, Current
  <2>5. ASSUME NEW r \in Repairer, NEW b \in Blob, RepairRow(r, b)
        PROVE  LiveIffCurrent'
    <3>1. UNCHANGED entries
      BY <2>5 DEF RepairRow
    <3>2. CASE RepairKeeps(b, at[r])
      <4>1. UNCHANGED blobs
        BY <2>5, <3>2, Zenon DEF RepairRow
      <4> QED
        BY <3>1, <4>1 DEF LiveIffCurrent, Current
    <3>3. CASE ~RepairKeeps(b, at[r])
      <4>1. blobs' = [blobs EXCEPT ![b] = NoRow]
        BY <2>5, <3>3, Zenon DEF RepairRow
      <4>2. ~Current(b)
        BY <3>3 DEF RepairKeeps, LiveIffCurrent
      <4> QED
        BY <3>1, <4>1, <4>2 DEF LiveIffCurrent, Current, TypeOK, TablesOK
    <3> QED
      BY <3>2, <3>3
  <2>6. ASSUME UNCHANGED <<entries, blobs>>
        PROVE  LiveIffCurrent'
    BY <2>6 DEF LiveIffCurrent, Current
  <2> QED
    BY <2>1, <2>2, <2>3, <2>4, <2>5, <2>6, RowSteps
<1> QED
  BY <1>1, <1>2, Typing, PTL DEF Spec

-----------------------------------------------------------------------------
(* Rows and history *)

\* No handler is ahead of the clock, so what was unreferenced when it started
\* counts retained versions that are unexpired now.
StartedInThePast == \A p \in Process: at[p] <= now

LEMMA Clock == Spec => []StartedInThePast
<1>1. Init => StartedInThePast
  BY DEF Init, StartedInThePast
<1>2. TypeOK /\ StartedInThePast /\ [Next]_vars => StartedInThePast'
  <2> SUFFICES ASSUME TypeOK, StartedInThePast, [Next]_vars PROVE StartedInThePast'
    OBVIOUS
  <2> USE Parameters DEF StartedInThePast, Await, Finish
  <2>1. now \in Nat /\ at \in [Process -> Nat]
    BY DEF TypeOK, TablesOK, HandlersOK
  <2>2. ASSUME NEW s \in Session, NEW b \in Blob,
               \/ \E n \in ByteSize: StageBlob(s, b, n)
               \/ PutObject(s, b) \/ AbortUpload(s, b) \/ CheckObject(s, b)
        PROVE  StartedInThePast'
    BY <2>1, <2>2 DEF StageBlob, PutObject, AbortUpload, CheckObject, store
  <2>3. ASSUME NEW s \in Session,
               ReceiveCommit(s) \/ RestoreVersions(s) \/ SkipMutation(s) \/ ApplyMutation(s)
        PROVE  StartedInThePast'
    BY <2>1, <2>3 DEF ReceiveCommit, RestoreVersions, SkipMutation, ApplyMutation, store
  <2>4. ASSUME NEW s \in Session, BeginCommit(s) \/ SaveCommit(s) \/ PurgeEntries(s)
        PROVE  StartedInThePast'
    BY <2>1, <2>4 DEF BeginCommit, SaveCommit, PurgeEntries, store
  <2>5. ASSUME NEW s \in Session, CollectPurged(s)
        PROVE  StartedInThePast'
    <3>1. PICK D \in SUBSET Blob: DeleteBatch(s, D, now)
      BY <2>5 DEF CollectPurged, TypeOK, HandlersOK
    <3>2. UNCHANGED now
      BY <2>5 DEF CollectPurged
    <3> QED
      BY <2>1, <3>1, <3>2 DEF DeleteBatch
  <2>6. ASSUME StartGc \/ ListCollectible
        PROVE  StartedInThePast'
    <3>1. CASE StartGc
      BY <2>1, <3>1 DEF StartGc, store
    <3>2. CASE ListCollectible
      <4>1. PICK D \in SUBSET Blob: DeleteBatch(Alarm, D, at[Alarm])
        BY <3>2 DEF ListCollectible, Batches
      <4> QED
        BY <2>1, <3>2, <4>1 DEF ListCollectible, DeleteBatch
    <3> QED
      BY <2>6, <3>1, <3>2
  <2>7. ASSUME NEW p \in Session \cup {Alarm}, NEW b \in Blob,
               DeleteObject(p, b) \/ DeleteFails(p, b)
        PROVE  StartedInThePast'
    BY <2>1, <2>7 DEF DeleteObject, DeleteFails
  <2>8. ASSUME NEW r \in Repairer, NEW b \in Blob,
               RepairRow(r, b)
        PROVE  StartedInThePast'
    BY <2>1, <2>8 DEF RepairRow
  <2>9. ASSUME NEW r \in Repairer, EraseObject(r) \/ FinishRepair(r)
        PROVE  StartedInThePast'
    BY <2>1, <2>9 DEF EraseObject, FinishRepair
  <2>10. ASSUME \/ \E p \in Process: Abandon(p)
                \/ PauseSync \/ ResumeSync \/ ApplyPolicy \/ Tick \/ UNCHANGED vars
         PROVE  StartedInThePast'
    BY <2>1, <2>10 DEF Abandon, PauseSync, ResumeSync, ApplyPolicy, Tick, vars, store, handler
  <2>11. (\E r \in Repairer: StartRepair(r)) => StartedInThePast'
    BY <2>1 DEF StartRepair, store
  <2>12. (\E p \in Session \cup {Alarm}: DeleteRecords(p)) => StartedInThePast'
    BY <2>1 DEF DeleteRecords
  <2> QED
    BY <2>2, <2>3, <2>4, <2>5, <2>6, <2>7, <2>8, <2>9, <2>10, <2>11, <2>12
    DEF Next, Upload, Commit, Purge, Collect, Delete, Repair
<1> QED
  BY <1>1, <1>2, Typing, PTL DEF Spec

\* A row survives the linking of a mutation; only rows the mutation does not
\* name can still be staged after it.
LEMMA RelinkedRow ==
  ASSUME TablesOK, NEW m \in Mutation, NEW b \in Blob, blobs[b] # NoRow
  PROVE  /\ Relinked(m)[b] # NoRow
         /\ b = m.blob \/ blobs[b].state # "staged" => Relinked(m)[b].state # "staged"
<1>1. blobs[b] \in BlobRow
  BY DEF TablesOK
<1>2. \/ Relinked(m)[b] = [blobs[b] EXCEPT !.state = "live", !.due = Never]
      \/ Relinked(m)[b] = [blobs[b] EXCEPT !.state = "pending_delete", !.due = now]
      \/ Relinked(m)[b] = blobs[b] /\ b # m.blob
  BY DEF Relinked
<1>3. now \in Nat
  BY DEF TablesOK
<1> QED
  BY ZenonT(90), <1>1, <1>2, <1>3, RowAssumption DEF BlobRow

LEMMA RetiredRow ==
  ASSUME TablesOK, NEW S \in SUBSET {b \in Blob: blobs[b] # NoRow},
         NEW b \in Blob, blobs[b] # NoRow, blobs[b].state # "staged"
  PROVE  Retired(S)[b] # NoRow /\ Retired(S)[b].state # "staged"
<1>1. blobs[b] \in BlobRow
  BY DEF TablesOK
<1>2. CASE b \in S
  BY ZenonT(90),
     <1>1, <1>2, RetiredType, RowAssumption DEF Retired, BlobRow, TablesOK, Never
<1>3. CASE b \notin S
  BY <1>3 DEF Retired
<1> QED
  BY <1>2, <1>3

\* The blob of a version a mutation captures is current or becomes so.
LEMMA CapturedBlob ==
  ASSUME TypeOK, NEW m \in Mutation, NEW v \in CapturedVersions(m), v.blob # NoBlob
  PROVE  v.blob = m.blob \/ Current(v.blob)
<1>1. m.entry \in Entry
  BY DEF Mutation
<1>2. v = ForcedVersion(m) \/ v = AutoVersion(m)
  BY DEF CapturedVersions
<1> QED
  BY <1>1, <1>2 DEF ForcedVersion, AutoVersion, Current

\* While history needs a blob its row is there and is not an upload in
\* progress, so staging never meets the corruption it pauses the vault for.
THEOREM HistoryNeverStaged == Spec => []RetainedNeverStaged
<1>1. Init => RetainedNeverStaged
  BY DEF Init, RetainedNeverStaged
<1>2. /\ TypeOK /\ TypeOK' /\ LiveIffCurrent /\ StartedInThePast
      /\ RetainedNeverStaged /\ [Next]_vars
      => RetainedNeverStaged'
  <2> SUFFICES ASSUME TypeOK, TypeOK', LiveIffCurrent, StartedInThePast,
                      RetainedNeverStaged, [Next]_vars,
                      NEW v \in history', v.blob # NoBlob, v.expires > now'
               PROVE  blobs'[v.blob] # NoRow /\ blobs'[v.blob].state # "staged"
    BY DEF RetainedNeverStaged
  <2> DEFINE c == v.blob
             Kept == blobs[c] # NoRow /\ blobs[c].state # "staged"
             Goal == blobs'[c] # NoRow /\ blobs'[c].state # "staged"
  <2>1. c \in Blob /\ v.expires \in Nat /\ now \in Nat /\ now' \in Nat
    BY DEF TypeOK, TablesOK, Version
  <2>2. v \in history /\ v.expires > now => Kept
    BY DEF RetainedNeverStaged
  <2>3. ASSUME NEW s \in Session, NEW b \in Blob, NEW n \in ByteSize, StageBlob(s, b, n)
        PROVE  Goal
    <3>1. UNCHANGED <<history, now>>
      BY <2>3 DEF StageBlob
    <3>2. Kept
      BY <2>2, <3>1
    <3>3. CASE StageFindsCorruption(b)
      <4>1. UNCHANGED blobs
        BY <2>3, <3>3, Zenon DEF StageBlob
      <4> QED
        BY <3>2, <4>1
    <3>4. CASE ~StageFindsCorruption(b)
      <4>1. StageAccepted(b, n) /\ blobs' = [blobs EXCEPT ![b] = StagedRow(b, n)]
        BY <2>3, <3>4, Zenon DEF StageBlob
      <4>2. b # c
        BY <3>1, <3>2, <4>1 DEF StageAccepted, Pinned, Retained
      <4> QED
        BY <2>1, <3>2, <4>1, <4>2 DEF TypeOK, TablesOK
    <3> QED
      BY <3>3, <3>4
  <2>4. ASSUME NEW s \in Session, ApplyMutation(s)
        PROVE  Goal
    <3> DEFINE m == msg[s][step]
    <3>1. /\ m \in Mutation /\ (m.blob # NoBlob => blobs[m.blob] # NoRow)
          /\ history' = history \cup CapturedVersions(m) /\ blobs' = Relinked(m)
          /\ UNCHANGED now
      BY <2>4 DEF ApplyMutation, Applies, Committing, TypeOK, HandlersOK
    <3>2. CASE v \in history
      BY <2>1, <2>2, <3>1, <3>2, RelinkedRow DEF TypeOK
    <3>3. CASE v \in CapturedVersions(m)
      <4>1. c = m.blob \/ Current(c)
        BY <3>1, <3>3, CapturedBlob
      <4>2. Current(c) => blobs[c] # NoRow /\ blobs[c].state = "live"
        BY <2>1 DEF LiveIffCurrent
      <4> QED
        BY <2>1, <3>1, <4>1, <4>2, RelinkedRow DEF TypeOK
    <3> QED
      BY <3>1, <3>2, <3>3
  <2>5. ASSUME NEW s \in Session, CollectPurged(s)
        PROVE  Goal
    <3> DEFINE S == Unpinned(batch[s], Unexpired(now))
    <3>1. S \in SUBSET {b \in Blob: blobs[b] # NoRow}
      BY Parameters DEF Unpinned, TypeOK, HandlersOK
    <3>2. blobs' = Retired(S) /\ history' \subseteq history /\ UNCHANGED now
      BY <2>5 DEF CollectPurged, Unexpired
    <3>3. Kept
      BY <2>2, <3>2
    <3> QED
      BY <2>1, <3>1, <3>2, <3>3, RetiredRow DEF TypeOK
  <2>6. ASSUME NEW p \in Session \cup {Alarm}, DeleteRecords(p)
        PROVE  Goal
    <3>1. /\ blobs' = [b \in Blob |-> IF b \in DeletedRows(p) THEN NoRow ELSE blobs[b]]
          /\ UNCHANGED <<history, now>>
      BY <2>6 DEF DeleteRecords
    <3>2. at[p] \in Nat /\ at[p] <= now
      BY Parameters DEF StartedInThePast, TypeOK, HandlersOK
    <3>3. Retained(c, at[p])
      BY <2>1, <3>1, <3>2 DEF Retained
    <3>4. c \notin DeletedRows(p)
      BY <3>3 DEF DeletedRows, Collectible, Pinned
    <3> QED
      BY <2>1, <2>2, <3>1, <3>4
  <2>7. ASSUME NEW r \in Repairer, NEW b \in Blob, RepairRow(r, b)
        PROVE  Goal
    <3>1. UNCHANGED <<history, now>>
      BY <2>7 DEF RepairRow
    <3>2. Kept
      BY <2>2, <3>1
    <3>3. CASE RepairKeeps(b, at[r])
      <4>1. UNCHANGED blobs
        BY <2>7, <3>3, Zenon DEF RepairRow
      <4> QED
        BY <3>2, <4>1
    <3>4. CASE ~RepairKeeps(b, at[r])
      <4>1. blobs' = [blobs EXCEPT ![b] = NoRow]
        BY <2>7, <3>4, Zenon DEF RepairRow
      <4>2. b # c
        BY <3>2, <3>4 DEF RepairKeeps
      <4> QED
        BY <2>1, <3>2, <4>1, <4>2 DEF TypeOK, TablesOK
    <3> QED
      BY <3>3, <3>4
  <2>8. ASSUME UNCHANGED <<entries, blobs>>, history' \subseteq history, now' >= now
        PROVE  Goal
    BY <2>1, <2>2, <2>8
  <2> QED
    BY <2>3, <2>4, <2>5, <2>6, <2>7, <2>8, RowSteps
<1> QED
  BY <1>1, <1>2, Typing, LiveRows, Clock, PTL DEF Spec

-----------------------------------------------------------------------------
(* Sums over finite sets: what the fold of the community modules computes,   *)
(* by induction on the set                                                   *)

\* f is the sum of the weights w of each set of elements of S, taken out of
\* the set one by one: what MapThenSumSet computes.
Any(s) == CHOOSE x \in s : TRUE

IsSum(f, w, S) ==
  f = [s \in SUBSET S |-> IF s = {} THEN 0 ELSE w[Any(s)] + f[s \ {Any(s)}]]

LEMMA SumOf ==
  ASSUME NEW S, NEW w, NEW f, IsSum(f, w, S)
  PROVE  /\ f[{}] = 0
         /\ \A s \in SUBSET S: s # {} =>
              Any(s) \in s /\ f[s] = w[Any(s)] + f[s \ {Any(s)}]
<1>1. f[{}] = 0
  BY DEF IsSum
<1>2. ASSUME NEW s \in SUBSET S, s # {}
      PROVE  Any(s) \in s /\ f[s] = w[Any(s)] + f[s \ {Any(s)}]
  <2>1. Any(s) \in s
    BY <1>2 DEF Any
  <2>2. f[s] = w[Any(s)] + f[s \ {Any(s)}]
    BY <1>2 DEF IsSum
  <2> QED BY <2>1, <2>2
<1> QED BY <1>1, <1>2

LEMMA SmallestSet ==
  ASSUME NEW B, IsFiniteSet(B), NEW T \in SUBSET (SUBSET B), T # {}
  PROVE  \E s \in T: \A t \in SUBSET B: t \in T => ~(t \subseteq s /\ t # s)
<1> DEFINE R == StrictSubsetOrdering(B)
<1>1. T \subseteq FiniteSubsetsOf(B) /\ T # {}
  BY FS_Subset DEF FiniteSubsetsOf
<1>2. PICK s \in T : \A t \in FiniteSubsetsOf(B) : <<t, s>> \in R => t \notin T
  <2>1. IsWellFoundedOn(R, FiniteSubsetsOf(B))
    BY FS_StrictSubsetOrderingWellFounded
  <2> HIDE DEF R
  <2> QED BY <1>1, <2>1, WFMin
<1>3. ASSUME NEW t \in SUBSET B, t \in T, t \subseteq s, t # s PROVE FALSE
  <2>1. t \in FiniteSubsetsOf(B)
    BY <1>1, <1>3
  <2>2. <<t, s>> \in R
    BY <1>3 DEF StrictSubsetOrdering
  <2> QED BY <1>2, <1>3, <2>1, <2>2
<1> QED BY <1>3

LEMMA SumUnique ==
  ASSUME NEW B, IsFiniteSet(B), NEW w, NEW S \in SUBSET B, NEW T \in SUBSET B,
         NEW f, IsSum(f, w, S), NEW g, IsSum(g, w, T)
  PROVE  \A s \in SUBSET (S \cap T): f[s] = g[s]
<1>0. /\ \A s \in SUBSET S: s # {} => f[s] = w[Any(s)] + f[s \ {Any(s)}]
      /\ \A s \in SUBSET T: s # {} => g[s] = w[Any(s)] + g[s \ {Any(s)}]
      /\ f[{}] = 0 /\ g[{}] = 0
      /\ \A s: s # {} => Any(s) \in s
  BY SumOf DEF Any
<1> DEFINE Bad == {s \in SUBSET (S \cap T): f[s] # g[s]}
<1> SUFFICES ASSUME Bad # {} PROVE FALSE
  OBVIOUS
<1>1. PICK s \in Bad : \A t \in SUBSET B: t \in Bad => ~(t \subseteq s /\ t # s)
  <2>1. Bad \in SUBSET (SUBSET B)
    OBVIOUS
  <2> HIDE DEF Bad
  <2> QED BY <2>1, SmallestSet
<1>2. s \in SUBSET S /\ s \in SUBSET T /\ f[s] # g[s]
  BY <1>1
<1>3. s # {}
  BY <1>2, SumOf
<1>4. Any(s) \in s /\ f[s] = w[Any(s)] + f[s \ {Any(s)}]
  BY <1>2, <1>3, SumOf
<1>5. g[s] = w[Any(s)] + g[s \ {Any(s)}]
  BY <1>0, <1>2, <1>3
<1>6. f[s \ {Any(s)}] = g[s \ {Any(s)}]
  BY <1>1, <1>2, <1>4
<1> QED BY <1>2, <1>4, <1>5, <1>6

LEMMA SumSame ==
  ASSUME NEW B, IsFiniteSet(B), NEW w, NEW f, IsSum(f, w, B), NEW g, IsSum(g, w, B)
  PROVE  \A s \in SUBSET B: f[s] = g[s]
<1>1. B \in SUBSET B /\ B \cap B = B
  OBVIOUS
<1>2. \A s \in SUBSET (B \cap B): f[s] = g[s]
  BY <1>1, SumUnique
<1> QED
  BY <1>1, <1>2

LEMMA SumExists ==
  ASSUME NEW B, IsFiniteSet(B), NEW w
  PROVE  \E f: IsSum(f, w, B)
<1> DEFINE Bad == {s \in SUBSET B: ~ \E f: IsSum(f, w, s)}
<1> SUFFICES ASSUME Bad # {} PROVE FALSE
  <2>1. B \in SUBSET B /\ B \notin Bad
    OBVIOUS
  <2> QED BY <2>1
<1>1. PICK S \in Bad : \A t \in SUBSET B: t \in Bad => ~(t \subseteq S /\ t # S)
  <2>1. Bad \in SUBSET (SUBSET B)
    OBVIOUS
  <2> HIDE DEF Bad
  <2> QED BY <2>1, SmallestSet
<1> DEFINE G(t) == CHOOSE f : IsSum(f, w, t)
           Rest(s) == s \ {Any(s)}
           f == [s \in SUBSET S |-> IF s = {} THEN 0
                                    ELSE w[Any(s)] + G(Rest(s))[Rest(s)]]
<1>2. ASSUME NEW t \in SUBSET S, t # S PROVE IsSum(G(t), w, t)
  BY <1>1, <1>2
<1>3. ASSUME NEW s \in SUBSET S, s # {} PROVE f[Rest(s)] = G(Rest(s))[Rest(s)]
  <2> DEFINE t == Rest(s)
             gg == G(t)
  <2>1. t \in SUBSET S /\ t # S
    BY <1>3 DEF Any
  <2>2. IsSum(gg, w, t)
    BY <1>2, <2>1
  <2>3. CASE t = {}
    <3>1. f[t] = 0
      BY <2>1, <2>3
    <3> HIDE DEF gg
    <3>2. gg[{}] = 0
      BY <2>2, SumOf
    <3> HIDE DEF f, t
    <3>3. f[t] = gg[t]
      BY <3>1, <3>2, <2>3
    <3> QED BY <3>3 DEF gg, t
  <2>4. CASE t # {}
    <3> DEFINE u == Rest(t)
               hh == G(u)
    <3>1. u \in SUBSET S /\ u # S /\ u \in SUBSET t
      BY <2>1, <2>4 DEF Any
    <3>2. f[t] = w[Any(t)] + hh[u]
      BY <2>1, <2>4
    <3>3. IsSum(hh, w, u)
      BY <1>2, <3>1
    <3>4. t \in SUBSET B /\ u \in SUBSET B
      BY <1>1, <2>1, <3>1
    <3>5. t \in SUBSET t /\ u = t \ {Any(t)}
      OBVIOUS
    <3> HIDE DEF gg, hh, G, f, u, t
    <3>6. \A v \in SUBSET (t \cap u): gg[v] = hh[v]
      <4>1. IsFiniteSet(B) /\ IsSum(gg, w, t) /\ IsSum(hh, w, u)
        BY <2>2, <3>3
      <4> HIDE DEF Bad
      <4> QED BY <3>4, <4>1, SumUnique
    <3>7. gg[u] = hh[u]
      BY <3>1, <3>6
    <3>8. gg[t] = w[Any(t)] + gg[u]
      BY <2>2, <2>4, <3>5, SumOf
    <3>9. f[t] = gg[t]
      BY <3>2, <3>7, <3>8
    <3> QED BY <3>9 DEF gg, t
  <2> QED BY <2>3, <2>4
<1>4. f = [s \in SUBSET S |-> IF s = {} THEN 0 ELSE w[Any(s)] + f[s \ {Any(s)}]]
  <2> DEFINE h == [s \in SUBSET S |-> IF s = {} THEN 0
                                      ELSE w[Any(s)] + f[s \ {Any(s)}]]
  <2>1. ASSUME NEW s \in SUBSET S PROVE f[s] = h[s]
    <3>1. CASE s = {}
      BY <3>1
    <3>2. CASE s # {}
      <4>1. f[s] = w[Any(s)] + G(Rest(s))[Rest(s)]
        BY <3>2
      <4>2. h[s] = w[Any(s)] + f[Rest(s)]
        BY <3>2
      <4>3. f[Rest(s)] = G(Rest(s))[Rest(s)]
        BY <1>3, <3>2
      <4> HIDE DEF f, h, G, Rest
      <4> QED BY <4>1, <4>2, <4>3
    <3> QED BY <3>1, <3>2
  <2>2. f = [s \in SUBSET S |-> f[s]] /\ h = [s \in SUBSET S |-> h[s]]
    OBVIOUS
  <2> HIDE DEF f, h
  <2>3. f = h
    BY <2>1, <2>2
  <2> QED BY <2>3 DEF h
<1>5. IsSum(f, w, S)
  <2> HIDE DEF f
  <2> QED BY <1>4 DEF IsSum
<1> HIDE DEF f
<1> QED BY <1>1, <1>5

\* f gives the sum of the weights w of every set of elements of B.
Sums(f, w, B) == IsFiniteSet(B) /\ w \in [B -> Nat] /\ IsSum(f, w, B)

LEMMA SumIsNat ==
  ASSUME NEW B, NEW w, NEW f, Sums(f, w, B)
  PROVE  \A s \in SUBSET B: f[s] \in Nat
<1> USE DEF Sums
<1> DEFINE Bad == {s \in SUBSET B: f[s] \notin Nat}
<1> SUFFICES ASSUME Bad # {} PROVE FALSE
  OBVIOUS
<1>1. PICK s \in Bad : \A t \in SUBSET B: t \in Bad => ~(t \subseteq s /\ t # s)
  <2>1. Bad \in SUBSET (SUBSET B)
    OBVIOUS
  <2> HIDE DEF Bad
  <2> QED BY <2>1, SmallestSet
<1>2. s \in SUBSET B /\ f[s] \notin Nat
  BY <1>1
<1>3. f[{}] = 0 /\ s # {}
  <2>1. f[{}] = 0
    BY SumOf
  <2> QED BY <1>2, <2>1
<1>4. Any(s) \in s /\ f[s] = w[Any(s)] + f[s \ {Any(s)}]
  BY <1>2, <1>3, SumOf
<1>5. f[s \ {Any(s)}] \in Nat
  BY <1>1, <1>2, <1>4
<1>6. w[Any(s)] \in Nat
  BY <1>2, <1>4
<1> QED BY <1>2, <1>4, <1>5, <1>6

\* A sum does not depend on the element it is taken from.
LEMMA SumRemoves ==
  ASSUME NEW B, NEW w, NEW f, Sums(f, w, B),
         NEW S \in SUBSET B, NEW e \in S
  PROVE  f[S] = w[e] + f[S \ {e}]
<1> USE DEF Sums
<1> DEFINE Bad == {s \in SUBSET B: \E y \in s: f[s] # w[y] + f[s \ {y}]}
<1> SUFFICES ASSUME Bad # {} PROVE FALSE
  OBVIOUS
<1>1. PICK s \in Bad : \A t \in SUBSET B: t \in Bad => ~(t \subseteq s /\ t # s)
  <2>1. Bad \in SUBSET (SUBSET B)
    OBVIOUS
  <2> HIDE DEF Bad
  <2> QED BY <2>1, SmallestSet
<1>2. s \in SUBSET B
  BY <1>1
<1>3. PICK y \in s : f[s] # w[y] + f[s \ {y}]
  BY <1>1
<1> DEFINE x == Any(s)
<1>4. x \in s /\ f[s] = w[x] + f[s \ {x}]
  BY <1>2, <1>3, SumOf
<1>5. x # y
  BY <1>3, <1>4
<1> HIDE DEF x
<1> DEFINE both == s \ {x, y}
<1>6. f[s \ {x}] = w[y] + f[both]
  <2>1. (s \ {x}) \ {y} = both /\ y \in s \ {x} /\ s \ {x} \in SUBSET B /\ s \ {x} # s
    BY <1>2, <1>3, <1>4, <1>5
  <2>2. s \ {x} \notin Bad
    BY <1>1, <1>2, <1>4
  <2> QED BY <2>1, <2>2
<1>7. f[s \ {y}] = w[x] + f[both]
  <2>1. (s \ {y}) \ {x} = both /\ x \in s \ {y} /\ s \ {y} \in SUBSET B
    BY <1>2, <1>3, <1>4, <1>5
  <2>2. s \ {y} \notin Bad
    BY <1>1, <1>2, <1>3
  <2> QED BY <2>1, <2>2
<1>8. f[both] \in Nat /\ w[x] \in Nat /\ w[y] \in Nat
  <2>1. both \in SUBSET B /\ x \in B /\ y \in B
    BY <1>2, <1>3, <1>4
  <2> HIDE DEF both
  <2> QED BY <2>1, SumIsNat
<1> HIDE DEF both
<1> QED BY <1>3, <1>4, <1>6, <1>7, <1>8

Zeroed(v, w, D, B) ==
  D \subseteq B /\ \A x \in B: v[x] = IF x \in D THEN 0 ELSE w[x]

\* With the weights of the elements of D set to zero the sum loses theirs.
LEMMA SumCleared ==
  ASSUME NEW B, NEW w, NEW f, Sums(f, w, B),
         NEW v, NEW g, Sums(g, v, B), NEW D, Zeroed(v, w, D, B)
  PROVE  f[B] = g[B] + f[D]
<1>0. \A S \in SUBSET B: \A x \in S: f[S] = w[x] + f[S \ {x}] /\ g[S] = v[x] + g[S \ {x}]
  <2> SUFFICES ASSUME NEW S \in SUBSET B, NEW x \in S
               PROVE  f[S] = w[x] + f[S \ {x}] /\ g[S] = v[x] + g[S \ {x}]
    OBVIOUS
  <2>1. f[S] = w[x] + f[S \ {x}]
    BY SumRemoves
  <2>2. g[S] = v[x] + g[S \ {x}]
    BY SumRemoves
  <2> QED BY <2>1, <2>2
<1> USE DEF Sums, Zeroed
<1> DEFINE Bad == {s \in SUBSET B: f[s] # g[s] + f[s \cap D]}
<1> SUFFICES ASSUME Bad # {} PROVE FALSE
  <2>1. B \in SUBSET B /\ B \cap D = D
    OBVIOUS
  <2> QED BY <2>1
<1>1. PICK s \in Bad : \A t \in SUBSET B: t \in Bad => ~(t \subseteq s /\ t # s)
  <2>1. Bad \in SUBSET (SUBSET B)
    OBVIOUS
  <2> HIDE DEF Bad
  <2> QED BY <2>1, SmallestSet
<1>2. s \in SUBSET B /\ f[s] # g[s] + f[s \cap D]
  BY <1>1
<1>3. f[{}] = 0 /\ g[{}] = 0
  BY SumOf
<1>4. PICK y \in s : TRUE
  <2>1. CASE s = {}
    <3>1. s \cap D = {}
      BY <2>1
    <3> QED BY <1>2, <1>3, <2>1, <3>1
  <2>2. CASE s # {}
    BY <2>2
  <2> QED BY <2>1, <2>2
<1> DEFINE t == s \ {y}
<1>5. t \in SUBSET B /\ y \in B /\ s \cap D \in SUBSET B /\ t \cap D \in SUBSET B
  BY <1>2
<1>6. f[t] = g[t] + f[t \cap D]
  <2>1. t \notin Bad
    BY <1>1, <1>5
  <2> QED BY <1>5, <2>1
<1>7. f[s] = w[y] + f[t] /\ g[s] = v[y] + g[t]
  BY ZenonT(90), <1>0, <1>2
<1>8. /\ f[t] \in Nat /\ g[t] \in Nat /\ f[t \cap D] \in Nat
      /\ w[y] \in Nat /\ v[y] \in Nat
  <2> HIDE DEF t
  <2> QED BY <1>5, SumIsNat
<1>9. f[s \cap D] = (IF y \in D THEN w[y] ELSE 0) + f[t \cap D]
  <2>1. CASE y \in D
    <3>1. y \in s \cap D /\ (s \cap D) \ {y} = t \cap D
      BY <2>1
    <3> HIDE DEF t
    <3> QED BY <1>5, <2>1, <3>1, SumRemoves
  <2>2. CASE y \notin D
    <3>1. s \cap D = t \cap D
      BY <2>2
    <3>2. f[s \cap D] = f[t \cap D]
      BY <3>1
    <3> HIDE DEF t
    <3> QED BY <1>8, <2>2, <3>2
  <2> QED BY <2>1, <2>2
<1> HIDE DEF t
<1>10. CASE y \in D
  <2>1. v[y] = 0
    BY <1>5, <1>10
  <2> QED BY <1>2, <1>6, <1>7, <1>8, <1>9, <1>10, <2>1
<1>11. CASE y \notin D
  <2>1. v[y] = w[y]
    BY <1>5, <1>11
  <2> QED BY <1>2, <1>6, <1>7, <1>8, <1>9, <1>11, <2>1
<1> QED BY <1>10, <1>11

\* The sum changes by as much as the weight of the one element that changes.
LEMMA SumChanged ==
  ASSUME NEW B, NEW w, NEW f, Sums(f, w, B),
         NEW v, NEW g, Sums(g, v, B), NEW b \in B,
         \A x \in B: x # b => v[x] = w[x]
  PROVE  g[B] + w[b] = f[B] + v[b]
<1> DEFINE u == [x \in B |-> IF x = b THEN 0 ELSE w[x]]
           D == {b}
<1>1. /\ u \in [B -> Nat] /\ u[b] = 0
      /\ w \in [B -> Nat] /\ v \in [B -> Nat]
  BY DEF Sums
<1>2. Zeroed(u, w, D, B) /\ Zeroed(u, v, D, B)
  BY <1>1 DEF Zeroed
<1>3. D \in SUBSET B /\ D \ {b} = {} /\ b \in D
  OBVIOUS
<1> HIDE DEF u, D
<1>4. PICK h : Sums(h, u, B)
  <2>1. PICK h : IsSum(h, u, B)
    BY SumExists DEF Sums
  <2> QED BY <1>1, <2>1 DEF Sums
<1>5. f[B] = h[B] + f[D]
  BY <1>2, <1>4, SumCleared
<1>6. g[B] = h[B] + g[D]
  BY <1>2, <1>4, SumCleared
<1>7. f[{}] = 0 /\ g[{}] = 0
  BY SumOf DEF Sums
<1>8. f[D] = w[b] + f[D \ {b}] /\ g[D] = v[b] + g[D \ {b}]
  <2>1. f[D] = w[b] + f[D \ {b}]
    BY <1>3, SumRemoves
  <2>2. g[D] = v[b] + g[D \ {b}]
    BY <1>3, SumRemoves
  <2> QED BY <2>1, <2>2
<1>9. h[B] \in Nat /\ w[b] \in Nat /\ v[b] \in Nat
  <2>1. B \in SUBSET B
    OBVIOUS
  <2> QED BY <1>1, <1>4, <2>1, SumIsNat
<1> QED BY <1>3, <1>5, <1>6, <1>7, <1>8, <1>9

-----------------------------------------------------------------------------
(* The bytes of the rows *)

Size(b) == IF blobs[b] = NoRow THEN 0 ELSE blobs[b].size

Sizes == [b \in Blob |-> Size(b)]

LEMMA SizesType == TypeOK => Sizes \in [Blob -> Nat]
PROOF BY DEF TypeOK, TablesOK, Sizes, Size, BlobRow

\* RowBytes is a sum of the sizes, whatever order it adds them in.
AddsSizes ==
  \A w, f: w = Sizes /\ Sums(f, w, Blob) => \A S \in SUBSET Blob: RowBytes(S) = f[S]

LEMMA RowBytesSum == AddsSizes
<1> SUFFICES ASSUME NEW w, NEW f, w = Sizes, Sums(f, w, Blob), NEW S \in SUBSET Blob
             PROVE  RowBytes(S) = f[S]
  BY DEF AddsSizes
<1> DEFINE P(g) == g = [s \in SUBSET S |-> IF s = {} THEN 0
        ELSE LET x == CHOOSE x \in s : TRUE
             IN (IF blobs[x] = NoRow THEN 0 ELSE blobs[x].size) + g[s \ {x}]]
          it == CHOOSE g : P(g)
<1>1. RowBytes(S) = it[S]
  BY DEF RowBytes, MapThenSumSet, MapThenFoldSet
<1>2. ASSUME NEW g PROVE P(g) <=> IsSum(g, w, S)
  <2> DEFINE h == [s \in SUBSET S |-> IF s = {} THEN 0
                     ELSE LET x == CHOOSE x \in s : TRUE
                          IN (IF blobs[x] = NoRow THEN 0 ELSE blobs[x].size) + g[s \ {x}]]
             k == [s \in SUBSET S |-> IF s = {} THEN 0 ELSE w[Any(s)] + g[s \ {Any(s)}]]
  <2>1. ASSUME NEW s \in SUBSET S PROVE h[s] = k[s]
    <3>1. CASE s = {}
      BY <3>1
    <3>2. CASE s # {}
      <4>1. Any(s) \in Blob
        BY <3>2 DEF Any
      <4>2. w[Any(s)] = Size(Any(s))
        BY <4>1 DEF Sizes
      <4>3. h[s] = Size(Any(s)) + g[s \ {Any(s)}]
        BY <3>2 DEF Any, Size
      <4> QED BY <3>2, <4>2, <4>3
    <3> QED BY <3>1, <3>2
  <2>2. h = [s \in SUBSET S |-> h[s]] /\ k = [s \in SUBSET S |-> k[s]]
    OBVIOUS
  <2>3. P(g) <=> g = h
    OBVIOUS
  <2>4. IsSum(g, w, S) <=> g = k
    BY DEF IsSum
  <2> HIDE DEF h, k, P
  <2>5. h = k
    BY <2>1, <2>2
  <2> QED BY <2>3, <2>4, <2>5
<1> HIDE DEF P
<1>3. PICK g : IsSum(g, w, S)
  BY FS_Subset, SumExists DEF Sums
<1>4. P(it)
  BY <1>2, <1>3
<1> HIDE DEF it
<1>5. IsSum(it, w, S)
  BY <1>2, <1>4
<1>6. Blob \in SUBSET Blob /\ S \in SUBSET (S \cap Blob)
  OBVIOUS
<1>7. IsFiniteSet(Blob) /\ IsSum(f, w, Blob)
  BY DEF Sums
<1>8. \A s \in SUBSET (S \cap Blob): it[s] = f[s]
  BY <1>5, <1>6, <1>7, SumUnique
<1> QED BY <1>1, <1>6, <1>8

\* The sums of the rows before and after a step.
LEMMA SumsOfRows ==
  ASSUME TypeOK, TypeOK'
  PROVE  \E w, f, v, g:
           /\ w = Sizes /\ Sums(f, w, Blob) /\ v = Sizes' /\ Sums(g, v, Blob)
           /\ \A S \in SUBSET Blob: RowBytes(S) = f[S]
           /\ RowBytes(Blob)' = g[Blob]
           /\ \A S \in SUBSET Blob: f[S] \in Nat /\ g[S] \in Nat
<1>1. PICK w, v : w = Sizes /\ v = Sizes'
  OBVIOUS
<1>2. w \in [Blob -> Nat]
  BY <1>1, SizesType
<1>3. v \in [Blob -> Nat]
  <2>1. (TypeOK => Sizes \in [Blob -> Nat])'
    BY SizesType, PTL
  <2> QED BY <1>1, <2>1
<1>4. PICK f : IsSum(f, w, Blob)
  BY BlobAssumption, SumExists
<1>5. PICK g : IsSum(g, v, Blob)
  BY BlobAssumption, SumExists
<1>6. Sums(f, w, Blob) /\ Sums(g, v, Blob)
  BY <1>2, <1>3, <1>4, <1>5, BlobAssumption DEF Sums
<1>7. \A S \in SUBSET Blob: RowBytes(S) = f[S]
  BY <1>1, <1>6, RowBytesSum DEF AddsSizes
<1>8. RowBytes(Blob)' = g[Blob]
  <2>1. AddsSizes'
    BY RowBytesSum, PTL
  <2>2. \A S \in SUBSET Blob: RowBytes(S)' = g[S]
    BY <1>1, <1>6, <2>1 DEF AddsSizes
  <2> QED BY <2>2
<1>9. \A S \in SUBSET Blob: f[S] \in Nat /\ g[S] \in Nat
  BY <1>6, SumIsNat
<1> QED BY <1>1, <1>6, <1>7, <1>8, <1>9

\* Only these steps change a row or the counter.
LEMMA ByteSteps ==
  ASSUME TypeOK, [Next]_vars
  PROVE  \/ \E s \in Session, b \in Blob, n \in ByteSize: StageBlob(s, b, n)
         \/ \E s \in Session: ApplyMutation(s)
         \/ \E s \in Session: CollectPurged(s)
         \/ \E p \in Session \cup {Alarm}: DeleteRecords(p)
         \/ \E r \in Repairer, b \in Blob: RepairRow(r, b)
         \/ UNCHANGED <<blobs, used>>
<1> DEFINE Quiet == UNCHANGED <<blobs, used>>
<1>2. ASSUME NEW s \in Session, NEW b \in Blob, PutObject(s, b) \/ AbortUpload(s, b) \/ CheckObject(s, b)
      PROVE  Quiet
  BY <1>2 DEF PutObject, AbortUpload, CheckObject, store
<1>3. ASSUME NEW s \in Session,
             \/ ReceiveCommit(s) \/ RestoreVersions(s) \/ BeginCommit(s)
             \/ SkipMutation(s) \/ SaveCommit(s) \/ PurgeEntries(s)
      PROVE  Quiet
  BY <1>3 DEF ReceiveCommit, RestoreVersions, BeginCommit, SkipMutation, SaveCommit, PurgeEntries,
       store
<1>5. ASSUME StartGc \/ ListCollectible
      PROVE  Quiet
  BY <1>5 DEF StartGc, ListCollectible, store
<1>6. ASSUME NEW p \in Session \cup {Alarm}, NEW b \in Blob, DeleteObject(p, b) \/ DeleteFails(p, b)
      PROVE  Quiet
  BY <1>6 DEF DeleteObject, DeleteFails
<1>7. ASSUME NEW r \in Repairer, StartRepair(r) \/ EraseObject(r) \/ FinishRepair(r)
      PROVE  Quiet
  BY <1>7 DEF StartRepair, EraseObject, FinishRepair, store
<1>8. ASSUME \/ \E p \in Process: Abandon(p)
             \/ PauseSync \/ ResumeSync \/ ApplyPolicy \/ Tick \/ UNCHANGED vars
      PROVE  Quiet
  BY <1>8 DEF Abandon, PauseSync, ResumeSync, ApplyPolicy, Tick, vars, store
<1> QED
  BY <1>2, <1>3, <1>5, <1>6, <1>7, <1>8
  DEF Next, Upload, Commit, Purge, Collect, Delete, Repair

Kept == used' = RowBytes(Blob)' /\ RowBytes(Blob)' <= RowBytes(Blob)

\* The rows keep their sizes.
LEMMA SameSizes ==
  ASSUME TypeOK, TypeOK', BytesMatchRows, Sizes' = Sizes, UNCHANGED used
  PROVE  Kept
<1>1. PICK w, f, v, g :
           /\ w = Sizes /\ Sums(f, w, Blob) /\ v = Sizes' /\ Sums(g, v, Blob)
           /\ \A S \in SUBSET Blob: RowBytes(S) = f[S]
           /\ RowBytes(Blob)' = g[Blob]
           /\ \A S \in SUBSET Blob: f[S] \in Nat /\ g[S] \in Nat
  BY SumsOfRows
<1>2. IsFiniteSet(Blob) /\ IsSum(f, w, Blob) /\ IsSum(g, w, Blob)
  BY <1>1 DEF Sums
<1>3. Blob \in SUBSET Blob
  OBVIOUS
<1>4. \A s \in SUBSET Blob: f[s] = g[s]
  BY <1>2, SumSame
<1>5. f[Blob] = g[Blob] /\ f[Blob] \in Nat
  BY <1>1, <1>3, <1>4
<1>6. RowBytes(Blob) = f[Blob]
  BY <1>1, <1>3
<1> QED BY <1>1, <1>5, <1>6 DEF Kept, BytesMatchRows

\* The rows of D go, and the counter with them.
LEMMA RowsGone ==
  ASSUME TypeOK, TypeOK', BytesMatchRows, NEW D \in SUBSET Blob,
         blobs' = [b \in Blob |-> IF b \in D THEN NoRow ELSE blobs[b]],
         used' = Adjusted(-RowBytes(D))
  PROVE  Kept
<1>1. PICK w, f, v, g :
           /\ w = Sizes /\ Sums(f, w, Blob) /\ v = Sizes' /\ Sums(g, v, Blob)
           /\ \A S \in SUBSET Blob: RowBytes(S) = f[S]
           /\ RowBytes(Blob)' = g[Blob]
           /\ \A S \in SUBSET Blob: f[S] \in Nat /\ g[S] \in Nat
  BY SumsOfRows
<1>2. Zeroed(v, w, D, Blob)
  BY <1>1 DEF Zeroed, Sizes, Size
<1>3. Blob \in SUBSET Blob
  OBVIOUS
<1>4. Sums(f, w, Blob) /\ Sums(g, v, Blob)
  BY <1>1
<1>5. f[Blob] = g[Blob] + f[D]
  BY <1>2, <1>4, SumCleared
<1>6. RowBytes(Blob) = f[Blob] /\ RowBytes(D) = f[D]
  BY <1>1, <1>3
<1>7. f[Blob] \in Nat /\ g[Blob] \in Nat /\ f[D] \in Nat
  BY <1>1, <1>3
<1> QED BY <1>1, <1>5, <1>6, <1>7 DEF Kept, BytesMatchRows, Adjusted

\* A stage request charges the new row, if the limit in force allows it.
LEMMA StageCounts ==
  ASSUME TypeOK, TypeOK', BytesMatchRows,
         NEW s \in Session, NEW b \in Blob, NEW n \in ByteSize, StageBlob(s, b, n)
  PROVE  /\ used' = RowBytes(Blob)'
         /\ RowBytes(Blob)' > RowBytes(Blob) /\ policy.limit > 0
              => RowBytes(Blob)' <= policy.limit
<1>0. RowBytes(Blob) \in Nat /\ RowBytes(Blob)' \in Nat
  <2>1. Blob \in SUBSET Blob
    OBVIOUS
  <2> QED BY <2>1, SumsOfRows
<1>1. CASE StageFindsCorruption(b)
  <2>1. UNCHANGED <<blobs, used>>
    BY <1>1, Zenon DEF StageBlob
  <2>2. Kept
    BY <2>1, SameSizes DEF Sizes, Size
  <2> QED BY <1>0, <2>2 DEF Kept
<1>2. CASE ~StageFindsCorruption(b)
  <2>1. /\ StageAccepted(b, n)
        /\ blobs' = [blobs EXCEPT ![b] = StagedRow(b, n)]
        /\ used' = Adjusted(StageBytes(b, n))
    BY <1>2, Zenon DEF StageBlob
  <2>2. n \in Nat /\ used \in Nat
    BY <1>0, SizeAssumption DEF BytesMatchRows
  <2>3. StagedRow(b, n) \in BlobRow
    BY <2>2, StagedRowType DEF TypeOK
  <2>4. CASE blobs[b] # NoRow
    <3>1. blobs[b] \in BlobRow
      BY <2>4 DEF TypeOK, TablesOK
    <3>2. StagedRow(b, n).size = blobs[b].size
      BY <2>4, <3>1 DEF StagedRow, BlobRow
    <3>3. Sizes' = Sizes
      BY <2>1, <2>3, <2>4, <3>2, RowAssumption DEF Sizes, Size, TypeOK, TablesOK
    <3>4. UNCHANGED used
      BY <2>1, <2>2, <2>4 DEF StageBytes, Adjusted
    <3>5. Kept
      BY <3>3, <3>4, SameSizes
    <3> QED BY <1>0, <3>5 DEF Kept
  <2>5. CASE blobs[b] = NoRow
    <3>1. PICK w, f, v, g :
           /\ w = Sizes /\ Sums(f, w, Blob) /\ v = Sizes' /\ Sums(g, v, Blob)
           /\ \A S \in SUBSET Blob: RowBytes(S) = f[S]
           /\ RowBytes(Blob)' = g[Blob]
           /\ \A S \in SUBSET Blob: f[S] \in Nat /\ g[S] \in Nat
      BY SumsOfRows
    <3>2. \A x \in Blob: x # b => v[x] = w[x]
      BY <2>1, <3>1 DEF Sizes, Size, TypeOK, TablesOK
    <3>3. w[b] = 0
      BY <2>5, <3>1 DEF Sizes, Size
    <3>4. v[b] = n
      <4>1. StagedRow(b, n).size = n
        BY <2>5 DEF StagedRow
      <4>2. blobs'[b] = StagedRow(b, n)
        BY <2>1 DEF TypeOK, TablesOK
      <4> QED BY <2>3, <3>1, <4>1, <4>2, RowAssumption DEF Sizes, Size
    <3>5. g[Blob] + w[b] = f[Blob] + v[b]
      BY <3>1, <3>2, SumChanged
    <3>6. Blob \in SUBSET Blob
      OBVIOUS
    <3>7. RowBytes(Blob) = f[Blob] /\ f[Blob] \in Nat /\ g[Blob] \in Nat
      BY <3>1, <3>6
    <3>8. g[Blob] = f[Blob] + n
      BY <2>2, <3>3, <3>4, <3>5, <3>7
    <3>9. used' = used + n
      BY <2>1, <2>2, <2>5 DEF StageBytes, Adjusted
    <3>10. policy.limit > 0 => used + n <= policy.limit
      BY <2>1, <2>5 DEF StageAccepted, WithinQuota
    <3> QED BY <3>1, <3>7, <3>8, <3>9, <3>10 DEF BytesMatchRows
  <2> QED BY <2>4, <2>5
<1> QED BY <1>1, <1>2

LEMMA BytesStep ==
  ASSUME TypeOK, TypeOK', BytesMatchRows, [Next]_vars
  PROVE  /\ used' = RowBytes(Blob)'
         /\ RowBytes(Blob)' > RowBytes(Blob) /\ policy.limit > 0
              => RowBytes(Blob)' <= policy.limit
<1> DEFINE Goal == /\ used' = RowBytes(Blob)'
                   /\ RowBytes(Blob)' > RowBytes(Blob) /\ policy.limit > 0
                        => RowBytes(Blob)' <= policy.limit
<1>0. /\ RowBytes(Blob) \in Nat /\ RowBytes(Blob)' \in Nat
      /\ \A b \in Blob: blobs[b] # NoRow => blobs[b] \in BlobRow
      /\ now \in Nat
  <2>1. Blob \in SUBSET Blob
    OBVIOUS
  <2> QED BY <2>1, SumsOfRows DEF TypeOK, TablesOK
<1>1. Kept => Goal
  BY <1>0 DEF Kept
<1>2. ASSUME NEW s \in Session, NEW b \in Blob, NEW n \in ByteSize, StageBlob(s, b, n)
      PROVE  Goal
  BY <1>2, StageCounts
<1>3. ASSUME NEW s \in Session, ApplyMutation(s) PROVE Kept
  <2> DEFINE m == msg[s][step]
  <2>1. blobs' = Relinked(m) /\ UNCHANGED used
    BY <1>3 DEF ApplyMutation
  <2> HIDE DEF m
  <2>2. Sizes' = Sizes
    <3>1. ASSUME NEW b \in Blob PROVE Size(b)' = Size(b)
      <4>1. CASE blobs[b] = NoRow
        BY <2>1, <4>1 DEF Relinked, Size
      <4>2. CASE blobs[b] # NoRow
        <5>1. blobs[b] \in BlobRow /\ now \in Nat
          BY ZenonT(90), <1>0, <4>2
        <5>2. \/ blobs'[b] = [blobs[b] EXCEPT !.state = "live", !.due = Never]
              \/ blobs'[b] = [blobs[b] EXCEPT !.state = "pending_delete", !.due = now]
              \/ blobs'[b] = blobs[b]
          BY <2>1, <4>2 DEF Relinked
        <5>3. blobs'[b] \in BlobRow /\ blobs'[b].size = blobs[b].size
          BY <5>1, <5>2 DEF BlobRow, Never
        <5> QED BY <4>2, <5>3, RowAssumption DEF Size
      <4> QED BY ZenonT(90), <4>1, <4>2
    <3> QED BY <3>1 DEF Sizes
  <2> QED BY <2>1, <2>2, SameSizes
<1>4. ASSUME NEW s \in Session, CollectPurged(s) PROVE Kept
  <2>1. PICK S : S = Unpinned(batch[s], Unexpired(now))
    OBVIOUS
  <2>2. blobs' = Retired(S) /\ UNCHANGED used /\ \A b \in S: blobs[b] # NoRow
    BY <1>4, <2>1 DEF CollectPurged, Unpinned
  <2>3. Sizes' = Sizes
    <3>1. ASSUME NEW b \in Blob PROVE Size(b)' = Size(b)
      <4>1. CASE b \in S
        <5>1. blobs[b] \in BlobRow /\ now \in Nat
          BY <1>0, <2>2, <4>1
        <5>2. blobs'[b] = [blobs[b] EXCEPT !.state = "pending_delete",
                             !.due = IF @ = Never \/ @ > now THEN now ELSE @]
          BY <2>2, <4>1 DEF Retired
        <5>3. blobs'[b] \in BlobRow /\ blobs'[b].size = blobs[b].size
          BY <5>1, <5>2 DEF BlobRow
        <5> QED BY <2>2, <4>1, <5>3, RowAssumption DEF Size
      <4>2. CASE b \notin S
        BY <2>2, <4>2 DEF Retired, Size
      <4> QED BY <4>1, <4>2
    <3> QED BY <3>1 DEF Sizes
  <2> QED BY <2>2, <2>3, SameSizes
<1>5. ASSUME NEW p \in Session \cup {Alarm}, DeleteRecords(p) PROVE Kept
  <2>1. PICK D : D = DeletedRows(p)
    OBVIOUS
  <2>2. D \in SUBSET Blob
    BY <2>1, Parameters DEF DeletedRows, TypeOK, HandlersOK
  <2>3. /\ blobs' = [b \in Blob |-> IF b \in D THEN NoRow ELSE blobs[b]]
        /\ used' = Adjusted(-RowBytes(D))
    BY <1>5, <2>1 DEF DeleteRecords
  <2> QED BY <2>2, <2>3, RowsGone
<1>6. ASSUME NEW r \in Repairer, NEW b \in Blob, RepairRow(r, b) PROVE Kept
  <2>1. CASE RepairKeeps(b, at[r])
    <3>1. UNCHANGED <<blobs, used>>
      BY <1>6, <2>1, Zenon DEF RepairRow
    <3> QED BY <3>1, SameSizes DEF Sizes, Size
  <2>2. CASE ~RepairKeeps(b, at[r])
    <3>1. used' = Adjusted(-RowBytes({b})) /\ blobs' = [blobs EXCEPT ![b] = NoRow]
      BY <1>6, <2>2, Zenon DEF RepairRow
    <3>2. PICK D : D = {b}
      OBVIOUS
    <3>3. D \in SUBSET Blob /\ used' = Adjusted(-RowBytes(D))
      BY <3>1, <3>2
    <3>4. blobs' = [x \in Blob |-> IF x \in D THEN NoRow ELSE blobs[x]]
      BY <3>1, <3>2 DEF TypeOK, TablesOK
    <3> QED BY <3>3, <3>4, RowsGone
  <2> QED BY <2>1, <2>2
<1>7. ASSUME UNCHANGED <<blobs, used>> PROVE Kept
  BY <1>7, SameSizes DEF Sizes, Size
<1> HIDE DEF Goal
<1>8. Goal
  BY <1>1, <1>2, <1>3, <1>4, <1>5, <1>6, <1>7, ByteSteps
<1> QED BY <1>8 DEF Goal

\* The byte counter is never off: four transactions change it by increments
\* that are clamped at zero, and a repeated stage, a collection that leaves
\* some rows, and a repair of a row that is already gone each change it by
\* what they do to the rows (blob-record-operations.ts:44-60, 95-104).
THEOREM BytesMatch == Spec => []BytesMatchRows
<1>1. Init => BytesMatchRows
  BY DEF Init, BytesMatchRows
<1>2. TypeOK /\ TypeOK' /\ BytesMatchRows /\ [Next]_vars => BytesMatchRows'
  BY BytesStep DEF BytesMatchRows
<1> QED
  BY <1>1, <1>2, Typing, PTL DEF Spec

\* No step takes the rows above the limit in force: only a stage request adds
\* to them, and the counter it is admitted on is the sum of the rows
\* (blob-policy.ts:80-100).
THEOREM QuotaHolds == Spec => RowsWithinQuota
<1>1. TypeOK /\ TypeOK' /\ BytesMatchRows /\ [Next]_vars
        => [RowBytes(Blob)' > RowBytes(Blob) /\ policy.limit > 0
              => RowBytes(Blob)' <= policy.limit]_vars
  BY BytesStep
<1> QED
  BY <1>1, BytesMatch, Typing, PTL DEF Spec, RowsWithinQuota

-----------------------------------------------------------------------------
(* Pauses *)

\* No vault is paused in the middle of a commit transaction.
CommitsUnpaused == thread \in Session => pause = NoPause

\* Only applying a mutation moves the log, and it runs in a transaction.
LEMMA MutationSteps ==
  ASSUME [Next]_vars
  PROVE  \/ \E s \in Session: ApplyMutation(s)
         \/ UNCHANGED <<entries, log>>
<1> DEFINE Quiet == UNCHANGED <<entries, log>>
<1>1. ASSUME NEW s \in Session, NEW b \in Blob,
             \/ \E n \in ByteSize: StageBlob(s, b, n)
             \/ PutObject(s, b) \/ AbortUpload(s, b) \/ CheckObject(s, b)
      PROVE  Quiet
  BY <1>1 DEF StageBlob, PutObject, AbortUpload, CheckObject, store
<1>2. ASSUME NEW s \in Session,
             \/ ReceiveCommit(s) \/ RestoreVersions(s) \/ BeginCommit(s)
             \/ SkipMutation(s) \/ SaveCommit(s) \/ PurgeEntries(s) \/ CollectPurged(s)
      PROVE  Quiet
  BY <1>2 DEF ReceiveCommit, RestoreVersions, BeginCommit, SkipMutation, SaveCommit, PurgeEntries,
       CollectPurged, store
<1>3. ASSUME StartGc \/ ListCollectible
      PROVE  Quiet
  BY <1>3 DEF StartGc, ListCollectible, store
<1>4. ASSUME NEW p \in Session \cup {Alarm},
             \/ \E b \in Blob: DeleteObject(p, b) \/ DeleteFails(p, b)
             \/ DeleteRecords(p)
      PROVE  Quiet
  BY <1>4 DEF DeleteObject, DeleteFails, DeleteRecords
<1>5. ASSUME NEW r \in Repairer,
             \/ StartRepair(r) \/ EraseObject(r) \/ FinishRepair(r)
             \/ \E b \in Blob: RepairRow(r, b)
      PROVE  Quiet
  BY <1>5 DEF StartRepair, RepairRow, EraseObject, FinishRepair, store
<1>6. ASSUME \/ \E p \in Process: Abandon(p)
             \/ PauseSync \/ ResumeSync \/ ApplyPolicy \/ Tick \/ UNCHANGED vars
      PROVE  Quiet
  BY <1>6 DEF Abandon, PauseSync, ResumeSync, ApplyPolicy, Tick, vars, store
<1> QED
  BY <1>1, <1>2, <1>3, <1>4, <1>5, <1>6
  DEF Next, Upload, Commit, Purge, Collect, Delete, Repair

LEMMA CommitsStayUnpaused ==
  ASSUME CommitsUnpaused, [Next]_vars
  PROVE  CommitsUnpaused'
<1> USE DEF CommitsUnpaused
<1>0. Free \notin Session
  BY ProcessAssumption
<1>1. ASSUME NEW s \in Session, NEW b \in Blob,
             \/ \E n \in ByteSize: StageBlob(s, b, n)
             \/ PutObject(s, b) \/ AbortUpload(s, b) \/ CheckObject(s, b)
      PROVE  CommitsUnpaused'
  <2>1. thread = Free /\ UNCHANGED thread
    BY <1>1 DEF StageBlob, PutObject, AbortUpload, CheckObject, Enter, Resume
  <2> QED
    BY <1>0, <2>1
<1>2. ASSUME NEW s \in Session, BeginCommit(s)
      PROVE  CommitsUnpaused'
  <2>1. UNCHANGED pause /\ thread = Free
    BY <1>2 DEF BeginCommit, store, Resume
  <2>2. CASE WritesAllowed
    BY <2>1, <2>2 DEF WritesAllowed
  <2>3. CASE ~WritesAllowed
    <3>1. UNCHANGED thread
      BY <1>2, <2>3, Zenon DEF BeginCommit
    <3> QED
      BY <1>0, <2>1, <3>1
  <2> QED
    BY <2>2, <2>3
<1>3. ASSUME NEW s \in Session,
             \/ ReceiveCommit(s) \/ RestoreVersions(s) \/ SkipMutation(s) \/ ApplyMutation(s)
             \/ SaveCommit(s) \/ PurgeEntries(s) \/ CollectPurged(s)
      PROVE  CommitsUnpaused'
  <2>1. UNCHANGED pause /\ (UNCHANGED thread \/ thread' = Free)
    BY <1>3 DEF ReceiveCommit, RestoreVersions, SkipMutation, ApplyMutation, SaveCommit,
         PurgeEntries, CollectPurged, store
  <2> QED
    BY <1>0, <2>1
<1>4. ASSUME StartGc \/ ListCollectible
      PROVE  CommitsUnpaused'
  BY <1>4 DEF StartGc, ListCollectible, store
<1>5. ASSUME NEW p \in Session \cup {Alarm},
             \/ \E b \in Blob: DeleteObject(p, b) \/ DeleteFails(p, b)
             \/ DeleteRecords(p)
      PROVE  CommitsUnpaused'
  BY <1>5 DEF DeleteObject, DeleteFails, DeleteRecords
<1>6. ASSUME NEW r \in Repairer,
             \/ StartRepair(r) \/ EraseObject(r) \/ FinishRepair(r)
             \/ \E b \in Blob: RepairRow(r, b)
      PROVE  CommitsUnpaused'
  <2>1. r \notin Session
    BY ProcessAssumption
  <2>2. thread' \in {r, Free}
    BY <1>6 DEF StartRepair, RepairRow, EraseObject, FinishRepair
  <2> QED
    BY <1>0, <2>1, <2>2
<1>7. ASSUME \/ \E p \in Process: Abandon(p)
             \/ PauseSync \/ ResumeSync \/ ApplyPolicy \/ Tick \/ UNCHANGED vars
      PROVE  CommitsUnpaused'
  <2>1. UNCHANGED thread /\ (thread = Free \/ UNCHANGED pause)
    BY <1>7 DEF Abandon, PauseSync, ResumeSync, ApplyPolicy, Tick, vars, store, handler, Unlocked
  <2> QED
    BY <1>0, <2>1
<1> HIDE DEF CommitsUnpaused
<1> QED
  BY <1>1, <1>2, <1>3, <1>4, <1>5, <1>6, <1>7
  DEF Next, Upload, Commit, Purge, Collect, Delete, Repair

\* Nothing is committed to a paused vault, with or without the vault lock: a
\* commit asks again once the bucket has answered, and nothing can pause the
\* vault between that and its last mutation (mutation-service.ts:62-133).
THEOREM NoCommitWhilePaused == Spec => NothingMovesWhilePaused
<1>1. Init => CommitsUnpaused
  BY ProcessAssumption DEF Init, CommitsUnpaused
<1>2. CommitsUnpaused /\ [Next]_vars => CommitsUnpaused'
  BY CommitsStayUnpaused
<1>3. CommitsUnpaused /\ [Next]_vars
        => [pause # NoPause => UNCHANGED <<entries, log>>]_vars
  <2> SUFFICES ASSUME CommitsUnpaused, [Next]_vars, pause # NoPause
               PROVE  UNCHANGED <<entries, log>>
    OBVIOUS
  <2>1. ASSUME NEW s \in Session, ApplyMutation(s)
        PROVE  FALSE
    BY <2>1 DEF ApplyMutation, Committing, CommitsUnpaused
  <2> QED
    BY <2>1, MutationSteps
<1> QED
  BY <1>1, <1>2, <1>3, PTL DEF Spec, NothingMovesWhilePaused
=============================================================================
