--------------------------- MODULE VaultLog_proofs ---------------------------
(***************************************************************************)
(* The coordinator, with or without the vault lock, implements the log of  *)
(* VaultLog.  A mutation can be sent again, alone or in a batch, while     *)
(* commits of other requests are applied; that it is logged once rests on  *)
(* how ids are given to mutations and on the revision a logged mutation    *)
(* leaves behind.                                                          *)
(***************************************************************************)
EXTENDS SyncCoordinator_proofs

Pending(s) == pc[s] \in {"checking", "committing"}

\* A commit transaction counts from the log it found.
NextFollowsLog == thread \in Session => next = Len(log)

SentOnce == \A m1, m2 \in Sent: m1.id = m2.id => m1 = m2

\* A restore's id says who restores which entry from which revision, and at
\* which place of the batch.
RestoreId(s, m) == {<<s, i, m.entry, m.base>> : i \in Nat}

PendingIds ==
  \A s \in Session: \A m \in Range(msg[s]): m.id \in MutationId \cup RestoreId(s, m)

LoggedIds ==
  \A m \in Range(log): m.id \in MutationId \/ \E s \in Session: m.id \in RestoreId(s, m)

\* No entry is at the revision a logged mutation was made from any more.
LoggedBases == \A m \in Range(log): m.base < entries[m.entry].rev

NothingPending == \A s \in Session: ~Pending(s) => msg[s] = <<>>

SentInv == SentOnce /\ PendingIds /\ LoggedIds /\ LoggedBases /\ NothingPending

LogInv == EntriesFollowLog /\ NextFollowsLog /\ SentInv

-----------------------------------------------------------------------------

LEMMA EntriesFrame ==
  ASSUME EntriesFollowLog, UNCHANGED <<entries, log>>,
         thread' \notin Session => cursor' = Len(log)
  PROVE  EntriesFollowLog'
<1>1. \A e \in Entry: Revision(e)' = Revision(e)
  BY DEF Revision
<1> QED
  BY <1>1 DEF EntriesFollowLog

LEMMA LogFrame ==
  ASSUME LogInv, UNCHANGED <<entries, cursor, msg, log, next>>,
         thread' = thread \/ (thread \notin Session /\ thread' \notin Session),
         \A s \in Session: pc'[s] = pc[s] \/ ~Pending(s)
  PROVE  LogInv'
<1>1. EntriesFollowLog'
  BY DEF LogInv, EntriesFollowLog, Revision
<1>2. NextFollowsLog'
  BY DEF LogInv, NextFollowsLog
<1>3. Sent' = Sent
  BY DEF Sent, Range
<1>4. SentOnce' /\ PendingIds' /\ LoggedIds' /\ LoggedBases'
  BY <1>3 DEF LogInv, SentInv, SentOnce, PendingIds, LoggedIds, LoggedBases, Range
<1>5. NothingPending'
  BY DEF LogInv, SentInv, NothingPending, Pending
<1> QED
  BY <1>1, <1>2, <1>4, <1>5 DEF LogInv, SentInv

\* Appending a mutation adds one to the revision of its entry only.
LEMMA RevisionGrows ==
  ASSUME TypeOK, NEW m \in Mutation, log' = Append(log, m), NEW e \in Entry
  PROVE  /\ Revision(e)' = IF e = m.entry THEN Revision(e) + 1 ELSE Revision(e)
         /\ Revision(e) \in Nat
<1> DEFINE n == Len(log)
           own == {i \in DOMAIN log: log[i].entry = e}
           own2 == {i \in DOMAIN log': log'[i].entry = e}
<1>1. /\ log \in Seq(Mutation) /\ n \in Nat /\ DOMAIN log = 1 .. n
      /\ DOMAIN log' = 1 .. n + 1 /\ log'[n + 1] = m
      /\ \A i \in 1 .. n: log'[i] = log[i]
  BY DEF TypeOK
<1>2. IsFiniteSet(own)
  <2>1. IsFiniteSet(1 .. n)
    BY <1>1, FS_Interval
  <2> QED
    BY <1>1, <2>1, FS_Subset
<1>3. Revision(e) = Cardinality(own) /\ Revision(e)' = Cardinality(own2)
  BY DEF Revision
<1>4. Cardinality(own) \in Nat
  BY <1>2, FS_CardinalityType
<1>5. CASE e = m.entry
  <2>1. own2 = own \cup {n + 1} /\ n + 1 \notin own
    BY <1>1, <1>5
  <2> HIDE DEF own, own2
  <2>2. Cardinality(own2) = Cardinality(own) + 1
    BY <1>2, <2>1, FS_AddElement
  <2> QED
    BY <1>3, <1>4, <1>5, <2>2
<1>6. CASE e # m.entry
  <2>1. own2 = own
    BY <1>1, <1>6
  <2> QED
    BY <1>3, <1>4, <1>6, <2>1
<1> QED
  BY <1>5, <1>6

\* An entry that has a revision has a place in the log.
LEMMA PlaceInLog ==
  ASSUME TypeOK, EntriesFollowLog, NEW e \in Entry, entries[e].rev > 0
  PROVE  entries[e].seq \in 1 .. Len(log)
<1> DEFINE own == {i \in DOMAIN log: log[i].entry = e}
<1>1. Cardinality(own) > 0
  BY DEF EntriesFollowLog, Revision
<1>2. own # {}
  <2> SUFFICES ASSUME own = {} PROVE FALSE
    OBVIOUS
  <2>1. Cardinality(own) = 0
    BY FS_EmptySet, Zenon
  <2> QED
    BY <1>1, <2>1
<1>3. PICK i \in DOMAIN log: log[i].entry = e
  BY <1>2
<1> QED
  BY <1>3 DEF EntriesFollowLog, TypeOK

-----------------------------------------------------------------------------
(* Sending *)

\* Asking the bucket about new mutations adds them to what was sent.
LEMMA ChecksSent ==
  ASSUME TypeOK, SentInv, NEW s \in Session, NEW ms \in Seq(Mutation),
         ~Pending(s), msg' = [msg EXCEPT ![s] = ms], UNCHANGED <<entries, log>>,
         pc' = [pc EXCEPT ![s] = "checking"],
         \A m1, m2 \in Range(ms): m1.id = m2.id => m1 = m2,
         \A m1 \in Range(ms), m2 \in Sent: m1.id = m2.id => m1 = m2,
         \A m \in Range(ms): m.id \in MutationId \cup RestoreId(s, m)
  PROVE  SentInv'
<1>1. /\ msg \in [Session -> Seq(Mutation)] /\ s \in Process
      /\ pc \in [Process -> InHandler \cup {"idle", "uploading"}]
  BY Parameters DEF TypeOK, HandlersOK
<1>2. \A t \in Session: msg'[t] = IF t = s THEN ms ELSE msg[t]
  BY <1>1
<1>3. Sent' \subseteq Sent \cup Range(ms)
  BY <1>2 DEF Sent, Range
<1>4. SentOnce'
  BY <1>3 DEF SentInv, SentOnce
<1>5. PendingIds'
  BY <1>2 DEF SentInv, PendingIds
<1>6. LoggedIds' /\ LoggedBases'
  BY DEF SentInv, LoggedIds, LoggedBases
<1>7. NothingPending'
  BY <1>1, <1>2, Parameters DEF SentInv, NothingPending, Pending
<1> QED
  BY <1>4, <1>5, <1>6, <1>7 DEF SentInv

\* A request that ends, in whatever way, forgets its mutations.
LEMMA ForgottenSent ==
  ASSUME TypeOK, SentInv, UNCHANGED <<entries, log>>,
         \A s \in Session: msg'[s] = <<>> \/ (msg'[s] = msg[s] /\ pc'[s] = pc[s])
  PROVE  SentInv'
<1>1. \A s \in Session: Range(msg'[s]) \subseteq Range(msg[s])
  BY DEF Range
<1>2. Sent' \subseteq Sent
  BY <1>1 DEF Sent, Range
<1>3. SentOnce'
  BY <1>2 DEF SentInv, SentOnce
<1>4. PendingIds'
  BY <1>1 DEF SentInv, PendingIds
<1>5. LoggedIds' /\ LoggedBases'
  BY DEF SentInv, LoggedIds, LoggedBases
<1>6. NothingPending'
  BY DEF SentInv, NothingPending, Pending
<1> QED
  BY <1>3, <1>4, <1>5, <1>6 DEF SentInv

-----------------------------------------------------------------------------
(* The steps *)

LEMMA LogSteps ==
  ASSUME TypeOK, [Next]_vars
  PROVE  \/ \E s \in Session: ApplyMutation(s)
         \/ \E s \in Session:
              ReceiveCommit(s) \/ RestoreVersions(s) \/ BeginCommit(s) \/ SaveCommit(s)
         \/ \E p \in Process: Abandon(p)
         \/ /\ UNCHANGED <<entries, cursor, msg, log, next>>
            /\ thread' = thread \/ (thread \notin Session /\ thread' \notin Session)
            /\ \A s \in Session: pc'[s] = pc[s] \/ ~Pending(s)
<1> DEFINE Quiet ==
             /\ UNCHANGED <<entries, cursor, msg, log, next>>
             /\ thread' = thread \/ (thread \notin Session /\ thread' \notin Session)
             /\ \A s \in Session: pc'[s] = pc[s] \/ ~Pending(s)
<1> USE Parameters, ProcessAssumption DEF Pending
<1>1. pc \in [Process -> InHandler \cup {"idle", "uploading"}]
  BY DEF TypeOK, HandlersOK
<1>2. ASSUME NEW s \in Session, NEW b \in Blob, NEW n \in ByteSize, StageBlob(s, b, n)
      PROVE  Quiet
  <2>1. pc[s] = "idle" /\ UNCHANGED <<entries, cursor, msg, log, next, thread>>
    BY <1>2 DEF StageBlob, Enter
  <2>2. pc' = pc \/ pc' = [pc EXCEPT ![s] = "uploading"]
    <3>1. CASE StageFindsCorruption(b)
      BY <1>2, <3>1, Zenon DEF StageBlob
    <3>2. CASE ~StageFindsCorruption(b)
      BY <1>2, <3>2, Zenon DEF StageBlob
    <3> QED
      BY <3>1, <3>2
  <2> QED
    BY <1>1, <2>1, <2>2
<1>3. ASSUME NEW s \in Session, NEW b \in Blob,
             PutObject(s, b) \/ AbortUpload(s, b) \/ CheckObject(s, b)
      PROVE  Quiet
  BY <1>1, <1>3 DEF PutObject, AbortUpload, CheckObject, Resume, store
<1>4. ASSUME NEW s \in Session, SkipMutation(s)
      PROVE  Quiet
  BY <1>1, <1>4 DEF SkipMutation, store
<1>5. ASSUME NEW s \in Session, PurgeEntries(s)
      PROVE  Quiet
  BY <1>1, <1>5 DEF PurgeEntries, Enter, Await
<1>6. ASSUME NEW s \in Session, CollectPurged(s)
      PROVE  Quiet
  <2>1. PICK D \in SUBSET Blob: DeleteBatch(s, D, now)
    BY <1>6 DEF CollectPurged, TypeOK, HandlersOK
  <2> QED
    BY <1>1, <1>6, <2>1 DEF CollectPurged, DeleteBatch, Finish, Await, Resume
<1>7. ASSUME StartGc
      PROVE  Quiet
  BY <1>1, <1>7 DEF StartGc, Enter, Await, store
<1>8. ASSUME ListCollectible
      PROVE  Quiet
  <2>1. PICK D \in SUBSET Blob: DeleteBatch(Alarm, D, at[Alarm])
    BY <1>8 DEF ListCollectible, Batches
  <2> QED
    BY <1>1, <1>8, <2>1 DEF ListCollectible, DeleteBatch, Finish, Await, Resume
<1>9. ASSUME NEW p \in Session \cup {Alarm}, NEW b \in Blob, DeleteObject(p, b) \/ DeleteFails(p, b)
      PROVE  Quiet
  BY <1>1, <1>9 DEF DeleteObject, DeleteFails
<1>10. ASSUME NEW p \in Session \cup {Alarm}, DeleteRecords(p)
       PROVE  Quiet
  BY <1>1, <1>10 DEF DeleteRecords, Finish, Resume
<1>11. ASSUME NEW r \in Repairer, StartRepair(r)
       PROVE  Quiet
  BY <1>1, <1>11 DEF StartRepair, Enter, Await, store
<1>12. ASSUME NEW r \in Repairer, NEW b \in Blob, RepairRow(r, b)
       PROVE  Quiet
  <2>1. /\ UNCHANGED <<entries, cursor, msg, log, next>> /\ thread = r
    BY <1>12 DEF RepairRow
  <2>2. (pc' = pc /\ thread' = thread) \/ (thread' = Free /\ pc' = [pc EXCEPT ![r] = "erasing"])
    <3>1. CASE RepairKeeps(b, at[r])
      BY <1>12, <3>1, Zenon DEF RepairRow
    <3>2. CASE ~RepairKeeps(b, at[r])
      BY <1>12, <3>2, Zenon DEF RepairRow, Await
    <3> QED
      BY <3>1, <3>2
  <2> QED
    BY <1>1, <2>1, <2>2
<1>13. ASSUME NEW r \in Repairer, EraseObject(r)
       PROVE  Quiet
  BY <1>1, <1>13 DEF EraseObject, Resume, Await
<1>14. ASSUME NEW r \in Repairer, FinishRepair(r)
       PROVE  Quiet
  BY <1>1, <1>14 DEF FinishRepair, Finish
<1>15. ASSUME PauseSync \/ ResumeSync \/ ApplyPolicy \/ Tick \/ UNCHANGED vars
       PROVE  Quiet
  BY <1>1, <1>15 DEF PauseSync, ResumeSync, ApplyPolicy, Tick, vars, store, handler
<1> QED
  BY <1>2, <1>3, <1>4, <1>5, <1>6, <1>7, <1>8, <1>9, <1>10, <1>11, <1>12, <1>13, <1>14, <1>15
  DEF Next, Upload, Commit, Purge, Collect, Delete, Repair

LEMMA RangeExtends ==
  ASSUME NEW n \in Nat, NEW s, DOMAIN s = 1 .. n, NEW x, NEW t,
         DOMAIN t = 1 .. n + 1, t[n + 1] = x, \A i \in 1 .. n: t[i] = s[i]
  PROVE  Range(t) = Range(s) \cup {x}
<1>1. Range(t) = {t[i] : i \in 1 .. n + 1} /\ Range(s) = {s[i] : i \in 1 .. n}
  BY DEF Range
<1>2. 1 .. n + 1 = 1 .. n \cup {n + 1}
  OBVIOUS
<1> QED
  BY <1>1, <1>2

LEMMA ApplyLog ==
  ASSUME TypeOK, LogInv, NEW s \in Session, ApplyMutation(s)
  PROVE  LogInv' /\ Log!Next
<1> DEFINE m == msg[s][step]
           n == Len(log)
<1>0. m \in Mutation /\ m \in Range(msg[s]) /\ m.entry \in Entry
  <2>1. msg[s] \in Seq(Mutation) /\ step \in 1 .. Len(msg[s])
    BY DEF ApplyMutation, Committing, TypeOK, HandlersOK
  <2>2. m \in Mutation
    BY <2>1
  <2>3. m \in Range(msg[s])
    BY <2>1 DEF Range
  <2> QED
    BY <2>2, <2>3 DEF Mutation
<1>1. /\ m \in Mutation /\ m \in Range(msg[s]) /\ m.entry \in Entry
      /\ m.base = entries[m.entry].rev /\ thread = s /\ pc[s] = "committing"
      /\ entries' = Mutated(m, next + 1) /\ next' = next + 1 /\ log' = Append(log, m)
      /\ UNCHANGED <<thread, pc, msg, cursor>>
  BY <1>0 DEF ApplyMutation, Applies, Committing
<1>2. /\ next = n /\ log \in Seq(Mutation) /\ n \in Nat
      /\ Len(log') = n + 1 /\ log'[n + 1] = m /\ \A i \in 1 .. n: log'[i] = log[i]
      /\ DOMAIN log = 1 .. n /\ DOMAIN log' = 1 .. n + 1
  BY <1>1 DEF LogInv, NextFollowsLog, TypeOK
<1>3. /\ \A e \in Entry: entries[e] \in EntryRow
      /\ \A e \in Entry \ {m.entry}: entries'[e] = entries[e]
      /\ entries'[m.entry].rev = m.base + 1 /\ entries'[m.entry].blob = m.blob
      /\ entries'[m.entry].seq = n + 1
  BY <1>1, <1>2 DEF Mutated, TypeOK, TablesOK
<1>4. \A e \in Entry: entries[e].rev \in Nat
  BY <1>3 DEF EntryRow
<1>5. m \in Sent /\ Range(log') = Range(log) \cup {m}
  <2>1. m \in Sent
    BY <1>1 DEF Sent
  <2>2. Range(log') = Range(log) \cup {m}
    <3>1. DOMAIN log = 1 .. n /\ DOMAIN log' = 1 .. n + 1 /\ n \in Nat
      BY <1>2
    <3>2. log'[n + 1] = m /\ \A i \in 1 .. n: log'[i] = log[i]
      BY <1>2
    <3> HIDE DEF n, m
    <3> QED BY <3>1, <3>2, RangeExtends
  <2> QED
    BY <2>1, <2>2
<1>6. EntriesFollowLog'
  <2> SUFFICES ASSUME NEW e \in Entry
               PROVE  /\ entries'[e].rev = Revision(e)'
                      /\ \A i \in DOMAIN log': log'[i].entry = e => entries'[e].seq \in i .. Len(log')
                      /\ entries'[e].rev > 0 => /\ log'[entries'[e].seq].entry = e
                                                /\ log'[entries'[e].seq].blob = entries'[e].blob
    BY <1>1 DEF EntriesFollowLog
  <2>1. entries[e].rev = Revision(e)
    BY DEF LogInv, EntriesFollowLog
  <2>2. CASE e = m.entry
    <3>1. entries'[e].rev = Revision(e)'
      BY <1>1, <1>3, <2>1, <2>2, RevisionGrows
    <3> QED
      BY <1>2, <1>3, <2>2, <3>1
  <2>3. CASE e # m.entry
    <3>1. entries'[e].rev = Revision(e)' /\ entries'[e] = entries[e]
      BY <1>1, <1>3, <2>1, <2>3, RevisionGrows
    <3>2. \A i \in 1 .. n: log[i].entry = e => entries[e].seq \in i .. n
      BY <1>2 DEF LogInv, EntriesFollowLog
    <3>3. \A i \in DOMAIN log': log'[i].entry = e => entries'[e].seq \in i .. Len(log')
      BY <1>2, <2>3, <3>1, <3>2
    <3>4. ASSUME entries[e].rev > 0
          PROVE  log'[entries[e].seq] = log[entries[e].seq]
      BY <1>2, <3>4, PlaceInLog DEF LogInv
    <3>5. entries[e].rev > 0 => /\ log[entries[e].seq].entry = e
                                /\ log[entries[e].seq].blob = entries[e].blob
      BY DEF LogInv, EntriesFollowLog
    <3> QED
      BY <3>1, <3>3, <3>4, <3>5
  <2> QED
    BY ZenonT(90), <2>2, <2>3
<1>7. NextFollowsLog'
  BY <1>1, <1>2 DEF NextFollowsLog
<1>8. SentInv'
  <2>1. Sent' \subseteq Sent
    BY <1>1, <1>5 DEF Sent
  <2>2. SentOnce'
    BY <2>1 DEF LogInv, SentInv, SentOnce
  <2>3. PendingIds' /\ NothingPending'
    BY <1>1 DEF LogInv, SentInv, PendingIds, NothingPending, Pending
  <2>4. LoggedIds'
    BY <1>1, <1>5 DEF LogInv, SentInv, PendingIds, LoggedIds
  <2>5. LoggedBases'
    <3> SUFFICES ASSUME NEW l \in Range(log') PROVE l.base < entries'[l.entry].rev
      BY DEF LoggedBases
    <3>1. l \in Mutation
      BY <1>1, <1>2, <1>5 DEF Range
    <3>2. l # m => l.base < entries[l.entry].rev
      BY <1>5 DEF LogInv, SentInv, LoggedBases
    <3>3. l.entry \in Entry /\ l.base \in Nat
      BY <3>1 DEF Mutation
    <3>4. CASE l = m
      BY <1>1, <1>3, <3>3, <3>4
    <3>5. CASE l # m /\ l.entry = m.entry
      BY <1>1, <1>3, <1>4, <3>2, <3>3, <3>5
    <3>6. CASE l # m /\ l.entry # m.entry
      BY <1>3, <3>2, <3>3, <3>6
    <3> QED
      BY <3>4, <3>5, <3>6
  <2> QED
    BY <2>2, <2>3, <2>4, <2>5 DEF SentInv
<1>9. Log!Next
  <2>1. Vault[m.entry].rev = m.base
    BY <1>1 DEF Vault
  <2>2. ~Log!Logged(m.id)
    <3> SUFFICES ASSUME NEW i \in DOMAIN log, log[i].id = m.id PROVE FALSE
      BY DEF Log!Logged
    <3>1. log[i] \in Range(log)
      BY DEF Range
    <3>2. log[i] = m
      BY <1>5, <3>1 DEF LogInv, SentInv, SentOnce, Sent
    <3>3. m.base < entries[m.entry].rev
      BY <3>1, <3>2 DEF LogInv, SentInv, LoggedBases
    <3> QED
      BY <1>1, <1>4, <3>3
  <2>3. Vault' = [Vault EXCEPT ![m.entry] = [rev |-> m.base + 1, blob |-> m.blob]]
    BY <1>1, <1>3 DEF Vault
  <2> QED
    BY <1>1, <1>2, <2>1, <2>2, <2>3 DEF Log!Next, Log!Accepts
<1> QED
  BY <1>6, <1>7, <1>8, <1>9 DEF LogInv

\* What a client sends is new or repeated, and a restore is new.
LEMMA ReceiveLog ==
  ASSUME TypeOK, LogInv, NEW s \in Session, ReceiveCommit(s) \/ RestoreVersions(s)
  PROVE  LogInv'
<1> DEFINE Chosen(ms) ==
             /\ \A m1, m2 \in Range(ms): m1.id = m2.id => m1 = m2
             /\ \A m1 \in Range(ms), m2 \in Sent: m1.id = m2.id => m1 = m2
             /\ \A m \in Range(ms): m.id \in MutationId \cup RestoreId(s, m)
<1>1. pc[s] = "idle" /\ UNCHANGED <<entries, cursor, log, thread, next>> /\ ~Pending(s)
  BY DEF ReceiveCommit, RestoreVersions, Enter, store, Pending
<1> SUFFICES \E ms \in Seq(Mutation): Chosen(ms) /\ StartChecks(s, ms)
  <2>1. PICK ms \in Seq(Mutation): Chosen(ms) /\ StartChecks(s, ms)
    OBVIOUS
  <2>2. pc' = [pc EXCEPT ![s] = "checking"] /\ msg' = [msg EXCEPT ![s] = ms]
    BY <2>1 DEF StartChecks, Await
  <2>3. SentInv'
    BY <1>1, <2>1, <2>2, ChecksSent DEF LogInv
  <2>4. EntriesFollowLog' /\ NextFollowsLog'
    BY <1>1 DEF LogInv, EntriesFollowLog, NextFollowsLog, Revision
  <2> QED
    BY <2>3, <2>4 DEF LogInv
<1>2. CASE ReceiveCommit(s)
  <2>1. PICK n \in 1 .. MaxBatch: \E ms \in [1 .. n -> {m \in ClientMutation: Fresh(m)}]:
          /\ \A i, j \in 1 .. n: ms[i].id = ms[j].id => ms[i] = ms[j]
          /\ StartChecks(s, ms)
    BY <1>2 DEF ReceiveCommit
  <2>2. PICK ms \in [1 .. n -> {m \in ClientMutation: Fresh(m)}]:
          /\ \A i, j \in 1 .. n: ms[i].id = ms[j].id => ms[i] = ms[j]
          /\ StartChecks(s, ms)
    BY <2>1
  <2>3. Range(ms) \subseteq {m \in ClientMutation: Fresh(m)}
    BY DEF Range
  <2>4. \A m \in ClientMutation: m \in Mutation /\ m.id \in MutationId
    BY ClientMutationType
  <2>5. ms \in Seq(Mutation)
    BY <2>4, BoundAssumption
  <2>6. Chosen(ms)
    <3>1. \A m1, m2 \in Range(ms): m1.id = m2.id => m1 = m2
      BY <2>2 DEF Range
    <3>2. \A m1 \in Range(ms), m2 \in Sent: m1.id = m2.id => m1 = m2
      BY <2>3 DEF Fresh
    <3>3. \A m \in Range(ms): m.id \in MutationId
      BY <2>3, <2>4
    <3> QED
      BY <3>1, <3>2, <3>3
  <2> QED
    BY <2>2, <2>5, <2>6
<1>3. CASE RestoreVersions(s)
  <2>1. PICK n \in 1 .. MaxBatch: \E vs \in [1 .. n -> history]:
          StartChecks(s, [i \in 1 .. n |-> RestoreMutation(s, i, vs[i])])
    BY <1>3 DEF RestoreVersions
  <2>2. PICK vs \in [1 .. n -> history]:
          StartChecks(s, [i \in 1 .. n |-> RestoreMutation(s, i, vs[i])])
    BY <2>1
  <2> DEFINE ms == [i \in 1 .. n |-> RestoreMutation(s, i, vs[i])]
  <2>3. \A i \in 1 .. n: /\ ms[i] \in Mutation /\ ms[i].entry \in Entry /\ i \in Nat
                          /\ ms[i].id = <<s, i, ms[i].entry, ms[i].base>>
                          /\ ms[i].base = entries[ms[i].entry].rev /\ ms[i].base \in Nat
    <3>1. \A i \in 1 .. n: i \in Nat /\ vs[i] \in history
      BY <2>2
    <3>2. ASSUME NEW i \in Nat, NEW v \in history
          PROVE  LET m == RestoreMutation(s, i, v)
                 IN /\ m \in Mutation /\ m.id = <<s, i, m.entry, m.base>>
                    /\ m.entry \in Entry /\ m.base = entries[m.entry].rev
                    /\ m.base \in Nat
      BY ZenonT(90), RestoreMutationType
    <3>3. \A i \in 1 .. n: ms[i] = RestoreMutation(s, i, vs[i])
      OBVIOUS
    <3> QED BY ZenonT(90), <3>1, <3>2, <3>3
  <2>4. ms \in Seq(Mutation) /\ Range(ms) = {ms[i] : i \in 1 .. n}
    <3>1. ms \in [1 .. n -> Mutation] /\ n \in Nat
      BY <2>3, BoundAssumption
    <3>2. DOMAIN ms = 1 .. n
      OBVIOUS
    <3> HIDE DEF ms
    <3> QED BY <3>1, <3>2 DEF Range
  <2>5. StartChecks(s, ms)
    BY <2>2
  <2> HIDE DEF ms
  <2>6. \A m1, m2 \in Range(ms): m1.id = m2.id => m1 = m2
    BY <2>3, <2>4
  <2>7. \A m \in Range(ms): m.id \in RestoreId(s, m)
    BY ZenonT(90), <2>3, <2>4 DEF RestoreId
  <2>8. ASSUME NEW m \in Range(ms), NEW other \in Sent PROVE other.id # m.id
    <3> SUFFICES ASSUME other.id = m.id PROVE FALSE
      OBVIOUS
    <3>1. PICK i \in Nat: /\ m.id = <<s, i, m.entry, m.base>> /\ m.entry \in Entry
                          /\ m.base = entries[m.entry].rev /\ m.base \in Nat
      BY <2>3, <2>4
    <3>2. other.id \notin MutationId
      BY <3>1, SentinelAssumption
    <3>3. CASE other \in Range(log)
      <4>1. PICK t \in Session, j \in Nat: other.id = <<t, j, other.entry, other.base>>
        BY <3>2, <3>3 DEF LogInv, SentInv, LoggedIds, RestoreId
      <4>2. other.entry = m.entry /\ other.base = m.base
        BY <3>1, <4>1
      <4> QED
        BY <3>1, <3>3, <4>2 DEF LogInv, SentInv, LoggedBases
    <3>4. CASE \E t \in Session: other \in Range(msg[t])
      <4>1. PICK t \in Session: other \in Range(msg[t])
        BY <3>4
      <4>2. t = s
        <5>1. PICK j \in Nat: other.id = <<t, j, other.entry, other.base>>
          BY <3>2, <4>1 DEF LogInv, SentInv, PendingIds, RestoreId
        <5> QED
          BY <3>1, <5>1
      <4>3. msg[s] = <<>>
        BY <1>1 DEF LogInv, SentInv, NothingPending
      <4> QED
        BY <4>1, <4>2, <4>3 DEF Range
    <3> QED
      BY <3>3, <3>4 DEF Sent
  <2> QED
    BY <2>4, <2>5, <2>6, <2>7, <2>8
<1> QED
  BY <1>1, <1>2, <1>3

LEMMA BeginLog ==
  ASSUME TypeOK, LogInv, NEW s \in Session, BeginCommit(s)
  PROVE  LogInv'
<1>1. /\ pc[s] = "checking" /\ thread = Free /\ UNCHANGED <<entries, cursor, log>>
      /\ msg \in [Session -> Seq(Mutation)] /\ s \in Process
      /\ pc \in [Process -> InHandler \cup {"idle", "uploading"}]
  BY Parameters DEF BeginCommit, Resume, store, TypeOK, HandlersOK
<1>2. cursor = Len(log)
  BY <1>1, ProcessAssumption DEF LogInv, EntriesFollowLog
<1>3. CASE WritesAllowed
  <2>1. /\ pc' = [pc EXCEPT ![s] = "committing"] /\ thread' = s /\ next' = cursor
        /\ UNCHANGED msg
    BY <1>3, Zenon DEF BeginCommit
  <2>2. EntriesFollowLog' /\ NextFollowsLog'
    BY <1>1, <1>2, <2>1, EntriesFrame DEF LogInv, NextFollowsLog
  <2>3. SentOnce' /\ PendingIds' /\ LoggedIds' /\ LoggedBases'
    BY <1>1, <2>1 DEF LogInv, SentInv, SentOnce, PendingIds, LoggedIds, LoggedBases, Sent
  <2>4. NothingPending'
    BY <1>1, <2>1, Parameters DEF LogInv, SentInv, NothingPending, Pending
  <2> QED
    BY <2>2, <2>3, <2>4 DEF LogInv, SentInv
<1>4. CASE ~WritesAllowed
  <2>1. Finish(s) /\ msg' = [msg EXCEPT ![s] = <<>>] /\ UNCHANGED <<thread, next>>
    BY <1>4, Zenon DEF BeginCommit
  <2>2. EntriesFollowLog' /\ NextFollowsLog'
    BY <1>1, <1>2, <2>1, EntriesFrame, ProcessAssumption DEF LogInv, NextFollowsLog
  <2>3. \A t \in Session: msg'[t] = <<>> \/ (msg'[t] = msg[t] /\ pc'[t] = pc[t])
    BY <1>1, <2>1, Parameters DEF Finish
  <2>4. SentInv'
    BY <1>1, <2>3, ForgottenSent DEF LogInv
  <2> QED
    BY <2>2, <2>4 DEF LogInv
<1> QED
  BY <1>3, <1>4

LEMMA SaveLog ==
  ASSUME TypeOK, LogInv, NEW s \in Session, SaveCommit(s)
  PROVE  LogInv'
<1>1. /\ thread = s /\ thread' = Free /\ cursor' = next /\ UNCHANGED <<entries, log, next>>
      /\ msg' = [msg EXCEPT ![s] = <<>>] /\ pc' = [pc EXCEPT ![s] = "idle"]
      /\ msg \in [Session -> Seq(Mutation)] /\ s \in Process
      /\ pc \in [Process -> InHandler \cup {"idle", "uploading"}]
  BY Parameters DEF SaveCommit, Finish, TypeOK, HandlersOK
<1>2. cursor' = Len(log)
  BY <1>1 DEF LogInv, NextFollowsLog
<1>3. EntriesFollowLog' /\ NextFollowsLog'
  BY <1>1, <1>2, ProcessAssumption, EntriesFrame DEF LogInv, NextFollowsLog
<1>4. \A t \in Session: msg'[t] = <<>> \/ (msg'[t] = msg[t] /\ pc'[t] = pc[t])
  BY <1>1, Parameters
<1>5. SentInv'
  BY <1>1, <1>4, ForgottenSent DEF LogInv
<1> QED
  BY <1>3, <1>5 DEF LogInv

LEMMA AbandonLog ==
  ASSUME TypeOK, LogInv, NEW p \in Process, Abandon(p)
  PROVE  LogInv'
<1>1. /\ UNCHANGED <<entries, cursor, log, thread, next>>
      /\ pc' = [pc EXCEPT ![p] = "idle"]
      /\ msg' = [s \in Session |-> IF s = p THEN <<>> ELSE msg[s]]
      /\ msg \in [Session -> Seq(Mutation)]
      /\ pc \in [Process -> InHandler \cup {"idle", "uploading"}]
  BY DEF Abandon, Finish, store, TypeOK, HandlersOK
<1>2. EntriesFollowLog' /\ NextFollowsLog'
  BY ZenonT(90), <1>1 DEF LogInv, EntriesFollowLog, NextFollowsLog, Revision
<1>3. \A t \in Session: msg'[t] = <<>> \/ (msg'[t] = msg[t] /\ pc'[t] = pc[t])
  BY <1>1, Parameters
<1>4. SentInv'
  BY <1>1, <1>3, ForgottenSent DEF LogInv
<1> QED
  BY <1>2, <1>4 DEF LogInv

-----------------------------------------------------------------------------
(* The coordinator implements the log *)

LEMMA InitLog == Init => LogInv /\ Log!Init
<1> SUFFICES ASSUME Init PROVE LogInv /\ Log!Init
  OBVIOUS
<1>1. /\ log = <<>> /\ cursor = 0 /\ thread = Free /\ \A s \in Session: msg[s] = <<>>
      /\ \A e \in Entry: entries[e].rev = 0 /\ entries[e].blob = NoBlob
  BY DEF Init
<1>2. \A e \in Entry: Revision(e) = 0
  <2> SUFFICES ASSUME NEW e \in Entry PROVE Revision(e) = 0
    OBVIOUS
  <2>1. {i \in DOMAIN log: log[i].entry = e} = {}
    BY <1>1
  <2> QED
    BY <2>1, FS_EmptySet DEF Revision
<1>3. EntriesFollowLog /\ NextFollowsLog
  BY <1>1, <1>2, ProcessAssumption DEF EntriesFollowLog, NextFollowsLog
<1>4. Range(log) = {} /\ Sent = {} /\ \A s \in Session: Range(msg[s]) = {}
  BY <1>1 DEF Sent, Range
<1>5. SentInv
  BY <1>1, <1>4 DEF SentInv, SentOnce, PendingIds, LoggedIds, LoggedBases, NothingPending
<1>6. Log!Init
  BY <1>1 DEF Log!Init, Vault
<1> QED
  BY <1>3, <1>5, <1>6 DEF LogInv

LEMMA LogSafe ==
  ASSUME TypeOK, LogInv, [Next]_vars
  PROVE  LogInv' /\ [Log!Next]_<<log, Vault>>
<1>1. ASSUME NEW s \in Session, ApplyMutation(s)
      PROVE  LogInv' /\ Log!Next
  BY <1>1, ApplyLog
<1>2. ASSUME NEW s \in Session,
             ReceiveCommit(s) \/ RestoreVersions(s) \/ BeginCommit(s) \/ SaveCommit(s)
      PROVE  LogInv' /\ UNCHANGED <<entries, log>>
  <2>1. LogInv'
    BY <1>2, ReceiveLog, BeginLog, SaveLog
  <2>2. UNCHANGED <<entries, log>>
    BY <1>2 DEF ReceiveCommit, RestoreVersions, BeginCommit, SaveCommit, store
  <2> QED
    BY <2>1, <2>2
<1>3. ASSUME NEW p \in Process, Abandon(p)
      PROVE  LogInv' /\ UNCHANGED <<entries, log>>
  <2>1. UNCHANGED <<entries, log>>
    BY <1>3 DEF Abandon, store
  <2> QED
    BY <1>3, <2>1, AbandonLog
<1>4. ASSUME UNCHANGED <<entries, cursor, msg, log, next>>,
             thread' = thread \/ (thread \notin Session /\ thread' \notin Session),
             \A s \in Session: pc'[s] = pc[s] \/ ~Pending(s)
      PROVE  LogInv' /\ UNCHANGED <<entries, log>>
  BY <1>4, LogFrame
<1>5. UNCHANGED <<entries, log>> => UNCHANGED <<log, Vault>>
  BY DEF Vault
<1> QED
  BY <1>1, <1>2, <1>3, <1>4, <1>5, LogSteps

LEMMA LogInvariant == Spec => []LogInv
<1>1. TypeOK /\ LogInv /\ [Next]_vars => LogInv'
  BY LogSafe
<1> QED
  BY <1>1, InitLog, Typing, PTL DEF Spec

\* Each entry is what the log says of it, and the cursor counts the log, for any
\* number of entries, requests and mutations.
THEOREM EntriesAreTheLog == Spec => []EntriesFollowLog
<1>1. LogInv => EntriesFollowLog
  BY DEF LogInv
<1> QED
  BY <1>1, LogInvariant, PTL

\* A mutation is applied once, and only to the revision it was made from:
\* every step of the coordinator is a step of the log or leaves it alone.
THEOREM ImplementsLog == Spec => CommitsExtendLog
<1>1. TypeOK /\ LogInv /\ [Next]_vars => [Log!Next]_<<log, Vault>>
  BY LogSafe
<1> QED
  BY <1>1, InitLog, Typing, LogInvariant, PTL DEF Spec, CommitsExtendLog, Log!Spec
=============================================================================
