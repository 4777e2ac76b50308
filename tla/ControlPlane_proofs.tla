------------------------ MODULE ControlPlane_proofs ------------------------
(***************************************************************************)
(* Proofs about the control plane, for any organization: every number of   *)
(* members, vaults, invitations and jobs, every limit and every scenario.  *)
(*                                                                         *)
(*   1. which actions write which variables;                               *)
(*   2. types, of the rows and of what a job holds at each of its steps;   *)
(*   3. seats, 4. keys, 5. e-mails, 6. deletion notices, 7. checkouts:     *)
(*      one inductive invariant each, on top of the types.                 *)
(* ControlPlaneAccess_proofs goes on from here.                            *)
(***************************************************************************)
EXTENDS ControlPlaneProperties, FiniteSetTheorems, TLAPS

-----------------------------------------------------------------------------
(* 1. Who writes what.                                                     *)

(* One conjunct a variable: it stays, or one of these steps was taken.      *)
Writers(j) ==
  /\ role' = role \/ AcceptInvitation(j) \/ ChangeOrganizationRole(j)
       \/ RemoveOrganizationMember(j)
  /\ invite' = invite \/ CreateInvitation(j) \/ SetInvitationStatus(j)
       \/ AcceptInvitation(j)
  /\ claims' = claims \/ ClaimInvitationDelivery(j)
  /\ grant' = grant \/ RemoveOrganizationMember(j) \/ EnsureVaultEnrollment(j)
       \/ CompleteKeyRequest(j) \/ CreateVaultForUser(j) \/ HardDeleteVault(j)
  /\ wrapper' = wrapper \/ RemoveOrganizationMember(j) \/ CompleteKeyRequest(j)
       \/ UpsertPasswordWrapper(j) \/ CreateVaultForUser(j)
       \/ HardDeleteVault(j)
  /\ keyRequest' = keyRequest \/ RemoveOrganizationMember(j)
       \/ CreateKeyRequest(j) \/ ApproveKeyRequest(j) \/ CompleteKeyRequest(j)
       \/ UpsertPasswordWrapper(j) \/ ListRefreshes(j) \/ HardDeleteVault(j)
  /\ vault' = vault \/ AcceptInvitation(j) \/ CreateVaultForUser(j)
       \/ ClaimForDelete(j) \/ ClaimCandidate(j) \/ RestoreVault(j)
       \/ MarkVaultPurgeRunning(j) \/ HardDeleteVault(j) \/ PurgeFails(j)
  /\ outbox' = outbox \/ AcceptInvitation(j) \/ RemoveOrganizationMember(j)
       \/ QueueVaultRefresh(j) \/ FinishRefresh(j) \/ HardDeleteVault(j)
  /\ revision' = revision \/ AcceptInvitation(j) \/ RemoveOrganizationMember(j)
       \/ QueueVaultRefresh(j)
  /\ subscription' = subscription \/ UpsertSubscription(j)
  /\ provider' = provider \/ UpdateProduct(j)
  /\ webhooks' = webhooks \/ UpdateProduct(j) \/ NotifyUpsert(j)
  /\ tokens' = tokens \/ MintToken(j)
  /\ sessions' = sessions \/ AcceptSocket(j) \/ ApplyRefresh(j)
       \/ CloseForPurge(j)
  /\ revocation' = revocation \/ ApplyRefresh(j) \/ EraseState(j)
  /\ refreshTail' = refreshTail \/ CallCoordinator(j) \/ CallPolicy(j)
       \/ SnapshotRefused(j) \/ RefreshFails(j) \/ ApplyRefresh(j)
  /\ coordinator' = coordinator \/ AcceptSocket(j) \/ EraseState(j)
  /\ purges' = purges \/ EnqueuePurge(j) \/ Acknowledge(j) \/ PurgeFails(j)
       \/ ConsumerFails(j)
  /\ notices' = notices \/ EnqueueNotice(j) \/ SendNotice(j) \/ SendFails(j)
  /\ letters' = letters \/ SendNotice(j) \/ SendFails(j)
  /\ idle' = idle
  /\ bound' = bound \/ UpsertSubscription(j)
  /\ customers' = customers \/ CreateCustomer(j)
  /\ opened' = opened \/ OpenCheckout(j) \/ OpenPortal(j)
  /\ limits' = limits \/ AcceptSocket(j) \/ ApplyVaultPolicy(j)
  /\ refreshes' = refreshes \/ NotifyUpsert(j) \/ SettlePolicy(j)
  /\ lost' = lost \/ PurgeFails(j) \/ ConsumerFails(j) \/ SendFails(j)
       \/ NotifyFails(j) \/ SettlePolicy(j) \/ Abandon(j)
  /\ now' = now

\* The first checks of a request write nothing but the job and its budget.
LEMMA StartWrites ==
  ASSUME NEW j \in Jobs, StartRequest(j)
  PROVE  /\ UNCHANGED <<memberVars, keyVars, vault, outboxVars, accessVars,
                        coordinator, purgeVars, billingVars, lost, now>>
         /\ Writers(j)
<1>. USE DEF memberVars, inviteVars, keyVars, outboxVars, accessVars,
     noticeVars, purgeVars, checkoutVars, billingVars
<1>1. CASE StartSharing(j)
  BY ZenonT(90), <1>1 DEF StartSharing, outside, StartInvite, StartChangeRole,
     StartRemoveMember, StartCancel, StartResend, StartReject, StartAccept,
     StartKeyRequest, StartReplacePassword, StartViewOrganization,
     StartApprove, StartComplete, Writers
<1>2. CASE StartAccess(j)
  BY <1>2 DEF StartAccess, StartIssueToken, StartConnect, rows, Writers
<1>3. CASE StartLifecycle(j)
  BY <1>3 DEF StartLifecycle, StartCreateVault, StartDeleteVault,
     StartRetention, Writers
<1>4. CASE StartBilling(j)
  BY ZenonT(90),
     <1>4 DEF StartBilling, StartChangePlan, StartCheckout, StartPortal,
     otherVars, Writers
<1> QED BY <1>1, <1>2, <1>3, <1>4 DEF StartRequest


\* One step of a sharing request or of a flush of the outbox.
LEMMA SharingWrites ==
  ASSUME NEW j \in Jobs, SharingStep(j)
  PROVE  Writers(j)
<1>. USE DEF Writers, memberVars, inviteVars, keyVars, outboxVars,
     accessVars, noticeVars, purgeVars, checkoutVars, billingVars, outside
<1>1. CASE CreateInvitation(j) BY <1>1 DEF CreateInvitation
<1>2. CASE ClaimInvitationDelivery(j) BY <1>2 DEF ClaimInvitationDelivery
<1>3. CASE SetInvitationStatus(j) BY <1>3 DEF SetInvitationStatus
<1>4. CASE AcceptInvitation(j) BY <1>4 DEF AcceptInvitation
<1>5. CASE ChangeOrganizationRole(j) BY <1>5 DEF ChangeOrganizationRole
<1>6. CASE RemoveOrganizationMember(j) BY <1>6 DEF RemoveOrganizationMember
<1>7. CASE EnsureVaultEnrollment(j) BY <1>7 DEF EnsureVaultEnrollment
<1>8. CASE RereadGrant(j) BY <1>8 DEF RereadGrant
<1>9. CASE CreateKeyRequest(j) BY <1>9 DEF CreateKeyRequest
<1>10. CASE ApproveKeyRequest(j) BY ZenonT(90), <1>10 DEF ApproveKeyRequest
<1>11. CASE CompleteKeyRequest(j) BY <1>11 DEF CompleteKeyRequest
<1>12. CASE QueueVaultRefresh(j) BY <1>12 DEF QueueVaultRefresh
<1>13. CASE UpsertPasswordWrapper(j) BY <1>13 DEF UpsertPasswordWrapper
<1>14. CASE ListRefreshes(j) BY <1>14 DEF ListRefreshes
<1>15. CASE CallCoordinator(j) BY <1>15 DEF CallCoordinator
<1>16. CASE FinishRefresh(j) BY <1>16 DEF FinishRefresh
<1> QED BY <1>1, <1>2, <1>3, <1>4, <1>5, <1>6, <1>7, <1>8, <1>9, <1>10, <1>11,
     <1>12, <1>13, <1>14, <1>15, <1>16 DEF SharingStep

\* One step of a token, a socket or an access refresh.
LEMMA AccessWrites ==
  ASSUME NEW j \in Jobs, AccessStep(j)
  PROVE  Writers(j)
<1>. USE DEF Writers, memberVars, inviteVars, keyVars, outboxVars,
     accessVars, noticeVars, purgeVars, checkoutVars, billingVars, rows
<1>1. CASE MintToken(j) BY <1>1 DEF MintToken
<1>2. CASE AcceptSocket(j) BY <1>2 DEF AcceptSocket
<1>3. CASE ReadVersions(j) BY <1>3 DEF ReadVersions
<1>4. CASE SnapshotRefused(j) BY <1>4 DEF SnapshotRefused, FailRefresh
<1>5. CASE ReadSuspension(j) BY ZenonT(90), <1>5 DEF ReadSuspension
<1>6. CASE ApplyRefresh(j) BY ZenonT(90), <1>6 DEF ApplyRefresh
<1> QED BY <1>1, <1>2, <1>3, <1>4, <1>5, <1>6 DEF AccessStep

\* One step of a creation, a deletion, the scan or a purge.
LEMMA LifecycleWrites ==
  ASSUME NEW j \in Jobs, LifecycleStep(j)
  PROVE  Writers(j)
<1>. USE DEF Writers, memberVars, inviteVars, keyVars, outboxVars,
     accessVars, noticeVars, purgeVars, checkoutVars, billingVars, tailVars
<1>1. CASE CreateVaultForUser(j) BY ZenonT(90), <1>1 DEF CreateVaultForUser
<1>2. CASE ClaimForDelete(j) BY <1>2 DEF ClaimForDelete
<1>3. CASE ReadScanPlan(j) BY ZenonT(90), <1>3 DEF ReadScanPlan
<1>4. CASE ClaimCandidate(j) BY <1>4 DEF ClaimCandidate
<1>5. CASE EnqueuePurge(j) BY <1>5 DEF EnqueuePurge
<1>6. CASE RestoreVault(j) BY <1>6 DEF RestoreVault
<1>7. ASSUME NEW m \in purges, ReceivePurge(j, m)
       PROVE  Writers(j)
  BY <1>7 DEF ReceivePurge
<1>8. CASE MarkVaultPurgeRunning(j) BY <1>8 DEF MarkVaultPurgeRunning
<1>9. CASE CloseForPurge(j) BY <1>9 DEF CloseForPurge
<1>10. CASE EraseState(j) BY <1>10 DEF EraseState
<1>11. CASE HardDeleteVault(j) BY <1>11 DEF HardDeleteVault
<1>12. CASE EnqueueNotice(j) BY <1>12 DEF EnqueueNotice
<1>13. ASSUME NEW m \in notices, ReceiveNotice(j, m)
       PROVE  Writers(j)
  BY <1>13 DEF ReceiveNotice
<1>14. CASE Acknowledge(j) BY <1>14 DEF Acknowledge
<1>15. CASE SendNotice(j) BY ZenonT(90), <1>15 DEF SendNotice
<1> QED BY <1>1, <1>2, <1>3, <1>4, <1>5, <1>6, <1>7, <1>8, <1>9, <1>10, <1>11,
     <1>12, <1>13, <1>14, <1>15 DEF LifecycleStep

\* One step of a checkout, a webhook, a plan change or a policy refresh.
LEMMA BillingWrites ==
  ASSUME NEW j \in Jobs, BillingStep(j)
  PROVE  Writers(j)
<1>. USE DEF Writers, memberVars, inviteVars, keyVars, outboxVars,
     accessVars, noticeVars, purgeVars, checkoutVars, billingVars, otherVars,
     soldVars
<1>1. ASSUME NEW m \in webhooks, ReceiveWebhook(j, m)
       PROVE  Writers(j)
  BY <1>1 DEF ReceiveWebhook
<1>2. ASSUME NEW m \in refreshes, ReceiveRefresh(j, m)
       PROVE  Writers(j)
  BY <1>2 DEF ReceiveRefresh
<1>3. CASE FindCustomer(j) BY <1>3 DEF FindCustomer
<1>4. CASE CreateCustomer(j) BY <1>4 DEF CreateCustomer
<1>5. CASE FindAgain(j) BY <1>5 DEF FindAgain
<1>6. CASE OpenCheckout(j) BY <1>6 DEF OpenCheckout
<1>7. CASE OpenPortal(j) BY <1>7 DEF OpenPortal
<1>8. CASE UpdateProduct(j) BY <1>8 DEF UpdateProduct
<1>9. CASE UpsertSubscription(j) BY <1>9 DEF UpsertSubscription
<1>10. CASE NotifyUpsert(j) BY <1>10 DEF NotifyUpsert
<1>11. CASE ReadPolicy(j) BY <1>11 DEF ReadPolicy
<1>12. CASE ListVaults(j) BY <1>12 DEF ListVaults
<1>13. CASE CallPolicy(j) BY <1>13 DEF CallPolicy
<1>14. CASE CheckSuspension(j) BY <1>14 DEF CheckSuspension
<1>15. CASE ApplyVaultPolicy(j) BY <1>15 DEF ApplyVaultPolicy
<1>16. CASE SettlePolicy(j) BY <1>16 DEF SettlePolicy
<1> QED BY <1>1, <1>2, <1>3, <1>4, <1>5, <1>6, <1>7, <1>8, <1>9, <1>10, <1>11,
     <1>12, <1>13, <1>14, <1>15, <1>16 DEF BillingStep

\* A step that fails.
LEMMA FaultWrites ==
  ASSUME NEW j \in Jobs, FaultOf(j)
  PROVE  Writers(j)
<1>. USE DEF Writers, memberVars, inviteVars, keyVars, outboxVars,
     accessVars, noticeVars, purgeVars, checkoutVars, billingVars
<1>1. CASE CallFails(j) BY <1>1 DEF CallFails, outside
<1>2. CASE ReplyLost(j) BY <1>2 DEF ReplyLost, outside
<1>3. CASE RefreshFails(j) BY <1>3 DEF RefreshFails, FailRefresh, rows
<1>4. CASE EnqueueFails(j) BY <1>4 DEF EnqueueFails
<1>5. CASE PurgeFails(j) BY <1>5 DEF PurgeFails
<1>6. CASE ConsumerFails(j) BY <1>6 DEF ConsumerFails, RedeliverPurge
<1>7. CASE SendFails(j) BY <1>7 DEF SendFails
<1>8. CASE NotifyFails(j) BY <1>8 DEF NotifyFails, otherVars
<1>9. CASE PolicyCallFails(j) BY <1>9 DEF PolicyCallFails, otherVars
<1>10. CASE Abandon(j) BY <1>10 DEF Abandon
<1> QED BY <1>1, <1>2, <1>3, <1>4, <1>5, <1>6, <1>7, <1>8, <1>9, <1>10
     DEF FaultOf, SharingFault, LifecycleFault, BillingFault
\* All of them.
LEMMA JobWrites ==
  ASSUME NEW j \in Jobs, StartRequest(j) \/ Step(j) \/ FaultOf(j)
  PROVE  Writers(j)
BY StartWrites, SharingWrites, AccessWrites, LifecycleWrites, BillingWrites,
   FaultWrites DEF Step

-----------------------------------------------------------------------------
(* 2. Types.  TypeOK says nothing of the jobs, the subscription and what a *)
(* coordinator applies; the proofs need those too.                         *)

Tokens == [user : Users, vault : Vaults, version : Nat, read : Nat,
           expires : Nat]

Notices == [id : Nat, vault : Vaults, tries : 0..(MaxTries - 1)]

Refreshes == [id : Nat, tries : 0..(MaxTries - 1)]

Snapshots == [n : Nat, plan : Plans, until : Nat,
              customer : Customers \cup {None}]

RowTasks == [vault : Vaults, revision : Nat \ {0}]

Refs == Users \cup Invites \cup Requests \cup Customers \cup {None}
          \cup Tokens \cup Messages \cup Notices \cup Refreshes \cup Snapshots

Ops == {"none", "admin", "member", "resend", "canceled", "rejected", "accept",
        "remove", "view", "key", "approve", "complete", "password", "token",
        "connect", "create", "delete", "inline", "retention", "purge",
        "letter", "webhook", "checkout", "portal", "plan", "policy"}

\* The steps of an access refresh, which a flush and the policy route share.
CallPcs == {"snapshot", "suspension", "apply"}

FlushPcs == {"call", "finish"} \cup CallPcs

PolicyPcs == {"read plan", "list", "vaults", "limits", "set limits"}

PurgePcs == {"mark running", "close", "erase", "hard delete"}

UserPcs == {"invite", "role", "remove", "enroll", "reread", "request",
            "approve", "password", "mint", "create"}

VaultPcs == {"enroll", "reread", "request", "complete", "queue", "password",
             "mint", "finish", "limits", "set limits", "claim", "enqueue",
             "restore", "notice", "send"} \cup CallPcs \cup PurgePcs

CustomerPcs == {"customer", "create customer", "find again", "open", "portal"}

Pcs == {"idle", "flush", "deliver", "withdraw", "accept", "accept socket",
        "plan", "scan", "acknowledge", "upsert", "notify", "provider"}
         \cup FlushPcs \cup PolicyPcs \cup UserPcs \cup VaultPcs
         \cup CustomerPcs

JobRecords ==
  [op : Ops, pc : Pcs, user : Users \cup {None}, vault : Vaults \cup {None},
   ref : Refs, num : Nat, at : Nat, tasks : SUBSET (Vaults \cup RowTasks),
   versions : {<<>>} \cup [Users -> Nat], suspended : BOOLEAN,
   plan : Plans, failed : BOOLEAN]

\* What a job holds at each of its steps.
Shape(r) ==
  /\ r.pc \in UserPcs => r.user \in Users
  /\ r.pc \in VaultPcs => r.vault \in Vaults
  /\ r.pc = "invite" => r.op \in {"admin", "member"} /\ r.ref \in Users
  /\ r.pc \in {"deliver", "withdraw", "accept"} => r.ref \in Invites
  /\ r.pc = "withdraw" => r.op \in {"canceled", "rejected"}
  /\ r.pc = "role" => r.op \in {"admin", "member"}
  /\ r.pc \in {"enroll", "reread", "request", "approve", "complete"} =>
       r.ref \in Requests
  /\ r.pc \in {"suspension", "apply"} => r.versions \in [Users -> Nat]
  /\ r.pc \in PolicyPcs => r.op = "policy"
  /\ r.op = "policy" => /\ r.pc \in PolicyPcs \cup CallPcs
                        /\ r.tasks \subseteq Vaults /\ r.ref \in Refreshes
  /\ r.op # "policy" /\ r.pc \in FlushPcs => r.tasks \subseteq RowTasks
  /\ r.pc \in {"plan", "scan"} => r.op = "retention"
  /\ r.op = "retention" => /\ r.pc \in {"plan", "scan", "enqueue", "restore"}
                           /\ r.tasks \subseteq Vaults
  /\ r.pc = "accept socket" => r.ref \in Tokens
  /\ r.op = "purge" => /\ r.pc \in PurgePcs \cup {"notice", "acknowledge"}
                       /\ r.ref \in Messages
  /\ r.pc \in {"notice", "acknowledge"} => r.op = "purge"
  /\ r.op = "letter" => r.pc = "send"
  /\ r.pc = "send" => r.op = "letter" /\ r.ref \in Notices
  /\ r.pc \in CustomerPcs => r.ref \in Customers \cup {None}
  /\ r.pc \in {"open", "portal"} => r.ref # None
  /\ r.pc \in {"upsert", "notify"} => /\ r.op \in {"plan", "webhook"}
                                       /\ r.ref \in Snapshots
  /\ r.op = "webhook" => r.pc \in {"upsert", "notify"}
  /\ r.pc = "provider" => r.op = "plan" /\ r.plan \in {"starter", "plus"}

JobTypes == job \in [Jobs -> JobRecords] /\ \A k \in Jobs : Shape(job[k])

BillingTypes == /\ provider \in Snapshots /\ subscription \in Snapshots
                /\ webhooks \subseteq Snapshots

CoordinatorTypes ==
  /\ coordinator \in [Vaults -> [ready : BOOLEAN, erased : BOOLEAN]]
  /\ limits \in [Vaults -> Plans]

FiniteRows == /\ IsFiniteSet(purges) /\ IsFiniteSet(notices)
              /\ IsFiniteSet(refreshes) /\ IsFiniteSet(claims)

\* A row in use names whom and what it is about.
UsedRows ==
  /\ \A i \in Invites : invite[i].status # "unused" =>
       /\ invite[i].to \in Users /\ invite[i].by \in Users
       /\ invite[i].role # "none"
  /\ \A r \in Requests : keyRequest[r] = NoRequest \/
       /\ keyRequest[r].status # "unused"
       /\ keyRequest[r].user \in Users /\ keyRequest[r].vault \in Vaults

\* A socket is prepared for a token that was handed out.
ConnectRefs == \A k \in Jobs : At(k, "accept socket") => job[k].ref \in tokens

TypeInv == /\ TypeOK /\ BillingTypes /\ CoordinatorTypes
           /\ FiniteRows /\ UsedRows /\ ConnectRefs /\ JobTypes

LEMMA RequestUsed ==
  ASSUME UsedRows, NEW r \in Requests, keyRequest[r].status # "unused"
  PROVE  keyRequest[r].user \in Users /\ keyRequest[r].vault \in Vaults
<1>1. NoRequest.status = "unused"
  BY DEF NoRequest
<1> QED BY <1>1 DEF UsedRows

LEMMA SumTyped == \A a, b \in Nat : a + b \in Nat
OBVIOUS

LEMMA LargerTyped == \A a, b \in Nat : (IF a > b THEN a ELSE b) \in Nat
OBVIOUS

LEMMA TailTyped ==
  ASSUME NEW S, NEW s \in Seq(S), s # <<>>
  PROVE  Tail(s) \in Seq(S)
OBVIOUS

LEMMA IntervalTyped ==
  ASSUME NEW n \in Nat
  PROVE  IsFiniteSet(1..n + 1) /\ Cardinality(1..n + 1) = n + 1
BY FS_Interval

LEMMA RowsTyped ==
  ASSUME outbox \in [Vaults -> Nat]
  PROVE  Rows \subseteq RowTasks
BY DEF Rows, RowTasks

LEMMA JobSet ==
  ASSUME JobTypes, NEW j \in Jobs, NEW r \in JobRecords, Shape(r),
         job' = [job EXCEPT ![j] = r]
  PROVE  JobTypes'
BY DEF JobTypes

LEMMA IdleTyped == Idle \in JobRecords
BY DEF Idle, JobRecords, Refs, Plans, Ops, Pcs

LEMMA JobDone ==
  ASSUME JobTypes, NEW j \in Jobs, job' = [job EXCEPT ![j] = Idle]
  PROVE  JobTypes'
<1>1. Shape(Idle)
  BY DEF Idle, Shape, FlushPcs, PolicyPcs, CallPcs, PurgePcs, UserPcs,
     VaultPcs, CustomerPcs
<1> QED BY <1>1, IdleTyped, JobSet

LEMMA JobGoto ==
  ASSUME JobTypes, NEW j \in Jobs, NEW x \in Pcs,
         Shape([job[j] EXCEPT !.pc = x]), job' = [job EXCEPT ![j].pc = x]
  PROVE  JobTypes'
<1>1. [job[j] EXCEPT !.pc = x] \in JobRecords
  BY ZenonT(90) DEF JobTypes, JobRecords
<1> QED BY <1>1, JobSet

LEMMA SharingJobs ==
  ASSUME TypeInv, NEW j \in Jobs, SharingStep(j)
  PROVE  JobTypes'
<1>. DEFINE r == job[j]
<1>1. JobTypes /\ r \in JobRecords /\ Shape(r)
  BY DEF TypeInv, JobTypes
<1>. USE <1>1 DEF At, Shape, FlushPcs, PolicyPcs, CallPcs, PurgePcs, UserPcs,
     VaultPcs, CustomerPcs
<1>2. ASSUME Done(j) PROVE JobTypes'
  BY ZenonT(90), <1>2, JobDone DEF Done
<1>3. ASSUME Goto(j, "flush"), r.pc \in {"accept", "role", "remove", "queue"}
      PROVE  JobTypes'
  <2>1. Shape([r EXCEPT !.pc = "flush"])
    BY ZenonT(90), <1>3 DEF JobRecords
  <2> QED BY <1>3, <2>1, JobGoto DEF Goto, Pcs
<1>4. CASE CreateInvitation(j)
  <2>1. ASSUME NEW i \in Invites,
               job' = [job EXCEPT ![j].pc = "deliver", ![j].ref = i]
        PROVE  JobTypes'
    <3>. DEFINE q == [r EXCEPT !.pc = "deliver", !.ref = i]
    <3>1. q \in JobRecords
      BY ZenonT(90) DEF JobRecords, Pcs, Refs
    <3>2. Shape(q)
      BY <1>4 DEF JobRecords, CreateInvitation
    <3>3. job' = [job EXCEPT ![j] = q]
      BY <2>1
    <3>. HIDE <1>1 DEF q, Shape
    <3> QED BY <1>1, <3>1, <3>2, <3>3, JobSet
  <2> QED BY <1>4, <1>2, <2>1 DEF CreateInvitation, Unused
<1>5. CASE ClaimInvitationDelivery(j) \/ SetInvitationStatus(j)
  BY <1>5, <1>2 DEF ClaimInvitationDelivery, SetInvitationStatus
<1>6. CASE AcceptInvitation(j)
  BY <1>6, <1>2, <1>3 DEF AcceptInvitation
<1>7. CASE ChangeOrganizationRole(j) \/ RemoveOrganizationMember(j)
  BY ZenonT(90),
     <1>7, <1>3 DEF ChangeOrganizationRole, RemoveOrganizationMember
<1>8. CASE EnsureVaultEnrollment(j)
  <2>1. Shape([r EXCEPT !.pc = "reread"])
    BY <1>8 DEF EnsureVaultEnrollment, JobRecords
  <2> QED BY <1>8, <2>1, JobGoto DEF EnsureVaultEnrollment, Goto, Pcs
<1>9. CASE RereadGrant(j)
  <2>. DEFINE n == grant[r.vault][r.user].version
  <2>1. n \in Nat
    BY <1>9 DEF RereadGrant, TypeInv, TypeOK
  <2>. HIDE DEF n
  <2>. DEFINE q == [r EXCEPT !.pc = "request", !.num = n]
  <2>2. q \in JobRecords
    BY ZenonT(90), <2>1 DEF JobRecords, Pcs
  <2>3. r.pc = "reread"
    BY <1>9 DEF RereadGrant
  <2>4. /\ q.pc = "request" /\ q.op = r.op /\ q.user = r.user
        /\ q.vault = r.vault /\ q.ref = r.ref
    BY DEF JobRecords
  <2>5. \/ job' = [job EXCEPT ![j] = q]
        \/ Done(j)
    BY <1>9 DEF RereadGrant, n
  <2>. HIDE DEF q
  <2>6. Shape(q)
    BY <2>3, <2>4
  <2> QED BY <2>2, <2>5, <2>6, <1>2, JobSet
<1>10. CASE CreateKeyRequest(j) \/ ApproveKeyRequest(j)
            \/ UpsertPasswordWrapper(j)
  BY ZenonT(90), <1>10, <1>2 DEF CreateKeyRequest, ApproveKeyRequest,
     UpsertPasswordWrapper
<1>11. CASE CompleteKeyRequest(j)
  <2>1. Shape([r EXCEPT !.pc = "queue"])
    BY ZenonT(90), <1>11 DEF CompleteKeyRequest, JobRecords
  <2>2. ASSUME Goto(j, "queue") PROVE JobTypes'
    BY <2>1, <2>2, JobGoto DEF Goto, Pcs
  <2> QED BY ZenonT(90), <1>11, <1>2, <2>2 DEF CompleteKeyRequest
<1>12. CASE QueueVaultRefresh(j)
  BY <1>12, <1>2, <1>3 DEF QueueVaultRefresh
<1>13. CASE ListRefreshes(j)
  <2>1. PICK taken \in SUBSET Rows :
          IF taken = {} THEN Done(j)
          ELSE job' = [job EXCEPT ![j].pc = "call", ![j].tasks = taken]
    BY <1>13 DEF ListRefreshes
  <2>2. taken \subseteq RowTasks
    BY RowsTyped DEF TypeInv, TypeOK
  <2>. DEFINE q == [r EXCEPT !.pc = "call", !.tasks = taken]
  <2>3. q \in JobRecords
    <3>1. taken \in SUBSET (Vaults \cup RowTasks)
      BY <2>2
    <3> QED BY ZenonT(90), <3>1 DEF JobRecords, Pcs
  <2>4. r.op \notin {"policy", "purge", "letter", "retention", "webhook"}
    <3>1. r.pc = "flush" \/ r = Idle
      BY <1>13 DEF ListRefreshes
    <3>2. CASE r.pc = "flush" BY <3>2
    <3>3. CASE r = Idle BY <3>3 DEF Idle
    <3> QED BY <3>1, <3>2, <3>3
  <2>5. Shape(q)
    BY ZenonT(90), <2>2, <2>4 DEF JobRecords
  <2>6. ASSUME taken # {} PROVE job' = [job EXCEPT ![j] = q]
    BY <2>1, <2>6
  <2>. HIDE DEF q
  <2> QED BY <2>1, <2>3, <2>5, <2>6, <1>2, JobSet
<1>14. CASE CallCoordinator(j)
  <2>1. PICK t \in r.tasks :
          job' = [job EXCEPT ![j].pc = "snapshot", ![j].vault = t.vault,
                    ![j].num = t.revision, ![j].tasks = @ \ {t}]
    BY <1>14 DEF CallCoordinator
  <2>2. t \in RowTasks /\ r.op \notin {"policy", "purge", "letter", "retention"}
    BY <1>14 DEF CallCoordinator
  <2>. DEFINE q == [r EXCEPT !.pc = "snapshot", !.vault = t.vault,
                             !.num = t.revision, !.tasks = @ \ {t}]
  <2>3. q \in JobRecords
    BY ZenonT(90), <2>2 DEF JobRecords, Pcs, RowTasks
  <2>4. Shape(q)
    BY <1>14, <2>2 DEF JobRecords, RowTasks, CallCoordinator
  <2>5. job' = [job EXCEPT ![j] = q]
    BY <2>1
  <2>. HIDE DEF q
  <2> QED BY <2>3, <2>4, <2>5, JobSet
<1>15. CASE FinishRefresh(j)
  <2>1. ASSUME r.tasks # {} PROVE Shape([r EXCEPT !.pc = "call"])
    BY <1>15 DEF FinishRefresh, JobRecords
  <2> QED BY <1>15, <2>1, JobDone, JobGoto DEF FinishRefresh, NextTask, Pcs
<1> QED
  BY <1>4, <1>5, <1>6, <1>7, <1>8, <1>9, <1>10, <1>11, <1>12, <1>13, <1>14,
     <1>15 DEF SharingStep

\* A refresh that failed: a flush goes on or ends, the policy route goes on.
LEMMA GiveUpJobs ==
  ASSUME JobTypes, NEW j \in Jobs, job[j].pc \in CallPcs, GiveUp(j)
  PROVE  JobTypes'
<1>. DEFINE r == job[j]
<1>1. r \in JobRecords /\ Shape(r)
  BY DEF JobTypes
<1>. USE <1>1 DEF Shape, FlushPcs, PolicyPcs, CallPcs, PurgePcs, UserPcs,
     VaultPcs, CustomerPcs
<1>2. CASE r.op = "policy"
  <2>. DEFINE q == [r EXCEPT !.pc = "vaults", !.failed = TRUE]
  <2>1. q \in JobRecords
    BY ZenonT(90) DEF JobRecords, Pcs
  <2>2. Shape(q)
    BY <1>2 DEF JobRecords
  <2>3. job' = [job EXCEPT ![j] = q]
    BY <1>2 DEF GiveUp
  <2>. HIDE DEF q
  <2> QED BY <2>1, <2>2, <2>3, JobSet
<1>3. CASE r.op # "policy" /\ r.tasks = {}
  BY <1>3, JobDone DEF GiveUp
<1>4. CASE r.op # "policy" /\ r.tasks # {}
  <2>1. Shape([r EXCEPT !.pc = "call"])
    BY <1>4 DEF JobRecords
  <2>2. job' = [job EXCEPT ![j].pc = "call"]
    BY <1>4 DEF GiveUp
  <2> QED BY <2>1, <2>2, JobGoto DEF Pcs
<1> QED BY <1>2, <1>3, <1>4

LEMMA BecomesTyped ==
  ASSUME BillingTypes, now \in Nat, NEW plan \in Plans, NEW customer,
         customer \in Customers \cup {None}, ProviderBecomes(plan, customer)
  PROVE  provider' \in Snapshots /\ webhooks' \subseteq Snapshots
<1>1. now + Period \in Nat
  BY StoreAssumptions
<1> QED BY <1>1 DEF BillingTypes, ProviderBecomes, Snapshot, Snapshots

LEMMA AccessJobs ==
  ASSUME TypeInv, NEW j \in Jobs, AccessStep(j)
  PROVE  JobTypes'
<1>. DEFINE r == job[j]
<1>1. JobTypes /\ r \in JobRecords /\ Shape(r)
  BY DEF TypeInv, JobTypes
<1>. USE <1>1 DEF At, Shape, FlushPcs, PolicyPcs, CallPcs, PurgePcs, UserPcs,
     VaultPcs, CustomerPcs
<1>2. CASE MintToken(j) \/ AcceptSocket(j)
  BY <1>2, JobDone DEF MintToken, AcceptSocket, Done
<1>3. CASE ReadVersions(j)
  <2>. DEFINE seen == [u \in Users |-> grant[r.vault][u].version]
              q == [r EXCEPT !.pc = "suspension", !.versions = seen]
  <2>1. r.vault \in Vaults /\ grant \in [Vaults -> [Users ->
          [status : {"none", "pending_key", "active", "revoked"},
           version : Nat]]]
    BY <1>3 DEF ReadVersions, TypeInv, TypeOK
  <2>2. seen \in [Users -> Nat]
    BY ZenonT(90), <2>1
  <2>3. job' = [job EXCEPT ![j] = q]
    BY <1>3 DEF ReadVersions
  <2>. HIDE DEF seen
  <2>4. q \in JobRecords
    BY ZenonT(90), <2>2 DEF JobRecords, Pcs
  <2>5. Shape(q)
    BY <1>3, <2>2 DEF JobRecords, ReadVersions
  <2>. HIDE DEF q
  <2> QED BY <2>3, <2>4, <2>5, JobSet
<1>4. CASE SnapshotRefused(j)
  BY <1>4, GiveUpJobs DEF SnapshotRefused, FailRefresh
<1>5. CASE ReadSuspension(j)
  <2>. DEFINE s == Suspended(r.vault)
              q == [r EXCEPT !.pc = "apply", !.suspended = s]
  <2>1. s \in BOOLEAN
    BY DEF Suspended
  <2>2. job' = [job EXCEPT ![j] = q]
    BY <1>5 DEF ReadSuspension
  <2>. HIDE DEF s
  <2>3. q \in JobRecords
    BY ZenonT(90), <2>1 DEF JobRecords, Pcs
  <2>4. Shape(q)
    BY <1>5 DEF JobRecords, ReadSuspension
  <2>. HIDE DEF q
  <2> QED BY <2>2, <2>3, <2>4, JobSet
<1>6. CASE ApplyRefresh(j)
  <2>. DEFINE x == AfterRefresh(j)
              q == [r EXCEPT !.pc = x, !.versions = <<>>, !.suspended = FALSE]
  <2>1. x = IF r.op = "policy" THEN "limits" ELSE "finish"
    BY DEF AfterRefresh
  <2>2. job' = [job EXCEPT ![j] = q]
    BY <1>6 DEF ApplyRefresh
  <2>. HIDE DEF x
  <2>3. x \in Pcs /\ <<>> \in {<<>>} \cup [Users -> Nat]
    BY <2>1 DEF Pcs
  <2>4. q \in JobRecords
    BY ZenonT(90), <2>3 DEF JobRecords
  <2>5. Shape(q)
    BY <1>6, <2>1 DEF JobRecords, ApplyRefresh
  <2>. HIDE DEF q
  <2> QED BY <2>2, <2>4, <2>5, JobSet
<1> QED BY <1>2, <1>3, <1>4, <1>5, <1>6 DEF AccessStep

LEMMA LifecycleJobs ==
  ASSUME TypeInv, NEW j \in Jobs, LifecycleStep(j)
  PROVE  JobTypes'
<1>. DEFINE r == job[j]
<1>1. JobTypes /\ r \in JobRecords /\ Shape(r)
  BY DEF TypeInv, JobTypes
<1>. USE <1>1 DEF At, Shape, FlushPcs, PolicyPcs, CallPcs, PurgePcs, UserPcs,
     VaultPcs, CustomerPcs
<1>2. ASSUME Done(j) PROVE JobTypes'
  BY <1>2, JobDone DEF Done
<1>3. CASE CreateVaultForUser(j) \/ RestoreVault(j) \/ Acknowledge(j)
           \/ SendNotice(j)
  BY <1>3, <1>2 DEF CreateVaultForUser, RestoreVault, Acknowledge, SendNotice
<1>4. CASE ClaimForDelete(j)
  <2>. DEFINE x == IF r.op = "inline" THEN "mark running" ELSE "enqueue"
  <2>1. Shape([r EXCEPT !.pc = x]) /\ x \in Pcs
    BY ZenonT(90), <1>4 DEF ClaimForDelete, JobRecords, Pcs
  <2>2. job' = [job EXCEPT ![j].pc = x]
    BY <1>4 DEF ClaimForDelete, Goto
  <2>. HIDE DEF x
  <2> QED BY <2>1, <2>2, JobGoto
<1>5. CASE ReadScanPlan(j)
  <2>1. Shape([r EXCEPT !.pc = "scan"])
    BY <1>5 DEF ReadScanPlan, JobRecords
  <2> QED BY <1>5, <2>1, <1>2, JobGoto DEF ReadScanPlan, Goto, Pcs
<1>6. CASE ClaimCandidate(j)
  <2>1. ASSUME NEW v \in r.tasks,
               job' = [job EXCEPT ![j].tasks = @ \ {v}, ![j].vault = v,
                         ![j].pc = IF Live(v) THEN "enqueue" ELSE @]
        PROVE  JobTypes'
    <3>. DEFINE x == IF Live(v) THEN "enqueue" ELSE r.pc
                q == [r EXCEPT !.tasks = @ \ {v}, !.vault = v, !.pc = x]
    <3>1. v \in Vaults /\ x \in {"enqueue", "scan"}
      BY <1>6 DEF ClaimCandidate
    <3>2. job' = [job EXCEPT ![j] = q]
      BY <2>1
    <3>. HIDE DEF x
    <3>3. x \in Pcs /\ r.tasks \ {v} \in SUBSET (Vaults \cup RowTasks)
      BY <3>1 DEF Pcs, JobRecords
    <3>4. q \in JobRecords
      BY ZenonT(90), <3>1, <3>3 DEF JobRecords
    <3>5. Shape(q)
      BY <1>6, <3>1 DEF JobRecords, ClaimCandidate
    <3>. HIDE DEF q
    <3> QED BY <3>2, <3>4, <3>5, JobSet
  <2> QED BY <1>6, <1>2, <2>1 DEF ClaimCandidate
<1>7. CASE EnqueuePurge(j)
  <2>1. ASSUME r.op = "retention" PROVE Shape([r EXCEPT !.pc = "scan"])
    BY <1>7, <2>1 DEF EnqueuePurge, JobRecords
  <2> QED BY <1>7, <2>1, <1>2, JobGoto DEF EnqueuePurge, Goto, Pcs
<1>8. ASSUME NEW m \in purges, ReceivePurge(j, m)
      PROVE  JobTypes'
  <2>. DEFINE q == [Idle EXCEPT !.op = "purge", !.pc = "mark running",
                                !.vault = m.vault, !.ref = m]
  <2>1. m \in Messages /\ m.vault \in Vaults
    BY DEF TypeInv, TypeOK, Messages
  <2>2. q \in JobRecords
    <3>1. m \in Refs BY <2>1 DEF Refs
    <3>2. "purge" \in Ops /\ "mark running" \in Pcs BY DEF Ops, Pcs
    <3> QED BY <2>1, <3>1, <3>2, IdleTyped DEF JobRecords
  <2>3. Shape(q)
    BY ZenonT(90), <2>1 DEF Idle
  <2>4. job' = [job EXCEPT ![j] = q]
    BY <1>8 DEF ReceivePurge
  <2>. HIDE DEF q
  <2> QED BY <2>2, <2>3, <2>4, JobSet
<1>9. CASE MarkVaultPurgeRunning(j)
  <2>1. Shape([r EXCEPT !.pc = "close"])
    BY ZenonT(90), <1>9 DEF MarkVaultPurgeRunning, JobRecords
  <2> QED BY <1>9, <2>1, JobGoto DEF MarkVaultPurgeRunning, Goto, Pcs
<1>10. CASE CloseForPurge(j)
  <2>1. Shape([r EXCEPT !.pc = "erase"])
    BY <1>10 DEF CloseForPurge, JobRecords
  <2> QED BY ZenonT(90), <1>10, <2>1, JobGoto DEF CloseForPurge, Goto, Pcs
<1>11. CASE EraseState(j)
  <2>1. Shape([r EXCEPT !.pc = "hard delete"])
    BY <1>11 DEF EraseState, JobRecords
  <2> QED BY <1>11, <2>1, JobGoto DEF EraseState, Goto, Pcs
<1>12. CASE HardDeleteVault(j)
  <2>. DEFINE x == IF r.ref.notice THEN "notice" ELSE "acknowledge"
  <2>1. x \in Pcs
    BY DEF Pcs
  <2>2. ASSUME r.op = "purge" PROVE Shape([r EXCEPT !.pc = x])
    BY ZenonT(90), <1>12, <2>2 DEF HardDeleteVault, JobRecords
  <2>3. IF r.op = "purge" THEN job' = [job EXCEPT ![j].pc = x] ELSE Done(j)
    BY <1>12 DEF HardDeleteVault, Goto
  <2>. HIDE DEF x
  <2> QED BY <2>1, <2>2, <2>3, <1>2, JobGoto
<1>13. CASE EnqueueNotice(j)
  <2>1. Shape([r EXCEPT !.pc = "acknowledge"])
    BY <1>13 DEF EnqueueNotice, JobRecords
  <2> QED BY <1>13, <2>1, JobGoto DEF EnqueueNotice, Goto, Pcs
<1>14. ASSUME NEW m \in notices, ReceiveNotice(j, m)
       PROVE  JobTypes'
  <2>. DEFINE q == [Idle EXCEPT !.op = "letter", !.pc = "send",
                                !.vault = m.vault, !.ref = m]
  <2>1. m \in Notices /\ m.vault \in Vaults
    BY DEF TypeInv, TypeOK, Notices
  <2>2. q \in JobRecords
    <3>1. m \in Refs BY <2>1 DEF Refs
    <3>2. "letter" \in Ops /\ "send" \in Pcs BY DEF Ops, Pcs
    <3> QED BY <2>1, <3>1, <3>2, IdleTyped DEF JobRecords
  <2>3. Shape(q)
    BY ZenonT(90), <2>1 DEF Idle
  <2>4. job' = [job EXCEPT ![j] = q]
    BY <1>14 DEF ReceiveNotice
  <2>. HIDE DEF q
  <2> QED BY <2>2, <2>3, <2>4, JobSet
<1> QED
  BY <1>3, <1>4, <1>5, <1>6, <1>7, <1>8, <1>9, <1>10, <1>11, <1>12, <1>13,
     <1>14 DEF LifecycleStep

LEMMA BillingJobs ==
  ASSUME TypeInv, NEW j \in Jobs, BillingStep(j)
  PROVE  JobTypes'
<1>. DEFINE r == job[j]
<1>1. JobTypes /\ r \in JobRecords /\ Shape(r)
  BY DEF TypeInv, JobTypes
<1>. USE <1>1 DEF At, Shape, FlushPcs, PolicyPcs, CallPcs, PurgePcs, UserPcs,
     VaultPcs, CustomerPcs
<1>2. ASSUME NEW w \in webhooks, ReceiveWebhook(j, w)
      PROVE  JobTypes'
  <2>. DEFINE q == [Idle EXCEPT !.op = "webhook", !.pc = "upsert", !.ref = w]
  <2>1. w \in Snapshots /\ w \in Refs
    BY DEF TypeInv, BillingTypes, Refs
  <2>2. "webhook" \in Ops /\ "upsert" \in Pcs
    BY DEF Ops, Pcs
  <2>3. q \in JobRecords
    BY <2>1, <2>2, IdleTyped DEF JobRecords
  <2>4. Shape(q)
    BY ZenonT(90), <2>1 DEF Idle
  <2>5. job' = [job EXCEPT ![j] = q]
    BY <1>2 DEF ReceiveWebhook
  <2>. HIDE DEF q
  <2> QED BY <2>3, <2>4, <2>5, JobSet
<1>3. ASSUME NEW m \in refreshes, ReceiveRefresh(j, m)
      PROVE  JobTypes'
  <2>. DEFINE q == [Idle EXCEPT !.op = "policy", !.pc = "read plan",
                                !.ref = m]
  <2>1. m \in Refreshes /\ m \in Refs
    BY DEF TypeInv, TypeOK, Refreshes, Refs
  <2>2. "policy" \in Ops /\ "read plan" \in Pcs
    BY DEF Ops, Pcs
  <2>3. q \in JobRecords
    BY <2>1, <2>2, IdleTyped DEF JobRecords
  <2>4. Shape(q)
    BY ZenonT(90), <2>1 DEF Idle
  <2>5. job' = [job EXCEPT ![j] = q]
    BY <1>3 DEF ReceiveRefresh
  <2>. HIDE DEF q
  <2> QED BY <2>3, <2>4, <2>5, JobSet
<1>4. ASSUME NEW x \in {"open", "create customer"}, r.pc \in CustomerPcs,
             FoundOrElse(j, x), x = "open" => "ours" \in customers
      PROVE  JobTypes'
  <2>1. CASE "ours" \in customers
    <3>. DEFINE q == [r EXCEPT !.ref = "ours", !.pc = "open"]
    <3>1. "ours" \in Refs /\ "ours" \in Customers
      BY DEF Refs, Customers
    <3>2. q \in JobRecords
      BY ZenonT(90), <3>1 DEF JobRecords, Pcs
    <3>3. "ours" # None
      BY StoreAssumptions, <3>1
    <3>4. Shape(q)
      BY ZenonT(90), <1>4, <3>1, <3>3 DEF JobRecords
    <3>5. job' = [job EXCEPT ![j] = q]
      BY ZenonT(90), <1>4, <2>1 DEF FoundOrElse
    <3>. HIDE DEF q
    <3> QED BY <3>2, <3>4, <3>5, JobSet
  <2>2. CASE "ours" \notin customers
    <3>1. Shape([r EXCEPT !.pc = "create customer"])
      BY ZenonT(90), <1>4 DEF JobRecords
    <3>2. job' = [job EXCEPT ![j].pc = "create customer"]
      BY <1>4, <2>2 DEF FoundOrElse
    <3> QED BY <3>1, <3>2, JobGoto DEF Pcs
  <2> QED BY <2>1, <2>2
<1>5. CASE FindCustomer(j)
  <2>1. ASSUME r.ref # None PROVE Shape([r EXCEPT !.pc = "open"])
    BY <1>5, <2>1 DEF FindCustomer, JobRecords
  <2>2. CASE r.ref # None
    BY <1>5, <2>1, <2>2, JobGoto DEF FindCustomer, Goto, Pcs
  <2>3. CASE r.ref = None
    BY <1>5, <2>3, <1>4 DEF FindCustomer
  <2> QED BY <2>2, <2>3
<1>6. CASE CreateCustomer(j)
  <2>1. ASSUME job' = [job EXCEPT ![j].pc = "open", ![j].ref = "ours"]
        PROVE  JobTypes'
    <3>. DEFINE q == [r EXCEPT !.pc = "open", !.ref = "ours"]
    <3>1. "ours" \in Refs /\ "ours" \in Customers
      BY DEF Refs, Customers
    <3>2. q \in JobRecords
      BY ZenonT(90), <3>1 DEF JobRecords, Pcs
    <3>3. "ours" # None
      BY StoreAssumptions, <3>1
    <3>4. Shape(q)
      BY ZenonT(90), <1>6, <3>1, <3>3 DEF JobRecords, CreateCustomer
    <3>5. job' = [job EXCEPT ![j] = q]
      BY <2>1
    <3>. HIDE DEF q
    <3> QED BY <3>2, <3>4, <3>5, JobSet
  <2>2. Shape([r EXCEPT !.pc = "find again"])
    BY ZenonT(90), <1>6 DEF CreateCustomer, JobRecords
  <2>3. CASE Goto(j, "find again")
    BY <2>2, <2>3, JobGoto DEF Goto, Pcs
  <2> QED BY <1>6, <2>1, <2>3 DEF CreateCustomer
<1>7. CASE FindAgain(j)
  BY <1>7, <1>4, JobDone DEF FindAgain, Done
<1>8. CASE OpenCheckout(j) \/ OpenPortal(j) \/ NotifyUpsert(j)
           \/ SettlePolicy(j)
  BY <1>8, JobDone DEF OpenCheckout, OpenPortal, NotifyUpsert, SettlePolicy,
     Done
<1>9. CASE UpdateProduct(j)
  <2>1. ASSUME ProviderBecomes(r.plan, provider.customer),
               job' = [job EXCEPT ![j].pc = "upsert", ![j].ref = provider']
        PROVE  JobTypes'
    <3>1. r.plan \in Plans
      BY <1>9 DEF UpdateProduct, Plans
    <3>2. provider' \in Snapshots
      <4>1. BillingTypes /\ now \in Nat
        BY DEF TypeInv, TypeOK
      <4>2. provider.customer \in Customers \cup {None}
        BY <4>1 DEF BillingTypes, Snapshots
      <4> QED BY <2>1, <3>1, <4>1, <4>2, BecomesTyped
    <3>. DEFINE p == provider'
                q == [r EXCEPT !.pc = "upsert", !.ref = p]
    <3>3. job' = [job EXCEPT ![j] = q]
      BY <2>1
    <3>. HIDE DEF p
    <3>4. p \in Refs /\ p \in Snapshots
      BY <3>2 DEF Refs, p
    <3>5. q \in JobRecords
      BY ZenonT(90), <3>4 DEF JobRecords, Pcs
    <3>6. Shape(q)
      BY <1>9, <3>4 DEF JobRecords, UpdateProduct
    <3>. HIDE DEF q
    <3> QED BY <3>3, <3>5, <3>6, JobSet
  <2> QED BY <1>9, <2>1, JobDone DEF UpdateProduct, Done
<1>10. CASE UpsertSubscription(j)
  <2>1. Shape([r EXCEPT !.pc = "notify"])
    BY <1>10 DEF UpsertSubscription, JobRecords
  <2> QED BY <1>10, <2>1, JobGoto DEF UpsertSubscription, Goto, Pcs
<1>11. CASE ReadPolicy(j)
  <2>. DEFINE p == CurrentPlan
              q == [r EXCEPT !.pc = "list", !.plan = p]
  <2>1. p \in Plans
    BY DEF TypeInv, BillingTypes, Snapshots, CurrentPlan, Plans
  <2>2. job' = [job EXCEPT ![j] = q]
    BY <1>11 DEF ReadPolicy
  <2>. HIDE DEF p
  <2>3. q \in JobRecords
    BY ZenonT(90), <2>1 DEF JobRecords, Pcs
  <2>4. Shape(q)
    BY <1>11 DEF JobRecords, ReadPolicy
  <2>. HIDE DEF q
  <2> QED BY <2>2, <2>3, <2>4, JobSet
<1>12. CASE ListVaults(j)
  <2>. DEFINE live == {v \in Vaults : Live(v)}
              q == [r EXCEPT !.pc = "vaults", !.tasks = live]
  <2>1. live \subseteq Vaults /\ live \in SUBSET (Vaults \cup RowTasks)
    OBVIOUS
  <2>2. job' = [job EXCEPT ![j] = q]
    BY <1>12 DEF ListVaults
  <2>. HIDE DEF live
  <2>3. q \in JobRecords
    BY ZenonT(90), <2>1 DEF JobRecords, Pcs
  <2>4. Shape(q)
    BY <1>12, <2>1 DEF JobRecords, ListVaults
  <2>. HIDE DEF q
  <2> QED BY <2>2, <2>3, <2>4, JobSet
<1>13. CASE CallPolicy(j)
  <2>1. PICK v \in r.tasks :
          job' = [job EXCEPT ![j].pc = "snapshot", ![j].vault = v,
                             ![j].tasks = @ \ {v}]
    BY <1>13 DEF CallPolicy
  <2>. DEFINE q == [r EXCEPT !.pc = "snapshot", !.vault = v,
                             !.tasks = @ \ {v}]
  <2>2. v \in Vaults /\ r.tasks \ {v} \in SUBSET (Vaults \cup RowTasks)
    BY <1>13 DEF CallPolicy, JobRecords
  <2>3. q \in JobRecords
    BY ZenonT(90), <2>2 DEF JobRecords, Pcs
  <2>4. Shape(q)
    BY <1>13, <2>2 DEF JobRecords, CallPolicy
  <2>5. job' = [job EXCEPT ![j] = q]
    BY <2>1
  <2>. HIDE DEF q
  <2> QED BY <2>3, <2>4, <2>5, JobSet
<1>14. CASE CheckSuspension(j)
  <2>. DEFINE x == IF Suspended(r.vault) THEN "vaults" ELSE "set limits"
  <2>1. x \in Pcs /\ x \in {"vaults", "set limits"}
    BY DEF Pcs
  <2>2. job' = [job EXCEPT ![j].pc = x]
    BY <1>14 DEF CheckSuspension, Goto
  <2>. HIDE DEF x
  <2>3. Shape([r EXCEPT !.pc = x])
    BY ZenonT(90), <1>14, <2>1 DEF CheckSuspension, JobRecords
  <2> QED BY <2>1, <2>2, <2>3, JobGoto
<1>15. CASE ApplyVaultPolicy(j)
  <2>1. Shape([r EXCEPT !.pc = "vaults"])
    BY <1>15 DEF ApplyVaultPolicy, JobRecords
  <2> QED BY <1>15, <2>1, JobGoto DEF ApplyVaultPolicy, Goto, Pcs
<1> QED
  BY <1>2, <1>3, <1>5, <1>6, <1>7, <1>8, <1>9, <1>10, <1>11, <1>12, <1>13,
     <1>14, <1>15 DEF BillingStep

LEMMA FaultJobs ==
  ASSUME TypeInv, NEW j \in Jobs, FaultOf(j)
  PROVE  JobTypes'
<1>. DEFINE r == job[j]
<1>1. JobTypes /\ r \in JobRecords /\ Shape(r)
  BY DEF TypeInv, JobTypes
<1>. USE <1>1 DEF At, Shape, FlushPcs, PolicyPcs, CallPcs, PurgePcs, UserPcs,
     VaultPcs, CustomerPcs
<1>2. CASE CallFails(j)
  <2>1. PICK t \in r.tasks :
          job' = IF r.tasks = {t} THEN [job EXCEPT ![j] = Idle]
                 ELSE [job EXCEPT ![j].tasks = @ \ {t}]
    BY <1>2 DEF CallFails
  <2>. DEFINE q == [r EXCEPT !.tasks = @ \ {t}]
  <2>2. r.tasks \ {t} \in SUBSET (Vaults \cup RowTasks)
    BY DEF JobRecords
  <2>3. q \in JobRecords
    BY <2>2 DEF JobRecords
  <2>4. Shape(q)
    BY <1>2 DEF JobRecords, CallFails
  <2>5. CASE r.tasks = {t}
    BY <2>1, <2>5, JobDone
  <2>6. CASE r.tasks # {t}
    <3>1. job' = [job EXCEPT ![j] = q]
      BY ZenonT(90), <2>1, <2>6
    <3>. HIDE DEF q
    <3> QED BY <2>3, <2>4, <3>1, JobSet
  <2> QED BY <2>5, <2>6
<1>3. CASE ReplyLost(j)
  <2>1. ASSUME r.tasks # {} PROVE Shape([r EXCEPT !.pc = "call"])
    BY <1>3 DEF ReplyLost, JobRecords
  <2> QED BY <1>3, <2>1, JobDone, JobGoto DEF ReplyLost, NextTask, Pcs
<1>4. CASE RefreshFails(j)
  BY ZenonT(90), <1>4, GiveUpJobs DEF RefreshFails, FailRefresh
<1>5. CASE EnqueueFails(j)
  <2>1. Shape([r EXCEPT !.pc = "restore"])
    BY <1>5 DEF EnqueueFails, JobRecords
  <2> QED BY <1>5, <2>1, JobGoto DEF EnqueueFails, Fault, Pcs
<1>6. CASE PurgeFails(j)
  <2>1. ASSUME r.op # "purge" PROVE Shape([r EXCEPT !.pc = "restore"])
    BY ZenonT(90), <1>6, <2>1 DEF PurgeFails, JobRecords
  <2>2. CASE r.op = "purge"
    BY <1>6, <2>2, JobDone DEF PurgeFails, RedeliverPurge, EndsByFault
  <2>3. CASE r.op # "purge"
    BY <1>6, <2>1, <2>3, JobGoto DEF PurgeFails, Fault, Pcs
  <2> QED BY <2>2, <2>3
<1>7. CASE ConsumerFails(j) \/ SendFails(j) \/ NotifyFails(j) \/ Abandon(j)
  BY <1>7, JobDone DEF ConsumerFails, RedeliverPurge, SendFails, NotifyFails,
     Abandon, EndsByFault
<1>8. CASE PolicyCallFails(j)
  <2>1. ASSUME NEW v \in r.tasks,
               job' = [job EXCEPT ![j].tasks = @ \ {v}, ![j].failed = TRUE]
        PROVE  JobTypes'
    <3>. DEFINE q == [r EXCEPT !.tasks = @ \ {v}, !.failed = TRUE]
    <3>1. r.tasks \ {v} \in SUBSET (Vaults \cup RowTasks)
      BY DEF JobRecords
    <3>2. q \in JobRecords
      BY <3>1 DEF JobRecords
    <3>3. Shape(q)
      BY <1>8 DEF JobRecords, PolicyCallFails
    <3>4. job' = [job EXCEPT ![j] = q]
      BY <2>1
    <3>. HIDE DEF q
    <3> QED BY <3>2, <3>3, <3>4, JobSet
  <2>2. ASSUME job' = [job EXCEPT ![j].pc = "vaults", ![j].failed = TRUE]
        PROVE  JobTypes'
    <3>. DEFINE q == [r EXCEPT !.pc = "vaults", !.failed = TRUE]
    <3>1. q \in JobRecords
      BY ZenonT(90) DEF JobRecords, Pcs
    <3>2. Shape(q)
      BY <1>8 DEF JobRecords, PolicyCallFails
    <3>3. job' = [job EXCEPT ![j] = q]
      BY <2>2
    <3>. HIDE DEF q
    <3> QED BY <3>1, <3>2, <3>3, JobSet
  <2> QED BY <1>8, <2>1, <2>2 DEF PolicyCallFails
<1> QED
  BY <1>2, <1>3, <1>4, <1>5, <1>6, <1>7, <1>8
     DEF FaultOf, SharingFault, LifecycleFault, BillingFault

LEMMA StartSet ==
  ASSUME JobTypes, NEW j \in Jobs, NEW r \in JobRecords, Shape(r), NEW kind,
         Start(j, kind, r)
  PROVE  JobTypes'
BY JobSet DEF Start

\* The record a request starts with, for every kind of request.
LEMMA StartJobs ==
  ASSUME TypeInv, NEW j \in Jobs, StartRequest(j)
  PROVE  JobTypes'
<1>1. JobTypes
  BY DEF TypeInv
<1>. USE <1>1 DEF Shape, FlushPcs, PolicyPcs, CallPcs, PurgePcs, UserPcs,
     VaultPcs, CustomerPcs
<1>2. ASSUME NEW i \in Invites, NEW kind,
             NEW op \in {"resend", "canceled", "rejected", "accept"},
             NEW pc \in {"deliver", "withdraw", "accept"},
             pc = "withdraw" => op \in {"canceled", "rejected"},
             Start(j, kind, [Idle EXCEPT !.op = op, !.pc = pc, !.ref = i])
      PROVE  JobTypes'
  <2>. DEFINE q == [Idle EXCEPT !.op = op, !.pc = pc, !.ref = i]
  <2>1. op \in Ops /\ pc \in Pcs /\ i \in Refs
    BY DEF Ops, Pcs, Refs
  <2>2. q \in JobRecords
    BY <2>1, IdleTyped DEF JobRecords
  <2>3. Shape(q)
    BY ZenonT(90), <1>2 DEF Idle
  <2>. HIDE DEF q
  <2> QED BY <1>2, <2>2, <2>3, StartSet DEF q
<1>3. ASSUME NEW u \in Users, NEW w \in Users, NEW as \in {"admin", "member"},
             StartInvite(j, u, w, as)
      PROVE  JobTypes'
  <2>. DEFINE q == [Idle EXCEPT !.op = as, !.pc = "invite", !.user = u,
                                !.ref = w]
  <2>1. as \in Ops /\ "invite" \in Pcs /\ w \in Refs
    BY DEF Ops, Pcs, Refs
  <2>2. q \in JobRecords
    BY <2>1, IdleTyped DEF JobRecords
  <2>3. Shape(q)
    BY DEF Idle
  <2>4. Start(j, "invite", q)
    BY <1>3 DEF StartInvite
  <2>. HIDE DEF q
  <2> QED BY <2>2, <2>3, <2>4, StartSet
<1>4. ASSUME NEW u \in Users, NEW kind, NEW op \in Ops,
             NEW pc \in {"role", "remove", "flush"},
             op \notin {"policy", "purge", "letter", "retention", "webhook"},
             pc = "role" => op \in {"admin", "member"},
             Start(j, kind, [Idle EXCEPT !.op = op, !.pc = pc, !.user = u])
      PROVE  JobTypes'
  <2>. DEFINE q == [Idle EXCEPT !.op = op, !.pc = pc, !.user = u]
  <2>1. pc \in Pcs
    BY DEF Pcs
  <2>2. q \in JobRecords
    BY <2>1, IdleTyped DEF JobRecords
  <2>3. Shape(q)
    BY ZenonT(90), <1>4 DEF Idle
  <2>. HIDE DEF q
  <2> QED BY <1>4, <2>2, <2>3, StartSet DEF q
<1>5. ASSUME NEW u \in Users, NEW v \in Vaults, NEW q \in Requests,
             StartKeyRequest(j, u, v, q)
      PROVE  JobTypes'
  <2>. DEFINE s == [Idle EXCEPT !.op = "key", !.pc = "enroll", !.user = u,
                                !.vault = v, !.ref = q]
  <2>1. "key" \in Ops /\ "enroll" \in Pcs /\ q \in Refs
    BY DEF Ops, Pcs, Refs
  <2>2. s \in JobRecords
    BY <2>1, IdleTyped DEF JobRecords
  <2>3. Shape(s)
    BY DEF Idle
  <2>4. Start(j, "key", s)
    BY <1>5 DEF StartKeyRequest
  <2>. HIDE DEF s
  <2> QED BY <2>2, <2>3, <2>4, StartSet
<1>6. ASSUME NEW u \in Users, NEW v \in Vaults,
             StartReplacePassword(j, u, v)
      PROVE  JobTypes'
  <2>. DEFINE q == [Idle EXCEPT !.op = "password", !.pc = "password",
                                !.user = u, !.vault = v]
  <2>1. "password" \in Ops /\ "password" \in Pcs
    BY DEF Ops, Pcs
  <2>2. q \in JobRecords
    BY <2>1, IdleTyped DEF JobRecords
  <2>3. Shape(q)
    BY DEF Idle
  <2>4. Start(j, "password", q)
    BY <1>6 DEF StartReplacePassword
  <2>. HIDE DEF q
  <2> QED BY <2>2, <2>3, <2>4, StartSet
<1>7. ASSUME NEW u \in Users, NEW q \in Requests, StartApprove(j, u, q)
      PROVE  JobTypes'
  <2>. DEFINE s == [Idle EXCEPT !.op = "approve", !.pc = "approve",
                                !.user = u, !.ref = q]
  <2>1. "approve" \in Ops /\ "approve" \in Pcs /\ q \in Refs
    BY DEF Ops, Pcs, Refs
  <2>2. s \in JobRecords
    BY <2>1, IdleTyped DEF JobRecords
  <2>3. Shape(s)
    BY DEF Idle
  <2>4. Start(j, "approve", s)
    BY <1>7 DEF StartApprove
  <2>. HIDE DEF s
  <2> QED BY <2>2, <2>3, <2>4, StartSet
<1>8. ASSUME NEW q \in Requests, StartComplete(j, q)
      PROVE  JobTypes'
  <2>. DEFINE v == keyRequest[q].vault
              s == [Idle EXCEPT !.op = "complete", !.pc = "complete",
                                !.vault = v, !.ref = q]
  <2>1. keyRequest[q].status # "unused"
    BY <1>8 DEF StartComplete
  <2>2. v \in Vaults
    BY <2>1 DEF TypeInv, UsedRows, NoRequest
  <2>3. Start(j, "complete", s)
    BY <1>8 DEF StartComplete
  <2>. HIDE DEF v
  <2>4. "complete" \in Ops /\ "complete" \in Pcs /\ q \in Refs
    BY DEF Ops, Pcs, Refs
  <2>5. s \in JobRecords
    BY <2>2, <2>4, IdleTyped DEF JobRecords
  <2>6. Shape(s)
    BY <2>2 DEF Idle
  <2>. HIDE DEF s
  <2> QED BY <2>3, <2>5, <2>6, StartSet
<1>9. ASSUME NEW u \in Users, NEW v \in Vaults, StartIssueToken(j, u, v)
      PROVE  JobTypes'
  <2>. DEFINE n == grant[v][u].version
              q == [Idle EXCEPT !.op = "token", !.pc = "mint", !.user = u,
                                !.vault = v, !.num = n, !.at = now]
  <2>1. n \in Nat /\ now \in Nat
    BY DEF TypeInv, TypeOK
  <2>2. Start(j, "token", q)
    BY <1>9 DEF StartIssueToken
  <2>. HIDE DEF n
  <2>3. "token" \in Ops /\ "mint" \in Pcs
    BY DEF Ops, Pcs
  <2>4. q \in JobRecords
    BY <2>1, <2>3, IdleTyped DEF JobRecords
  <2>5. Shape(q)
    BY DEF Idle
  <2>. HIDE DEF q
  <2> QED BY <2>2, <2>4, <2>5, StartSet
<1>10. ASSUME NEW t \in tokens, StartConnect(j, t)
       PROVE  JobTypes'
  <2>. DEFINE q == [Idle EXCEPT !.op = "connect", !.pc = "accept socket",
                                !.vault = t.vault, !.ref = t]
  <2>1. t \in Tokens /\ t.vault \in Vaults /\ t \in Refs
    BY DEF TypeInv, TypeOK, Tokens, Refs
  <2>2. "connect" \in Ops /\ "accept socket" \in Pcs
    BY DEF Ops, Pcs
  <2>3. q \in JobRecords
    BY <2>1, <2>2, IdleTyped DEF JobRecords
  <2>4. Shape(q)
    BY <2>1 DEF Idle
  <2>5. Start(j, "connect", q)
    BY <1>10 DEF StartConnect
  <2>. HIDE DEF q
  <2> QED BY <2>3, <2>4, <2>5, StartSet
<1>11. ASSUME NEW u \in Users, StartCreateVault(j, u)
       PROVE  JobTypes'
  <2>. DEFINE n == VaultLimit(CurrentPlan)
              q == [Idle EXCEPT !.op = "create", !.pc = "create", !.user = u,
                                !.num = n]
  <2>1. n \in Nat
    BY DEF VaultLimit
  <2>2. Start(j, "create", q)
    BY <1>11 DEF StartCreateVault
  <2>. HIDE DEF n
  <2>3. "create" \in Ops /\ "create" \in Pcs
    BY DEF Ops, Pcs
  <2>4. q \in JobRecords
    BY <2>1, <2>3, IdleTyped DEF JobRecords
  <2>5. Shape(q)
    BY DEF Idle
  <2>. HIDE DEF q
  <2> QED BY <2>2, <2>4, <2>5, StartSet
<1>12. ASSUME NEW u \in Users, NEW v \in Vaults,
              NEW op \in {"delete", "inline"}, StartDeleteVault(j, u, v, op)
       PROVE  JobTypes'
  <2>. DEFINE q == [Idle EXCEPT !.op = op, !.pc = "claim", !.vault = v]
  <2>1. op \in Ops /\ "claim" \in Pcs
    BY DEF Ops, Pcs
  <2>2. q \in JobRecords
    BY <2>1, IdleTyped DEF JobRecords
  <2>3. Shape(q)
    BY DEF Idle
  <2>4. Start(j, op, q)
    BY <1>12 DEF StartDeleteVault
  <2>. HIDE DEF q
  <2> QED BY <2>2, <2>3, <2>4, StartSet
<1>13. CASE StartRetention(j)
  <2>. DEFINE x == {v \in Vaults : Live(v) /\ ~vault[v].shared /\ v \in idle}
              q == [Idle EXCEPT !.op = "retention", !.pc = "plan", !.tasks = x]
  <2>1. x \subseteq Vaults /\ x \in SUBSET (Vaults \cup RowTasks)
    OBVIOUS
  <2>2. Start(j, "retention", q)
    BY <1>13 DEF StartRetention
  <2>. HIDE DEF x
  <2>3. "retention" \in Ops /\ "plan" \in Pcs
    BY DEF Ops, Pcs
  <2>4. q \in JobRecords
    BY <2>1, <2>3, IdleTyped DEF JobRecords
  <2>5. Shape(q)
    BY <2>1 DEF Idle
  <2>. HIDE DEF q
  <2> QED BY <2>2, <2>4, <2>5, StartSet
<1>14. ASSUME NEW op \in {"checkout", "portal"},
              NEW pc \in {"customer", "portal"}, NEW kind,
              pc = "portal" => bound # None,
              Start(j, kind, [Idle EXCEPT !.op = op, !.pc = pc, !.ref = bound])
       PROVE  JobTypes'
  <2>. DEFINE q == [Idle EXCEPT !.op = op, !.pc = pc, !.ref = bound]
  <2>1. bound \in Customers \cup {None} /\ bound \in Refs
    BY DEF TypeInv, TypeOK, Refs
  <2>2. op \in Ops /\ pc \in Pcs
    BY DEF Ops, Pcs
  <2>3. q \in JobRecords
    BY <2>1, <2>2, IdleTyped DEF JobRecords
  <2>4. Shape(q)
    BY ZenonT(90), <1>14, <2>1 DEF Idle
  <2>. HIDE DEF q
  <2> QED BY <1>14, <2>3, <2>4, StartSet DEF q
<1>15. ASSUME NEW u \in Users, NEW p \in {"starter", "plus"},
              StartChangePlan(j, u, p)
       PROVE  JobTypes'
  <2>. DEFINE q == [Idle EXCEPT !.op = "plan", !.pc = "provider", !.plan = p]
  <2>1. "plan" \in Ops /\ "provider" \in Pcs /\ p \in Plans
    BY DEF Ops, Pcs, Plans
  <2>2. q \in JobRecords
    BY <2>1, IdleTyped DEF JobRecords
  <2>3. Shape(q)
    BY DEF Idle
  <2>4. Start(j, "plan", q)
    BY <1>15 DEF StartChangePlan
  <2>. HIDE DEF q
  <2> QED BY <2>2, <2>3, <2>4, StartSet
<1>16. ASSUME StartSharing(j) PROVE JobTypes'
  <2>1. ASSUME NEW u \in Users, NEW w \in Users,
               NEW as \in {"admin", "member"}, StartChangeRole(j, u, w, as)
        PROVE  JobTypes'
    <3>1. as \in Ops BY DEF Ops
    <3> QED BY <2>1, <3>1, <1>4 DEF StartChangeRole
  <2>2. ASSUME NEW u \in Users, NEW w \in Users, StartRemoveMember(j, u, w)
        PROVE  JobTypes'
    <3>1. "remove" \in Ops BY DEF Ops
    <3> QED BY ZenonT(90), <2>2, <3>1, <1>4 DEF StartRemoveMember
  <2>3. ASSUME NEW u \in Users, StartViewOrganization(j, u)
        PROVE  JobTypes'
    <3>1. "view" \in Ops BY DEF Ops
    <3> QED BY ZenonT(90), <2>3, <3>1, <1>4 DEF StartViewOrganization
  <2>4. ASSUME NEW i \in Invites, NEW u \in Users,
               StartCancel(j, u, i) \/ StartResend(j, u, i)
        PROVE  JobTypes'
    BY ZenonT(90), <2>4, <1>2 DEF StartCancel, StartResend
  <2>5. ASSUME NEW i \in Invites, StartReject(j, i) \/ StartAccept(j, i)
        PROVE  JobTypes'
    BY <2>5, <1>2 DEF StartReject, StartAccept
  <2> QED
    BY ZenonT(90),
       <1>16, <1>3, <1>5, <1>6, <1>7, <1>8, <2>1, <2>2, <2>3, <2>4, <2>5
       DEF StartSharing
<1>17. ASSUME StartBilling(j) PROVE JobTypes'
  BY <1>17, <1>14, <1>15 DEF StartBilling, StartCheckout, StartPortal
<1> QED
  BY <1>9, <1>10, <1>11, <1>12, <1>13, <1>16, <1>17
     DEF StartRequest, StartAccess, StartLifecycle

-----------------------------------------------------------------------------
(* Where a job comes from, at the steps the later proofs ask about.        *)

Marked == {"complete", "mint", "accept socket", "call", "snapshot",
           "suspension", "apply", "finish", "hard delete", "notice", "send", "customer",
           "create customer", "find again", "open", "portal", "upsert",
           "notify", "claim", "enqueue", "mark running", "close", "erase",
           "acknowledge"} \cup PolicyPcs

Arrivals(j) ==
  LET pc == job'[j].pc
  IN
  /\ \A k \in Jobs \ {j} : job'[k] = job[k]
  /\ pc = "complete" => \E r \in Requests : StartComplete(j, r)
  /\ pc = "mint" => \E u \in Users, v \in Vaults : StartIssueToken(j, u, v)
  /\ pc = "accept socket" => \E t \in tokens : StartConnect(j, t)
  /\ pc = "call" =>
       \/ ListRefreshes(j)
       \/ /\ job[j].pc \in FlushPcs /\ job'[j].op = job[j].op
          /\ job'[j].tasks \subseteq job[j].tasks
  /\ pc = "snapshot" => CallCoordinator(j) \/ CallPolicy(j)
  /\ pc = "suspension" => ReadVersions(j)
  /\ pc = "apply" => ReadSuspension(j)
  /\ pc = "finish" => ApplyRefresh(j)
  /\ pc = "claim" => \E u \in Users, v \in Vaults, op \in {"delete", "inline"} :
                        StartDeleteVault(j, u, v, op)
  /\ pc = "enqueue" => ClaimForDelete(j) \/ ClaimCandidate(j)
  /\ pc = "mark running" =>
       ClaimForDelete(j) \/ \E m \in purges : ReceivePurge(j, m)
  /\ pc = "close" => MarkVaultPurgeRunning(j)
  /\ pc = "erase" => CloseForPurge(j)
  /\ pc = "hard delete" => EraseState(j)
  /\ pc = "notice" => HardDeleteVault(j)
  /\ pc = "acknowledge" => HardDeleteVault(j) \/ EnqueueNotice(j)
  /\ pc = "send" => \E m \in notices : ReceiveNotice(j, m)
  /\ pc = "customer" => \E u \in Users : StartCheckout(j, u)
  /\ pc = "create customer" => FindCustomer(j)
  /\ pc = "find again" => CreateCustomer(j)
  /\ pc = "open" => FindCustomer(j) \/ CreateCustomer(j) \/ FindAgain(j)
  /\ pc = "portal" => \E u \in Users : StartPortal(j, u)
  /\ pc = "upsert" =>
       UpdateProduct(j) \/ \E w \in webhooks : ReceiveWebhook(j, w)
  /\ pc = "notify" => UpsertSubscription(j)
  /\ pc = "read plan" => \E m \in refreshes : ReceiveRefresh(j, m)
  /\ pc \in PolicyPcs \ {"read plan"} =>
       /\ job[j].op = "policy" /\ job'[j].op = "policy"
       /\ job'[j].ref = job[j].ref

\* Only j moves, to a record r.
LEMMA MoveTo ==
  ASSUME JobTypes, NEW j \in Jobs, NEW r, job' = [job EXCEPT ![j] = r]
  PROVE  job'[j] = r /\ \A k \in Jobs \ {j} : job'[k] = job[k]
BY DEF JobTypes

LEMMA MoveUnmarked ==
  ASSUME JobTypes, NEW j \in Jobs, NEW r, job' = [job EXCEPT ![j] = r],
         r.pc \notin Marked
  PROVE  Arrivals(j)
<1>1. job'[j].pc \notin Marked
  BY MoveTo
<1>2. job'[j].pc \notin PolicyPcs
  BY <1>1 DEF Marked
<1> QED BY <1>1, <1>2, MoveTo DEF Marked, Arrivals, PolicyPcs

LEMMA MoveDone ==
  ASSUME JobTypes, NEW j \in Jobs, job' = [job EXCEPT ![j] = Idle]
  PROVE  Arrivals(j)
<1>1. Idle.pc \notin Marked
  BY DEF Idle, Marked, PolicyPcs
<1> QED BY <1>1, MoveUnmarked

LEMMA MoveGoto ==
  ASSUME JobTypes, NEW j \in Jobs, NEW x, x \notin Marked,
         job' = [job EXCEPT ![j].pc = x]
  PROVE  Arrivals(j)
<1>1. [job[j] EXCEPT !.pc = x].pc = x
  BY DEF JobTypes, JobRecords
<1> QED BY <1>1, MoveUnmarked

\* A policy refresh goes on for the message it has.
LEMMA MovePolicy ==
  ASSUME JobTypes, NEW j \in Jobs, job[j].op = "policy",
         NEW r, job' = [job EXCEPT ![j] = r],
         r.pc \in {"list", "vaults", "limits", "set limits"},
         r.op = job[j].op, r.ref = job[j].ref
  PROVE  Arrivals(j)
<1>1. job'[j] = r /\ \A k \in Jobs \ {j} : job'[k] = job[k]
  BY MoveTo
<1> QED BY <1>1 DEF Arrivals

\* The flush goes on with the vaults that are left.
LEMMA MoveCall ==
  ASSUME JobTypes, NEW j \in Jobs, job[j].pc \in FlushPcs,
         NEW S \in SUBSET job[j].tasks,
         job' = [job EXCEPT ![j].pc = "call", ![j].tasks = S]
  PROVE  Arrivals(j)
<1>. DEFINE r == job[j]
            q == [r EXCEPT !.pc = "call", !.tasks = S]
<1>1. r \in JobRecords /\ job' = [job EXCEPT ![j] = q]
  BY DEF JobTypes
<1>2. q.pc = "call" /\ q.op = r.op /\ q.tasks = S
  BY <1>1 DEF JobRecords
<1>. HIDE DEF q
<1>3. job'[j] = q /\ \A k \in Jobs \ {j} : job'[k] = job[k]
  BY <1>1, MoveTo
<1> QED BY <1>2, <1>3 DEF Arrivals, PolicyPcs

LEMMA MoveNext ==
  ASSUME JobTypes, NEW j \in Jobs, job[j].pc \in FlushPcs,
         job' = [job EXCEPT ![j].pc = "call"]
  PROVE  Arrivals(j)
<1>1. job' = [job EXCEPT ![j].pc = "call", ![j].tasks = job[j].tasks]
  BY DEF JobTypes, JobRecords
<1> QED BY <1>1, MoveCall

LEMMA MoveGiveUp ==
  ASSUME JobTypes, NEW j \in Jobs, GiveUp(j), job[j].pc \in FlushPcs
  PROVE  Arrivals(j)
<1>. DEFINE r == job[j]
<1>1. r \in JobRecords
  BY DEF JobTypes
<1>2. CASE r.op = "policy"
  <2>. DEFINE q == [r EXCEPT !.pc = "vaults", !.failed = TRUE]
  <2>1. q.pc = "vaults" /\ q.op = r.op /\ q.ref = r.ref
    BY <1>1 DEF JobRecords
  <2>2. job' = [job EXCEPT ![j] = q]
    BY <1>2 DEF GiveUp
  <2>. HIDE DEF q
  <2> QED BY <1>2, <2>1, <2>2, MovePolicy
<1>3. CASE r.op # "policy" /\ r.tasks = {}
  BY <1>3, MoveDone DEF GiveUp
<1>4. CASE r.op # "policy" /\ r.tasks # {}
  <2>1. job' = [job EXCEPT ![j].pc = "call"]
    BY <1>4 DEF GiveUp
  <2> QED BY <2>1, MoveNext
<1> QED BY <1>2, <1>3, <1>4

LEMMA SharingMoves ==
  ASSUME JobTypes, NEW j \in Jobs, SharingStep(j)
  PROVE  Arrivals(j)
<1>. DEFINE r == job[j]
<1>1. r \in JobRecords
  BY DEF JobTypes
<1>. USE DEF Marked, PolicyPcs
<1>2. CASE CreateInvitation(j)
  <2>1. ASSUME NEW i, job' = [job EXCEPT ![j].pc = "deliver", ![j].ref = i]
        PROVE  Arrivals(j)
    <3>1. [r EXCEPT !.pc = "deliver", !.ref = i].pc \notin Marked
      BY <1>1 DEF JobRecords
    <3> QED BY <2>1, <3>1, MoveUnmarked
  <2> QED BY <1>2, <2>1, MoveDone DEF CreateInvitation, Done
<1>3. CASE \/ ClaimInvitationDelivery(j) \/ SetInvitationStatus(j)
           \/ CreateKeyRequest(j) \/ ApproveKeyRequest(j)
           \/ UpsertPasswordWrapper(j)
  BY ZenonT(90), <1>3, MoveDone DEF ClaimInvitationDelivery, SetInvitationStatus,
     CreateKeyRequest, ApproveKeyRequest, UpsertPasswordWrapper, Done
<1>4. CASE \/ AcceptInvitation(j) \/ ChangeOrganizationRole(j)
           \/ RemoveOrganizationMember(j) \/ EnsureVaultEnrollment(j)
           \/ CompleteKeyRequest(j) \/ QueueVaultRefresh(j)
  BY <1>4, MoveDone, MoveGoto
     DEF AcceptInvitation, ChangeOrganizationRole, RemoveOrganizationMember,
     EnsureVaultEnrollment, CompleteKeyRequest, QueueVaultRefresh, Done, Goto
<1>5. CASE RereadGrant(j)
  <2>1. ASSUME NEW n, job' = [job EXCEPT ![j].pc = "request", ![j].num = n]
        PROVE  Arrivals(j)
    <3>1. [r EXCEPT !.pc = "request", !.num = n].pc \notin Marked
      BY <1>1 DEF JobRecords
    <3> QED BY <2>1, <3>1, MoveUnmarked
  <2> QED BY <1>5, <2>1, MoveDone DEF RereadGrant, Done
<1>6. CASE ListRefreshes(j)
  <2>1. ASSUME NEW n, job' = [job EXCEPT ![j].pc = "call", ![j].tasks = n]
        PROVE  Arrivals(j)
    <3>. DEFINE q == [r EXCEPT !.pc = "call", !.tasks = n]
    <3>1. q.pc = "call" /\ job' = [job EXCEPT ![j] = q]
      BY <1>1, <2>1 DEF JobRecords
    <3>. HIDE DEF q
    <3> QED BY <1>6, <3>1, MoveTo DEF Arrivals, PolicyPcs
  <2> QED BY <1>6, <2>1, MoveDone DEF ListRefreshes, Done
<1>7. CASE CallCoordinator(j)
  <2>1. PICK t \in r.tasks :
          job' = [job EXCEPT ![j].pc = "snapshot", ![j].vault = t.vault,
                    ![j].num = t.revision, ![j].tasks = @ \ {t}]
    BY <1>7 DEF CallCoordinator
  <2>. DEFINE q == [r EXCEPT !.pc = "snapshot", !.vault = t.vault,
                             !.num = t.revision, !.tasks = @ \ {t}]
  <2>2. q.pc = "snapshot" /\ job' = [job EXCEPT ![j] = q]
    BY <1>1, <2>1 DEF JobRecords
  <2>. HIDE DEF q
  <2> QED BY <1>7, <2>2, MoveTo DEF Arrivals, PolicyPcs
<1>8. CASE FinishRefresh(j)
  BY <1>8, MoveDone, MoveNext DEF FinishRefresh, NextTask, FlushPcs, At
<1> QED
  BY <1>2, <1>3, <1>4, <1>5, <1>6, <1>7, <1>8 DEF SharingStep

LEMMA AccessMoves ==
  ASSUME JobTypes, NEW j \in Jobs, AccessStep(j)
  PROVE  Arrivals(j)
<1>. DEFINE r == job[j]
<1>1. r \in JobRecords
  BY DEF JobTypes
<1>2. CASE MintToken(j) \/ AcceptSocket(j)
  BY <1>2, MoveDone DEF MintToken, AcceptSocket, Done
<1>3. CASE SnapshotRefused(j)
  BY <1>3, MoveGiveUp DEF SnapshotRefused, FailRefresh, FlushPcs, CallPcs, At
<1>4. CASE ReadVersions(j)
  <2>. DEFINE q == [r EXCEPT !.pc = "suspension",
                 !.versions = [u \in Users |-> grant[r.vault][u].version]]
  <2>1. job' = [job EXCEPT ![j] = q]
    BY <1>4 DEF ReadVersions
  <2>2. q.pc = "suspension"
    BY <1>1 DEF JobRecords
  <2>. HIDE DEF q
  <2>3. job'[j].pc = "suspension" /\ \A k \in Jobs \ {j} : job'[k] = job[k]
    BY <2>1, <2>2, MoveTo
  <2> QED BY <1>4, <2>3 DEF Arrivals, PolicyPcs
<1>5. CASE ReadSuspension(j)
  <2>. DEFINE q == [r EXCEPT !.pc = "apply", !.suspended = Suspended(r.vault)]
  <2>1. job' = [job EXCEPT ![j] = q]
    BY <1>5 DEF ReadSuspension
  <2>2. q.pc = "apply"
    BY <1>1 DEF JobRecords
  <2>. HIDE DEF q
  <2>3. job'[j].pc = "apply" /\ \A k \in Jobs \ {j} : job'[k] = job[k]
    BY <2>1, <2>2, MoveTo
  <2> QED BY <1>5, <2>3 DEF Arrivals, PolicyPcs
<1>6. CASE ApplyRefresh(j)
  <2>. DEFINE x == AfterRefresh(j)
              q == [r EXCEPT !.pc = x, !.versions = <<>>, !.suspended = FALSE]
  <2>1. x \in {"limits", "finish"}
    BY ZenonT(90) DEF AfterRefresh
  <2>2. job' = [job EXCEPT ![j] = q]
    BY <1>6 DEF ApplyRefresh
  <2>3. q.pc = x /\ q.op = r.op /\ q.ref = r.ref
    BY <1>1, <2>1 DEF JobRecords
  <2>. HIDE DEF q
  <2>4. CASE r.op = "policy"
    <3>1. x = "limits"
      BY <2>4 DEF AfterRefresh
    <3>. HIDE DEF x
    <3> QED BY <2>2, <2>3, <2>4, <3>1, MovePolicy
  <2>5. CASE r.op # "policy"
    <3>1. x = "finish"
      BY <2>5 DEF AfterRefresh
    <3>. HIDE DEF x
    <3>2. job'[j].pc = "finish" /\ \A k \in Jobs \ {j} : job'[k] = job[k]
      BY <2>2, <2>3, <3>1, MoveTo
    <3> QED BY <1>6, <3>2 DEF Arrivals, PolicyPcs
  <2> QED BY <2>4, <2>5
<1> QED BY <1>2, <1>3, <1>4, <1>5, <1>6 DEF AccessStep

LEMMA LifecycleMoves ==
  ASSUME JobTypes, NEW j \in Jobs, LifecycleStep(j)
  PROVE  Arrivals(j)
<1>. DEFINE r == job[j]
<1>1. r \in JobRecords
  BY DEF JobTypes
<1>2. CASE \/ CreateVaultForUser(j) \/ RestoreVault(j) \/ Acknowledge(j)
           \/ SendNotice(j)
  BY <1>2, MoveDone
     DEF CreateVaultForUser, RestoreVault, Acknowledge, SendNotice, Done
<1>3. CASE ReadScanPlan(j) \/ EnqueuePurge(j)
  BY <1>3, MoveDone, MoveGoto
     DEF ReadScanPlan, EnqueuePurge, Done, Goto, Marked, PolicyPcs
<1>9. ASSUME NEW x, Goto(j, x)
      PROVE  job'[j].pc = x /\ \A k \in Jobs \ {j} : job'[k] = job[k]
  <2>1. [r EXCEPT !.pc = x].pc = x
    BY <1>1 DEF JobRecords
  <2> QED BY <1>9, <2>1, MoveTo DEF Goto
<1>10. CASE ClaimForDelete(j)
  <2>1. /\ job'[j].pc \in {"enqueue", "mark running"}
        /\ \A k \in Jobs \ {j} : job'[k] = job[k]
    BY <1>9, <1>10 DEF ClaimForDelete
  <2> QED BY <1>10, <2>1 DEF Arrivals, PolicyPcs
<1>11. CASE MarkVaultPurgeRunning(j)
  <2>1. job'[j].pc = "close" /\ \A k \in Jobs \ {j} : job'[k] = job[k]
    BY <1>9, <1>11 DEF MarkVaultPurgeRunning
  <2> QED BY <1>11, <2>1 DEF Arrivals, PolicyPcs
<1>12. CASE CloseForPurge(j)
  <2>1. job'[j].pc = "erase" /\ \A k \in Jobs \ {j} : job'[k] = job[k]
    BY <1>9, <1>12 DEF CloseForPurge
  <2> QED BY <1>12, <2>1 DEF Arrivals, PolicyPcs
<1>13. CASE EnqueueNotice(j)
  <2>1. /\ job'[j].pc = "acknowledge"
        /\ \A k \in Jobs \ {j} : job'[k] = job[k]
    BY ZenonT(90), <1>9, <1>13 DEF EnqueueNotice
  <2> QED BY <1>13, <2>1 DEF Arrivals, PolicyPcs
<1>4. CASE ClaimCandidate(j)
  <2>1. ASSUME NEW v \in r.tasks, At(j, "scan"),
               job' = [job EXCEPT ![j].tasks = @ \ {v}, ![j].vault = v,
                         ![j].pc = IF Live(v) THEN "enqueue" ELSE @]
        PROVE  Arrivals(j)
    <3>. DEFINE q == [r EXCEPT !.tasks = @ \ {v}, !.vault = v,
                               !.pc = IF Live(v) THEN "enqueue" ELSE @]
    <3>1. q.pc \in {"enqueue", "scan"} /\ job' = [job EXCEPT ![j] = q]
      BY <1>1, <2>1 DEF JobRecords, At
    <3>. HIDE DEF q
    <3>2. job'[j].pc \in {"enqueue", "scan"}
          /\ \A k \in Jobs \ {j} : job'[k] = job[k]
      BY <3>1, MoveTo
    <3> QED BY <1>4, <3>2 DEF Arrivals, PolicyPcs
  <2> QED BY <1>4, <2>1, MoveDone DEF ClaimCandidate, Done
<1>5. ASSUME NEW m \in purges, ReceivePurge(j, m)
      PROVE  Arrivals(j)
  <2>1. [Idle EXCEPT !.op = "purge", !.pc = "mark running",
           !.vault = m.vault, !.ref = m].pc = "mark running"
    BY IdleTyped DEF JobRecords
  <2>2. /\ job'[j].pc = "mark running"
        /\ \A k \in Jobs \ {j} : job'[k] = job[k]
    BY ZenonT(90), <1>5, <2>1, MoveTo DEF ReceivePurge
  <2> QED BY <1>5, <2>2 DEF Arrivals, PolicyPcs
<1>6. CASE EraseState(j)
  <2>1. [r EXCEPT !.pc = "hard delete"].pc = "hard delete"
    BY <1>1 DEF JobRecords
  <2>2. job'[j].pc = "hard delete" /\ \A k \in Jobs \ {j} : job'[k] = job[k]
    BY <1>6, <2>1, MoveTo DEF EraseState, Goto
  <2> QED BY <1>6, <2>2 DEF Arrivals, PolicyPcs
<1>7. CASE HardDeleteVault(j)
  <2>1. CASE r.op # "purge"
    BY <1>7, <2>1, MoveDone DEF HardDeleteVault, Done
  <2>2. CASE r.op = "purge"
    <3>. DEFINE x == IF r.ref.notice THEN "notice" ELSE "acknowledge"
    <3>1. x \in {"notice", "acknowledge"}
      OBVIOUS
    <3>2. job' = [job EXCEPT ![j].pc = x]
      BY <1>7, <2>2 DEF HardDeleteVault, Goto
    <3>. HIDE DEF x
    <3>3. [r EXCEPT !.pc = x].pc = x
      BY <1>1 DEF JobRecords
    <3>4. job'[j].pc = x /\ \A k \in Jobs \ {j} : job'[k] = job[k]
      BY <3>2, <3>3, MoveTo
    <3> QED BY <1>7, <3>1, <3>4 DEF Arrivals, PolicyPcs
  <2> QED BY <2>1, <2>2
<1>8. ASSUME NEW m \in notices, ReceiveNotice(j, m)
      PROVE  Arrivals(j)
  <2>1. [Idle EXCEPT !.op = "letter", !.pc = "send", !.vault = m.vault,
                     !.ref = m].pc = "send"
    BY IdleTyped DEF JobRecords
  <2>2. job'[j].pc = "send" /\ \A k \in Jobs \ {j} : job'[k] = job[k]
    BY ZenonT(90), <1>8, <2>1, MoveTo DEF ReceiveNotice
  <2> QED BY <1>8, <2>2 DEF Arrivals, PolicyPcs
<1> QED
  BY <1>2, <1>3, <1>4, <1>5, <1>6, <1>7, <1>8, <1>10, <1>11, <1>12,
     <1>13 DEF LifecycleStep

LEMMA BillingMoves ==
  ASSUME JobTypes, NEW j \in Jobs, BillingStep(j)
  PROVE  Arrivals(j)
<1>. DEFINE r == job[j]
<1>1. r \in JobRecords /\ Shape(r)
  BY DEF JobTypes
<1>2. CASE \/ OpenCheckout(j) \/ OpenPortal(j) \/ NotifyUpsert(j)
           \/ SettlePolicy(j)
  BY <1>2, MoveDone
     DEF OpenCheckout, OpenPortal, NotifyUpsert, SettlePolicy, Done
<1>3. CASE CheckSuspension(j) \/ ApplyVaultPolicy(j)
  <2>1. PICK x \in {"vaults", "set limits"} : job' = [job EXCEPT ![j].pc = x]
    BY <1>3 DEF CheckSuspension, ApplyVaultPolicy, Goto
  <2>. DEFINE q == [r EXCEPT !.pc = x]
  <2>2. q.pc = x /\ q.op = r.op /\ q.ref = r.ref /\ r.op = "policy"
    BY <1>1, <1>3
       DEF JobRecords, CheckSuspension, ApplyVaultPolicy, At, Shape, PolicyPcs
  <2>3. job' = [job EXCEPT ![j] = q]
    BY <2>1
  <2>. HIDE DEF q
  <2> QED BY <2>2, <2>3, MovePolicy
<1>4. ASSUME NEW m \in refreshes, ReceiveRefresh(j, m)
      PROVE  Arrivals(j)
  <2>1. [Idle EXCEPT !.op = "policy", !.pc = "read plan", !.ref = m].pc
          = "read plan"
    BY IdleTyped DEF JobRecords
  <2>2. job'[j].pc = "read plan" /\ \A k \in Jobs \ {j} : job'[k] = job[k]
    BY ZenonT(90), <1>4, <2>1, MoveTo DEF ReceiveRefresh
  <2> QED BY <1>4, <2>2 DEF Arrivals, PolicyPcs
<1>5. CASE ReadPolicy(j)
  <2>. DEFINE q == [r EXCEPT !.pc = "list", !.plan = CurrentPlan]
  <2>1. q.pc = "list" /\ q.op = r.op /\ q.ref = r.ref /\ r.op = "policy"
    BY <1>1, <1>5 DEF JobRecords, ReadPolicy, At, Shape, PolicyPcs
  <2>2. job' = [job EXCEPT ![j] = q]
    BY <1>5 DEF ReadPolicy
  <2>. HIDE DEF q
  <2> QED BY <2>1, <2>2, MovePolicy
<1>6. CASE ListVaults(j)
  <2>1. PICK n : job' = [job EXCEPT ![j].pc = "vaults", ![j].tasks = n]
    BY <1>6 DEF ListVaults
  <2>. DEFINE q == [r EXCEPT !.pc = "vaults", !.tasks = n]
  <2>2. q.pc = "vaults" /\ q.op = r.op /\ q.ref = r.ref /\ r.op = "policy"
    BY <1>1, <1>6 DEF JobRecords, ListVaults, At, Shape, PolicyPcs
  <2>3. job' = [job EXCEPT ![j] = q]
    BY <2>1
  <2>. HIDE DEF q
  <2> QED BY <2>2, <2>3, MovePolicy
<1>7. CASE CallPolicy(j)
  <2>1. PICK v \in r.tasks :
          job' = [job EXCEPT ![j].pc = "snapshot", ![j].vault = v,
                             ![j].tasks = @ \ {v}]
    BY <1>7 DEF CallPolicy
  <2>. DEFINE q == [r EXCEPT !.pc = "snapshot", !.vault = v,
                             !.tasks = @ \ {v}]
  <2>2. q.pc = "snapshot" /\ job' = [job EXCEPT ![j] = q]
    BY <1>1, <2>1 DEF JobRecords
  <2>. HIDE DEF q
  <2> QED BY <1>7, <2>2, MoveTo DEF Arrivals, PolicyPcs
<1>8. ASSUME NEW w \in webhooks, ReceiveWebhook(j, w)
      PROVE  Arrivals(j)
  <2>1. [Idle EXCEPT !.op = "webhook", !.pc = "upsert", !.ref = w].pc = "upsert"
    BY IdleTyped DEF JobRecords
  <2>2. job'[j].pc = "upsert" /\ \A k \in Jobs \ {j} : job'[k] = job[k]
    BY ZenonT(90), <1>8, <2>1, MoveTo DEF ReceiveWebhook
  <2> QED BY <1>8, <2>2 DEF Arrivals, PolicyPcs
<1>9. ASSUME NEW x, FoundOrElse(j, x)
      PROVE  /\ job'[j].pc \in {"open", x}
             /\ \A k \in Jobs \ {j} : job'[k] = job[k]
  <2>1. [r EXCEPT !.ref = "ours", !.pc = "open"].pc = "open"
    BY <1>1 DEF JobRecords
  <2>2. [r EXCEPT !.pc = x].pc = x
    BY <1>1 DEF JobRecords
  <2>3. CASE "ours" \in customers
    BY <1>9, <2>1, <2>3, MoveTo DEF FoundOrElse
  <2>4. CASE "ours" \notin customers
    BY <1>9, <2>2, <2>4, MoveTo DEF FoundOrElse
  <2> QED BY <2>3, <2>4
<1>10. ASSUME NEW x, Goto(j, x)
       PROVE  job'[j].pc = x /\ \A k \in Jobs \ {j} : job'[k] = job[k]
  <2>1. [r EXCEPT !.pc = x].pc = x
    BY <1>1 DEF JobRecords
  <2> QED BY <1>10, <2>1, MoveTo DEF Goto
<1>11. CASE FindCustomer(j)
  <2>1. /\ job'[j].pc \in {"open", "create customer"}
        /\ \A k \in Jobs \ {j} : job'[k] = job[k]
    BY <1>11, <1>9, <1>10 DEF FindCustomer
  <2> QED BY <1>11, <2>1 DEF Arrivals, PolicyPcs
<1>12. CASE CreateCustomer(j)
  <2>. DEFINE q == [r EXCEPT !.pc = "open", !.ref = "ours"]
  <2>1. job' = [job EXCEPT ![j] = q] \/ Goto(j, "find again")
    BY <1>12 DEF CreateCustomer
  <2>2. q.pc = "open"
    BY <1>1 DEF JobRecords
  <2>. HIDE DEF q
  <2>3. /\ job'[j].pc \in {"open", "find again"}
        /\ \A k \in Jobs \ {j} : job'[k] = job[k]
    BY <2>1, <2>2, <1>10, MoveTo
  <2> QED BY <1>12, <2>3 DEF Arrivals, PolicyPcs
<1>13. CASE FindAgain(j)
  <2>1. CASE "ours" \in customers
    <3>1. job'[j].pc = "open" /\ \A k \in Jobs \ {j} : job'[k] = job[k]
      BY <1>13, <2>1, <1>9 DEF FindAgain
    <3> QED BY <1>13, <3>1 DEF Arrivals, PolicyPcs
  <2>2. CASE "ours" \notin customers
    BY <1>13, <2>2, MoveDone DEF FindAgain, Done
  <2> QED BY <2>1, <2>2
<1>14. CASE UpdateProduct(j)
  <2>1. CASE provider.plan = "free"
    BY <1>14, <2>1, MoveDone DEF UpdateProduct, Done
  <2>2. CASE provider.plan # "free"
    <3>. DEFINE q == [r EXCEPT !.pc = "upsert", !.ref = provider']
    <3>1. job' = [job EXCEPT ![j] = q]
      BY <1>14, <2>2 DEF UpdateProduct
    <3>2. q.pc = "upsert"
      BY <1>1 DEF JobRecords
    <3>. HIDE DEF q
    <3>3. job'[j].pc = "upsert" /\ \A k \in Jobs \ {j} : job'[k] = job[k]
      BY <3>1, <3>2, MoveTo
    <3> QED BY <1>14, <3>3 DEF Arrivals, PolicyPcs
  <2> QED BY <2>1, <2>2
<1>15. CASE UpsertSubscription(j)
  <2>1. job'[j].pc = "notify" /\ \A k \in Jobs \ {j} : job'[k] = job[k]
    BY <1>15, <1>10 DEF UpsertSubscription
  <2> QED BY <1>15, <2>1 DEF Arrivals, PolicyPcs
<1> QED
  BY <1>2, <1>3, <1>4, <1>5, <1>6, <1>7, <1>8, <1>11, <1>12, <1>13, <1>14,
     <1>15 DEF BillingStep

LEMMA FaultMoves ==
  ASSUME JobTypes, NEW j \in Jobs, FaultOf(j)
  PROVE  Arrivals(j)
<1>. DEFINE r == job[j]
<1>1. r \in JobRecords /\ Shape(r)
  BY DEF JobTypes
<1>2. CASE CallFails(j)
  <2>1. ASSUME NEW t \in r.tasks, job' = [job EXCEPT ![j].tasks = @ \ {t}]
        PROVE  Arrivals(j)
    <3>1. job' = [job EXCEPT ![j].pc = "call", ![j].tasks = r.tasks \ {t}]
      BY ZenonT(90), <1>1, <1>2, <2>1 DEF JobRecords, CallFails, At
    <3>2. r.pc \in FlushPcs
      BY <1>2 DEF CallFails, At, FlushPcs
    <3> QED BY <3>1, <3>2, MoveCall
  <2> QED BY <1>2, <2>1, MoveDone DEF CallFails
<1>3. CASE ReplyLost(j)
  BY <1>3, MoveDone, MoveNext DEF ReplyLost, NextTask, FlushPcs, At
<1>4. CASE RefreshFails(j)
  BY <1>4, MoveGiveUp DEF RefreshFails, FailRefresh, FlushPcs, CallPcs
<1>5. CASE EnqueueFails(j) \/ PurgeFails(j)
  BY <1>5, MoveDone, MoveGoto
     DEF EnqueueFails, PurgeFails, RedeliverPurge, EndsByFault, Fault, Marked,
     PolicyPcs
<1>6. CASE ConsumerFails(j) \/ SendFails(j) \/ NotifyFails(j) \/ Abandon(j)
  BY <1>6, MoveDone
     DEF ConsumerFails, RedeliverPurge, SendFails, NotifyFails, Abandon,
     EndsByFault
<1>7. CASE PolicyCallFails(j)
  <2>0. r.op = "policy"
    BY <1>7 DEF PolicyCallFails
  <2>1. ASSUME NEW n, r.pc = "vaults",
               job' = [job EXCEPT ![j].tasks = n, ![j].failed = TRUE]
        PROVE  Arrivals(j)
    <3>. DEFINE q == [r EXCEPT !.tasks = n, !.failed = TRUE]
    <3>1. q.pc = "vaults" /\ q.op = r.op /\ q.ref = r.ref
      BY <1>1, <2>1 DEF JobRecords
    <3>2. job' = [job EXCEPT ![j] = q]
      BY <2>1
    <3>. HIDE DEF q
    <3> QED BY <2>0, <3>1, <3>2, MovePolicy
  <2>2. ASSUME job' = [job EXCEPT ![j].pc = "vaults", ![j].failed = TRUE]
        PROVE  Arrivals(j)
    <3>. DEFINE q == [r EXCEPT !.pc = "vaults", !.failed = TRUE]
    <3>1. q.pc = "vaults" /\ q.op = r.op /\ q.ref = r.ref
      BY <1>1 DEF JobRecords
    <3>2. job' = [job EXCEPT ![j] = q]
      BY <2>2
    <3>. HIDE DEF q
    <3> QED BY <2>0, <3>1, <3>2, MovePolicy
  <2> QED BY <1>7, <2>1, <2>2 DEF PolicyCallFails, At
<1> QED
  BY <1>2, <1>3, <1>4, <1>5, <1>6, <1>7
     DEF FaultOf, SharingFault, LifecycleFault, BillingFault

LEMMA StartMoves ==
  ASSUME JobTypes, NEW j \in Jobs, StartRequest(j)
  PROVE  Arrivals(j)
<1>1. ASSUME NEW r, NEW kind, Start(j, kind, r)
      PROVE  /\ job'[j] = r /\ \A k \in Jobs \ {j} : job'[k] = job[k]
             /\ r.pc \notin Marked => Arrivals(j)
  BY <1>1, MoveTo, MoveUnmarked DEF Start
<1>2. CASE \/ \E r \in Requests : StartComplete(j, r)
           \/ \E u \in Users, v \in Vaults : StartIssueToken(j, u, v)
           \/ \E t \in tokens : StartConnect(j, t)
           \/ \E u \in Users : StartCheckout(j, u) \/ StartPortal(j, u)
  <2>1. ASSUME NEW r \in Requests, StartComplete(j, r) PROVE Arrivals(j)
    <3>1. [Idle EXCEPT !.op = "complete", !.pc = "complete",
             !.vault = keyRequest[r].vault, !.ref = r].pc = "complete"
      BY DEF Idle
    <3> QED BY <2>1, <1>1, <3>1 DEF StartComplete, Arrivals, PolicyPcs
  <2>2. ASSUME NEW u \in Users, NEW v \in Vaults, StartIssueToken(j, u, v)
        PROVE  Arrivals(j)
    <3>1. [Idle EXCEPT !.op = "token", !.pc = "mint", !.user = u,
             !.vault = v, !.num = grant[v][u].version, !.at = now].pc = "mint"
      BY DEF Idle
    <3> QED BY <2>2, <1>1, <3>1 DEF StartIssueToken, Arrivals, PolicyPcs
  <2>3. ASSUME NEW t \in tokens, StartConnect(j, t) PROVE Arrivals(j)
    <3>1. [Idle EXCEPT !.op = "connect", !.pc = "accept socket",
             !.vault = t.vault, !.ref = t].pc = "accept socket"
      BY DEF Idle
    <3> QED BY <2>3, <1>1, <3>1 DEF StartConnect, Arrivals, PolicyPcs
  <2>4. ASSUME NEW u \in Users, StartCheckout(j, u) PROVE Arrivals(j)
    <3>1. [Idle EXCEPT !.op = "checkout", !.pc = "customer", !.ref = bound].pc
            = "customer"
      BY DEF Idle
    <3> QED BY <2>4, <1>1, <3>1 DEF StartCheckout, Arrivals, PolicyPcs
  <2>5. ASSUME NEW u \in Users, StartPortal(j, u) PROVE Arrivals(j)
    <3>1. [Idle EXCEPT !.op = "portal", !.pc = "portal", !.ref = bound].pc
            = "portal"
      BY DEF Idle
    <3> QED BY <2>5, <1>1, <3>1 DEF StartPortal, Arrivals, PolicyPcs
  <2> QED BY <1>2, <2>1, <2>2, <2>3, <2>4, <2>5
<1>3. ASSUME NEW r, NEW kind, Start(j, kind, r), r.pc \notin Marked
      PROVE  Arrivals(j)
  BY <1>1, <1>3
<1>4. ASSUME NEW u \in Users, NEW w \in Users, NEW as,
             StartInvite(j, u, w, as)
      PROVE  Arrivals(j)
  BY <1>4, <1>3 DEF StartInvite, Idle, Marked, PolicyPcs
<1>5. ASSUME NEW u \in Users, NEW w \in Users, NEW as,
             StartChangeRole(j, u, w, as)
      PROVE  Arrivals(j)
  BY <1>5, <1>3 DEF StartChangeRole, Idle, Marked, PolicyPcs
<1>6. ASSUME NEW u \in Users, NEW w \in Users,
             StartRemoveMember(j, u, w)
      PROVE  Arrivals(j)
  BY <1>6, <1>3 DEF StartRemoveMember, Idle, Marked, PolicyPcs
<1>7. ASSUME NEW u \in Users, NEW i \in Invites,
             StartCancel(j, u, i)
      PROVE  Arrivals(j)
  BY <1>7, <1>3 DEF StartCancel, Idle, Marked, PolicyPcs
<1>8. ASSUME NEW u \in Users, NEW i \in Invites,
             StartResend(j, u, i)
      PROVE  Arrivals(j)
  BY <1>8, <1>3 DEF StartResend, Idle, Marked, PolicyPcs
<1>9. ASSUME NEW i \in Invites,
             StartReject(j, i)
      PROVE  Arrivals(j)
  BY <1>9, <1>3 DEF StartReject, Idle, Marked, PolicyPcs
<1>10. ASSUME NEW i \in Invites,
             StartAccept(j, i)
      PROVE  Arrivals(j)
  BY <1>10, <1>3 DEF StartAccept, Idle, Marked, PolicyPcs
<1>11. ASSUME NEW u \in Users, NEW v \in Vaults, NEW q \in Requests,
             StartKeyRequest(j, u, v, q)
      PROVE  Arrivals(j)
  BY <1>11, <1>3 DEF StartKeyRequest, Idle, Marked, PolicyPcs
<1>12. ASSUME NEW u \in Users, NEW v \in Vaults,
             StartReplacePassword(j, u, v)
      PROVE  Arrivals(j)
  BY <1>12, <1>3 DEF StartReplacePassword, Idle, Marked, PolicyPcs
<1>13. ASSUME NEW u \in Users,
             StartViewOrganization(j, u)
      PROVE  Arrivals(j)
  BY <1>13, <1>3 DEF StartViewOrganization, Idle, Marked, PolicyPcs
<1>14. ASSUME NEW u \in Users, NEW q \in Requests,
             StartApprove(j, u, q)
      PROVE  Arrivals(j)
  BY <1>14, <1>3 DEF StartApprove, Idle, Marked, PolicyPcs
<1>15. ASSUME NEW u \in Users,
             StartCreateVault(j, u)
      PROVE  Arrivals(j)
  BY ZenonT(90), <1>15, <1>3 DEF StartCreateVault, Idle, Marked, PolicyPcs
<1>16. ASSUME NEW u \in Users, NEW v \in Vaults,
              NEW op \in {"delete", "inline"}, StartDeleteVault(j, u, v, op)
       PROVE  Arrivals(j)
  <2>1. [Idle EXCEPT !.op = op, !.pc = "claim", !.vault = v].pc = "claim"
    BY DEF Idle
  <2> QED BY <1>16, <1>1, <2>1 DEF StartDeleteVault, Arrivals, PolicyPcs
<1>17. CASE StartRetention(j)
  BY <1>17, <1>3 DEF StartRetention, Idle, Marked, PolicyPcs
<1>18. ASSUME NEW u \in Users, NEW plan,
             StartChangePlan(j, u, plan)
      PROVE  Arrivals(j)
  BY <1>18, <1>3 DEF StartChangePlan, Idle, Marked, PolicyPcs
<1>19. CASE StartSharing(j)
  BY <1>2, <1>19, <1>4, <1>5, <1>6, <1>7, <1>8, <1>9, <1>10, <1>11, <1>12, <1>13, <1>14 DEF StartSharing
<1> QED
  BY <1>2, <1>19, <1>15, <1>16, <1>17, <1>18
     DEF StartRequest, StartAccess, StartLifecycle, StartBilling

\* A request in progress arrives at a marked step only from the step before.
LEMMA JobMoves ==
  ASSUME JobTypes, NEW j \in Jobs, StartRequest(j) \/ Step(j) \/ FaultOf(j)
  PROVE  Arrivals(j)
BY StartMoves, SharingMoves, AccessMoves, LifecycleMoves, BillingMoves,
   FaultMoves DEF Step

LEMMA JobsTyped ==
  ASSUME TypeInv, NEW j \in Jobs, StartRequest(j) \/ Step(j) \/ FaultOf(j)
  PROVE  JobTypes'
BY StartJobs, SharingJobs, AccessJobs, LifecycleJobs, BillingJobs, FaultJobs
   DEF Step

LEMMA MemberRows ==
  ASSUME TypeInv, NEW j \in Jobs, Writers(j)
  PROVE  /\ role' \in [Users -> {"none", "member", "admin", "owner"}]
         /\ invite' \in [Invites ->
              [status : {"unused", "pending", "accepted", "rejected",
                         "canceled"},
               to : Users \cup {None}, role : {"none", "member", "admin"},
               by : Users \cup {None}, expires : Nat]]
         /\ \A i \in Invites : invite'[i].status # "unused" =>
              /\ invite'[i].to \in Users /\ invite'[i].by \in Users
              /\ invite'[i].role # "none"
<1>. DEFINE r == job[j]
            InviteRows == [status : {"unused", "pending", "accepted",
                                     "rejected", "canceled"},
                           to : Users \cup {None},
                           role : {"none", "member", "admin"},
                           by : Users \cup {None}, expires : Nat]
            Good(x) == x.status # "unused" =>
                         x.to \in Users /\ x.by \in Users /\ x.role # "none"
<1>1. /\ role \in [Users -> {"none", "member", "admin", "owner"}]
      /\ invite \in [Invites -> InviteRows] /\ now \in Nat
      /\ \A i \in Invites : Good(invite[i])
  BY DEF TypeInv, TypeOK, UsedRows
<1>2. r \in JobRecords /\ Shape(r)
  BY DEF TypeInv, JobTypes
<1>. USE DEF At
<1>3. role' \in [Users -> {"none", "member", "admin", "owner"}]
  <2>1. CASE role' = role BY <2>1, <1>1
  <2>2. CASE AcceptInvitation(j)
    <3>1. r.ref \in Invites
      BY <1>2, <2>2 DEF AcceptInvitation, Shape
    <3>2. CASE role' = role BY <3>2, <1>1
    <3>3. CASE role' # role
      <4>1. role' = [role EXCEPT ![invite[r.ref].to] = invite[r.ref].role]
        BY <2>2, <3>3 DEF AcceptInvitation
      <4> QED BY <4>1, <3>1, <1>1
    <3> QED BY <3>2, <3>3
  <2>3. CASE ChangeOrganizationRole(j)
    <3>1. r.user \in Users /\ r.op \in {"admin", "member"}
      BY <1>2, <2>3 DEF ChangeOrganizationRole, Shape, UserPcs
    <3> QED BY <2>3, <3>1, <1>1 DEF ChangeOrganizationRole
  <2>4. CASE RemoveOrganizationMember(j)
    BY <2>4, <1>1 DEF RemoveOrganizationMember
  <2> QED BY <2>1, <2>2, <2>3, <2>4 DEF Writers
<1>4. ASSUME NEW i \in Invites, NEW x \in InviteRows, Good(x),
             invite' = [invite EXCEPT ![i] = x]
      PROVE  /\ invite' \in [Invites -> InviteRows]
             /\ \A k \in Invites : Good(invite'[k])
  BY <1>1, <1>4
<1>5. /\ invite' \in [Invites -> InviteRows]
      /\ \A k \in Invites : Good(invite'[k])
  <2>1. CASE invite' = invite BY <2>1, <1>1
  <2>2. CASE CreateInvitation(j) /\ invite' # invite
    <3>. DEFINE x == [status |-> "pending", to |-> r.ref, role |-> r.op,
                      by |-> r.user, expires |-> now + InviteTtl]
    <3>1. PICK i \in Invites : invite' = [invite EXCEPT ![i] = x]
      BY <2>2 DEF CreateInvitation, Unused
    <3>2. r.ref \in Users /\ r.op \in {"admin", "member"} /\ r.user \in Users
      BY <1>2, <2>2 DEF CreateInvitation, Shape, UserPcs
    <3>3. x \in InviteRows /\ Good(x)
      BY <3>2, <1>1, StoreAssumptions
    <3>. HIDE DEF x
    <3> QED BY <3>1, <3>3, <1>4
  <2>3. CASE SetInvitationStatus(j) /\ invite' # invite
    <3>. DEFINE x == [invite[r.ref] EXCEPT !.status = r.op]
    <3>1. r.ref \in Invites /\ r.op \in {"canceled", "rejected"}
      BY <1>2, <2>3 DEF SetInvitationStatus, Shape
    <3>2. invite[r.ref].status = "pending"
            /\ invite' = [invite EXCEPT ![r.ref] = x]
      BY <2>3 DEF SetInvitationStatus
    <3>3. x \in InviteRows /\ Good(x)
      BY <3>1, <3>2, <1>1
    <3>. HIDE DEF x
    <3> QED BY <3>1, <3>2, <3>3, <1>4
  <2>4. CASE AcceptInvitation(j) /\ invite' # invite
    <3>. DEFINE x == [invite[r.ref] EXCEPT !.status = "accepted"]
    <3>1. r.ref \in Invites
      BY <1>2, <2>4 DEF AcceptInvitation, Shape
    <3>2. LiveInvite(r.ref) /\ invite' = [invite EXCEPT ![r.ref] = x]
      BY <2>4 DEF AcceptInvitation
    <3>3. x \in InviteRows /\ Good(x)
      BY <3>1, <3>2, <1>1 DEF LiveInvite
    <3>. HIDE DEF x
    <3> QED BY <3>1, <3>2, <3>3, <1>4
  <2> QED BY <2>1, <2>2, <2>3, <2>4 DEF Writers
<1> QED BY <1>3, <1>5

LEMMA ClaimRows ==
  ASSUME TypeInv, NEW j \in Jobs, Writers(j)
  PROVE  claims' \subseteq [id : Nat, invite : Invites, at : Nat]
           /\ IsFiniteSet(claims')
<1>1. /\ claims \subseteq [id : Nat, invite : Invites, at : Nat]
      /\ IsFiniteSet(claims) /\ now \in Nat
  BY DEF TypeInv, TypeOK, FiniteRows
<1>2. CASE claims' = claims BY <1>1, <1>2
<1>3. CASE claims' # claims
  <2>. DEFINE c == [id |-> Cardinality(claims) + 1, invite |-> job[j].ref,
                    at |-> now]
  <2>1. claims' = claims \cup {c} /\ job[j].ref \in Invites
    BY <1>3 DEF Writers, ClaimInvitationDelivery, TypeInv, JobTypes, Shape, At
  <2>2. Cardinality(claims) \in Nat
    BY <1>1, FS_CardinalityType
  <2>3. c \in [id : Nat, invite : Invites, at : Nat]
    BY <2>1, <2>2, <1>1
  <2>. HIDE DEF c
  <2>4. IsFiniteSet(claims')
    BY <2>1, <1>1, FS_AddElement
  <2> QED BY <2>1, <2>3, <2>4, <1>1
<1> QED BY <1>2, <1>3

LEMMA KeyRows ==
  ASSUME TypeInv, NEW j \in Jobs, Writers(j)
  PROVE  /\ grant' \in [Vaults -> [Users ->
              [status : {"none", "pending_key", "active", "revoked"},
               version : Nat]]]
         /\ wrapper' \in [Vaults -> SUBSET Users]
<1>. DEFINE r == job[j]
            Grants == [status : {"none", "pending_key", "active", "revoked"},
                       version : Nat]
<1>1. grant \in [Vaults -> [Users -> Grants]]
        /\ wrapper \in [Vaults -> SUBSET Users]
  BY DEF TypeInv, TypeOK
<1>2. r \in JobRecords /\ Shape(r) /\ JobTypes
  BY DEF TypeInv, JobTypes
<1>. USE DEF At
<1>3. ASSUME CompleteKeyRequest(j), keyRequest' # keyRequest
      PROVE  keyRequest[r.ref].user \in Users /\ r.vault \in Vaults
    <2>1. r.ref \in Requests /\ r.vault \in Vaults
      BY ZenonT(90), <1>2, <1>3 DEF CompleteKeyRequest, Shape, VaultPcs
    <2>2. keyRequest[r.ref].status = "approved"
      BY <1>3 DEF CompleteKeyRequest, keyVars
    <2>3. UsedRows
      BY DEF TypeInv
    <2> QED BY <2>1, <2>2, <2>3, RequestUsed
<1>4. ASSUME NEW v \in Vaults, NEW u \in Users, NEW g \in Grants,
             grant' = [grant EXCEPT ![v][u] = g]
      PROVE  grant' \in [Vaults -> [Users -> Grants]]
  BY <1>1, <1>4
<1>5. grant' \in [Vaults -> [Users -> Grants]]
  <2>1. CASE grant' = grant BY <2>1, <1>1
  <2>2. CASE RemoveOrganizationMember(j)
    <3>. DEFINE Revoke(g) == IF g.status \in {"none", "revoked"} THEN g
                   ELSE [status |-> "revoked", version |-> g.version + 1]
    <3>1. \A g \in Grants : Revoke(g) \in Grants
      OBVIOUS
    <3>2. grant' = [v \in Vaults |->
            IF v \in {w \in Vaults : Exists(w)}
            THEN [grant[v] EXCEPT ![r.user] = Revoke(@)] ELSE grant[v]]
      BY <2>2 DEF RemoveOrganizationMember
    <3>. HIDE DEF Revoke
    <3>3. r.user \in Users
      BY <1>2, <2>2 DEF RemoveOrganizationMember, Shape, UserPcs
    <3> QED BY <3>1, <3>2, <3>3, <1>1
  <2>3. CASE EnsureVaultEnrollment(j) /\ grant' # grant
    <3>. DEFINE g == [status |-> "pending_key",
                      version |-> grant[r.vault][r.user].version + 1]
    <3>1. r.user \in Users /\ r.vault \in Vaults
      BY <1>2, <2>3 DEF EnsureVaultEnrollment, Shape, UserPcs, VaultPcs
    <3>2. g \in Grants
      BY <3>1, <1>1
    <3>3. grant' = [grant EXCEPT ![r.vault][r.user] = g]
      BY <2>3 DEF EnsureVaultEnrollment
    <3>. HIDE DEF g
    <3> QED BY <3>1, <3>2, <3>3, <1>4
  <2>4. CASE CompleteKeyRequest(j) /\ grant' # grant
    <3>. DEFINE u == keyRequest[r.ref].user
    <3>1. grant' = [grant EXCEPT ![r.vault][u].status = "active"]
            /\ keyRequest[r.ref].status = "approved" /\ r.ref \in Requests
            /\ r.vault \in Vaults
      BY <2>4, <1>2 DEF CompleteKeyRequest, keyVars, Shape, VaultPcs
    <3>2. u \in Users
      BY <3>1 DEF TypeInv, UsedRows, NoRequest
    <3>. HIDE DEF u
    <3>. DEFINE g == [grant[r.vault][u] EXCEPT !.status = "active"]
    <3>3. g \in Grants
      <4>1. grant[r.vault][u] \in Grants
        BY <3>1, <3>2, <1>1
      <4> QED BY <4>1
    <3>4. grant' = [grant EXCEPT ![r.vault][u] = g]
      BY <3>1, <3>2, <1>1
    <3>. HIDE DEF g
    <3> QED BY <3>1, <3>2, <3>3, <3>4, <1>4
  <2>5. CASE CreateVaultForUser(j) /\ grant' # grant
    <3>1. PICK v \in Vaults :
            grant' = [grant EXCEPT ![v][r.user] =
                        [status |-> "active", version |-> 1]]
      BY <2>5 DEF CreateVaultForUser
    <3>2. r.user \in Users
      BY <1>2, <2>5 DEF CreateVaultForUser, Shape, UserPcs
    <3>3. [status |-> "active", version |-> 1] \in Grants
      OBVIOUS
    <3> QED BY <3>1, <3>2, <3>3, <1>4
  <2>6. CASE HardDeleteVault(j)
    BY <2>6, <1>1 DEF HardDeleteVault
  <2> QED BY <2>1, <2>2, <2>3, <2>4, <2>5, <2>6 DEF Writers
<1>6. wrapper' \in [Vaults -> SUBSET Users]
  <2>1. CASE wrapper' = wrapper BY <2>1, <1>1
  <2>2. CASE RemoveOrganizationMember(j)
    BY <2>2, <1>1 DEF RemoveOrganizationMember
  <2>3. CASE CompleteKeyRequest(j) /\ wrapper' # wrapper
    <3>1. wrapper' = [wrapper EXCEPT ![r.vault] =
                        @ \cup {keyRequest[r.ref].user}]
            /\ keyRequest[r.ref].status = "approved" /\ r.ref \in Requests
            /\ r.vault \in Vaults
      BY <2>3, <1>2 DEF CompleteKeyRequest, keyVars, Shape, VaultPcs
    <3>2. keyRequest[r.ref].user \in Users
      BY <3>1 DEF TypeInv, UsedRows, NoRequest
    <3> QED BY ZenonT(90), <3>1, <3>2, <1>1
  <2>4. CASE UpsertPasswordWrapper(j) /\ wrapper' # wrapper
    <3>1. r.user \in Users /\ r.vault \in Vaults
      BY <1>2, <2>4 DEF UpsertPasswordWrapper, Shape, UserPcs, VaultPcs
    <3>2. wrapper' = [wrapper EXCEPT ![r.vault] = @ \cup {r.user}]
      BY <2>4 DEF UpsertPasswordWrapper
    <3> QED BY <3>1, <3>2, <1>1
  <2>5. CASE CreateVaultForUser(j) /\ wrapper' # wrapper
    <3>1. r.user \in Users
      BY <1>2, <2>5 DEF CreateVaultForUser, Shape, UserPcs
    <3>2. PICK v \in Vaults : wrapper' = [wrapper EXCEPT ![v] = {r.user}]
      BY <2>5 DEF CreateVaultForUser
    <3> QED BY <3>1, <3>2, <1>1
  <2>6. CASE HardDeleteVault(j)
    BY <2>6, <1>1 DEF HardDeleteVault
  <2> QED BY <2>1, <2>2, <2>3, <2>4, <2>5, <2>6 DEF Writers
<1> QED BY <1>5, <1>6

LEMMA RequestRows ==
  ASSUME TypeInv, NEW j \in Jobs, Writers(j)
  PROVE  /\ keyRequest' \in [Requests ->
              [status : {"unused", "pending", "approved", "completed",
                         "canceled"},
               user : Users \cup {None}, vault : Vaults \cup {None},
               version : Nat, by : Users \cup {None}, expires : Nat]]
         /\ \A q \in Requests : keyRequest'[q] = NoRequest \/
              /\ keyRequest'[q].status # "unused"
              /\ keyRequest'[q].user \in Users
              /\ keyRequest'[q].vault \in Vaults
<1>. DEFINE r == job[j]
            States == {"pending", "approved", "completed", "canceled"}
            Rows1 == [status : States, user : Users, vault : Vaults,
                      version : Nat, by : Users \cup {None}, expires : Nat]
            Good(k) == k \in [Requests -> Rows1 \cup {NoRequest}]
            Close(x) == [x EXCEPT !.status = "canceled"]
<1>1. Good(keyRequest) /\ now \in Nat
  <2>. DEFINE All == [status : {"unused", "pending", "approved", "completed",
                                "canceled"},
                      user : Users \cup {None}, vault : Vaults \cup {None},
                      version : Nat, by : Users \cup {None}, expires : Nat]
  <2>1. keyRequest \in [Requests -> All] /\ now \in Nat
    BY DEF TypeInv, TypeOK
  <2>2. \A q \in Requests : keyRequest[q] = NoRequest \/
          /\ keyRequest[q].status # "unused"
          /\ keyRequest[q].user \in Users /\ keyRequest[q].vault \in Vaults
    BY DEF TypeInv, UsedRows
  <2>3. ASSUME NEW x \in All, x.status # "unused", x.user \in Users,
               x.vault \in Vaults
        PROVE  x \in Rows1
    BY <2>3
  <2> QED BY <2>1, <2>2, <2>3
<1>2. r \in JobRecords /\ Shape(r)
  BY DEF TypeInv, JobTypes
<1>. USE DEF At
<1>3. \A x \in Rows1 : Close(x) \in Rows1
  OBVIOUS
<1>4. /\ \A x \in Rows1 : x.status \in States /\ x.user \in Users
                            /\ x.vault \in Vaults
      /\ NoRequest.status = "unused" /\ NoRequest.user = None
      /\ NoRequest.vault = None
  BY DEF NoRequest
<1>5. Good(keyRequest')
  <2>1. CASE keyRequest' = keyRequest BY <2>1, <1>1
  <2>2. CASE RemoveOrganizationMember(j)
    <3>1. r.user \in Users
      BY <1>2, <2>2 DEF RemoveOrganizationMember, Shape, UserPcs
    <3>2. keyRequest' = [q \in Requests |->
            IF keyRequest[q].user = r.user
                 /\ keyRequest[q].vault \in {v \in Vaults : Exists(v)}
            THEN Close(keyRequest[q]) ELSE keyRequest[q]]
      BY <2>2 DEF RemoveOrganizationMember
    <3>3. \A q \in Requests : keyRequest[q].user = r.user =>
            keyRequest[q] # NoRequest
      BY <3>1, <1>4, StoreAssumptions
    <3>. HIDE DEF Close
    <3>4. ASSUME NEW q \in Requests
          PROVE  keyRequest'[q] \in Rows1 \cup {NoRequest}
      BY <3>2, <3>3, <1>1, <1>3
    <3> QED BY <3>2, <3>4
  <2>3. CASE CreateKeyRequest(j) /\ keyRequest' # keyRequest
    <3>. DEFINE mine == [status |-> "pending", user |-> r.user,
                         vault |-> r.vault, version |-> r.num, by |-> None,
                         expires |-> now + RequestTtl]
    <3>1. keyRequest' = [q \in Requests |->
            IF q = r.ref THEN mine
            ELSE IF /\ keyRequest[q].user = r.user
                    /\ keyRequest[q].vault = r.vault /\ OpenRequest(q)
            THEN Close(keyRequest[q]) ELSE keyRequest[q]]
      BY <2>3 DEF CreateKeyRequest
    <3>2. r.user \in Users /\ r.vault \in Vaults /\ r.num \in Nat
      BY <1>2, <2>3 DEF CreateKeyRequest, Shape, UserPcs, VaultPcs, JobRecords
    <3>3. mine \in Rows1
      BY <3>2, <1>1, StoreAssumptions
    <3>4. \A q \in Requests : OpenRequest(q) => keyRequest[q] # NoRequest
      BY <1>4 DEF OpenRequest
    <3>. HIDE DEF Close, mine
    <3>5. ASSUME NEW q \in Requests
          PROVE  keyRequest'[q] \in Rows1 \cup {NoRequest}
      BY <3>1, <3>3, <3>4, <1>1, <1>3
    <3> QED BY <3>1, <3>5
  <2>4. CASE ApproveKeyRequest(j) /\ keyRequest' # keyRequest
    <3>. DEFINE x == [keyRequest[r.ref] EXCEPT !.status = "approved",
                                               !.by = r.user]
    <3>1. r.user \in Users /\ r.ref \in Requests
      BY <1>2, <2>4 DEF ApproveKeyRequest, Shape, UserPcs
    <3>2. keyRequest' = [keyRequest EXCEPT ![r.ref] = x]
            /\ keyRequest[r.ref].status = "pending"
      BY <2>4, <1>1, <3>1 DEF ApproveKeyRequest
    <3>3. x \in Rows1
      BY ZenonT(90), <3>1, <3>2, <1>1, <1>4
    <3>. HIDE DEF x
    <3> QED BY <3>1, <3>2, <3>3, <1>1
  <2>5. CASE CompleteKeyRequest(j) /\ keyRequest' # keyRequest
    <3>. DEFINE x == [keyRequest[r.ref] EXCEPT !.status = "completed"]
    <3>1. r.ref \in Requests
      BY ZenonT(90), <1>2, <2>5 DEF CompleteKeyRequest, Shape
    <3>2. keyRequest' = [keyRequest EXCEPT ![r.ref] = x]
            /\ keyRequest[r.ref].status = "approved"
      BY <2>5, <1>1, <3>1 DEF CompleteKeyRequest, keyVars
    <3>3. x \in Rows1
      BY <3>1, <3>2, <1>1, <1>4
    <3>. HIDE DEF x
    <3> QED BY ZenonT(90), <3>1, <3>2, <3>3, <1>1
  <2>6. CASE UpsertPasswordWrapper(j) /\ keyRequest' # keyRequest
    <3>1. keyRequest' = [q \in Requests |->
            IF keyRequest[q].user = r.user /\ keyRequest[q].vault = r.vault
                 /\ OpenRequest(q)
            THEN Close(keyRequest[q]) ELSE keyRequest[q]]
      BY <2>6 DEF UpsertPasswordWrapper
    <3>2. \A q \in Requests : OpenRequest(q) => keyRequest[q] # NoRequest
      BY <1>4 DEF OpenRequest
    <3>. HIDE DEF Close
    <3>3. ASSUME NEW q \in Requests
          PROVE  keyRequest'[q] \in Rows1 \cup {NoRequest}
      BY <3>1, <3>2, <1>1, <1>3
    <3> QED BY <3>1, <3>3
  <2>7. CASE ListRefreshes(j)
    <3>1. keyRequest' = [q \in Requests |->
            IF OpenRequest(q) /\ keyRequest[q].expires <= now
            THEN Close(keyRequest[q]) ELSE keyRequest[q]]
      BY <2>7 DEF ListRefreshes
    <3>2. \A q \in Requests : OpenRequest(q) => keyRequest[q] # NoRequest
      BY <1>4 DEF OpenRequest
    <3>. HIDE DEF Close
    <3>3. ASSUME NEW q \in Requests
          PROVE  keyRequest'[q] \in Rows1 \cup {NoRequest}
      BY <3>1, <3>2, <1>1, <1>3
    <3> QED BY <3>1, <3>3
  <2>8. CASE HardDeleteVault(j)
    <3>1. keyRequest' = [q \in Requests |->
            IF keyRequest[q].vault = r.vault
            THEN Close(keyRequest[q]) ELSE keyRequest[q]]
      BY <2>8 DEF HardDeleteVault
    <3>2. r.vault \in Vaults
      BY <1>2, <2>8 DEF HardDeleteVault, Shape, VaultPcs, PurgePcs
    <3>3. \A q \in Requests : keyRequest[q].vault = r.vault =>
            keyRequest[q] # NoRequest
      BY <3>2, <1>4, StoreAssumptions
    <3>. HIDE DEF Close
    <3>4. ASSUME NEW q \in Requests
          PROVE  keyRequest'[q] \in Rows1 \cup {NoRequest}
      BY <3>1, <3>3, <1>1, <1>3
    <3> QED BY <3>1, <3>4
  <2> QED BY <2>1, <2>2, <2>3, <2>4, <2>5, <2>6, <2>7, <2>8 DEF Writers
<1> QED BY <1>5, <1>4 DEF NoRequest

LEMMA VaultRows ==
  ASSUME TypeInv, NEW j \in Jobs, Writers(j)
  PROVE  /\ vault' \in [Vaults ->
              [state : {"unused", "live", "deleted", "gone"},
               purge : {"none", "queued", "running", "failed"},
               shared : BOOLEAN]]
         /\ outbox' \in [Vaults -> Nat] /\ revision' \in Nat
<1>. DEFINE r == job[j]
            VRows == [state : {"unused", "live", "deleted", "gone"},
                     purge : {"none", "queued", "running", "failed"},
                     shared : BOOLEAN]
<1>1. /\ vault \in [Vaults -> VRows]
      /\ outbox \in [Vaults -> Nat] /\ revision \in Nat
  BY DEF TypeInv, TypeOK
<1>2. r \in JobRecords /\ Shape(r)
  BY DEF TypeInv, JobTypes
<1>. USE DEF At
<1>3. ASSUME NEW v \in Vaults,
             NEW s \in {"unused", "live", "deleted", "gone"},
             NEW p \in {"none", "queued", "running", "failed"},
             \/ vault' = [vault EXCEPT ![v].purge = p]
             \/ vault' = [vault EXCEPT ![v].state = s, ![v].purge = p]
      PROVE  vault' \in [Vaults -> VRows]
  <2>1. [vault[v] EXCEPT !.purge = p] \in VRows
          /\ [vault[v] EXCEPT !.state = s, !.purge = p] \in VRows
    <3>1. vault[v] \in VRows BY <1>1
    <3> QED BY <3>1
  <2>2. \/ vault' = [vault EXCEPT ![v] = [vault[v] EXCEPT !.purge = p]]
        \/ vault' = [vault EXCEPT ![v] =
                       [vault[v] EXCEPT !.state = s, !.purge = p]]
    BY <1>3
  <2> QED BY <2>1, <2>2, <1>1
<1>4. ASSUME NEW v \in Vaults, Claim(v)
      PROVE  vault' \in [Vaults -> VRows]
  BY <1>4, <1>3, <1>1 DEF Claim
<1>5. ASSUME NEW v \in Vaults, NEW p \in {"running", "failed"},
             MarkPurge(v, p)
      PROVE  vault' \in [Vaults -> VRows]
  BY <1>5, <1>3, <1>1 DEF MarkPurge
<1>6. vault' \in [Vaults -> VRows]
  <2>1. CASE vault' = vault BY <2>1, <1>1
  <2>2. CASE AcceptInvitation(j) /\ vault' # vault
    <3>1. vault' = [v \in Vaults |->
            IF v \in {x \in Vaults : Live(x)}
            THEN [vault[v] EXCEPT !.shared = TRUE] ELSE vault[v]]
      BY <2>2 DEF AcceptInvitation
    <3>2. \A x \in VRows : [x EXCEPT !.shared = TRUE] \in VRows
      OBVIOUS
    <3> QED BY <3>1, <3>2, <1>1
  <2>3. CASE CreateVaultForUser(j) /\ vault' # vault
    <3>. DEFINE b == Cardinality({w \in Users : IsMember(w)}) > 1
    <3>1. PICK v \in Vaults :
            vault' = [vault EXCEPT ![v] =
                        [state |-> "live", purge |-> "none", shared |-> b]]
      BY <2>3 DEF CreateVaultForUser
    <3>2. b \in BOOLEAN
      OBVIOUS
    <3>. HIDE DEF b
    <3> QED BY <3>1, <3>2, <1>1
  <2>4. CASE ClaimForDelete(j)
    <3>1. r.vault \in Vaults
      BY <1>2, <2>4 DEF ClaimForDelete, Shape, VaultPcs
    <3> QED BY <2>4, <3>1, <1>4 DEF ClaimForDelete
  <2>5. CASE ClaimCandidate(j) /\ vault' # vault
    <3>1. r.tasks \subseteq Vaults
      BY ZenonT(90), <1>2, <2>5 DEF ClaimCandidate, Shape
    <3> QED BY <2>5, <3>1, <1>4 DEF ClaimCandidate
  <2>6. CASE RestoreVault(j) /\ vault' # vault
    <3>1. r.vault \in Vaults
      BY <1>2, <2>6 DEF RestoreVault, Shape, VaultPcs
    <3> QED BY <2>6, <3>1, <1>3 DEF RestoreVault
  <2>7. CASE MarkVaultPurgeRunning(j)
    <3>1. r.vault \in Vaults
      BY <1>2, <2>7 DEF MarkVaultPurgeRunning, Shape, VaultPcs, PurgePcs
    <3> QED BY <2>7, <3>1, <1>5 DEF MarkVaultPurgeRunning
  <2>8. CASE HardDeleteVault(j)
    BY <2>8, <1>1 DEF HardDeleteVault
  <2>9. CASE PurgeFails(j)
    <3>1. r.vault \in Vaults
      BY <1>2, <2>9 DEF PurgeFails, Shape, VaultPcs, PurgePcs
    <3> QED BY <2>9, <3>1, <1>5 DEF PurgeFails
  <2> QED
    BY <2>1, <2>2, <2>3, <2>4, <2>5, <2>6, <2>7, <2>8, <2>9 DEF Writers
<1>7. outbox' \in [Vaults -> Nat] /\ revision' \in Nat
  <2>1. ASSUME NEW V, QueueRefresh(V)
        PROVE  outbox' \in [Vaults -> Nat] /\ revision' \in Nat
    BY <2>1, <1>1 DEF QueueRefresh
  <2>2. ASSUME FinishRefresh(j) \/ HardDeleteVault(j)
        PROVE  outbox' \in [Vaults -> Nat]
    <3>1. \/ outbox' = outbox
          \/ \E v : outbox' = [outbox EXCEPT ![v] = 0]
      BY <2>2 DEF FinishRefresh, HardDeleteVault
    <3> QED BY <3>1, <1>1
  <2>4. ASSUME AcceptInvitation(j) \/ RemoveOrganizationMember(j)
                 \/ QueueVaultRefresh(j)
        PROVE  outbox' \in [Vaults -> Nat]
    BY <2>1, <2>4, <1>1 DEF AcceptInvitation, RemoveOrganizationMember,
       QueueVaultRefresh, outboxVars
  <2>5. outbox' \in [Vaults -> Nat]
    BY ZenonT(90), <2>2, <2>4, <1>1 DEF Writers
  <2>3. revision' \in Nat
    BY <2>1, <1>1 DEF Writers, AcceptInvitation, RemoveOrganizationMember,
       QueueVaultRefresh, outboxVars
  <2> QED BY <2>3, <2>5
<1> QED BY <1>6, <1>7

LEMMA AccessRows ==
  ASSUME TypeInv, NEW j \in Jobs, Writers(j)
  PROVE  /\ tokens' \subseteq Tokens /\ sessions' \subseteq tokens'
         /\ revocation' \in [Vaults -> [Keys -> [min : Nat, expires : Nat]]]
         /\ refreshTail' \in [Vaults -> Seq(Jobs)]
         /\ CoordinatorTypes'
<1>. DEFINE r == job[j]
<1>1. /\ tokens \subseteq Tokens /\ sessions \subseteq tokens
      /\ revocation \in [Vaults -> [Keys -> [min : Nat, expires : Nat]]]
      /\ refreshTail \in [Vaults -> Seq(Jobs)] /\ now \in Nat
      /\ CoordinatorTypes
  BY DEF TypeInv, TypeOK, Tokens
<1>2. r \in JobRecords /\ Shape(r)
  BY DEF TypeInv, JobTypes
<1>. USE DEF At
<1>3. tokens' \subseteq Tokens /\ tokens \subseteq tokens'
  <2>1. CASE tokens' = tokens BY <2>1, <1>1
  <2>2. CASE MintToken(j)
    <3>1. r.user \in Users /\ r.vault \in Vaults /\ r.num \in Nat /\ r.at \in Nat
      BY <1>2, <2>2 DEF MintToken, Shape, UserPcs, VaultPcs, JobRecords
    <3>2. now + TokenTtl \in Nat
      BY <1>1, StoreAssumptions
    <3> QED BY <2>2, <3>1, <3>2, <1>1 DEF MintToken, Tokens
  <2> QED BY <2>1, <2>2 DEF Writers
<1>4. sessions' \subseteq tokens'
  <2>1. CASE sessions' = sessions BY <2>1, <1>1, <1>3
  <2>2. CASE AcceptSocket(j)
    <3>1. r.ref \in tokens
      BY ZenonT(90), <2>2 DEF AcceptSocket, TypeInv, ConnectRefs
    <3> QED BY <2>2, <3>1, <1>1, <1>3 DEF AcceptSocket
  <2>3. CASE ApplyRefresh(j) \/ CloseForPurge(j)
    BY <2>3, <1>1, <1>3 DEF ApplyRefresh, CloseForPurge
  <2> QED BY <2>1, <2>2, <2>3 DEF Writers
<1>5. revocation' \in [Vaults -> [Keys -> [min : Nat, expires : Nat]]]
  <2>. DEFINE Entry == [min : Nat, expires : Nat]
  <2>1. NoRevocation \in Entry
    BY DEF NoRevocation
  <2>2. CASE revocation' = revocation BY <2>2, <1>1
  <2>3. CASE ApplyRefresh(j)
    <3>. DEFINE v == r.vault
                seen == r.versions
                until == now + Lifetime
                Old(k) == IF InForce(revocation[v][k]) THEN revocation[v][k]
                          ELSE NoRevocation
                Larger(a, b) == IF a > b THEN a ELSE b
                entries == [k \in Keys |->
                  IF k = VaultKey
                  THEN IF r.suspended THEN [min |-> 0, expires |-> until]
                       ELSE NoRevocation
                  ELSE IF seen[k] > 1
                  THEN [min |-> Larger(seen[k], Old(k).min),
                        expires |-> Larger(until, Old(k).expires)]
                  ELSE Old(k)]
    <3>1. v \in Vaults /\ seen \in [Users -> Nat] /\ until \in Nat
      <4>1. until \in Nat
        <5>1. now \in Nat
          BY <1>1
        <5>2. Lifetime \in Nat
          BY ZenonT(90), StoreAssumptions
        <5> QED BY <5>1, <5>2, SumTyped
      <4>2. r.pc = "apply"
        BY <2>3 DEF ApplyRefresh
      <4>3. r.vault \in Vaults /\ r.versions \in [Users -> Nat]
        BY <4>2, <1>2 DEF Shape, VaultPcs, CallPcs
      <4> QED BY <4>1, <4>3
    <3>2. \A k \in Keys : Old(k) \in Entry
      BY <3>1, <2>1, <1>1
    <3>3. \A a, b \in Nat : Larger(a, b) \in Nat
      BY ZenonT(90), LargerTyped
    <3>4. revocation' = [revocation EXCEPT ![v] = entries]
      BY <2>3 DEF ApplyRefresh
    <3>. HIDE DEF v, seen, until, Old, Larger
    <3>5. entries \in [Keys -> Entry]
      BY <3>1, <3>2, <3>3, <2>1 DEF Keys
    <3>. HIDE DEF entries
    <3> QED BY ZenonT(90), <3>1, <3>4, <3>5, <1>1
  <2>4. CASE EraseState(j)
    BY <2>1, <2>4, <1>1 DEF EraseState
  <2> QED BY <2>2, <2>3, <2>4 DEF Writers
<1>6. refreshTail' \in [Vaults -> Seq(Jobs)]
  <2>1. CASE refreshTail' = refreshTail BY <2>1, <1>1
  <2>2. ASSUME NEW v \in Vaults,
               refreshTail' = [refreshTail EXCEPT ![v] = Append(@, j)]
        PROVE  refreshTail' \in [Vaults -> Seq(Jobs)]
    BY <2>2, <1>1
  <2>3. CASE CallCoordinator(j)
    <3>1. r.tasks \subseteq RowTasks
      BY <1>2, <2>3 DEF CallCoordinator, Shape, FlushPcs, PolicyPcs, CallPcs
    <3> QED BY <2>2, <2>3, <3>1 DEF CallCoordinator, RowTasks
  <2>4. CASE CallPolicy(j)
    <3>1. r.tasks \subseteq Vaults
      BY <1>2, <2>4 DEF CallPolicy, Shape, PolicyPcs
    <3> QED BY <2>2, <2>4, <3>1 DEF CallPolicy
  <2>5. ASSUME r.pc \in CallPcs, HasTurn(j), LeaveTail(j)
        PROVE  refreshTail' \in [Vaults -> Seq(Jobs)]
    <3>1. r.vault \in Vaults
      BY <1>2, <2>5 DEF Shape, VaultPcs
    <3>2. refreshTail[r.vault] \in Seq(Jobs) /\ refreshTail[r.vault] # <<>>
      BY <3>1, <2>5, <1>1 DEF HasTurn
    <3>3. Tail(refreshTail[r.vault]) \in Seq(Jobs)
      BY ZenonT(90), <3>2, TailTyped
    <3> QED BY <2>5, <3>1, <3>3, <1>1 DEF LeaveTail
  <2>6. CASE SnapshotRefused(j) \/ RefreshFails(j) \/ ApplyRefresh(j)
    BY <2>5, <2>6
       DEF SnapshotRefused, RefreshFails, ApplyRefresh, FailRefresh, CallPcs
  <2> QED BY <2>1, <2>3, <2>4, <2>6 DEF Writers
<1>7. CoordinatorTypes'
  <2>1. CurrentPlan \in Plans
    BY DEF TypeInv, BillingTypes, Snapshots, CurrentPlan, Plans
  <2>2. CASE UNCHANGED <<coordinator, limits>>
    BY <2>2, <1>1 DEF CoordinatorTypes
  <2>3. CASE AcceptSocket(j)
    <3>1. CASE UNCHANGED <<coordinator, limits>>
      BY <3>1, <1>1 DEF CoordinatorTypes
    <3>2. CASE EnsureVaultState(r.ref.vault)
      <4>1. coordinator' \in [Vaults -> [ready : BOOLEAN, erased : BOOLEAN]]
        BY <3>2, <1>1 DEF EnsureVaultState, CoordinatorTypes
      <4>2. limits' \in [Vaults -> Plans]
        BY <3>2, <2>1, <1>1 DEF EnsureVaultState, CoordinatorTypes
      <4> QED BY <4>1, <4>2 DEF CoordinatorTypes
    <3> QED BY <2>3, <3>1, <3>2 DEF AcceptSocket
  <2>4. CASE EraseState(j)
    BY <2>4, <1>1 DEF EraseState, CoordinatorTypes, billingVars
  <2>5. CASE ApplyVaultPolicy(j)
    BY <2>5, <1>1, <1>2
       DEF ApplyVaultPolicy, CoordinatorTypes, JobRecords, otherVars
  <2> QED BY <2>2, <2>3, <2>4, <2>5 DEF Writers
<1> QED BY <1>3, <1>4, <1>5, <1>6, <1>7

\* Among as many numbers as there are messages, and one more, one is free.
LEMMA FreshTyped ==
  ASSUME NEW queue, IsFiniteSet(queue)
  PROVE  /\ FreshId(queue) \in Nat
         /\ \A m \in queue : m.id # FreshId(queue)
<1>. DEFINE n == Cardinality(queue)
<1>1. n \in Nat
  BY FS_CardinalityType
<1>2. IsFiniteSet(1..n + 1) /\ Cardinality(1..n + 1) = n + 1
  BY ZenonT(90), <1>1, IntervalTyped
<1>3. \E k \in 1..n + 1 : \A m \in queue : m.id # k
  <2>. SUFFICES ASSUME \A k \in 1..n + 1 : \E m \in queue : m.id = k
                PROVE  FALSE
    OBVIOUS
  <2>. DEFINE f == [k \in 1..n + 1 |-> CHOOSE m \in queue : m.id = k]
  <2>1. \A k \in 1..n + 1 : f[k] \in queue /\ f[k].id = k
    OBVIOUS
  <2>2. f \in [1..n + 1 -> queue]
    BY <2>1
  <2>. HIDE DEF f
  <2>3. PICK x, y \in 1..n + 1 : x # y /\ f[x] = f[y]
    BY <2>2, <1>1, <1>2, FS_PigeonHole
  <2> QED BY <2>1, <2>3
<1> QED BY <1>1, <1>3 DEF FreshId

\* A message that goes back to its queue, or is given up.
LEMMA RetriedTyped ==
  ASSUME NEW queue, IsFiniteSet(queue), NEW m,
         NEW R, queue \subseteq R,
         m.tries + 1 < MaxTries => [m EXCEPT !.tries = @ + 1] \in R,
         m.tries \in 0..(MaxTries - 1)
  PROVE  Retried(queue, m) \subseteq R /\ IsFiniteSet(Retried(queue, m))
<1>1. MaxTries \in Nat
  BY StoreAssumptions
<1>2. IsFiniteSet(queue \ {m})
  BY FS_RemoveElement
<1>3. CASE GivenUp(m)
  BY <1>2, <1>3 DEF Retried
<1>4. CASE ~GivenUp(m)
  <2>. DEFINE x == [m EXCEPT !.tries = @ + 1]
  <2>1. x \in R
    BY <1>1, <1>4 DEF GivenUp
  <2>2. Retried(queue, m) = (queue \ {m}) \cup {x}
    BY <1>4 DEF Retried
  <2>. HIDE DEF x
  <2> QED BY <1>2, <2>1, <2>2, FS_AddElement
<1> QED BY <1>3, <1>4

LEMMA QueueRows ==
  ASSUME TypeInv, NEW j \in Jobs, Writers(j)
  PROVE  /\ purges' \subseteq Messages /\ IsFiniteSet(purges')
         /\ notices' \subseteq Notices /\ IsFiniteSet(notices')
         /\ refreshes' \subseteq Refreshes /\ IsFiniteSet(refreshes')
         /\ letters' \subseteq Vaults /\ idle' \subseteq Vaults
<1>. DEFINE r == job[j]
<1>1. /\ purges \subseteq Messages /\ IsFiniteSet(purges)
      /\ notices \subseteq Notices /\ IsFiniteSet(notices)
      /\ refreshes \subseteq Refreshes /\ IsFiniteSet(refreshes)
      /\ letters \subseteq Vaults /\ idle \subseteq Vaults
  BY DEF TypeInv, TypeOK, FiniteRows, Notices, Refreshes
<1>2. r \in JobRecords /\ Shape(r)
  BY DEF TypeInv, JobTypes
<1>3. MaxTries \in Nat \ {0} /\ 0 \in 0..(MaxTries - 1)
  BY StoreAssumptions
<1>. USE DEF At
<1>4. purges' \subseteq Messages /\ IsFiniteSet(purges')
  <2>1. CASE purges' = purges BY <2>1, <1>1
  <2>2. CASE EnqueuePurge(j)
    <3>. DEFINE m == [id |-> FreshId(purges), vault |-> r.vault, tries |-> 0,
                      notice |-> r.op = "retention"]
    <3>1. FreshId(purges) \in Nat
      BY <1>1, FreshTyped
    <3>2. r.vault \in Vaults
      BY <1>2, <2>2 DEF EnqueuePurge, Shape, VaultPcs
    <3>3. m \in Messages
      BY <1>3, <3>1, <3>2 DEF Messages
    <3>4. purges' = purges \cup {m}
      BY <2>2 DEF EnqueuePurge
    <3>. HIDE DEF m
    <3> QED BY <3>3, <3>4, <1>1, FS_AddElement
  <2>3. CASE Acknowledge(j)
    BY <2>3, <1>1, FS_RemoveElement DEF Acknowledge
  <2>4. CASE r.op = "purge" /\ RedeliverPurge(j)
    <3>1. r.ref \in Messages
      BY <1>2, <2>4 DEF Shape
    <3>2. r.ref.tries \in 0..(MaxTries - 1)
      BY <3>1 DEF Messages
    <3>3. r.ref.tries + 1 < MaxTries =>
            [r.ref EXCEPT !.tries = @ + 1] \in Messages
      BY <1>3, <3>1 DEF Messages
    <3> QED BY <2>4, <3>2, <3>3, <1>1, RetriedTyped DEF RedeliverPurge
  <2>5. CASE PurgeFails(j) \/ ConsumerFails(j)
    BY <2>1, <2>4, <2>5 DEF PurgeFails, ConsumerFails
  <2> QED BY <2>1, <2>2, <2>3, <2>5 DEF Writers
<1>5. notices' \subseteq Notices /\ IsFiniteSet(notices')
  <2>1. CASE notices' = notices BY <2>1, <1>1
  <2>2. CASE EnqueueNotice(j)
    <3>. DEFINE m == [id |-> FreshId(notices), vault |-> r.vault, tries |-> 0]
    <3>1. FreshId(notices) \in Nat
      BY <1>1, FreshTyped
    <3>2. r.vault \in Vaults
      BY <1>2, <2>2 DEF EnqueueNotice, Shape, VaultPcs
    <3>3. m \in Notices
      BY <1>3, <3>1, <3>2 DEF Notices
    <3>4. notices' = notices \cup {m}
      BY <2>2 DEF EnqueueNotice
    <3>. HIDE DEF m
    <3> QED BY <3>3, <3>4, <1>1, FS_AddElement
  <2>3. CASE SendNotice(j)
    BY <2>3, <1>1, FS_RemoveElement DEF SendNotice
  <2>4. CASE SendFails(j)
    <3>1. r.ref \in Notices
      BY <1>2, <2>4 DEF SendFails, Shape
    <3>2. r.ref.tries \in 0..(MaxTries - 1)
      BY <3>1 DEF Notices
    <3>3. r.ref.tries + 1 < MaxTries =>
            [r.ref EXCEPT !.tries = @ + 1] \in Notices
      BY <1>3, <3>1 DEF Notices
    <3> QED BY <2>4, <3>2, <3>3, <1>1, RetriedTyped DEF SendFails
  <2> QED BY <2>1, <2>2, <2>3, <2>4 DEF Writers
<1>6. refreshes' \subseteq Refreshes /\ IsFiniteSet(refreshes')
  <2>1. CASE refreshes' = refreshes BY <2>1, <1>1
  <2>2. CASE NotifyUpsert(j)
    <3>. DEFINE m == [id |-> FreshId(refreshes), tries |-> 0]
    <3>1. FreshId(refreshes) \in Nat
      BY <1>1, FreshTyped
    <3>2. m \in Refreshes
      BY <1>3, <3>1 DEF Refreshes
    <3>3. refreshes' = refreshes \cup {m}
      BY <2>2 DEF NotifyUpsert
    <3>. HIDE DEF m
    <3> QED BY <3>2, <3>3, <1>1, FS_AddElement
  <2>3. CASE SettlePolicy(j)
    <3>1. r.ref \in Refreshes
      BY <1>2, <2>3 DEF SettlePolicy, Shape, PolicyPcs
    <3>2. r.ref.tries \in 0..(MaxTries - 1)
      BY <3>1 DEF Refreshes
    <3>3. r.ref.tries + 1 < MaxTries =>
            [r.ref EXCEPT !.tries = @ + 1] \in Refreshes
      BY <1>3, <3>1 DEF Refreshes
    <3>4. CASE r.failed
      BY <2>3, <3>2, <3>3, <3>4, <1>1, RetriedTyped DEF SettlePolicy
    <3>5. CASE ~r.failed
      BY <2>3, <3>5, <1>1, FS_RemoveElement DEF SettlePolicy
    <3> QED BY <3>4, <3>5
  <2> QED BY <2>1, <2>2, <2>3 DEF Writers
<1>7. letters' \subseteq Vaults
  <2>1. ASSUME At(j, "send") PROVE r.vault \in Vaults
    BY <1>2, <2>1 DEF Shape, VaultPcs
  <2> QED BY <2>1, <1>1 DEF Writers, SendNotice, SendFails
<1> QED BY <1>1, <1>4, <1>5, <1>6, <1>7 DEF Writers

LEMMA BillingRows ==
  ASSUME TypeInv, NEW j \in Jobs, Writers(j)
  PROVE  /\ BillingTypes' /\ bound' \in Customers \cup {None}
         /\ customers' \subseteq Customers
         /\ opened' \subseteq [kind : {"checkout", "portal"},
                               customer : Customers]
<1>. DEFINE r == job[j]
<1>1. /\ BillingTypes /\ bound \in Customers \cup {None}
      /\ customers \subseteq Customers /\ now \in Nat
      /\ opened \subseteq [kind : {"checkout", "portal"},
                           customer : Customers]
  BY DEF TypeInv, TypeOK
<1>2. r \in JobRecords /\ Shape(r)
  BY DEF TypeInv, JobTypes
<1>. USE DEF At
<1>3. provider' \in Snapshots /\ webhooks' \subseteq Snapshots
  <2>1. CASE UNCHANGED <<provider, webhooks>>
    BY <2>1, <1>1 DEF BillingTypes
  <2>2. CASE UpdateProduct(j)
    <3>1. r.plan \in Plans
      BY <1>2 DEF JobRecords
    <3>2. provider.customer \in Customers \cup {None}
      BY <1>1 DEF BillingTypes, Snapshots
    <3> QED BY <2>1, <2>2, <3>1, <3>2, <1>1, BecomesTyped DEF UpdateProduct
  <2>3. CASE NotifyUpsert(j)
    BY <2>3, <1>1 DEF NotifyUpsert, BillingTypes
  <2> QED BY <2>1, <2>2, <2>3 DEF Writers
<1>4. ASSUME UpsertSubscription(j)
      PROVE  r.ref \in Snapshots /\ r.ref.customer \in Customers \cup {None}
  BY <1>2, <1>4 DEF UpsertSubscription, Shape, Snapshots
<1>5. subscription' \in Snapshots /\ bound' \in Customers \cup {None}
  BY <1>1, <1>4 DEF Writers, UpsertSubscription, BillingTypes
<1>6. customers' \subseteq Customers
  BY <1>1 DEF Writers, CreateCustomer, Customers
<1>7. opened' \subseteq [kind : {"checkout", "portal"}, customer : Customers]
  <2>1. ASSUME OpenCheckout(j) \/ OpenPortal(j)
        PROVE  r.ref \in Customers
    BY <1>2, <2>1 DEF OpenCheckout, OpenPortal, Shape, CustomerPcs
  <2> QED BY <2>1, <1>1 DEF Writers, OpenCheckout, OpenPortal
<1> QED BY <1>3, <1>5, <1>6, <1>7 DEF BillingTypes

LEMMA TypeStep ==
  ASSUME TypeInv, NEW j \in Jobs, StartRequest(j) \/ Step(j) \/ FaultOf(j)
  PROVE  TypeInv'
<1>1. Writers(j) /\ JobTypes' /\ Arrivals(j)
  BY JobWrites, JobsTyped, JobMoves DEF TypeInv
<1>2. now' = now /\ now \in Nat
  BY <1>1 DEF Writers, TypeInv, TypeOK
<1>3. ConnectRefs'
  <2>1. tokens \subseteq tokens'
    BY <1>1 DEF Writers, MintToken
  <2>2. ASSUME NEW k \in Jobs, At(k, "accept socket")'
        PROVE  job'[k].ref \in tokens'
    <3>1. CASE k # j
      BY <1>1, <2>1, <2>2, <3>1 DEF Arrivals, At, TypeInv, ConnectRefs
    <3>2. CASE k = j
      <4>1. PICK t \in tokens : StartConnect(j, t)
        BY <1>1, <2>2, <3>2 DEF Arrivals, At
      <4>2. job'[j] = [Idle EXCEPT !.op = "connect", !.pc = "accept socket",
                                   !.vault = t.vault, !.ref = t]
        BY <4>1 DEF StartConnect, Start, TypeInv, JobTypes
      <4>3. job'[j].ref = t
        BY <4>2 DEF Idle
      <4> QED BY <2>1, <3>2, <4>3
    <3> QED BY <3>1, <3>2
  <2> QED BY <2>2 DEF ConnectRefs
<1>4. lost' \in BOOLEAN
  <2>1. lost \in BOOLEAN
    BY DEF TypeInv, TypeOK
  <2>2. \/ lost' = lost
        \/ \E x \in BOOLEAN : lost' = x
    BY <1>1 DEF Writers, PurgeFails, ConsumerFails, RedeliverPurge, SendFails,
       NotifyFails, SettlePolicy, Abandon
  <2> QED BY <2>1, <2>2
<1>5. /\ TypeOK' /\ FiniteRows' /\ UsedRows' /\ BillingTypes'
      /\ CoordinatorTypes'
  <2>1. /\ TypeOK' /\ FiniteRows'
    BY <1>1, <1>2, <1>4, MemberRows, ClaimRows, KeyRows, RequestRows,
       VaultRows, AccessRows, QueueRows, BillingRows
       DEF TypeOK, FiniteRows, Tokens, Notices, Refreshes
  <2>2. UsedRows'
    BY <1>1, MemberRows, RequestRows DEF UsedRows, NoRequest
  <2> QED BY <1>1, <2>1, <2>2, AccessRows, BillingRows
<1> QED BY <1>1, <1>3, <1>5 DEF TypeInv

\* The steps nobody of the organization takes: a client closes its socket or
\* commits, the provider changes the subscription, time passes.
LEMMA OutsideStep ==
  ASSUME TypeInv, ClientStep \/ ProviderStep \/ Tick
  PROVE  /\ UNCHANGED <<memberVars, keyVars, vault, outboxVars, tokens,
                        revocation, refreshTail, coordinator, purges,
                        noticeVars, subscription, refreshes, limits,
                        checkoutVars, lost, job>>
         /\ sessions' \subseteq sessions /\ idle' \subseteq idle
         /\ UNCHANGED <<provider, webhooks>> \/ ProviderStep
         /\ now' = now \/ Tick
<1>. USE DEF memberVars, inviteVars, keyVars, outboxVars, accessVars,
     noticeVars, purgeVars, checkoutVars, billingVars, rows, otherVars
<1>1. CASE ClientStep
  BY <1>1 DEF ClientStep, Disconnect, ClientCommit
<1>2. CASE ProviderStep
  BY <1>2 DEF ProviderStep, ProviderChange, Pay
<1>3. CASE Tick
  BY <1>3 DEF Tick
<1> QED BY <1>1, <1>2, <1>3

LEMMA TypeOutside ==
  ASSUME TypeInv, ClientStep \/ ProviderStep \/ Tick
  PROVE  TypeInv'
<1>1. BillingTypes'
  <2>1. ASSUME NEW plan \in Plans, NEW customer \in Customers \cup {None},
               ProviderBecomes(plan, customer)
        PROVE  provider' \in Snapshots /\ webhooks' \subseteq Snapshots
    BY <2>1, BecomesTyped DEF TypeInv, TypeOK
  <2>2. provider.customer \in Customers \cup {None} /\ "plus" \in Plans
    BY DEF TypeInv, BillingTypes, Snapshots, Plans
  <2>3. ASSUME ProviderChange
        PROVE  provider' \in Snapshots /\ webhooks' \subseteq Snapshots
    BY <2>1, <2>2, <2>3 DEF ProviderChange
  <2>4. ASSUME NEW c \in opened, Pay(c)
        PROVE  provider' \in Snapshots /\ webhooks' \subseteq Snapshots
    <3>1. c.customer \in Customers
      BY DEF TypeInv, TypeOK
    <3> QED BY <2>1, <2>2, <2>4, <3>1 DEF Pay
  <2>5. provider' \in Snapshots /\ webhooks' \subseteq Snapshots
    <3>1. CASE ProviderStep
      BY <2>3, <2>4, <3>1 DEF ProviderStep
    <3>2. CASE UNCHANGED <<provider, webhooks>>
      BY <3>2 DEF TypeInv, BillingTypes
    <3> QED BY <3>1, <3>2, OutsideStep
  <2> QED BY <2>5, OutsideStep DEF TypeInv, BillingTypes
<1>2. now' \in Nat
  <2>1. now \in Nat
    BY DEF TypeInv, TypeOK
  <2>2. now' = now \/ Tick
    BY OutsideStep
  <2> QED BY <2>1, <2>2 DEF Tick
<1>3. TypeOK'
  BY ZenonT(90), <1>2, OutsideStep
     DEF TypeInv, TypeOK, memberVars, inviteVars, keyVars, outboxVars,
         noticeVars, checkoutVars
<1>4. FiniteRows' /\ UsedRows' /\ ConnectRefs' /\ JobTypes' /\ CoordinatorTypes'
  BY OutsideStep
     DEF TypeInv, FiniteRows, UsedRows, ConnectRefs, JobTypes,
         CoordinatorTypes, At, memberVars, inviteVars, keyVars, noticeVars
<1> QED BY <1>1, <1>3, <1>4 DEF TypeInv

LEMMA TypeInit ==
  ASSUME Init
  PROVE  TypeInv
<1>1. PICK s \in Scenarios : Begin(s)
  BY DEF Init
<1>. USE <1>1, StoreAssumptions DEF Begin
<1>2. BillingTypes
  BY DEF BillingTypes, Snapshots
<1>3. CoordinatorTypes
  BY DEF CoordinatorTypes
<1>4. FiniteRows /\ UsedRows /\ ConnectRefs /\ JobTypes
  <2>1. FiniteRows
    BY FS_EmptySet DEF FiniteRows
  <2>2. UsedRows
    BY DEF UsedRows, NoInvite
  <2>3. \A k \in Jobs : job[k] = Idle
    OBVIOUS
  <2>4. Shape(Idle)
    BY DEF Idle, Shape, FlushPcs, PolicyPcs, CallPcs, PurgePcs, UserPcs,
       VaultPcs, CustomerPcs
  <2>5. ConnectRefs
    BY <2>3 DEF ConnectRefs, At, Idle
  <2> QED BY <2>1, <2>2, <2>3, <2>4, <2>5, IdleTyped DEF JobTypes
<1>5. TypeOK
  <2>1. /\ grant \in [Vaults -> [Users ->
             [status : {"none", "pending_key", "active", "revoked"},
              version : Nat]]]
        /\ wrapper \in [Vaults -> SUBSET Users]
    BY DEF Members
  <2>2. /\ role \in [Users -> {"none", "member", "admin", "owner"}]
        /\ invite \in [Invites ->
             [status : {"unused", "pending", "accepted", "rejected",
                        "canceled"},
              to : Users \cup {None}, role : {"none", "member", "admin"},
              by : Users \cup {None}, expires : Nat]]
        /\ keyRequest \in [Requests ->
             [status : {"unused", "pending", "approved", "completed",
                        "canceled"},
              user : Users \cup {None}, vault : Vaults \cup {None},
              version : Nat, by : Users \cup {None}, expires : Nat]]
    BY DEF NoInvite, NoRequest
  <2>3. vault \in [Vaults ->
          [state : {"unused", "live", "deleted", "gone"},
           purge : {"none", "queued", "running", "failed"},
           shared : BOOLEAN]]
    OBVIOUS
  <2>4. /\ revocation \in [Vaults -> [Keys -> [min : Nat, expires : Nat]]]
        /\ refreshTail \in [Vaults -> Seq(Jobs)]
        /\ outbox \in [Vaults -> Nat] /\ revision \in Nat
    BY DEF NoRevocation
  <2>5. /\ tokens = {} /\ sessions = {} /\ purges = {} /\ refreshes = {}
        /\ notices = {} /\ claims = {} /\ opened = {} /\ letters = {}
        /\ idle \subseteq Vaults /\ lost \in BOOLEAN /\ now \in Nat
        /\ bound \in Customers \cup {None} /\ customers \subseteq Customers
    OBVIOUS
  <2> QED BY <2>1, <2>2, <2>3, <2>4, <2>5 DEF TypeOK
<1> QED BY <1>2, <1>3, <1>4, <1>5 DEF TypeInv

\* The rows, the coordinators' access state, the queues and the jobs keep the
\* types the code gives them, through every interleaving and failure.
THEOREM RowsWellTyped == Spec => []TypeOK /\ []TypeInv
<1>1. TypeInv /\ [Next]_vars => TypeInv'
  <2>. SUFFICES ASSUME TypeInv, [Next]_vars PROVE TypeInv'
    OBVIOUS
  <2>1. CASE UNCHANGED vars
    BY <2>1
       DEF TypeInv, TypeOK, BillingTypes, CoordinatorTypes, FiniteRows,
           UsedRows, ConnectRefs, JobTypes, At, vars, memberVars, inviteVars,
           keyVars, outboxVars, accessVars, noticeVars, purgeVars,
           checkoutVars, billingVars
  <2>2. CASE Next
    BY <2>2, TypeStep, TypeOutside DEF Next
  <2> QED BY <2>1, <2>2
<1>2. TypeInv => TypeOK
  BY DEF TypeInv
<1> QED BY <1>1, <1>2, TypeInit, PTL DEF Spec

-----------------------------------------------------------------------------
(* 3. Seats.                                                               *)

MemberSet == {u \in Users : IsMember(u)}
LiveSet == {i \in Invites : LiveInvite(i)}

LEMMA SeatsFinite ==
  /\ IsFiniteSet(MemberSet) /\ Cardinality(MemberSet) \in Nat
  /\ IsFiniteSet(LiveSet) /\ Cardinality(LiveSet) \in Nat
  /\ Seats = Cardinality(MemberSet) + Cardinality(LiveSet)
<1>1. IsFiniteSet(MemberSet) /\ IsFiniteSet(LiveSet)
  BY StoreAssumptions, FS_Subset DEF MemberSet, LiveSet
<1> QED BY <1>1, FS_CardinalityType DEF Seats, MemberSet, LiveSet

\* Nobody new is a member and no invitation opens.
LEMMA SeatsFall ==
  ASSUME SeatsBounded, MemberSet' \subseteq MemberSet, LiveSet' \subseteq LiveSet
  PROVE  SeatsBounded'
<1>1. /\ Cardinality(MemberSet') <= Cardinality(MemberSet)
      /\ Cardinality(LiveSet') <= Cardinality(LiveSet)
  BY SeatsFinite, FS_Subset
<1>2. /\ Seats' = Cardinality(MemberSet') + Cardinality(LiveSet')
      /\ Cardinality(MemberSet') \in Nat /\ Cardinality(LiveSet') \in Nat
  <2>1. IsFiniteSet(MemberSet') /\ IsFiniteSet(LiveSet')
    BY SeatsFinite, FS_Subset
  <2> QED BY <2>1, FS_CardinalityType DEF Seats, MemberSet, LiveSet
<1> QED BY <1>1, <1>2, SeatsFinite, StoreAssumptions DEF SeatsBounded

LEMMA SeatsStep ==
  ASSUME TypeInv, SeatsBounded, NEW j \in Jobs, Writers(j)
  PROVE  SeatsBounded'
<1>. DEFINE r == job[j]
<1>1. /\ role \in [Users -> {"none", "member", "admin", "owner"}]
      /\ now' = now /\ now \in Nat
      /\ DOMAIN invite = Invites
      /\ \A i \in Invites : invite[i].expires \in Nat
  BY DEF TypeInv, TypeOK, Writers
<1>2. r \in JobRecords /\ Shape(r)
  BY DEF TypeInv, JobTypes
<1>. USE DEF At
<1>3. ASSUME role' = role PROVE MemberSet' = MemberSet
  BY <1>3 DEF MemberSet, IsMember
<1>4. ASSUME invite' = invite PROVE LiveSet' = LiveSet
  BY <1>4, <1>1 DEF LiveSet, LiveInvite
<1>5. CASE UNCHANGED <<role, invite>>
  BY <1>3, <1>4, <1>5, SeatsFall
<1>6. CASE CreateInvitation(j) /\ invite' # invite
  <2>1. MayInvite(r.ref) /\ role' = role
    BY <1>6 DEF CreateInvitation
  <2>2. PICK i \in Unused : \E x : invite' = [invite EXCEPT ![i] = x]
    BY <1>6 DEF CreateInvitation
  <2>3. i \in Invites /\ i \notin LiveSet
    BY DEF Unused, LiveSet, LiveInvite
  <2>4. LiveSet' \subseteq LiveSet \cup {i}
    BY <1>1, <2>2 DEF LiveSet, LiveInvite
  <2>5. IsFiniteSet(LiveSet \cup {i})
          /\ Cardinality(LiveSet \cup {i}) = Cardinality(LiveSet) + 1
    BY <2>3, SeatsFinite, FS_AddElement
  <2>6. IsFiniteSet(LiveSet') /\ Cardinality(LiveSet') <= Cardinality(LiveSet) + 1
    BY <2>4, <2>5, FS_Subset
  <2>7. Cardinality(LiveSet') \in Nat
    BY <2>6, FS_CardinalityType
  <2>8. Seats' = Cardinality(MemberSet) + Cardinality(LiveSet')
    BY <1>3, <2>1 DEF Seats, MemberSet, LiveSet
  <2>9. MemberLimit # 0 => Seats < MemberLimit
    BY <2>1 DEF MayInvite
  <2> QED BY <2>6, <2>7, <2>8, <2>9, SeatsFinite, StoreAssumptions
          DEF SeatsBounded
<1>7. CASE AcceptInvitation(j) /\ ~UNCHANGED <<role, invite>>
  <2>. DEFINE i == r.ref
              u == invite[i].to
  <2>1. i \in Invites /\ LiveInvite(i)
    BY <1>2, <1>7 DEF AcceptInvitation, Shape
  <2>2. invite' = [invite EXCEPT ![i].status = "accepted"]
    BY <1>7 DEF AcceptInvitation
  <2>3. MemberSet' \subseteq MemberSet \cup {u}
    <3>1. role' = role \/ role' = [role EXCEPT ![u] = invite[i].role]
      BY <1>7 DEF AcceptInvitation
    <3> QED BY <3>1, <1>1 DEF MemberSet, IsMember
  <2>4. LiveSet' \subseteq LiveSet \ {i}
    <3>1. invite'[i].status = "accepted"
      BY <2>1, <2>2, <1>1 DEF TypeInv, TypeOK
    <3>2. \A k \in Invites \ {i} : invite'[k] = invite[k]
      BY <2>1, <2>2, <1>1
    <3> QED BY <3>1, <3>2, <1>1 DEF LiveSet, LiveInvite
  <2>5. IsFiniteSet(LiveSet \ {i})
          /\ Cardinality(LiveSet \ {i}) = Cardinality(LiveSet) - 1
    BY <2>1, SeatsFinite, FS_RemoveElement DEF LiveSet
  <2>6. IsFiniteSet(LiveSet') /\ Cardinality(LiveSet') <= Cardinality(LiveSet) - 1
    BY <2>4, <2>5, FS_Subset
  <2>7. IsFiniteSet(MemberSet \cup {u})
          /\ Cardinality(MemberSet \cup {u}) <= Cardinality(MemberSet) + 1
    <3>. HIDE DEF u
    <3>1. /\ IsFiniteSet(MemberSet \cup {u})
          /\ Cardinality(MemberSet \cup {u}) =
               IF u \in MemberSet THEN Cardinality(MemberSet)
               ELSE Cardinality(MemberSet) + 1
      BY SeatsFinite, FS_AddElement
    <3> QED BY <3>1, SeatsFinite
  <2>8. IsFiniteSet(MemberSet')
          /\ Cardinality(MemberSet') <= Cardinality(MemberSet \cup {u})
    BY <2>3, <2>7, FS_Subset
  <2>9. /\ Cardinality(MemberSet') \in Nat /\ Cardinality(LiveSet') \in Nat
        /\ Cardinality(MemberSet \cup {u}) \in Nat
    BY <2>6, <2>7, <2>8, FS_CardinalityType
  <2>10. Seats' = Cardinality(MemberSet') + Cardinality(LiveSet')
    BY DEF Seats, MemberSet, LiveSet
  <2> QED BY <2>6, <2>7, <2>8, <2>9, <2>10, SeatsFinite, StoreAssumptions
          DEF SeatsBounded
<1>8. CASE SetInvitationStatus(j)
  <2>1. role' = role /\ (invite' = invite \/
          /\ r.op \in {"canceled", "rejected"}
          /\ invite' = [invite EXCEPT ![r.ref].status = r.op])
    BY <1>2, <1>8 DEF SetInvitationStatus, Shape
  <2>2. ASSUME NEW k \in Invites, LiveInvite(k)' PROVE LiveInvite(k)
    <3>1. CASE invite'[k] = invite[k]
      BY <1>1, <2>2, <3>1 DEF LiveInvite
    <3>2. CASE invite'[k] # invite[k]
      <4>1. invite'[k].status \in {"canceled", "rejected"}
        BY <1>1, <2>1, <3>2 DEF TypeInv, TypeOK
      <4> QED BY <2>2, <4>1 DEF LiveInvite
    <3> QED BY <3>1, <3>2
  <2>3. LiveSet' \subseteq LiveSet
    BY <2>2 DEF LiveSet
  <2> QED BY <1>3, <2>1, <2>3, SeatsFall
<1>9. CASE ChangeOrganizationRole(j)
  <2>1. invite' = invite /\ MemberSet' \subseteq MemberSet
    BY <1>9, <1>1 DEF ChangeOrganizationRole, MemberSet, IsMember, inviteVars
  <2> QED BY <1>4, <2>1, SeatsFall
<1>10. CASE RemoveOrganizationMember(j)
  <2>1. invite' = invite /\ MemberSet' \subseteq MemberSet
    BY <1>10, <1>1 DEF RemoveOrganizationMember, MemberSet, IsMember, inviteVars
  <2> QED BY <1>4, <2>1, SeatsFall
<1>11. CreateInvitation(j) => role' = role
  BY DEF CreateInvitation
<1> QED BY <1>5, <1>6, <1>7, <1>8, <1>9, <1>10, <1>11 DEF Writers

\* Members and open invitations never exceed the plan's seats: a seat is taken
\* where it is counted, an acceptance gives its invitation's seat to at most
\* one member, and everything else, the clock included, only frees seats.
THEOREM SeatsKept == Spec => []SeatsBounded
<1>1. Init => SeatsBounded
  <2>. SUFFICES ASSUME Init PROVE SeatsBounded
    OBVIOUS
  <2>1. PICK s \in Scenarios : Begin(s)
    BY DEF Init
  <2>2. MemberSet = Members(s.role)
    BY <2>1 DEF Begin, MemberSet, Members, IsMember
  <2>3. LiveSet = {}
    BY <2>1 DEF Begin, LiveSet, LiveInvite, NoInvite
  <2>4. Cardinality(LiveSet) = 0
    BY <2>3, FS_EmptySet
  <2> QED BY <2>2, <2>4, SeatsFinite, StoreAssumptions DEF SeatsBounded
<1>2. TypeInv /\ SeatsBounded /\ [Next]_vars => SeatsBounded'
  <2>. SUFFICES ASSUME TypeInv, SeatsBounded, [Next]_vars
                PROVE  SeatsBounded'
    OBVIOUS
  <2>1. CASE UNCHANGED vars
    BY <2>1 DEF SeatsBounded, Seats, IsMember, LiveInvite, vars, memberVars,
       inviteVars
  <2>2. CASE ClientStep \/ ProviderStep \/ Tick
    <3>1. UNCHANGED <<role, invite>> /\ (now' = now \/ now' = now + 1)
      BY <2>2, OutsideStep DEF Tick, memberVars, inviteVars
    <3>2. MemberSet' \subseteq MemberSet
      BY <3>1 DEF MemberSet, IsMember
    <3>3. LiveSet' \subseteq LiveSet
      BY <3>1 DEF LiveSet, LiveInvite, TypeInv, TypeOK
    <3> QED BY <3>2, <3>3, SeatsFall
  <2>3. ASSUME NEW j \in Jobs, StartRequest(j) \/ Step(j) \/ FaultOf(j)
        PROVE  SeatsBounded'
    BY <2>3, JobWrites, SeatsStep
  <2> QED BY <2>1, <2>2, <2>3 DEF Next
<1> QED BY <1>1, <1>2, RowsWellTyped, PTL DEF Spec

-----------------------------------------------------------------------------
(* 4. Keys.                                                                *)

\* What a step may do to the row of a vault: a row that is gone stays gone.
LEMMA VaultStates ==
  ASSUME TypeInv, NEW j \in Jobs, Writers(j), NEW v \in Vaults
  PROVE  \/ vault'[v].state = vault[v].state
         \/ Exists(v) /\ Exists(v)'
         \/ /\ vault[v].state = "unused" /\ vault'[v].state = "live"
            /\ CreateVaultForUser(j)
         \/ /\ Exists(v)' = FALSE /\ vault'[v].state = "gone"
            /\ HardDeleteVault(j) /\ v = job[j].vault
<1>. DEFINE r == job[j]
<1>1. vault \in [Vaults ->
         [state : {"unused", "live", "deleted", "gone"},
          purge : {"none", "queued", "running", "failed"},
          shared : BOOLEAN]]
  BY DEF TypeInv, TypeOK
<1>2. r \in JobRecords /\ Shape(r)
  BY DEF TypeInv, JobTypes
<1>. USE <1>1 DEF Exists, Live, At
<1>3. ASSUME NEW w, NEW p, vault' = [vault EXCEPT ![w].purge = p]
      PROVE  vault'[v].state = vault[v].state
  BY <1>3
<1>4. ASSUME NEW w, NEW s \in {"live", "deleted"}, NEW p, Exists(w),
             vault' = [vault EXCEPT ![w].state = s, ![w].purge = p]
      PROVE  vault'[v].state = vault[v].state \/ (Exists(v) /\ Exists(v)')
  <2>1. CASE v = w
    <3>1. vault'[v].state = s
      BY <1>4, <2>1
    <3> QED BY <1>4, <2>1, <3>1
  <2>2. CASE v # w
    BY <1>4, <2>2
  <2> QED BY <2>1, <2>2
<1>5. CASE vault' = vault BY <1>5
<1>6. CASE AcceptInvitation(j) /\ vault' # vault
  <2>1. vault' = [w \in Vaults |-> IF w \in {x \in Vaults : Live(x)}
                    THEN [vault[w] EXCEPT !.shared = TRUE] ELSE vault[w]]
    BY <1>6 DEF AcceptInvitation
  <2> QED BY <2>1
<1>7. CASE CreateVaultForUser(j) /\ vault' # vault
  <2>1. PICK w \in Vaults : \E b :
          /\ vault[w].state = "unused"
          /\ vault' = [vault EXCEPT ![w] =
               [state |-> "live", purge |-> "none", shared |-> b]]
    BY <1>7 DEF CreateVaultForUser
  <2> QED BY <1>7, <2>1
<1>8. ASSUME NEW w, Claim(w)
      PROVE  vault'[v].state = vault[v].state \/ (Exists(v) /\ Exists(v)')
  BY <1>4, <1>8 DEF Claim
<1>9. CASE ClaimForDelete(j) \/ ClaimCandidate(j)
  BY ZenonT(90), <1>5, <1>8, <1>9 DEF ClaimForDelete, ClaimCandidate
<1>10. CASE RestoreVault(j)
  BY <1>4, <1>5, <1>10 DEF RestoreVault
<1>11. CASE MarkVaultPurgeRunning(j) \/ PurgeFails(j)
  BY <1>3, <1>5, <1>11 DEF MarkVaultPurgeRunning, PurgeFails, MarkPurge
<1>12. CASE HardDeleteVault(j)
  <2>1. vault' = [vault EXCEPT ![r.vault] =
                    [state |-> "gone", purge |-> "none", shared |-> FALSE]]
    BY <1>12 DEF HardDeleteVault
  <2> QED BY <1>12, <2>1
<1> QED
  BY <1>5, <1>6, <1>7, <1>9, <1>10, <1>11, <1>12 DEF Writers

\* A key request that was made keeps whom and what it is about.
LEMMA RequestStable ==
  ASSUME TypeInv, NEW j \in Jobs, Writers(j), NEW q \in Requests,
         keyRequest[q].status # "unused"
  PROVE  /\ keyRequest'[q].status # "unused"
         /\ keyRequest'[q].user = keyRequest[q].user
         /\ keyRequest'[q].vault = keyRequest[q].vault
         /\ keyRequest'[q].version = keyRequest[q].version
<1>1. keyRequest \in [Requests ->
         [status : {"unused", "pending", "approved", "completed",
                    "canceled"},
          user : Users \cup {None}, vault : Vaults \cup {None},
          version : Nat, by : Users \cup {None}, expires : Nat]]
  BY DEF TypeInv, TypeOK
<1>. USE <1>1 DEF At
<1>2. CASE keyRequest' = keyRequest BY <1>2
<1>3. ASSUME \/ keyRequest'[q] = keyRequest[q]
             \/ keyRequest'[q] = [keyRequest[q] EXCEPT !.status = "canceled"]
      PROVE  /\ keyRequest'[q].status # "unused"
             /\ keyRequest'[q].user = keyRequest[q].user
             /\ keyRequest'[q].vault = keyRequest[q].vault
             /\ keyRequest'[q].version = keyRequest[q].version
  BY <1>3
<1>4. CASE RemoveOrganizationMember(j)
  BY <1>3, <1>4 DEF RemoveOrganizationMember
<1>5. CASE CreateKeyRequest(j)
  BY <1>2, <1>3, <1>5 DEF CreateKeyRequest
<1>6. CASE ApproveKeyRequest(j)
  BY ZenonT(90), <1>6 DEF ApproveKeyRequest
<1>7. CASE CompleteKeyRequest(j)
  <2>1. CASE keyRequest' =
               [keyRequest EXCEPT ![job[j].ref].status = "completed"]
    <3>1. CASE q = job[j].ref
      BY <2>1, <3>1
    <3>2. CASE q # job[j].ref
      BY <2>1, <3>2
    <3> QED BY <3>1, <3>2
  <2> QED BY ZenonT(90), <1>2, <1>7, <2>1 DEF CompleteKeyRequest, keyVars
<1>8. CASE UpsertPasswordWrapper(j)
  BY <1>3, <1>8 DEF UpsertPasswordWrapper
<1>9. CASE ListRefreshes(j)
  BY <1>3, <1>9 DEF ListRefreshes
<1>10. CASE HardDeleteVault(j)
  BY <1>3, <1>10 DEF HardDeleteVault
<1> QED
  BY <1>2, <1>4, <1>5, <1>6, <1>7, <1>8, <1>9, <1>10 DEF Writers

\* Nobody holds anything of a vault that is not there; what is completed is
\* a request for the vault the batch names.
NoStrayGrants == \A v \in Vaults : ~Exists(v) =>
  \A u \in Users : grant[v][u] = [status |-> "none", version |-> 0]

CompletesOwn == \A k \in Jobs : At(k, "complete") =>
  /\ keyRequest[job[k].ref].status # "unused"
  /\ keyRequest[job[k].ref].vault = job[k].vault

KeyInv == KeysMatchGrants /\ NoStrayGrants /\ CompletesOwn

LEMMA CompletesOwnStep ==
  ASSUME TypeInv, CompletesOwn, NEW j \in Jobs, Writers(j), Arrivals(j)
  PROVE  CompletesOwn'
<1>. SUFFICES ASSUME NEW k \in Jobs, At(k, "complete")'
              PROVE  /\ keyRequest'[job'[k].ref].status # "unused"
                     /\ keyRequest'[job'[k].ref].vault = job'[k].vault
  BY DEF CompletesOwn
<1>1. CASE k # j
  <2>1. job'[k] = job[k] /\ At(k, "complete")
    BY <1>1 DEF Arrivals, At
  <2>2. job[k].ref \in Requests
    BY <2>1 DEF TypeInv, JobTypes, Shape, At
  <2> QED BY <2>1, <2>2, RequestStable DEF CompletesOwn
<1>2. CASE k = j
  <2>1. PICK q \in Requests : StartComplete(j, q)
    BY <1>2 DEF Arrivals, At
  <2>2. job'[j] = [Idle EXCEPT !.op = "complete", !.pc = "complete",
                               !.vault = keyRequest[q].vault, !.ref = q]
    BY <2>1 DEF StartComplete, Start, TypeInv, JobTypes
  <2>3. job'[j].ref = q /\ job'[j].vault = keyRequest[q].vault
    BY <2>2 DEF Idle
  <2>4. keyRequest[q].status # "unused"
    BY <2>1 DEF StartComplete
  <2> QED BY <1>2, <2>3, <2>4, RequestStable
<1> QED BY <1>1, <1>2

LEMMA KeyStep ==
  ASSUME TypeInv, KeyInv, NEW j \in Jobs, Writers(j)
  PROVE  KeysMatchGrants' /\ NoStrayGrants'
<1>. DEFINE r == job[j]
            G == [status : {"none", "pending_key", "active", "revoked"},
                  version : Nat]
            nothing == [status |-> "none", version |-> 0]
<1>1. /\ role \in [Users -> {"none", "member", "admin", "owner"}]
      /\ grant \in [Vaults -> [Users -> G]]
      /\ wrapper \in [Vaults -> SUBSET Users]
  BY DEF TypeInv, TypeOK
<1>2. r \in JobRecords /\ Shape(r)
  BY DEF TypeInv, JobTypes
<1>3. /\ KeysMatchGrants
      /\ \A v \in Vaults : ~Exists(v) =>
           wrapper[v] = {} /\ \A u \in Users : grant[v][u] = nothing
  BY <1>1 DEF KeyInv, KeysMatchGrants, NoStrayGrants
<1>. USE DEF At
\* Frames: the rows of keys, and the rest that the two invariants mention.
<1>4. ASSUME grant' = grant PROVE NoStrayGrants'
  <2>. SUFFICES ASSUME NEW v \in Vaults, ~Exists(v)', NEW u \in Users
                PROVE  grant'[v][u] = nothing
    BY DEF NoStrayGrants
  <2>1. CASE ~Exists(v)
    BY <1>3, <1>4, <2>1
  <2>2. CASE Exists(v)
    <3>1. HardDeleteVault(j) /\ v = r.vault
      BY <2>2, VaultStates DEF Exists
    <3>2. grant'[v][u] = nothing
      BY <3>1, <1>1 DEF HardDeleteVault
    <3> QED BY <3>2
  <2> QED BY <2>1, <2>2
<1>5. ASSUME grant' = grant, wrapper' = wrapper,
             \A u \in Users : IsMember(u) => IsMember(u)'
      PROVE  KeysMatchGrants'
  BY <1>3, <1>5 DEF KeysMatchGrants
<1>6. CASE AcceptInvitation(j) \/ ChangeOrganizationRole(j)
  <2>1. grant' = grant /\ wrapper' = wrapper
    BY <1>6 DEF AcceptInvitation, ChangeOrganizationRole, keyVars
  <2>2. \A u \in Users : IsMember(u) => IsMember(u)'
    <3>1. CASE AcceptInvitation(j)
      BY <3>1, <1>1 DEF AcceptInvitation, IsMember
    <3>2. CASE ChangeOrganizationRole(j)
      <4>1. r.op \in {"admin", "member"}
        BY <1>2, <3>2 DEF ChangeOrganizationRole, Shape
      <4> QED BY <3>2, <4>1, <1>1 DEF ChangeOrganizationRole, IsMember
    <3> QED BY <1>6, <3>1, <3>2
  <2> QED BY <1>4, <1>5, <2>1, <2>2
<1>7. CASE UNCHANGED <<grant, wrapper, role>>
  BY <1>4, <1>5, <1>7 DEF IsMember
<1>8. CASE RemoveOrganizationMember(j)
  <2>. DEFINE x == r.user
              Revoke(g) == IF g.status \in {"none", "revoked"} THEN g
                   ELSE [status |-> "revoked", version |-> g.version + 1]
  <2>1. x \in Users
    BY <1>2, <1>8 DEF RemoveOrganizationMember, Shape, UserPcs
  <2>2. /\ vault' = vault
        /\ role' = [role EXCEPT ![x] = "none"]
        /\ grant' = [v \in Vaults |-> IF v \in {w \in Vaults : Exists(w)}
             THEN [grant[v] EXCEPT ![x] = Revoke(@)] ELSE grant[v]]
        /\ wrapper' = [v \in Vaults |-> IF v \in {w \in Vaults : Exists(w)}
             THEN wrapper[v] \ {x} ELSE wrapper[v]]
    BY <1>8 DEF RemoveOrganizationMember
  <2>3. \A g \in G : Revoke(g).status # "active"
    OBVIOUS
  <2>. HIDE DEF Revoke, x
  <2>4. ASSUME NEW v \in Vaults, Exists(v), NEW u \in Users
        PROVE  /\ u \in wrapper'[v] <=> u \in wrapper[v] /\ u # x
               /\ u # x => grant'[v][u] = grant[v][u]
               /\ u = x => grant'[v][u].status # "active"
    BY <2>1, <2>2, <2>3, <2>4, <1>1
  <2>5. ASSUME NEW v \in Vaults, ~Exists(v)
        PROVE  wrapper'[v] = {} /\ grant'[v] = grant[v]
    BY <2>2, <2>5, <1>3
  <2>6. \A u \in Users \ {x} : IsMember(u) => IsMember(u)'
    BY <2>2, <1>1 DEF IsMember
  <2>7. KeysMatchGrants'
    <3>. SUFFICES ASSUME NEW v \in Vaults, NEW u \in Users
                  PROVE  /\ u \in wrapper'[v] <=> grant'[v][u].status = "active"
                         /\ u \in wrapper'[v] => IsMember(u)'
      BY DEF KeysMatchGrants
    <3>1. CASE Exists(v)
      BY <2>4, <2>6, <3>1, <1>3 DEF KeysMatchGrants
    <3>2. CASE ~Exists(v)
      BY <2>5, <3>2, <1>3
    <3> QED BY <3>1, <3>2
  <2>8. NoStrayGrants'
    BY <2>2, <2>5, <1>3 DEF NoStrayGrants, Exists
  <2> QED BY <2>7, <2>8
\* One user's grant and wrapper to one vault that exists.
<1>9. ASSUME NEW v \in Vaults, NEW u \in Users, NEW g \in G, NEW W,
             role' = role, W \in SUBSET Users, Exists(v)',
             \A w \in Vaults : w # v /\ ~Exists(w)' => ~Exists(w),
             \/ grant' = grant /\ grant[v][u] = g
             \/ grant' = [grant EXCEPT ![v][u] = g],
             \/ wrapper' = wrapper /\ wrapper[v] = W
             \/ wrapper' = [wrapper EXCEPT ![v] = W],
             \A w \in Users \ {u} : w \in W <=> w \in wrapper[v],
             u \in W <=> g.status = "active",
             u \in W => IsMember(u)
      PROVE  KeysMatchGrants' /\ NoStrayGrants'
  <2>1. /\ grant'[v][u] = g /\ wrapper'[v] = W
        /\ \A w \in Users \ {u} : grant'[v][w] = grant[v][w]
        /\ \A w \in Vaults \ {v} : grant'[w] = grant[w] /\ wrapper'[w] = wrapper[w]
    BY <1>9, <1>1
  <2>2. \A w \in Users : IsMember(w)' = IsMember(w)
    BY <1>9 DEF IsMember
  <2>3. KeysMatchGrants'
    <3>. SUFFICES ASSUME NEW x \in Vaults, NEW w \in Users
                  PROVE  /\ w \in wrapper'[x] <=> grant'[x][w].status = "active"
                         /\ w \in wrapper'[x] => IsMember(w)'
      BY DEF KeysMatchGrants
    <3>1. CASE x # v
      BY <2>1, <2>2, <3>1, <1>3 DEF KeysMatchGrants
    <3>2. CASE x = v /\ w # u
      BY <2>1, <2>2, <3>2, <1>3, <1>9 DEF KeysMatchGrants
    <3>3. CASE x = v /\ w = u
      BY <2>1, <2>2, <3>3, <1>9
    <3> QED BY <3>1, <3>2, <3>3
  <2>4. NoStrayGrants'
    <3>. SUFFICES ASSUME NEW x \in Vaults, ~Exists(x)', NEW w \in Users
                  PROVE  grant'[x][w] = nothing
      BY DEF NoStrayGrants
    <3>1. x # v /\ ~Exists(x)
      BY <1>9
    <3> QED BY <3>1, <2>1, <1>3
  <2> QED BY <2>3, <2>4
<1>10. ASSUME NEW v \in Vaults, NEW u \in Users, grant[v][u].status # "none"
       PROVE  Exists(v)
  BY <1>3, <1>10
<1>11. CASE EnsureVaultEnrollment(j) /\ grant' # grant
  <2>. DEFINE v == r.vault
              u == r.user
              g == [status |-> "pending_key", version |-> grant[v][u].version + 1]
  <2>1. v \in Vaults /\ u \in Users
    BY <1>2, <1>11 DEF EnsureVaultEnrollment, Shape, UserPcs, VaultPcs
  <2>2. /\ Exists(v) /\ grant[v][u].status \in {"none", "revoked"}
        /\ grant' = [grant EXCEPT ![v][u] = g]
        /\ UNCHANGED <<role, wrapper, vault>>
    BY <1>11 DEF EnsureVaultEnrollment, Eligible, Live, Exists, memberVars
  <2>3. g \in G
    BY <2>1, <1>1
  <2>4. g.status # "active" /\ u \notin wrapper[v] /\ wrapper[v] \in SUBSET Users
    BY <2>1, <2>2, <1>1, <1>3 DEF KeysMatchGrants
  <2>5. \A w \in Vaults : Exists(w)' = Exists(w)
    BY <2>2 DEF Exists
  <2>. HIDE DEF v, u, g
  <2> QED BY <2>1, <2>2, <2>3, <2>4, <2>5, <1>9
<1>12. CASE CompleteKeyRequest(j) /\ ~UNCHANGED <<grant, wrapper>>
  <2>. DEFINE v == r.vault
              u == keyRequest[r.ref].user
              g == [grant[v][u] EXCEPT !.status = "active"]
              W == wrapper[v] \cup {u}
  <2>1. /\ v \in Vaults /\ r.ref \in Requests /\ SameGrant(r.ref) /\ IsMember(u)
        /\ keyRequest[r.ref].status = "approved"
        /\ keyRequest[r.ref].vault = v
    BY <1>2, <1>12
       DEF CompleteKeyRequest, keyVars, Shape, VaultPcs, KeyInv, CompletesOwn
  <2>2. u \in Users
    <3>1. UsedRows
      BY DEF TypeInv
    <3> QED BY <2>1, <3>1, RequestUsed
  <2>3. /\ wrapper' = [wrapper EXCEPT ![v] = W]
        /\ grant' = [grant EXCEPT ![v][u].status = "active"]
        /\ UNCHANGED <<role, vault>>
    BY ZenonT(90), <1>12 DEF CompleteKeyRequest, keyVars, memberVars
  <2>4. grant[v][u] \in G /\ grant[v][u].status # "none"
    BY ZenonT(90), <2>1, <2>2, <1>1 DEF SameGrant
  <2>5. g \in G /\ g.status = "active"
    BY <2>4
  <2>6. W \in SUBSET Users
    BY ZenonT(90), <2>1, <2>2, <1>1
  <2>7. Exists(v) /\ \A w \in Vaults : Exists(w)' = Exists(w)
    BY ZenonT(90), <2>1, <2>2, <2>3, <2>4, <1>10 DEF Exists
  <2>8. grant' = [grant EXCEPT ![v][u] = g]
    BY <2>3
  <2>9. (\A w \in Users \ {u} : w \in W <=> w \in wrapper[v]) /\ u \in W
    OBVIOUS
  <2>. HIDE DEF v, u, g, W
  <2> QED BY <2>1, <2>2, <2>3, <2>5, <2>6, <2>7, <2>8, <2>9, <1>9
<1>13. CASE UpsertPasswordWrapper(j) /\ wrapper' # wrapper
  <2>. DEFINE v == r.vault
              u == r.user
              W == wrapper[v] \cup {u}
  <2>1. v \in Vaults /\ u \in Users /\ ActiveMember(u, v)
    BY <1>2, <1>13 DEF UpsertPasswordWrapper, Shape, UserPcs, VaultPcs
  <2>2. /\ wrapper' = [wrapper EXCEPT ![v] = W]
        /\ UNCHANGED <<role, grant, vault>>
    BY <1>13 DEF UpsertPasswordWrapper, memberVars
  <2>3. W \in SUBSET Users /\ grant[v][u] \in G
    BY <2>1, <1>1
  <2>4. /\ grant[v][u].status = "active" /\ IsMember(u)
        /\ Exists(v) /\ \A w \in Vaults : Exists(w)' = Exists(w)
    BY <2>1, <2>2 DEF ActiveMember, Eligible, Exists, Live
  <2>5. (\A w \in Users \ {u} : w \in W <=> w \in wrapper[v]) /\ u \in W
    OBVIOUS
  <2>. HIDE DEF v, u, W
  <2> QED BY <2>1, <2>2, <2>3, <2>4, <2>5, <1>9
<1>14. CASE CreateVaultForUser(j) /\ ~UNCHANGED <<grant, wrapper>>
  <2>. DEFINE u == r.user
              g == [status |-> "active", version |-> 1]
  <2>1. PICK v \in Vaults : \E b :
          /\ vault[v].state = "unused"
          /\ vault' = [vault EXCEPT ![v] =
               [state |-> "live", purge |-> "none", shared |-> b]]
          /\ wrapper' = [wrapper EXCEPT ![v] = {u}]
          /\ grant' = [grant EXCEPT ![v][u] = g]
          /\ IsManager(role[u]) /\ role' = role
    BY <1>14 DEF CreateVaultForUser, memberVars
  <2>2. u \in Users /\ g \in G /\ {u} \in SUBSET Users
    BY <1>2, <1>14 DEF CreateVaultForUser, Shape, UserPcs
  <2>3. IsMember(u)
    BY <2>1 DEF IsManager, IsMember
  <2>4. Exists(v)' /\ wrapper[v] = {}
    <3>1. vault'[v].state = "live"
      BY <2>1 DEF TypeInv, TypeOK
    <3>2. ~Exists(v)
      BY <2>1 DEF Exists
    <3> QED BY <3>1, <3>2, <1>3 DEF Exists
  <2>5. \A w \in Vaults : w # v => Exists(w)' = Exists(w)
    BY <2>1 DEF Exists, TypeInv, TypeOK
  <2>6. g.status = "active"
    OBVIOUS
  <2>. HIDE DEF u, g
  <2> QED BY <2>1, <2>2, <2>3, <2>4, <2>5, <2>6, <1>9
<1>15. CASE HardDeleteVault(j)
  <2>1. /\ grant' = [grant EXCEPT ![r.vault] = [u \in Users |-> nothing]]
        /\ wrapper' = [wrapper EXCEPT ![r.vault] = {}]
        /\ role' = role
    BY <1>15 DEF HardDeleteVault, memberVars
  <2>2. KeysMatchGrants'
    <3>. SUFFICES ASSUME NEW v \in Vaults, NEW u \in Users
                  PROVE  /\ u \in wrapper'[v] <=> grant'[v][u].status = "active"
                         /\ u \in wrapper'[v] => IsMember(u)'
      BY DEF KeysMatchGrants
    <3>1. CASE v = r.vault
      BY <2>1, <3>1, <1>1
    <3>2. CASE v # r.vault
      BY <2>1, <3>2, <1>1, <1>3 DEF KeysMatchGrants, IsMember
    <3> QED BY <3>1, <3>2
  <2>3. NoStrayGrants'
    <3>. SUFFICES ASSUME NEW v \in Vaults, ~Exists(v)', NEW u \in Users
                  PROVE  grant'[v][u] = nothing
      BY DEF NoStrayGrants
    <3>1. CASE v = r.vault
      BY <2>1, <3>1, <1>1
    <3>2. CASE v # r.vault
      <4>1. ~Exists(v)
        BY <3>2, VaultStates DEF Exists
      <4> QED BY <2>1, <3>2, <4>1, <1>1, <1>3
    <3> QED BY <3>1, <3>2
  <2> QED BY <2>2, <2>3
<1>16. /\ EnsureVaultEnrollment(j) => UNCHANGED <<role, wrapper>>
       /\ CompleteKeyRequest(j) => role' = role
       /\ UpsertPasswordWrapper(j) => UNCHANGED <<role, grant>>
       /\ CreateVaultForUser(j) => role' = role
  BY DEF EnsureVaultEnrollment, CompleteKeyRequest, UpsertPasswordWrapper,
     CreateVaultForUser, memberVars
<1> QED
  BY <1>6, <1>7, <1>8, <1>11, <1>12, <1>13, <1>14, <1>15, <1>16 DEF Writers

LEMMA KeyInit ==
  ASSUME Init
  PROVE  KeyInv
<1>1. PICK s \in Scenarios : Begin(s)
  BY DEF Init
<1>. USE <1>1, StoreAssumptions DEF Begin
<1>2. \A v \in Vaults, u \in Users : grant[v][u] =
        IF v \in s.vaults /\ u \in s.keys
        THEN [status |-> "active", version |-> 1]
        ELSE [status |-> "none", version |-> 0]
  OBVIOUS
<1>3. \A v \in Vaults : wrapper[v] = IF v \in s.vaults THEN s.keys ELSE {}
  OBVIOUS
<1>4. \A u \in s.keys : u \in Users /\ IsMember(u)
  BY DEF Members, IsMember
<1>5. KeysMatchGrants
  BY <1>2, <1>3, <1>4 DEF KeysMatchGrants
<1>6. NoStrayGrants
  BY <1>2 DEF NoStrayGrants, Exists
<1>7. CompletesOwn
  BY DEF CompletesOwn, At, Idle
<1> QED BY <1>5, <1>6, <1>7 DEF KeyInv

LEMMA KeyNext ==
  ASSUME TypeInv, KeyInv, [Next]_vars
  PROVE  KeyInv'
<1>1. CASE UNCHANGED vars
  BY <1>1 DEF KeyInv, KeysMatchGrants, NoStrayGrants, CompletesOwn, Exists,
     IsMember, At, vars, memberVars, keyVars
<1>2. CASE ClientStep \/ ProviderStep \/ Tick
  BY <1>2, OutsideStep DEF KeyInv, KeysMatchGrants, NoStrayGrants,
     CompletesOwn, Exists, IsMember, At, memberVars, keyVars
<1>3. ASSUME NEW j \in Jobs, StartRequest(j) \/ Step(j) \/ FaultOf(j)
      PROVE  KeyInv'
  BY <1>3, JobWrites, JobMoves, KeyStep, CompletesOwnStep
     DEF KeyInv, TypeInv
<1> QED BY <1>1, <1>2, <1>3 DEF Next

\* Whoever can open a vault has an active grant to it and is a member, and the
\* other way round: no approval, completion, recovery or enrolment that was
\* under way when a member was removed brings the key back.
THEOREM KeysFollowGrants == Spec => []KeysMatchGrants /\ []KeyInv
<1>1. TypeInv /\ KeyInv /\ [Next]_vars => KeyInv'
  BY KeyNext
<1>2. KeyInv => KeysMatchGrants
  BY DEF KeyInv
<1> QED BY <1>1, <1>2, KeyInit, RowsWellTyped, PTL DEF Spec

-----------------------------------------------------------------------------
(* 5. E-mails of invitations.                                              *)

\* Claims lie in the past.
ClaimsPast == \A c \in claims : c.at <= now

PacedInv == DeliveryPaced /\ ClaimsPast

LEMMA PacedStep ==
  ASSUME TypeInv, PacedInv, NEW j \in Jobs, Writers(j)
  PROVE  PacedInv'
<1>1. /\ claims \subseteq [id : Nat, invite : Invites, at : Nat]
      /\ IsFiniteSet(claims) /\ now \in Nat /\ now' = now
      /\ Minute \in Nat /\ Hour \in Nat /\ DeliveryLimit \in Nat
  BY StoreAssumptions DEF TypeInv, TypeOK, FiniteRows, Writers
<1>2. CASE claims' = claims
  BY <1>1, <1>2 DEF PacedInv, DeliveryPaced, ClaimsPast
<1>3. CASE claims' # claims
  <2>. DEFINE i == job[j].ref
              n == [id |-> Cardinality(claims) + 1, invite |-> i, at |-> now]
              Window(C, t) == {d \in C : d.at \in (t - Hour + 1)..t}
  <2>1. claims' = claims \cup {n} /\ MayDeliver(i)
    BY <1>3 DEF Writers, ClaimInvitationDelivery
  <2>2. n.invite = i /\ n.at = now
    OBVIOUS
  <2>. HIDE DEF n
  <2>3. ClaimsPast'
    BY <2>1, <2>2, <1>1 DEF PacedInv, ClaimsPast
  <2>4. ASSUME NEW c \in claims', NEW d \in claims', c # d,
               c.invite = d.invite
        PROVE  c.at - d.at >= Minute \/ d.at - c.at >= Minute
    <3>1. \A e \in claims : e.invite = i => now - e.at >= Minute
      BY <2>1, <1>1 DEF MayDeliver
    <3> QED BY <2>1, <2>2, <2>4, <3>1 DEF PacedInv, DeliveryPaced
  <2>5. ASSUME NEW c \in claims'
        PROVE  Cardinality(Window(claims', c.at)) <= DeliveryLimit
    <3>1. CASE c.at = now
      <4>. DEFINE W == {d \in claims : d.at > now - Hour}
      <4>1. IsFiniteSet(W) /\ Cardinality(W) < DeliveryLimit
        <5>1. IsFiniteSet(W)
          BY <1>1, FS_Subset
        <5> QED BY <5>1, <2>1 DEF MayDeliver
      <4>2. Window(claims', now) \subseteq W \cup {n}
        BY <2>1, <1>1
      <4>3. /\ IsFiniteSet(W \cup {n})
            /\ Cardinality(W \cup {n}) =
                 IF n \in W THEN Cardinality(W) ELSE Cardinality(W) + 1
        BY <4>1, FS_AddElement
      <4>4. Cardinality(Window(claims', now)) <= Cardinality(W \cup {n})
              /\ IsFiniteSet(Window(claims', now))
        BY <4>2, <4>3, FS_Subset
      <4>5. Cardinality(W) \in Nat /\ Cardinality(Window(claims', now)) \in Nat
        BY <4>1, <4>4, FS_CardinalityType
      <4>. HIDE DEF W, Window
      <4> QED BY <3>1, <4>1, <4>3, <4>4, <4>5, <1>1
    <3>2. CASE c.at # now
      <4>1. c \in claims /\ c.at < now
        BY <2>1, <2>2, <3>2, <1>1 DEF PacedInv, ClaimsPast
      <4>2. Window(claims', c.at) = Window(claims, c.at)
        BY <2>1, <2>2, <4>1, <1>1
      <4>3. Cardinality(Window(claims, c.at)) <= DeliveryLimit
        BY <4>1 DEF PacedInv, DeliveryPaced
      <4> QED BY <4>2, <4>3
    <3> QED BY <3>1, <3>2
  <2> QED BY <2>3, <2>4, <2>5 DEF PacedInv, DeliveryPaced
<1> QED BY <1>2, <1>3

\* However many managers send an invitation again at once, its e-mails are a
\* Minute apart and the organization stays within its limit in every Hour.
THEOREM DeliveriesPaced == Spec => []DeliveryPaced
<1>1. Init => PacedInv
  BY DEF Init, Begin, PacedInv, DeliveryPaced, ClaimsPast
<1>2. TypeInv /\ PacedInv /\ [Next]_vars => PacedInv'
  <2>. SUFFICES ASSUME TypeInv, PacedInv, [Next]_vars
                PROVE  PacedInv'
    OBVIOUS
  <2>1. CASE UNCHANGED vars
    BY <2>1 DEF PacedInv, DeliveryPaced, ClaimsPast, vars, memberVars,
       inviteVars
  <2>2. CASE ClientStep \/ ProviderStep \/ Tick
    <3>1. claims' = claims /\ (now' = now \/ now' = now + 1)
      BY <2>2, OutsideStep DEF Tick, memberVars, inviteVars
    <3>2. now \in Nat /\ \A c \in claims : c.at \in Nat
      BY DEF TypeInv, TypeOK
    <3> QED BY <3>1, <3>2 DEF PacedInv, DeliveryPaced, ClaimsPast
  <2>3. ASSUME NEW j \in Jobs, StartRequest(j) \/ Step(j) \/ FaultOf(j)
        PROVE  PacedInv'
    BY <2>3, JobWrites, PacedStep
  <2> QED BY <2>1, <2>2, <2>3 DEF Next
<1>3. PacedInv => DeliveryPaced
  BY DEF PacedInv
<1> QED BY <1>1, <1>2, <1>3, RowsWellTyped, PTL DEF Spec

-----------------------------------------------------------------------------
(* 6. Deletion notices.                                                    *)

Erased == {v \in Vaults : vault[v].state = "gone" /\ coordinator[v].erased}

\* A purge deletes the row of an erased coordinator; whoever queues or sends a
\* notice does so about a vault that is gone.
PurgeOrder ==
  \A k \in Jobs :
    /\ At(k, "hard delete") => coordinator[job[k].vault].erased
    /\ At(k, "notice") => job[k].vault \in Erased
    /\ At(k, "send") => /\ job[k].vault \in Erased
                        /\ job[k].ref.vault = job[k].vault

NoticeInv == NoticeOnlyAfterErasure /\ PurgeOrder

LEMMA ErasedStays ==
  ASSUME TypeInv, NEW j \in Jobs, Writers(j), NEW v \in Vaults
  PROVE  /\ coordinator[v].erased => coordinator'[v].erased
         /\ v \in Erased => v \in Erased'
<1>1. coordinator \in [Vaults -> [ready : BOOLEAN, erased : BOOLEAN]]
  BY DEF TypeInv, CoordinatorTypes
<1>2. coordinator[v].erased => coordinator'[v].erased
  <2>1. CASE EraseState(j)
    BY <1>1, <2>1 DEF EraseState
  <2>2. ASSUME NEW w, EnsureVaultState(w)
        PROVE  coordinator[v].erased => coordinator'[v].erased
    BY <1>1, <2>2 DEF EnsureVaultState
  <2>3. CASE AcceptSocket(j)
    BY <2>2, <2>3 DEF AcceptSocket
  <2> QED BY <2>1, <2>3 DEF Writers
<1>3. vault[v].state = "gone" => vault'[v].state = "gone"
  BY VaultStates DEF Exists
<1> QED BY <1>2, <1>3 DEF Erased

LEMMA NoticeStep ==
  ASSUME TypeInv, NoticeInv, NEW j \in Jobs, Writers(j), Arrivals(j)
  PROVE  NoticeInv'
<1>. DEFINE r == job[j]
<1>1. r \in JobRecords /\ Shape(r) /\ JobTypes
  BY DEF TypeInv, JobTypes
<1>. USE DEF At
<1>2. ASSUME NEW x, Goto(j, x) PROVE job'[j].vault = r.vault
  BY <1>1, <1>2 DEF Goto, JobTypes, JobRecords
<1>3. PurgeOrder'
  <2>1. ASSUME NEW k \in Jobs, k # j
        PROVE  /\ At(k, "hard delete")' => coordinator'[job'[k].vault].erased
               /\ At(k, "notice")' => job'[k].vault \in Erased'
               /\ At(k, "send")' => /\ job'[k].vault \in Erased'
                                    /\ job'[k].ref.vault = job'[k].vault
    <3>1. job'[k] = job[k]
      BY <2>1 DEF Arrivals
    <3>2. job[k].pc \in {"hard delete", "notice", "send"} =>
            job[k].vault \in Vaults
      BY DEF TypeInv, JobTypes, Shape, VaultPcs, PurgePcs
    <3> QED BY <3>1, <3>2, ErasedStays DEF NoticeInv, PurgeOrder
  <2>2. At(j, "hard delete")' => coordinator'[job'[j].vault].erased
    <3>. SUFFICES ASSUME At(j, "hard delete")'
                  PROVE  coordinator'[job'[j].vault].erased
      OBVIOUS
    <3>1. EraseState(j)
      BY DEF Arrivals
    <3>2. r.vault \in Vaults /\ job'[j].vault = r.vault
      BY <3>1, <1>1, <1>2 DEF EraseState, Shape, VaultPcs, PurgePcs
    <3> QED BY <3>1, <3>2 DEF EraseState, TypeInv, CoordinatorTypes
  <2>3. At(j, "notice")' => job'[j].vault \in Erased'
    <3>. SUFFICES ASSUME At(j, "notice")'
                  PROVE  job'[j].vault \in Erased'
      OBVIOUS
    <3>1. HardDeleteVault(j)
      BY DEF Arrivals
    <3>2. r.vault \in Vaults /\ coordinator[r.vault].erased
      BY <3>1, <1>1
         DEF HardDeleteVault, Shape, VaultPcs, PurgePcs, NoticeInv, PurgeOrder
    <3>3. job'[j].vault = r.vault
      <4>1. Goto(j, IF r.ref.notice THEN "notice" ELSE "acknowledge")
              \/ job' = [job EXCEPT ![j] = Idle]
        BY <3>1 DEF HardDeleteVault, Done
      <4>2. job' # [job EXCEPT ![j] = Idle]
        BY <1>1 DEF JobTypes, Idle
      <4> QED BY <4>1, <4>2, <1>2
    <3>4. vault'[r.vault].state = "gone"
      BY <3>1, <3>2 DEF HardDeleteVault, TypeInv, TypeOK
    <3> QED BY <3>2, <3>3, <3>4, ErasedStays DEF Erased
  <2>4. At(j, "send")' => /\ job'[j].vault \in Erased'
                          /\ job'[j].ref.vault = job'[j].vault
    <3>. SUFFICES ASSUME At(j, "send")'
                  PROVE  /\ job'[j].vault \in Erased'
                         /\ job'[j].ref.vault = job'[j].vault
      OBVIOUS
    <3>1. PICK m \in notices : ReceiveNotice(j, m)
      BY DEF Arrivals
    <3>2. job'[j] = [Idle EXCEPT !.op = "letter", !.pc = "send",
                                 !.vault = m.vault, !.ref = m]
      BY <3>1, <1>1 DEF ReceiveNotice, JobTypes
    <3>3. job'[j].vault = m.vault /\ job'[j].ref = m
      BY <3>2 DEF Idle
    <3>4. m.vault \in Vaults /\ m.vault \in Erased
      BY DEF TypeInv, TypeOK, NoticeInv, NoticeOnlyAfterErasure, Erased
    <3> QED BY <3>3, <3>4, ErasedStays
  <2> QED BY <2>1, <2>2, <2>3, <2>4 DEF PurgeOrder
<1>4. NoticeOnlyAfterErasure'
  <2>1. \A v \in letters \cup {m.vault : m \in notices} :
          v \in Vaults /\ v \in Erased
    BY DEF TypeInv, TypeOK, NoticeInv, NoticeOnlyAfterErasure, Erased
  <2>2. ASSUME r.pc \in {"notice", "send"}
        PROVE  r.vault \in Vaults /\ r.vault \in Erased
    BY <2>2, <1>1 DEF Shape, VaultPcs, NoticeInv, PurgeOrder
  <2>3. letters' \subseteq letters \cup
          (IF r.pc = "send" THEN {r.vault} ELSE {})
    BY DEF Writers, SendNotice, SendFails
  <2>4. ASSUME NEW m \in notices'
        PROVE  \/ \E n \in notices : m.vault = n.vault
               \/ r.pc \in {"notice", "send"} /\ m.vault = r.vault
    <3>1. CASE EnqueueNotice(j)
      BY <2>4, <3>1 DEF EnqueueNotice
    <3>2. CASE SendNotice(j)
      BY <2>4, <3>2 DEF SendNotice
    <3>3. CASE SendFails(j)
      <4>1. r.pc = "send" /\ r.ref \in Notices /\ r.ref.vault = r.vault
        BY <3>3, <1>1 DEF SendFails, Shape, NoticeInv, PurgeOrder
      <4>2. m \in notices \/ m = [r.ref EXCEPT !.tries = @ + 1]
        BY <2>4, <3>3 DEF SendFails, Retried
      <4>3. [r.ref EXCEPT !.tries = @ + 1].vault = r.vault
        BY <4>1 DEF Notices
      <4> QED BY <4>1, <4>2, <4>3
    <3> QED BY <2>4, <3>1, <3>2, <3>3 DEF Writers
  <2>5. \A v \in letters' \cup {m.vault : m \in notices'} :
          v \in Vaults /\ v \in Erased
    BY <2>1, <2>2, <2>3, <2>4
  <2>6. \A v \in letters' \cup {m.vault : m \in notices'} : v \in Erased'
    BY <2>5, ErasedStays
  <2> QED BY <2>6 DEF NoticeOnlyAfterErasure, Erased
<1> QED BY <1>3, <1>4 DEF NoticeInv

\* The owner hears of a deletion only when nothing is left to delete, through
\* retried purges, purges side by side, and notices that wait in their queue.
THEOREM NoticesComeLast == Spec => []NoticeOnlyAfterErasure
<1>1. Init => NoticeInv
  <2>1. ASSUME NEW s, Begin(s)
        PROVE  /\ letters = {} /\ notices = {}
               /\ \A k \in Jobs : job[k].pc = "idle"
    BY <2>1 DEF Begin, Idle
  <2> QED BY <2>1 DEF Init, NoticeInv, NoticeOnlyAfterErasure, PurgeOrder, At
<1>2. TypeInv /\ NoticeInv /\ [Next]_vars => NoticeInv'
  <2>. SUFFICES ASSUME TypeInv, NoticeInv, [Next]_vars
                PROVE  NoticeInv'
    OBVIOUS
  <2>1. CASE UNCHANGED vars
    BY <2>1 DEF NoticeInv, NoticeOnlyAfterErasure, PurgeOrder, Erased,
       At, vars, noticeVars, purgeVars
  <2>2. CASE ClientStep \/ ProviderStep \/ Tick
    BY <2>2, OutsideStep DEF NoticeInv, NoticeOnlyAfterErasure, PurgeOrder,
       Erased, At, noticeVars
  <2>3. ASSUME NEW j \in Jobs, StartRequest(j) \/ Step(j) \/ FaultOf(j)
        PROVE  NoticeInv'
    BY <2>3, JobWrites, JobMoves, NoticeStep DEF TypeInv
  <2> QED BY <2>1, <2>2, <2>3 DEF Next
<1>3. NoticeInv => NoticeOnlyAfterErasure
  BY DEF NoticeInv
<1> QED BY <1>1, <1>2, <1>3, RowsWellTyped, PTL DEF Spec

\* A purge says the vault of its message, and is acknowledged with its work
\* done.
PurgeDone ==
  \A k \in Jobs :
    /\ job[k].op = "purge" => job[k].ref.vault = job[k].vault
    /\ At(k, "acknowledge") =>
         /\ vault[job[k].vault].state = "gone"
         /\ lost \/ (job[k].ref.notice => job[k].vault \in Told)

\* Where the consumer of a purge has its message from.
LEMMA PurgeMessage ==
  ASSUME TypeInv, NEW j \in Jobs, Arrivals(j), JobTypes',
         job'[j].op = "purge"
  PROVE  \/ /\ job[j].op = "purge" /\ job'[j].ref = job[j].ref
            /\ job'[j].vault = job[j].vault
         \/ \E m \in purges : /\ ReceivePurge(j, m) /\ job'[j].ref = m
                              /\ job'[j].vault = m.vault
<1>. DEFINE r == job[j]
            s == job'[j]
<1>1. r \in JobRecords /\ Shape(r) /\ JobTypes /\ Shape(s)
  BY DEF TypeInv, JobTypes
<1>. USE DEF At
<1>2. ASSUME NEW x, Goto(j, x)
      PROVE  r.op = "purge" /\ s.ref = r.ref /\ s.vault = r.vault
  BY <1>1, <1>2 DEF Goto, JobTypes, JobRecords
<1>3. s.pc \in {"mark running", "close", "erase", "hard delete", "notice",
                "acknowledge"}
  BY <1>1 DEF Shape, PurgePcs
<1>4. CASE MarkVaultPurgeRunning(j) \/ CloseForPurge(j) \/ EraseState(j)
             \/ EnqueueNotice(j) \/ ClaimForDelete(j)
  BY <1>2, <1>4 DEF MarkVaultPurgeRunning, CloseForPurge, EraseState,
     EnqueueNotice, ClaimForDelete
<1>5. CASE HardDeleteVault(j)
  <2>1. Idle.op = "none"
    BY DEF Idle
  <2>2. ~Done(j)
    BY <1>1, <2>1 DEF Done, JobTypes
  <2> QED BY <1>2, <1>5, <2>2 DEF HardDeleteVault
<1>6. ASSUME NEW m \in purges, ReceivePurge(j, m)
      PROVE  s.ref = m /\ s.vault = m.vault
  <2>1. s = [Idle EXCEPT !.op = "purge", !.pc = "mark running",
                         !.vault = m.vault, !.ref = m]
    BY <1>1, <1>6 DEF ReceivePurge, JobTypes
  <2> QED BY <2>1 DEF Idle
<1> QED BY <1>3, <1>4, <1>5, <1>6 DEF Arrivals

LEMMA LostStays ==
  ASSUME NEW j \in Jobs, Writers(j), lost
  PROVE  lost'
BY DEF Writers, PurgeFails, ConsumerFails, RedeliverPurge, SendFails,
   NotifyFails, SettlePolicy, Abandon

\* A message that is retried is in its queue again, under its id.
LEMMA RetriedStays ==
  ASSUME NEW queue, NEW m \in Messages \cup Notices, ~GivenUp(m)
  PROVE  \E n \in Retried(queue, m) : n.id = m.id /\ n.vault = m.vault
<1>. DEFINE n == [m EXCEPT !.tries = @ + 1]
<1>1. n.id = m.id /\ n.vault = m.vault
  BY DEF Messages, Notices
<1>2. n \in Retried(queue, m)
  BY DEF Retried
<1> QED BY <1>1, <1>2

\* A notice leaves its queue with the letter, or given up.
LEMMA NoticeLeaves ==
  ASSUME TypeInv, NoticeInv, NEW j \in Jobs, Writers(j), NEW m \in notices
  PROVE  \/ lost' \/ m.vault \in letters'
         \/ \E n \in notices' : n.id = m.id /\ n.vault = m.vault
<1>. DEFINE r == job[j]
<1>. SUFFICES ASSUME m \notin notices'
              PROVE  \/ lost' \/ m.vault \in letters'
                     \/ \E n \in notices' : n.id = m.id /\ n.vault = m.vault
  OBVIOUS
<1>1. CASE SendNotice(j)
  <2>1. m = r.ref /\ r.ref.vault = r.vault
    BY <1>1 DEF SendNotice, NoticeInv, PurgeOrder
  <2> QED BY <1>1, <2>1 DEF SendNotice
<1>2. CASE SendFails(j)
  <2>1. notices' = Retried(notices, r.ref) /\ lost' = (lost \/ GivenUp(r.ref))
    BY <1>2 DEF SendFails
  <2>2. m = r.ref
    BY <2>1 DEF Retried
  <2>3. m \in Messages \cup Notices
    BY DEF TypeInv, TypeOK, Notices
  <2> QED BY <2>1, <2>2, <2>3, RetriedStays
<1>3. ~EnqueueNotice(j)
  BY DEF EnqueueNotice
<1> QED BY <1>1, <1>2, <1>3 DEF Writers

LEMMA ToldStays ==
  ASSUME TypeInv, NoticeInv, NEW j \in Jobs, Writers(j), NEW v, v \in Told
  PROVE  lost' \/ v \in Told'
<1>1. letters \subseteq letters'
  BY DEF Writers, SendNotice, SendFails
<1>2. CASE v \in letters
  BY <1>1, <1>2 DEF Told
<1>3. CASE \E m \in notices : m.vault = v
  BY <1>3, NoticeLeaves DEF Told
<1> QED BY <1>2, <1>3 DEF Told

LEMMA PurgeDoneStep ==
  ASSUME TypeInv, NoticeInv, PurgeDone, NEW j \in Jobs, Writers(j),
         Arrivals(j), JobTypes'
  PROVE  PurgeDone'
<1>. DEFINE r == job[j]
            s == job'[j]
<1>1. r \in JobRecords /\ Shape(r) /\ JobTypes /\ Shape(s)
  BY DEF TypeInv, JobTypes
<1>. USE DEF At
<1>2. s.op = "purge" => s.ref.vault = s.vault
  BY PurgeMessage DEF PurgeDone
<1>3. s.pc = "acknowledge" =>
        /\ vault'[s.vault].state = "gone"
        /\ lost' \/ (s.ref.notice => s.vault \in Told')
  <2>. SUFFICES ASSUME s.pc = "acknowledge"
                PROVE  /\ vault'[s.vault].state = "gone"
                       /\ \A v : v = s.vault /\ s.ref.notice => v \in Told'
    OBVIOUS
  <2>1. CASE HardDeleteVault(j)
    <3>1. Goto(j, IF r.ref.notice THEN "notice" ELSE "acknowledge")
      <4>1. Idle.pc = "idle"
        BY DEF Idle
      <4>2. ~Done(j)
        BY <1>1, <4>1 DEF Done, JobTypes
      <4> QED BY <2>1, <4>2 DEF HardDeleteVault
    <3>2. s.ref = r.ref /\ s.vault = r.vault
          /\ s.pc = IF r.ref.notice THEN "notice" ELSE "acknowledge"
      BY <1>1, <3>1 DEF Goto, JobTypes, JobRecords
    <3>3. r.vault \in Vaults
      BY <1>1, <2>1 DEF HardDeleteVault, Shape, VaultPcs, PurgePcs
    <3>4. vault'[r.vault].state = "gone"
      BY <2>1, <3>3 DEF HardDeleteVault, TypeInv, TypeOK
    <3>5. ~s.ref.notice
      BY <3>2
    <3> QED BY <3>2, <3>4, <3>5
  <2>2. CASE EnqueueNotice(j)
    <3>1. s.ref = r.ref /\ s.vault = r.vault
      BY <1>1, <2>2 DEF EnqueueNotice, Goto, JobTypes, JobRecords
    <3>2. vault[r.vault].state = "gone" /\ vault' = vault
      BY <2>2 DEF EnqueueNotice, NoticeInv, PurgeOrder, Erased
    <3>3. \E n \in notices' : n.vault = r.vault
      <4>. DEFINE n == [id |-> FreshId(notices), vault |-> r.vault, tries |-> 0]
      <4>1. n \in notices' /\ n.vault = r.vault
        BY <2>2 DEF EnqueueNotice
      <4> QED BY <4>1
    <3> QED BY <3>1, <3>2, <3>3 DEF Told
  <2> QED BY <2>1, <2>2 DEF Arrivals
<1>4. ASSUME NEW k \in Jobs, k # j
      PROVE  /\ job'[k].op = "purge" => job'[k].ref.vault = job'[k].vault
             /\ job'[k].pc = "acknowledge" =>
                  /\ vault'[job'[k].vault].state = "gone"
                  /\ lost' \/ (job'[k].ref.notice => job'[k].vault \in Told')
  <2>1. job'[k] = job[k] /\ Shape(job[k])
    BY <1>4 DEF Arrivals, TypeInv, JobTypes
  <2>2. ASSUME job[k].pc = "acknowledge"
        PROVE  /\ vault'[job[k].vault].state = "gone"
               /\ \A v : v = job[k].vault /\ job[k].ref.notice =>
                    lost' \/ v \in Told'
    <3>1. /\ vault[job[k].vault].state = "gone"
          /\ lost \/ (job[k].ref.notice => job[k].vault \in Told)
      BY <2>2 DEF PurgeDone
    <3>2. job[k].op = "purge" /\ job[k].ref.vault = job[k].vault
          /\ job[k].ref \in Messages
      BY <2>1, <2>2 DEF Shape, PurgeDone
    <3>3. job[k].vault \in Vaults
      BY <3>2 DEF Messages
    <3>4. vault'[job[k].vault].state = "gone"
      BY <3>1, <3>3, VaultStates DEF Exists
    <3> QED BY <3>1, <3>4, LostStays, ToldStays
  <2> QED BY <2>1, <2>2 DEF PurgeDone
<1>5. ASSUME NEW k \in Jobs, job'[k].pc = "acknowledge"
      PROVE  /\ vault'[job'[k].vault].state = "gone"
             /\ lost' \/ (job'[k].ref.notice => job'[k].vault \in Told')
  BY <1>3, <1>4, <1>5
<1> QED BY <1>2, <1>4, <1>5 DEF PurgeDone

LEMMA MessageStep ==
  ASSUME TypeInv, NoticeInv, PurgeDone, NEW j \in Jobs, Writers(j)
  PROVE  MessageDone
<1>. DEFINE r == job[j]
<1>1. r \in JobRecords /\ Shape(r)
  BY DEF TypeInv, JobTypes
<1>. SUFFICES ASSUME ~lost' PROVE MessageDone
  BY DEF MessageDone
<1>2. ASSUME NEW m \in purges, m \notin purges'
      PROVE  \/ \E n \in purges' : n.id = m.id
             \/ vault'[m.vault].state = "gone" /\ (m.notice => m.vault \in Told')
  <2>1. CASE Acknowledge(j)
    <3>1. m = r.ref /\ r.pc = "acknowledge" /\ r.op = "purge"
      BY <1>1, <1>2, <2>1 DEF Acknowledge, At, Shape
    <3>2. UNCHANGED <<vault, letters, notices, lost>>
      BY <2>1 DEF Acknowledge, noticeVars
    <3>3. m.vault = r.vault /\ vault[r.vault].state = "gone"
          /\ (m.notice => m.vault \in Told)
      BY <3>1, <3>2 DEF PurgeDone, At
    <3> QED BY <3>2, <3>3 DEF Told
  <2>2. CASE PurgeFails(j) \/ ConsumerFails(j)
    <3>1. RedeliverPurge(j) /\ r.op = "purge"
      BY <1>2, <2>2 DEF PurgeFails, ConsumerFails
    <3>2. purges' = Retried(purges, r.ref) /\ ~GivenUp(r.ref)
      BY <3>1 DEF RedeliverPurge
    <3>3. m = r.ref /\ m \in Messages
      BY <1>2, <3>2 DEF Retried, TypeInv, TypeOK
    <3> QED BY <3>2, <3>3, RetriedStays
  <2>3. ~EnqueuePurge(j)
    BY <1>2 DEF EnqueuePurge
  <2> QED BY <1>2, <2>1, <2>2, <2>3 DEF Writers
<1>3. ASSUME NEW m \in purges
      PROVE  \/ \E n \in purges' : n.id = m.id
             \/ vault'[m.vault].state = "gone" /\ (m.notice => m.vault \in Told')
  <2>1. m \in purges' => \E n \in purges' : n.id = m.id
    OBVIOUS
  <2> QED BY <1>2, <2>1
<1>4. ASSUME NEW m \in notices
      PROVE  m.vault \in letters' \/ \E n \in notices' : n.id = m.id
  BY NoticeLeaves
<1> QED BY <1>3, <1>4 DEF MessageDone

\* Through failed deliveries, consumers that die half-way and purges side by
\* side, no message leaves its queue with its work undone unless the queue gave
\* up: the safety half of PurgeCompletes.
THEOREM NoMessageDropped == Spec => [][MessageDone]_vars
<1>1. Init => NoticeInv /\ PurgeDone
  <2>1. ASSUME NEW s, Begin(s)
        PROVE  /\ letters = {} /\ notices = {}
               /\ \A k \in Jobs : job[k].pc = "idle" /\ job[k].op = "none"
    BY <2>1 DEF Begin, Idle
  <2> QED BY <2>1 DEF Init, NoticeInv, NoticeOnlyAfterErasure, PurgeOrder,
                      PurgeDone, At
<1>2. TypeInv /\ NoticeInv /\ PurgeDone /\ [Next]_vars
        => NoticeInv' /\ PurgeDone' /\ [MessageDone]_vars
  <2>. SUFFICES ASSUME TypeInv, NoticeInv, PurgeDone, [Next]_vars
                PROVE  NoticeInv' /\ PurgeDone' /\ [MessageDone]_vars
    OBVIOUS
  <2>1. CASE UNCHANGED vars
    BY <2>1 DEF NoticeInv, NoticeOnlyAfterErasure, PurgeOrder, PurgeDone,
       Told, Erased, At, vars, noticeVars, purgeVars
  <2>2. CASE ClientStep \/ ProviderStep \/ Tick
    <3>1. UNCHANGED <<vault, coordinator, purges, noticeVars, lost, job>>
      BY <2>2, OutsideStep
    <3>2. purges' = purges /\ notices' = notices
      BY <3>1 DEF noticeVars
    <3>3. /\ \A m \in purges : \E n \in purges' : n.id = m.id
          /\ \A m \in notices : \E n \in notices' : n.id = m.id
      <4>1. ASSUME NEW m \in purges
            PROVE  \E n \in purges' : n.id = m.id
        BY <3>2, <4>1
      <4>2. ASSUME NEW m \in notices
            PROVE  \E n \in notices' : n.id = m.id
        BY <3>2, <4>2
      <4> QED BY <4>1, <4>2
    <3>4. MessageDone
      BY <3>3 DEF MessageDone
    <3> QED BY <3>1, <3>4 DEF NoticeInv, NoticeOnlyAfterErasure, PurgeOrder,
                              PurgeDone, Told, Erased, At, noticeVars
  <2>3. ASSUME NEW j \in Jobs, StartRequest(j) \/ Step(j) \/ FaultOf(j)
        PROVE  NoticeInv' /\ PurgeDone' /\ [MessageDone]_vars
    BY <2>3, JobWrites, JobMoves, JobsTyped, NoticeStep, PurgeDoneStep,
       MessageStep DEF TypeInv
  <2> QED BY <2>1, <2>2, <2>3 DEF Next
<1> QED BY <1>1, <1>2, RowsWellTyped, PTL DEF Spec

-----------------------------------------------------------------------------
(* 7. Checkouts.                                                           *)

\* What a field that names the organization's customer c may hold: c, or
\* nothing yet where c is the customer the first checkout creates.
Names(c) == IF c = "ours" THEN {"ours", None} ELSE {c}

\* Everything that names a customer names c: the binding, the subscription at
\* the provider, its snapshots on their way and in hand, and each checkout.
CustomerIs(c) ==
  /\ c \in {"ours", "legacy"}
  /\ bound \in Names(c) /\ provider.customer \in Names(c)
  /\ \A w \in webhooks : w.customer \in Names(c)
  /\ \A a \in opened : a.customer = c
  /\ \A k \in Jobs :
       /\ At(k, "customer") => job[k].ref \in Names(c)
       /\ job[k].pc \in {"create customer", "find again"} => c = "ours"
       /\ job[k].pc \in {"open", "portal"} => job[k].ref = c
       /\ job[k].pc \in {"upsert", "notify"} =>
            job[k].ref.customer \in Names(c)

CheckoutInv == \E c \in {"ours", "legacy"} : CustomerIs(c)

LEMMA BecomesNamed ==
  ASSUME NEW c, NEW plan, NEW customer \in Names(c),
         ProviderBecomes(plan, customer),
         \A w \in webhooks : w.customer \in Names(c)
  PROVE  /\ provider'.customer \in Names(c)
         /\ \A w \in webhooks' : w.customer \in Names(c)
BY DEF ProviderBecomes, Snapshot

LEMMA CustomerStep ==
  ASSUME TypeInv, NEW c, CustomerIs(c), NEW j \in Jobs,
         StartRequest(j) \/ Step(j) \/ FaultOf(j)
  PROVE  CustomerIs(c)'
<1>. DEFINE r == job[j]
            n == job'[j]
<1>1. JobTypes /\ r \in JobRecords /\ Shape(r) /\ Writers(j) /\ Arrivals(j)
  BY JobWrites, JobMoves DEF TypeInv, JobTypes
<1>2. c \in {"ours", "legacy"} /\ None \notin {"ours", "legacy", "foreign"}
  BY StoreAssumptions DEF CustomerIs, Customers
<1>. USE DEF At
<1>3. provider'.customer \in Names(c)
        /\ \A w \in webhooks' : w.customer \in Names(c)
  <2>1. CASE UNCHANGED <<provider, webhooks>>
    BY <2>1 DEF CustomerIs
  <2>2. CASE UpdateProduct(j)
    BY <2>1, <2>2, BecomesNamed DEF UpdateProduct, CustomerIs
  <2>3. CASE NotifyUpsert(j)
    BY <2>3 DEF NotifyUpsert, CustomerIs
  <2> QED BY <1>1, <2>1, <2>2, <2>3 DEF Writers
<1>4. bound' \in Names(c)
  BY <1>1 DEF Writers, UpsertSubscription, CustomerIs
<1>5. \A a \in opened' : a.customer = c
  <2>1. \A a \in opened : a.customer = c
    BY DEF CustomerIs
  <2>2. OpenCheckout(j) \/ OpenPortal(j) => r.ref = c
    BY DEF OpenCheckout, OpenPortal, CustomerIs
  <2>3. opened' = opened \/ \E kind : opened' = opened \cup
          {[kind |-> kind, customer |-> c]}
    BY <2>2, <1>1 DEF Writers, OpenCheckout, OpenPortal
  <2> QED BY <2>1, <2>3
<1>6. n.pc = "customer" => n.ref \in Names(c)
  <2>. SUFFICES ASSUME n.pc = "customer" PROVE n.ref \in Names(c)
    OBVIOUS
  <2>1. PICK u \in Users : StartCheckout(j, u)
    BY <1>1 DEF Arrivals
  <2>2. n = [Idle EXCEPT !.op = "checkout", !.pc = "customer", !.ref = bound]
    BY <2>1, <1>1 DEF StartCheckout, Start, JobTypes
  <2>3. n.ref = bound
    BY <2>2 DEF Idle
  <2> QED BY <2>3 DEF CustomerIs
<1>7. FindCustomer(j) /\ r.ref = None => c = "ours"
  BY <1>2 DEF FindCustomer, CustomerIs, Names
<1>8. n.pc \in {"create customer", "find again"} => c = "ours"
  <2>1. n.pc = "create customer" => FindCustomer(j) /\ r.ref = None
    <3>. SUFFICES ASSUME n.pc = "create customer"
                  PROVE  FindCustomer(j) /\ r.ref = None
      OBVIOUS
    <3>1. FindCustomer(j)
      BY <1>1 DEF Arrivals
    <3>2. ASSUME Goto(j, "open") PROVE FALSE
      BY <3>2, <1>1 DEF Goto, JobTypes, JobRecords
    <3> QED BY <3>1, <3>2 DEF FindCustomer
  <2>2. n.pc = "find again" => CreateCustomer(j)
    BY <1>1 DEF Arrivals
  <2> QED BY <2>1, <2>2, <1>7 DEF CreateCustomer, CustomerIs
<1>9. n.pc \in {"open", "portal"} => n.ref = c
  <2>1. ASSUME n.pc = "open", FindCustomer(j) PROVE n.ref = c
    <3>1. CASE r.ref # None
      <4>1. n.ref = r.ref
        BY <2>1, <3>1, <1>1 DEF FindCustomer, Goto, JobTypes, JobRecords
      <4>2. r.ref \in Names(c)
        BY <2>1 DEF FindCustomer, CustomerIs
      <4> QED BY <4>1, <4>2, <3>1, <1>2 DEF Names
    <3>2. CASE r.ref = None
      <4>1. CASE "ours" \in customers
        <5>1. job' = [job EXCEPT ![j] =
                        [r EXCEPT !.ref = "ours", !.pc = "open"]]
          BY <2>1, <3>2, <4>1 DEF FindCustomer, FoundOrElse
        <5>2. n.ref = "ours"
          BY <5>1, <1>1 DEF JobTypes, JobRecords
        <5> QED BY <5>2, <2>1, <3>2, <1>7
      <4>2. CASE "ours" \notin customers
        <5>1. job' = [job EXCEPT ![j] = [r EXCEPT !.pc = "create customer"]]
          BY <2>1, <3>2, <4>2 DEF FindCustomer, FoundOrElse
        <5>2. n.pc = "create customer"
          BY <5>1, <1>1 DEF JobTypes, JobRecords
        <5> QED BY <2>1, <5>2
      <4> QED BY <4>1, <4>2
    <3> QED BY <3>1, <3>2
  <2>2. ASSUME n.pc = "open", CreateCustomer(j) PROVE n.ref = c
    <3>1. c = "ours"
      BY <2>2 DEF CreateCustomer, CustomerIs
    <3>2. ASSUME Goto(j, "find again") PROVE FALSE
      BY <2>2, <3>2, <1>1 DEF Goto, JobTypes, JobRecords
    <3>3. job' = [job EXCEPT ![j].pc = "open", ![j].ref = "ours"]
      BY <2>2, <3>2 DEF CreateCustomer
    <3>4. n.ref = "ours"
      BY <3>3, <1>1 DEF JobTypes, JobRecords
    <3> QED BY <3>1, <3>4
  <2>3. ASSUME n.pc = "open", FindAgain(j) PROVE n.ref = c
    <3>1. c = "ours"
      BY <2>3 DEF FindAgain, CustomerIs
    <3>2. ASSUME Done(j) PROVE FALSE
      BY <2>3, <3>2, <1>1 DEF Done, JobTypes, Idle
    <3>3. job' = [job EXCEPT ![j] = [r EXCEPT !.ref = "ours", !.pc = "open"]]
      BY <2>3, <3>2 DEF FindAgain, FoundOrElse
    <3>4. n.ref = "ours"
      BY <3>3, <1>1 DEF JobTypes, JobRecords
    <3> QED BY <3>1, <3>4
  <2>4. ASSUME n.pc = "portal" PROVE n.ref = c
    <3>1. PICK u \in Users : StartPortal(j, u)
      BY <2>4, <1>1 DEF Arrivals
    <3>2. n = [Idle EXCEPT !.op = "portal", !.pc = "portal", !.ref = bound]
            /\ bound # None
      BY <3>1, <1>1 DEF StartPortal, Start, JobTypes
    <3>3. n.ref = bound
      BY <3>2 DEF Idle
    <3> QED BY <3>2, <3>3, <1>2 DEF CustomerIs, Names
  <2> QED BY <2>1, <2>2, <2>3, <2>4, <1>1 DEF Arrivals
<1>10. n.pc \in {"upsert", "notify"} => n.ref.customer \in Names(c)
  <2>1. ASSUME n.pc = "upsert", UpdateProduct(j)
        PROVE  n.ref.customer \in Names(c)
    <3>1. ASSUME Done(j) PROVE FALSE
      BY <2>1, <3>1, <1>1 DEF Done, JobTypes, Idle
    <3>2. job' = [job EXCEPT ![j].pc = "upsert", ![j].ref = provider']
      BY <2>1, <3>1 DEF UpdateProduct
    <3>3. n.ref = provider'
      BY <3>2, <1>1 DEF JobTypes, JobRecords
    <3> QED BY <3>3, <1>3
  <2>2. ASSUME n.pc = "upsert", NEW w \in webhooks, ReceiveWebhook(j, w)
        PROVE  n.ref.customer \in Names(c)
    <3>1. n = [Idle EXCEPT !.op = "webhook", !.pc = "upsert", !.ref = w]
      BY <2>2, <1>1 DEF ReceiveWebhook, JobTypes
    <3>2. n.ref = w
      BY <3>1 DEF Idle
    <3> QED BY <3>2 DEF CustomerIs
  <2>3. ASSUME n.pc = "notify" PROVE n.ref.customer \in Names(c)
    <3>1. UpsertSubscription(j)
      BY <2>3, <1>1 DEF Arrivals
    <3>2. n.ref = r.ref
      BY <3>1, <1>1 DEF UpsertSubscription, Goto, JobTypes, JobRecords
    <3> QED BY <3>1, <3>2 DEF UpsertSubscription, CustomerIs
  <2> QED BY <2>1, <2>2, <2>3, <1>1 DEF Arrivals
<1>11. \A k \in Jobs \ {j} : job'[k] = job[k]
  BY <1>1 DEF Arrivals
<1>. HIDE DEF n
<1> QED
  BY <1>2, <1>3, <1>4, <1>5, <1>6, <1>8, <1>9, <1>10, <1>11
     DEF CustomerIs, n

\* Checkouts that run side by side, retried webhooks and plan changes never
\* split an organization over two customers, nor give it somebody else's.
THEOREM OneCustomer == Spec => []CheckoutsShareCustomer
<1>1. Init => CheckoutInv
  <2>. SUFFICES ASSUME NEW s \in Scenarios, Begin(s) PROVE CheckoutInv
    BY DEF Init
  <2>1. s.bound \in {"ours", "legacy", None}
    BY StoreAssumptions DEF Customers
  <2>. DEFINE c == IF s.bound = "legacy" THEN "legacy" ELSE "ours"
  <2>2. /\ bound = s.bound /\ provider.customer = s.bound /\ webhooks = {}
        /\ opened = {} /\ \A k \in Jobs : job[k].pc = "idle"
    BY DEF Begin, Idle
  <2>3. s.bound \in Names(c)
    BY <2>1 DEF Names
  <2>4. CustomerIs(c)
    BY <2>2, <2>3 DEF CustomerIs, At
  <2> QED BY <2>4 DEF CheckoutInv
<1>2. TypeInv /\ CheckoutInv /\ [Next]_vars => CheckoutInv'
  <2>. SUFFICES ASSUME TypeInv, NEW c \in {"ours", "legacy"}, CustomerIs(c),
                       [Next]_vars
                PROVE  CustomerIs(c)'
    BY DEF CheckoutInv
  <2>1. CASE UNCHANGED vars
    BY <2>1 DEF CustomerIs, At, vars, billingVars, checkoutVars
  <2>2. CASE ClientStep \/ ProviderStep \/ Tick
    <3>1. UNCHANGED <<bound, opened, job>>
      BY <2>2, OutsideStep DEF checkoutVars
    <3>2. /\ provider'.customer \in Names(c)
          /\ \A w \in webhooks' : w.customer \in Names(c)
      <4>1. CASE UNCHANGED <<provider, webhooks>>
        BY <4>1 DEF CustomerIs
      <4>2. CASE ProviderChange
        BY <4>2, BecomesNamed DEF ProviderChange, CustomerIs
      <4>3. ASSUME NEW a \in opened, Pay(a)
            PROVE  /\ provider'.customer \in Names(c)
                   /\ \A w \in webhooks' : w.customer \in Names(c)
        <5>1. a.customer \in Names(c)
          BY DEF CustomerIs, Names
        <5> QED BY <4>3, <5>1, BecomesNamed DEF Pay, CustomerIs
      <4> QED BY <2>2, <4>1, <4>2, <4>3, OutsideStep DEF ProviderStep
    <3> QED BY <3>1, <3>2 DEF CustomerIs, At
  <2>3. ASSUME NEW j \in Jobs, StartRequest(j) \/ Step(j) \/ FaultOf(j)
        PROVE  CustomerIs(c)'
    BY <2>3, CustomerStep
  <2> QED BY <2>1, <2>2, <2>3 DEF Next
<1>3. CheckoutInv => CheckoutsShareCustomer
  BY DEF CheckoutInv, CustomerIs, CheckoutsShareCustomer
<1> QED BY <1>1, <1>2, <1>3, RowsWellTyped, PTL DEF Spec
=============================================================================
