--------------------------- MODULE VaultLifecycle ---------------------------
(***************************************************************************)
(* Creating and deleting vaults, the retention scan of the free plan, the  *)
(* purge queue and its consumer (VaultService, RunVaultRetentionService,   *)
(* VaultPurgeService, VaultPurgeConsumer).  The Node server has no queue:  *)
(* there the deletion runs the purge itself (op "inline").                 *)
(***************************************************************************)
EXTENDS ControlPlaneStore

tailVars == <<tokens, refreshTail>>

-----------------------------------------------------------------------------
(* Creation.                                                               *)

VaultCount == Cardinality({v \in Vaults : Live(v)})

StartCreateVault(j, u) ==
  LET limit == VaultLimit(CurrentPlan)
  IN
  /\ IsManager(role[u])
  /\ limit = 0 \/ VaultCount < limit
  /\ Start(j, "create", [Idle EXCEPT !.op = "create", !.pc = "create",
                                     !.user = u, !.num = limit])
  /\ UNCHANGED <<memberVars, keyVars, vault, outboxVars, accessVars,
                 coordinator, purgeVars, billingVars, lost, now>>

\* The conditional INSERT reserves the place; wrapper and grant depend on it.
CreateVaultForUser(j) ==
  LET u == job[j].user
      reserved == /\ job[j].num = 0 \/ VaultCount < job[j].num
                  /\ IsManager(role[u])
  IN
  /\ At(j, "create")
  /\ \/ /\ reserved
        /\ \E v \in Vaults :
             /\ vault[v].state = "unused"
             /\ vault' = [vault EXCEPT ![v] =
                  [state |-> "live", purge |-> "none",
                   shared |-> Cardinality({w \in Users : IsMember(w)}) > 1]]
             /\ wrapper' = [wrapper EXCEPT ![v] = {u}]
             /\ grant' = [grant EXCEPT ![v][u] =
                            [status |-> "active", version |-> 1]]
     \/ ~reserved /\ UNCHANGED <<vault, wrapper, grant>>
  /\ Done(j)
  /\ UNCHANGED <<memberVars, keyRequest, outboxVars, accessVars, coordinator,
                 purgeVars, billingVars, lost, now>>

-----------------------------------------------------------------------------
(* Deletion by a manager, and by the scan for inactive vaults.             *)

\* readVaultAuthorizationFacts and canManageVault.
MayManage(u, v) == Live(v) /\ IsManager(role[u])

StartDeleteVault(j, u, v, op) ==
  /\ MayManage(u, v)
  /\ Start(j, op, [Idle EXCEPT !.op = op, !.pc = "claim", !.vault = v])
  /\ UNCHANGED <<memberVars, keyVars, vault, outboxVars, accessVars,
                 coordinator, purgeVars, billingVars, lost, now>>

\* markVaultDeletionQueued: claims the vault unless somebody has.
Claim(v) == vault' = IF Live(v)
                     THEN [vault EXCEPT ![v].state = "deleted",
                                        ![v].purge = "queued"]
                     ELSE vault

\* The manual deletion goes on whether or not the claim was its own.
ClaimForDelete(j) ==
  /\ At(j, "claim")
  /\ Claim(job[j].vault)
  /\ Goto(j, IF job[j].op = "inline" THEN "mark running" ELSE "enqueue")
  /\ UNCHANGED <<memberVars, keyVars, outboxVars, accessVars, coordinator,
                 purgeVars, billingVars, lost, now>>

\* The page of candidates: live, never shared, nothing committed for long.
StartRetention(j) ==
  LET found == {v \in Vaults : Live(v) /\ ~vault[v].shared /\ v \in idle}
  IN
  /\ found # {}
  /\ Start(j, "retention", [Idle EXCEPT !.op = "retention", !.pc = "plan",
                                        !.tasks = found])
  /\ UNCHANGED <<memberVars, keyVars, vault, outboxVars, accessVars,
                 coordinator, purgeVars, billingVars, lost, now>>

\* The plan is read once per run.
ReadScanPlan(j) ==
  /\ At(j, "plan")
  /\ IF CurrentPlan = "free" THEN Goto(j, "scan") ELSE Done(j)
  /\ UNCHANGED <<memberVars, keyVars, vault, outboxVars, accessVars,
                 coordinator, purgeVars, billingVars, lost, now>>

\* The scan queues only what it claimed itself.
ClaimCandidate(j) ==
  /\ At(j, "scan")
  /\ IF job[j].tasks = {} THEN Done(j) /\ UNCHANGED vault
     ELSE \E v \in job[j].tasks :
            /\ Claim(v)
            /\ job' = [job EXCEPT ![j].tasks = @ \ {v}, ![j].vault = v,
                         ![j].pc = IF Live(v) THEN "enqueue" ELSE @]
            /\ UNCHANGED budget
  /\ UNCHANGED <<memberVars, keyVars, outboxVars, accessVars, coordinator,
                 purgeVars, billingVars, lost, now>>

EnqueuePurge(j) ==
  /\ At(j, "enqueue")
  /\ purges' = purges \cup
       {[id |-> FreshId(purges), vault |-> job[j].vault, tries |-> 0,
         notice |-> job[j].op = "retention"]}
  /\ IF job[j].op = "retention" THEN Goto(j, "scan") ELSE Done(j)
  /\ UNCHANGED <<memberVars, keyVars, vault, outboxVars, accessVars,
                 coordinator, noticeVars, idle, billingVars, lost, now>>

EnqueueFails(j) ==
  /\ At(j, "enqueue")
  /\ Fault(j, "restore")
  /\ UNCHANGED <<memberVars, keyVars, vault, outboxVars, accessVars,
                 coordinator, purgeVars, billingVars, lost, now>>

\* markVaultDeletionQueueFailed: the vault is visible again, whoever claimed
\* it; the error ends the request or the whole scan.
RestoreVault(j) ==
  LET v == job[j].vault
  IN
  /\ At(j, "restore")
  /\ vault' = IF Exists(v)
              THEN [vault EXCEPT ![v].state = "live", ![v].purge = "failed"]
              ELSE vault
  /\ Done(j)
  /\ UNCHANGED <<memberVars, keyVars, outboxVars, accessVars, coordinator,
                 purgeVars, billingVars, lost, now>>

-----------------------------------------------------------------------------
(* The purge.  A message stays in the queue until it is acknowledged.      *)

ReceivePurge(j, m) ==
  /\ j # Timer /\ job[j] = Idle /\ ~Taken("purge", m)
  /\ job' = [job EXCEPT ![j] = [Idle EXCEPT !.op = "purge",
                !.pc = "mark running", !.vault = m.vault, !.ref = m]]
  /\ UNCHANGED <<memberVars, keyVars, vault, outboxVars, accessVars,
                 coordinator, purgeVars, billingVars, lost, budget, now>>

MarkPurge(v, status) ==
  vault' = IF vault[v].state = "deleted"
           THEN [vault EXCEPT ![v].purge = status] ELSE vault

MarkVaultPurgeRunning(j) ==
  /\ At(j, "mark running")
  /\ MarkPurge(job[j].vault, "running")
  /\ Goto(j, "close")
  /\ UNCHANGED <<memberVars, keyVars, outboxVars, accessVars, coordinator,
                 purgeVars, billingVars, lost, now>>

\* The coordinator closes its sockets, then awaits the end of the objects.
CloseForPurge(j) ==
  /\ At(j, "close")
  /\ sessions' = {t \in sessions : t.vault # job[j].vault}
  /\ Goto(j, "erase")
  /\ UNCHANGED <<memberVars, keyVars, vault, outboxVars, tailVars, revocation,
                 coordinator, purgeVars, billingVars, lost, now>>

\* purgeVaultState: the coordinator's storage, revocations with it.
EraseState(j) ==
  LET v == job[j].vault
  IN
  /\ At(j, "erase")
  /\ coordinator' = [coordinator EXCEPT ![v] =
                       [ready |-> FALSE, erased |-> TRUE]]
  /\ revocation' = [revocation EXCEPT ![v] = [k \in Keys |-> NoRevocation]]
  /\ Goto(j, "hard delete")
  /\ UNCHANGED <<memberVars, keyVars, vault, outboxVars, tailVars, sessions,
                 purgeVars, billingVars, lost, now>>

\* The row goes, and by foreign keys all rows that belong to the vault.
HardDeleteVault(j) ==
  LET v == job[j].vault
  IN
  /\ At(j, "hard delete")
  /\ vault' = [vault EXCEPT ![v] =
                 [state |-> "gone", purge |-> "none", shared |-> FALSE]]
  /\ grant' = [grant EXCEPT ![v] =
                 [u \in Users |-> [status |-> "none", version |-> 0]]]
  /\ wrapper' = [wrapper EXCEPT ![v] = {}]
  /\ keyRequest' = [r \in Requests |-> IF keyRequest[r].vault = v
                      THEN [keyRequest[r] EXCEPT !.status = "canceled"]
                      ELSE keyRequest[r]]
  /\ outbox' = [outbox EXCEPT ![v] = 0]
  /\ IF job[j].op = "purge"
     THEN Goto(j, IF job[j].ref.notice THEN "notice" ELSE "acknowledge")
     ELSE Done(j)
  /\ UNCHANGED <<memberVars, revision, accessVars, coordinator, purgeVars,
                 billingVars, lost, now>>

EnqueueNotice(j) ==
  /\ At(j, "notice")
  /\ notices' = notices \cup
       {[id |-> FreshId(notices), vault |-> job[j].vault, tries |-> 0]}
  /\ Goto(j, "acknowledge")
  /\ UNCHANGED <<memberVars, keyVars, vault, outboxVars, accessVars,
                 coordinator, purges, letters, idle, billingVars, lost, now>>

Acknowledge(j) ==
  /\ At(j, "acknowledge")
  /\ purges' = purges \ {job[j].ref}
  /\ Done(j)
  /\ UNCHANGED <<memberVars, keyVars, vault, outboxVars, accessVars,
                 coordinator, noticeVars, idle, billingVars, lost, now>>

\* message.retry(), or the end of a consumer that died.
RedeliverPurge(j) ==
  /\ purges' = Retried(purges, job[j].ref)
  /\ lost' = (lost \/ GivenUp(job[j].ref))
  /\ EndsByFault(j)

\* Mutant: the deletion goes on although the coordinator could not be reached.
PurgeFailsGoesOn(j) ==
  /\ job[j].pc \in {"close", "erase"}
  /\ Fault(j, "hard delete")
  /\ UNCHANGED <<memberVars, keyVars, vault, outboxVars, accessVars,
                 coordinator, purgeVars, billingVars, lost, now>>

PurgeFails(j) ==
  /\ job[j].pc \in {"close", "erase", "hard delete"}
  /\ MarkPurge(job[j].vault, "failed")
  /\ IF job[j].op = "purge" THEN RedeliverPurge(j)
     ELSE Fault(j, "restore") /\ UNCHANGED <<purges, lost>>
  /\ UNCHANGED <<memberVars, keyVars, outboxVars, accessVars, coordinator,
                 noticeVars, idle, billingVars, now>>

ConsumerFails(j) ==
  /\ job[j].op = "purge"
  /\ job[j].pc \in {"mark running", "notice", "acknowledge"}
  /\ RedeliverPurge(j)
  /\ UNCHANGED <<memberVars, keyVars, vault, outboxVars, accessVars,
                 coordinator, noticeVars, idle, billingVars, now>>

-----------------------------------------------------------------------------
(* The letter to the owner of a vault the scan deleted.                    *)

ReceiveNotice(j, m) ==
  /\ j # Timer /\ job[j] = Idle /\ ~Taken("letter", m)
  /\ job' = [job EXCEPT ![j] = [Idle EXCEPT !.op = "letter", !.pc = "send",
                                !.vault = m.vault, !.ref = m]]
  /\ UNCHANGED <<memberVars, keyVars, vault, outboxVars, accessVars,
                 coordinator, purgeVars, billingVars, lost, budget, now>>

SendNotice(j) ==
  /\ At(j, "send")
  /\ letters' = letters \cup {job[j].vault}
  /\ notices' = notices \ {job[j].ref}
  /\ Done(j)
  /\ UNCHANGED <<memberVars, keyVars, vault, outboxVars, accessVars,
                 coordinator, purges, idle, billingVars, lost, now>>

\* The mail is not taken, or the consumer dies before or after it was.
SendFails(j) ==
  /\ At(j, "send")
  /\ letters' \in {letters, letters \cup {job[j].vault}}
  /\ notices' = Retried(notices, job[j].ref)
  /\ lost' = (lost \/ GivenUp(job[j].ref))
  /\ EndsByFault(j)
  /\ UNCHANGED <<memberVars, keyVars, vault, outboxVars, accessVars,
                 coordinator, purges, idle, billingVars, now>>

-----------------------------------------------------------------------------
LifecycleStep(j) ==
  \/ CreateVaultForUser(j) \/ ClaimForDelete(j) \/ ReadScanPlan(j)
  \/ ClaimCandidate(j) \/ EnqueuePurge(j) \/ RestoreVault(j)
  \/ (\E m \in purges : ReceivePurge(j, m))
  \/ MarkVaultPurgeRunning(j) \/ CloseForPurge(j) \/ EraseState(j)
  \/ HardDeleteVault(j) \/ EnqueueNotice(j) \/ Acknowledge(j)
  \/ (\E m \in notices : ReceiveNotice(j, m)) \/ SendNotice(j)

LifecycleFault(j) == \/ EnqueueFails(j) \/ PurgeFails(j) \/ ConsumerFails(j)
                     \/ SendFails(j)

StartLifecycle(j) ==
  \/ \E u \in Users : \/ StartCreateVault(j, u)
                      \/ \E v \in Vaults, op \in {"delete", "inline"} :
                           StartDeleteVault(j, u, v, op)
  \/ StartRetention(j)
=============================================================================
