----------------------- MODULE ControlPlaneProperties -----------------------
(***************************************************************************)
(* What the control plane promises.                                        *)
(***************************************************************************)
EXTENDS ControlPlane

Messages == [id : Nat, vault : Vaults, tries : 0..(MaxTries - 1), notice : BOOLEAN]

\* Types of the rows, the coordinators' access state and the queues.
TypeOK ==
  /\ role \in [Users -> {"none", "member", "admin", "owner"}]
  /\ invite \in [Invites ->
       [status : {"unused", "pending", "accepted", "rejected", "canceled"},
        to : Users \cup {None}, role : {"none", "member", "admin"},
        by : Users \cup {None}, expires : Nat]]
  /\ grant \in [Vaults -> [Users ->
       [status : {"none", "pending_key", "active", "revoked"},
        version : Nat]]]
  /\ wrapper \in [Vaults -> SUBSET Users]
  /\ keyRequest \in [Requests ->
       [status : {"unused", "pending", "approved", "completed", "canceled"},
        user : Users \cup {None}, vault : Vaults \cup {None}, version : Nat,
        by : Users \cup {None}, expires : Nat]]
  /\ vault \in [Vaults ->
       [state : {"unused", "live", "deleted", "gone"},
        purge : {"none", "queued", "running", "failed"}, shared : BOOLEAN]]
  /\ outbox \in [Vaults -> Nat] /\ revision \in Nat
  /\ tokens \subseteq [user : Users, vault : Vaults, version : Nat,
                       read : Nat, expires : Nat]
  /\ sessions \subseteq tokens
  /\ revocation \in [Vaults -> [Keys -> [min : Nat, expires : Nat]]]
  /\ refreshTail \in [Vaults -> Seq(Jobs)]
  /\ purges \subseteq Messages
  /\ refreshes \subseteq [id : Nat, tries : 0..(MaxTries - 1)]
  /\ notices \subseteq [id : Nat, vault : Vaults, tries : 0..(MaxTries - 1)]
  /\ claims \subseteq [id : Nat, invite : Invites, at : Nat]
  /\ bound \in Customers \cup {None} /\ customers \subseteq Customers
  /\ opened \subseteq [kind : {"checkout", "portal"}, customer : Customers]
  /\ letters \subseteq Vaults /\ idle \subseteq Vaults
  /\ lost \in BOOLEAN /\ now \in Nat

\* Members and open invitations never exceed the plan's seats, however
\* invitations, acceptances, removals and expiries interleave: createInvitation
\* counts and inserts in one statement, and an acceptance turns one open
\* invitation into at most one member (createInvitation, acceptInvitation).
SeatsBounded == MemberLimit # 0 => Seats <= MemberLimit

\* Whoever holds an unrevoked password wrapper of a vault has an active grant
\* to it, has been a member ever since, and the other way round: a request
\* approved before a removal cannot bring a key back, also after a new
\* enrolment (completeKeyRequest, upsertPasswordWrapperForUser,
\* removeOrganizationMember, ensureVaultEnrollment).
KeysMatchGrants ==
  \A v \in Vaults, u \in Users :
    /\ u \in wrapper[v] <=> grant[v][u].status = "active"
    /\ u \in wrapper[v] => IsMember(u)

-----------------------------------------------------------------------------
\* Minting did not take longer than the coordinator's memory outlasts a token.
Timely(t) == t.expires <= t.read + Lifetime

\* The coordinator turns t away for as long as it is valid.
ShutOut(t) ==
  LET entry == revocation[t.vault][t.user]
  IN  /\ t \notin sessions
      /\ t.expires <= now
           \/ (entry.min > t.version /\ entry.expires >= t.expires)

\* After a removal a refresh of the vault is in the outbox until the removed
\* member's sockets are closed and the coordinator refuses the member's tokens
\* to the end of their life, through lost replies, refreshes that overtake each
\* other and sockets prepared before the change (removeOrganizationMember,
\* flushSharingRefreshes, CoordinatorSyncAccessService.refresh,
\* assertSessionAccess).  A coordinator that was erased has forgotten.
RevokedStaysOut ==
  \A t \in tokens :
    (/\ Timely(t)
     /\ t.version < grant[t.vault][t.user].version
     /\ ~coordinator[t.vault].erased)
    => outbox[t.vault] # 0 \/ ShutOut(t)

-----------------------------------------------------------------------------
\* A refresh of v's access state is still to read the plan.
FlushToCome(v) ==
  \/ outbox[v] # 0
  \/ \E j \in Jobs : \/ \E t \in job[j].tasks :
                          job[j].op # "policy" /\ job[j].op # "retention"
                            /\ t.vault = v
                     \/ job[j].vault = v /\ job[j].pc \in {"snapshot", "suspension"}
                     \/ job[j].vault = v /\ job[j].pc = "apply"
                          /\ job[j].suspended

PolicyToCome(v) ==
  \E m \in refreshes : \A j \in Jobs :
    (job[j].op = "policy" /\ job[j].ref = m) =>
      \/ job[j].pc \in {"read plan", "list"} \/ job[j].failed
      \/ v \in job[j].tasks
      \/ job[j].vault = v /\ job[j].pc \in {"snapshot", "suspension"}
      \/ job[j].vault = v /\ job[j].pc = "apply" /\ job[j].suspended

\* A socket stays open on a shared vault whose plan no longer includes sharing
\* only while something is under way that will close it: the webhook, the
\* policy refresh it queues, a row of the outbox.  Exceptions are a refresh
\* given up for good, a vault restored after its deletion was claimed and a
\* paid period that ended by the clock, of which only the provider tells
\* (createPolarWebhookPlugin, changeSubscriptionPlan, refreshOrganizationPolicy,
\* the policy route, CoordinatorSyncAccessService.refresh).
SuspensionOwed ==
  \A t \in sessions :
    (/\ Suspended(t.vault) /\ ~Lapsed(subscription)
     /\ Timely(t) /\ vault[t.vault].purge # "failed")
    => \/ webhooks # {} \/ lost
       \/ FlushToCome(t.vault) \/ PolicyToCome(t.vault)
       \/ \E j \in Jobs : At(j, "notify")

-----------------------------------------------------------------------------
\* The owner is told of a deletion only when there is nothing left to delete:
\* the row is gone and the coordinator has been erased, also when the purge
\* was retried, another purge of the vault ran beside it or the notice waited
\* in its queue (VaultPurgeConsumer.handleMessage,
\* VaultPurgeService.purgeVault, VaultRetentionEmailConsumer).
NoticeOnlyAfterErasure ==
  \A v \in letters \cup {m.vault : m \in notices} :
    vault[v].state = "gone" /\ coordinator[v].erased

\* drizzle-vault-store.ts on markVaultDeletionQueued: "a scheduled purge cannot
\* race a manual delete into queueing the same vault twice".
QueuedOnce ==
  \A m, n \in purges : m.vault = n.vault => m.notice = n.notice


\* The vaults whose owner was told of the deletion, or will be.
Told == letters \cup {n.vault : n \in notices}

\* A message leaves its queue only with its work done, or given up: a purge with
\* the vault gone and, where the scan asked for it, the owner told.
MessageDone ==
  lost' \/
    /\ \A m \in purges :
         \/ \E n \in purges' : n.id = m.id
         \/ /\ vault'[m.vault].state = "gone"
            /\ m.notice => m.vault \in Told'
    /\ \A m \in notices :
         m.vault \in letters' \/ \E n \in notices' : n.id = m.id

\* A purge leaves its queue only with the vault gone, and one that came of the
\* retention scan only with the owner told or about to be; a queue may give up.
\* Both queues empty (VaultPurgeConsumer, VaultRetentionEmailConsumer,
\* max_retries of their queues).
PurgeCompletes ==
  /\ [][MessageDone]_vars
  /\ (purges # {} \/ notices # {}) ~> (purges = {} /\ notices = {})

-----------------------------------------------------------------------------
\* However many checkouts of an organization run at once, and whoever starts
\* them, all of them and its portals are for one customer, never for a customer
\* who merely has a manager's e-mail address (checkoutCustomerId: the second
\* look-up; upsertPolarSubscription: the binding).
CheckoutsShareCustomer ==
  /\ \A a, b \in opened : a.customer = b.customer
  /\ \A a \in opened : a.customer # "foreign"

\* Whoever asks, and however many requests ask at once, an invitation's e-mails
\* are a Minute apart and an organization sends no more than DeliveryLimit in
\* any Hour (claimInvitationDelivery: one statement for both limits).
DeliveryPaced ==
  /\ \A c, d \in claims : c # d /\ c.invite = d.invite
                            => c.at - d.at >= Minute \/ d.at - c.at >= Minute
  /\ \A c \in claims :
       Cardinality({d \in claims : d.at \in (c.at - Hour + 1)..c.at})
         <= DeliveryLimit
=============================================================================
