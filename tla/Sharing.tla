------------------------------ MODULE Sharing ------------------------------
(***************************************************************************)
(* Organization sharing: invitations, members, the requests by which a     *)
(* member receives a vault's key, and the outbox of access refreshes       *)
(* (SharingService, DrizzleSharingStore, flushSharingRefreshes).           *)
(***************************************************************************)
EXTENDS ControlPlaneStore

outside == <<accessVars, coordinator, purgeVars, billingVars, lost, now>>

Seats == Cardinality({u \in Users : IsMember(u)})
           + Cardinality({i \in Invites : LiveInvite(i)})

-----------------------------------------------------------------------------
(* Invitations.                                                            *)

\* u, a manager, invites `to`; only the owner makes administrators.
StartInvite(j, u, to, as) ==
  /\ IsManager(role[u]) /\ (as = "admin" => role[u] = "owner")
  /\ SharingEnabled
  /\ Start(j, "invite", [Idle EXCEPT !.op = as, !.pc = "invite", !.user = u,
                                     !.ref = to])
  /\ UNCHANGED <<memberVars, keyVars, vault, outboxVars, outside>>

\* Mutant: open invitations hold no seat.
MayInviteByMembers(to) ==
  /\ ~ \E i \in Invites : LiveInvite(i) /\ invite[i].to = to
  /\ ~ IsMember(to)
  /\ MemberLimit = 0 \/ Cardinality({u \in Users : IsMember(u)}) < MemberLimit

MayInvite(to) ==
  /\ ~ \E i \in Invites : LiveInvite(i) /\ invite[i].to = to
  /\ ~ IsMember(to)
  /\ MemberLimit = 0 \/ Seats < MemberLimit

\* Row ids are random: any unused one.
Unused == {i \in Invites : invite[i].status = "unused"}

CreateInvitation(j) ==
  /\ At(j, "invite")
  /\ \/ /\ MayInvite(job[j].ref)
        /\ \E i \in Unused :
             invite' = [invite EXCEPT ![i] =
               [status |-> "pending", to |-> job[j].ref, role |-> job[j].op,
                by |-> job[j].user, expires |-> now + InviteTtl]]
             /\ IF budget["email"] = 0 THEN Done(j)
                ELSE /\ job' = [job EXCEPT ![j].pc = "deliver", ![j].ref = i]
                     /\ UNCHANGED budget
     \/ ~ MayInvite(job[j].ref) /\ UNCHANGED invite /\ Done(j)
  /\ UNCHANGED <<role, claims, keyVars, vault, outboxVars, outside>>

\* An invitation that can still be accepted is sent again.
StartResend(j, u, i) ==
  /\ IsManager(role[u]) /\ SharingEnabled /\ LiveInvite(i)
  /\ budget["email"] > 0
  /\ Start(j, "resend", [Idle EXCEPT !.op = "resend", !.pc = "deliver",
                                     !.ref = i])
  /\ UNCHANGED <<memberVars, keyVars, vault, outboxVars, outside>>

\* Mutant: the limits are read in a step before the row is written.
MayDeliverByInvite(i) == ~ \E c \in claims : c.invite = i /\ c.at > now - Minute

\* One e-mail of an invitation in a minute, DeliveryLimit of all in an hour.
MayDeliver(i) ==
  /\ ~ \E c \in claims : c.invite = i /\ c.at > now - Minute
  /\ Cardinality({c \in claims : c.at > now - Hour}) < DeliveryLimit

\* One statement decides and claims; the e-mail follows, sent or not.  Rows
\* have ids of their own, so that two in one moment are two.
ClaimInvitationDelivery(j) ==
  LET i == job[j].ref
  IN
  /\ At(j, "deliver")
  /\ claims' = IF MayDeliver(i)
               THEN claims \cup {[id |-> Cardinality(claims) + 1,
                                  invite |-> i, at |-> now]}
               ELSE claims
  /\ Done(j)
  /\ UNCHANGED <<role, invite, keyVars, vault, outboxVars, outside>>

\* A manager cancels an invitation, or its recipient rejects it.
StartCancel(j, u, i) ==
  /\ IsManager(role[u]) /\ invite[i].status # "unused"
  /\ Start(j, "cancel", [Idle EXCEPT !.op = "canceled", !.pc = "withdraw",
                                     !.ref = i])
  /\ UNCHANGED <<memberVars, keyVars, vault, outboxVars, outside>>

StartReject(j, i) ==
  /\ LiveInvite(i)
  /\ Start(j, "respond", [Idle EXCEPT !.op = "rejected", !.pc = "withdraw",
                                      !.ref = i])
  /\ UNCHANGED <<memberVars, keyVars, vault, outboxVars, outside>>

SetInvitationStatus(j) ==
  /\ At(j, "withdraw")
  /\ invite' = IF invite[job[j].ref].status = "pending"
               THEN [invite EXCEPT ![job[j].ref].status = job[j].op]
               ELSE invite
  /\ Done(j)
  /\ UNCHANGED <<role, claims, keyVars, vault, outboxVars, outside>>

\* The inviter must still have the authority the invitation passes on.
StartAccept(j, i) ==
  /\ LiveInvite(i)
  /\ SharingEnabled
  /\ IsManager(role[invite[i].by])
  /\ invite[i].role = "admin" => role[invite[i].by] = "owner"
  /\ Start(j, "respond", [Idle EXCEPT !.op = "accept", !.pc = "accept",
                                      !.ref = i])
  /\ UNCHANGED <<memberVars, keyVars, vault, outboxVars, outside>>

\* One batch: member, shared vaults, refresh rows, the invitation itself.
AcceptInvitation(j) ==
  LET i == job[j].ref
      u == invite[i].to
      live == {v \in Vaults : Live(v)}
  IN
  /\ At(j, "accept")
  /\ \/ /\ LiveInvite(i)
        /\ role' = IF IsMember(u) THEN role
                   ELSE [role EXCEPT ![u] = invite[i].role]
        /\ vault' = [v \in Vaults |->
             IF v \in live THEN [vault[v] EXCEPT !.shared = TRUE] ELSE vault[v]]
        /\ QueueRefresh(live)
        /\ invite' = [invite EXCEPT ![i].status = "accepted"]
        /\ Goto(j, "flush")
     \/ ~ LiveInvite(i) /\ Done(j)
        /\ UNCHANGED <<role, invite, vault, outboxVars>>
  /\ UNCHANGED <<claims, keyVars, outside>>

-----------------------------------------------------------------------------
(* Members: changeMember reads both rows, then writes without rechecking.  *)

StartChangeRole(j, actor, target, as) ==
  /\ role[actor] = "owner" /\ role[target] \in {"admin", "member"}
  /\ Start(j, "role", [Idle EXCEPT !.op = as, !.pc = "role", !.user = target])
  /\ UNCHANGED <<memberVars, keyVars, vault, outboxVars, outside>>

ChangeOrganizationRole(j) ==
  LET u == job[j].user
  IN
  /\ At(j, "role")
  /\ role' = IF role[u] \in {"none", "owner"} THEN role
             ELSE [role EXCEPT ![u] = job[j].op]
  /\ Goto(j, "flush")
  /\ UNCHANGED <<inviteVars, keyVars, vault, outboxVars, outside>>

StartRemoveMember(j, actor, target) ==
  /\ IsMember(actor) /\ role[target] \in {"admin", "member"}
  /\ \/ actor = target
     \/ role[actor] = "owner"
     \/ role[actor] = "admin" /\ role[target] = "member"
  /\ Start(j, "remove", [Idle EXCEPT !.op = "remove", !.pc = "remove",
                                     !.user = target])
  /\ UNCHANGED <<memberVars, keyVars, vault, outboxVars, outside>>

\* One batch: the removed member's grants, keys and key requests, a refresh
\* of every vault of the organization, deleted ones too, and the membership.
RemoveOrganizationMember(j) ==
  LET u == job[j].user
      ours == {v \in Vaults : Exists(v)}
      Revoke(g) == IF g.status \in {"none", "revoked"} THEN g
                   ELSE [status |-> "revoked", version |-> g.version + 1]
  IN
  /\ At(j, "remove")
  /\ grant' = [v \in Vaults |->
       IF v \in ours THEN [grant[v] EXCEPT ![u] = Revoke(@)] ELSE grant[v]]
  /\ wrapper' = [v \in Vaults |->
                   IF v \in ours THEN wrapper[v] \ {u} ELSE wrapper[v]]
  /\ keyRequest' = [r \in Requests |->
       IF keyRequest[r].user = u /\ keyRequest[r].vault \in ours
       THEN [keyRequest[r] EXCEPT !.status = "canceled"] ELSE keyRequest[r]]
  /\ QueueRefresh(ours)
  /\ role' = [role EXCEPT ![u] = "none"]
  /\ Goto(j, "flush")
  /\ UNCHANGED <<inviteVars, vault, outside>>

-----------------------------------------------------------------------------
(* Keys: a member asks for a vault's key, an active manager approves with  *)
(* a transfer envelope, the member completes with a password wrapper.      *)

\* requireVault(user, vault, manage = false, pending = true): whoever is a
\* member is at least pending_key (vaultEnrollmentStatus).
Eligible(u, v) == Live(v) /\ IsMember(u)

ActiveMember(u, v) == Eligible(u, v) /\ grant[v][u].status = "active"

StartKeyRequest(j, u, v, r) ==
  /\ Eligible(u, v) /\ SharingEnabled
  /\ Start(j, "key", [Idle EXCEPT !.op = "key", !.pc = "enroll", !.user = u,
                                  !.vault = v, !.ref = r])
  /\ UNCHANGED <<memberVars, keyVars, vault, outboxVars, outside>>

EnsureVaultEnrollment(j) ==
  LET u == job[j].user
      v == job[j].vault
      g == grant[v][u]
  IN
  /\ At(j, "enroll")
  /\ grant' = IF Eligible(u, v) /\ g.status \in {"none", "revoked"}
              THEN [grant EXCEPT ![v][u] =
                     [status |-> "pending_key", version |-> g.version + 1]]
              ELSE grant
  /\ Goto(j, "reread")
  /\ UNCHANGED <<memberVars, wrapper, keyRequest, vault, outboxVars, outside>>

RereadGrant(j) ==
  LET u == job[j].user
      v == job[j].vault
  IN
  /\ At(j, "reread")
  /\ IF Eligible(u, v) /\ keyRequest[job[j].ref].status = "unused"
     THEN /\ job' = [job EXCEPT ![j].pc = "request",
                                ![j].num = grant[v][u].version]
          /\ UNCHANGED budget
     ELSE Done(j)
  /\ UNCHANGED <<memberVars, keyVars, vault, outboxVars, outside>>

\* Replaces the member's open requests; the insert itself checks nothing.
CreateKeyRequest(j) ==
  LET mine == [status |-> "pending", user |-> job[j].user,
               vault |-> job[j].vault, version |-> job[j].num, by |-> None,
               expires |-> now + RequestTtl]
  IN
  /\ At(j, "request")
  /\ IF keyRequest[job[j].ref].status = "unused" /\ Exists(job[j].vault)
     THEN keyRequest' = [r \in Requests |->
            IF r = job[j].ref THEN mine
            ELSE IF /\ keyRequest[r].user = job[j].user
                    /\ keyRequest[r].vault = job[j].vault
                    /\ OpenRequest(r)
            THEN [keyRequest[r] EXCEPT !.status = "canceled"]
            ELSE keyRequest[r]]
     ELSE UNCHANGED keyRequest      \* a taken id or a lost vault: the batch fails
  /\ Done(j)
  /\ UNCHANGED <<memberVars, grant, wrapper, vault, outboxVars, outside>>

StartApprove(j, u, r) ==
  LET v == keyRequest[r].vault
  IN
  /\ keyRequest[r].status # "unused" /\ keyRequest[r].user # u
  /\ ActiveMember(u, v) /\ IsManager(role[u]) /\ SharingEnabled
  /\ Eligible(keyRequest[r].user, v)
  /\ Start(j, "approve", [Idle EXCEPT !.op = "approve", !.pc = "approve",
                                      !.user = u, !.ref = r])
  /\ UNCHANGED <<memberVars, keyVars, vault, outboxVars, outside>>

\* The requester's grant is still the one the request was made under.
SameGrant(r) ==
  LET g == grant[keyRequest[r].vault][keyRequest[r].user]
  IN  /\ g.version = keyRequest[r].version
      /\ g.status \in {"active", "pending_key"}

ApproveKeyRequest(j) ==
  LET r == job[j].ref
      u == job[j].user
  IN
  /\ At(j, "approve")
  /\ keyRequest' =
       IF /\ keyRequest[r].status = "pending" /\ keyRequest[r].expires > now
          /\ ActiveMember(u, keyRequest[r].vault) /\ IsManager(role[u])
          /\ SameGrant(r)
       THEN [keyRequest EXCEPT ![r].status = "approved", ![r].by = u]
       ELSE keyRequest
  /\ Done(j)
  /\ UNCHANGED <<memberVars, grant, wrapper, vault, outboxVars, outside>>

StartComplete(j, r) ==
  /\ keyRequest[r].status \notin {"unused", "completed"}
  /\ Eligible(keyRequest[r].user, keyRequest[r].vault) /\ SharingEnabled
  /\ Start(j, "complete", [Idle EXCEPT !.op = "complete", !.pc = "complete",
                            !.vault = keyRequest[r].vault, !.ref = r])
  /\ UNCHANGED <<memberVars, keyVars, vault, outboxVars, outside>>

CompleteKeyRequest(j) ==
  LET r == job[j].ref
      u == keyRequest[r].user
      v == job[j].vault
  IN
  /\ At(j, "complete")
  /\ \/ /\ keyRequest[r].status = "approved" /\ keyRequest[r].expires > now
        /\ SameGrant(r) /\ IsMember(u)
        /\ wrapper' = [wrapper EXCEPT ![v] = @ \cup {u}]
        /\ grant' = [grant EXCEPT ![v][u].status = "active"]
        /\ keyRequest' = [keyRequest EXCEPT ![r].status = "completed"]
        /\ Goto(j, "queue")
     \/ /\ ~ (/\ keyRequest[r].status = "approved"
              /\ keyRequest[r].expires > now
              /\ SameGrant(r) /\ IsMember(u))
        /\ Done(j)
        /\ UNCHANGED keyVars
  /\ UNCHANGED <<memberVars, vault, outboxVars, outside>>

QueueVaultRefresh(j) ==
  /\ At(j, "queue")
  /\ IF Exists(job[j].vault)
     THEN QueueRefresh({job[j].vault}) /\ Goto(j, "flush")
     ELSE Done(j) /\ UNCHANGED outboxVars
  /\ UNCHANGED <<memberVars, keyVars, vault, outside>>

StartReplacePassword(j, u, v) ==
  /\ ActiveMember(u, v)
  /\ Start(j, "password", [Idle EXCEPT !.op = "password", !.pc = "password",
                                       !.user = u, !.vault = v])
  /\ UNCHANGED <<memberVars, keyVars, vault, outboxVars, outside>>

\* Mutant: the write trusts the check the request made before.
UpsertPasswordWrapperUnchecked(j) ==
  /\ At(j, "password")
  /\ wrapper' = [wrapper EXCEPT ![job[j].vault] = @ \cup {job[j].user}]
  /\ Done(j)
  /\ UNCHANGED <<memberVars, grant, keyRequest, vault, outboxVars, outside>>

\* An older recovery must not overwrite the password just changed.
UpsertPasswordWrapper(j) ==
  LET u == job[j].user
      v == job[j].vault
  IN
  /\ At(j, "password")
  /\ \/ /\ ActiveMember(u, v)
        /\ wrapper' = [wrapper EXCEPT ![v] = @ \cup {u}]
        /\ keyRequest' = [r \in Requests |->
             IF keyRequest[r].user = u /\ keyRequest[r].vault = v
                  /\ OpenRequest(r)
             THEN [keyRequest[r] EXCEPT !.status = "canceled"]
             ELSE keyRequest[r]]
     \/ ~ ActiveMember(u, v) /\ UNCHANGED <<wrapper, keyRequest>>
  /\ Done(j)
  /\ UNCHANGED <<memberVars, grant, vault, outboxVars, outside>>

-----------------------------------------------------------------------------
\* A member opens the organization's page, which flushes the outbox as well.
StartViewOrganization(j, u) ==
  /\ IsMember(u)
  /\ Start(j, "view", [Idle EXCEPT !.op = "view", !.pc = "flush", !.user = u])
  /\ UNCHANGED <<memberVars, keyVars, vault, outboxVars, outside>>

(* The outbox.  Handlers flush it after a change; the scheduled flush, and  *)
(* requests that change nothing but flush, are the timer's runs, without a  *)
(* bound where the deployment schedules it.  A flush calls one coordinator  *)
(* after another.                                                          *)

Rows == {[vault |-> v, revision |-> outbox[v]] :
           v \in {x \in Vaults : outbox[x] # 0}}

\* pruneExpiredRequests, then the rows to refresh.
ListRefreshes(j) ==
  /\ \/ At(j, "flush")
     \/ j = Timer /\ job[j] = Idle /\ budget["schedule"] > 0
  /\ keyRequest' = [r \in Requests |->
       IF OpenRequest(r) /\ keyRequest[r].expires <= now
       THEN [keyRequest[r] EXCEPT !.status = "canceled"] ELSE keyRequest[r]]
  /\ \E taken \in SUBSET Rows :
       /\ \/ taken = Rows /\ Cardinality(Rows) <= FlushLimit
          \/ Cardinality(taken) = FlushLimit
       /\ IF taken = {} THEN Done(j)
          ELSE /\ job' = [job EXCEPT ![j].pc = "call", ![j].tasks = taken]
               /\ UNCHANGED budget
  /\ UNCHANGED <<memberVars, grant, wrapper, vault, outboxVars, outside>>

\* The coordinator takes the call and the refresh its place in the queue.
CallCoordinator(j) ==
  /\ At(j, "call")
  /\ \E t \in job[j].tasks :
       /\ job' = [job EXCEPT ![j].pc = "snapshot", ![j].vault = t.vault,
                             ![j].num = t.revision, ![j].tasks = @ \ {t}]
       /\ refreshTail' = [refreshTail EXCEPT ![t.vault] = Append(@, j)]
  /\ UNCHANGED <<memberVars, keyVars, vault, outboxVars, tokens, sessions,
                 revocation, coordinator, purgeVars, billingVars, lost,
                 budget, now>>

NextTask(j) ==
  job' = [job EXCEPT ![j] = IF @.tasks = {} THEN Idle
                            ELSE [@ EXCEPT !.pc = "call"]]

\* The call fails on its way: the row stays for a later flush.
CallFails(j) ==
  /\ At(j, "call") /\ Failure
  /\ \E t \in job[j].tasks :
       job' = IF job[j].tasks = {t} THEN [job EXCEPT ![j] = Idle]
              ELSE [job EXCEPT ![j].tasks = @ \ {t}]
  /\ UNCHANGED <<memberVars, keyVars, vault, outboxVars, outside>>

\* A newer change queued during the refresh survives its completion.
FinishRefresh(j) ==
  /\ At(j, "finish")
  /\ outbox' = IF outbox[job[j].vault] = job[j].num
               THEN [outbox EXCEPT ![job[j].vault] = 0] ELSE outbox
  /\ NextTask(j)
  /\ UNCHANGED <<memberVars, keyVars, vault, revision, outside, budget>>

ReplyLost(j) ==
  /\ At(j, "finish") /\ Failure
  /\ NextTask(j)
  /\ UNCHANGED <<memberVars, keyVars, vault, outboxVars, outside>>

-----------------------------------------------------------------------------
SharingStep(j) ==
  \/ CreateInvitation(j) \/ ClaimInvitationDelivery(j) \/ SetInvitationStatus(j) \/ AcceptInvitation(j)
  \/ ChangeOrganizationRole(j) \/ RemoveOrganizationMember(j)
  \/ EnsureVaultEnrollment(j) \/ RereadGrant(j) \/ CreateKeyRequest(j)
  \/ ApproveKeyRequest(j) \/ CompleteKeyRequest(j) \/ QueueVaultRefresh(j)
  \/ UpsertPasswordWrapper(j)
  \/ ListRefreshes(j) \/ CallCoordinator(j) \/ FinishRefresh(j)

SharingFault(j) == CallFails(j) \/ ReplyLost(j)

StartSharing(j) ==
  \/ \E u, w \in Users :
       \/ \E as \in {"admin", "member"} : \/ StartInvite(j, u, w, as)
                                          \/ StartChangeRole(j, u, w, as)
       \/ StartRemoveMember(j, u, w)
  \/ \E i \in Invites :
       \/ \E u \in Users : StartCancel(j, u, i) \/ StartResend(j, u, i)
       \/ StartReject(j, i) \/ StartAccept(j, i)
  \/ \E u \in Users, v \in Vaults :
       \/ \E r \in Requests : StartKeyRequest(j, u, v, r)
       \/ StartReplacePassword(j, u, v)
  \/ \E u \in Users : StartViewOrganization(j, u)
  \/ \E r \in Requests :
       \/ \E u \in Users : StartApprove(j, u, r)
       \/ StartComplete(j, r)
=============================================================================
