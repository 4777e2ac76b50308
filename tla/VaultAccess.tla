---------------------------- MODULE VaultAccess ----------------------------
(***************************************************************************)
(* Sync tokens, the sockets they open, and the revocations a coordinator   *)
(* keeps in place of reading the database on every message                 *)
(* (SyncTokenService, SocketConnectionService,                             *)
(* CoordinatorSyncAccessService).                                          *)
(***************************************************************************)
EXTENDS ControlPlaneStore

rows == <<memberVars, keyVars, vault, outboxVars, purgeVars>>

-----------------------------------------------------------------------------
(* Tokens.                                                                 *)

\* readAccessibleVault and SharingAccess.require: the version to mint with.
StartIssueToken(j, u, v) ==
  /\ Live(v) /\ IsMember(u) /\ grant[v][u].status = "active"
  /\ ~Suspended(v)
  /\ Start(j, "token", [Idle EXCEPT !.op = "token", !.pc = "mint", !.user = u,
                         !.vault = v, !.num = grant[v][u].version,
                         !.at = now])
  /\ UNCHANGED <<rows, accessVars, coordinator, billingVars, lost, now>>

\* After the calls to the coordinator about a sync pause.  `read` is the time
\* of the version, `expires` counts from the time of minting.
MintToken(j) ==
  /\ At(j, "mint")
  /\ tokens' = tokens \cup
       {[user |-> job[j].user, vault |-> job[j].vault,
         version |-> job[j].num, read |-> job[j].at,
         expires |-> now + TokenTtl]}
  /\ Done(j)
  /\ UNCHANGED <<rows, sessions, revocation, refreshTail, coordinator,
                 billingVars, lost, now>>

-----------------------------------------------------------------------------
(* Sockets.                                                                *)

InForce(entry) == entry.expires > now        \* load() drops the expired

ValidToken(t) == t.expires > now             \* its signature is taken as read

Denied(entries, t) ==
  \/ InForce(entries[VaultKey])
  \/ InForce(entries[t.user]) /\ t.version < entries[t.user].min

Admits(v, t) == ValidToken(t) /\ ~Denied(revocation[v], t)

\* A coordinator without state takes the limits of the vault's plan.
EnsureVaultState(v) ==
  /\ coordinator' = [coordinator EXCEPT ![v].ready = TRUE]
  /\ limits' = IF coordinator[v].ready THEN limits
               ELSE [limits EXCEPT ![v] = CurrentPlan]

\* prepareSocketSession verifies the token, then awaits ensureVaultState.
StartConnect(j, t) ==
  /\ Admits(t.vault, t)
  /\ Start(j, "connect", [Idle EXCEPT !.op = "connect", !.pc = "accept socket",
                                      !.vault = t.vault, !.ref = t])
  /\ UNCHANGED <<rows, accessVars, coordinator, billingVars, lost, now>>

\* Mutant: the socket is accepted on the check made before the await.
AcceptSocketAsPrepared(j) ==
  LET t == job[j].ref
  IN
  /\ At(j, "accept socket")
  /\ sessions' = IF coordinator[t.vault].ready THEN sessions \cup {t} ELSE sessions
  /\ Done(j)
  /\ UNCHANGED <<rows, tokens, revocation, refreshTail, coordinator, billingVars,
                 lost, now>>

\* The state is there or is made, for a vault that still exists; then
\* assertSessionAccess and the acceptance, without yielding between them.
AcceptSocket(j) ==
  LET t == job[j].ref
      v == t.vault
  IN
  /\ At(j, "accept socket")
  /\ IF coordinator[v].ready \/ Live(v)
     THEN /\ EnsureVaultState(v)
          /\ sessions' = IF Admits(v, t) THEN sessions \cup {t} ELSE sessions
     ELSE UNCHANGED <<coordinator, limits, sessions>>
  /\ Done(j)
  /\ UNCHANGED <<rows, tokens, revocation, refreshTail, subscription,
                 provider, webhooks, refreshes, checkoutVars, lost, now>>

Disconnect(t) ==
  /\ sessions' = sessions \ {t}
  /\ UNCHANGED <<rows, tokens, revocation, refreshTail, coordinator,
                 billingVars, lost, job, budget, now>>

\* A commit over an open socket makes its vault active for the retention scan.
ClientCommit(t) ==
  /\ ~Denied(revocation[t.vault], t)
  /\ idle' = idle \ {t.vault}
  /\ UNCHANGED <<memberVars, keyVars, vault, outboxVars, purges, noticeVars,
                 accessVars, coordinator, billingVars, lost, job, budget, now>>

-----------------------------------------------------------------------------
(* refresh(): one at a time, in the order of the calls.  The snapshot is   *)
(* read with two awaits; what follows them does not yield.                 *)

HasTurn(j) == refreshTail[job[j].vault] # <<>>
                /\ Head(refreshTail[job[j].vault]) = j

LeaveTail(j) ==
  refreshTail' = [refreshTail EXCEPT ![job[j].vault] = Tail(@)]

\* What the caller does next: a flush finishes its row, the policy route
\* goes on to the limits.
AfterRefresh(j) == IF job[j].op = "policy" THEN "limits" ELSE "finish"

\* The refresh failed: the flush leaves the row, the policy call throws.
GiveUp(j) ==
  job' = [job EXCEPT ![j] =
    IF job[j].op = "policy" THEN [@ EXCEPT !.pc = "vaults", !.failed = TRUE]
    ELSE IF job[j].tasks = {} THEN Idle ELSE [@ EXCEPT !.pc = "call"]]

ReadVersions(j) ==
  LET v == job[j].vault
  IN
  /\ At(j, "snapshot") /\ HasTurn(j)
  /\ Live(v)
  /\ job' = [job EXCEPT ![j].pc = "suspension",
               ![j].versions = [u \in Users |-> grant[v][u].version]]
  /\ UNCHANGED <<rows, accessVars, coordinator, billingVars, lost, budget, now>>


FailRefresh(j) ==
  /\ GiveUp(j)
  /\ LeaveTail(j)
  /\ UNCHANGED <<rows, tokens, sessions, revocation, coordinator, billingVars,
                 lost, now>>

SnapshotRefused(j) ==
  /\ At(j, "snapshot") /\ HasTurn(j) /\ ~Live(job[j].vault)
  /\ FailRefresh(j)
  /\ UNCHANGED budget

\* A read fails or the coordinator restarts.
RefreshFails(j) ==
  /\ job[j].pc \in {"snapshot", "suspension", "apply"} /\ HasTurn(j)
  /\ FailRefresh(j)
  /\ Failure

ReadSuspension(j) ==
  /\ At(j, "suspension") /\ HasTurn(j)
  /\ job' = [job EXCEPT ![j].pc = "apply",
                        ![j].suspended = Suspended(job[j].vault)]
  /\ UNCHANGED <<rows, accessVars, coordinator, billingVars, lost, budget, now>>

\* Versions only rise, a user's block is only extended; the block of the whole
\* vault follows the snapshot.  Sockets that are denied now are closed.
ApplyRefresh(j) ==
  LET v == job[j].vault
      seen == job[j].versions
      until == now + Lifetime
      Old(k) == IF InForce(revocation[v][k]) THEN revocation[v][k]
                ELSE NoRevocation
      Larger(a, b) == IF a > b THEN a ELSE b
      entries == [k \in Keys |->
        IF k = VaultKey
        THEN IF job[j].suspended THEN [min |-> 0, expires |-> until]
             ELSE NoRevocation
        ELSE IF seen[k] > 1
        THEN [min |-> Larger(seen[k], Old(k).min),
              expires |-> Larger(until, Old(k).expires)]
        ELSE Old(k)]
  IN
  /\ At(j, "apply") /\ HasTurn(j)
  /\ revocation' = [revocation EXCEPT ![v] = entries]
  /\ sessions' = {t \in sessions : t.vault = v => ~Denied(entries, t)}
  /\ LeaveTail(j)
  /\ job' = [job EXCEPT ![j].pc = AfterRefresh(j), ![j].versions = <<>>,
                        ![j].suspended = FALSE]
  /\ UNCHANGED <<rows, tokens, coordinator, billingVars, lost, budget, now>>

-----------------------------------------------------------------------------
AccessStep(j) == \/ MintToken(j) \/ AcceptSocket(j)
                 \/ ReadVersions(j) \/ SnapshotRefused(j) \/ ReadSuspension(j) \/ ApplyRefresh(j)

StartAccess(j) == \/ \E u \in Users, v \in Vaults : StartIssueToken(j, u, v)
                  \/ \E t \in tokens : StartConnect(j, t)

ClientStep == \E t \in sessions : Disconnect(t) \/ ClientCommit(t)
=============================================================================
