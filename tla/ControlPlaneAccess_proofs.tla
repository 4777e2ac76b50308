--------------------- MODULE ControlPlaneAccess_proofs ---------------------
(***************************************************************************)
(* Proofs about who a coordinator lets in, for any organization: what the  *)
(* rows of the database say reaches the coordinators, which read copies.   *)
(*                                                                         *)
(*   1. Revocation: a member who was removed.                              *)
(*   2. Suspension: a shared vault whose plan no longer includes sharing.  *)
(***************************************************************************)
EXTENDS ControlPlane_proofs

-----------------------------------------------------------------------------
(* 1. Revocation.                                                          *)

(* What a token was minted from, or will be: the version of a grant and the *)
(* time it was read.  Minting one changes nothing of it.                   *)
Pass(u, v, n, t) == [user |-> u, vault |-> v, version |-> n, read |-> t]

PassOf(t) == Pass(t.user, t.vault, t.version, t.read)

Minting == {k \in Jobs : At(k, "mint")}

Passes == {PassOf(t) : t \in tokens} \cup
  {Pass(job[k].user, job[k].vault, job[k].num, job[k].at) : k \in Minting}

\* Also of a token: the grant has moved on, and the coordinator can know.
Stale(p) == /\ p.version < grant[p.vault][p.user].version
            /\ ~coordinator[p.vault].erased

\* The coordinator refuses p for as long as a token minted in time is valid.
Barred(p) ==
  LET entry == revocation[p.vault][p.user]
  IN  \/ p.read + Lifetime <= now
      \/ entry.min > p.version /\ entry.expires >= p.read + Lifetime

\* Nothing stale gets in at v, and nothing stale is in.
Closed(v) ==
  /\ \A p \in Passes : p.vault = v /\ Stale(p) => Barred(p)
  /\ \A t \in sessions : t.vault = v /\ Timely(t) => ~Stale(t)

\* A pass was read of a grant that stood; what was revoked since is behind it.
PassesRead ==
  \A p \in Passes :
    /\ vault[p.vault].state # "unused"
    /\ p.version >= 1 /\ p.read <= now
    /\ LET g == grant[p.vault][p.user]
       IN  Exists(p.vault) =>
             /\ p.version <= g.version
             /\ g.status \in {"none", "revoked"} => p.version < g.version

VersionsCount == \A v \in Vaults, u \in Users :
  grant[v][u].status # "none" => grant[v][u].version >= 1

\* Revisions are drawn in order.
RevisionsDrawn ==
  /\ \A v \in Vaults : outbox[v] <= revision
  /\ \A k \in Jobs : job[k].op # "policy" =>
       /\ job[k].pc \in CallPcs \cup {"finish"} => job[k].num <= revision
       /\ job[k].pc \in FlushPcs =>
            \A t \in job[k].tasks : t.revision <= revision

\* The refresh that j runs is the one that will clear the row.
Clears(j) == job[j].num # 0 /\ outbox[job[j].vault] = job[j].num

Revoked ==
  /\ \A v \in Vaults : outbox[v] # 0 \/ Closed(v)
  /\ \A k \in Jobs : job[k].op # "policy" =>
       /\ job[k].pc \in {"suspension", "apply"} /\ Clears(k) =>
            \A p \in Passes : p.vault = job[k].vault /\ Stale(p) =>
                                p.version < job[k].versions[p.user]
       /\ At(k, "finish") /\ Clears(k) => Closed(job[k].vault)

RevokedInv == PassesRead /\ VersionsCount /\ RevisionsDrawn /\ Revoked

Grants == [status : {"none", "pending_key", "active", "revoked"},
           version : Nat]

PassTypes == [user : Users, vault : Vaults, version : Nat, read : Nat]

LEMMA TokenTyped ==
  ASSUME TypeInv, NEW t \in tokens
  PROVE  /\ t.user \in Users /\ t.vault \in Vaults /\ t.version \in Nat
         /\ t.read \in Nat /\ t.expires \in Nat
<1>1. t \in [user : Users, vault : Vaults, version : Nat, read : Nat,
             expires : Nat]
  BY DEF TypeInv, TypeOK
<1> QED BY <1>1

LEMMA EntryTyped ==
  ASSUME TypeInv, NEW v \in Vaults, NEW k \in Keys
  PROVE  /\ revocation[v][k] \in [min : Nat, expires : Nat]
         /\ revocation[v][k].min \in Nat /\ revocation[v][k].expires \in Nat
         /\ now \in Nat
<1>1. revocation \in [Vaults -> [Keys -> [min : Nat, expires : Nat]]] /\ now \in Nat
  BY DEF TypeInv, TypeOK
<1>2. revocation[v][k] \in [min : Nat, expires : Nat]
  BY <1>1
<1> QED BY <1>1, <1>2

Socketed == \A t \in sessions : t.user \in Users /\ t.version \in Nat

LEMMA SocketsTyped == TypeInv => Socketed
<1>1. TypeInv => sessions \subseteq tokens
  BY DEF TypeInv, TypeOK
<1> QED BY <1>1, TokenTyped DEF Socketed

Remembers ==
  revocation \in [Vaults -> [Keys -> [min : Nat, expires : Nat]]] /\ now \in Nat

LEMMA RemembersTyped == TypeInv => Remembers
BY DEF TypeInv, TypeOK, Remembers

LEMMA LifetimePositive ==
  Lifetime \in Nat /\ Lifetime # 0 /\ Lifetime \in Nat \ {0} /\ VaultKey \notin Users
<1>1. TokenTtl \in Nat \ {0} /\ Lifetime \in Nat /\ TokenTtl <= Lifetime
  BY StoreAssumptions
<1>2. VaultKey \notin Users
  BY StoreAssumptions
<1>3. Lifetime # 0
  BY <1>1
<1> QED BY <1>1, <1>2, <1>3

LEMMA PassesTyped ==
  ASSUME TypeInv
  PROVE  Passes \subseteq PassTypes
<1>1. \A t \in tokens : PassOf(t) \in PassTypes
  BY DEF TypeInv, TypeOK, PassOf, Pass, PassTypes
<1>2. \A k \in Minting :
        Pass(job[k].user, job[k].vault, job[k].num, job[k].at) \in PassTypes
  <2>. SUFFICES ASSUME NEW k \in Minting
                PROVE  Pass(job[k].user, job[k].vault, job[k].num, job[k].at)
                         \in PassTypes
    OBVIOUS
  <2>1. k \in Jobs /\ job[k].pc = "mint" /\ job[k] \in JobRecords
        /\ Shape(job[k])
    BY DEF Minting, At, TypeInv, JobTypes
  <2>2. job[k].user \in Users /\ job[k].vault \in Vaults
    BY <2>1 DEF Shape, UserPcs, VaultPcs
  <2> QED BY <2>1, <2>2 DEF JobRecords, Pass, PassTypes
<1> QED BY <1>1, <1>2 DEF Passes

\* What a step may do to a member's grant.
LEMMA GrantMoves ==
  ASSUME TypeInv, KeyInv, NEW j \in Jobs, Writers(j),
         NEW v \in Vaults, NEW u \in Users
  PROVE  LET g == grant[v][u]
         IN  \/ grant'[v][u] = g
             \/ /\ RemoveOrganizationMember(j) /\ Exists(v)
                /\ grant'[v][u] = [status |-> "revoked",
                                   version |-> g.version + 1]
                /\ g.status \notin {"none", "revoked"}
             \/ /\ Exists(v) /\ g.status \in {"none", "revoked"}
                /\ grant'[v][u] = [status |-> "pending_key",
                                   version |-> g.version + 1]
             \/ /\ g.status \in {"active", "pending_key"}
                /\ grant'[v][u] = [status |-> "active",
                                   version |-> g.version]
             \/ /\ vault[v].state = "unused"
                /\ grant'[v][u] = [status |-> "active", version |-> 1]
             \/ /\ HardDeleteVault(j) /\ v = job[j].vault
                /\ grant'[v][u] = [status |-> "none", version |-> 0]
<1>. DEFINE r == job[j]
            g == grant[v][u]
<1>1. grant \in [Vaults -> [Users -> Grants]] /\ g \in Grants
  BY DEF TypeInv, TypeOK, Grants
<1>2. r \in JobRecords /\ Shape(r)
  BY DEF TypeInv, JobTypes
<1>. USE DEF At
<1>3. CASE grant' = grant
  BY <1>3
<1>4. CASE RemoveOrganizationMember(j)
  <2>1. grant'[v][u] = g \/
        /\ Exists(v) /\ g.status \notin {"none", "revoked"}
        /\ grant'[v][u] = [status |-> "revoked", version |-> g.version + 1]
    BY <1>1, <1>4 DEF RemoveOrganizationMember
  <2> QED BY <1>4, <2>1
<1>5. CASE EnsureVaultEnrollment(j) /\ grant' # grant
  <2>1. /\ grant' = [grant EXCEPT ![r.vault][r.user] =
                       [status |-> "pending_key",
                        version |-> grant[r.vault][r.user].version + 1]]
        /\ Exists(r.vault)
        /\ grant[r.vault][r.user].status \in {"none", "revoked"}
    BY <1>5 DEF EnsureVaultEnrollment, Eligible, Live, Exists
  <2>2. grant'[v][u] = IF v = r.vault /\ u = r.user
                       THEN [status |-> "pending_key", version |-> g.version + 1]
                       ELSE g
    BY <1>1, <2>1
  <2> QED BY <2>1, <2>2
<1>6. CASE CompleteKeyRequest(j) /\ grant' # grant
  <2>. DEFINE w == keyRequest[r.ref].user
  <2>1. /\ grant' = [grant EXCEPT ![r.vault][w].status = "active"]
        /\ grant[keyRequest[r.ref].vault][w].status \in {"active", "pending_key"}
        /\ r.pc = "complete"
    BY ZenonT(90), <1>6 DEF CompleteKeyRequest, SameGrant, keyVars
  <2>2. keyRequest[r.ref].vault = r.vault
    BY <2>1 DEF KeyInv, CompletesOwn
  <2>. HIDE DEF w
  <2>3. grant'[v][u] = IF v = r.vault /\ u = w
                       THEN [g EXCEPT !.status = "active"] ELSE g
    BY <1>1, <2>1
  <2>4. [g EXCEPT !.status = "active"]
          = [status |-> "active", version |-> g.version]
    BY <1>1 DEF Grants
  <2> QED BY <2>1, <2>2, <2>3, <2>4
<1>7. CASE CreateVaultForUser(j) /\ grant' # grant
  <2>1. PICK w \in Vaults :
          /\ vault[w].state = "unused"
          /\ grant' = [grant EXCEPT ![w][r.user] =
                         [status |-> "active", version |-> 1]]
    BY <1>7 DEF CreateVaultForUser
  <2>2. grant'[v][u] = IF v = w /\ u = r.user
                       THEN [status |-> "active", version |-> 1] ELSE g
    BY <1>1, <2>1
  <2> QED BY <2>1, <2>2
<1>8. CASE HardDeleteVault(j)
  <2>1. grant' = [grant EXCEPT ![r.vault] =
                    [x \in Users |-> [status |-> "none", version |-> 0]]]
    BY <1>8 DEF HardDeleteVault
  <2>2. grant'[v][u] = IF v = r.vault
                       THEN [status |-> "none", version |-> 0] ELSE g
    BY <1>1, <2>1
  <2> QED BY <1>8, <2>2
<1> QED BY <1>3, <1>4, <1>5, <1>6, <1>7, <1>8 DEF Writers

\* The same, of the two fields.
LEMMA VersionMoves ==
  ASSUME TypeInv, KeyInv, NEW j \in Jobs, Writers(j),
         NEW v \in Vaults, NEW u \in Users
  PROVE  LET g == grant[v][u]
             n == grant'[v][u]
         IN  \/ n.status = g.status /\ n.version = g.version
             \/ /\ RemoveOrganizationMember(j) /\ Exists(v)
                /\ n.status = "revoked" /\ n.version = g.version + 1
             \/ /\ Exists(v) /\ g.status \in {"none", "revoked"}
                /\ n.status = "pending_key" /\ n.version = g.version + 1
             \/ /\ g.status \in {"active", "pending_key"}
                /\ n.status = "active" /\ n.version = g.version
             \/ /\ vault[v].state = "unused"
                /\ n.status = "active" /\ n.version = 1
             \/ /\ HardDeleteVault(j) /\ v = job[j].vault
                /\ n.status = "none" /\ n.version = 0
<1>. DEFINE g == grant[v][u]
            n == grant'[v][u]
            k == g.version
<1>1. \A s, i : LET x == [status |-> s, version |-> i]
                IN  x.status = s /\ x.version = i
  OBVIOUS
<1>2. \/ n = g
      \/ /\ RemoveOrganizationMember(j) /\ Exists(v)
         /\ n = [status |-> "revoked", version |-> k + 1]
      \/ /\ Exists(v) /\ g.status \in {"none", "revoked"}
         /\ n = [status |-> "pending_key", version |-> k + 1]
      \/ /\ g.status \in {"active", "pending_key"}
         /\ n = [status |-> "active", version |-> k]
      \/ /\ vault[v].state = "unused"
         /\ n = [status |-> "active", version |-> 1]
      \/ /\ HardDeleteVault(j) /\ v = job[j].vault
         /\ n = [status |-> "none", version |-> 0]
  BY GrantMoves
<1>. HIDE DEF n, g, k
<1>3. \/ n.status = g.status /\ n.version = g.version
      \/ /\ RemoveOrganizationMember(j) /\ Exists(v)
         /\ n.status = "revoked" /\ n.version = k + 1
      \/ /\ Exists(v) /\ g.status \in {"none", "revoked"}
         /\ n.status = "pending_key" /\ n.version = k + 1
      \/ /\ g.status \in {"active", "pending_key"}
         /\ n.status = "active" /\ n.version = k
      \/ /\ vault[v].state = "unused"
         /\ n.status = "active" /\ n.version = 1
      \/ /\ HardDeleteVault(j) /\ v = job[j].vault
         /\ n.status = "none" /\ n.version = 0
  BY <1>1, <1>2
<1> QED BY <1>3 DEF n, g, k

\* Every step's passes were there before it, or one is read of a grant that
\* stands.
LEMMA PassesStep ==
  ASSUME TypeInv, NEW j \in Jobs, Writers(j), Arrivals(j), NEW p \in Passes'
  PROVE  \/ p \in Passes
         \/ \E u \in Users, v \in Vaults :
              StartIssueToken(j, u, v)
                /\ p = Pass(u, v, grant[v][u].version, now)
<1>. DEFINE r == job[j]
<1>1. JobTypes /\ r \in JobRecords /\ Shape(r)
  BY DEF TypeInv, JobTypes
<1>2. CASE \E t \in tokens' : p = PassOf(t)
  <2>1. PICK t \in tokens' : p = PassOf(t)
    BY <1>2
  <2>2. CASE t \in tokens
    BY <2>1, <2>2 DEF Passes
  <2>3. CASE t \notin tokens
    <3>1. MintToken(j)
      BY <2>3 DEF Writers
    <3>2. /\ t = [user |-> r.user, vault |-> r.vault, version |-> r.num,
                  read |-> r.at, expires |-> now + TokenTtl]
          /\ j \in Minting
      BY <2>3, <3>1 DEF MintToken, Minting
    <3>3. p = Pass(r.user, r.vault, r.num, r.at)
      BY <2>1, <3>2 DEF PassOf
    <3> QED BY <3>2, <3>3 DEF Passes
  <2> QED BY <2>2, <2>3
<1>3. ASSUME NEW k \in Minting',
             p = Pass(job'[k].user, job'[k].vault, job'[k].num, job'[k].at)
      PROVE  p \in Passes \/ \E u \in Users, v \in Vaults :
               /\ StartIssueToken(j, u, v)
               /\ p = Pass(u, v, grant[v][u].version, now)
  <2>1. k \in Jobs /\ job'[k].pc = "mint"
    BY DEF Minting, At
  <2>2. CASE k # j
    <3>1. job'[k] = job[k] /\ k \in Minting
      BY <2>1, <2>2 DEF Arrivals, Minting, At
    <3> QED BY <1>3, <3>1 DEF Passes
  <2>3. CASE k = j
    <3>1. PICK u \in Users, v \in Vaults : StartIssueToken(j, u, v)
      BY <2>1, <2>3 DEF Arrivals
    <3>. DEFINE q == [Idle EXCEPT !.op = "token", !.pc = "mint", !.user = u,
                        !.vault = v, !.num = grant[v][u].version, !.at = now]
    <3>2. job'[j] = q
      BY <3>1, <1>1 DEF StartIssueToken, Start, JobTypes
    <3>3. /\ q.user = u /\ q.vault = v /\ q.num = grant[v][u].version
          /\ q.at = now
      BY DEF Idle
    <3> QED BY <1>3, <2>3, <3>1, <3>2, <3>3
  <2> QED BY <2>2, <2>3
<1> QED BY <1>2, <1>3 DEF Passes

\* What a new pass is read of.
LEMMA IssueReads ==
  ASSUME TypeInv, NEW j \in Jobs, NEW u \in Users, NEW v \in Vaults,
         StartIssueToken(j, u, v)
  PROVE  /\ vault[v].state = "live" /\ grant[v][u].status = "active"
         /\ UNCHANGED <<grant, vault, coordinator, sessions, tokens, outbox,
                        revision, now>>
BY DEF StartIssueToken, Live, rows, memberVars, keyVars, outboxVars, accessVars

\* A row of the outbox gets a fresh revision, or goes for one of two reasons.
LEMMA OutboxMoves ==
  ASSUME TypeInv, NEW j \in Jobs, Writers(j)
  PROVE  /\ \/ outbox' = outbox /\ revision' = revision
            \/ /\ \/ AcceptInvitation(j) \/ QueueVaultRefresh(j)
                  \/ RemoveOrganizationMember(j)
               /\ revision' = revision + 1
               /\ \A v \in Vaults : outbox'[v] \in {outbox[v], revision + 1}
            \/ FinishRefresh(j) /\ Clears(j) /\ revision' = revision
                 /\ outbox' = [outbox EXCEPT ![job[j].vault] = 0]
            \/ HardDeleteVault(j) /\ revision' = revision
                 /\ outbox' = [outbox EXCEPT ![job[j].vault] = 0]
         /\ RemoveOrganizationMember(j) => \A v \in Vaults :
              Exists(v) => outbox'[v] = revision + 1
<1>1. outbox \in [Vaults -> Nat] /\ revision \in Nat
  BY DEF TypeInv, TypeOK
<1>2. ASSUME NEW V, QueueRefresh(V)
      PROVE  /\ revision' = revision + 1
             /\ \A v \in Vaults : outbox'[v] \in {outbox[v], revision + 1}
             /\ \A v \in Vaults \cap V : outbox'[v] = revision + 1
  BY <1>2 DEF QueueRefresh
<1>3. CASE AcceptInvitation(j)
  BY <1>2, <1>3 DEF AcceptInvitation, outboxVars, RemoveOrganizationMember, At
<1>4. CASE QueueVaultRefresh(j)
  BY <1>2, <1>4 DEF QueueVaultRefresh, outboxVars, RemoveOrganizationMember, At
<1>5. CASE RemoveOrganizationMember(j)
  BY <1>2, <1>5 DEF RemoveOrganizationMember
<1>6. CASE FinishRefresh(j)
  <2>1. job[j].vault \in Vaults /\ job[j].num \in Nat
    BY <1>6 DEF FinishRefresh, At, TypeInv, JobTypes, JobRecords, Shape,
       VaultPcs
  <2>2. revision' = revision /\ ~RemoveOrganizationMember(j)
    BY <1>6 DEF FinishRefresh, RemoveOrganizationMember, At
  <2>3. CASE outbox[job[j].vault] = job[j].num /\ job[j].num # 0
    BY <1>6, <2>2, <2>3 DEF FinishRefresh, Clears
  <2>4. CASE outbox[job[j].vault] = job[j].num /\ job[j].num = 0
    <3>1. outbox' = outbox
      BY <1>1, <1>6, <2>1, <2>4 DEF FinishRefresh
    <3> QED BY <2>2, <3>1
  <2>5. CASE outbox[job[j].vault] # job[j].num
    BY <1>6, <2>2, <2>5 DEF FinishRefresh
  <2> QED BY <2>3, <2>4, <2>5
<1>7. CASE HardDeleteVault(j)
  BY <1>7 DEF HardDeleteVault, RemoveOrganizationMember, At
<1> QED BY <1>3, <1>4, <1>5, <1>6, <1>7 DEF Writers

LEMMA VersionsStep ==
  ASSUME TypeInv, KeyInv, VersionsCount, NEW j \in Jobs, Writers(j)
  PROVE  VersionsCount'
<1>. SUFFICES ASSUME NEW v \in Vaults, NEW u \in Users,
                     grant'[v][u].status # "none"
              PROVE  grant'[v][u].version >= 1
  BY DEF VersionsCount
<1>1. grant[v][u].version \in Nat
  BY DEF TypeInv, TypeOK
<1> QED BY <1>1, VersionMoves DEF VersionsCount

LEMMA PassesReadStep ==
  ASSUME TypeInv, KeyInv, VersionsCount, PassesRead,
         NEW j \in Jobs, Writers(j), Arrivals(j)
  PROVE  PassesRead'
<1>. SUFFICES ASSUME NEW p \in Passes'
              PROVE  /\ vault'[p.vault].state # "unused"
                     /\ p.version >= 1 /\ p.read <= now'
                     /\ Exists(p.vault)' =>
                          /\ p.version <= grant'[p.vault][p.user].version
                          /\ grant'[p.vault][p.user].status
                               \in {"none", "revoked"} =>
                               p.version < grant'[p.vault][p.user].version
  BY DEF PassesRead
<1>1. CASE p \in Passes
  <2>1. p \in PassTypes
    BY <1>1, PassesTyped
  <2>. DEFINE v == p.vault
              u == p.user
              g == grant[v][u]
  <2>2. /\ v \in Vaults /\ u \in Users /\ p.version \in Nat /\ g \in Grants
        /\ g.version \in Nat
    BY <2>1 DEF PassTypes, TypeInv, TypeOK, Grants
  <2>3. /\ vault[v].state # "unused" /\ p.version >= 1 /\ p.read <= now
        /\ Exists(v) => p.version <= g.version
        /\ Exists(v) /\ g.status \in {"none", "revoked"} =>
             p.version < g.version
    BY <1>1 DEF PassesRead
  <2>4. vault'[v].state # "unused" /\ (Exists(v)' => Exists(v))
    BY <2>2, <2>3, VaultStates DEF Exists
  <2>5. now' = now
    BY DEF Writers
  <2>6. ASSUME Exists(v)'
        PROVE  /\ p.version <= grant'[v][u].version
               /\ grant'[v][u].status \in {"none", "revoked"} =>
                    p.version < grant'[v][u].version
    <3>1. Exists(v)
      BY <2>4, <2>6
    <3>2. ~(HardDeleteVault(j) /\ v = job[j].vault)
      <4>1. ASSUME HardDeleteVault(j), v = job[j].vault
            PROVE  vault'[v].state = "gone"
        BY <4>1, <2>2 DEF HardDeleteVault, TypeInv, TypeOK
      <4> QED BY <4>1, <2>6 DEF Exists
    <3>. HIDE DEF v, u
    <3>3. \/ /\ grant'[v][u].status = g.status
             /\ grant'[v][u].version = g.version
          \/ grant'[v][u].version = g.version + 1 /\ p.version <= g.version
          \/ /\ grant'[v][u].status = "active"
             /\ grant'[v][u].version = g.version
      BY <2>2, <2>3, <3>1, <3>2, VersionMoves
    <3> QED BY <2>2, <2>3, <3>1, <3>3
  <2> QED BY <2>3, <2>4, <2>5, <2>6
<1>2. ASSUME NEW u \in Users, NEW v \in Vaults, StartIssueToken(j, u, v),
             p = Pass(u, v, grant[v][u].version, now)
      PROVE  /\ vault'[p.vault].state # "unused"
             /\ p.version >= 1 /\ p.read <= now'
             /\ p.version <= grant'[p.vault][p.user].version
             /\ grant'[p.vault][p.user].status \notin {"none", "revoked"}
  <2>1. /\ p.user = u /\ p.vault = v /\ p.version = grant[v][u].version
        /\ p.read = now
    BY <1>2 DEF Pass
  <2>2. now \in Nat /\ grant[v][u].version \in Nat
    BY DEF TypeInv, TypeOK
  <2> QED BY <1>2, <2>1, <2>2, IssueReads DEF VersionsCount
<1> QED BY <1>1, <1>2, PassesStep

LEMMA DrawnStep ==
  ASSUME TypeInv, RevisionsDrawn, NEW j \in Jobs, Writers(j), Arrivals(j),
         JobTypes'
  PROVE  RevisionsDrawn'
<1>. DEFINE r == job[j]
            s == job'[j]
<1>1. /\ outbox \in [Vaults -> Nat] /\ revision \in Nat
      /\ r \in JobRecords /\ Shape(r) /\ JobTypes
      /\ s \in JobRecords
  BY DEF TypeInv, TypeOK, JobTypes
<1>2. revision' \in {revision, revision + 1}
  BY OutboxMoves
<1>3. \A v \in Vaults : outbox'[v] <= revision'
  <2>. SUFFICES ASSUME NEW v \in Vaults PROVE outbox'[v] <= revision'
    OBVIOUS
  <2>1. outbox[v] <= revision
    BY DEF RevisionsDrawn
  <2>2. \/ outbox'[v] \in {0, outbox[v]}
        \/ outbox'[v] = revision + 1 /\ revision' = revision + 1
    <3>1. ASSUME NEW w, outbox' = [outbox EXCEPT ![w] = 0]
          PROVE  outbox'[v] \in {0, outbox[v]}
      BY <1>1, <3>1
    <3>2. CASE outbox' = outbox
      BY <1>1, <3>2
    <3>3. CASE /\ revision' = revision + 1
               /\ \A w \in Vaults : outbox'[w] \in {outbox[w], revision + 1}
      BY <3>3
    <3>4. CASE outbox' = [outbox EXCEPT ![job[j].vault] = 0]
      BY <1>1, <3>1, <3>4
    <3> QED BY <3>2, <3>3, <3>4, OutboxMoves
  <2> QED BY <1>1, <1>2, <2>1, <2>2
<1>4. ASSUME NEW k \in Jobs, job'[k].op # "policy"
      PROVE  /\ job'[k].pc \in CallPcs \cup {"finish"} =>
                  job'[k].num <= revision'
             /\ job'[k].pc \in FlushPcs =>
                  \A t \in job'[k].tasks : t.revision <= revision'
  <2>1. CASE k # j
    <3>1. job'[k] = job[k] /\ job[k] \in JobRecords /\ Shape(job[k])
      BY <1>1, <2>1 DEF Arrivals, JobTypes
    <3>2. job[k].num \in Nat
      BY <3>1 DEF JobRecords
    <3>3. job[k].pc \in FlushPcs => job[k].tasks \subseteq RowTasks
      BY <1>4, <3>1 DEF Shape
    <3> QED BY <1>1, <1>2, <1>4, <3>1, <3>2, <3>3 DEF RevisionsDrawn, RowTasks
  <2>2. ASSUME k = j, r.pc \in FlushPcs, r.op # "policy",
               s.tasks \subseteq r.tasks
        PROVE  s.tasks \subseteq RowTasks
                 /\ \A t \in s.tasks : t.revision <= revision
    BY <1>1, <2>2 DEF RevisionsDrawn, Shape
  <2>3. ASSUME k = j, s.pc \in FlushPcs
        PROVE  /\ s.tasks \subseteq RowTasks
               /\ \A t \in s.tasks : t.revision <= revision
               /\ s.pc \in CallPcs \cup {"finish"} => s.num <= revision
    <3>1. s.op # "policy"
      BY <1>4, <2>3
    <3>2. CASE s.pc = "call"
      <4>1. ASSUME ListRefreshes(j)
            PROVE  s.tasks \subseteq Rows
        <5>1. PICK taken \in SUBSET Rows :
                IF taken = {} THEN job' = [job EXCEPT ![j] = Idle]
                ELSE job' = [job EXCEPT ![j].pc = "call", ![j].tasks = taken]
          BY <4>1 DEF ListRefreshes, Done
        <5>2. CASE taken = {}
          <6>1. s = Idle
            BY <5>1, <5>2, <1>1, MoveTo
          <6>2. Idle.pc = "idle"
            BY DEF Idle
          <6> QED BY <3>2, <6>1, <6>2
        <5>3. CASE taken # {}
          BY <5>1, <5>3, <1>1 DEF JobTypes, JobRecords
        <5> QED BY <5>2, <5>3
      <4>2. \A t \in Rows : t \in RowTasks /\ t.revision <= revision
        BY <1>1 DEF Rows, RowTasks, RevisionsDrawn
      <4>3. CASE ListRefreshes(j)
        BY <3>2, <4>1, <4>2, <4>3 DEF CallPcs
      <4>4. CASE /\ r.pc \in FlushPcs /\ s.op = r.op
                 /\ s.tasks \subseteq r.tasks
        BY <2>2, <2>3, <3>1, <3>2, <4>4 DEF CallPcs
      <4> QED BY <3>2, <4>3, <4>4 DEF Arrivals
    <3>3. CASE s.pc = "snapshot"
      <4>1. CASE CallCoordinator(j)
        <5>1. r.pc = "call"
          BY <4>1 DEF CallCoordinator, At
        <5>2. r.op # "policy" /\ r.pc \in FlushPcs
          BY <1>1, <5>1 DEF Shape, FlushPcs, PolicyPcs, CallPcs
        <5>3. PICK t \in r.tasks :
                job' = [job EXCEPT ![j].pc = "snapshot",
                          ![j].vault = t.vault, ![j].num = t.revision,
                          ![j].tasks = @ \ {t}]
          BY <4>1 DEF CallCoordinator
        <5>4. s.num = t.revision /\ s.tasks = r.tasks \ {t}
          BY <1>1, <5>3 DEF JobTypes, JobRecords
        <5>5. t.revision <= revision
          BY <5>2 DEF RevisionsDrawn
        <5> QED BY <2>2, <2>3, <5>2, <5>4, <5>5
      <4>2. CASE CallPolicy(j)
        <5>1. r.op = "policy"
          BY <1>1, <4>2 DEF CallPolicy, At, Shape, PolicyPcs
        <5>2. PICK v \in r.tasks :
                job' = [job EXCEPT ![j].pc = "snapshot", ![j].vault = v,
                          ![j].tasks = @ \ {v}]
          BY <4>2 DEF CallPolicy
        <5>3. s.op = r.op
          BY <1>1, <5>2 DEF JobTypes, JobRecords
        <5> QED BY <3>1, <5>1, <5>3
      <4> QED BY <3>3, <4>1, <4>2 DEF Arrivals
    <3>4. CASE s.pc \in {"suspension", "apply", "finish"}
      <4>1. /\ s.op = r.op /\ s.num = r.num /\ s.tasks = r.tasks
            /\ r.pc \in CallPcs
        <5>1. CASE ReadVersions(j)
          <6>1. PICK n : job' = [job EXCEPT ![j].pc = "suspension",
                                            ![j].versions = n]
            BY <5>1 DEF ReadVersions
          <6> QED BY ZenonT(90), <5>1, <6>1, <1>1
                  DEF ReadVersions, At, CallPcs, JobTypes, JobRecords
        <5>2. CASE ReadSuspension(j)
          <6>1. PICK b : job' = [job EXCEPT ![j].pc = "apply",
                                            ![j].suspended = b]
            BY <5>2 DEF ReadSuspension
          <6> QED BY <5>2, <6>1, <1>1
                  DEF ReadSuspension, At, CallPcs, JobTypes, JobRecords
        <5>3. CASE ApplyRefresh(j)
          <6>1. PICK x : job' = [job EXCEPT ![j].pc = x,
                             ![j].versions = <<>>, ![j].suspended = FALSE]
            BY <5>3 DEF ApplyRefresh
          <6> QED BY <5>3, <6>1, <1>1
                  DEF ApplyRefresh, At, CallPcs, JobTypes, JobRecords
        <5> QED BY ZenonT(90), <3>4, <5>1, <5>2, <5>3 DEF Arrivals
      <4>2. r.num <= revision
        BY <3>1, <4>1 DEF RevisionsDrawn
      <4> QED BY <2>2, <2>3, <3>1, <4>1, <4>2 DEF FlushPcs
    <3> QED BY <2>3, <3>2, <3>3, <3>4 DEF FlushPcs, CallPcs
  <2>4. CASE k = j
    <3>1. s.num \in Nat /\ \A t \in RowTasks : t.revision \in Nat
      BY <1>1 DEF JobRecords, RowTasks
    <3>2. CallPcs \cup {"finish"} \subseteq FlushPcs
      BY DEF FlushPcs
    <3>. HIDE DEF r, s
    <3>3. s.pc \in FlushPcs =>
            /\ s.tasks \subseteq RowTasks
            /\ \A t \in s.tasks : t.revision <= revision
            /\ s.pc \in CallPcs \cup {"finish"} => s.num <= revision
      BY <2>3, <2>4
    <3>4. ASSUME s.pc \in CallPcs \cup {"finish"} PROVE s.num <= revision'
      BY <1>1, <1>2, <3>1, <3>2, <3>3, <3>4
    <3>5. ASSUME s.pc \in FlushPcs, NEW t \in s.tasks
          PROVE  t.revision <= revision'
      BY <1>1, <1>2, <3>1, <3>3, <3>5
    <3> QED BY <2>4, <3>4, <3>5 DEF s
  <2> QED BY <2>1, <2>4
<1> QED BY <1>3, <1>4 DEF RevisionsDrawn

\* Only a removal makes a pass stale.
LEMMA StaleStays ==
  ASSUME TypeInv, KeyInv, PassesRead, NEW j \in Jobs, Writers(j),
         NEW p \in Passes, Stale(p)',
         ~(RemoveOrganizationMember(j) /\ Exists(p.vault))
  PROVE  Stale(p)
<1>. DEFINE v == p.vault
            u == p.user
<1>1. p \in PassTypes
  BY PassesTyped
<1>2. v \in Vaults /\ u \in Users /\ p.version \in Nat
      /\ grant[v][u].version \in Nat
  BY <1>1 DEF PassTypes, TypeInv, TypeOK
<1>3. /\ vault[v].state # "unused"
      /\ Exists(v) /\ grant[v][u].status \in {"none", "revoked"} =>
           p.version < grant[v][u].version
  BY DEF PassesRead
<1>4. ~coordinator[v].erased
  BY <1>2, ErasedStays DEF Stale
<1>5. p.version < grant'[v][u].version
  BY DEF Stale
<1>6. p.version < grant[v][u].version
  <2>. HIDE DEF v, u
  <2>1. ~(RemoveOrganizationMember(j) /\ Exists(v))
    BY DEF v
  <2>2. \/ grant'[v][u].version = grant[v][u].version
        \/ Exists(v) /\ grant[v][u].status \in {"none", "revoked"}
        \/ grant'[v][u].version = 0
    BY <1>2, <1>3, <2>1, VersionMoves
  <2> QED BY <1>2, <1>3, <1>5, <2>2
<1> QED BY <1>4, <1>6 DEF Stale

\* The coordinator does not forget before the time.
LEMMA BarredStays ==
  ASSUME TypeInv, NEW j \in Jobs, Writers(j), NEW p \in PassTypes,
         Barred(p), ~coordinator'[p.vault].erased
  PROVE  Barred(p)'
<1>. DEFINE v == p.vault
            u == p.user
            e == revocation[v][u]
            Entries == [min : Nat, expires : Nat]
<1>0. /\ v \in Vaults /\ u \in Users /\ p.version \in Nat /\ p.read \in Nat
      /\ revocation \in [Vaults -> [Keys -> Entries]] /\ now \in Nat
  BY DEF PassTypes, TypeInv, TypeOK
<1>a. u \in Keys /\ u # VaultKey /\ Lifetime \in Nat
  BY <1>0, StoreAssumptions DEF Keys
<1>1. /\ v \in Vaults /\ u \in Users /\ p.version \in Nat /\ p.read \in Nat
      /\ revocation \in [Vaults -> [Keys -> Entries]] /\ now \in Nat
      /\ Lifetime \in Nat /\ u \in Keys /\ u # VaultKey /\ e \in Entries
  BY <1>0, <1>a
<1>2. now' = now
  BY DEF Writers
<1>3. CASE p.read + Lifetime <= now
  BY <1>2, <1>3 DEF Barred
<1>4. CASE revocation'[v][u] = e
  BY <1>2, <1>4 DEF Barred
<1>5. CASE EraseState(j) /\ revocation'[v][u] # e
  <2>1. v = job[j].vault
    BY <1>1, <1>5 DEF EraseState
  <2>2. coordinator'[v].erased
    BY <1>1, <1>5, <2>1 DEF EraseState, TypeInv, CoordinatorTypes
  <2> QED BY <2>2
<1>6. CASE ApplyRefresh(j) /\ revocation'[v][u] # e /\ p.read + Lifetime > now
  <2>. DEFINE n == revocation'[v][u]
  <2>1. e.min > p.version /\ e.expires >= p.read + Lifetime
    BY <1>6, <1>1 DEF Barred
  <2>2. InForce(e)
    BY <1>1, <1>6, <2>1 DEF InForce
  <2>3. v = job[j].vault /\ job[j].versions \in [Users -> Nat]
    <3>1. v = job[j].vault
      BY ZenonT(90), <1>1, <1>6 DEF ApplyRefresh
    <3>2. job[j].pc = "apply" /\ Shape(job[j])
      BY <1>6 DEF ApplyRefresh, At, TypeInv, JobTypes
    <3> QED BY <3>1, <3>2 DEF Shape
  <2>. DEFINE seen == job[j].versions
              until == now + Lifetime
              Larger(a, b) == IF a > b THEN a ELSE b
  <2>4. n = IF seen[u] > 1
            THEN [min |-> Larger(seen[u], e.min),
                  expires |-> Larger(until, e.expires)]
            ELSE e
    <3>. HIDE DEF e
    <3>1. revocation'[v] = [k \in Keys |->
            IF k = VaultKey
            THEN IF job[j].suspended THEN [min |-> 0, expires |-> until]
                 ELSE NoRevocation
            ELSE IF seen[k] > 1
            THEN [min |-> Larger(seen[k], (IF InForce(revocation[v][k])
                            THEN revocation[v][k] ELSE NoRevocation).min),
                  expires |-> Larger(until, (IF InForce(revocation[v][k])
                            THEN revocation[v][k] ELSE NoRevocation).expires)]
            ELSE IF InForce(revocation[v][k]) THEN revocation[v][k]
                 ELSE NoRevocation]
      BY <1>1, <1>6, <2>3 DEF ApplyRefresh
    <3>2. InForce(revocation[v][u]) /\ e = revocation[v][u]
      BY <2>2 DEF e
    <3>. HIDE DEF seen, until, Larger, v, u
    <3> QED BY ZenonT(90), <1>1, <3>1, <3>2
  <2>5. seen[u] \in Nat /\ until \in Nat /\ e.min \in Nat /\ e.expires \in Nat
    BY <1>1, <2>3
  <2>. HIDE DEF n, e, seen, until
  <2>6. n.min >= e.min /\ n.expires >= e.expires
        /\ n.min \in Nat /\ n.expires \in Nat
    BY <2>4, <2>5
  <2>7. n.min > p.version /\ n.expires >= p.read + Lifetime
    BY <1>1, <2>1, <2>5, <2>6
  <2> QED BY <2>7 DEF n, Barred
<1> QED
  BY <1>1, <1>3, <1>4, <1>5, <1>6 DEF Writers

\* A stale pass was a stale pass before, unless a member was removed.
LEMMA StalePasses ==
  ASSUME TypeInv, KeyInv, PassesRead, NEW j \in Jobs, Writers(j), Arrivals(j),
         NEW p \in Passes', Stale(p)',
         ~(RemoveOrganizationMember(j) /\ Exists(p.vault))
  PROVE  p \in Passes /\ Stale(p)
<1>1. ASSUME NEW u \in Users, NEW v \in Vaults, StartIssueToken(j, u, v),
             p = Pass(u, v, grant[v][u].version, now)
      PROVE  FALSE
  <2>1. /\ p.user = u /\ p.vault = v /\ p.version = grant[v][u].version
        /\ grant[v][u].version \in Nat
    BY <1>1 DEF Pass, TypeInv, TypeOK
  <2>2. grant' = grant
    BY <1>1, IssueReads
  <2> QED BY <2>1, <2>2 DEF Stale
<1>2. p \in Passes
  BY <1>1, PassesStep
<1> QED BY <1>2, StaleStays

LEMMA TokenPass ==
  ASSUME NEW t \in tokens
  PROVE  /\ PassOf(t) \in Passes
         /\ PassOf(t).user = t.user /\ PassOf(t).vault = t.vault
         /\ PassOf(t).version = t.version /\ PassOf(t).read = t.read
BY DEF Passes, PassOf, Pass

\* A socket is accepted for nothing that is barred.
LEMMA SocketsStep ==
  ASSUME TypeInv, NEW j \in Jobs, Writers(j), NEW t \in sessions',
         t \notin sessions, Timely(t)
  PROVE  t \in tokens /\ ~Barred(PassOf(t))
<1>1. AcceptSocket(j) /\ t = job[j].ref
  BY DEF Writers, AcceptSocket, ApplyRefresh, CloseForPurge
<1>2. t \in tokens /\ Admits(t.vault, t)
  BY <1>1 DEF AcceptSocket, TypeInv, ConnectRefs, At
<1>3. /\ t.user \in Users /\ t.vault \in Vaults /\ t.version \in Nat
      /\ t.read \in Nat /\ t.expires \in Nat /\ now \in Nat
      /\ revocation[t.vault][t.user] \in [min : Nat, expires : Nat]
      /\ Lifetime \in Nat
  <2>1. t \in tokens
    BY <1>2
  <2>2. t.user \in Users /\ t.vault \in Vaults /\ t.version \in Nat
        /\ t.read \in Nat /\ t.expires \in Nat
    BY <2>1, TokenTyped
  <2>3. t.user \in Keys
    BY <2>2 DEF Keys
  <2>4. revocation[t.vault][t.user] \in [min : Nat, expires : Nat] /\ now \in Nat
    BY ZenonT(90), <2>2, <2>3, EntryTyped
  <2> QED BY ZenonT(90), <2>2, <2>4, LifetimePositive
<1>4. t.expires > now /\ t.expires <= t.read + Lifetime
  BY <1>2 DEF Admits, ValidToken, Timely
<1>5. ~(/\ revocation[t.vault][t.user].expires > now
        /\ t.version < revocation[t.vault][t.user].min)
  BY <1>2 DEF Admits, Denied, InForce
<1>6. ~Barred(PassOf(t))
  BY <1>2, <1>3, <1>4, <1>5, TokenPass DEF Barred
<1> QED BY ZenonT(90), <1>2, <1>6

LEMMA ClosedStep ==
  ASSUME TypeInv, KeyInv, PassesRead, NEW j \in Jobs, Writers(j), Arrivals(j),
         TypeInv', NEW v \in Vaults, Closed(v),
         ~(RemoveOrganizationMember(j) /\ Exists(v))
  PROVE  Closed(v)'
<1>1. ASSUME NEW p \in Passes', p.vault = v, Stale(p)'
      PROVE  Barred(p)'
  <2>1. p \in Passes /\ Stale(p)
    BY <1>1, StalePasses
  <2>2. Barred(p) /\ p \in PassTypes
    BY <1>1, <2>1, PassesTyped DEF Closed
  <2> QED BY <1>1, <2>2, BarredStays DEF Stale
<1>2. ASSUME NEW t \in sessions', t.vault = v, Timely(t), Stale(t)'
      PROVE  FALSE
  <2>1. t \in tokens
    <3>1. CASE t \in sessions
      BY <3>1 DEF TypeInv, TypeOK
    <3>2. CASE t \notin sessions
      BY <1>2, <3>2, SocketsStep
    <3> QED BY <3>1, <3>2
  <2>. DEFINE p == PassOf(t)
  <2>2. /\ p \in Passes /\ p.user = t.user /\ p.vault = t.vault
        /\ p.version = t.version
    BY <2>1, TokenPass
  <2>3. Stale(p)'
    BY <1>2, <2>2 DEF Stale
  <2>4. Stale(p)
    <3>. HIDE DEF p
    <3> QED BY <1>2, <2>2, <2>3, StaleStays
  <2>5. Stale(t)
    BY <2>2, <2>4 DEF Stale
  <2>6. t \notin sessions
    BY <1>2, <2>5 DEF Closed
  <2>7. ~Barred(p)
    BY <1>2, <2>6, SocketsStep
  <2>. HIDE DEF p
  <2> QED BY <1>2, <2>2, <2>4, <2>7 DEF Closed
<1> QED
  <2>1. \A p \in Passes' : p.vault = v /\ Stale(p)' => Barred(p)'
    BY <1>1
  <2>2. \A t \in sessions' : t.vault = v /\ Timely(t) => ~Stale(t)'
    BY <1>2
  <2>3. \A t \in sessions' : Timely(t)' <=> Timely(t)
    BY DEF Timely
  <2> QED BY <2>1, <2>2, <2>3 DEF Closed

\* The refresh closes the vault to everybody whose version it has seen rise.
LEMMA ApplyCloses ==
  ASSUME TypeInv, PassesRead, NEW j \in Jobs, Writers(j), Arrivals(j),
         ApplyRefresh(j), TypeInv',
         \A p \in Passes : p.vault = job[j].vault /\ Stale(p) =>
                             p.version < job[j].versions[p.user]
  PROVE  Closed(job[j].vault)'
<1>. DEFINE v == job[j].vault
            seen == job[j].versions
            Entries == [min : Nat, expires : Nat]
            E(u) == revocation'[v][u]
<1>1. job[j].pc = "apply" /\ Shape(job[j])
  BY DEF ApplyRefresh, At, TypeInv, JobTypes
<1>2. v \in Vaults /\ seen \in [Users -> Nat]
  BY <1>1 DEF Shape, VaultPcs, CallPcs
<1>3. /\ revocation \in [Vaults -> [Keys -> Entries]] /\ now \in Nat
      /\ revocation' \in [Vaults -> [Keys -> Entries]]
  <2>1. (TypeInv => Remembers)'
    BY RemembersTyped, PTL
  <2> QED BY ZenonT(90), <2>1, RemembersTyped DEF Remembers
<1>4. Lifetime \in Nat \ {0} /\ VaultKey \notin Users
  BY ZenonT(90), LifetimePositive
<1>5. /\ grant' = grant /\ coordinator' = coordinator /\ tokens' = tokens
      /\ now' = now
  BY DEF ApplyRefresh, rows, keyVars
<1>6. Passes' \subseteq Passes
  <2>. SUFFICES ASSUME NEW p \in Passes' PROVE p \in Passes
    OBVIOUS
  <2>1. ASSUME NEW u \in Users, NEW w \in Vaults, StartIssueToken(j, u, w)
        PROVE  FALSE
    BY <1>1, <2>1 DEF StartIssueToken, Start, Idle
  <2> QED BY <2>1, PassesStep
<1>7. ASSUME NEW u \in Users, seen[u] > 1
      PROVE  E(u).min >= seen[u] /\ E(u).expires >= now + Lifetime
  <2>. DEFINE old == IF InForce(revocation[v][u]) THEN revocation[v][u]
                     ELSE NoRevocation
  <2>1. old \in Entries
    BY <1>2, <1>3 DEF Keys, NoRevocation
  <2>2. E(u) = [min |-> IF seen[u] > old.min THEN seen[u] ELSE old.min,
                expires |-> IF now + Lifetime > old.expires
                            THEN now + Lifetime ELSE old.expires]
    <3>1. u \in Keys /\ u # VaultKey
      BY ZenonT(90), <1>4 DEF Keys
    <3>2. revocation'[v] = [k \in Keys |->
            IF k = VaultKey
            THEN IF job[j].suspended
                 THEN [min |-> 0, expires |-> now + Lifetime]
                 ELSE NoRevocation
            ELSE IF seen[k] > 1
            THEN [min |-> IF seen[k] > (IF InForce(revocation[v][k])
                            THEN revocation[v][k] ELSE NoRevocation).min
                          THEN seen[k] ELSE (IF InForce(revocation[v][k])
                            THEN revocation[v][k] ELSE NoRevocation).min,
                  expires |-> IF now + Lifetime >
                            (IF InForce(revocation[v][k])
                            THEN revocation[v][k] ELSE NoRevocation).expires
                          THEN now + Lifetime ELSE
                            (IF InForce(revocation[v][k])
                            THEN revocation[v][k] ELSE NoRevocation).expires]
            ELSE IF InForce(revocation[v][k]) THEN revocation[v][k]
                 ELSE NoRevocation]
      BY <1>2, <1>3 DEF ApplyRefresh
    <3>. HIDE DEF v, seen
    <3> QED BY <1>7, <3>1, <3>2
  <2>3. /\ old.min \in Nat /\ old.expires \in Nat /\ seen[u] \in Nat
        /\ now + Lifetime \in Nat
    BY <1>2, <1>3, <1>4, <2>1
  <2>. HIDE DEF old, seen, E
  <2> QED BY <2>2, <2>3
<1>8. ASSUME NEW p \in Passes', p.vault = v, Stale(p)'
      PROVE  /\ p.version < E(p.user).min
             /\ E(p.user).expires >= p.read + Lifetime
             /\ E(p.user).expires >= now + Lifetime
  <2>1. p \in Passes /\ Stale(p) /\ p \in PassTypes
    BY <1>5, <1>6, <1>8, PassesTyped DEF Stale
  <2>2. /\ p.version < seen[p.user] /\ p.version >= 1 /\ p.read <= now
        /\ p.user \in Users /\ p.version \in Nat /\ p.read \in Nat
    BY <1>8, <2>1 DEF PassesRead, PassTypes
  <2>3. seen[p.user] \in Nat
    BY <1>2, <2>2
  <2>4. E(p.user).min \in Nat /\ E(p.user).expires \in Nat
    BY <1>2, <1>3, <2>2 DEF Keys
  <2>5. E(p.user).min >= seen[p.user] /\ E(p.user).expires >= now + Lifetime
    BY <1>7, <2>2, <2>3
  <2>. HIDE DEF seen, E
  <2> QED BY <1>3, <1>4, <2>2, <2>3, <2>4, <2>5
<1>9. ASSUME NEW p \in Passes', p.vault = v, Stale(p)'
      PROVE  Barred(p)'
  BY <1>8, <1>9 DEF Barred
<1>10. ASSUME NEW t \in sessions', t.vault = v, Timely(t), Stale(t)'
       PROVE  FALSE
  <2>1. t \in sessions /\ ~Denied(revocation'[v], t) /\ t \in tokens
    <3>1. t \in sessions /\ (t.vault = v => ~Denied(revocation'[v], t))
      BY <1>2, <1>3 DEF ApplyRefresh
    <3> QED BY ZenonT(90), <1>10, <3>1 DEF TypeInv, TypeOK
  <2>2. \E p \in Passes' : p = PassOf(t)
    BY <1>5, <2>1 DEF Passes
  <2>3. PICK p \in Passes' : p = PassOf(t)
    BY <2>2
  <2>4. /\ p.user = t.user /\ p.vault = t.vault /\ p.version = t.version
    BY <2>1, <2>3, TokenPass
  <2>5. Stale(p)'
    BY <1>10, <2>4 DEF Stale
  <2>6. t.version < E(t.user).min /\ E(t.user).expires >= now + Lifetime
    <3>1. p.vault = v
      BY <1>10, <2>4
    <3>2. /\ p.version < E(p.user).min
          /\ E(p.user).expires >= now + Lifetime
      BY <1>8, <2>5, <3>1
    <3> QED BY <2>4, <3>2
  <2>7. E(t.user).expires \in Nat
    <3>1. t.user \in Keys
      BY <2>1 DEF TypeInv, TypeOK, Keys
    <3> QED BY <1>2, <1>3, <3>1
  <2>8. E(t.user).expires > now
    <3>1. PICK x \in Nat : x = E(t.user).expires /\ x >= now + Lifetime
      BY <2>6, <2>7
    <3>2. now \in Nat /\ Lifetime \in Nat \ {0}
      BY <1>3, <1>4
    <3>3. x > now
      BY <3>1, <3>2
    <3> QED BY <3>1, <3>3
  <2> QED BY <1>5, <2>1, <2>6, <2>8 DEF Denied, InForce
<1> QED
  <2>1. \A p \in Passes' : p.vault = v /\ Stale(p)' => Barred(p)'
    BY <1>9
  <2>2. \A t \in sessions' : t.vault = v /\ Timely(t) => ~Stale(t)'
    BY <1>10
  <2>3. \A t \in sessions' : Timely(t)' <=> Timely(t)
    BY DEF Timely
  <2>4. job'[j].vault = v
    <3>1. PICK x : job' = [job EXCEPT ![j].pc = x, ![j].versions = <<>>,
                                      ![j].suspended = FALSE]
      BY DEF ApplyRefresh
    <3> QED BY ZenonT(90), <3>1 DEF TypeInv, JobTypes, JobRecords
  <2> QED BY <2>1, <2>2, <2>3, <2>4 DEF Closed

LEMMA RevokedStep ==
  ASSUME TypeInv, KeyInv, RevokedInv, NEW j \in Jobs, Writers(j),
         Arrivals(j), TypeInv'
  PROVE  Revoked'
<1>. DEFINE r == job[j]
<1>1. /\ outbox \in [Vaults -> Nat] /\ revision \in Nat
      /\ JobTypes /\ r \in JobRecords /\ Shape(r)
      /\ PassesRead /\ RevisionsDrawn /\ Revoked
  BY DEF TypeInv, TypeOK, JobTypes, RevokedInv
\* 1. The vaults.
<1>2. ASSUME NEW v \in Vaults, outbox'[v] = 0
      PROVE  Closed(v)'
  <2>1. ~(RemoveOrganizationMember(j) /\ Exists(v))
    BY <1>1, <1>2, OutboxMoves
  <2>2. CASE Closed(v)
    BY <1>1, <2>1, <2>2, ClosedStep
  <2>3. CASE outbox[v] # 0
    <3>1. \/ FinishRefresh(j) /\ Clears(j) /\ v = r.vault
          \/ HardDeleteVault(j) /\ v = r.vault
      <4>1. ASSUME outbox' = [outbox EXCEPT ![r.vault] = 0]
            PROVE  v = r.vault
        BY <1>1, <1>2, <2>3, <4>1
      <4> QED BY <1>1, <1>2, <2>3, <4>1, OutboxMoves
    <3>2. CASE FinishRefresh(j) /\ Clears(j) /\ v = r.vault
      <4>1. At(j, "finish") /\ r.op # "policy"
        BY <1>1, <3>2 DEF FinishRefresh, At, Shape, PolicyPcs, CallPcs
      <4>2. Closed(v)
        BY <1>1, <3>2, <4>1 DEF Revoked
      <4> QED BY <1>1, <2>1, <4>2, ClosedStep
    <3>3. CASE HardDeleteVault(j) /\ v = r.vault
      <4>1. \A u \in Users : grant'[v][u].version = 0
        BY <3>3 DEF HardDeleteVault, TypeInv, TypeOK
      <4>2. Passes' \subseteq PassTypes
        <5>1. TypeInv => Passes \subseteq PassTypes
          BY PassesTyped
        <5>2. (TypeInv => Passes \subseteq PassTypes)'
          BY PassesTyped, PTL
        <5> QED BY <5>2 DEF PassTypes
      <4>3. ASSUME NEW p \in Passes', p.vault = v, Stale(p)'
            PROVE  FALSE
        BY <4>1, <4>2, <4>3 DEF Stale, PassTypes
      <4>4. ASSUME NEW t \in sessions', t.vault = v, Stale(t)'
            PROVE  FALSE
        <5>1. t.user \in Users /\ t.version \in Nat
          <6>1. (TypeInv => Socketed)'
            BY SocketsTyped, PTL
          <6> QED BY ZenonT(90), <6>1 DEF Socketed
        <5> QED BY <4>1, <4>4, <5>1 DEF Stale
      <4>5. \A p \in Passes' : p.vault = v => ~Stale(p)'
        BY <4>3
      <4>6. \A t \in sessions' : t.vault = v => ~Stale(t)'
        BY <4>4
      <4> QED BY <4>5, <4>6 DEF Closed
    <3> QED BY <3>1, <3>2, <3>3
  <2> QED BY <1>1, <2>2, <2>3 DEF Revoked
\* 2. The refreshes in progress.
<1>3. ASSUME NEW k \in Jobs \ {j}, job'[k].op # "policy", Clears(k)',
             job'[k].pc \in {"suspension", "apply", "finish"}
      PROVE  /\ job'[k] = job[k] /\ Clears(k) /\ job[k].vault \in Vaults
             /\ ~(RemoveOrganizationMember(j) /\ Exists(job[k].vault))
  <2>. DEFINE v == job[k].vault
              n == job[k].num
  <2>1. job'[k] = job[k] /\ job[k] \in JobRecords /\ Shape(job[k])
    BY <1>1, <1>3 DEF Arrivals, JobTypes
  <2>2. v \in Vaults /\ n \in Nat
    BY <1>3, <2>1 DEF Shape, VaultPcs, CallPcs, JobRecords
  <2>3. n <= revision
    BY <1>1, <1>3, <2>1 DEF RevisionsDrawn, CallPcs
  <2>4. outbox'[v] = n /\ n # 0
    BY <1>3, <2>1 DEF Clears
  <2>. HIDE DEF v, n
  <2>5. outbox'[v] # revision + 1 /\ outbox'[v] # 0
    BY <1>1, <2>2, <2>3, <2>4
  <2>6. ~(RemoveOrganizationMember(j) /\ Exists(v))
    BY <2>2, <2>5, OutboxMoves
  <2>7. outbox'[v] = outbox[v]
    <3>1. ASSUME NEW w, outbox' = [outbox EXCEPT ![w] = 0]
          PROVE  outbox'[v] \in {0, outbox[v]}
      BY <1>1, <2>2, <3>1
    <3>2. CASE outbox' = outbox
      BY <3>2
    <3>3. CASE \A w \in Vaults : outbox'[w] \in {outbox[w], revision + 1}
      BY <2>2, <2>5, <3>3
    <3>4. CASE outbox' = [outbox EXCEPT ![job[j].vault] = 0]
      BY <2>5, <3>1, <3>4
    <3> QED BY <3>2, <3>3, <3>4, OutboxMoves
  <2> QED BY <2>1, <2>2, <2>4, <2>6, <2>7 DEF Clears, v, n
<1>4. ASSUME NEW k \in Jobs, job'[k].op # "policy", Clears(k)',
             job'[k].pc \in {"suspension", "apply"},
             NEW p \in Passes', p.vault = job'[k].vault, Stale(p)'
      PROVE  p.version < job'[k].versions[p.user]
  <2>1. CASE k # j
    <3>1. /\ job'[k] = job[k] /\ Clears(k)
          /\ ~(RemoveOrganizationMember(j) /\ Exists(p.vault))
      BY <1>3, <1>4, <2>1
    <3>2. p \in Passes /\ Stale(p)
      BY <1>1, <1>4, <3>1, StalePasses
    <3> QED BY <1>1, <1>4, <3>1, <3>2 DEF Revoked
  <2>2. CASE k = j /\ ReadVersions(j)
    <3>. DEFINE seen == [u \in Users |-> grant[r.vault][u].version]
    <3>1. job' = [job EXCEPT ![j].pc = "suspension", ![j].versions = seen]
      BY <2>2 DEF ReadVersions
    <3>. HIDE DEF seen
    <3>2. job'[j].versions = seen /\ job'[j].vault = r.vault
      BY <1>1, <3>1 DEF JobTypes, JobRecords
    <3>3. grant' = grant /\ ~RemoveOrganizationMember(j)
      BY <2>2 DEF ReadVersions, rows, keyVars, RemoveOrganizationMember, At
    <3>4. p \in PassTypes
      BY <1>1, <1>4, <3>3, StalePasses, PassesTyped
    <3>5. p.version < grant[r.vault][p.user].version /\ p.user \in Users
      BY <1>4, <2>2, <3>2, <3>3, <3>4 DEF Stale, PassTypes
    <3> QED BY <2>2, <3>2, <3>5 DEF seen
  <2>3. CASE k = j /\ ReadSuspension(j)
    <3>1. PICK b : job' = [job EXCEPT ![j].pc = "apply", ![j].suspended = b]
      BY <2>3 DEF ReadSuspension
    <3>2. /\ job'[j].versions = r.versions /\ job'[j].vault = r.vault
          /\ job'[j].num = r.num /\ job'[j].op = r.op
      BY <1>1, <3>1 DEF JobTypes, JobRecords
    <3>3. /\ outbox' = outbox /\ r.pc = "suspension"
          /\ ~RemoveOrganizationMember(j)
      BY <2>3 DEF ReadSuspension, rows, outboxVars,
         RemoveOrganizationMember, At
    <3>4. Clears(j)
      BY <1>4, <2>3, <3>2, <3>3 DEF Clears
    <3>5. p \in Passes /\ Stale(p)
      BY <1>1, <1>4, <3>3, StalePasses
    <3> QED BY <1>1, <1>4, <2>3, <3>2, <3>3, <3>4, <3>5 DEF Revoked
  <2> QED BY <1>4, <2>1, <2>2, <2>3 DEF Arrivals
<1>5. ASSUME NEW k \in Jobs, job'[k].op # "policy", Clears(k)',
             job'[k].pc = "finish"
      PROVE  Closed(job[k].vault)' /\ job'[k].vault = job[k].vault
  <2>1. CASE k # j
    <3>1. /\ job'[k] = job[k] /\ Clears(k) /\ job[k].vault \in Vaults
          /\ ~(RemoveOrganizationMember(j) /\ Exists(job[k].vault))
      BY <1>3, <1>5, <2>1
    <3>2. Closed(job[k].vault)
      BY <1>1, <1>5, <3>1 DEF Revoked, At
    <3>. DEFINE v == job[k].vault
    <3>3. v \in Vaults /\ Closed(v)
          /\ ~(RemoveOrganizationMember(j) /\ Exists(v))
      BY <3>1, <3>2
    <3>4. job'[k].vault = v
      BY <3>1
    <3>. HIDE DEF v
    <3>5. PICK w \in Vaults : w = v
      BY <3>3
    <3>6. Closed(w)'
      BY <1>1, <3>3, <3>5, ClosedStep
    <3> QED BY <3>4, <3>5, <3>6 DEF v
  <2>2. CASE k = j
    <3>1. ApplyRefresh(j)
      BY ZenonT(90), <1>5, <2>2 DEF Arrivals
    <3>2. PICK x : job' = [job EXCEPT ![j].pc = x, ![j].versions = <<>>,
                                      ![j].suspended = FALSE]
      BY <3>1 DEF ApplyRefresh
    <3>3. /\ job'[j].vault = r.vault /\ job'[j].num = r.num
          /\ job'[j].op = r.op
      BY ZenonT(90), <1>1, <3>2 DEF JobTypes, JobRecords
    <3>4. outbox' = outbox /\ r.pc = "apply"
      BY <3>1 DEF ApplyRefresh, rows, outboxVars, At
    <3>5. Clears(j)
      BY <1>5, <2>2, <3>3, <3>4 DEF Clears
    <3>6. \A p \in Passes : p.vault = r.vault /\ Stale(p) =>
            p.version < r.versions[p.user]
      BY <1>1, <1>5, <2>2, <3>3, <3>4, <3>5 DEF Revoked
    <3> QED BY <1>1, <2>2, <3>1, <3>3, <3>6, ApplyCloses
  <2> QED BY <2>1, <2>2
<1> QED BY <1>2, <1>4, <1>5 DEF Revoked, At

\* Time, and clients that disconnect, only help.
LEMMA RevokedStill ==
  ASSUME TypeInv, RevokedInv, sessions' \subseteq sessions,
         now' = now \/ now' = now + 1,
         UNCHANGED <<grant, vault, outbox, revision, tokens, revocation,
                     coordinator, job>>
  PROVE  RevokedInv'
<1>1. now \in Nat /\ Lifetime \in Nat /\ Passes \subseteq PassTypes
  BY StoreAssumptions, PassesTyped DEF TypeInv, TypeOK
<1>2. Minting' = Minting
  BY DEF Minting, At
<1>3. Passes' = Passes
  BY <1>2 DEF Passes
<1>4. \A p : Stale(p)' <=> Stale(p)
  BY DEF Stale
<1>5. ASSUME NEW p \in Passes, Barred(p)
      PROVE  Barred(p)'
  <2>1. p.read \in Nat
    BY <1>1 DEF PassTypes
  <2>2. p.read + Lifetime <= now => p.read + Lifetime <= now'
    BY <1>1, <2>1
  <2> QED BY <1>5, <2>2 DEF Barred
<1>6. ASSUME NEW v, Closed(v)
      PROVE  /\ \A p \in Passes' : p.vault = v /\ Stale(p)' => Barred(p)'
             /\ \A t \in sessions' : t.vault = v /\ Timely(t)' => ~Stale(t)'
  <2>1. \A p \in Passes' : p.vault = v /\ Stale(p)' => Barred(p)'
    BY <1>3, <1>4, <1>5, <1>6 DEF Closed
  <2>2. \A t \in sessions' : t.vault = v /\ Timely(t)' => ~Stale(t)'
    BY <1>4, <1>6 DEF Closed, Timely
  <2> QED BY <2>1, <2>2
<1>7. PassesRead'
  <2>1. \A p \in Passes : p.read <= now => p.read <= now'
    BY <1>1 DEF PassTypes
  <2> QED BY <1>3, <2>1 DEF RevokedInv, PassesRead, Exists
<1>8. VersionsCount' /\ RevisionsDrawn'
  BY DEF RevokedInv, VersionsCount, RevisionsDrawn
<1>9. \A k \in Jobs : Clears(k)' <=> Clears(k)
  BY DEF Clears
<1>10. Revoked'
  <2>1. ASSUME NEW v \in Vaults, outbox[v] = 0
        PROVE  Closed(v)'
    BY <1>6, <2>1 DEF RevokedInv, Revoked, Closed
  <2>2. ASSUME NEW k \in Jobs, job[k].op # "policy", Clears(k)
        PROVE  /\ job[k].pc \in {"suspension", "apply"} =>
                    \A p \in Passes' : p.vault = job[k].vault /\ Stale(p)'
                                         => p.version < job[k].versions[p.user]
               /\ job[k].pc = "finish" => Closed(job[k].vault)'
    <3>1. job[k].pc \in {"suspension", "apply"} =>
            \A p \in Passes' : p.vault = job[k].vault /\ Stale(p)'
                                 => p.version < job[k].versions[p.user]
      BY <1>3, <1>4, <2>2 DEF RevokedInv, Revoked
    <3>2. ASSUME job[k].pc = "finish" PROVE Closed(job[k].vault)'
      <4>1. Closed(job[k].vault)
        BY <2>2, <3>2 DEF RevokedInv, Revoked, At
      <4> QED BY <1>6, <4>1 DEF Closed
    <3> QED BY <3>1, <3>2
  <2> QED BY <1>9, <2>1, <2>2 DEF Revoked, At
<1> QED BY <1>7, <1>8, <1>10 DEF RevokedInv

LEMMA RevokedInit ==
  ASSUME Init
  PROVE  RevokedInv
<1>1. PICK s \in Scenarios : Begin(s)
  BY DEF Init
<1>. USE <1>1, StoreAssumptions
<1>2. \A k \in Jobs : job[k] = Idle
  BY DEF Begin
<1>3. tokens = {} /\ sessions = {} /\ revision = 0
      /\ \A v \in Vaults : outbox[v] = 0
  BY DEF Begin
<1>4. \A v \in Vaults, u \in Users : grant[v][u] =
        IF v \in s.vaults /\ u \in s.keys
        THEN [status |-> "active", version |-> 1]
        ELSE [status |-> "none", version |-> 0]
  BY DEF Begin
<1>5. Minting = {}
  BY <1>2 DEF Minting, At, Idle
<1>6. Passes = {}
  BY <1>3, <1>5 DEF Passes
<1>7. VersionsCount
  BY <1>4 DEF VersionsCount
<1>8. RevisionsDrawn
  BY <1>2, <1>3 DEF RevisionsDrawn, Idle, FlushPcs, CallPcs
<1>9. Revoked
  BY <1>2, <1>3, <1>6 DEF Revoked, Closed, At, Idle
<1> QED BY <1>6, <1>7, <1>8, <1>9 DEF RevokedInv, PassesRead

LEMMA RevokedNext ==
  ASSUME TypeInv, TypeInv', KeyInv, RevokedInv, [Next]_vars
  PROVE  RevokedInv'
<1>1. CASE UNCHANGED vars
  BY <1>1, RevokedStill
     DEF vars, keyVars, outboxVars, accessVars
<1>2. CASE ClientStep \/ ProviderStep \/ Tick
  BY <1>2, OutsideStep, RevokedStill DEF keyVars, outboxVars, Tick
<1>3. ASSUME NEW j \in Jobs, StartRequest(j) \/ Step(j) \/ FaultOf(j)
      PROVE  RevokedInv'
  <2>1. Writers(j) /\ Arrivals(j)
    BY <1>3, JobWrites, JobMoves DEF TypeInv
  <2>2. PassesRead' /\ VersionsCount'
    BY <2>1, PassesReadStep, VersionsStep DEF RevokedInv
  <2>3. RevisionsDrawn'
    BY <2>1, DrawnStep DEF RevokedInv, TypeInv
  <2> QED BY <2>1, <2>2, <2>3, RevokedStep DEF RevokedInv
<1> QED BY <1>1, <1>2, <1>3 DEF Next

\* After a removal a refresh of the vault stays in the outbox until the
\* coordinator has closed the member's sockets and refuses the member's tokens
\* to their end: whatever other refreshes, lost replies, tokens being minted,
\* sockets being prepared, deletions and returns of the member come between.
THEOREM RevocationHolds == Spec => []RevokedStaysOut
<1>1. TypeInv /\ RevokedInv => RevokedStaysOut
  <2>. SUFFICES ASSUME TypeInv, RevokedInv, NEW t \in tokens, Timely(t),
                       Stale(t), outbox[t.vault] = 0
                PROVE  ShutOut(t)
    BY DEF RevokedStaysOut, Stale
  <2>1. t.vault \in Vaults /\ t.user \in Users
    BY DEF TypeInv, TypeOK
  <2>2. Closed(t.vault)
    BY <2>1 DEF RevokedInv, Revoked
  <2>. DEFINE p == PassOf(t)
              entry == revocation[t.vault][t.user]
  <2>3. /\ p \in Passes /\ p.vault = t.vault /\ p.user = t.user
        /\ p.version = t.version /\ p.read = t.read
    BY TokenPass
  <2>. HIDE DEF p
  <2>4. Barred(p)
    BY <2>2, <2>3 DEF Closed, Stale
  <2>5. /\ t.read \in Nat /\ t.expires \in Nat /\ now \in Nat
        /\ Lifetime \in Nat /\ entry \in [min : Nat, expires : Nat]
    BY <2>1, StoreAssumptions DEF TypeInv, TypeOK, Keys
  <2>6. \/ t.expires <= now
        \/ entry.min > t.version /\ entry.expires >= t.expires
    BY <2>3, <2>4, <2>5 DEF Barred, Timely
  <2>7. t \notin sessions
    BY <2>2 DEF Closed
  <2> QED BY <2>6, <2>7 DEF ShutOut
<1>2. TypeInv /\ TypeInv' /\ KeyInv /\ RevokedInv /\ [Next]_vars
        => RevokedInv'
  BY RevokedNext
<1> QED
  BY <1>1, <1>2, RevokedInit, RowsWellTyped, KeysFollowGrants, PTL DEF Spec

-----------------------------------------------------------------------------
(* 2. Suspension.  A shared vault whose plan no longer includes sharing is *)
(* uncovered; until its coordinator is shut, something is under way that   *)
(* will shut it.                                                           *)

Uncovered(v) == Suspended(v) /\ ~Lapsed(subscription)
                  /\ vault[v].purge # "failed"

\* The coordinator turns everybody away for as long as any token minted in
\* time is valid, and holds no socket of such a token.
Shut(v) ==
  /\ \A p \in Passes : p.vault = v =>
       revocation[v][VaultKey].expires >= p.read + Lifetime
  /\ \A t \in sessions : t.vault = v => ~Timely(t)

\* A flush about to clear the row of v that took the plan for one with sharing.
Misses(j, v) == /\ job[j].op # "policy" /\ job[j].vault = v /\ Clears(j)
                /\ At(j, "finish") \/ (At(j, "apply") /\ ~job[j].suspended)

RowAhead(v) == outbox[v] # 0 /\ \A k \in Jobs : ~Misses(k, v)

Underway(v) == \/ webhooks # {} \/ lost \/ PolicyToCome(v)
               \/ \E k \in Jobs : At(k, "notify")

Owed(v) == Underway(v) \/ RowAhead(v)

\* Also of a refresh that took the plan for one with sharing: what it undoes is
\* owed again.
Owing ==
  /\ \A v \in Vaults : Uncovered(v) => Owed(v) \/ Shut(v)
  /\ \A k \in Jobs :
       At(k, "apply") /\ ~job[k].suspended /\ Uncovered(job[k].vault)
         => Owed(job[k].vault)

\* A refresh between its awaits has the turn, at a vault that was created.
Turns ==
  \A k \in Jobs : job[k].pc \in {"suspension", "apply"} =>
    HasTurn(k) /\ vault[job[k].vault].state # "unused"

\* A message is with one consumer, and in its queue until that is done.
Deliveries ==
  /\ \A k \in Jobs : /\ job[k].op = "webhook" => job[k].ref \in webhooks
                     /\ job[k].op = "policy" => job[k].ref \in refreshes
  /\ \A k, l \in Jobs :
       k # l /\ job[k].op = job[l].op /\ job[k].op \in {"webhook", "policy"}
         => job[k].ref # job[l].ref
  /\ \A m, n \in refreshes : m.id = n.id => m = n

\* Its deletion was claimed.
Doomed(v) == vault[v].purge # "none" \/ vault[v].state = "gone"

\* What is deleted was claimed, and a claim is given back as a failure.
Claimed ==
  /\ \A v \in Vaults :
       /\ Live(v) => vault[v].purge \in {"none", "failed"}
       /\ vault[v].state = "unused" => vault[v].purge = "none"
       /\ vault[v].state = "deleted" => vault[v].purge # "none"
  /\ \A k \in Jobs :
       /\ job[k].pc \in {"mark running", "close", "erase", "enqueue"} =>
            Doomed(job[k].vault)
       /\ At(k, "claim") => vault[job[k].vault].state # "unused"
       /\ job[k].op = "purge" => Doomed(job[k].ref.vault)
  /\ \A m \in purges : Doomed(m.vault)

SuspensionInv == Owing /\ Turns /\ Deliveries /\ Claimed

LEMMA GotoKeeps ==
  ASSUME JobTypes, NEW j \in Jobs, NEW x, Goto(j, x)
  PROVE  /\ job'[j].op = job[j].op /\ job'[j].ref = job[j].ref
         /\ job'[j].vault = job[j].vault /\ job'[j].pc = x
BY DEF Goto, JobTypes, JobRecords

LEMMA DoneIdle ==
  ASSUME JobTypes, NEW j \in Jobs, job' = [job EXCEPT ![j] = Idle]
  PROVE  job'[j].op = "none" /\ job'[j].pc = "idle"
BY DEF Idle, JobTypes

\* What a step may do to a vault's row.
LEMMA RowMoves ==
  ASSUME TypeInv, NEW j \in Jobs, Writers(j), NEW v \in Vaults
  PROVE  LET r == vault[v]
             n == vault'[v]
         IN  \/ n = r
             \/ /\ AcceptInvitation(j) /\ r.state = "live" /\ n.state = "live"
                /\ n.purge = r.purge /\ outbox'[v] = revision + 1
             \/ /\ CreateVaultForUser(j) /\ r.state = "unused"
                /\ n.state = "live" /\ n.purge = "none"
             \/ r.state = "live" /\ n.state = "deleted" /\ n.purge = "queued"
             \/ Exists(v) /\ n.state = "live" /\ n.purge = "failed"
             \/ /\ r.state = "deleted" /\ n.state = "deleted"
                /\ n.purge \in {"running", "failed"}
             \/ n.state = "gone"
<1>. DEFINE r == vault[v]
            n == vault'[v]
            w == job[j].vault
<1>1. vault \in [Vaults ->
         [state : {"unused", "live", "deleted", "gone"},
          purge : {"none", "queued", "running", "failed"},
          shared : BOOLEAN]]
  BY DEF TypeInv, TypeOK
<1>2. CASE vault' = vault BY <1>2
<1>3. CASE AcceptInvitation(j) /\ vault' # vault
  <2>1. /\ vault' = [x \in Vaults |-> IF x \in {y \in Vaults : Live(y)}
                    THEN [vault[x] EXCEPT !.shared = TRUE] ELSE vault[x]]
        /\ QueueRefresh({y \in Vaults : Live(y)})
    BY <1>3 DEF AcceptInvitation
  <2>2. outbox'[v] = IF Live(v) THEN revision + 1 ELSE outbox[v]
    BY <2>1 DEF QueueRefresh
  <2>3. n = IF Live(v) THEN [r EXCEPT !.shared = TRUE] ELSE r
    BY <2>1
  <2>4. CASE Live(v)
    <3>1. n.state = r.state /\ n.purge = r.purge
      BY <1>1, <2>3, <2>4
    <3> QED BY <1>3, <2>2, <2>4, <3>1 DEF Live
  <2> QED BY <2>3, <2>4
<1>4. CASE CreateVaultForUser(j) /\ vault' # vault
  <2>1. PICK x \in Vaults : \E b :
          /\ vault[x].state = "unused"
          /\ vault' = [vault EXCEPT ![x] =
               [state |-> "live", purge |-> "none", shared |-> b]]
    BY <1>4 DEF CreateVaultForUser
  <2> QED BY <1>1, <1>4, <2>1
<1>5. ASSUME NEW x, Claim(x)
      PROVE  \/ n = r
             \/ r.state = "live" /\ n.state = "deleted" /\ n.purge = "queued"
  BY <1>1, <1>5 DEF Claim, Live
<1>6. CASE ClaimForDelete(j) \/ ClaimCandidate(j)
  BY <1>2, <1>5, <1>6 DEF ClaimForDelete, ClaimCandidate
<1>7. CASE RestoreVault(j)
  <2>1. vault' = IF Exists(w)
                 THEN [vault EXCEPT ![w].state = "live", ![w].purge = "failed"]
                 ELSE vault
    BY <1>7 DEF RestoreVault
  <2> QED BY <1>1, <2>1
<1>8. CASE MarkVaultPurgeRunning(j) \/ PurgeFails(j)
  <2>1. PICK p \in {"running", "failed"} : MarkPurge(w, p)
    BY <1>8 DEF MarkVaultPurgeRunning, PurgeFails
  <2> QED BY <1>1, <2>1 DEF MarkPurge
<1>9. CASE HardDeleteVault(j)
  <2>1. vault' = [vault EXCEPT ![w] =
                    [state |-> "gone", purge |-> "none", shared |-> FALSE]]
    BY <1>9 DEF HardDeleteVault
  <2> QED BY <1>1, <2>1
<1> QED BY <1>2, <1>3, <1>4, <1>6, <1>7, <1>8, <1>9 DEF Writers

\* A claim stays a claim.
LEMMA DoomedStays ==
  ASSUME TypeInv, Claimed, NEW j \in Jobs, Writers(j), NEW v \in Vaults
  PROVE  /\ Doomed(v) => Doomed(v)'
         /\ vault[v].state # "unused" => vault'[v].state # "unused"
BY RowMoves DEF Claimed, Doomed, Exists, Live

LEMMA ClaimedStep ==
  ASSUME TypeInv, Claimed, NEW j \in Jobs, Writers(j), Arrivals(j),
         JobTypes'
  PROVE  Claimed'
<1>. DEFINE r == job[j]
            s == job'[j]
            Later(v) == vault'[v].purge # "none" \/ vault'[v].state = "gone"
            Late == {"mark running", "close", "erase", "enqueue"}
<1>1. r \in JobRecords /\ Shape(r) /\ JobTypes
  BY DEF TypeInv, JobTypes
<1>a. \A v \in Vaults :
        /\ Doomed(v) => Later(v)
        /\ vault[v].state # "unused" => vault'[v].state # "unused"
  BY DoomedStays DEF Doomed
<1>. USE DEF At
<1>2. \A m \in purges : m.vault \in Vaults
  BY DEF TypeInv, TypeOK, Messages
<1>3. \A k \in Jobs :
        /\ job[k].pc \in Late \cup {"claim"} => job[k].vault \in Vaults
        /\ job[k].op = "purge" => job[k].ref.vault \in Vaults
  BY DEF TypeInv, JobTypes, Shape, VaultPcs, PurgePcs, Messages
\* 1. The vaults.
<1>4. ASSUME NEW v \in Vaults
      PROVE  /\ Live(v)' => vault'[v].purge \in {"none", "failed"}
             /\ vault'[v].state = "unused" => vault'[v].purge = "none"
             /\ vault'[v].state = "deleted" => vault'[v].purge # "none"
  BY RowMoves DEF Claimed, Live
\* 2. The jobs.
<1>5. ASSUME NEW k \in Jobs, k # j
      PROVE  /\ job'[k].pc \in Late => Later(job'[k].vault)
             /\ job'[k].pc = "claim" => vault'[job'[k].vault].state # "unused"
             /\ job'[k].op = "purge" => Later(job'[k].ref.vault)
  <2>1. job'[k] = job[k]
    BY <1>5 DEF Arrivals
  <2>2. ASSUME NEW v \in Vaults, Doomed(v)
        PROVE  Later(v)
    BY <1>a, <2>2
  <2>3. \A v \in Vaults : vault[v].state # "unused" =>
                            vault'[v].state # "unused"
    BY <1>a
  <2>4. job[k].pc \in Late => Later(job[k].vault)
    BY <1>3, <2>2 DEF Claimed, Doomed
  <2>5. job[k].op = "purge" => Later(job[k].ref.vault)
    BY <1>3, <2>2 DEF Claimed, Doomed
  <2> QED BY <1>3, <2>1, <2>3, <2>4, <2>5 DEF Claimed, Doomed
<1>6. ASSUME NEW m \in purges, ReceivePurge(j, m)
      PROVE  s.vault = m.vault /\ s.ref = m /\ s.pc = "mark running"
  <2>1. s = [Idle EXCEPT !.op = "purge", !.pc = "mark running",
                         !.vault = m.vault, !.ref = m]
    BY <1>1, <1>6 DEF ReceivePurge, JobTypes
  <2> QED BY <2>1 DEF Idle
<1>7. ASSUME ClaimForDelete(j)
      PROVE  Later(s.vault) /\ s.op = r.op /\ s.ref = r.ref
  <2>1. s.vault = r.vault /\ s.op = r.op /\ s.ref = r.ref
    BY <1>1, <1>7, GotoKeeps DEF ClaimForDelete
  <2>2. r.vault \in Vaults /\ vault[r.vault].state # "unused"
    BY <1>3, <1>7 DEF ClaimForDelete, Claimed
  <2>3. Later(r.vault)
    <3>1. Claim(r.vault)
      BY <1>7 DEF ClaimForDelete
    <3>2. CASE Live(r.vault)
      <4>1. vault'[r.vault].purge = "queued"
        BY <2>2, <3>1, <3>2 DEF Claim, TypeInv, TypeOK
      <4> QED BY <4>1 DEF Doomed
    <3>3. CASE ~Live(r.vault)
      <4>1. vault' = vault
        BY <3>1, <3>3 DEF Claim
      <4>2. vault[r.vault].state \in {"deleted", "gone"}
        BY <2>2, <3>3 DEF Live, TypeInv, TypeOK
      <4> QED BY <2>2, <4>1, <4>2 DEF Doomed, Claimed
    <3> QED BY <3>2, <3>3
  <2> QED BY <2>1, <2>3 DEF Doomed
<1>8. ASSUME ClaimCandidate(j), s.pc = "enqueue"
      PROVE  Later(s.vault)
  <2>1. PICK v \in r.tasks :
          /\ Claim(v)
          /\ job' = [job EXCEPT ![j].tasks = @ \ {v}, ![j].vault = v,
                       ![j].pc = IF Live(v) THEN "enqueue" ELSE @]
    <3>1. ~Done(j)
      BY <1>1, <1>8, DoneIdle DEF Done
    <3> QED BY <1>8, <3>1 DEF ClaimCandidate
  <2>2. s.vault = v /\ (Live(v) \/ s.pc = "scan")
    BY <1>1, <1>8, <2>1 DEF ClaimCandidate, JobTypes, JobRecords
  <2>3. Live(v) /\ v \in Vaults
    BY <1>1, <1>8, <2>2 DEF ClaimCandidate, Shape, FlushPcs, PolicyPcs
  <2>4. vault'[v].purge = "queued"
    BY <2>1, <2>3 DEF Claim, TypeInv, TypeOK
  <2> QED BY ZenonT(90), <2>2, <2>4 DEF Doomed
<1>9. ASSUME r.pc \in Late, NEW x, Goto(j, x)
      PROVE  Later(s.vault)
  <2>1. s.vault = r.vault
    BY <1>1, <1>9, GotoKeeps
  <2>2. r.vault \in Vaults /\ Doomed(r.vault)
    BY <1>3, <1>9 DEF Claimed
  <2> QED BY <1>a, <2>1, <2>2
<1>10. s.pc \in Late => Later(s.vault)
  <2>1. CASE s.pc = "enqueue"
    BY <1>7, <1>8, <2>1 DEF Arrivals
  <2>2. CASE s.pc = "mark running"
    <3>1. CASE ClaimForDelete(j)
      BY <1>7, <3>1
    <3>2. ASSUME NEW m \in purges, ReceivePurge(j, m)
          PROVE  Later(s.vault)
      <4>1. s.vault = m.vault /\ Doomed(m.vault)
        BY <1>6, <3>2 DEF Claimed
      <4> QED BY <1>2, <4>1, <1>a DEF Doomed
    <3> QED BY <2>2, <3>1, <3>2 DEF Arrivals
  <2>3. CASE s.pc = "close"
    BY <1>9, <2>3 DEF Arrivals, MarkVaultPurgeRunning
  <2>4. CASE s.pc = "erase"
    BY <1>9, <2>4 DEF Arrivals, CloseForPurge
  <2> QED BY <2>1, <2>2, <2>3, <2>4
<1>11. s.pc = "claim" => vault'[s.vault].state # "unused"
  <2>. SUFFICES ASSUME s.pc = "claim"
                PROVE  vault'[s.vault].state # "unused"
    OBVIOUS
  <2>1. PICK u \in Users, v \in Vaults, op \in {"delete", "inline"} :
          StartDeleteVault(j, u, v, op)
    BY DEF Arrivals
  <2>2. s = [Idle EXCEPT !.op = op, !.pc = "claim", !.vault = v]
    BY <1>1, <2>1 DEF StartDeleteVault, Start, JobTypes
  <2>3. s.vault = v
    BY <2>2 DEF Idle
  <2> QED BY <2>1, <2>3 DEF StartDeleteVault, MayManage, Live
<1>12. ASSUME s.op = "purge", Shape(s)
       PROVE  Later(s.ref.vault)
  <2>1. ASSUME NEW x, Goto(j, x)
        PROVE  r.op = "purge" /\ s.ref = r.ref
    BY <1>1, <1>12, <2>1, GotoKeeps
  <2>2. \/ r.op = "purge" /\ s.ref = r.ref
        \/ \E m \in purges : ReceivePurge(j, m)
    <3>1. s.pc \in {"mark running", "close", "erase", "hard delete", "notice",
                    "acknowledge"}
      BY <1>12 DEF Shape, PurgePcs
    <3>2. CASE MarkVaultPurgeRunning(j) \/ CloseForPurge(j) \/ EraseState(j)
                 \/ EnqueueNotice(j)
      BY <2>1, <3>2
         DEF MarkVaultPurgeRunning, CloseForPurge, EraseState, EnqueueNotice
    <3>3. CASE HardDeleteVault(j)
      <4>1. \/ \E x : Goto(j, x)
            \/ job' = [job EXCEPT ![j] = Idle]
        BY <3>3 DEF HardDeleteVault, Done
      <4> QED BY <1>1, <1>12, <2>1, <4>1, DoneIdle
    <3>4. CASE ClaimForDelete(j)
      <4>1. r.op = "purge" /\ s.ref = r.ref
        BY <1>7, <1>12, <3>4
      <4> QED BY <4>1
    <3> QED BY <3>1, <3>2, <3>3, <3>4 DEF Arrivals
  <2>3. CASE r.op = "purge" /\ s.ref = r.ref
    BY <1>3, <2>3, <1>a DEF Claimed, Doomed
  <2>4. CASE \E m \in purges : ReceivePurge(j, m)
    <3>1. PICK m \in purges : ReceivePurge(j, m)
      BY <2>4
    <3>2. s.ref = m /\ Doomed(m.vault)
      BY <1>6, <3>1 DEF Claimed
    <3> QED BY <1>2, <3>2, <1>a DEF Doomed
  <2> QED BY <2>2, <2>3, <2>4
\* 3. The queue.
<1>13. ASSUME NEW m \in purges'
       PROVE  \E v \in Vaults : m.vault = v /\ Doomed(v)
  <2>1. \A n \in purges : n.vault \in Vaults /\ Doomed(n.vault)
    BY <1>2 DEF Claimed
  <2>2. CASE EnqueuePurge(j)
    <3>1. m \in purges \/ m.vault = r.vault
      BY <1>13, <2>2 DEF EnqueuePurge
    <3>2. r.vault \in Vaults /\ Doomed(r.vault)
      BY <1>3, <2>2 DEF EnqueuePurge, Claimed
    <3> QED BY <2>1, <3>1, <3>2
  <2>3. CASE Acknowledge(j)
    BY <1>13, <2>1, <2>3 DEF Acknowledge
  <2>4. CASE PurgeFails(j) \/ ConsumerFails(j)
    <3>1. CASE r.op = "purge"
      <4>1. purges' = Retried(purges, r.ref)
        BY <2>4, <3>1 DEF PurgeFails, ConsumerFails, RedeliverPurge
      <4>2. m \in purges \/ m = [r.ref EXCEPT !.tries = @ + 1]
        BY <1>13, <4>1 DEF Retried
      <4>3. r.ref \in Messages
        BY <1>1, <3>1 DEF Shape
      <4>4. [r.ref EXCEPT !.tries = @ + 1].vault = r.ref.vault
        BY <4>3 DEF Messages
      <4>5. r.ref.vault \in Vaults /\ Doomed(r.ref.vault)
        BY <1>3, <3>1 DEF Claimed
      <4> QED BY <2>1, <4>2, <4>4, <4>5
    <3>2. CASE r.op # "purge"
      BY <1>13, <2>1, <2>4, <3>2 DEF PurgeFails, ConsumerFails
    <3> QED BY <3>1, <3>2
  <2> QED BY <1>13, <2>1, <2>2, <2>3, <2>4 DEF Writers
<1>14. \A m \in purges' : Later(m.vault)
  BY <1>13, <1>a DEF Doomed
<1>15. \A k \in Jobs :
         /\ job'[k].pc \in Late => Later(job'[k].vault)
         /\ job'[k].pc = "claim" => vault'[job'[k].vault].state # "unused"
         /\ job'[k].op = "purge" => Later(job'[k].ref.vault)
  <2>1. Shape(s)
    BY DEF JobTypes
  <2>2. s.op = "purge" => Later(s.ref.vault)
    BY <1>12, <2>1
  <2> QED BY <1>5, <1>10, <1>11, <2>2 DEF Doomed
<1> QED BY <1>4, <1>14, <1>15 DEF Claimed, Doomed

\* The turn passes on only when the refresh that has it ends.
LEMMA TurnsStep ==
  ASSUME TypeInv, Claimed, Turns, NEW j \in Jobs, Writers(j), Arrivals(j)
  PROVE  Turns'
<1>. DEFINE r == job[j]
            s == job'[j]
            Mine(k, x) == refreshTail[x] # <<>> /\ Head(refreshTail[x]) = k
            Later(k, x) == refreshTail'[x] # <<>> /\ Head(refreshTail'[x]) = k
<1>1. /\ r \in JobRecords /\ Shape(r) /\ JobTypes
      /\ refreshTail \in [Vaults -> Seq(Jobs)]
  BY DEF TypeInv, TypeOK, JobTypes
<1>. USE DEF At
<1>2. ASSUME NEW k \in Jobs \ {j}, job[k].pc \in {"suspension", "apply"}
      PROVE  /\ Later(k, job[k].vault)
             /\ vault'[job[k].vault].state # "unused"
  <2>. DEFINE v == job[k].vault
  <2>1. v \in Vaults
    BY <1>2 DEF TypeInv, JobTypes, Shape, VaultPcs, CallPcs
  <2>2. Mine(k, v) /\ vault[v].state # "unused"
    BY <1>2 DEF Turns, HasTurn
  <2>. HIDE DEF v
  <2>3. ASSUME refreshTail' = refreshTail PROVE Later(k, v)
    BY <2>2, <2>3
  <2>4. ASSUME NEW w, refreshTail' = [refreshTail EXCEPT ![w] = Append(@, j)]
        PROVE  Later(k, v)
    <3>1. CASE v = w
      <4>1. PICK q \in Seq(Jobs) : q = refreshTail[v]
        BY <1>1, <2>1
      <4>2. refreshTail'[v] = Append(q, j)
        BY <1>1, <2>1, <2>4, <3>1, <4>1
      <4>3. q # <<>> /\ Head(q) = k
        BY <2>2, <4>1
      <4>4. Append(q, j) # <<>> /\ Head(Append(q, j)) = Head(q)
        BY <4>1, <4>3
      <4> QED BY <4>2, <4>3, <4>4
    <3>2. CASE v # w
      <4>1. refreshTail'[v] = refreshTail[v]
        BY <1>1, <2>1, <2>4, <3>2
      <4> QED BY <2>2, <4>1
    <3> QED BY <3>1, <3>2
  <2>5. ASSUME CallCoordinator(j) \/ CallPolicy(j) PROVE Later(k, v)
    BY <2>4, <2>5 DEF CallCoordinator, CallPolicy
  <2>6. ASSUME HasTurn(j), LeaveTail(j)
        PROVE  Later(k, v)
    <3>1. r.vault # v
      BY <2>2, <2>6 DEF HasTurn
    <3>2. refreshTail'[v] = refreshTail[v]
      BY ZenonT(90), <1>1, <2>1, <2>6, <3>1 DEF LeaveTail
    <3> QED BY <2>2, <3>2
  <2>7. ASSUME SnapshotRefused(j) \/ RefreshFails(j) \/ ApplyRefresh(j)
        PROVE  Later(k, v)
    BY <2>6, <2>7
       DEF SnapshotRefused, RefreshFails, FailRefresh, ApplyRefresh
  <2>8. Later(k, v)
    BY <2>3, <2>5, <2>7 DEF Writers
  <2>9. vault'[v].state # "unused"
    BY <2>1, <2>2, DoomedStays
  <2> QED BY <2>8, <2>9 DEF v
<1>3. ASSUME ReadVersions(j) \/ ReadSuspension(j)
      PROVE  /\ Later(j, s.vault) /\ vault'[s.vault].state # "unused"
  <2>1. /\ HasTurn(j) /\ vault[r.vault].state # "unused"
        /\ refreshTail' = refreshTail /\ vault' = vault
    BY <1>3 DEF ReadVersions, ReadSuspension, Live, Turns, accessVars, rows
  <2>2. s.vault = r.vault
    <3>1. CASE ReadVersions(j)
      BY <1>1, <3>1 DEF ReadVersions, JobTypes, JobRecords
    <3>2. CASE ReadSuspension(j)
      BY <1>1, <3>2 DEF ReadSuspension, JobTypes, JobRecords
    <3> QED BY <1>3, <3>1, <3>2
  <2> QED BY <2>1, <2>2 DEF HasTurn
<1>4. ASSUME NEW k \in Jobs, job'[k].pc \in {"suspension", "apply"}
      PROVE  /\ Later(k, job'[k].vault)
             /\ vault'[job'[k].vault].state # "unused"
  BY <1>2, <1>3, <1>4 DEF Arrivals
<1> QED BY <1>4 DEF Turns, HasTurn

\* Where the consumer of a message has it from.
LEMMA SameMessage ==
  ASSUME TypeInv, NEW j \in Jobs, Arrivals(j), JobTypes',
         job'[j].op \in {"webhook", "policy"}
  PROVE  \/ job'[j].op = job[j].op /\ job'[j].ref = job[j].ref
         \/ /\ job'[j].op = "webhook"
            /\ \E w \in webhooks : ReceiveWebhook(j, w) /\ job'[j].ref = w
         \/ /\ job'[j].op = "policy"
            /\ job'[j].pc = "read plan"
            /\ \E m \in refreshes : ReceiveRefresh(j, m) /\ job'[j].ref = m
<1>. DEFINE r == job[j]
            s == job'[j]
<1>1. r \in JobRecords /\ Shape(r) /\ JobTypes /\ Shape(s)
  BY DEF TypeInv, JobTypes
<1>. USE DEF At
<1>2. CASE s.op = "webhook"
  <2>1. s.pc \in {"upsert", "notify"}
    BY <1>1, <1>2 DEF Shape
  <2>2. CASE UpsertSubscription(j)
    BY <1>1, <2>2, GotoKeeps DEF UpsertSubscription
  <2>3. CASE UpdateProduct(j)
    <3>1. r.op = "plan"
      BY <1>1, <2>3 DEF UpdateProduct, Shape
    <3>2. ASSUME NEW x, job' = [job EXCEPT ![j].pc = "upsert", ![j].ref = x]
          PROVE  s.op = r.op
      BY <1>1, <3>2 DEF JobTypes, JobRecords
    <3> QED BY <1>1, <1>2, <2>3, <3>1, <3>2, DoneIdle DEF UpdateProduct, Done
  <2>4. ASSUME NEW w \in webhooks, ReceiveWebhook(j, w)
        PROVE  s.ref = w
    <3>1. s = [Idle EXCEPT !.op = "webhook", !.pc = "upsert", !.ref = w]
      BY <1>1, <2>4 DEF ReceiveWebhook, JobTypes
    <3> QED BY <3>1 DEF Idle
  <2> QED BY <1>2, <2>1, <2>2, <2>3, <2>4 DEF Arrivals
<1>3. CASE s.op = "policy"
  <2>1. s.pc \in PolicyPcs \cup CallPcs
    BY <1>1, <1>3 DEF Shape
  <2>2. ASSUME NEW m \in refreshes, ReceiveRefresh(j, m)
        PROVE  s.ref = m
    <3>1. s = [Idle EXCEPT !.op = "policy", !.pc = "read plan", !.ref = m]
      BY <1>1, <2>2 DEF ReceiveRefresh, JobTypes
    <3> QED BY <3>1 DEF Idle
  <2>3. CASE s.pc \in PolicyPcs
    BY <1>3, <2>2, <2>3 DEF Arrivals
  <2>4. CASE s.pc = "snapshot"
    <3>1. ASSUME NEW v, NEW n, NEW S,
                 \/ job' = [job EXCEPT ![j].pc = "snapshot", ![j].vault = v,
                              ![j].num = n, ![j].tasks = S]
                 \/ job' = [job EXCEPT ![j].pc = "snapshot", ![j].vault = v,
                              ![j].tasks = S]
          PROVE  s.op = r.op /\ s.ref = r.ref
      BY <1>1, <3>1 DEF JobTypes, JobRecords
    <3>2. CASE CallCoordinator(j)
      <4>1. PICK t \in r.tasks :
              job' = [job EXCEPT ![j].pc = "snapshot", ![j].vault = t.vault,
                        ![j].num = t.revision, ![j].tasks = @ \ {t}]
        BY <3>2 DEF CallCoordinator
      <4> QED BY <3>1, <4>1
    <3>3. CASE CallPolicy(j)
      BY ZenonT(90), <3>1, <3>3 DEF CallPolicy
    <3> QED BY <2>4, <3>2, <3>3 DEF Arrivals
  <2>5. CASE s.pc \in {"suspension", "apply"}
    <3>1. CASE ReadVersions(j)
      BY <1>1, <3>1 DEF ReadVersions, JobTypes, JobRecords
    <3>2. CASE ReadSuspension(j)
      BY <1>1, <3>2 DEF ReadSuspension, JobTypes, JobRecords
    <3> QED BY <2>5, <3>1, <3>2 DEF Arrivals
  <2> QED BY <2>1, <2>3, <2>4, <2>5 DEF CallPcs
<1> QED BY <1>2, <1>3

LEMMA RetriedMessage ==
  ASSUME NEW m \in Refreshes, ~GivenUp(m)
  PROVE  \E n \in Refreshes : /\ n.id = m.id /\ n # m
                              /\ n = [m EXCEPT !.tries = @ + 1]
<1>. DEFINE n == [m EXCEPT !.tries = @ + 1]
<1>1. MaxTries \in Nat \ {0} /\ m.tries \in 0..(MaxTries - 1)
  BY StoreAssumptions DEF Refreshes
<1>2. m.tries + 1 \in 0..(MaxTries - 1) /\ m.tries + 1 # m.tries
  BY <1>1 DEF GivenUp
<1>3. n.id = m.id /\ n.tries = m.tries + 1 /\ n \in Refreshes
  BY <1>2 DEF Refreshes
<1> QED BY <1>2, <1>3

\* Messages of the two queues go only with the consumer that has them.
LEMMA QueuesKeep ==
  ASSUME TypeInv, NEW j \in Jobs, Writers(j)
  PROVE  /\ \A w \in webhooks : w \notin webhooks' =>
              NotifyUpsert(j) /\ job[j].op = "webhook" /\ w = job[j].ref
         /\ \A m \in refreshes : m \notin refreshes' =>
              SettlePolicy(j) /\ m = job[j].ref
<1>1. ASSUME NEW w \in webhooks, w \notin webhooks'
      PROVE  NotifyUpsert(j) /\ job[j].op = "webhook" /\ w = job[j].ref
  <2>1. CASE UpdateProduct(j)
    BY <1>1, <2>1 DEF UpdateProduct, ProviderBecomes
  <2>2. CASE NotifyUpsert(j)
    BY <1>1, <2>2 DEF NotifyUpsert
  <2> QED BY <1>1, <2>1, <2>2 DEF Writers
<1>2. ASSUME NEW m \in refreshes, m \notin refreshes'
      PROVE  SettlePolicy(j) /\ m = job[j].ref
  <2>1. CASE NotifyUpsert(j)
    BY <1>2, <2>1 DEF NotifyUpsert
  <2>2. CASE SettlePolicy(j)
    BY <1>2, <2>2 DEF SettlePolicy, Retried
  <2> QED BY <1>2, <2>1, <2>2 DEF Writers
<1> QED BY <1>1, <1>2

LEMMA DeliveriesStep ==
  ASSUME TypeInv, Deliveries, NEW j \in Jobs, Writers(j), Arrivals(j),
         JobTypes'
  PROVE  Deliveries'
<1>. DEFINE r == job[j]
            s == job'[j]
<1>1. /\ r \in JobRecords /\ Shape(r) /\ JobTypes
      /\ refreshes \subseteq Refreshes /\ IsFiniteSet(refreshes)
  BY DEF TypeInv, TypeOK, JobTypes, FiniteRows, Refreshes
<1>. USE DEF At
<1>2. ASSUME SettlePolicy(j)
      PROVE  r.op = "policy" /\ r.ref \in refreshes
  BY <1>1, <1>2 DEF SettlePolicy, Shape, PolicyPcs, Deliveries
<1>3. ASSUME NEW k \in Jobs \ {j}
      PROVE  /\ job'[k] = job[k]
             /\ job'[k].op = "webhook" => job'[k].ref \in webhooks'
             /\ job'[k].op = "policy" => job'[k].ref \in refreshes'
  <2>1. job'[k] = job[k]
    BY DEF Arrivals
  <2>2. job[k].op = "webhook" => job[k].ref \in webhooks'
    BY QueuesKeep DEF Deliveries
  <2>3. job[k].op = "policy" => job[k].ref \in refreshes'
    BY <1>2, QueuesKeep DEF Deliveries
  <2> QED BY <2>1, <2>2, <2>3
<1>4. /\ s.op = "webhook" => s.ref \in webhooks'
      /\ s.op = "policy" => s.ref \in refreshes'
  <2>. SUFFICES ASSUME s.op \in {"webhook", "policy"}
                PROVE  /\ s.op = "webhook" => s.ref \in webhooks'
                       /\ s.op = "policy" => s.ref \in refreshes'
    OBVIOUS
  <2>1. ~NotifyUpsert(j) /\ ~SettlePolicy(j)
    BY <1>1, DoneIdle DEF NotifyUpsert, SettlePolicy, Done
  <2>2. webhooks \subseteq webhooks' /\ refreshes \subseteq refreshes'
    BY <2>1, QueuesKeep
  <2> QED BY <2>2, SameMessage DEF Deliveries
<1>5. ASSUME NEW l \in Jobs \ {j}, s.op = job[l].op,
             s.op \in {"webhook", "policy"}
      PROVE  s.ref # job[l].ref
  <2>1. CASE s.op = r.op /\ s.ref = r.ref
    BY <1>5, <2>1 DEF Deliveries
  <2>2. ASSUME NEW w, ReceiveWebhook(j, w), s.ref = w, s.op = "webhook"
        PROVE  s.ref # job[l].ref
    BY <1>5, <2>2 DEF ReceiveWebhook, Taken
  <2>3. ASSUME NEW m, ReceiveRefresh(j, m), s.ref = m, s.op = "policy"
        PROVE  s.ref # job[l].ref
    BY <1>5, <2>3 DEF ReceiveRefresh, Taken
  <2> QED BY <1>5, <2>1, <2>2, <2>3, SameMessage
<1>6. ASSUME NEW k \in Jobs, NEW l \in Jobs, k # l, job'[k].op = job'[l].op,
             job'[k].op \in {"webhook", "policy"}
      PROVE  job'[k].ref # job'[l].ref
  <2>1. CASE k # j /\ l # j
    BY <1>3, <1>6, <2>1 DEF Deliveries
  <2>2. CASE k = j
    BY <1>3, <1>5, <1>6, <2>2
  <2>3. CASE l = j
    BY <1>3, <1>5, <1>6, <2>3
  <2> QED BY <2>1, <2>2, <2>3
<1>7. ASSUME NEW m \in refreshes', NEW n \in refreshes', m.id = n.id
      PROVE  m = n
  <2>1. CASE refreshes' = refreshes
    BY <1>7, <2>1 DEF Deliveries
  <2>2. CASE NotifyUpsert(j)
    <3>. DEFINE f == [id |-> FreshId(refreshes), tries |-> 0]
    <3>1. refreshes' = refreshes \cup {f} /\ f.id = FreshId(refreshes)
      BY <2>2 DEF NotifyUpsert
    <3>2. \A x \in refreshes : x.id # f.id
      BY <1>1, <3>1, FreshTyped
    <3>. HIDE DEF f
    <3> QED BY <1>7, <3>1, <3>2 DEF Deliveries
  <2>3. CASE SettlePolicy(j)
    <3>1. CASE refreshes' \subseteq refreshes
      BY <1>7, <3>1 DEF Deliveries
    <3>2. CASE ~GivenUp(r.ref) /\ refreshes' = Retried(refreshes, r.ref)
      <4>1. PICK x \in Refreshes : /\ x.id = r.ref.id
                                   /\ x = [r.ref EXCEPT !.tries = @ + 1]
        BY <1>1, <1>2, <2>3, <3>2, RetriedMessage
      <4>2. refreshes' = (refreshes \ {r.ref}) \cup {x}
        BY <3>2, <4>1 DEF Retried
      <4>3. \A y \in refreshes \ {r.ref} : y.id # x.id
        BY <1>2, <2>3, <4>1 DEF Deliveries
      <4> QED BY <1>7, <4>2, <4>3 DEF Deliveries
    <3> QED BY <2>3, <3>1, <3>2 DEF SettlePolicy, Retried
  <2> QED BY <2>1, <2>2, <2>3 DEF Writers
<1> QED BY <1>3, <1>4, <1>6, <1>7 DEF Deliveries

\* A request starts in a job that is idle.
LEMMA StartIdle ==
  ASSUME NEW j \in Jobs, StartRequest(j)
  PROVE  job[j] = Idle
<1>. USE DEF Start
<1>1. CASE StartSharing(j)
  BY ZenonT(90), <1>1 DEF StartSharing, StartInvite, StartChangeRole,
     StartRemoveMember, StartCancel, StartResend, StartReject, StartAccept,
     StartKeyRequest, StartReplacePassword, StartViewOrganization,
     StartApprove, StartComplete
<1>2. CASE StartAccess(j)
  BY ZenonT(90), <1>2 DEF StartAccess, StartIssueToken, StartConnect
<1>3. CASE StartLifecycle(j)
  BY <1>3 DEF StartLifecycle, StartCreateVault, StartDeleteVault,
     StartRetention
<1>4. CASE StartBilling(j)
  BY <1>4 DEF StartBilling, StartChangePlan, StartCheckout, StartPortal
<1> QED BY ZenonT(90), <1>1, <1>2, <1>3, <1>4 DEF StartRequest

\* All that a policy refresh does, and a webhook or plan change whose row is
\* written.
LEMMA PolicySteps ==
  ASSUME JobTypes, NEW j \in Jobs, StartRequest(j) \/ Step(j) \/ FaultOf(j),
         job[j].op = "policy" \/ At(j, "notify")
  PROVE  \/ ReadPolicy(j) \/ ListVaults(j) \/ CallPolicy(j)
         \/ CheckSuspension(j) \/ ApplyVaultPolicy(j) \/ SettlePolicy(j)
         \/ PolicyCallFails(j) \/ ReadVersions(j) \/ SnapshotRefused(j)
         \/ RefreshFails(j) \/ ReadSuspension(j) \/ ApplyRefresh(j)
         \/ NotifyUpsert(j) \/ NotifyFails(j)
         \/ Abandon(j) /\ At(j, "notify")
<1>. DEFINE r == job[j]
<1>1. r.pc \in {"read plan", "list", "vaults", "limits", "set limits",
                "snapshot", "suspension", "apply", "notify"}
  BY DEF JobTypes, Shape, At, PolicyPcs, CallPcs
<1>2. r # Idle
  <2>1. Idle.pc = "idle"
    BY DEF Idle
  <2> QED BY <1>1, <2>1
<1>. HIDE DEF r
<1>. USE <1>1 DEF At
<1>3. ~StartRequest(j)
  BY <1>2, StartIdle DEF r
<1>4. ~SharingStep(j)
  <2>1. ~ListRefreshes(j) /\ ~CallCoordinator(j) /\ ~FinishRefresh(j)
    BY <1>2 DEF ListRefreshes, CallCoordinator, FinishRefresh, r
  <2>2. ~CreateInvitation(j) /\ ~ClaimInvitationDelivery(j)
        /\ ~SetInvitationStatus(j) /\ ~AcceptInvitation(j)
    BY DEF CreateInvitation, ClaimInvitationDelivery, SetInvitationStatus,
       AcceptInvitation, r
  <2>3. ~ChangeOrganizationRole(j) /\ ~RemoveOrganizationMember(j)
        /\ ~EnsureVaultEnrollment(j) /\ ~RereadGrant(j)
        /\ ~QueueVaultRefresh(j)
    BY ZenonT(90) DEF ChangeOrganizationRole, RemoveOrganizationMember,
       EnsureVaultEnrollment, RereadGrant, QueueVaultRefresh, r
  <2>4. ~CreateKeyRequest(j) /\ ~ApproveKeyRequest(j)
        /\ ~CompleteKeyRequest(j) /\ ~UpsertPasswordWrapper(j)
    BY DEF CreateKeyRequest, ApproveKeyRequest, CompleteKeyRequest,
       UpsertPasswordWrapper, r
  <2> QED BY <2>1, <2>2, <2>3, <2>4 DEF SharingStep
<1>5. ~LifecycleStep(j)
  <2>1. \A m : ~ReceivePurge(j, m) /\ ~ReceiveNotice(j, m)
    BY ZenonT(90), <1>2 DEF ReceivePurge, ReceiveNotice, r
  <2>2. ~CreateVaultForUser(j) /\ ~ClaimForDelete(j) /\ ~ReadScanPlan(j)
        /\ ~ClaimCandidate(j) /\ ~EnqueuePurge(j) /\ ~RestoreVault(j)
    BY DEF CreateVaultForUser, ClaimForDelete, ReadScanPlan, ClaimCandidate,
       EnqueuePurge, RestoreVault, r
  <2>3. ~MarkVaultPurgeRunning(j) /\ ~CloseForPurge(j) /\ ~EraseState(j)
        /\ ~HardDeleteVault(j) /\ ~EnqueueNotice(j) /\ ~Acknowledge(j)
        /\ ~SendNotice(j)
    BY DEF MarkVaultPurgeRunning, CloseForPurge, EraseState, HardDeleteVault,
       EnqueueNotice, Acknowledge, SendNotice, r
  <2> QED BY <2>1, <2>2, <2>3 DEF LifecycleStep
<1>6. ~MintToken(j) /\ ~AcceptSocket(j)
  BY DEF MintToken, AcceptSocket, r
<1>7. BillingStep(j) =>
        \/ ReadPolicy(j) \/ ListVaults(j) \/ CallPolicy(j)
        \/ CheckSuspension(j) \/ ApplyVaultPolicy(j) \/ SettlePolicy(j)
        \/ NotifyUpsert(j)
  <2>1. \A m : ~ReceiveWebhook(j, m) /\ ~ReceiveRefresh(j, m)
    BY <1>2 DEF ReceiveWebhook, ReceiveRefresh, r
  <2>2. ~FindCustomer(j) /\ ~CreateCustomer(j) /\ ~FindAgain(j)
        /\ ~OpenCheckout(j) /\ ~OpenPortal(j)
    BY DEF FindCustomer, CreateCustomer, FindAgain, OpenCheckout, OpenPortal,
       r
  <2>3. ~UpdateProduct(j) /\ ~UpsertSubscription(j)
    BY DEF UpdateProduct, UpsertSubscription, r
  <2> QED BY <2>1, <2>2, <2>3 DEF BillingStep
<1>8. ~SharingFault(j)
  BY DEF SharingFault, CallFails, ReplyLost, r
<1>9. ~LifecycleFault(j)
  <2>1. ~EnqueueFails(j) /\ ~SendFails(j) /\ ~PurgeFails(j)
    BY DEF EnqueueFails, SendFails, PurgeFails, r
  <2>2. ~ConsumerFails(j)
    BY DEF ConsumerFails, r
  <2> QED BY <2>1, <2>2 DEF LifecycleFault
<1>10. Abandon(j) => At(j, "notify")
  BY DEF Abandon
<1>11. CASE Step(j)
  BY <1>4, <1>5, <1>6, <1>7, <1>11 DEF Step, AccessStep
<1>12. CASE FaultOf(j)
  BY <1>8, <1>9, <1>10, <1>12 DEF FaultOf, BillingFault
<1> QED BY <1>3, <1>11, <1>12

LEMMA ApplyPasses ==
  ASSUME TypeInv, NEW j \in Jobs, Writers(j), Arrivals(j), job[j] # Idle
  PROVE  Passes' \subseteq Passes
<1>. SUFFICES ASSUME NEW p \in Passes' PROVE p \in Passes
  OBVIOUS
<1>1. ASSUME NEW u \in Users, NEW w \in Vaults, StartIssueToken(j, u, w)
      PROVE  FALSE
  BY <1>1 DEF StartIssueToken, Start
<1> QED BY <1>1, PassesStep

\* A socket of a vault that is shut is not accepted.
LEMMA ShutSockets ==
  ASSUME TypeInv, NEW j \in Jobs, Writers(j), NEW v \in Vaults, Shut(v),
         NEW t \in sessions', t.vault = v
  PROVE  ~Timely(t)
<1>. SUFFICES ASSUME Timely(t) PROVE FALSE
  OBVIOUS
<1>1. t \notin sessions
  BY ZenonT(90) DEF Shut
<1>2. AcceptSocket(j) /\ t = job[j].ref
  BY <1>1 DEF Writers, AcceptSocket, ApplyRefresh, CloseForPurge
<1>3. t \in tokens /\ Admits(t.vault, t)
  BY <1>1, <1>2 DEF AcceptSocket, TypeInv, ConnectRefs, At
<1>. DEFINE e == revocation[v][VaultKey].expires
<1>4. /\ t.read \in Nat /\ t.expires \in Nat /\ now \in Nat /\ Lifetime \in Nat
      /\ e \in Nat
  <2>1. VaultKey \in Keys
    BY DEF Keys
  <2>2. e \in Nat /\ now \in Nat
    BY ZenonT(90), <2>1, EntryTyped
  <2>3. t.read \in Nat /\ t.expires \in Nat
    BY ZenonT(90), <1>3, TokenTyped
  <2> QED BY ZenonT(90), <2>2, <2>3, LifetimePositive
<1>5. t.expires > now /\ t.expires <= t.read + Lifetime
  BY <1>3 DEF Admits, ValidToken, Timely
<1>6. ~(e > now)
  BY <1>3 DEF Admits, Denied, InForce
<1>7. e >= t.read + Lifetime
  BY <1>3, TokenPass DEF Shut
<1>. HIDE DEF e
<1> QED BY <1>4, <1>5, <1>6, <1>7

\* A vault loses its cover in one of three steps.
LEMMA CoverStep ==
  ASSUME TypeInv, NEW j \in Jobs, Writers(j), NEW v \in Vaults, Uncovered(v)'
  PROVE  \/ Uncovered(v) \/ UpsertSubscription(j)
         \/ AcceptInvitation(j) /\ outbox'[v] = revision + 1
         \/ CreateVaultForUser(j) /\ vault[v].state = "unused"
<1>. SUFFICES ASSUME ~UpsertSubscription(j),
                     ~(AcceptInvitation(j) /\ outbox'[v] = revision + 1),
                     ~(/\ CreateVaultForUser(j)
                       /\ vault[v].state = "unused")
              PROVE  Uncovered(v)
  OBVIOUS
<1>1. subscription' = subscription /\ now' = now
  BY DEF Writers
<1>2. /\ Lapsed(subscription)' <=> Lapsed(subscription)
      /\ SharingEnabled' <=> SharingEnabled
  BY <1>1 DEF Lapsed, SharingEnabled, CurrentPlan
<1>3. vault'[v].state = "live" /\ vault'[v].purge # "failed"
  BY DEF Uncovered, Suspended, Live
<1>4. vault'[v] = vault[v]
  BY <1>3, RowMoves
<1> QED BY <1>2, <1>4 DEF Uncovered, Suspended, Live

\* A refresh that saw the suspension shuts the vault.
LEMMA ApplyShuts ==
  ASSUME TypeInv, PassesRead, NEW j \in Jobs, Writers(j), Arrivals(j),
         ApplyRefresh(j), NEW v, v = job[j].vault, job[j].suspended
  PROVE  Shut(v)'
<1>. DEFINE seen == job[j].versions
            until == now + Lifetime
            e == [min |-> 0, expires |-> until]
            Old(k) == IF InForce(revocation[v][k]) THEN revocation[v][k]
                      ELSE NoRevocation
            Larger(a, b) == IF a > b THEN a ELSE b
            entries == [k \in Keys |->
              IF k = VaultKey
              THEN IF job[j].suspended THEN e ELSE NoRevocation
              ELSE IF seen[k] > 1
              THEN [min |-> Larger(seen[k], Old(k).min),
                    expires |-> Larger(until, Old(k).expires)]
              ELSE Old(k)]
<1>1. job[j].pc = "apply" /\ Shape(job[j]) /\ job[j] # Idle
  <2>1. job[j].pc = "apply" /\ Shape(job[j])
    BY DEF ApplyRefresh, At, TypeInv, JobTypes
  <2>2. Idle.pc = "idle"
    BY DEF Idle
  <2> QED BY <2>1, <2>2
<1>2. v \in Vaults
  BY <1>1 DEF Shape, VaultPcs, CallPcs
<1>3. /\ revocation \in [Vaults -> [Keys -> [min : Nat, expires : Nat]]]
      /\ now \in Nat /\ Lifetime \in Nat \ {0} /\ VaultKey \in Keys
  <2>1. Lifetime \in Nat \ {0}
    BY ZenonT(90), LifetimePositive
  <2>2. VaultKey \in Keys
    BY DEF Keys
  <2> QED BY <2>1, <2>2 DEF TypeInv, TypeOK
<1>4. /\ revocation' = [revocation EXCEPT ![v] = entries]
      /\ sessions' = {t \in sessions : t.vault = v => ~Denied(entries, t)}
  BY ZenonT(90) DEF ApplyRefresh
<1>5. entries[VaultKey] = e
  BY <1>3
<1>. HIDE DEF entries
<1>6. e.expires = until
  OBVIOUS
<1>7. until \in Nat /\ until > now
  BY <1>3
<1>8. revocation'[v][VaultKey].expires = until
  BY <1>2, <1>3, <1>4, <1>5, <1>6
<1>. HIDE DEF e, until
<1>9. ASSUME NEW p \in Passes', p.vault = v
      PROVE  revocation'[v][VaultKey].expires >= p.read + Lifetime
  <2>1. p \in Passes /\ p \in PassTypes
    BY <1>1, ApplyPasses, PassesTyped
  <2>2. p.read \in Nat /\ p.read <= now
    BY <2>1 DEF PassTypes, PassesRead
  <2> QED BY <1>3, <1>8, <2>2 DEF until
<1>10. ASSUME NEW t \in sessions', t.vault = v
       PROVE  FALSE
  <2>1. ~Denied(entries, t)
    BY <1>4, <1>10
  <2> QED BY <1>5, <1>6, <1>7, <2>1 DEF Denied, InForce
<1> QED BY <1>9, <1>10 DEF Shut

\* What is shut stays shut, but for an erasure and a refresh that took the plan
\* for one with sharing.
LEMMA ShutStays ==
  ASSUME TypeInv, PassesRead, NEW j \in Jobs, Writers(j), Arrivals(j),
         NEW v \in Vaults, Suspended(v), Shut(v),
         ~(EraseState(j) /\ job[j].vault = v),
         ~(ApplyRefresh(j) /\ job[j].vault = v)
  PROVE  Shut(v)'
<1>1. ASSUME NEW p \in Passes', p.vault = v
      PROVE  p \in Passes
  <2>1. ASSUME NEW u \in Users, NEW w \in Vaults, StartIssueToken(j, u, w),
               p = Pass(u, w, grant[w][u].version, now)
        PROVE  FALSE
    <3>1. w = v
      BY <1>1, <2>1 DEF Pass
    <3> QED BY <2>1, <3>1 DEF StartIssueToken
  <2> QED BY <2>1, PassesStep
<1>2. revocation'[v] = revocation[v]
  <2>1. revocation \in [Vaults -> [Keys -> [min : Nat, expires : Nat]]]
    BY DEF TypeInv, TypeOK
  <2>2. ASSUME NEW w, NEW x, w # v, revocation' = [revocation EXCEPT ![w] = x]
        PROVE  revocation'[v] = revocation[v]
    BY <2>1, <2>2
  <2>3. CASE EraseState(j)
    BY ZenonT(90), <2>2, <2>3 DEF EraseState
  <2>4. CASE ApplyRefresh(j)
    BY <2>2, <2>4 DEF ApplyRefresh
  <2> QED BY <2>3, <2>4 DEF Writers
<1>3. \A t \in sessions' : t.vault = v => ~Timely(t)'
  BY ShutSockets DEF Timely
<1> QED BY <1>1, <1>2, <1>3 DEF Shut

\* No pass was read of a vault that did not exist.
LEMMA UnusedShut ==
  ASSUME TypeInv, PassesRead, NEW j \in Jobs, Writers(j), Arrivals(j),
         CreateVaultForUser(j), NEW v \in Vaults, vault[v].state = "unused"
  PROVE  Shut(v)'
<1>1. job[j] # Idle
  <2>1. Idle.pc = "idle"
    BY DEF Idle
  <2> QED BY <2>1 DEF CreateVaultForUser, At
<1>2. \A p \in Passes' : p.vault # v
  BY <1>1, ApplyPasses DEF PassesRead
<1>3. sessions' = sessions
  BY DEF CreateVaultForUser, accessVars
<1>4. ASSUME NEW t \in sessions', t.vault = v
      PROVE  FALSE
  <2>1. t \in tokens
    BY <1>3 DEF TypeInv, TypeOK
  <2> QED BY <1>4, <2>1, TokenPass DEF PassesRead
<1> QED BY <1>2, <1>4 DEF Shut

\* What a policy refresh still owes v.
Awaits(r, v) ==
  \/ r.pc \in {"read plan", "list"} \/ r.failed
  \/ v \in r.tasks
  \/ r.vault = v /\ r.pc \in {"snapshot", "suspension"}
  \/ r.vault = v /\ r.pc = "apply" /\ r.suspended

\* The refresh just queued is with nobody.
LEMMA NotifyOwes ==
  ASSUME TypeInv, Deliveries, NEW j \in Jobs, Writers(j), Arrivals(j),
         NotifyUpsert(j), NEW v \in Vaults
  PROVE  PolicyToCome(v)'
<1>. DEFINE m == [id |-> FreshId(refreshes), tries |-> 0]
<1>1. m \in refreshes' /\ m.id = FreshId(refreshes)
  BY DEF NotifyUpsert
<1>2. \A n \in refreshes : n.id # m.id
  BY <1>1, FreshTyped DEF TypeInv, FiniteRows
<1>. HIDE DEF m
<1>3. ASSUME NEW k \in Jobs
      PROVE  ~(job'[k].op = "policy" /\ job'[k].ref = m)
  <2>1. CASE k = j
    <3>1. job'[j].op = "none"
      BY DoneIdle DEF NotifyUpsert, Done, TypeInv
    <3> QED BY <2>1, <3>1
  <2>2. CASE k # j
    <3>1. job'[k] = job[k]
      BY <2>2 DEF Arrivals
    <3> QED BY <1>2, <3>1 DEF Deliveries
  <2> QED BY <2>1, <2>2
<1> QED BY <1>1, <1>3 DEF PolicyToCome

\* A refresh that is retried is with nobody until it is received again.
LEMMA SettleOwes ==
  ASSUME TypeInv, Deliveries, NEW j \in Jobs, Writers(j), Arrivals(j),
         SettlePolicy(j), job[j].failed, NEW v \in Vaults
  PROVE  PolicyToCome(v)' \/ lost'
<1>. DEFINE m == job[j].ref
<1>1. job[j].op = "policy" /\ m \in Refreshes /\ m \in refreshes
  <2>1. Shape(job[j]) /\ job[j].pc = "vaults"
    BY DEF SettlePolicy, At, TypeInv, JobTypes
  <2>2. job[j].op = "policy"
    BY <2>1 DEF Shape, PolicyPcs
  <2> QED BY <2>1, <2>2 DEF Shape, Deliveries
<1>2. CASE GivenUp(m)
  BY <1>2 DEF SettlePolicy
<1>3. CASE ~GivenUp(m)
  <2>1. PICK n \in Refreshes : /\ n.id = m.id /\ n # m
                               /\ n = [m EXCEPT !.tries = @ + 1]
    BY <1>1, <1>3, RetriedMessage
  <2>2. refreshes' = (refreshes \ {m}) \cup {n}
    BY <1>3, <2>1 DEF SettlePolicy, Retried
  <2>3. n \notin refreshes
    BY <1>1, <2>1 DEF Deliveries
  <2>4. ASSUME NEW k \in Jobs
        PROVE  ~(job'[k].op = "policy" /\ job'[k].ref = n)
    <3>1. CASE k = j
      <4>1. job'[j].op = "none"
        BY DoneIdle DEF SettlePolicy, Done, TypeInv
      <4> QED BY <3>1, <4>1
    <3>2. CASE k # j
      <4>1. job'[k] = job[k]
        BY <3>2 DEF Arrivals
      <4> QED BY <2>3, <4>1 DEF Deliveries
    <3> QED BY <3>1, <3>2
  <2>5. n \in refreshes'
    BY <2>2
  <2> QED BY <2>4, <2>5 DEF PolicyToCome
<1> QED BY <1>2, <1>3

\* One step of a policy refresh, at a suspended vault.
LEMMA AwaitsStep ==
  ASSUME TypeInv, NEW j \in Jobs, StartRequest(j) \/ Step(j) \/ FaultOf(j),
         NEW v \in Vaults, Suspended(v), job[j].op = "policy",
         Awaits(job[j], v), ~SettlePolicy(j),
         ~(ApplyRefresh(j) /\ job[j].vault = v /\ job[j].suspended)
  PROVE  Awaits(job'[j], v)
<1>. DEFINE r == job[j]
            s == job'[j]
<1>1. r \in JobRecords /\ Shape(r) /\ JobTypes
  BY DEF TypeInv, JobTypes
<1>. USE DEF At
<1>2. CASE ReadPolicy(j)
  <2>1. s.pc = "list"
    BY <1>1, <1>2 DEF ReadPolicy, JobTypes, JobRecords
  <2> QED BY <2>1 DEF Awaits
<1>3. CASE ListVaults(j)
  <2>1. s.tasks = {x \in Vaults : Live(x)}
    BY <1>1, <1>3 DEF ListVaults, JobTypes, JobRecords
  <2> QED BY <2>1 DEF Awaits, Suspended
<1>4. CASE CallPolicy(j)
  <2>1. PICK w \in r.tasks :
          job' = [job EXCEPT ![j].pc = "snapshot", ![j].vault = w,
                             ![j].tasks = @ \ {w}]
    BY <1>4 DEF CallPolicy
  <2>2. /\ s.pc = "snapshot" /\ s.vault = w /\ s.tasks = r.tasks \ {w}
        /\ s.failed = r.failed
    BY <1>1, <2>1 DEF JobTypes, JobRecords
  <2>3. r.failed \/ v \in r.tasks
    BY <1>4 DEF CallPolicy, Awaits
  <2> QED BY <2>2, <2>3 DEF Awaits
<1>5. CASE CheckSuspension(j) \/ ApplyVaultPolicy(j)
  <2>1. PICK x : Goto(j, x)
    BY <1>5 DEF CheckSuspension, ApplyVaultPolicy
  <2>2. s.tasks = r.tasks /\ s.failed = r.failed
    BY <1>1, <2>1 DEF Goto, JobTypes, JobRecords
  <2>3. r.failed \/ v \in r.tasks
    BY <1>5 DEF CheckSuspension, ApplyVaultPolicy, Awaits
  <2> QED BY <2>2, <2>3 DEF Awaits
<1>6. CASE PolicyCallFails(j)
  <2>1. s.failed
    <3>1. CASE \E w \in r.tasks :
                 job' = [job EXCEPT ![j].tasks = @ \ {w}, ![j].failed = TRUE]
      BY <1>1, <3>1 DEF JobTypes, JobRecords
    <3>2. CASE job' = [job EXCEPT ![j].pc = "vaults", ![j].failed = TRUE]
      BY <1>1, <3>2 DEF JobTypes, JobRecords
    <3> QED BY <1>6, <3>1, <3>2 DEF PolicyCallFails
  <2> QED BY <2>1 DEF Awaits
<1>7. CASE ReadVersions(j)
  <2>1. /\ s.pc = "suspension" /\ s.vault = r.vault /\ s.tasks = r.tasks
        /\ s.failed = r.failed
    BY <1>1, <1>7 DEF ReadVersions, JobTypes, JobRecords
  <2>2. r.failed \/ v \in r.tasks \/ r.vault = v
    BY <1>7 DEF ReadVersions, Awaits
  <2> QED BY <2>1, <2>2 DEF Awaits
<1>8. CASE SnapshotRefused(j) \/ RefreshFails(j)
  <2>1. GiveUp(j)
    BY <1>8 DEF SnapshotRefused, RefreshFails, FailRefresh
  <2>2. job' = [job EXCEPT ![j] = [r EXCEPT !.pc = "vaults", !.failed = TRUE]]
    BY <2>1 DEF GiveUp
  <2>3. s.failed
    BY <1>1, <2>2 DEF JobTypes, JobRecords
  <2> QED BY <2>3 DEF Awaits
<1>9. CASE ReadSuspension(j)
  <2>1. /\ s.pc = "apply" /\ s.vault = r.vault /\ s.tasks = r.tasks
        /\ s.failed = r.failed /\ s.suspended = Suspended(r.vault)
    BY <1>1, <1>9 DEF ReadSuspension, JobTypes, JobRecords
  <2>2. r.failed \/ v \in r.tasks \/ r.vault = v
    BY ZenonT(90), <1>9 DEF ReadSuspension, Awaits
  <2> QED BY <2>1, <2>2 DEF Awaits
<1>10. CASE ApplyRefresh(j)
  <2>1. PICK x : job' = [job EXCEPT ![j].pc = x, ![j].versions = <<>>,
                                    ![j].suspended = FALSE]
    BY <1>10 DEF ApplyRefresh
  <2>2. s.tasks = r.tasks /\ s.failed = r.failed
    BY ZenonT(90), <1>1, <2>1 DEF JobTypes, JobRecords
  <2>3. r.failed \/ v \in r.tasks
    BY <1>10 DEF ApplyRefresh, Awaits
  <2> QED BY <2>2, <2>3 DEF Awaits
<1>11. r.pc # "notify"
  BY <1>1 DEF Shape, PolicyPcs, CallPcs
<1>12. ~NotifyUpsert(j) /\ ~NotifyFails(j) /\ ~(Abandon(j) /\ At(j, "notify"))
  BY <1>11 DEF NotifyUpsert, NotifyFails
<1> QED BY <1>1, <1>2, <1>3, <1>4, <1>5, <1>6, <1>7, <1>8, <1>9, <1>10, <1>12,
           PolicySteps

\* A webhook, a plan change or a policy refresh under way stays so, until the
\* refresh shuts the vault or is lost.
LEMMA UnderwayStays ==
  ASSUME TypeInv, Deliveries, NEW j \in Jobs,
         StartRequest(j) \/ Step(j) \/ FaultOf(j),
         Writers(j), Arrivals(j), JobTypes',
         NEW v \in Vaults, Suspended(v), Underway(v)
  PROVE  \/ Underway(v)'
         \/ ApplyRefresh(j) /\ job[j].vault = v /\ job[j].suspended
<1>. SUFFICES ASSUME ~(/\ ApplyRefresh(j) /\ job[j].vault = v
                       /\ job[j].suspended)
              PROVE  Underway(v)'
  OBVIOUS
<1>1. NotifyUpsert(j) => Underway(v)'
  BY NotifyOwes DEF Underway
<1>2. CASE lost
  BY <1>2, LostStays DEF Underway
<1>3. ASSUME NEW w \in webhooks
      PROVE  Underway(v)'
  BY <1>1, <1>3, QueuesKeep DEF Underway
<1>4. ASSUME NEW k \in Jobs, At(k, "notify")
      PROVE  Underway(v)'
  <2>1. CASE k # j
    BY <1>4, <2>1 DEF Arrivals, At, Underway
  <2>2. CASE k = j
    <3>1. NotifyUpsert(j) \/ NotifyFails(j) \/ Abandon(j)
      BY <1>4, <2>2, PolicySteps
         DEF At, ReadPolicy, ListVaults, CallPolicy, CheckSuspension,
             ApplyVaultPolicy, SettlePolicy, PolicyCallFails, ReadVersions,
             SnapshotRefused, RefreshFails, ReadSuspension, ApplyRefresh,
             TypeInv, JobTypes, Shape, PolicyPcs, CallPcs
    <3>2. CASE NotifyFails(j) \/ Abandon(j)
      <4>1. lost' = (lost \/ Forgotten(j)) /\ webhooks' = webhooks
        BY <3>2 DEF NotifyFails, Abandon, billingVars
      <4>2. job[j].op \in {"plan", "webhook"}
        BY <1>4, <2>2 DEF At, TypeInv, JobTypes, Shape
      <4>3. Forgotten(j) \/ job[j].ref \in webhooks
        BY <1>4, <2>2, <4>2 DEF Forgotten, Deliveries
      <4> QED BY <4>1, <4>3 DEF Underway
    <3> QED BY ZenonT(90), <1>1, <3>1, <3>2
  <2> QED BY <2>1, <2>2
<1>5. ASSUME PolicyToCome(v)
      PROVE  Underway(v)'
  <2>1. PICK m \in refreshes : \A k \in Jobs :
          job[k].op = "policy" /\ job[k].ref = m => Awaits(job[k], v)
    BY <1>5 DEF PolicyToCome, Awaits
  <2>2. CASE SettlePolicy(j) /\ m = job[j].ref
    <3>1. job[j].pc = "vaults" /\ job[j].tasks = {} /\ job[j].op = "policy"
      BY <2>2 DEF SettlePolicy, At, TypeInv, JobTypes, Shape, PolicyPcs
    <3>2. job[j].failed
      BY <2>1, <2>2, <3>1 DEF Awaits
    <3> QED BY <2>2, <3>2, SettleOwes DEF Underway
  <2>3. CASE ~(SettlePolicy(j) /\ m = job[j].ref)
    <3>1. m \in refreshes'
      BY <2>3, QueuesKeep
    <3>2. ASSUME NEW k \in Jobs, k # j,
                 job'[k].op = "policy", job'[k].ref = m
          PROVE  Awaits(job'[k], v)
      <4>1. job'[k] = job[k]
        BY <3>2 DEF Arrivals
      <4> QED BY <2>1, <3>2, <4>1
    <3>3. ASSUME job'[j].op = "policy", job'[j].ref = m
          PROVE  Awaits(job'[j], v)
      <4>1. CASE job'[j].pc = "read plan"
        BY <4>1 DEF Awaits
      <4>2. CASE job[j].op = "policy" /\ job[j].ref = m
        BY <2>1, <2>3, <4>2, AwaitsStep
      <4> QED BY <3>3, <4>1, <4>2, SameMessage
    <3>4. \A k \in Jobs : job'[k].op = "policy" /\ job'[k].ref = m =>
            Awaits(job'[k], v)
      BY <3>2, <3>3
    <3>5. PolicyToCome(v)'
      BY <3>1, <3>4 DEF PolicyToCome, Awaits
    <3> QED BY <3>5 DEF Underway
  <2> QED BY <2>2, <2>3
<1> QED BY <1>2, <1>3, <1>4, <1>5 DEF Underway

\* A row of a fresh revision is ahead of every refresh that was called.
LEMMA FreshRow ==
  ASSUME TypeInv, RevisionsDrawn, NEW j \in Jobs, Arrivals(j),
         \/ AcceptInvitation(j) \/ QueueVaultRefresh(j)
         \/ RemoveOrganizationMember(j),
         NEW v \in Vaults, outbox'[v] = revision + 1
  PROVE  RowAhead(v)'
<1>1. revision \in Nat
  BY DEF TypeInv, TypeOK
<1>0. outbox'[v] # 0
  BY <1>1
<1>. SUFFICES \A k \in Jobs : ~Misses(k, v)'
  BY ZenonT(90), <1>0 DEF RowAhead
<1>. SUFFICES ASSUME NEW k \in Jobs, job'[k].op # "policy",
                     job'[k].vault = v, job'[k].num = outbox'[v],
                     job'[k].pc \in {"finish", "apply"}
              PROVE  FALSE
  BY ZenonT(90) DEF Misses, Clears, At
<1>2. k # j
  BY DEF Arrivals, ApplyRefresh, ReadSuspension, AcceptInvitation,
     QueueVaultRefresh, RemoveOrganizationMember, At
<1>3. job'[k] = job[k] /\ job[k] \in JobRecords
  BY <1>2 DEF Arrivals, TypeInv, JobTypes
<1>4. job[k].num <= revision /\ job[k].num \in Nat
  BY <1>3 DEF RevisionsDrawn, CallPcs, JobRecords
<1> QED BY <1>1, <1>3, <1>4

\* A row that no refresh will clear unseen stays so, until a refresh shuts the
\* vault.
LEMMA RowStays ==
  ASSUME TypeInv, RevisionsDrawn, NEW j \in Jobs, Writers(j), Arrivals(j),
         NEW v \in Vaults, Suspended(v), Live(v)', RowAhead(v)
  PROVE  \/ RowAhead(v)'
         \/ ApplyRefresh(j) /\ job[j].vault = v /\ job[j].suspended
<1>. DEFINE r == job[j]
            s == job'[j]
<1>1. /\ r \in JobRecords /\ Shape(r) /\ JobTypes
      /\ outbox \in [Vaults -> Nat] /\ revision \in Nat
  BY DEF TypeInv, TypeOK, JobTypes
<1>. USE DEF At
<1>2. CASE /\ \/ AcceptInvitation(j) \/ QueueVaultRefresh(j)
              \/ RemoveOrganizationMember(j)
           /\ outbox'[v] = revision + 1
  BY <1>2, FreshRow
<1>3. CASE outbox'[v] = outbox[v]
  <2>. SUFFICES ASSUME NEW k \in Jobs, Misses(k, v)'
                PROVE  ApplyRefresh(j) /\ r.vault = v /\ r.suspended
    BY <1>3 DEF RowAhead
  <2>1. /\ job'[k].op # "policy" /\ job'[k].vault = v /\ job'[k].num # 0
        /\ outbox[v] = job'[k].num
        /\ job'[k].pc = "finish" \/ (job'[k].pc = "apply"
                                       /\ ~job'[k].suspended)
    BY <1>3 DEF Misses, Clears
  <2>2. k = j
    BY <2>1 DEF Arrivals, RowAhead, Misses, Clears
  <2>3. CASE s.pc = "finish"
    <3>1. ApplyRefresh(j)
      BY ZenonT(90), <2>3 DEF Arrivals
    <3>2. PICK x : job' = [job EXCEPT ![j].pc = x, ![j].versions = <<>>,
                                      ![j].suspended = FALSE]
      BY <3>1 DEF ApplyRefresh
    <3>3. s.op = r.op /\ s.vault = r.vault /\ s.num = r.num
      BY ZenonT(90), <1>1, <3>2 DEF JobTypes, JobRecords
    <3>4. r.pc = "apply"
      BY <3>1 DEF ApplyRefresh
    <3>5. r.suspended
      BY <2>1, <2>2, <3>3, <3>4 DEF RowAhead, Misses, Clears
    <3> QED BY <2>1, <2>2, <3>1, <3>3, <3>5
  <2>4. CASE s.pc = "apply"
    <3>1. ReadSuspension(j)
      BY <2>4 DEF Arrivals
    <3>2. s.suspended = Suspended(r.vault) /\ s.vault = r.vault
      BY <1>1, <3>1 DEF ReadSuspension, JobTypes, JobRecords
    <3> QED BY <2>1, <2>2, <2>4, <3>2
  <2> QED BY <2>1, <2>2, <2>3, <2>4
<1>4. CASE FinishRefresh(j) /\ Clears(j)
             /\ outbox' = [outbox EXCEPT ![r.vault] = 0]
  <2>1. r.vault # v
    <3>1. r.pc = "finish"
      BY <1>4 DEF FinishRefresh
    <3>2. r.op # "policy"
      BY <1>1, <3>1 DEF Shape, PolicyPcs, CallPcs
    <3> QED BY <1>4, <3>1, <3>2 DEF RowAhead, Misses
  <2>2. outbox'[v] = outbox[v]
    BY <1>1, <1>4, <2>1
  <2> QED BY <1>3, <2>2
<1>5. CASE HardDeleteVault(j) /\ outbox' = [outbox EXCEPT ![r.vault] = 0]
  <2>1. vault' = [vault EXCEPT ![r.vault] =
                    [state |-> "gone", purge |-> "none", shared |-> FALSE]]
    BY <1>5 DEF HardDeleteVault
  <2>2. r.vault # v
    BY <2>1 DEF Live, TypeInv, TypeOK
  <2>3. outbox'[v] = outbox[v]
    BY <1>1, <1>5, <2>2
  <2> QED BY <1>3, <2>3
<1>6. \/ outbox'[v] = outbox[v]
      \/ /\ \/ AcceptInvitation(j) \/ QueueVaultRefresh(j)
            \/ RemoveOrganizationMember(j)
         /\ outbox'[v] = revision + 1
      \/ /\ FinishRefresh(j) /\ Clears(j)
         /\ outbox' = [outbox EXCEPT ![r.vault] = 0]
      \/ HardDeleteVault(j) /\ outbox' = [outbox EXCEPT ![r.vault] = 0]
  BY OutboxMoves
<1> QED BY <1>2, <1>3, <1>4, <1>5, <1>6

\* What takes a vault's cover leaves something under way.
LEMMA CoverOwes ==
  ASSUME TypeInv, RevisionsDrawn, NEW j \in Jobs, Writers(j), Arrivals(j),
         NEW v \in Vaults, Uncovered(v)'
  PROVE  \/ Uncovered(v) \/ Owed(v)'
         \/ CreateVaultForUser(j) /\ vault[v].state = "unused"
<1>1. CASE UpsertSubscription(j)
  <2>1. job'[j].pc = "notify"
    BY <1>1, GotoKeeps DEF UpsertSubscription, TypeInv
  <2> QED BY <2>1 DEF Owed, Underway, At
<1>2. CASE AcceptInvitation(j) /\ outbox'[v] = revision + 1
  BY <1>2, FreshRow DEF Owed
<1> QED BY <1>1, <1>2, CoverStep

LEMMA OwingStep ==
  ASSUME TypeInv, PassesRead, RevisionsDrawn, SuspensionInv, NEW j \in Jobs,
         StartRequest(j) \/ Step(j) \/ FaultOf(j),
         Writers(j), Arrivals(j), JobTypes'
  PROVE  Owing'
<1>. DEFINE r == job[j]
            Shuts(v) == ApplyRefresh(j) /\ r.vault = v /\ r.suspended
<1>1. /\ r \in JobRecords /\ Shape(r) /\ JobTypes
      /\ Owing /\ Turns /\ Deliveries /\ Claimed
  BY DEF TypeInv, JobTypes, SuspensionInv
<1>. USE DEF At
<1>2. ASSUME NEW v \in Vaults, Uncovered(v), Uncovered(v)', Owed(v)
      PROVE  Owed(v)' \/ Shuts(v)
  <2>1. Suspended(v) /\ Live(v)'
    BY <1>2 DEF Uncovered, Suspended
  <2> QED BY <1>1, <1>2, <2>1, UnderwayStays, RowStays DEF Owed
<1>3. ASSUME NEW v \in Vaults, Shuts(v)
      PROVE  Shut(v)'
  BY <1>3, ApplyShuts
\* 1. The vaults.
<1>4. ASSUME NEW v \in Vaults, Uncovered(v)'
      PROVE  Owed(v)' \/ Shut(v)'
  <2>1. CASE CreateVaultForUser(j) /\ vault[v].state = "unused"
    BY <2>1, UnusedShut
  <2>2. CASE Uncovered(v)
    <3>1. CASE Owed(v)
      BY <1>2, <1>3, <1>4, <2>2, <3>1
    <3>2. CASE Shut(v) /\ ~Owed(v)
      <4>1. ~(EraseState(j) /\ r.vault = v)
        BY <1>1, <2>2
           DEF EraseState, Claimed, Doomed, Uncovered, Suspended, Live
      <4>2. CASE ApplyRefresh(j) /\ r.vault = v
        <5>1. r.pc = "apply"
          BY <4>2 DEF ApplyRefresh
        <5>2. r.suspended
          BY <1>1, <2>2, <3>2, <4>2, <5>1 DEF Owing
        <5> QED BY <1>3, <4>2, <5>2
      <4>3. CASE ~(ApplyRefresh(j) /\ r.vault = v)
        BY <2>2, <3>2, <4>1, <4>3, ShutStays DEF Uncovered
      <4> QED BY <4>2, <4>3
    <3> QED BY <1>1, <2>2, <3>1, <3>2 DEF Owing
  <2> QED BY <1>4, <2>1, <2>2, CoverOwes
\* 2. The refreshes between their awaits.
<1>5. ASSUME NEW k \in Jobs, NEW v, v = job'[k].vault, job'[k].pc = "apply",
             ~job'[k].suspended, Uncovered(v)'
      PROVE  Owed(v)'
  <2>1. CASE k = j
    <3>1. ReadSuspension(j)
      BY <1>5, <2>1 DEF Arrivals
    <3>2. job'[j].suspended = Suspended(r.vault) /\ job'[j].vault = r.vault
      BY <1>1, <3>1 DEF ReadSuspension, JobTypes, JobRecords
    <3>3. UNCHANGED <<vault, subscription, now>>
      BY <3>1 DEF ReadSuspension, rows, billingVars
    <3>4. Suspended(v)
      BY <1>5, <3>3 DEF Uncovered, Suspended, Live, SharingEnabled,
                        CurrentPlan, Lapsed
    <3> QED BY <1>5, <2>1, <3>2, <3>4
  <2>2. CASE k # j
    <3>1. job'[k] = job[k] /\ Shape(job[k])
      BY <2>2 DEF Arrivals, TypeInv, JobTypes
    <3>2. v \in Vaults
      BY <1>5, <3>1 DEF Shape, VaultPcs, CallPcs
    <3>3. HasTurn(k) /\ vault[v].state # "unused"
      BY ZenonT(90), <1>1, <1>5, <3>1 DEF Turns
    <3>4. ~Shuts(v)
      BY <1>5, <2>2, <3>1, <3>3 DEF ApplyRefresh, HasTurn
    <3>5. Uncovered(v) => Owed(v)
      BY <1>1, <1>5, <3>1 DEF Owing
    <3> QED BY <1>2, <1>5, <3>2, <3>3, <3>4, <3>5, CoverOwes
  <2> QED BY <2>1, <2>2
<1>6. ASSUME NEW k \in Jobs, job'[k].pc = "apply", ~job'[k].suspended
      PROVE  \A v : v = job'[k].vault /\ Uncovered(v)' => Owed(v)'
  BY <1>5, <1>6
<1> QED BY <1>4, <1>6 DEF Owing

LEMMA SuspensionStill ==
  ASSUME TypeInv, SuspensionInv, sessions' \subseteq sessions,
         now' = now \/ now' = now + 1, webhooks \subseteq webhooks',
         UNCHANGED <<vault, outbox, tokens, revocation, refreshTail, purges,
                     subscription, refreshes, lost, job>>
  PROVE  SuspensionInv'
<1>1. now \in Nat /\ subscription.until \in Nat
  BY DEF TypeInv, TypeOK, BillingTypes, Snapshots
<1>2. Lapsed(subscription) => Lapsed(subscription)'
  BY <1>1 DEF Lapsed
<1>3. ASSUME NEW v, Uncovered(v)'
      PROVE  Uncovered(v)
  <2>1. ~Lapsed(subscription) /\ ~Lapsed(subscription)'
    BY <1>2, <1>3 DEF Uncovered
  <2>2. CurrentPlan' = CurrentPlan
    BY <2>1 DEF CurrentPlan
  <2> QED BY <1>3, <2>1, <2>2 DEF Uncovered, Suspended, Live, SharingEnabled
<1>4. ASSUME NEW v, Shut(v)
      PROVE  Shut(v)'
  <2>1. Minting' = Minting
    BY DEF Minting, At
  <2>2. Passes' = Passes
    BY <2>1 DEF Passes
  <2> QED BY <1>4, <2>2 DEF Shut, Timely
<1>5. ASSUME NEW v, Owed(v)
      PROVE  Owed(v)'
  <2>1. \A k \in Jobs : Misses(k, v)' <=> Misses(k, v)
    BY DEF Misses, Clears, At
  <2>2. ASSUME PolicyToCome(v) PROVE PolicyToCome(v)'
    <3>1. PICK m \in refreshes : \A k \in Jobs :
            job[k].op = "policy" /\ job[k].ref = m => Awaits(job[k], v)
      BY <2>2 DEF PolicyToCome, Awaits
    <3>2. \A k \in Jobs : job'[k].op = "policy" /\ job'[k].ref = m =>
            Awaits(job'[k], v)
      BY <3>1
    <3> QED BY ZenonT(90), <3>2 DEF PolicyToCome, Awaits
  <2> QED BY <1>5, <2>1, <2>2 DEF Owed, Underway, RowAhead, At
<1>6. Owing'
  <2>1. ASSUME NEW v \in Vaults, Uncovered(v)'
        PROVE  Owed(v)' \/ Shut(v)'
    BY <1>3, <1>4, <1>5, <2>1 DEF SuspensionInv, Owing
  <2>2. ASSUME NEW k \in Jobs, NEW v, v = job'[k].vault, job'[k].pc = "apply",
               ~job'[k].suspended, Uncovered(v)'
        PROVE  Owed(v)'
    <3>1. job[k].pc = "apply" /\ ~job[k].suspended /\ v = job[k].vault
      BY <2>2
    <3>2. Owed(v)
      BY <1>3, <2>2, <3>1 DEF SuspensionInv, Owing, At
    <3> QED BY <1>5, <3>2
  <2>3. ASSUME NEW k \in Jobs, job'[k].pc = "apply", ~job'[k].suspended
        PROVE  \A v : v = job'[k].vault /\ Uncovered(v)' => Owed(v)'
    BY <2>2, <2>3
  <2> QED BY <2>1, <2>3 DEF Owing, At
<1>7. Turns' /\ Claimed'
  BY DEF SuspensionInv, Turns, HasTurn, Claimed, Doomed, Live, At
<1>8. Deliveries'
  BY DEF SuspensionInv, Deliveries
<1> QED BY <1>6, <1>7, <1>8 DEF SuspensionInv

LEMMA SuspensionInit ==
  ASSUME Init
  PROVE  SuspensionInv
<1>1. PICK s \in Scenarios : Begin(s)
  BY DEF Init
<1>. USE <1>1
<1>2. \A k \in Jobs : job[k].pc = "idle" /\ job[k].op = "none"
  BY DEF Begin, Idle
<1>3. tokens = {} /\ sessions = {} /\ purges = {} /\ refreshes = {}
  BY DEF Begin
<1>4. Passes = {}
  BY <1>2, <1>3 DEF Passes, Minting, At
<1>5. \A v \in Vaults : /\ vault[v].state \in {"live", "unused"}
                        /\ vault[v].purge = "none"
  BY DEF Begin
<1>6. Owing
  BY <1>2, <1>3, <1>4 DEF Owing, Shut, At
<1>7. Turns /\ Deliveries
  BY <1>2, <1>3 DEF Turns, Deliveries
<1>8. Claimed
  BY <1>2, <1>3, <1>5 DEF Claimed, At, Live
<1> QED BY <1>6, <1>7, <1>8 DEF SuspensionInv

LEMMA SuspensionNext ==
  ASSUME TypeInv, RevokedInv, SuspensionInv, [Next]_vars
  PROVE  SuspensionInv'
<1>1. CASE UNCHANGED vars
  BY <1>1, SuspensionStill
     DEF vars, outboxVars, accessVars, purgeVars, billingVars
<1>2. CASE ClientStep \/ ProviderStep \/ Tick
  <2>1. webhooks \subseteq webhooks'
    BY <1>2, OutsideStep
       DEF ProviderStep, ProviderChange, Pay, ProviderBecomes
  <2>2. now' = now \/ now' = now + 1
    BY <1>2, OutsideStep DEF Tick
  <2> QED BY <1>2, <2>1, <2>2, OutsideStep, SuspensionStill DEF outboxVars
<1>3. ASSUME NEW j \in Jobs, StartRequest(j) \/ Step(j) \/ FaultOf(j)
      PROVE  SuspensionInv'
  <2>1. Writers(j) /\ Arrivals(j) /\ JobTypes'
    BY <1>3, JobWrites, JobMoves, JobsTyped DEF TypeInv
  <2>2. Owing'
    BY <1>3, <2>1, OwingStep DEF RevokedInv
  <2>3. Turns' /\ Deliveries' /\ Claimed'
    BY <2>1, TurnsStep, DeliveriesStep, ClaimedStep DEF SuspensionInv
  <2> QED BY <2>2, <2>3 DEF SuspensionInv
<1> QED BY <1>1, <1>2, <1>3 DEF Next

\* A socket on a shared vault whose plan no longer includes sharing stays open
\* only while a webhook, a policy refresh or a row of the outbox is under way
\* that will close it: whatever refreshes overtake each other, whatever message
\* is delivered again and whatever socket was prepared, token being minted or
\* vault shared meanwhile.
THEOREM SuspensionClosesSockets == Spec => []SuspensionOwed
<1>1. TypeInv /\ SuspensionInv => SuspensionOwed
  <2>. SUFFICES ASSUME TypeInv, SuspensionInv, NEW t \in sessions,
                       Uncovered(t.vault), Timely(t)
                PROVE  \/ webhooks # {} \/ lost
                       \/ FlushToCome(t.vault) \/ PolicyToCome(t.vault)
                       \/ \E j \in Jobs : At(j, "notify")
    BY DEF SuspensionOwed, Uncovered
  <2>1. t.vault \in Vaults
    BY DEF TypeInv, TypeOK
  <2>2. ~Shut(t.vault)
    BY DEF Shut
  <2>3. Owed(t.vault)
    BY <2>1, <2>2 DEF SuspensionInv, Owing
  <2> QED BY <2>3 DEF Owed, Underway, RowAhead, FlushToCome
<1>2. TypeInv /\ RevokedInv /\ SuspensionInv /\ [Next]_vars => SuspensionInv'
  BY SuspensionNext
<1>3. Spec => []RevokedInv
  <2>1. TypeInv /\ TypeInv' /\ KeyInv /\ RevokedInv /\ [Next]_vars
          => RevokedInv'
    BY RevokedNext
  <2> QED BY <2>1, RevokedInit, RowsWellTyped, KeysFollowGrants, PTL DEF Spec
<1> QED
  BY <1>1, <1>2, <1>3, SuspensionInit, RowsWellTyped, PTL DEF Spec
=============================================================================
