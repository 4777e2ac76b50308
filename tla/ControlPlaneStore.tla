------------------------- MODULE ControlPlaneStore -------------------------
(***************************************************************************)
(* The rows one organization keeps in the control-plane database (D1 on    *)
(* Cloudflare, libSQL on Node), the state its vaults' coordinators keep    *)
(* about access, and the requests in progress.  The modules Sharing,       *)
(* VaultAccess, VaultLifecycle and Billing hold the actions.               *)
(*                                                                         *)
(* A request, queue consumer or timer is a job.  A job is cut where the    *)
(* code awaits: the reads a handler makes before its first write are one   *)
(* step, every later database statement, batch or call is another.         *)
(***************************************************************************)
EXTENDS Integers, FiniteSets, Sequences

CONSTANTS
  Users,         \* accounts; a user outside the organization has role "none"
  Vaults,        \* vault identifiers, used or not
  Invites,       \* identifiers for invitation rows
  Requests,      \* identifiers for vault_key_request rows
  Jobs,          \* request handlers and queue consumers that may run at once
  Timer,         \* the job of the scheduled sharing flush
  None,          \* the value of a field that is not in use
  Scenarios,     \* where a behaviour may begin: the members' roles, the plan,
                 \*   the vaults and who has their keys, the customers the
                 \*   payment provider knows; and its bounds: how many
                 \*   requests of each kind, failures and clock ticks
  MemberLimit,   \* organizationSharingPolicy().memberLimit, 0 for no limit
  InviteTtl,     \* 48 h in the code, like a key request's
  RequestTtl,
  Period,        \* what the provider is paid for at a time
  TokenTtl,      \* lifetime of a sync token
  Lifetime,      \* how long a coordinator remembers a revocation
  Minute, Hour,  \* the windows of the limits on invitation e-mails
  DeliveryLimit, \* e-mails an organization sends in an Hour: 20 in the code
  FlushLimit,    \* rows one flush takes: 100 in the code
  MaxTries       \* deliveries of a queue message before it is dropped

Plans == {"free", "starter", "plus", "self_hosted"}

(* The provider's customers one organization meets: the one created for it,   *)
(* one it was bound to before customers carried its identifier, and somebody *)
(* else's under the e-mail address of a manager.                             *)
Customers == {"ours", "legacy", "foreign"}

VaultKey == "vault"        \* VAULT_SUSPENSION_KEY; no account has this id
Keys == Users \cup {VaultKey}

Members(roles) == {u \in Users : roles[u] # "none"}

ASSUME StoreAssumptions ==
  /\ Timer \in Jobs
  /\ VaultKey \notin Users
  /\ None \notin Users \cup Vaults \cup Invites \cup Requests \cup Customers
  /\ IsFiniteSet(Users) /\ IsFiniteSet(Invites)
  /\ \A s \in Scenarios :
       /\ s.role \in [Users -> {"none", "member", "admin", "owner"}]
       /\ s.vaults \subseteq Vaults /\ s.idle \subseteq s.vaults
       /\ s.keys \subseteq Members(s.role)
       /\ s.plan \in Plans /\ s.until \in Nat
       /\ s.customers \subseteq Customers
       /\ s.bound \in (s.customers \ {"foreign"}) \cup {None}
       /\ MemberLimit # 0 => Cardinality(Members(s.role)) <= MemberLimit
  /\ MemberLimit \in Nat /\ MaxTries \in Nat \ {0}
  /\ InviteTtl \in Nat /\ RequestTtl \in Nat
  /\ Minute \in Nat \ {0} /\ Hour \in Nat /\ Minute <= Hour
  /\ DeliveryLimit \in Nat \ {0}
  /\ Period \in Nat \ {0}
  /\ TokenTtl \in Nat \ {0} /\ Lifetime \in Nat /\ TokenTtl <= Lifetime

VARIABLES
  role,          \* member.role by user
  invite,        \* invitation rows
  claims,        \* invitation_delivery rows of sharing_audit
  grant,         \* vault_membership rows: status and access version
  wrapper,       \* users with an unrevoked password wrapper, by vault
  keyRequest,    \* vault_key_request rows
  vault,         \* vault rows
  outbox,        \* sharing_refresh: the revision of a vault's row, 0 for none
  revision,      \* revisions drawn so far
  subscription,  \* the row of polar_subscription
  tokens,        \* sync tokens handed out
  sessions,      \* tokens whose socket the coordinator holds open
  revocation,    \* sync_access_revocations by vault and key
  refreshTail,   \* jobs waiting for a vault's access refresh, in order
  coordinator,   \* whether a vault's coordinator holds state, and was erased
  purges,        \* messages of the purge queue
  notices,       \* messages of the retention e-mail queue
  letters,       \* vaults whose owner was told of the deletion
  idle,          \* vaults with no commit inside the retention period
  bound,         \* organization.polarCustomerId
  customers,     \* customers that exist at the payment provider
  opened,        \* the customers of the checkouts and portals handed out
  provider,      \* the subscription as the payment provider has it
  webhooks,      \* snapshots the provider has yet to deliver
  refreshes,     \* messages of the policy refresh queue
  limits,        \* the plan whose limits a coordinator applies
  lost,          \* a purge or a policy refresh was given up for good
  job,           \* requests in progress
  budget,        \* requests that may still start
  now

inviteVars == <<invite, claims>>
memberVars == <<role, inviteVars>>
keyVars == <<grant, wrapper, keyRequest>>
outboxVars == <<outbox, revision>>
accessVars == <<tokens, sessions, revocation, refreshTail>>
noticeVars == <<notices, letters>>
purgeVars == <<purges, noticeVars, idle>>
checkoutVars == <<bound, customers, opened>>
billingVars == <<subscription, provider, webhooks, refreshes, limits,
                 checkoutVars>>
vars == <<memberVars, keyVars, vault, outboxVars, accessVars, coordinator,
          purgeVars, billingVars, lost, job, budget, now>>

-----------------------------------------------------------------------------
(* What the handlers ask of the rows.                                      *)

IsManager(r) == r \in {"owner", "admin"}

IsMember(u) == role[u] # "none"

Live(v) == vault[v].state = "live"       \* the row exists, deleted_at is null

Exists(v) == vault[v].state \in {"live", "deleted"}

LiveInvite(i) == invite[i].status = "pending" /\ invite[i].expires > now

OpenRequest(r) == keyRequest[r].status \in {"pending", "approved"}

\* The paid period is over; one without an end, until = 0, never is.
Lapsed(s) == s.until \in 1..now

\* The row stays as it was written: what it grants changes with the clock.
CurrentPlan == IF Lapsed(subscription) THEN "free" ELSE subscription.plan

SharingEnabled == CurrentPlan \in {"plus", "self_hosted"}

VaultLimit(plan) == CASE plan = "plus" -> 3
                      [] plan = "self_hosted" -> 0
                      [] OTHER -> 1

Suspended(v) == Live(v) /\ vault[v].shared /\ ~SharingEnabled

-----------------------------------------------------------------------------
(* Jobs.                                                                   *)

(* A job keeps what its handler holds between two awaits: whom and what it  *)
(* is about, the version or revision it read and when, the work left of a  *)
(* loop, the snapshot of an access refresh, and whether part of it failed. *)

Idle == [op |-> "none", pc |-> "idle", user |-> None, vault |-> None,
         ref |-> None, num |-> 0, at |-> 0, tasks |-> {}, versions |-> <<>>,
         suspended |-> FALSE, plan |-> "free", failed |-> FALSE]

\* A request of kind op starts in j with its first checks behind it.
Start(j, op, record) ==
  /\ j # Timer /\ job[j] = Idle
  /\ budget[op] > 0
  /\ budget' = [budget EXCEPT ![op] = @ - 1]
  /\ job' = [job EXCEPT ![j] = record]

At(j, pc) == job[j].pc = pc

Goto(j, pc) == job' = [job EXCEPT ![j].pc = pc] /\ UNCHANGED budget

Done(j) == job' = [job EXCEPT ![j] = Idle] /\ UNCHANGED budget

\* One of the failures a behaviour may contain: the job goes on at pc, or ends.
Failure == /\ budget["fault"] > 0
           /\ budget' = [budget EXCEPT !["fault"] = @ - 1]

Fault(j, pc) == Failure /\ job' = [job EXCEPT ![j].pc = pc]

EndsByFault(j) == Failure /\ job' = [job EXCEPT ![j] = Idle]

(* Queue messages: delivered until acknowledged, at most MaxTries times.   *)
Taken(op, m) == \E k \in Jobs : job[k].op = op /\ job[k].ref = m

FreshId(queue) ==
  CHOOSE n \in 1..Cardinality(queue) + 1 : \A m \in queue : m.id # n

\* Mutant: one delivery more than the queue makes.
GivenUpLate(m) == m.tries + 1 > MaxTries

GivenUp(m) == m.tries + 1 >= MaxTries

\* Mutant: a failed message is acknowledged.
RetriedNever(queue, m) == queue \ {m}

Retried(queue, m) ==
  (queue \ {m}) \cup IF GivenUp(m) THEN {} ELSE {[m EXCEPT !.tries = @ + 1]}

\* A new access revision for the vaults of V; each gets the same fresh one.
QueueRefresh(V) ==
  /\ revision' = revision + 1
  /\ outbox' = [v \in Vaults |-> IF v \in V THEN revision + 1 ELSE outbox[v]]

-----------------------------------------------------------------------------
NoInvite == [status |-> "unused", to |-> None, role |-> "none", by |-> None,
             expires |-> 0]

NoRequest == [status |-> "unused", user |-> None, vault |-> None,
              version |-> 0, by |-> None, expires |-> 0]

NoRevocation == [min |-> 0, expires |-> 0]

Begin(s) ==
  /\ role = s.role
  /\ invite = [i \in Invites |-> NoInvite] /\ claims = {}
  /\ grant = [v \in Vaults |-> [u \in Users |->
       IF v \in s.vaults /\ u \in s.keys
       THEN [status |-> "active", version |-> 1]
       ELSE [status |-> "none", version |-> 0]]]
  /\ wrapper = [v \in Vaults |-> IF v \in s.vaults THEN s.keys ELSE {}]
  /\ keyRequest = [r \in Requests |-> NoRequest]
  /\ vault = [v \in Vaults |->
       [state |-> IF v \in s.vaults THEN "live" ELSE "unused",
        purge |-> "none",
        shared |-> v \in s.vaults /\ Cardinality(Members(s.role)) > 1]]
  /\ outbox = [v \in Vaults |-> 0] /\ revision = 0
  /\ tokens = {} /\ sessions = {}
  /\ revocation = [v \in Vaults |-> [k \in Keys |-> NoRevocation]]
  /\ refreshTail = [v \in Vaults |-> <<>>]
  /\ coordinator = [v \in Vaults |->
                      [ready |-> v \in s.vaults, erased |-> FALSE]]
  /\ purges = {} /\ notices = {} /\ letters = {} /\ idle = s.idle
  /\ bound = s.bound /\ customers = s.customers /\ opened = {}
  /\ provider = [n |-> 0, plan |-> s.plan, until |-> s.until,
                 customer |-> s.bound]
  /\ subscription = provider
  /\ webhooks = {} /\ refreshes = {}
  /\ limits = [v \in Vaults |-> s.plan]
  /\ lost = FALSE
  /\ job = [j \in Jobs |-> Idle]
  /\ budget = s.budget
  /\ now = 0

Init == \E s \in Scenarios : Begin(s)
=============================================================================
