------------------------------ MODULE Billing ------------------------------
(***************************************************************************)
(* The organization's subscription: the payment provider's copy, the row   *)
(* the webhooks and plan changes write, and the queue that carries the     *)
(* plan to the vaults' coordinators (BillingService, the Polar webhook,    *)
(* SubscriptionService, SubscriptionPolicyRefreshConsumer).  A snapshot is *)
(* the n-th state of the subscription at the provider, the plan it pays    *)
(* for, until when and whose it is; the row is the snapshot written last.  *)
(***************************************************************************)
EXTENDS ControlPlaneStore

otherVars == <<memberVars, keyVars, vault, outboxVars, purgeVars, coordinator>>

-----------------------------------------------------------------------------
(* The provider: it sends a webhook for every change, until one is taken,  *)
(* in any order.                                                           *)

Snapshot(n, plan, customer) ==
  [n |-> n, plan |-> plan, until |-> now + Period, customer |-> customer]

ProviderBecomes(plan, customer) ==
  /\ provider' = Snapshot(provider.n + 1, plan, customer)
  /\ webhooks' = webhooks \cup {provider'}

\* A renewal, a cancellation or the end of a period.
ProviderChange ==
  /\ budget["provider"] > 0 /\ provider.customer # None
  /\ budget' = [budget EXCEPT !["provider"] = @ - 1]
  /\ \E plan \in Plans \ {"self_hosted", provider.plan} :
       ProviderBecomes(plan, provider.customer)
  /\ UNCHANGED <<otherVars, accessVars, subscription, refreshes, limits,
                 checkoutVars, lost, job, now>>

\* Somebody pays an open checkout.
Pay(checkout) ==
  /\ checkout.kind = "checkout" /\ provider.plan = "free"
  /\ budget["pay"] > 0
  /\ budget' = [budget EXCEPT !["pay"] = @ - 1]
  /\ ProviderBecomes("plus", checkout.customer)
  /\ UNCHANGED <<otherVars, accessVars, subscription, refreshes, limits,
                 checkoutVars, lost, job, now>>

ReceiveWebhook(j, w) ==
  /\ j # Timer /\ job[j] = Idle /\ ~Taken("webhook", w)
  /\ job' = [job EXCEPT ![j] = [Idle EXCEPT !.op = "webhook", !.pc = "upsert",
                                            !.ref = w]]
  /\ UNCHANGED <<otherVars, accessVars, billingVars, lost, budget, now>>

-----------------------------------------------------------------------------
(* createCheckout: an organization without a subscription pays as one       *)
(* customer of its own.  It is the customer it was bound to by an earlier   *)
(* subscription, or the one that carries its identifier, which the first    *)
(* checkout creates.                                                       *)

\* Its subscription is active: readSubscriptionAccess finds a plan in a row.
Paying == CurrentPlan # "free"

MayBill(u) == IsManager(role[u])

soldVars == <<subscription, provider, webhooks, refreshes, limits, bound>>

StartCheckout(j, u) ==
  /\ MayBill(u) /\ ~Paying
  /\ Start(j, "checkout", [Idle EXCEPT !.op = "checkout", !.pc = "customer",
                                       !.ref = bound])
  /\ UNCHANGED <<otherVars, accessVars, billingVars, lost, now>>

FoundOrElse(j, pc) ==
  job' = [job EXCEPT ![j] =
            IF "ours" \in customers THEN [@ EXCEPT !.ref = "ours", !.pc = "open"]
            ELSE [@ EXCEPT !.pc = pc]]

FindCustomer(j) ==
  /\ At(j, "customer")
  /\ IF job[j].ref # None THEN Goto(j, "open")
     ELSE FoundOrElse(j, "create customer") /\ UNCHANGED budget
  /\ UNCHANGED <<otherVars, accessVars, billingVars, lost, now>>

\* Refused where the identifier or the manager's e-mail address is taken.
CreateCustomer(j) ==
  /\ At(j, "create customer")
  /\ IF customers \cap {"ours", "foreign"} = {}
     THEN /\ customers' = customers \cup {"ours"}
          /\ job' = [job EXCEPT ![j].pc = "open", ![j].ref = "ours"]
          /\ UNCHANGED budget
     ELSE Goto(j, "find again") /\ UNCHANGED customers
  /\ UNCHANGED <<otherVars, accessVars, soldVars, opened, lost, now>>

\* Mutant: the checkout of a manager whose address is taken is opened for
\* whoever has the address.
FindAgainByEmail(j) ==
  /\ At(j, "find again")
  /\ \E c \in customers \cap {"ours", "foreign"} :
       job' = [job EXCEPT ![j].pc = "open", ![j].ref = c]
  /\ UNCHANGED <<otherVars, accessVars, billingVars, lost, budget, now>>

\* Another request may have created the customer; otherwise the address is
\* somebody else's, and the request fails.
FindAgain(j) ==
  /\ At(j, "find again")
  /\ IF "ours" \in customers
     THEN FoundOrElse(j, "open") /\ UNCHANGED budget
     ELSE Done(j)
  /\ UNCHANGED <<otherVars, accessVars, billingVars, lost, now>>

OpenCheckout(j) ==
  /\ At(j, "open")
  /\ opened' = opened \cup {[kind |-> "checkout", customer |-> job[j].ref]}
  /\ Done(j)
  /\ UNCHANGED <<otherVars, accessVars, soldVars, customers, lost, now>>

StartPortal(j, u) ==
  /\ MayBill(u) /\ bound # None
  /\ Start(j, "portal", [Idle EXCEPT !.op = "portal", !.pc = "portal",
                                     !.ref = bound])
  /\ UNCHANGED <<otherVars, accessVars, billingVars, lost, now>>

OpenPortal(j) ==
  /\ At(j, "portal")
  /\ opened' = opened \cup {[kind |-> "portal", customer |-> job[j].ref]}
  /\ Done(j)
  /\ UNCHANGED <<otherVars, accessVars, soldVars, customers, lost, now>>

-----------------------------------------------------------------------------
(* changeSubscriptionPlan.                                                 *)

StartChangePlan(j, u, plan) ==
  /\ MayBill(u)
  /\ Paying /\ CurrentPlan # plan
  /\ Start(j, "plan", [Idle EXCEPT !.op = "plan", !.pc = "provider",
                                   !.plan = plan])
  /\ UNCHANGED <<otherVars, accessVars, billingVars, lost, now>>

\* The provider refuses a subscription that has ended: the request fails.
UpdateProduct(j) ==
  /\ At(j, "provider")
  /\ IF provider.plan = "free"
     THEN Done(j) /\ UNCHANGED <<provider, webhooks>>
     ELSE /\ ProviderBecomes(job[j].plan, provider.customer)
          /\ job' = [job EXCEPT ![j].pc = "upsert", ![j].ref = provider']
          /\ UNCHANGED budget
  /\ UNCHANGED <<otherVars, accessVars, subscription, refreshes, limits,
                 checkoutVars, lost, now>>

\* Mutant: a webhook is answered before the refresh is queued.
UpsertAnswersFirst(j) ==
  /\ At(j, "upsert")
  /\ subscription' = job[j].ref
  /\ webhooks' = IF job[j].op = "webhook" THEN webhooks \ {job[j].ref}
                 ELSE webhooks
  /\ bound' = job[j].ref.customer
  /\ Goto(j, "notify")
  /\ UNCHANGED <<otherVars, accessVars, provider, refreshes, limits, customers,
                 opened, lost, now>>

\* Writes the snapshot it was given, and binds the organization to its
\* customer; nothing compares it with the row.
UpsertSubscription(j) ==
  /\ At(j, "upsert")
  /\ subscription' = job[j].ref
  /\ bound' = job[j].ref.customer
  /\ Goto(j, "notify")
  /\ UNCHANGED <<otherVars, accessVars, provider, webhooks, refreshes, limits,
                 customers, opened, lost, now>>

\* onSubscriptionUpsert queues a policy refresh; a webhook is then answered.
NotifyUpsert(j) ==
  /\ At(j, "notify")
  /\ refreshes' = refreshes \cup {[id |-> FreshId(refreshes), tries |-> 0]}
  /\ webhooks' = IF job[j].op = "webhook" THEN webhooks \ {job[j].ref}
                 ELSE webhooks
  /\ Done(j)
  /\ UNCHANGED <<otherVars, accessVars, subscription, provider, limits,
                 checkoutVars, lost, now>>

\* A plan change leaves a refresh it could not queue to the webhook of the
\* same change, which may have been answered before.
Forgotten(j) == /\ At(j, "notify") /\ job[j].op = "plan"
                /\ job[j].ref \notin webhooks

\* A plan change swallows the failure; a webhook fails and is sent again.
NotifyFails(j) ==
  /\ At(j, "notify")
  /\ lost' = (lost \/ Forgotten(j))
  /\ EndsByFault(j)
  /\ UNCHANGED <<otherVars, accessVars, billingVars, now>>

-----------------------------------------------------------------------------
(* The refresh of the vaults' policies.                                    *)

ReceiveRefresh(j, m) ==
  /\ j # Timer /\ job[j] = Idle /\ ~Taken("policy", m)
  /\ job' = [job EXCEPT ![j] = [Idle EXCEPT !.op = "policy", !.pc = "read plan",
                                            !.ref = m]]
  /\ UNCHANGED <<otherVars, accessVars, billingVars, lost, budget, now>>

ReadPolicy(j) ==
  /\ At(j, "read plan")
  /\ job' = [job EXCEPT ![j].pc = "list", ![j].plan = CurrentPlan]
  /\ UNCHANGED <<otherVars, accessVars, billingVars, lost, budget, now>>

ListVaults(j) ==
  /\ At(j, "list")
  /\ job' = [job EXCEPT ![j].pc = "vaults",
                        ![j].tasks = {v \in Vaults : Live(v)}]
  /\ UNCHANGED <<otherVars, accessVars, billingVars, lost, budget, now>>

\* The calls run side by side; they meet at no coordinator, so one follows the
\* other here, in any order.  The policy route refreshes access first.
CallPolicy(j) ==
  /\ At(j, "vaults")
  /\ \E v \in job[j].tasks :
       /\ job' = [job EXCEPT ![j].pc = "snapshot", ![j].vault = v,
                             ![j].tasks = @ \ {v}]
       /\ refreshTail' = [refreshTail EXCEPT ![v] = Append(@, j)]
  /\ UNCHANGED <<otherVars, tokens, sessions, revocation, billingVars, lost, budget,
                 now>>

\* canApplyPolicy: a suspended vault keeps the limits it has.
CheckSuspension(j) ==
  /\ At(j, "limits")
  /\ Goto(j, IF Suspended(job[j].vault) THEN "vaults" ELSE "set limits")
  /\ UNCHANGED <<otherVars, accessVars, billingVars, lost, now>>

ApplyVaultPolicy(j) ==
  LET v == job[j].vault
  IN
  /\ At(j, "set limits")
  /\ limits' = IF coordinator[v].ready THEN [limits EXCEPT ![v] = job[j].plan]
               ELSE limits
  /\ Goto(j, "vaults")
  /\ UNCHANGED <<otherVars, accessVars, subscription, provider, webhooks, refreshes,
                 checkoutVars, lost, now>>

PolicyCallFails(j) ==
  /\ job[j].op = "policy"
  /\ \/ At(j, "vaults") /\ \E v \in job[j].tasks :
          job' = [job EXCEPT ![j].tasks = @ \ {v}, ![j].failed = TRUE]
     \/ job[j].pc \in {"limits", "set limits"}
          /\ job' = [job EXCEPT ![j].pc = "vaults", ![j].failed = TRUE]
  /\ Failure
  /\ UNCHANGED <<otherVars, accessVars, billingVars, lost, now>>

\* All calls have settled: one failure among them is a retry of them all.
SettlePolicy(j) ==
  LET m == job[j].ref
  IN
  /\ At(j, "vaults") /\ job[j].tasks = {}
  /\ refreshes' = IF job[j].failed THEN Retried(refreshes, m)
                  ELSE refreshes \ {m}
  /\ lost' = (lost \/ (job[j].failed /\ GivenUp(m)))
  /\ Done(j)
  /\ UNCHANGED <<otherVars, accessVars, subscription, provider, webhooks, limits,
                 checkoutVars, now>>

-----------------------------------------------------------------------------
BillingStep(j) ==
  \/ \E w \in webhooks : ReceiveWebhook(j, w)
  \/ \E m \in refreshes : ReceiveRefresh(j, m)
  \/ FindCustomer(j) \/ CreateCustomer(j) \/ FindAgain(j)
  \/ OpenCheckout(j) \/ OpenPortal(j)
  \/ UpdateProduct(j) \/ UpsertSubscription(j) \/ NotifyUpsert(j)
  \/ ReadPolicy(j) \/ ListVaults(j) \/ CallPolicy(j)
  \/ CheckSuspension(j) \/ ApplyVaultPolicy(j) \/ SettlePolicy(j)

BillingFault(j) == NotifyFails(j) \/ PolicyCallFails(j)

StartBilling(j) == \E u \in Users :
  \/ \E plan \in {"starter", "plus"} : StartChangePlan(j, u, plan)
  \/ StartCheckout(j, u) \/ StartPortal(j, u)

ProviderStep == ProviderChange \/ \E c \in opened : Pay(c)
=============================================================================
