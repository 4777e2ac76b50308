--------------------------- MODULE MCControlPlane ---------------------------
(***************************************************************************)
(* The control plane on one small organization.  A behaviour starts a few  *)
(* requests of the kinds one workload names.                               *)
(***************************************************************************)
EXTENDS ControlPlaneProperties, TLC

CONSTANTS owner, admin, guest, v1, v2

Kinds == {"invite", "cancel", "respond", "role", "remove", "key", "approve",
          "complete", "password", "token", "connect", "create", "delete",
          "inline", "retention", "plan", "provider", "fault", "tick", "schedule",
          "email", "resend", "view", "checkout", "portal", "pay"}

Bounds(some) == [k \in Kinds |-> IF k \in DOMAIN some THEN some[k] ELSE 0]

\* An owner and an administrator who share a vault on the plan with sharing.
Team(some) ==
  [role |-> owner :> "owner" @@ admin :> "admin" @@ guest :> "none",
   vaults |-> {v1}, idle |-> {}, keys |-> {owner, admin}, plan |-> "plus",
   until |-> 0, bound |-> "ours", customers |-> {"ours"},
   budget |-> Bounds(some)]

\* An owner alone; the other two may be invited.
Alone(plan, some) ==
  [role |-> owner :> "owner" @@ admin :> "none" @@ guest :> "none",
   vaults |-> {v1}, idle |-> {v1}, keys |-> {owner}, plan |-> plan,
   until |-> 0, bound |-> IF plan = "free" THEN None ELSE "ours",
   customers |-> IF plan = "free" THEN {} ELSE {"ours"},
   budget |-> Bounds(some)]

(* Sharing: two invitations for one seat, with a removal or time between;   *)
(* an invitation withdrawn while it is accepted; authority lost on the way; *)
(* a key asked for, approved and received across a removal and a return.    *)
Sharers ==
  {Alone("plus", [invite |-> 2, respond |-> 1, remove |-> 1]),
   Alone("plus", [invite |-> 2, respond |-> 1, tick |-> 1]),
   Team([invite |-> 1, respond |-> 2, remove |-> 1, cancel |-> 1]),
   Team([invite |-> 1, role |-> 1, remove |-> 1]),
   Alone("plus", [invite |-> 1, respond |-> 1, key |-> 1, approve |-> 1,
                  complete |-> 1]),
   Team([key |-> 2, approve |-> 1, complete |-> 1, remove |-> 1,
         password |-> 1]),
   Team([key |-> 1, complete |-> 1, remove |-> 1, invite |-> 1,
         respond |-> 1])}

(* Access: a removal around a token and its socket, with a failure and time *)
(* for tokens and revocations to expire; the same beside a deletion.        *)
Removals ==
  {[Team([remove |-> 1, fault |-> 1, schedule |-> 1])
      EXCEPT !.vaults = {v1, v2}],
   Team([remove |-> 1, token |-> 1, connect |-> 1, fault |-> 1, tick |-> 2,
         schedule |-> 1]),
   Team([remove |-> 1, delete |-> 1, token |-> 1, connect |-> 1, fault |-> 1,
         schedule |-> 1]),
   Team([create |-> 1, remove |-> 1, token |-> 1, schedule |-> 1])}

(* Deletions: by two managers, queued and inline; beside the retention scan. *)
Deletions ==
  {Team([delete |-> 1, inline |-> 1, token |-> 1, connect |-> 1, fault |-> 2]),
   Alone("free", [delete |-> 1, retention |-> 1, token |-> 1, connect |-> 1,
                  fault |-> 2])}

(* Payments: two changes at the provider, delivered in any order; a change   *)
(* of plan; a lapse while tokens and the suspension expire; a period that   *)
(* ends and is paid again or not.                                           *)
Payments ==
  {Team([provider |-> 2, token |-> 1, connect |-> 1]),
   [Team([provider |-> 1, token |-> 1, connect |-> 1, tick |-> 1])
      EXCEPT !.until = 1],
   Team([plan |-> 1, token |-> 1, connect |-> 1, fault |-> 1]),
   Team([provider |-> 1, token |-> 1, connect |-> 1, fault |-> 1,
         tick |-> 1])}

(* Purchases: two managers start checkouts at once, where the provider does *)
(* not know the organization, knows a manager's e-mail address, or has a     *)
(* customer from before; a checkout is paid, and a portal opened.           *)
Purchases ==
  {[Team([checkout |-> 2, portal |-> 1, pay |-> 1, fault |-> 1]) EXCEPT
      !.plan = "free", !.bound = start.bound, !.customers = start.customers] :
     start \in {[bound |-> None, customers |-> {}],
                [bound |-> None, customers |-> {"foreign"}],
                [bound |-> "legacy", customers |-> {"legacy"}]}}

(* Letters: an invitation's e-mail is asked for again and again; a page that *)
(* is opened sends the changes that wait.                                   *)
Letters ==
  {Alone("plus", [email |-> 1, invite |-> 1, resend |-> 3, cancel |-> 1,
                  tick |-> 2]),
   Team([remove |-> 1, view |-> 1, fault |-> 1, schedule |-> 1])}

\* A deletion by the owner and the retention scan, on the free plan.
Claims == {Alone("free", [delete |-> 1, retention |-> 1, token |-> 1])}

AllScenarios == Sharers \cup Removals \cup Deletions \cup Payments
                  \cup Purchases \cup Letters
=============================================================================
