---------------------------- MODULE ControlPlane ----------------------------
(***************************************************************************)
(* The control plane: the requests, queue consumers and timer runs of the  *)
(* four parts interleave at every await, any of them may end half-way, and *)
(* time passes.                                                            *)
(***************************************************************************)
EXTENDS Sharing, VaultAccess, VaultLifecycle, Billing

\* The process of a job ends: what it wrote stays, what it held is gone.  A
\* coordinator finishes the refresh it was asked for whether or not the
\* caller lives, and a queue delivers again.
Abandon(j) ==
  /\ job[j].pc \notin {"idle", "snapshot", "suspension", "apply"}
  /\ job[j].op \notin {"purge", "policy", "letter"}
  /\ EndsByFault(j)
  /\ lost' = (lost \/ Forgotten(j))
  /\ UNCHANGED <<memberVars, keyVars, vault, outboxVars, accessVars,
                 coordinator, purgeVars, billingVars, now>>

Tick ==
  /\ budget["tick"] > 0
  /\ budget' = [budget EXCEPT !["tick"] = @ - 1]
  /\ now' = now + 1
  /\ UNCHANGED <<memberVars, keyVars, vault, outboxVars, accessVars,
                 coordinator, purgeVars, billingVars, lost, job>>

StartRequest(j) == \/ StartSharing(j) \/ StartAccess(j)
                   \/ StartLifecycle(j) \/ StartBilling(j)

Step(j) == \/ SharingStep(j) \/ AccessStep(j)
           \/ LifecycleStep(j) \/ BillingStep(j)

FaultOf(j) == \/ SharingFault(j) \/ RefreshFails(j)
              \/ LifecycleFault(j) \/ BillingFault(j) \/ Abandon(j)

Next ==
  \/ \E j \in Jobs : StartRequest(j) \/ Step(j) \/ FaultOf(j)
  \/ ClientStep \/ ProviderStep \/ Tick

Spec == Init /\ [][Next]_vars

\* A job that can go on does so: nothing in a handler waits for anything but
\* the calls it made, and the scheduled flush and the queues run on their own.
FairSpec == /\ Spec
            /\ WF_vars(Step(Timer))
            /\ WF_vars(\E j \in Jobs \ {Timer} : Step(j))
=============================================================================
