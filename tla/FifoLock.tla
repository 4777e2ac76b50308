------------------------------ MODULE FifoLock ------------------------------
(***************************************************************************)
(* A lock per vault that serves its callers in the order of their arrival: *)
(* what the Node server asks of VaultLockRegistry.                         *)
(***************************************************************************)
CONSTANTS
  Call,     \* calls that may be made
  Vault,
  VaultOf   \* the vault of every call

VARIABLES
  stage,    \* a call is idle, waits or runs
  ahead     \* the calls a call arrived after and that have not ended

vars == <<stage, ahead>>

Active(v) == {c \in Call : VaultOf[c] = v /\ stage[c] # "idle"}

Init ==
  /\ stage = [c \in Call |-> "idle"]
  /\ ahead = [c \in Call |-> {}]

Arrive(c) ==
  /\ stage[c] = "idle"
  /\ stage' = [stage EXCEPT ![c] = "waiting"]
  /\ ahead' = [ahead EXCEPT ![c] = Active(VaultOf[c])]

Begin(c) ==
  /\ stage[c] = "waiting" /\ ahead[c] = {}
  /\ stage' = [stage EXCEPT ![c] = "running"]
  /\ UNCHANGED ahead

End(c) ==
  /\ stage[c] = "running"
  /\ stage' = [stage EXCEPT ![c] = "idle"]
  /\ ahead' = [d \in Call |-> ahead[d] \ {c}]

\* The process ends.
Forget ==
  /\ stage' = [c \in Call |-> "idle"]
  /\ ahead' = [c \in Call |-> {}]

Next == (\E c \in Call : Arrive(c) \/ Begin(c) \/ End(c)) \/ Forget

Spec == Init /\ [][Next]_vars
=============================================================================
