----------------------------- MODULE VaultLock -----------------------------
(***************************************************************************)
(* VaultLockRegistry.run: every caller waits for the promise of the caller *)
(* before it, which `tails` holds for its vault, and leaves its own there. *)
(* The entry is deleted by the caller that still finds its own promise.    *)
(***************************************************************************)
CONSTANTS
  Call,      \* calls of run that may be made
  Vault,
  VaultOf,   \* the vault of every call
  None

ASSUME LockAssumption == VaultOf \in [Call -> Vault] /\ None \notin Call

VARIABLES
  tails,   \* the call whose promise the map holds for a vault, or None
  prev,    \* the call whose promise a waiting call awaits, None once it is
           \*   resolved
  stage,   \* a call is idle, waits or runs its function
  ahead    \* history variable: calls of the vault that arrived earlier

lockVars == <<tails, prev, stage, ahead>>

Calling(v) == {c \in Call : VaultOf[c] = v /\ stage[c] # "idle"}

LockTypeOK ==
  /\ tails \in [Vault -> Call \cup {None}]
  /\ prev \in [Call -> Call \cup {None}]
  /\ stage \in [Call -> {"idle", "waiting", "running"}]
  /\ ahead \in [Call -> SUBSET Call]

LockInit ==
  /\ tails = [v \in Vault |-> None]
  /\ prev = [c \in Call |-> None]
  /\ stage = [c \in Call |-> "idle"]
  /\ ahead = [c \in Call |-> {}]

Run(c) ==
  /\ stage[c] = "idle"
  /\ prev' = [prev EXCEPT ![c] = tails[VaultOf[c]]]
  /\ tails' = [tails EXCEPT ![VaultOf[c]] = c]
  /\ stage' = [stage EXCEPT ![c] = "waiting"]
  /\ ahead' = [ahead EXCEPT ![c] = Calling(VaultOf[c])]

Enter(c) ==
  /\ stage[c] = "waiting" /\ prev[c] = None
  /\ stage' = [stage EXCEPT ![c] = "running"]
  /\ UNCHANGED <<tails, prev, ahead>>

\* Mutant: the entry is deleted whoever has replaced it.
LeaveDeletes(c) ==
  /\ stage[c] = "running"
  /\ prev' = [d \in Call |-> IF prev[d] = c THEN None ELSE prev[d]]
  /\ tails' = [tails EXCEPT ![VaultOf[c]] = None]
  /\ stage' = [stage EXCEPT ![c] = "idle"]
  /\ ahead' = [d \in Call |-> ahead[d] \ {c}]

\* The function has ended: its promise is resolved, and its entry is deleted
\* unless a later call has replaced it.
Leave(c) ==
  /\ stage[c] = "running"
  /\ prev' = [d \in Call |-> IF prev[d] = c THEN None ELSE prev[d]]
  /\ tails' = [tails EXCEPT ![VaultOf[c]] = IF @ = c THEN None ELSE @]
  /\ stage' = [stage EXCEPT ![c] = "idle"]
  /\ ahead' = [d \in Call |-> ahead[d] \ {c}]

\* The registry is memory of the process.
LockForgotten ==
  /\ tails' = [v \in Vault |-> None]
  /\ prev' = [c \in Call |-> None]
  /\ stage' = [c \in Call |-> "idle"]
  /\ ahead' = [c \in Call |-> {}]

LockNext == (\E c \in Call : Run(c) \/ Enter(c) \/ Leave(c)) \/ LockForgotten

LockSpec == LockInit /\ [][LockNext]_lockVars

-----------------------------------------------------------------------------
(* Properties. *)

\* No two functions of one vault run at the same time, whatever calls come
\* and go while the entries of `tails` are replaced and deleted.
OneAtATime ==
  \A c, d \in Call :
    stage[c] = "running" /\ stage[d] = "running" /\ VaultOf[c] = VaultOf[d] => c = d

Fifo == INSTANCE FifoLock
=============================================================================
