-------------------------- MODULE NodeServer_proofs --------------------------
(***************************************************************************)
(* Proofs about the vault lock, for any calls and vaults, and about the    *)
(* Node server, for any vaults, sockets, requests, keys and events.        *)
(*   1. The lock: the chain of promises admits the calls of a vault one at *)
(*      a time and in the order of arrival, and every step of the server   *)
(*      is a step of the lock.                                             *)
(*   2. The process: types, who may be at work when, what has drained.     *)
(*   3. The storage: what an operation can be doing, and whose the files   *)
(*      on disk are.                                                       *)
(*   4. The promise of ObjectStore, step by step.                          *)
(***************************************************************************)
EXTENDS NodeServer, FiniteSetTheorems, TLAPS

-----------------------------------------------------------------------------
(* The lock by itself.  The inductive invariant says that the chain of     *)
(* promises is the order of arrival: a waiting call awaits the last of the *)
(* calls ahead of it, and `tails` holds the call that has all the others   *)
(* of its vault ahead of it.                                               *)

IdleCallsWaitForNothing ==
  \A c \in Call : stage[c] = "idle" => prev[c] = None /\ ahead[c] = {}

AheadAreCalling ==
  \A c \in Call : ahead[c] \subseteq Calling(VaultOf[c]) \ {c}

Ordered ==
  \A c, d \in Call :
    /\ stage[c] # "idle" /\ stage[d] # "idle"
    /\ VaultOf[c] = VaultOf[d] /\ c # d
    => c \in ahead[d] \/ d \in ahead[c]

RunningIsFirst == \A c \in Call : stage[c] = "running" => ahead[c] = {}

AwaitsTheLast ==
  \A c \in Call :
    /\ prev[c] = None => ahead[c] = {}
    /\ prev[c] # None => /\ prev[c] \in ahead[c]
                         /\ ahead[c] = ahead[prev[c]] \cup {prev[c]}

TailIsLast ==
  \A v \in Vault :
    /\ tails[v] = None => Calling(v) = {}
    /\ tails[v] # None => /\ tails[v] \in Calling(v)
                          /\ ahead[tails[v]] = Calling(v) \ {tails[v]}

LockInv ==
  /\ LockTypeOK
  /\ IdleCallsWaitForNothing
  /\ AheadAreCalling
  /\ Ordered
  /\ RunningIsFirst
  /\ AwaitsTheLast
  /\ TailIsLast

LEMMA InitInv == LockInit => LockInv
BY LockAssumption
   DEF LockInit, LockInv, LockTypeOK, IdleCallsWaitForNothing, AheadAreCalling,
       Ordered, RunningIsFirst, AwaitsTheLast, TailIsLast, Calling

LEMMA ForgottenInv == LockForgotten => LockInv'
BY LockAssumption
   DEF LockForgotten, LockInv, LockTypeOK, IdleCallsWaitForNothing, AheadAreCalling,
       Ordered, RunningIsFirst, AwaitsTheLast, TailIsLast, Calling

LEMMA StutterInv == LockInv /\ UNCHANGED lockVars => LockInv'
BY DEF lockVars, LockInv, LockTypeOK, IdleCallsWaitForNothing, AheadAreCalling,
       Ordered, RunningIsFirst, AwaitsTheLast, TailIsLast, Calling

\* A call that arrives awaits the one in `tails`, which has all others ahead.
LEMMA RunInv ==
  ASSUME LockInv, NEW c \in Call, Run(c)
  PROVE  LockInv'
<1> DEFINE v == VaultOf[c]
<1> USE LockAssumption
<1>1. /\ LockTypeOK /\ IdleCallsWaitForNothing /\ AheadAreCalling
      /\ Ordered /\ RunningIsFirst /\ AwaitsTheLast /\ TailIsLast
  BY DEF LockInv
<1>2. /\ v \in Vault /\ stage[c] = "idle" /\ prev[c] = None /\ ahead[c] = {}
      /\ c \notin Calling(v)
  BY <1>1 DEF Run, IdleCallsWaitForNothing, Calling
<1>3. LockTypeOK'
  <2>1. Calling(v) \in SUBSET Call
    BY DEF Calling
  <2>2. QED
    BY <1>1, <1>2, <2>1 DEF Run, LockTypeOK
<1>4. /\ stage'[c] = "waiting" /\ prev'[c] = tails[v] /\ ahead'[c] = Calling(v)
      /\ \A d \in Call \ {c} : /\ stage'[d] = stage[d] /\ prev'[d] = prev[d]
                               /\ ahead'[d] = ahead[d]
      /\ tails'[v] = c
      /\ \A w \in Vault \ {v} : tails'[w] = tails[w]
  BY <1>1, <1>2 DEF Run, LockTypeOK
<1>5. /\ Calling(v)' = Calling(v) \cup {c}
      /\ \A w \in Vault \ {v} : Calling(w)' = Calling(w)
  BY <1>1, <1>2, <1>4 DEF Calling, LockTypeOK
<1>6. \A d \in Call : c \notin ahead[d] /\ prev[d] # c
  BY <1>1, <1>2 DEF AheadAreCalling, AwaitsTheLast, Calling
<1>7. IdleCallsWaitForNothing'
  BY <1>1, <1>4 DEF IdleCallsWaitForNothing
<1>8. AheadAreCalling'
  <2> SUFFICES ASSUME NEW d \in Call
               PROVE  ahead'[d] \subseteq Calling(VaultOf[d])' \ {d}
    BY DEF AheadAreCalling
  <2>1. CASE d = c
    BY <1>2, <1>4, <1>5, <2>1
  <2>2. CASE d # c
    <3>1. ahead'[d] \subseteq Calling(VaultOf[d]) \ {d}
      BY <1>1, <1>4, <2>2 DEF AheadAreCalling
    <3>2. Calling(VaultOf[d]) \subseteq Calling(VaultOf[d])'
      BY <1>5
    <3>3. QED
      BY <3>1, <3>2
  <2>3. QED
    BY <2>1, <2>2
<1>9. Ordered'
  <2> SUFFICES ASSUME NEW d \in Call, NEW e \in Call,
                      stage'[d] # "idle", stage'[e] # "idle",
                      VaultOf[d] = VaultOf[e], d # e
               PROVE  d \in ahead'[e] \/ e \in ahead'[d]
    BY DEF Ordered
  <2>1. CASE d = c
    BY <1>4, <2>1 DEF Calling
  <2>2. CASE e = c
    BY <1>4, <2>2 DEF Calling
  <2>3. CASE d # c /\ e # c
    BY <1>1, <1>4, <2>3 DEF Ordered
  <2>4. QED
    BY <2>1, <2>2, <2>3
<1>10. RunningIsFirst'
  BY <1>1, <1>4 DEF RunningIsFirst
<1>11. AwaitsTheLast'
  <2> SUFFICES ASSUME NEW d \in Call
               PROVE  /\ prev'[d] = None => ahead'[d] = {}
                      /\ prev'[d] # None =>
                           /\ prev'[d] \in ahead'[d]
                           /\ ahead'[d] = ahead'[prev'[d]] \cup {prev'[d]}
    BY DEF AwaitsTheLast
  <2>1. CASE d = c
    <3>1. tails[v] = None => Calling(v) = {}
      BY <1>1, <1>2 DEF TailIsLast
    <3>2. tails[v] # None => /\ tails[v] \in Calling(v)
                             /\ ahead[tails[v]] = Calling(v) \ {tails[v]}
      BY <1>1, <1>2 DEF TailIsLast
    <3>3. tails[v] # None => tails[v] \in Call \ {c}
      BY <1>1, <1>2, <3>2 DEF LockTypeOK, Calling
    <3>4. QED
      BY <1>4, <2>1, <3>1, <3>2, <3>3
  <2>2. CASE d # c
    <3>1. prev[d] # None => prev[d] \in Call \ {c}
      BY <1>1, <1>6 DEF LockTypeOK
    <3>2. QED
      BY <1>1, <1>4, <2>2, <3>1 DEF AwaitsTheLast
  <2>3. QED
    BY <2>1, <2>2
<1>12. TailIsLast'
  <2> SUFFICES ASSUME NEW w \in Vault
               PROVE  /\ tails'[w] = None => Calling(w)' = {}
                      /\ tails'[w] # None =>
                           /\ tails'[w] \in Calling(w)'
                           /\ ahead'[tails'[w]] = Calling(w)' \ {tails'[w]}
    BY DEF TailIsLast
  <2>1. CASE w = v
    BY <1>2, <1>4, <1>5, <2>1
  <2>2. CASE w # v
    <3>1. tails[w] # None => tails[w] \in Call \ {c}
      BY <1>1, <1>2, <2>2 DEF TailIsLast, Calling
    <3>2. QED
      BY <1>1, <1>4, <1>5, <2>2, <3>1 DEF TailIsLast
  <2>3. QED
    BY <2>1, <2>2
<1>13. QED
  BY <1>3, <1>7, <1>8, <1>9, <1>10, <1>11, <1>12 DEF LockInv

\* A call begins when the promise it awaits is resolved: nothing is ahead.
LEMMA EnterInv ==
  ASSUME LockInv, NEW c \in Call, Enter(c)
  PROVE  LockInv' /\ ahead[c] = {}
<1>1. ahead[c] = {}
  BY DEF LockInv, AwaitsTheLast, Enter
<1>2. /\ stage'[c] = "running"
      /\ \A d \in Call \ {c} : stage'[d] = stage[d]
      /\ \A d \in Call : stage'[d] = "idle" <=> stage[d] = "idle"
      /\ tails' = tails /\ prev' = prev /\ ahead' = ahead
  BY DEF LockInv, LockTypeOK, Enter
<1>3. \A w \in Vault : Calling(w)' = Calling(w)
  BY <1>2 DEF Calling
<1>4. LockTypeOK'
  BY DEF LockInv, LockTypeOK, Enter
<1>5. IdleCallsWaitForNothing' /\ Ordered'
  BY <1>2 DEF LockInv, IdleCallsWaitForNothing, Ordered
<1>6. AheadAreCalling' /\ TailIsLast'
  BY <1>2, <1>3, LockAssumption DEF LockInv, AheadAreCalling, TailIsLast
<1>7. RunningIsFirst' /\ AwaitsTheLast'
  BY <1>1, <1>2 DEF LockInv, RunningIsFirst, AwaitsTheLast
<1>8. QED
  BY <1>1, <1>4, <1>5, <1>6, <1>7 DEF LockInv

\* A call that leaves is first; the one that awaits it, if any, becomes first.
LEMMA LeaveInv ==
  ASSUME LockInv, NEW c \in Call, Leave(c)
  PROVE  LockInv'
<1> DEFINE v == VaultOf[c]
<1> USE LockAssumption
<1>1. /\ LockTypeOK /\ IdleCallsWaitForNothing /\ AheadAreCalling
      /\ Ordered /\ RunningIsFirst /\ AwaitsTheLast /\ TailIsLast
  BY DEF LockInv
<1>2. /\ v \in Vault /\ stage[c] = "running" /\ ahead[c] = {} /\ prev[c] = None
      /\ c \in Calling(v)
  BY <1>1 DEF Leave, RunningIsFirst, AwaitsTheLast, Calling
<1>3. LockTypeOK'
  BY <1>1, <1>2 DEF Leave, LockTypeOK
<1>4. /\ stage'[c] = "idle"
      /\ \A d \in Call \ {c} : stage'[d] = stage[d]
      /\ \A d \in Call : /\ prev'[d] = IF prev[d] = c THEN None ELSE prev[d]
                         /\ ahead'[d] = ahead[d] \ {c}
      /\ tails'[v] = IF tails[v] = c THEN None ELSE tails[v]
      /\ \A w \in Vault \ {v} : tails'[w] = tails[w]
  BY <1>1, <1>2 DEF Leave, LockTypeOK
<1>5. /\ Calling(v)' = Calling(v) \ {c}
      /\ \A w \in Vault \ {v} : Calling(w)' = Calling(w)
  BY <1>4 DEF Calling
<1>6. IdleCallsWaitForNothing'
  BY <1>1, <1>2, <1>4 DEF IdleCallsWaitForNothing
<1>7. AheadAreCalling'
  BY <1>1, <1>4, <1>5 DEF AheadAreCalling
<1>8. Ordered'
  BY <1>1, <1>4 DEF Ordered
<1>9. RunningIsFirst'
  BY <1>1, <1>4 DEF RunningIsFirst
<1>10. AwaitsTheLast'
  <2> SUFFICES ASSUME NEW d \in Call
               PROVE  /\ prev'[d] = None => ahead'[d] = {}
                      /\ prev'[d] # None =>
                           /\ prev'[d] \in ahead'[d]
                           /\ ahead'[d] = ahead'[prev'[d]] \cup {prev'[d]}
    BY DEF AwaitsTheLast
  <2>1. CASE prev[d] = c
    <3>1. ahead[d] = {c}
      BY <1>1, <1>2, <2>1 DEF AwaitsTheLast, LockTypeOK
    <3>2. QED
      BY <1>4, <2>1, <3>1
  <2>2. CASE prev[d] = None
    BY <1>1, <1>4, <2>2 DEF AwaitsTheLast
  <2>3. CASE prev[d] # None /\ prev[d] # c
    <3>1. /\ prev[d] \in Call /\ prev'[d] = prev[d]
          /\ prev[d] \in ahead[d] /\ ahead[d] = ahead[prev[d]] \cup {prev[d]}
      BY <1>1, <1>4, <2>3 DEF AwaitsTheLast, LockTypeOK
    <3>2. ahead'[prev[d]] = ahead[prev[d]] \ {c}
      BY <1>4, <3>1
    <3>3. QED
      BY <1>4, <2>3, <3>1, <3>2
  <2>4. QED
    BY <2>1, <2>2, <2>3
<1>11. TailIsLast'
  <2> SUFFICES ASSUME NEW w \in Vault
               PROVE  /\ tails'[w] = None => Calling(w)' = {}
                      /\ tails'[w] # None =>
                           /\ tails'[w] \in Calling(w)'
                           /\ ahead'[tails'[w]] = Calling(w)' \ {tails'[w]}
    BY DEF TailIsLast
  <2>1. CASE w = v /\ tails[v] = c
    <3>1. Calling(v) = {c}
      BY <1>1, <1>2, <2>1 DEF TailIsLast
    <3>2. QED
      BY <1>4, <1>5, <2>1, <3>1
  <2>2. CASE w = v /\ tails[v] # c
    <3>1. tails[v] # None
      BY <1>1, <1>2 DEF TailIsLast
    <3>2. /\ tails[v] \in Calling(v)
          /\ ahead[tails[v]] = Calling(v) \ {tails[v]}
          /\ tails[v] \in Call
      BY <1>1, <1>2, <3>1 DEF TailIsLast, Calling
    <3>3. QED
      BY <1>4, <1>5, <2>2, <3>1, <3>2
  <2>3. CASE w # v
    <3>1. tails[w] # None => /\ tails[w] \in Call
                             /\ tails[w] \in Calling(w)
                             /\ ahead[tails[w]] = Calling(w) \ {tails[w]}
      BY <1>1 DEF TailIsLast, Calling
    <3>2. c \notin Calling(w)
      BY <2>3 DEF Calling
    <3>3. tails'[w] = tails[w] /\ Calling(w)' = Calling(w)
      BY <1>4, <1>5, <2>3
    <3>4. tails[w] = None => Calling(w) = {}
      BY <1>1 DEF TailIsLast
    <3>5. tails[w] # None => ahead'[tails[w]] = Calling(w) \ {tails[w]}
      BY <1>4, <3>1, <3>2
    <3>6. QED
      BY <3>1, <3>3, <3>4, <3>5
  <2>4. QED
    BY <2>1, <2>2, <2>3
<1>12. QED
  BY <1>3, <1>6, <1>7, <1>8, <1>9, <1>10, <1>11 DEF LockInv

LEMMA Inductive == LockSpec => []LockInv
<1>1. LockInv /\ [LockNext]_lockVars => LockInv'
  BY RunInv, EnterInv, LeaveInv, ForgottenInv, StutterInv DEF LockNext
<1>2. QED
  BY InitInv, <1>1, PTL DEF LockSpec

(* However many calls arrive and leave, no two functions of one vault run  *)
(* at the same time: this is what every property of the coordinator on     *)
(* Node takes for granted (vault-lock.ts, node-coordinator.ts).            *)
THEOREM MutualExclusion == LockSpec => []OneAtATime
<1>1. LockInv => OneAtATime
  BY DEF LockInv, OneAtATime, Ordered, RunningIsFirst
<1>2. QED
  BY Inductive, <1>1, PTL

(* The registry is a first-come lock: calls of a vault run in the order in *)
(* which they called run.                                                  *)
THEOREM InOrder == LockSpec => Fifo!Spec
<1>1. LockInit => Fifo!Init
  BY DEF LockInit, Fifo!Init
<1>2. LockInv /\ [LockNext]_lockVars => [Fifo!Next]_(Fifo!vars)
  <2> SUFFICES ASSUME LockInv, [LockNext]_lockVars
               PROVE  [Fifo!Next]_(Fifo!vars)
    OBVIOUS
  <2>1. ASSUME NEW c \in Call, Run(c)
        PROVE  Fifo!Arrive(c)
    BY <2>1 DEF Run, Fifo!Arrive, Calling, Fifo!Active
  <2>2. ASSUME NEW c \in Call, Enter(c)
        PROVE  Fifo!Begin(c)
    BY <2>2, EnterInv DEF Enter, Fifo!Begin
  <2>3. ASSUME NEW c \in Call, Leave(c)
        PROVE  Fifo!End(c)
    BY <2>3 DEF Leave, Fifo!End
  <2>4. ASSUME LockForgotten \/ UNCHANGED lockVars
        PROVE  Fifo!Forget \/ UNCHANGED Fifo!vars
    BY <2>4 DEF LockForgotten, Fifo!Forget, lockVars, Fifo!vars
  <2> QED
    BY <2>1, <2>2, <2>3, <2>4 DEF LockNext, Fifo!Next
<1>3. QED
  BY Inductive, <1>1, <1>2, PTL DEF LockSpec, Fifo!Spec

-----------------------------------------------------------------------------
(* The lock in the server, whose registry moves as VaultLock.              *)

\* Every call that the server makes is a call of the lock.
LEMMA CallsMade ==
  /\ \A s \in Sock, w \in SocketWork : <<s, w>> \in Call
  /\ \A v \in Vault : <<v, "alarm">> \in Call /\ VaultOf[<<v, "alarm">>] = v
  /\ \A r \in Op : <<r, "http">> \in Call /\ <<r, "late">> \in Call
  /\ Flush \in Op
  /\ \A c \in Call : VaultOf[c] \in Vault
BY ServerAssumption, LockAssumption DEF Calls

\* What one step does to the registry.
LockMoves ==
  \/ \E c \in Call : Run(c) \/ Enter(c) \/ Leave(c)
  \/ LockForgotten /\ phase' = "down"
  \/ UNCHANGED lockVars

LEMMA ServerKeepsLock == [Next]_vars => LockMoves
<1> SUFFICES ASSUME [Next]_vars
             PROVE  LockMoves
  OBVIOUS
<1> USE CallsMade
<1>1. ASSUME NEW s \in Sock,
             Upgrade(s) \/ Prepared(s) \/ Accept(s) \/ Message(s) \/ Disconnect(s)
               \/ SocketWorkEnds(s)
      PROVE  LockMoves
  <2>1. CASE Upgrade(s)
    BY <2>1 DEF Upgrade, LockMoves, SocketWork
  <2>2. CASE Prepared(s)
    BY <2>2 DEF Prepared, LeaveStale, LockMoves, SocketWork
  <2>3. CASE Accept(s)
    BY <2>3 DEF Accept, RunOn, LockMoves, SocketWork
  <2>4. CASE Message(s)
    BY <2>4 DEF Message, RunOn, LockMoves, SocketWork
  <2>5. CASE Disconnect(s)
    BY <2>5 DEF Disconnect, RunOn, LockMoves, SocketWork
  <2>6. CASE SocketWorkEnds(s)
    <3>1. PICK w \in {"open", "message", "leave"} : LeaveStale(<<s, w>>)
      BY <2>6 DEF SocketWorkEnds
    <3>2. QED
      BY <3>1 DEF LeaveStale, LockMoves, SocketWork
  <2>7. QED
    BY <1>1, <2>1, <2>2, <2>3, <2>4, <2>5, <2>6
<1>2. ASSUME NEW v \in Vault, AlarmDue(v) \/ AlarmCollects(v) \/ AlarmEnds(v)
      PROVE  LockMoves
  <2>1. CASE AlarmDue(v)
    BY <2>1 DEF AlarmDue, LockMoves
  <2>2. CASE AlarmCollects(v)
    BY <2>2 DEF AlarmCollects, LockMoves
  <2>3. CASE AlarmEnds(v)
    BY <2>3 DEF AlarmEnds, LeaveStale, LockMoves
  <2>4. QED
    BY <1>2, <2>1, <2>2, <2>3
<1>3. ASSUME NEW r \in Op,
             Arrive(r) \/ Hangup(r) \/ CallCoordinator(r) \/ CoordinatorAnswers(r)
               \/ StorageStep(r) \/ Respond(r)
      PROVE  LockMoves
  <2>1. CASE Arrive(r)
    BY <2>1 DEF Arrive, LockMoves
  <2>2. CASE Hangup(r)
    BY <2>2 DEF Hangup, LockMoves
  <2>3. CASE CallCoordinator(r)
    BY <2>3 DEF CallCoordinator, LockMoves
  <2>4. CASE CoordinatorAnswers(r)
    <3>1. PICK c \in HttpCalls(r) : LeaveStale(c)
      BY <2>4 DEF CoordinatorAnswers
    <3>2. QED
      BY <3>1 DEF LeaveStale, LockMoves, HttpCalls
  <2>5. CASE StorageStep(r)
    BY <2>5 DEF StorageStep, LockMoves
  <2>6. CASE Respond(r)
    BY <2>6 DEF Respond, LockMoves
  <2>7. QED
    BY <1>3, <2>1, <2>2, <2>3, <2>4, <2>5, <2>6
<1>4. ASSUME NEW c \in Call, EnterLock(c)
      PROVE  LockMoves
  BY <1>4 DEF EnterLock, LockMoves
<1>5. CASE FlushBegins \/ Shutdown \/ Closed \/ GiveUp \/ Settle \/ Boot
             \/ CreateRuntime \/ Listen
  BY <1>5 DEF FlushBegins, Shutdown, Closed, GiveUp, Settle, Boot, CreateRuntime,
              Listen, LockMoves
<1>6. CASE Exit \/ Kill \/ StartFails
  BY <1>6 DEF Exit, Kill, StartFails, Gone, LockMoves
<1>7. CASE UNCHANGED vars
  BY <1>7 DEF vars, LockMoves
<1>8. QED
  BY <1>1, <1>2, <1>3, <1>4, <1>5, <1>6, <1>7 DEF Next

LEMMA LockStep == LockInv /\ LockMoves => LockInv'
BY RunInv, EnterInv, LeaveInv, ForgottenInv, StutterInv DEF LockMoves

LEMMA ServerLock == Spec => []LockInv
<1>1. Init => LockInv
  BY InitInv DEF Init
<1>2. LockInv /\ [Next]_vars => LockInv'
  BY ServerKeepsLock, LockStep
<1>3. QED
  BY <1>1, <1>2, PTL DEF Spec

(* Under the server, too, no two functions of one coordinator run at the    *)
(* same time: sockets, alarms and requests call run in whatever order they  *)
(* like, also while the process shuts down (node-coordinator.ts).           *)
THEOREM ServerExcludes == Spec => []OneAtATime
<1>1. LockInv => OneAtATime
  BY DEF LockInv, OneAtATime, Ordered, RunningIsFirst
<1>2. QED
  BY ServerLock, <1>1, PTL

-----------------------------------------------------------------------------
(* The process.                                                             *)

LEMMA RunSets ==
  ASSUME LockTypeOK, NEW c \in Call, Run(c)
  PROVE  /\ stage[c] = "idle" /\ stage'[c] = "waiting"
         /\ \A d \in Call : d # c => stage'[d] = stage[d]
BY DEF LockTypeOK, Run

LEMMA EnterSets ==
  ASSUME LockTypeOK, NEW c \in Call, Enter(c)
  PROVE  /\ stage[c] = "waiting" /\ stage'[c] = "running"
         /\ \A d \in Call : d # c => stage'[d] = stage[d]
BY DEF LockTypeOK, Enter

LEMMA LeaveSets ==
  ASSUME LockTypeOK, NEW c \in Call, Leave(c)
  PROVE  /\ stage[c] = "running" /\ stage'[c] = "idle"
         /\ \A d \in Call : d # c => stage'[d] = stage[d]
BY DEF LockTypeOK, Leave

ServerTyped ==
  /\ phase \in {"down", "starting", "ready", "serving", "closing", "forcing",
                 "disposed"}
  /\ forced \in BOOLEAN
  /\ socket \in [Sock -> {"away", "upgrading", "admitted", "open", "closing"}]
  /\ connected \subseteq handling \ {Flush} /\ handling \subseteq Op
  /\ timer \subseteq runtimes /\ runtimes \subseteq Vault /\ leaked \subseteq Vault
  /\ stale \subseteq Call

BudgetTyped == \A e \in DOMAIN budget : budget[e] \in Nat

\* An alarm at work is that of an open coordinator, or it is stale.
AlarmsOpen ==
  \A v \in Vault :
    stage[<<v, "alarm">>] # "idle" /\ <<v, "alarm">> \notin stale => v \in runtimes

\* A process that has ended does nothing.
DownIsQuiet ==
  phase = "down" =>
    /\ \A c \in Call : stage[c] = "idle"
    /\ \A s \in Sock : socket[s] = "away"
    /\ handling = {} /\ timer = {}
    /\ \A o \in Op : op[o] = NoOp

ForcingIsForced == phase = "forcing" => forced

\* What a graceful end has waited for does not come back.
StaysDrained ==
  phase = "disposed" /\ ~forced =>
    /\ connected = {}
    /\ \A s \in Sock : socket[s] = "away"
    /\ \A s \in Sock, w \in SocketWork : stage[<<s, w>>] = "idle" /\ <<s, w>> \notin stale

ServerInv ==
  /\ ServerTyped /\ AlarmsOpen /\ DownIsQuiet /\ ForcingIsForced /\ StaysDrained

LEMMA ServerInit == Init => ServerInv /\ BudgetTyped
<1> SUFFICES ASSUME Init
             PROVE  ServerInv /\ BudgetTyped
  OBVIOUS
<1>1. PICK x \in Scenario :
        /\ LockInit
        /\ phase = "serving" /\ forced = FALSE
        /\ socket = [s \in Sock |-> "away"]
        /\ connected = {} /\ handling = {}
        /\ runtimes = x.open /\ timer = x.open /\ leaked = {} /\ stale = {}
        /\ budget = x.budget
  BY DEF Init
<1>2. QED
  BY <1>1, ServerAssumption, CallsMade
     DEF LockInit, ServerInv, BudgetTyped, ServerTyped, AlarmsOpen, DownIsQuiet,
         ForcingIsForced, StaysDrained

\* Events are paid for, and nobody owes.
LEMMA BudgetKept == BudgetTyped /\ [Next]_vars => BudgetTyped'
<1>1. ASSUME BudgetTyped, NEW e, Spend(e)
      PROVE  BudgetTyped'
  BY <1>1 DEF BudgetTyped, Spend
<1>2. ASSUME BudgetTyped, UNCHANGED budget
      PROVE  BudgetTyped'
  BY <1>2 DEF BudgetTyped
<1>3. [Next]_vars => UNCHANGED budget \/ \E e : Spend(e)
  <2> SUFFICES ASSUME [Next]_vars
               PROVE  UNCHANGED budget \/ \E e : Spend(e)
    OBVIOUS
  <2>1. ASSUME NEW s \in Sock,
               Upgrade(s) \/ Prepared(s) \/ Accept(s) \/ Message(s) \/ Disconnect(s)
                 \/ SocketWorkEnds(s)
        PROVE  UNCHANGED budget \/ \E e : Spend(e)
    BY <2>1 DEF Upgrade, Prepared, Accept, Message, Disconnect, SocketWorkEnds
  <2>2. ASSUME NEW v \in Vault, AlarmDue(v) \/ AlarmCollects(v) \/ AlarmEnds(v)
        PROVE  UNCHANGED budget \/ \E e : Spend(e)
    BY <2>2 DEF AlarmDue, AlarmCollects, AlarmEnds
  <2>3. ASSUME NEW r \in Op,
               Arrive(r) \/ Hangup(r) \/ CallCoordinator(r) \/ CoordinatorAnswers(r)
                 \/ StorageStep(r) \/ Respond(r)
        PROVE  UNCHANGED budget \/ \E e : Spend(e)
    <3>1. CASE Arrive(r)
      BY <3>1 DEF Arrive
    <3>2. CASE ~Arrive(r)
      BY <2>3, <3>2 DEF Hangup, CallCoordinator, CoordinatorAnswers, StorageStep,
                        Respond
    <3>3. QED
      BY <3>1, <3>2
  <2>4. CASE (\E c \in Call : EnterLock(c)) \/ FlushBegins \/ Shutdown \/ Closed
               \/ GiveUp \/ Settle \/ Exit \/ Kill \/ Boot \/ CreateRuntime
               \/ StartFails \/ Listen \/ UNCHANGED vars
    BY <2>4 DEF EnterLock, FlushBegins, Shutdown, Closed, GiveUp, Settle, Exit, Kill,
                Boot, CreateRuntime, StartFails, Listen, vars
  <2> QED
    BY <2>1, <2>2, <2>3, <2>4 DEF Next
<1>4. QED
  BY <1>1, <1>2, <1>3

LEMMA SocketsKeepServer ==
  ASSUME LockTypeOK, ServerInv, NEW s \in Sock,
         Upgrade(s) \/ Prepared(s) \/ Accept(s) \/ Message(s) \/ Disconnect(s)
           \/ SocketWorkEnds(s)
  PROVE  ServerInv'
<1> USE CallsMade DEF ServerInv
<1>1. /\ \A w \in SocketWork : <<s, w>> \in Call
      /\ \A w \in SocketWork, v \in Vault : <<s, w>> # <<v, "alarm">>
      /\ SockVault(s) \in Vault
  BY DEF SocketWork, SockVault
<1>2. CASE Upgrade(s)
  <2>1. Run(<<s, "prepare">>) /\ <<s, "prepare">> \in Call
    BY <1>1, <1>2 DEF Upgrade, SocketWork
  <2>2. /\ timer' \subseteq runtimes' /\ runtimes' \subseteq Vault
        /\ runtimes \subseteq runtimes'
    BY <1>1, <1>2 DEF Upgrade, GetOrCreateRuntime, CreateCoordinator, ServerTyped
  <2>3. ServerTyped'
    BY <1>2, <2>2 DEF Upgrade, ServerTyped
  <2>4. AlarmsOpen'
    BY <1>1, <1>2, <2>1, <2>2, RunSets DEF Upgrade, AlarmsOpen, SocketWork
  <2>5. DownIsQuiet' /\ ForcingIsForced' /\ StaysDrained'
    BY <1>2 DEF Upgrade, DownIsQuiet, ForcingIsForced, StaysDrained
  <2>6. QED
    BY <2>3, <2>4, <2>5
<1>3. CASE Prepared(s)
  <2> DEFINE c == <<s, "prepare">>
  <2>1. /\ Leave(c) /\ stale' = stale \ {c} /\ c \in Call
        /\ UNCHANGED <<phase, forced, connected, handling, runtimes, timer, leaked,
                       blobVars>>
        /\ socket' \in {[socket EXCEPT ![s] = "away"], [socket EXCEPT ![s] = "admitted"]}
    BY <1>1, <1>3 DEF Prepared, LeaveStale, SocketWork
  <2>2. /\ stage[c] = "running" /\ stage'[c] = "idle"
        /\ \A d \in Call : d # c => stage'[d] = stage[d]
    BY <2>1, LeaveSets
  <2>3. ServerTyped'
    BY <2>1 DEF ServerTyped
  <2>4. AlarmsOpen'
    BY <1>1, <2>1, <2>2 DEF AlarmsOpen, SocketWork
  <2>5. DownIsQuiet' /\ ForcingIsForced' /\ StaysDrained'
    BY <2>1, <2>2 DEF DownIsQuiet, ForcingIsForced, StaysDrained, SocketWork
  <2>6. QED
    BY <2>3, <2>4, <2>5
<1>4. CASE Accept(s) /\ Closing
  <2>1. /\ socket[s] = "admitted" /\ socket' = [socket EXCEPT ![s] = "away"]
        /\ UNCHANGED <<phase, forced, connected, handling, runtimes, timer, leaked,
                       stale, stage, blobVars>>
    BY <1>4 DEF Accept, lockVars
  <2>2. ServerTyped'
    BY <2>1 DEF ServerTyped
  <2>3. AlarmsOpen' /\ ForcingIsForced'
    BY <2>1 DEF AlarmsOpen, ForcingIsForced
  <2>4. DownIsQuiet' /\ StaysDrained'
    BY <2>1 DEF DownIsQuiet, StaysDrained, blobVars
  <2>5. QED
    BY <2>2, <2>3, <2>4
<1>5. CASE (Accept(s) /\ ~Closing) \/ Message(s) \/ Disconnect(s)
  <2>1. PICK c \in Work(s) : RunOn(c)
    BY <1>5 DEF Accept, Message, Disconnect, Work, SocketWork
  <2>2. /\ Run(c) /\ c \in Call
        /\ stale' = IF VaultOf[c] \in runtimes THEN stale ELSE stale \cup {c}
        /\ \A v \in Vault : c # <<v, "alarm">>
    BY <1>1, <2>1 DEF RunOn, Work
  <2>3. /\ UNCHANGED <<phase, forced, connected, handling, runtimes, timer, leaked,
                       blobVars>>
        /\ socket[s] # "away"
    BY <1>5 DEF Accept, Message, Disconnect
  <2>4. socket' \in [Sock -> {"away", "upgrading", "admitted", "open", "closing"}]
    <3>1. CASE Accept(s) /\ ~Closing
      BY <3>1 DEF Accept, Registered, ServerTyped
    <3>2. CASE Message(s)
      BY <3>2 DEF Message, ServerTyped
    <3>3. CASE Disconnect(s)
      BY <3>3 DEF Disconnect, ServerTyped
    <3>4. QED
      BY <1>5, <3>1, <3>2, <3>3
  <2>5. ServerTyped'
    BY <2>2, <2>3, <2>4 DEF ServerTyped
  <2>6. AlarmsOpen'
    BY <2>2, <2>3, RunSets DEF AlarmsOpen
  <2>7. DownIsQuiet' /\ ForcingIsForced' /\ StaysDrained'
    BY <2>3 DEF DownIsQuiet, ForcingIsForced, StaysDrained
  <2>8. QED
    BY <2>5, <2>6, <2>7
<1>6. CASE SocketWorkEnds(s)
  <2>1. PICK w \in {"open", "message", "leave"} : LeaveStale(<<s, w>>)
    BY <1>6 DEF SocketWorkEnds
  <2> DEFINE c == <<s, w>>
  <2>2. /\ Leave(c) /\ stale' = stale \ {c} /\ c \in Call
        /\ UNCHANGED <<phase, forced, socket, connected, handling, runtimes, leaked,
                       blobVars>>
        /\ timer' \subseteq runtimes'
        /\ w \in SocketWork /\ \A v \in Vault : c # <<v, "alarm">>
    BY <1>1, <1>6, <2>1 DEF SocketWorkEnds, LeaveStale, MayArm, ServerTyped, SocketWork
  <2>3. /\ stage[c] = "running" /\ stage'[c] = "idle"
        /\ \A d \in Call : d # c => stage'[d] = stage[d]
    BY <2>2, LeaveSets
  <2>4. ServerTyped'
    BY <2>2 DEF ServerTyped
  <2>5. AlarmsOpen'
    BY <2>2, <2>3 DEF AlarmsOpen
  <2>6. DownIsQuiet' /\ ForcingIsForced' /\ StaysDrained'
    BY <2>2, <2>3 DEF DownIsQuiet, ForcingIsForced, StaysDrained
  <2>7. QED
    BY <2>4, <2>5, <2>6
<1>7. QED
  BY <1>2, <1>3, <1>4, <1>5, <1>6

LEMMA AlarmsKeepServer ==
  ASSUME LockTypeOK, ServerInv, NEW v \in Vault,
         AlarmDue(v) \/ AlarmCollects(v) \/ AlarmEnds(v)
  PROVE  ServerInv'
<1> USE CallsMade DEF ServerInv
<1> DEFINE c == <<v, "alarm">>
<1>1. /\ c \in Call
      /\ \A s \in Sock, w \in SocketWork : <<s, w>> \in Call /\ <<s, w>> # c
      /\ \A u \in Vault : u # v => <<u, "alarm">> # c
  BY DEF SocketWork
<1>2. CASE AlarmDue(v)
  <2>1. /\ Run(c) /\ v \in timer /\ timer' = timer \ {v}
        /\ UNCHANGED <<phase, forced, socket, connected, handling, runtimes, leaked,
                       stale, blobVars>>
    BY <1>2 DEF AlarmDue
  <2>2. \A d \in Call : d # c => stage'[d] = stage[d]
    BY <1>1, <2>1, RunSets
  <2>3. ServerTyped' /\ v \in runtimes
    BY <2>1 DEF ServerTyped
  <2>4. AlarmsOpen'
    BY <1>1, <2>1, <2>2, <2>3 DEF AlarmsOpen
  <2>5. DownIsQuiet' /\ ForcingIsForced'
    BY <2>1 DEF DownIsQuiet, ForcingIsForced
  <2>6. StaysDrained'
    BY <1>1, <2>1, <2>2 DEF StaysDrained
  <2>7. QED
    BY <2>3, <2>4, <2>5, <2>6
<1>3. CASE AlarmCollects(v)
  <2>1. stage[c] = "running" /\ UNCHANGED <<stage, serverVars>>
    BY <1>3 DEF AlarmCollects, lockVars
  <2>2. ServerTyped' /\ AlarmsOpen' /\ ForcingIsForced' /\ StaysDrained'
    BY <2>1 DEF ServerTyped, AlarmsOpen, ForcingIsForced, StaysDrained, serverVars
  <2>3. DownIsQuiet'
    BY <1>1, <2>1 DEF DownIsQuiet, serverVars
  <2>4. QED
    BY <2>2, <2>3
<1>4. CASE AlarmEnds(v)
  <2>1. /\ Leave(c) /\ stale' = stale \ {c}
        /\ UNCHANGED <<phase, forced, socket, connected, handling, runtimes, blobVars>>
        /\ \/ c \in stale /\ leaked' = leaked \cup {v} /\ UNCHANGED timer
           \/ c \notin stale /\ timer' \subseteq timer \cup {v} /\ UNCHANGED leaked
    BY <1>4 DEF AlarmEnds, LeaveStale
  <2>2. /\ stage[c] = "running" /\ stage'[c] = "idle"
        /\ \A d \in Call : d # c => stage'[d] = stage[d]
    BY <1>1, <2>1, LeaveSets
  <2>3. timer' \subseteq runtimes
    BY <2>1, <2>2 DEF AlarmsOpen, ServerTyped
  <2>4. ServerTyped'
    BY <2>1, <2>3 DEF ServerTyped
  <2>5. AlarmsOpen'
    BY <1>1, <2>1, <2>2 DEF AlarmsOpen
  <2>6. DownIsQuiet' /\ ForcingIsForced'
    BY <1>1, <2>1, <2>2 DEF DownIsQuiet, ForcingIsForced
  <2>7. StaysDrained'
    BY <1>1, <2>1, <2>2 DEF StaysDrained
  <2>8. QED
    BY <2>4, <2>5, <2>6, <2>7
<1>5. QED
  BY <1>2, <1>3, <1>4

LEMMA RequestsKeepServer ==
  ASSUME LockTypeOK, ServerInv, NEW r \in Op,
         Arrive(r) \/ Hangup(r) \/ CallCoordinator(r) \/ CoordinatorAnswers(r)
           \/ StorageStep(r) \/ Respond(r)
  PROVE  ServerInv'
<1> USE CallsMade DEF ServerInv
<1>1. /\ HttpCalls(r) \subseteq Call
      /\ \A c \in HttpCalls(r), v \in Vault : c # <<v, "alarm">>
      /\ \A c \in HttpCalls(r), s \in Sock, w \in SocketWork : c # <<s, w>>
  BY DEF HttpCalls, SocketWork
<1>2. CASE Arrive(r)
  <2>1. /\ phase = "serving" /\ r # Flush
        /\ connected' = connected \cup {r} /\ handling' = handling \cup {r}
        /\ UNCHANGED <<phase, forced, socket, runtimes, timer, leaked, stale, stage>>
    BY <1>2 DEF Arrive, lockVars
  <2>2. ServerTyped' /\ AlarmsOpen' /\ DownIsQuiet' /\ ForcingIsForced' /\ StaysDrained'
    BY <2>1 DEF ServerTyped, AlarmsOpen, DownIsQuiet, ForcingIsForced, StaysDrained
  <2>3. QED
    BY <2>2
<1>3. CASE Hangup(r)
  <2>1. /\ connected' = connected \ {r} /\ r \in connected
        /\ UNCHANGED <<phase, forced, socket, handling, runtimes, timer, leaked, stale,
                       stage, op>>
    BY <1>3 DEF Hangup, lockVars, blobVars
  <2>2. ServerTyped' /\ AlarmsOpen' /\ DownIsQuiet' /\ ForcingIsForced' /\ StaysDrained'
    BY <2>1 DEF ServerTyped, AlarmsOpen, DownIsQuiet, ForcingIsForced, StaysDrained
  <2>3. QED
    BY <2>2
<1>4. CASE CallCoordinator(r)
  <2>1. PICK c \in HttpCalls(r) : Run(c) /\ GetOrCreateRuntime(VaultOf[c])
    BY <1>4 DEF CallCoordinator, HttpCalls
  <2>2. /\ r \in handling /\ c \in Call
        /\ UNCHANGED <<phase, forced, socket, connected, handling, leaked, stale>>
    BY <1>1, <1>4 DEF CallCoordinator
  <2>3. \A d \in Call : d # c => stage'[d] = stage[d]
    BY <2>1, <2>2, RunSets
  <2>4. /\ timer' \subseteq runtimes' /\ runtimes' \subseteq Vault
        /\ runtimes \subseteq runtimes'
    BY <2>1, <2>2 DEF GetOrCreateRuntime, CreateCoordinator, ServerTyped
  <2>5. ServerTyped'
    BY <2>2, <2>4 DEF ServerTyped
  <2>6. AlarmsOpen'
    BY <1>1, <2>2, <2>3, <2>4 DEF AlarmsOpen
  <2>7. DownIsQuiet' /\ ForcingIsForced'
    BY <2>2 DEF DownIsQuiet, ForcingIsForced
  <2>8. StaysDrained'
    BY <1>1, <2>2, <2>3 DEF StaysDrained
  <2>9. QED
    BY <2>5, <2>6, <2>7, <2>8
<1>5. CASE CoordinatorAnswers(r)
  <2>1. PICK c \in HttpCalls(r) : LeaveStale(c) /\ MayArm(VaultOf[c])
    BY <1>5 DEF CoordinatorAnswers
  <2>2. /\ Leave(c) /\ stale' = stale \ {c} /\ c \in Call
        /\ timer' \subseteq timer \cup runtimes
        /\ handling' = handling \ ({r} \cap {Flush})
        /\ UNCHANGED <<phase, forced, socket, connected, runtimes, leaked>>
    BY <1>1, <1>5, <2>1 DEF CoordinatorAnswers, LeaveStale, MayArm
  <2>3. /\ stage[c] = "running" /\ stage'[c] = "idle"
        /\ \A d \in Call : d # c => stage'[d] = stage[d]
    BY <2>2, LeaveSets
  <2>4. ServerTyped'
    BY <2>2 DEF ServerTyped
  <2>5. AlarmsOpen'
    BY <1>1, <2>2, <2>3 DEF AlarmsOpen
  <2>6. DownIsQuiet' /\ ForcingIsForced'
    BY <2>2, <2>3 DEF DownIsQuiet, ForcingIsForced
  <2>7. StaysDrained'
    BY <1>1, <2>2, <2>3 DEF StaysDrained
  <2>8. QED
    BY <2>4, <2>5, <2>6, <2>7
<1>6. CASE StorageStep(r)
  <2>1. UNCHANGED <<stage, serverVars>>
    BY <1>6 DEF StorageStep, lockVars
  <2>2. ServerTyped' /\ AlarmsOpen' /\ ForcingIsForced' /\ StaysDrained'
    BY <2>1 DEF ServerTyped, AlarmsOpen, ForcingIsForced, StaysDrained, serverVars
  <2>3. phase # "down"
    BY <1>6 DEF StorageStep, DownIsQuiet, NoOp
  <2>4. QED
    BY <2>1, <2>2, <2>3 DEF DownIsQuiet, serverVars
<1>7. CASE Respond(r)
  <2>1. /\ handling' = handling \ {r} /\ connected' = connected \ {r} /\ r \in handling
        /\ UNCHANGED <<phase, forced, socket, runtimes, timer, leaked, stale, stage>>
    BY <1>7 DEF Respond, lockVars
  <2>2. ServerTyped' /\ AlarmsOpen' /\ DownIsQuiet' /\ ForcingIsForced' /\ StaysDrained'
    BY <2>1 DEF ServerTyped, AlarmsOpen, DownIsQuiet, ForcingIsForced, StaysDrained
  <2>3. QED
    BY <2>2
<1>8. QED
  BY <1>2, <1>3, <1>4, <1>5, <1>6, <1>7

\* The coordinators are closed: whoever is at work is stale.
LEMMA ClosingKeepsServer ==
  ASSUME ServerInv, Closed \/ Settle
  PROVE  ServerInv'
<1> USE DEF ServerInv
<1>1. /\ phase' = "disposed" /\ CloseAll
      /\ UNCHANGED <<forced, socket, connected, handling, leaked, stage>>
  BY DEF Closed, Settle, lockVars
<1>2. ServerTyped'
  BY <1>1 DEF ServerTyped, CloseAll
<1>3. AlarmsOpen'
  BY <1>1, CallsMade DEF AlarmsOpen, CloseAll
<1>4. StaysDrained'
  <2>1. CASE Closed
    <3>1. /\ connected = {}
          /\ \A s \in Sock : socket[s] = "away"
          /\ \A s \in Sock, w \in SocketWork : stage[<<s, w>>] = "idle"
      BY <2>1 DEF Closed, Drained, Idle, Work
    <3>2. QED
      BY <1>1, <3>1 DEF StaysDrained, CloseAll
  <2>2. CASE Settle
    BY <1>1, <2>2 DEF Settle, ForcingIsForced, StaysDrained
  <2>3. QED
    BY <2>1, <2>2
<1>5. DownIsQuiet' /\ ForcingIsForced'
  BY <1>1 DEF DownIsQuiet, ForcingIsForced
<1>6. QED
  BY <1>2, <1>3, <1>4, <1>5

LEMMA LifeKeepsServer ==
  ASSUME LockTypeOK, ServerInv,
         FlushBegins \/ Shutdown \/ GiveUp \/ Exit \/ Kill \/ Boot \/ CreateRuntime
           \/ StartFails \/ Listen
  PROVE  ServerInv'
<1> USE CallsMade DEF ServerInv
<1>1. CASE FlushBegins
  <2>1. /\ phase \notin {"down", "disposed"} /\ handling' = handling \cup {Flush}
        /\ UNCHANGED <<phase, forced, socket, connected, runtimes, timer, leaked, stale,
                       stage>>
    BY <1>1 DEF FlushBegins, lockVars
  <2>2. ServerTyped' /\ AlarmsOpen' /\ DownIsQuiet' /\ ForcingIsForced' /\ StaysDrained'
    BY <2>1 DEF ServerTyped, AlarmsOpen, DownIsQuiet, ForcingIsForced, StaysDrained
  <2>3. QED
    BY <2>2
<1>2. CASE Shutdown \/ GiveUp
  <2>1. /\ phase' \in {"closing", "forcing"} /\ connected' \subseteq connected
        /\ forced' \in BOOLEAN /\ (phase' = "forcing" => forced')
        /\ UNCHANGED <<handling, runtimes, timer, leaked, stale, stage>>
    BY <1>2 DEF Shutdown, GiveUp, lockVars, ServerTyped
  <2>2. socket' \in [Sock -> {"away", "upgrading", "admitted", "open", "closing"}]
    BY <1>2 DEF Shutdown, GiveUp, ServerTyped
  <2>3. ServerTyped'
    BY <2>1, <2>2 DEF ServerTyped
  <2>4. AlarmsOpen' /\ DownIsQuiet' /\ ForcingIsForced' /\ StaysDrained'
    BY <2>1 DEF AlarmsOpen, DownIsQuiet, ForcingIsForced, StaysDrained
  <2>5. QED
    BY <2>3, <2>4
<1>3. CASE Exit \/ Kill \/ StartFails
  <2>1. Gone
    BY <1>3 DEF Exit, Kill, StartFails
  <2>2. ServerTyped'
    BY <2>1 DEF Gone, ServerTyped
  <2>3. AlarmsOpen'
    BY <2>1 DEF Gone, LockForgotten, AlarmsOpen
  <2>4. DownIsQuiet'
    BY <2>1 DEF Gone, LockForgotten, BlobCrash, DownIsQuiet
  <2>5. ForcingIsForced' /\ StaysDrained'
    BY <2>1 DEF Gone, ForcingIsForced, StaysDrained
  <2>6. QED
    BY <2>2, <2>3, <2>4, <2>5
<1>4. CASE Boot \/ CreateRuntime \/ Listen
  <2>1. /\ phase' \in {"starting", "ready", "serving"}
        /\ UNCHANGED <<forced, socket, connected, handling, runtimes, timer, leaked, stale,
                       stage>>
    BY <1>4 DEF Boot, CreateRuntime, Listen, lockVars
  <2>2. ServerTyped' /\ AlarmsOpen' /\ DownIsQuiet' /\ ForcingIsForced' /\ StaysDrained'
    BY <2>1 DEF ServerTyped, AlarmsOpen, DownIsQuiet, ForcingIsForced, StaysDrained
  <2>3. QED
    BY <2>2
<1>5. QED
  BY <1>1, <1>2, <1>3, <1>4

LEMMA ServerKept == LockTypeOK /\ ServerInv /\ [Next]_vars => ServerInv'
<1> SUFFICES ASSUME LockTypeOK, ServerInv, [Next]_vars
             PROVE  ServerInv'
  OBVIOUS
<1>1. ASSUME NEW c \in Call, EnterLock(c)
      PROVE  ServerInv'
  <2>1. Enter(c) /\ UNCHANGED <<serverVars, blobVars>>
    BY <1>1 DEF EnterLock
  <2>2. \A d \in Call : stage'[d] = "idle" <=> stage[d] = "idle"
    BY <2>1, EnterSets
  <2>3. QED
    BY <2>1, <2>2, CallsMade
       DEF ServerInv, ServerTyped, AlarmsOpen, DownIsQuiet, ForcingIsForced,
           StaysDrained, serverVars, blobVars
<1>2. CASE UNCHANGED vars
  BY <1>2
     DEF ServerInv, ServerTyped, AlarmsOpen, DownIsQuiet, ForcingIsForced, StaysDrained,
         vars, serverVars, blobVars, lockVars
<1>3. QED
  BY <1>1, <1>2, SocketsKeepServer, AlarmsKeepServer, RequestsKeepServer,
     ClosingKeepsServer, LifeKeepsServer DEF Next

LEMMA ServerInductive == Spec => [](LockInv /\ ServerInv /\ BudgetTyped)
<1>1. LockInv => LockTypeOK
  BY DEF LockInv
<1>2. (LockInv /\ ServerInv /\ BudgetTyped) /\ [Next]_vars
        => (LockInv /\ ServerInv /\ BudgetTyped)'
  BY <1>1, ServerKeepsLock, LockStep, ServerKept, BudgetKept
<1>3. Init => LockInv /\ ServerInv /\ BudgetTyped
  BY InitInv, ServerInit DEF Init
<1>4. QED
  BY <1>2, <1>3, PTL DEF Spec

(* A shutdown that was not forced closed no database under the work of a    *)
(* socket, nor under a request whose client still waits: what it has seen   *)
(* drained stays drained, since nothing new is let in and what is left has  *)
(* no client (node-shutdown.ts, node-websocket.ts).                         *)
THEOREM GracefulDrains == Spec => []GracefulMeansDrained
<1>1. ServerInv => GracefulMeansDrained
  <2> SUFFICES ASSUME ServerInv, phase = "disposed", ~forced, NEW c \in stale
               PROVE  c \notin Sock \X SocketWork /\ c[1] \notin connected
    BY DEF GracefulMeansDrained
  <2>1. QED
    BY DEF ServerInv, StaysDrained
<1>2. QED
  BY ServerInductive, <1>1, PTL

-----------------------------------------------------------------------------
(* The storage.                                                             *)

Verdicts == {"none", "ok", "failed", "absent", "whole", "cut"}

Uploading == {"staging", "opening", "receiving", "renaming", "cleaning", "sending",
              "placed", "aborting"}

OpRecord ==
  [does : {"nothing", "put", "get", "collect", "purge"},
   pc : Uploading \cup {"idle", "done", "looking", "reading", "asking", "deleting",
                        "listing", "removing"},
   keys : SUBSET Key, todo : SUBSET Key, chunk : SUBSET Key, left : SUBSET Key,
   failed : SUBSET Key, later : BOOLEAN, verdict : Verdicts]

\* What an operation does, and where it can be when it does that.
Does(q) ==
  /\ q.pc \in Uploading => q.does = "put"
  /\ q.pc \in {"looking", "reading"} => q.does = "get"
  /\ q.pc = "asking" => q.does = "collect"
  /\ q.pc \in {"listing", "removing"} => q.does = "purge"
  /\ q.pc = "deleting" => q.does \in {"collect", "purge"}
  /\ q.pc = "idle" => q = NoOp
  /\ q.pc = "done" => q.does # "nothing"

\* The keys of an operation, and those a deletion still owes.
Owes(q) ==
  /\ q.left \subseteq q.chunk
  /\ q.todo \cup q.chunk \cup q.failed \subseteq q.keys
  /\ q.does \in {"put", "get"} => \E k \in Key : q.keys = {k}
  /\ q.pc \in {"asking", "listing"} => q.left = {}
  /\ q.pc \in {"listing", "removing"} => q.failed = {}
  /\ q.pc = "removing" => q.left = {} /\ q.todo = {}
  /\ q.pc \notin {"idle", "done"} => q.verdict = "none"

OpsOK == op \in [Op -> OpRecord] /\ \A o \in Op : Does(op[o]) /\ Owes(op[o])

StoreTyped ==
  /\ backend \in {"disk", "s3", "r2"}
  /\ object \in [Key -> {"absent", "whole", "cut"}]
  /\ room \in BOOLEAN
  /\ part \subseteq Op /\ littered \subseteq part

\* Only the disk has .part files, and whose they are: an upload has one from
\* when it opened it to when it renamed or removed it, or failed to.
OwnsPart(o) == op[o].pc \in {"receiving", "renaming", "cleaning"}

PartsOwned ==
  /\ backend # "disk" => part = {}
  /\ phase # "down" =>
       \A o \in Op :
         /\ o \in littered => op[o].pc \in {"aborting", "done"}
         /\ o \in part => o \in littered \/ OwnsPart(o)
         /\ backend = "disk" /\ OwnsPart(o) => o \in part
         /\ op[o].pc \in {"renaming", "cleaning"} => backend = "disk"

StorageInv == OpsOK /\ StoreTyped /\ PartsOwned

\* What one step does to the storage: a step of one operation, while the
\* process lives, or a crash, or a start.
Starts(o) ==
  \/ \E k \in Key : UploadBlob(o, k) \/ DownloadBlob(o, k)
  \/ DeleteByPrefix(o)
  \/ \E K \in SUBSET Key : DeleteMany(o, K)

Works(o) == Starts(o) \/ BlobStep(o) \/ StageAnswered(o) \/ AbortUpload(o)

StorageMoves ==
  \/ phase # "down" /\ phase' # "down" /\ \E o \in Op : Works(o)
  \/ phase' = "down" /\ BlobCrash
  \/ phase = "down" /\ Initialize
  \/ (phase' = "down" <=> phase = "down") /\ UNCHANGED blobVars

LEMMA ServerMovesStorage == ServerInv /\ [Next]_vars => StorageMoves
<1> SUFFICES ASSUME ServerInv, [Next]_vars
             PROVE  StorageMoves
  OBVIOUS
<1>1. DownIsQuiet /\ ServerTyped
  BY DEF ServerInv
<1>2. ASSUME NEW s \in Sock,
             Upgrade(s) \/ Prepared(s) \/ Accept(s) \/ Message(s) \/ Disconnect(s)
               \/ SocketWorkEnds(s)
      PROVE  StorageMoves
  BY <1>2 DEF Upgrade, Prepared, Accept, Message, Disconnect, SocketWorkEnds,
              StorageMoves
<1>3. ASSUME NEW v \in Vault, AlarmDue(v) \/ AlarmEnds(v)
      PROVE  StorageMoves
  BY <1>3 DEF AlarmDue, AlarmEnds, StorageMoves
<1>4. ASSUME NEW v \in Vault, AlarmCollects(v)
      PROVE  StorageMoves
  <2>1. PICK o \in Op \ {Flush}, K \in SUBSET Key \ {{}} : DeleteMany(o, K)
    BY <1>4 DEF AlarmCollects
  <2>2. phase # "down" /\ phase' = phase
    BY <1>1, <1>4, CallsMade DEF AlarmCollects, DownIsQuiet, serverVars
  <2>3. QED
    BY <2>1, <2>2 DEF StorageMoves, Works, Starts
<1>5. ASSUME NEW r \in Op, Arrive(r)
      PROVE  StorageMoves
  BY <1>5 DEF Arrive, StorageMoves, Works, Starts
<1>6. ASSUME NEW r \in Op, Hangup(r) \/ CallCoordinator(r) \/ Respond(r)
      PROVE  StorageMoves
  BY <1>6 DEF Hangup, CallCoordinator, Respond, StorageMoves
<1>7. ASSUME NEW r \in Op, CoordinatorAnswers(r)
      PROVE  StorageMoves
  <2>1. phase' = phase
    BY <1>7 DEF CoordinatorAnswers
  <2>2. UNCHANGED blobVars \/ StageAnswered(r) \/ AbortUpload(r)
    BY <1>7 DEF CoordinatorAnswers, StageAnswered
  <2>3. StageAnswered(r) \/ AbortUpload(r) => phase # "down"
    BY <1>1 DEF DownIsQuiet, StageAnswered, AbortUpload, At, NoOp
  <2>4. QED
    BY <2>1, <2>2, <2>3 DEF StorageMoves, Works
<1>8. ASSUME NEW r \in Op, StorageStep(r)
      PROVE  StorageMoves
  <2>1. phase # "down"
    BY <1>1, <1>8 DEF StorageStep, DownIsQuiet, NoOp
  <2>2. QED
    BY <1>8, <2>1 DEF StorageStep, serverVars, StorageMoves, Works
<1>9. CASE (\E c \in Call : EnterLock(c)) \/ FlushBegins \/ Shutdown \/ Closed \/ GiveUp
             \/ Settle \/ CreateRuntime \/ Listen
  BY <1>9 DEF EnterLock, FlushBegins, Shutdown, Closed, GiveUp, Settle, CreateRuntime,
              Listen, StorageMoves, serverVars
<1>10. CASE Exit \/ Kill \/ StartFails
  BY <1>10 DEF Exit, Kill, StartFails, Gone, StorageMoves
<1>11. CASE Boot
  BY <1>11 DEF Boot, StorageMoves
<1>12. CASE UNCHANGED vars
  BY <1>12 DEF vars, serverVars, StorageMoves
<1>13. QED
  BY <1>2, <1>3, <1>4, <1>5, <1>6, <1>7, <1>8, <1>9, <1>10, <1>11, <1>12 DEF Next

LEMMA OpKept ==
  ASSUME OpsOK, NEW o \in Op, NEW r \in OpRecord, Does(r), Owes(r), Becomes(o, r)
  PROVE  /\ OpsOK' /\ op'[o] = r
         /\ \A p \in Op : p # o => op'[p] = op[p]
BY DEF OpsOK, Becomes

\* An upload goes on.
LEMMA UploadMoves ==
  ASSUME OpsOK, NEW o \in Op, op[o].pc \in Uploading, NEW pc \in Uploading, Goes(o, pc)
  PROVE  /\ OpsOK' /\ op'[o] = [op[o] EXCEPT !.pc = pc] /\ op'[o].pc = pc
         /\ \A p \in Op : p # o => op'[p] = op[p]
<1> DEFINE r == [op[o] EXCEPT !.pc = pc]
<1>1. op[o] \in OpRecord /\ Does(op[o]) /\ Owes(op[o])
  BY DEF OpsOK
<1>2. r \in OpRecord /\ r.pc = pc
  BY <1>1 DEF OpRecord
<1>3. Does(r)
  BY <1>1 DEF Does, OpRecord, Uploading
<1>4. Owes(r)
  BY <1>1 DEF Owes, OpRecord, Uploading
<1>5. Becomes(o, r)
  BY DEF Goes
<1> HIDE DEF r
<1>6. QED
  BY <1>2, <1>3, <1>4, <1>5, OpKept DEF r

\* An operation ends with an answer.
LEMMA OpReports ==
  ASSUME OpsOK, NEW o \in Op, op[o].does # "nothing", NEW verdict \in Verdicts,
         NEW failed \in SUBSET op[o].keys, Reports(o, verdict, failed)
  PROVE  /\ OpsOK'
         /\ op'[o] = [NoOp EXCEPT !.does = op[o].does, !.pc = "done", !.keys = op[o].keys,
                                  !.failed = failed, !.verdict = verdict]
         /\ op'[o].pc = "done"
         /\ \A p \in Op : p # o => op'[p] = op[p]
<1> DEFINE r == [NoOp EXCEPT !.does = op[o].does, !.pc = "done", !.keys = op[o].keys,
                             !.failed = failed, !.verdict = verdict]
<1>1. op[o] \in OpRecord /\ Does(op[o]) /\ Owes(op[o])
  BY DEF OpsOK
<1>2. /\ r.does = op[o].does /\ r.pc = "done" /\ r.keys = op[o].keys /\ r.todo = {}
      /\ r.chunk = {} /\ r.left = {} /\ r.failed = failed /\ r.verdict = verdict
  BY DEF NoOp
<1>3. r \in OpRecord
  <2>1. op[o].does \in {"nothing", "put", "get", "collect", "purge"}
        /\ op[o].keys \in SUBSET Key /\ failed \in SUBSET Key
    BY <1>1 DEF OpRecord
  <2>2. QED
    BY <2>1 DEF NoOp, OpRecord, Uploading, Verdicts
<1>4. Becomes(o, r)
  BY DEF Reports
<1> HIDE DEF r
<1>5. Does(r)
  BY <1>2 DEF Does, Uploading
<1>6. Owes(r)
  BY <1>1, <1>2 DEF Owes
<1>7. QED
  BY <1>2, <1>3, <1>4, <1>5, <1>6, OpKept DEF r

LEMMA KeyKnown ==
  ASSUME NEW o \in Op, NEW k \in Key, op[o].keys = {k}
  PROVE  KeyOf(o) = k
BY DEF KeyOf

\* What a step may do to the files without losing sight of one.
LEMMA PartsKept ==
  ASSUME PartsOwned, phase # "down", NEW o \in Op,
         \A p \in Op : p # o => op'[p] = op[p],
         \A p \in Op : p # o => /\ p \in part' <=> p \in part
                                /\ p \in littered' <=> p \in littered,
         backend' = backend,
         part' \subseteq part \/ backend = "disk",
         o \in littered' => op'[o].pc \in {"aborting", "done"},
         o \in part' => o \in littered' \/ OwnsPart(o)',
         backend = "disk" /\ OwnsPart(o)' => o \in part',
         op'[o].pc \in {"renaming", "cleaning"} => backend = "disk"
  PROVE  PartsOwned'
BY DEF PartsOwned, OwnsPart

\* Steps that leave the files alone are those of an operation that has none.
LEMMA PartsUntouched ==
  ASSUME PartsOwned, phase # "down", NEW o \in Op,
         \A p \in Op : p # o => op'[p] = op[p],
         UNCHANGED <<backend, part, littered>>,
         ~OwnsPart(o), ~OwnsPart(o)',
         o \in littered => op'[o].pc \in {"aborting", "done"}
  PROVE  PartsOwned'
BY DEF PartsOwned, OwnsPart

LEMMA StartsBegin ==
  ASSUME NEW o \in Op, Starts(o)
  PROVE  \E does \in {"put", "get", "collect", "purge"},
            pc \in {"staging", "looking", "asking", "listing"}, K \in SUBSET Key :
           /\ Begins(o, does, pc, K)
           /\ <<does, pc>> \in {<<"put", "staging">>, <<"get", "looking">>,
                                <<"collect", "asking">>, <<"purge", "listing">>}
           /\ does \in {"put", "get"} => \E k \in Key : K = {k}
<1>1. ASSUME NEW k \in Key, UploadBlob(o, k) \/ DownloadBlob(o, k)
      PROVE  \E does \in {"put", "get"}, pc \in {"staging", "looking"} :
               /\ Begins(o, does, pc, {k})
               /\ <<does, pc>> \in {<<"put", "staging">>, <<"get", "looking">>}
  BY <1>1 DEF UploadBlob, DownloadBlob
<1>2. ASSUME NEW K \in SUBSET Key, DeleteMany(o, K)
      PROVE  Begins(o, "collect", "asking", K)
  BY <1>2 DEF DeleteMany
<1>3. DeleteByPrefix(o) => Begins(o, "purge", "listing", Key)
  BY DEF DeleteByPrefix
<1>4. CASE \E k \in Key : UploadBlob(o, k) \/ DownloadBlob(o, k)
  <2>1. PICK k \in Key : UploadBlob(o, k) \/ DownloadBlob(o, k)
    BY <1>4
  <2>2. {k} \in SUBSET Key
    OBVIOUS
  <2>3. QED
    BY ZenonT(90), <1>1, <2>1, <2>2
<1>5. QED
  BY <1>2, <1>3, <1>4 DEF Starts

LEMMA StartsKeep ==
  ASSUME StorageInv, phase # "down", NEW o \in Op, Starts(o)
  PROVE  StorageInv'
<1> USE DEF StorageInv
<1>1. PICK does \in {"put", "get", "collect", "purge"},
           pc \in {"staging", "looking", "asking", "listing"}, K \in SUBSET Key :
        /\ Begins(o, does, pc, K)
        /\ <<does, pc>> \in {<<"put", "staging">>, <<"get", "looking">>,
                             <<"collect", "asking">>, <<"purge", "listing">>}
        /\ does \in {"put", "get"} => \E k \in Key : K = {k}
  BY StartsBegin
<1> DEFINE r == [NoOp EXCEPT !.does = does, !.pc = pc, !.keys = K, !.todo = K]
<1>2. /\ r.does = does /\ r.pc = pc /\ r.keys = K /\ r.todo = K /\ r.chunk = {}
      /\ r.left = {} /\ r.failed = {} /\ r.verdict = "none" /\ r \in OpRecord
  BY DEF NoOp, OpRecord, Uploading, Verdicts
<1>3. Becomes(o, r) /\ Untouched /\ op[o] = NoOp
  BY <1>1 DEF Begins
<1> HIDE DEF r
<1>4. Does(r) /\ Owes(r)
  BY <1>1, <1>2 DEF Does, Owes, Uploading
<1>5. OpsOK' /\ op'[o] = r /\ \A p \in Op : p # o => op'[p] = op[p]
  BY <1>2, <1>3, <1>4, OpKept
<1>6. StoreTyped'
  BY <1>3 DEF StoreTyped, Untouched
<1>7. o \notin littered /\ ~OwnsPart(o) /\ ~OwnsPart(o)'
  BY <1>2, <1>3, <1>5 DEF PartsOwned, OwnsPart, NoOp
<1>8. PartsOwned'
  BY <1>3, <1>5, <1>7, PartsUntouched DEF Untouched
<1>9. QED
  BY <1>5, <1>6, <1>8

\* Answering ends an operation that has no file of its own any more.
LEMMA AnswerKeeps ==
  ASSUME StorageInv, phase # "down", NEW o \in Op, op[o].does # "nothing", ~OwnsPart(o),
         NEW verdict \in Verdicts, NEW failed \in SUBSET op[o].keys,
         Reports(o, verdict, failed),
         UNCHANGED <<backend, object, part, littered>>, room' \in BOOLEAN
  PROVE  StorageInv'
<1> USE DEF StorageInv
<1>1. /\ OpsOK' /\ op'[o].pc = "done"
      /\ \A p \in Op : p # o => op'[p] = op[p]
  BY OpReports
<1>2. PartsOwned'
  BY <1>1, PartsUntouched DEF OwnsPart
<1>3. StoreTyped'
  BY DEF StoreTyped
<1>4. QED
  BY <1>1, <1>2, <1>3

\* What an upload does on its way.
LEMMA UploadsKeep ==
  ASSUME StorageInv, phase # "down", NEW o \in Op,
         \/ StageAnswered(o) \/ AbortUpload(o) \/ UploadAnswered(o)
         \/ OpenPart(o) \/ Rename(o) \/ Cleanup(o) \/ PutToS3(o) \/ PutToS3Fails(o)
  PROVE  StorageInv'
<1> USE DEF StorageInv
<1>1. /\ op[o] \in OpRecord /\ Does(op[o]) /\ Owes(op[o])
      /\ {} \in SUBSET op[o].keys
  BY DEF OpsOK
<1>2. op[o].does = "put" => \E k \in Key : op[o].keys = {k}
  BY <1>1 DEF Owes
<1>3. ASSUME op[o].pc \in {"staging", "placed", "aborting"},
             NEW verdict \in {"ok", "failed"}, Answers(o, verdict), Untouched
      PROVE  StorageInv'
  <2>1. op[o].does # "nothing" /\ ~OwnsPart(o)
    BY <1>1, <1>3 DEF Does, Uploading, OwnsPart
  <2>2. QED
    BY <1>1, <1>3, <2>1, AnswerKeeps DEF Answers, Untouched, StoreTyped, Verdicts
<1>4. CASE StageAnswered(o) /\ Goes(o, "opening")
  <2>1. /\ op[o].pc = "staging" /\ UNCHANGED <<backend, object, room, part, littered>>
        /\ OpsOK' /\ op'[o].pc = "opening"
        /\ \A p \in Op : p # o => op'[p] = op[p]
    BY <1>4, UploadMoves DEF StageAnswered, At, Untouched, Uploading
  <2>2. o \notin littered
    BY <2>1 DEF PartsOwned
  <2>3. PartsOwned'
    BY <2>1, <2>2, PartsUntouched DEF OwnsPart
  <2>4. QED
    BY <2>1, <2>3 DEF StoreTyped
<1>5. CASE OpenPart(o)
  <2>1. /\ op[o].pc = "opening"
        /\ UNCHANGED <<backend, object, littered>> /\ room' \in BOOLEAN
    BY <1>5 DEF OpenPart, At, StoreTyped
  <2>2. o \notin littered /\ o \notin part
    BY <2>1 DEF PartsOwned, OwnsPart
  <2>3. CASE Goes(o, "aborting") /\ part' = part
    <3>1. /\ OpsOK' /\ op'[o].pc = "aborting"
          /\ \A p \in Op : p # o => op'[p] = op[p]
      BY <2>1, <2>3, UploadMoves DEF Uploading
    <3>2. PartsOwned'
      BY <2>1, <2>2, <2>3, <3>1, PartsUntouched DEF OwnsPart
    <3>3. QED
      BY <2>1, <2>3, <3>1, <3>2 DEF StoreTyped
  <2>4. CASE Goes(o, "receiving")
               /\ part' = IF backend = "disk" THEN part \cup {o} ELSE part
    <3>1. /\ OpsOK' /\ op'[o].pc = "receiving"
          /\ \A p \in Op : p # o => op'[p] = op[p]
      BY <2>1, <2>4, UploadMoves DEF Uploading
    <3>2. PartsOwned'
      BY <2>1, <2>2, <2>4, <3>1, PartsKept DEF OwnsPart
    <3>3. StoreTyped'
      BY <2>1, <2>4 DEF StoreTyped
    <3>4. QED
      BY <3>1, <3>2, <3>3
  <2>5. QED
    BY <1>5, <2>3, <2>4 DEF OpenPart
<1>6. CASE Rename(o)
  <2>1. /\ op[o].pc = "renaming" /\ UNCHANGED <<backend, room, littered>>
        /\ op[o].does = "put"
    BY <1>1, <1>6 DEF Rename, At, Does, Uploading
  <2>2. PICK k \in Key : op[o].keys = {k}
    BY <1>2, <2>1
  <2>3. o \notin littered /\ backend = "disk"
    BY <2>1 DEF PartsOwned
  <2>4. CASE Goes(o, "cleaning") /\ UNCHANGED <<object, part>>
    <3>1. /\ OpsOK' /\ op'[o].pc = "cleaning"
          /\ \A p \in Op : p # o => op'[p] = op[p]
      BY <2>1, <2>4, UploadMoves DEF Uploading
    <3>2. backend = "disk" => o \in part
      BY <2>1 DEF PartsOwned, OwnsPart
    <3>3. PartsOwned'
      BY <2>1, <2>3, <2>4, <3>1, <3>2, PartsKept DEF OwnsPart
    <3>4. QED
      BY <2>1, <2>4, <3>1, <3>3 DEF StoreTyped
  <2>5. CASE /\ object' = [object EXCEPT ![KeyOf(o)] = "whole"]
             /\ part' = part \ {o} /\ Goes(o, "placed")
    <3>1. /\ OpsOK' /\ op'[o].pc = "placed"
          /\ \A p \in Op : p # o => op'[p] = op[p]
      BY <2>1, <2>5, UploadMoves DEF Uploading
    <3>2. PartsOwned'
      BY <2>1, <2>3, <2>5, <3>1, PartsKept DEF OwnsPart
    <3>3. StoreTyped'
      BY <2>1, <2>2, <2>3, <2>5, KeyKnown DEF StoreTyped
    <3>4. QED
      BY <3>1, <3>2, <3>3
  <2>6. QED
    BY <1>6, <2>4, <2>5 DEF Rename
<1>7. CASE Cleanup(o)
  <2>1. /\ op[o].pc = "cleaning" /\ UNCHANGED <<backend, object, room>>
        /\ OpsOK' /\ op'[o].pc = "aborting"
        /\ \A p \in Op : p # o => op'[p] = op[p]
    BY <1>7, UploadMoves DEF Cleanup, At, Uploading
  <2>2. o \notin littered /\ (backend = "disk" => o \in part)
    BY <2>1 DEF PartsOwned, OwnsPart
  <2>3. CASE part' = part \ {o} /\ UNCHANGED littered
    <3>1. PartsOwned'
      BY <2>1, <2>2, <2>3, PartsKept DEF OwnsPart
    <3>2. QED
      BY <2>1, <2>2, <2>3, <3>1 DEF StoreTyped
  <2>4. CASE littered' = littered \cup {o} /\ UNCHANGED part
    <3>1. o \in part
      BY <2>1, <2>2 DEF PartsOwned
    <3>2. PartsOwned'
      BY <2>1, <2>2, <2>4, PartsKept DEF OwnsPart
    <3>3. QED
      BY <2>1, <2>2, <2>4, <3>1, <3>2 DEF StoreTyped
  <2>5. QED
    BY <1>7, <2>3, <2>4 DEF Cleanup
<1>8. CASE PutToS3(o) \/ PutToS3Fails(o)
  <2>1. /\ op[o].pc = "sending" /\ UNCHANGED <<backend, room, part, littered>>
        /\ op[o].does = "put"
    BY <1>1, <1>8 DEF PutToS3, PutToS3Fails, At, Untouched, Does, Uploading
  <2>2. PICK k \in Key : op[o].keys = {k}
    BY <1>2, <2>1
  <2>3. PICK pc \in {"sending", "placed", "aborting"} : Goes(o, pc)
    BY <1>8 DEF PutToS3, PutToS3Fails
  <2>4. /\ OpsOK' /\ op'[o].pc = pc
        /\ \A p \in Op : p # o => op'[p] = op[p]
    BY <2>1, <2>3, UploadMoves DEF Uploading
  <2>5. o \notin littered
    BY <2>1 DEF PartsOwned
  <2>6. PartsOwned'
    BY <2>1, <2>3, <2>4, <2>5, PartsUntouched DEF OwnsPart
  <2>7. object' \in [Key -> {"absent", "whole", "cut"}]
    BY <1>8, <2>2, KeyKnown DEF PutToS3, PutToS3Fails, Untouched, StoreTyped
  <2>8. QED
    BY <2>1, <2>4, <2>6, <2>7 DEF StoreTyped
<1>9. QED
  BY <1>3, <1>4, <1>5, <1>6, <1>7, <1>8
     DEF StageAnswered, AbortUpload, UploadAnswered, At

\* The body of an upload arrives.
LEMMA BodiesKeep ==
  ASSUME StorageInv, phase # "down", NEW o \in Op,
         NEW body \in {"exact", "short", "long", "broken"},
         ReceiveOnDisk(o, body) \/ ReceiveForS3(o, body) \/ ReceiveForR2(o, body)
  PROVE  StorageInv'
<1> USE DEF StorageInv
<1>1. op[o] \in OpRecord /\ Does(op[o]) /\ Owes(op[o])
  BY DEF OpsOK
<1>2. op[o].pc = "receiving" /\ UNCHANGED <<backend, room, part, littered>>
  BY DEF ReceiveOnDisk, ReceiveForS3, ReceiveForR2, At, Untouched
<1>3. PICK k \in Key : op[o].keys = {k}
  BY <1>1, <1>2 DEF Does, Owes, Uploading
<1>4. PICK pc \in {"renaming", "cleaning", "sending", "placed", "aborting"} :
        /\ Goes(o, pc)
        /\ pc \in {"renaming", "cleaning"} <=> backend = "disk"
  BY DEF ReceiveOnDisk, ReceiveForS3, ReceiveForR2
<1>5. /\ OpsOK' /\ op'[o].pc = pc
      /\ \A p \in Op : p # o => op'[p] = op[p]
  BY <1>2, <1>4, UploadMoves DEF Uploading
<1>6. object' \in [Key -> {"absent", "whole", "cut"}]
  BY <1>3, KeyKnown DEF ReceiveOnDisk, ReceiveForS3, ReceiveForR2, Untouched, StoreTyped
<1>7. o \notin littered
  BY <1>2 DEF PartsOwned
<1>8. PartsOwned'
  <2>1. CASE backend = "disk"
    <3>1. o \in part
      BY <1>2, <2>1 DEF PartsOwned, OwnsPart
    <3>2. QED
      BY <1>2, <1>4, <1>5, <1>7, <2>1, <3>1, PartsKept DEF OwnsPart
  <2>2. CASE backend # "disk"
    BY <1>2, <1>4, <1>5, <1>7, <2>2, PartsKept DEF OwnsPart, PartsOwned
  <2>3. QED
    BY <2>1, <2>2
<1>9. QED
  BY <1>2, <1>5, <1>6, <1>8 DEF StoreTyped

LEMMA DownloadsKeep ==
  ASSUME StorageInv, phase # "down", NEW o \in Op, Look(o) \/ ReadFile(o)
  PROVE  StorageInv'
<1> USE DEF StorageInv
<1>1. op[o] \in OpRecord /\ Does(op[o]) /\ Owes(op[o])
  BY DEF OpsOK
<1>2. op[o].pc \in {"looking", "reading"} /\ Untouched /\ op[o].does = "get"
  BY <1>1 DEF Look, ReadFile, At, Does
<1>3. PICK k \in Key : op[o].keys = {k}
  BY <1>1, <1>2 DEF Owes
<1>4. KeyOf(o) = k /\ object[k] \in {"absent", "whole", "cut"}
  BY <1>3, KeyKnown DEF StoreTyped
<1>5. CASE \E verdict \in Verdicts : Answers(o, verdict)
  <2>1. PICK verdict \in Verdicts : Answers(o, verdict)
    BY <1>5
  <2>2. ~OwnsPart(o)
    BY <1>2 DEF OwnsPart
  <2>3. {} \in SUBSET op[o].keys
    OBVIOUS
  <2>4. QED
    BY <1>2, <2>1, <2>2, <2>3, AnswerKeeps DEF Answers, Untouched, StoreTyped
<1>6. CASE Goes(o, "reading") /\ op[o].pc = "looking"
  <2> DEFINE r == [op[o] EXCEPT !.pc = "reading"]
  <2>1. /\ r \in OpRecord /\ r.pc = "reading" /\ r.does = "get"
    BY <1>1, <1>2 DEF OpRecord
  <2>2. Does(r) /\ Owes(r)
    BY <1>1, <1>6, <2>1 DEF Does, Owes, OpRecord, Uploading
  <2>3. Becomes(o, r)
    BY <1>6 DEF Goes
  <2> HIDE DEF r
  <2>4. OpsOK' /\ op'[o] = r /\ \A p \in Op : p # o => op'[p] = op[p]
    BY <2>1, <2>2, <2>3, OpKept
  <2>5. o \notin littered
    BY <1>6 DEF PartsOwned
  <2>6. PartsOwned'
    BY <1>2, <1>6, <2>1, <2>4, <2>5, PartsUntouched DEF OwnsPart, Untouched
  <2>7. QED
    BY <1>2, <2>4, <2>6 DEF StoreTyped, Untouched
<1>7. QED
  BY <1>4, <1>5, <1>6 DEF Look, ReadFile, Verdicts, At

Deletes == {"asking", "deleting", "listing", "removing"}

\* A deletion goes on; it has no file.
LEMMA DeletionMoves ==
  ASSUME StorageInv, phase # "down", NEW o \in Op, op[o].pc \in Deletes,
         NEW r \in OpRecord, Does(r), Owes(r), r.pc \in Deletes, Becomes(o, r),
         UNCHANGED <<backend, room, part, littered>>,
         object' \in [Key -> {"absent", "whole", "cut"}]
  PROVE  StorageInv' /\ op'[o] = r /\ \A p \in Op : p # o => op'[p] = op[p]
<1> USE DEF StorageInv
<1>1. OpsOK' /\ op'[o] = r /\ \A p \in Op : p # o => op'[p] = op[p]
  BY OpKept
<1>2. o \notin littered
  BY DEF PartsOwned, Deletes
<1>3. PartsOwned'
  BY <1>1, <1>2, PartsUntouched DEF OwnsPart, Deletes
<1>4. StoreTyped'
  BY DEF StoreTyped
<1>5. QED
  BY <1>1, <1>3, <1>4

LEMMA PortionOf == \A K \in SUBSET Key : Portion(K) \subseteq K
BY DEF Portion, First

LEMMA DeletionsKeep ==
  ASSUME StorageInv, phase # "down", NEW o \in Op,
         \/ AskChunk(o) \/ ChunkDone(o) \/ ChunkFails(o)
         \/ ListPage(o) \/ PageDone(o) \/ PurgeFails(o) \/ RemoveRoom(o)
         \/ \E k \in Key : RemoveObject(o, k) \/ KeyFails(o, k)
  PROVE  StorageInv'
<1> DEFINE q == op[o]
<1>1. q \in OpRecord /\ Does(q) /\ Owes(q)
  BY DEF StorageInv, OpsOK
<1>2. object \in [Key -> {"absent", "whole", "cut"}] /\ room \in BOOLEAN
  BY DEF StorageInv, StoreTyped
<1>3. CASE \E verdict \in {"ok", "failed"}, failed \in SUBSET q.keys :
             /\ q.does \in {"collect", "purge"} /\ Reports(o, verdict, failed)
             /\ UNCHANGED <<backend, object, part, littered>> /\ room' \in BOOLEAN
  <2>1. PICK verdict \in {"ok", "failed"}, failed \in SUBSET q.keys :
               Reports(o, verdict, failed)
    BY <1>3
  <2>2. ~OwnsPart(o)
    BY <1>1, <1>3 DEF OwnsPart, Does, Uploading
  <2>3. QED
    BY <1>3, <2>1, <2>2, AnswerKeeps DEF Verdicts
<1>4. CASE AskChunk(o)
  <2> DEFINE chunk == Portion(q.todo)
             r == [q EXCEPT !.pc = "deleting", !.chunk = chunk, !.left = chunk,
                            !.todo = @ \ chunk]
  <2>1. chunk \subseteq q.todo /\ q.todo \in SUBSET Key
    BY <1>1, PortionOf DEF OpRecord
  <2>2. q.pc = "asking" /\ Becomes(o, r) /\ Untouched
    BY <1>4 DEF AskChunk, At
  <2> HIDE DEF chunk
  <2>3. /\ r \in OpRecord /\ r.pc = "deleting" /\ r.chunk = chunk /\ r.left = chunk
        /\ r.todo = q.todo \ chunk /\ r.does = q.does /\ r.failed = q.failed
        /\ r.keys = q.keys /\ r.verdict = q.verdict
    BY <1>1, <2>1 DEF OpRecord
  <2> HIDE DEF r
  <2>4. Does(r) /\ Owes(r)
    BY <1>1, <2>1, <2>2, <2>3 DEF Does, Owes, Uploading
  <2>5. QED
    BY <1>2, <2>2, <2>3, <2>4, DeletionMoves DEF Deletes, Untouched
<1>5. CASE \E k \in Key : RemoveObject(o, k) \/ KeyFails(o, k)
  <2>1. PICK k \in Key : RemoveObject(o, k) \/ KeyFails(o, k)
    BY <1>5
  <2>2. PICK failed \in SUBSET q.keys :
          Becomes(o, [q EXCEPT !.left = @ \ {k}, !.failed = failed])
    <3>1. CASE RemoveObject(o, k)
      <4>1. [q EXCEPT !.left = @ \ {k}] = [q EXCEPT !.left = @ \ {k}, !.failed = q.failed]
        BY <1>1 DEF OpRecord
      <4>2. q.failed \in SUBSET q.keys
        BY <1>1 DEF Owes
      <4>3. QED
        BY <3>1, <4>1, <4>2 DEF RemoveObject
    <3>2. CASE KeyFails(o, k)
      <4>1. q.failed \cup {k} \in SUBSET q.keys
        BY <1>1, <3>2 DEF KeyFails, Owes
      <4>2. [q EXCEPT !.left = @ \ {k}, !.failed = @ \cup {k}]
              = [q EXCEPT !.left = @ \ {k}, !.failed = q.failed \cup {k}]
        BY <1>1 DEF OpRecord
      <4>3. QED
        BY <3>2, <4>1, <4>2 DEF KeyFails
    <3>3. QED
      BY <2>1, <3>1, <3>2
  <2> DEFINE r == [q EXCEPT !.left = @ \ {k}, !.failed = failed]
  <2>3. q.pc = "deleting" /\ UNCHANGED <<backend, room, part, littered>>
    BY <2>1 DEF RemoveObject, KeyFails, At, Untouched
  <2>4. object' \in [Key -> {"absent", "whole", "cut"}]
    BY <1>2, <2>1 DEF RemoveObject, KeyFails, Untouched
  <2>5. /\ r \in OpRecord /\ r.pc = q.pc /\ r.chunk = q.chunk /\ r.left = q.left \ {k}
        /\ r.todo = q.todo /\ r.does = q.does /\ r.failed = failed
        /\ r.keys = q.keys /\ r.verdict = q.verdict
    <3>1. failed \in SUBSET Key
      BY <1>1 DEF OpRecord
    <3>2. QED
      BY <1>1, <3>1 DEF OpRecord
  <2>6. Becomes(o, r)
    BY <2>2
  <2> HIDE DEF r
  <2>7. Does(r) /\ Owes(r)
    BY <1>1, <2>3, <2>5 DEF Does, Owes, Uploading
  <2>8. QED
    BY <2>3, <2>4, <2>5, <2>6, <2>7, DeletionMoves DEF Deletes
<1>6. CASE \E pc \in {"asking", "listing"}, later \in BOOLEAN :
             /\ q.pc = "deleting" /\ q.left = {} /\ Untouched
             /\ pc = "asking" => q.does = "collect"
             /\ pc = "listing" => q.does = "purge" /\ q.failed = {}
             /\ Becomes(o, [q EXCEPT !.pc = pc, !.later = later, !.chunk = {}])
  <2>1. PICK pc \in {"asking", "listing"}, later \in BOOLEAN :
               /\ q.pc = "deleting" /\ q.left = {} /\ Untouched
               /\ pc = "asking" => q.does = "collect"
               /\ pc = "listing" => q.does = "purge" /\ q.failed = {}
               /\ Becomes(o, [q EXCEPT !.pc = pc, !.later = later, !.chunk = {}])
    BY <1>6
  <2> DEFINE r == [q EXCEPT !.pc = pc, !.later = later, !.chunk = {}]
  <2>2. /\ r \in OpRecord /\ r.pc = pc /\ r.chunk = {} /\ r.left = {}
        /\ r.todo = q.todo /\ r.does = q.does /\ r.failed = q.failed
        /\ r.keys = q.keys /\ r.verdict = q.verdict
    BY <1>1, <2>1 DEF OpRecord
  <2>3. Becomes(o, r)
    BY <2>1
  <2> HIDE DEF r
  <2>4. Does(r) /\ Owes(r)
    BY <1>1, <2>1, <2>2 DEF Does, Owes, Uploading
  <2>5. QED
    BY <1>2, <2>1, <2>2, <2>3, <2>4, DeletionMoves DEF Deletes, Untouched
<1>7. CASE ChunkDone(o)
  <2>1. q.does = "collect" /\ q.pc = "deleting" /\ q.left = {} /\ Untouched
    BY <1>7 DEF ChunkDone, At
  <2>2. CASE q.todo = {}
    <3>1. Reports(o, "ok", q.failed) /\ q.failed \in SUBSET q.keys
      BY <1>1, <1>7, <2>2 DEF ChunkDone, Owes
    <3>2. QED
      BY <1>2, <1>3, <2>1, <3>1 DEF Untouched
  <2>3. CASE q.todo # {}
    BY <1>6, <1>7, <2>1, <2>3 DEF ChunkDone
  <2>4. QED
    BY <2>2, <2>3
<1>8. CASE ChunkFails(o)
  <2>1. q.does = "collect" /\ Untouched
    BY <1>8 DEF ChunkFails
  <2>2. /\ q.failed \cup q.chunk \cup q.todo \in SUBSET q.keys
        /\ {} \in SUBSET q.keys
    BY <1>1 DEF Owes
  <2>3. QED
    BY <1>2, <1>3, <1>8, <2>1, <2>2 DEF ChunkFails, Answers, Untouched
<1>9. CASE ListPage(o)
  <2> DEFINE found == {k \in q.todo : object[k] # "absent"}
             page == Portion(found)
             todo == IF Truncated(found) THEN {k \in q.todo : \A j \in page : j < k} ELSE {}
             r == [q EXCEPT !.pc = "deleting", !.chunk = page, !.left = page,
                            !.todo = todo]
  <2>1. q.todo \in SUBSET Key
    BY <1>1 DEF OpRecord
  <2>2. page \subseteq q.todo /\ todo \subseteq q.todo
    BY <2>1, PortionOf
  <2>3. q.pc = "listing" /\ Becomes(o, r) /\ Untouched
    BY <1>9 DEF ListPage, At
  <2> HIDE DEF page, todo
  <2>4. /\ r \in OpRecord /\ r.pc = "deleting" /\ r.chunk = page /\ r.left = page
        /\ r.todo = todo /\ r.does = q.does /\ r.failed = q.failed
        /\ r.keys = q.keys /\ r.verdict = q.verdict
    BY <1>1, <2>1, <2>2 DEF OpRecord
  <2> HIDE DEF r
  <2>5. Does(r) /\ Owes(r)
    BY <1>1, <2>2, <2>3, <2>4 DEF Does, Owes, Uploading
  <2>6. QED
    BY <1>2, <2>3, <2>4, <2>5, DeletionMoves DEF Deletes, Untouched
<1>10. CASE PageDone(o)
  <2>1. /\ q.does = "purge" /\ q.pc = "deleting" /\ q.left = {} /\ Untouched
        /\ {} \in SUBSET q.keys
    BY <1>10 DEF PageDone, At
  <2>2. CASE \E verdict \in {"ok", "failed"} : Answers(o, verdict)
    BY <1>2, <1>3, <2>1, <2>2 DEF Answers, Untouched
  <2>3. CASE q.failed = {} /\ Becomes(o, [q EXCEPT !.pc = "listing", !.chunk = {}])
    <3>1. [q EXCEPT !.pc = "listing", !.chunk = {}]
            = [q EXCEPT !.pc = "listing", !.later = q.later, !.chunk = {}]
          /\ q.later \in BOOLEAN
      BY <1>1 DEF OpRecord
    <3>2. QED
      BY <1>6, <2>1, <2>3, <3>1
  <2>4. CASE q.failed = {} /\ q.todo = {} /\ Goes(o, "removing")
    <3> DEFINE r == [q EXCEPT !.pc = "removing"]
    <3>1. /\ r \in OpRecord /\ r.pc = "removing" /\ r.chunk = q.chunk /\ r.left = {}
          /\ r.todo = {} /\ r.does = q.does /\ r.failed = {}
          /\ r.keys = q.keys /\ r.verdict = q.verdict
      BY <1>1, <2>1, <2>4 DEF OpRecord
    <3>2. Becomes(o, r)
      BY <2>4 DEF Goes
    <3> HIDE DEF r
    <3>3. Does(r) /\ Owes(r)
      BY <1>1, <2>1, <3>1 DEF Does, Owes, Uploading
    <3>4. QED
      BY <1>2, <2>1, <3>1, <3>2, <3>3, DeletionMoves DEF Deletes, Untouched
  <2>5. QED
    BY <1>10, <2>2, <2>3, <2>4 DEF PageDone
<1>11. CASE PurgeFails(o)
  <2>1. q.does = "purge" /\ Untouched /\ Answers(o, "failed") /\ {} \in SUBSET q.keys
    BY <1>11 DEF PurgeFails
  <2>2. QED
    BY <1>2, <1>3, <2>1 DEF Answers, Untouched
<1>12. CASE RemoveRoom(o)
  <2>1. /\ q.does = "purge" /\ {} \in SUBSET q.keys
        /\ \E verdict \in {"ok", "failed"} : Answers(o, verdict)
    BY <1>1, <1>12 DEF RemoveRoom, At, Does
  <2>2. UNCHANGED <<backend, object, part, littered>> /\ room' \in BOOLEAN
    BY <1>2, <1>12 DEF RemoveRoom
  <2>3. QED
    BY <1>3, <2>1, <2>2 DEF Answers
<1>13. QED
  BY <1>4, <1>5, <1>7, <1>8, <1>9, <1>10, <1>11, <1>12

LEMMA StorageKept ==
  ASSUME StorageInv, ServerInv, [Next]_vars
  PROVE  StorageInv'
<1>1. StorageMoves
  BY ServerMovesStorage
<1>2. ASSUME phase # "down", NEW o \in Op, Works(o)
      PROVE  StorageInv'
  <2>1. CASE Starts(o)
    BY <1>2, <2>1, StartsKeep
  <2>2. CASE StageAnswered(o) \/ AbortUpload(o)
    BY <1>2, <2>2, UploadsKeep
  <2>3. CASE BlobStep(o)
    BY <1>2, <2>3, UploadsKeep, BodiesKeep, DownloadsKeep, DeletionsKeep DEF BlobStep
  <2>4. QED
    BY <1>2, <2>1, <2>2, <2>3 DEF Works
<1>3. CASE phase' = "down" /\ BlobCrash
  <2>1. OpsOK'
    <3>1. NoOp \in OpRecord
      BY DEF NoOp, OpRecord, Verdicts
    <3>2. Does(NoOp) /\ Owes(NoOp)
      BY DEF NoOp, Does, Owes, Uploading
    <3> HIDE DEF NoOp
    <3>3. QED
      BY <1>3, <3>1, <3>2 DEF BlobCrash, OpsOK
  <2>2. StoreTyped' /\ PartsOwned'
    BY <1>3 DEF BlobCrash, Untouched, StorageInv, StoreTyped, PartsOwned
  <2>3. QED
    BY <2>1, <2>2 DEF StorageInv
<1>4. CASE phase = "down" /\ Initialize
  <2>1. \A o \in Op : op[o] = NoOp
    BY <1>4 DEF ServerInv, DownIsQuiet
  <2>2. part' = {} /\ littered' = {} /\ UNCHANGED <<backend, object, room, op>>
    BY <1>4 DEF Initialize, StorageInv, PartsOwned
  <2>3. OpsOK' /\ StoreTyped'
    BY <2>2 DEF StorageInv, OpsOK, StoreTyped
  <2>4. PartsOwned'
    BY <2>1, <2>2 DEF PartsOwned, OwnsPart, NoOp
  <2>5. QED
    BY <2>3, <2>4 DEF StorageInv
<1>5. CASE (phase' = "down" <=> phase = "down") /\ UNCHANGED blobVars
  BY <1>5 DEF blobVars, StorageInv, OpsOK, StoreTyped, PartsOwned, OwnsPart
<1>6. QED
  BY <1>1, <1>2, <1>3, <1>4, <1>5 DEF StorageMoves

LEMMA StorageInit == Init => StorageInv
<1> SUFFICES ASSUME Init
             PROVE  StorageInv
  OBVIOUS
<1>1. PICK x \in Scenario : BlobInit(x.backend, x.stored)
  BY DEF Init
<1>2. backend \in {"disk", "s3", "r2"}
  BY <1>1, ServerAssumption DEF BlobInit
<1>3. OpsOK
  <2>1. NoOp \in OpRecord
    BY DEF NoOp, OpRecord, Verdicts
  <2>2. Does(NoOp) /\ Owes(NoOp)
    BY DEF NoOp, Does, Owes, Uploading
  <2> HIDE DEF NoOp
  <2>3. QED
    BY <1>1, <2>1, <2>2 DEF BlobInit, OpsOK
<1>4. StoreTyped
  BY <1>1, <1>2 DEF BlobInit, StoreTyped
<1>5. PartsOwned
  BY <1>1 DEF BlobInit, PartsOwned, OwnsPart, NoOp
<1>6. QED
  BY <1>3, <1>4, <1>5 DEF StorageInv

LEMMA AllInductive == Spec => [](LockInv /\ ServerInv /\ BudgetTyped /\ StorageInv)
<1>1. ServerInv /\ StorageInv /\ [Next]_vars => StorageInv'
  BY StorageKept
<1>2. QED
  BY ServerInductive, StorageInit, <1>1, PTL DEF Spec

(* The server's types: among them that only a vault whose coordinator is    *)
(* open has an armed timer, that no client waits for a handler that does    *)
(* not run, and that a deletion keeps to the keys it was asked to delete    *)
(* (node-coordinator.ts, self-host.ts, the three storage adapters).         *)
THEOREM Typing == Spec => []TypeOK
<1>1. LockInv /\ ServerInv /\ BudgetTyped /\ StorageInv => TypeOK
  <2> SUFFICES ASSUME LockInv, ServerInv, BudgetTyped, StorageInv
               PROVE  TypeOK
    OBVIOUS
  <2>1. ServerTyped /\ LockTypeOK /\ StoreTyped
    BY DEF ServerInv, LockInv, StorageInv
  <2>2. ASSUME NEW o \in Op
        PROVE  /\ op[o].does \in {"nothing", "put", "get", "collect", "purge"}
               /\ op[o].left \subseteq op[o].chunk
               /\ op[o].todo \cup op[o].chunk \cup op[o].failed \subseteq op[o].keys
               /\ op[o].keys \subseteq Key
    <3>1. op[o] \in OpRecord /\ Owes(op[o])
      BY DEF StorageInv, OpsOK
    <3>2. QED
      BY <3>1 DEF OpRecord, Owes
  <2>3. BlobTypeOK
    BY <2>1, <2>2 DEF BlobTypeOK, StoreTyped
  <2>4. QED
    BY <2>1, <2>3 DEF TypeOK, ServerTyped, BudgetTyped
<1>2. QED
  BY AllInductive, <1>1, PTL

(* While the server serves, every .part file belongs to an upload that is   *)
(* still at it, or could not be removed.  The files of an earlier process   *)
(* are gone because Initialize comes before any request, and a file is not  *)
(* removed twice because its name is the upload's own                       *)
(* (local-disk-object-storage.ts).                                          *)
THEOREM PartsHaveOwners == Spec => []PartsAccounted
<1>1. StorageInv => PartsAccounted
  BY DEF StorageInv, StoreTyped, PartsOwned, PartsAccounted, OwnsPart, At
<1>2. QED
  BY AllInductive, <1>1, PTL

-----------------------------------------------------------------------------
(* The promise of ObjectStore.  What it sees of an operation:               *)

Runs(q) == q.pc \notin {"idle", "done"}

AskedOf(q) ==
  [does |-> IF ~Runs(q) THEN "nothing"
            ELSE IF q.does \in {"collect", "purge"} THEN "delete" ELSE q.does,
   keys |-> IF Runs(q) THEN q.keys ELSE {}]

OwedOf(q) ==
  IF q.does \in {"collect", "purge"} /\ Runs(q) THEN q.todo \cup q.left \cup q.failed
                                                ELSE {}

AnswerOf(q) == [is |-> q.verdict, failed |-> IF Runs(q) THEN {} ELSE q.failed]

Asked == [o \in Op |-> AskedOf(op[o])]

Owed == [o \in Op |-> OwedOf(op[o])]

Answered == [o \in Op |-> AnswerOf(op[o])]

Placed == {o \in Op : op[o].pc = "placed"}

LEMMA NothingAsked ==
  /\ AskedOf(NoOp) = [does |-> "nothing", keys |-> {}] /\ OwedOf(NoOp) = {}
  /\ AnswerOf(NoOp) = [is |-> "none", failed |-> {}] /\ NoOp.pc # "placed"
<1>1. /\ NoOp.pc = "idle" /\ NoOp.does = "nothing" /\ NoOp.failed = {}
      /\ NoOp.verdict = "none"
  BY DEF NoOp
<1>2. ~Runs(NoOp)
  BY <1>1 DEF Runs
<1> QED
  BY <1>1, <1>2 DEF AskedOf, OwedOf, AnswerOf

\* The operations beside o see nothing of its step.
Alone(o) == \A p \in Op : p # o => op'[p] = op[p]

\* A step that only changes what an operation is busy with.
LEMMA SeesNothing ==
  ASSUME NEW o \in Op, Alone(o), UNCHANGED <<backend, object>>,
         AskedOf(op'[o]) = AskedOf(op[o]), OwedOf(op'[o]) = OwedOf(op[o]),
         AnswerOf(op'[o]) = AnswerOf(op[o]),
         op'[o].pc = "placed" <=> op[o].pc = "placed"
  PROVE  UNCHANGED Promise!vars
<1>1. /\ \A p \in Op : /\ AskedOf(op'[p]) = AskedOf(op[p])
                       /\ OwedOf(op'[p]) = OwedOf(op[p])
                       /\ AnswerOf(op'[p]) = AnswerOf(op[p])
                       /\ op'[p].pc = "placed" <=> op[p].pc = "placed"
  BY DEF Alone
<1>2. Asked' = Asked /\ Owed' = Owed /\ Answered' = Answered /\ Placed' = Placed
  BY <1>1 DEF Asked, Owed, Answered, Placed
<1>3. QED
  BY ZenonT(90), <1>2 DEF Promise!vars, Asked, Owed, Answered, Placed, AskedOf, OwedOf, AnswerOf,
              Runs, Running, Deleting, At

LEMMA SeesAsk ==
  ASSUME NEW o \in Op, Alone(o), UNCHANGED <<backend, object>>, ~Runs(op[o]),
         NEW does \in {"put", "get", "delete"}, NEW K \in SUBSET Key,
         AskedOf(op'[o]) = [does |-> does, keys |-> K],
         OwedOf(op'[o]) = IF does = "delete" THEN K ELSE {},
         AnswerOf(op'[o]) = [is |-> "none", failed |-> {}],
         op'[o].pc # "placed"
  PROVE  Promise!Next
<1>1. /\ Asked[o] = [does |-> "nothing", keys |-> {}]
      /\ Asked' = [Asked EXCEPT ![o] = [does |-> does, keys |-> K]]
      /\ Owed' = [Owed EXCEPT ![o] = IF does = "delete" THEN K ELSE {}]
      /\ Answered' = [Answered EXCEPT ![o] = [is |-> "none", failed |-> {}]]
      /\ Placed' = Placed
  BY DEF Alone, Asked, Owed, Answered, Placed, AskedOf, Runs
<1>2. Promise!Ask(o, does, K)
  BY <1>1 DEF Promise!Ask, Promise!Nothing, Promise!Unanswered, Asked, Owed, Answered,
              Placed, AskedOf, OwedOf, AnswerOf, Runs, Running, Deleting, At
<1>3. QED
  BY <1>2 DEF Promise!Next

LEMMA SeesAppear ==
  ASSUME NEW o \in Op, Alone(o), UNCHANGED backend, op[o].does = "put", Runs(op[o]),
         NEW k \in Key, op[o].keys = {k}, object' = [object EXCEPT ![k] = "whole"],
         object \in [Key -> {"absent", "whole", "cut"}],
         AskedOf(op'[o]) = AskedOf(op[o]), OwedOf(op'[o]) = OwedOf(op[o]),
         AnswerOf(op'[o]) = AnswerOf(op[o]),
         op[o].pc # "placed"
  PROVE  Promise!Next
<1>1. /\ Asked[o].does = "put" /\ Asked[o].keys = {k}
      /\ Asked' = Asked /\ Owed' = Owed /\ Answered' = Answered
      /\ Placed' \in {Placed, Placed \cup {o}}
  BY ZenonT(90) DEF Alone, Asked, Owed, Answered, Placed, AskedOf, Runs
<1>2. object' = [j \in Key |-> IF j \in Asked[o].keys THEN "whole" ELSE object[j]]
  BY <1>1
<1>3. Promise!Hold(Asked[o].keys, "whole")
  BY <1>2 DEF Promise!Hold
<1>4. Promise!Appear(o)
  BY ZenonT(90), <1>1, <1>3
     DEF Promise!Appear, Asked, Owed, Answered, Placed, AskedOf, OwedOf, AnswerOf, Runs,
         Running, Deleting, At
<1>5. QED
  BY <1>4 DEF Promise!Next

LEMMA SeesTear ==
  ASSUME NEW o \in Op, Alone(o), UNCHANGED backend, backend = "r2",
         op[o].does = "put", Runs(op[o]),
         NEW k \in Key, op[o].keys = {k}, object' = [object EXCEPT ![k] = "cut"],
         object \in [Key -> {"absent", "whole", "cut"}],
         AskedOf(op'[o]) = AskedOf(op[o]), OwedOf(op'[o]) = OwedOf(op[o]),
         AnswerOf(op'[o]) = AnswerOf(op[o]),
         op'[o].pc = "placed" <=> op[o].pc = "placed"
  PROVE  Promise!Next
<1>1. /\ Asked[o].does = "put" /\ Asked[o].keys = {k}
      /\ Asked' = Asked /\ Owed' = Owed /\ Answered' = Answered
      /\ Placed' = Placed
  BY DEF Alone, Asked, Owed, Answered, Placed, AskedOf, Runs
<1>2. object' = [j \in Key |-> IF j \in Asked[o].keys THEN "cut" ELSE object[j]]
  BY <1>1
<1>3. Promise!Hold(Asked[o].keys, "cut")
  BY <1>2 DEF Promise!Hold
<1>4. Promise!Tear(o)
  BY ZenonT(90), <1>1, <1>3
     DEF Promise!Tear, Asked, Owed, Answered, Placed, AskedOf, OwedOf, AnswerOf, Runs,
         Running, Deleting, At
<1>5. QED
  BY <1>4 DEF Promise!Next

LEMMA SeesRemove ==
  ASSUME NEW o \in Op, Alone(o), UNCHANGED backend,
         op[o].does \in {"collect", "purge"}, Runs(op[o]),
         NEW gone \in SUBSET op[o].keys, op[o].keys \in SUBSET Key,
         object' = [j \in Key |-> IF j \in gone THEN "absent" ELSE object[j]],
         NEW seen \in SUBSET Key, \A k \in seen : object'[k] = "absent",
         AskedOf(op'[o]) = AskedOf(op[o]), OwedOf(op'[o]) = OwedOf(op[o]) \ seen,
         AnswerOf(op'[o]) = AnswerOf(op[o]),
         op'[o].pc = "placed" <=> op[o].pc = "placed"
  PROVE  Promise!Next
<1>1. /\ Asked[o].does = "delete" /\ Asked[o].keys = op[o].keys
      /\ Asked' = Asked /\ Answered' = Answered /\ Placed' = Placed
      /\ Owed' = [Owed EXCEPT ![o] = @ \ seen]
  BY ZenonT(90) DEF Alone, Asked, Owed, Answered, Placed, AskedOf, Runs
<1>2. Promise!Remove(o, gone, seen)
  BY ZenonT(90), <1>1
     DEF Promise!Remove, Promise!Hold, Asked, Owed, Answered, Placed, AskedOf, OwedOf,
         AnswerOf, Runs, Running, Deleting, At
<1>3. gone \in SUBSET Key
  OBVIOUS
<1>4. QED
  BY <1>2, <1>3 DEF Promise!Next

LEMMA SeesAnswer ==
  ASSUME NEW o \in Op, Alone(o), UNCHANGED <<backend, object>>, Runs(op[o]),
         op[o].does \in {"put", "get", "collect", "purge"},
         NEW verdict \in {"ok", "failed", "absent", "whole", "cut"},
         NEW failed \in SUBSET Key,
         op'[o].pc = "done", op'[o].verdict = verdict, op'[o].failed = failed,
         \/ verdict = "failed"
         \/ op[o].does = "put" /\ verdict = "ok" /\ op[o].pc = "placed"
         \/ /\ op[o].does \in {"collect", "purge"} /\ verdict = "ok"
            /\ OwedOf(op[o]) \subseteq failed
         \/ op[o].does = "get" /\ \E k \in op[o].keys : verdict = object[k]
  PROVE  Promise!Next
<1> DEFINE a == [is |-> verdict, failed |-> failed]
<1>1. /\ Asked[o].does # "nothing" /\ Asked[o].keys = op[o].keys
      /\ op[o].does = "put" => Asked[o].does = "put"
      /\ op[o].does = "get" => Asked[o].does = "get"
      /\ op[o].does \in {"collect", "purge"} => Asked[o].does = "delete"
      /\ Owed[o] = OwedOf(op[o])
  BY DEF Asked, Owed, AskedOf
<1>2. /\ Asked' = [Asked EXCEPT ![o] = [does |-> "nothing", keys |-> {}]]
      /\ Owed' = [Owed EXCEPT ![o] = {}]
      /\ Answered' = [Answered EXCEPT ![o] = a]
      /\ Placed' = Placed \ {o}
  <2>1. /\ AskedOf(op'[o]) = [does |-> "nothing", keys |-> {}]
        /\ OwedOf(op'[o]) = {} /\ AnswerOf(op'[o]) = a
    BY DEF AskedOf, OwedOf, AnswerOf, Runs
  <2>2. QED
    BY <2>1 DEF Alone, Asked, Owed, Answered, Placed
<1>3. Promise!MayAnswer(o, a)
  <2>1. \/ a.is = "failed"
        \/ Asked[o].does = "put" /\ a.is = "ok" /\ o \in Placed
        \/ Asked[o].does = "delete" /\ a.is = "ok" /\ Owed[o] \subseteq a.failed
        \/ Asked[o].does = "get" /\ \E k \in Asked[o].keys : a.is = object[k]
    BY <1>1 DEF Placed
  <2> HIDE DEF a
  <2>2. QED
    BY <2>1
       DEF Promise!MayAnswer, Asked, Owed, Answered, Placed, AskedOf, OwedOf,
           AnswerOf, Runs, Running, Deleting, At
<1>4. Asked[o] # [does |-> "nothing", keys |-> {}]
  BY <1>1
<1> HIDE DEF a
<1>5. Promise!Answer(o, a)
  BY <1>2, <1>3, <1>4
     DEF Promise!Answer, Promise!Nothing, Asked, Owed, Answered, Placed, AskedOf, OwedOf,
         AnswerOf, Runs, Running, Deleting, At
<1>6. a \in Promise!Answers
  BY DEF a, Promise!Answers
<1>7. QED
  BY <1>5, <1>6 DEF Promise!Next

\* Batches take the lowest keys first.
LEMMA FirstIsLowest ==
  ASSUME NEW K \in SUBSET Key, NEW j \in First(K), NEW k \in K, k < j
  PROVE  k \in First(K)
<1> DEFINE below(i) == {l \in K : l < i}
<1>1. K \in SUBSET Nat /\ IsFiniteSet(K)
  BY BlobAssumption, FS_Subset
<1>2. j \in K /\ Cardinality(below(j)) < Batch
  BY DEF First
<1>3. below(k) \subseteq below(j)
  <2>1. k \in Nat /\ j \in Nat /\ \A i \in K : i \in Nat
    BY <1>1, <1>2
  <2>2. \A i \in K : i < k => i < j
    BY <2>1
  <2>3. QED
    BY <2>2
<1>4. IsFiniteSet(below(j)) /\ IsFiniteSet(below(k))
  BY <1>1, FS_Subset
<1>5. Cardinality(below(k)) <= Cardinality(below(j))
  BY <1>3, <1>4, FS_Subset
<1>6. Cardinality(below(k)) \in Nat /\ Cardinality(below(j)) \in Nat
  BY <1>4, FS_CardinalityType
<1>7. Cardinality(below(k)) < Batch
  <2> HIDE DEF below
  <2>1. QED
    BY <1>2, <1>5, <1>6, BlobAssumption
<1>8. QED
  BY <1>7 DEF First

\* A key that a page leaves behind was absent when the page was listed.
LEMMA PagesMissNothing ==
  ASSUME NEW todo \in SUBSET Key, NEW k \in todo,
         object[k] # "absent",
         k \notin Portion({j \in todo : object[j] # "absent"}),
         Truncated({j \in todo : object[j] # "absent"})
  PROVE  \A j \in Portion({i \in todo : object[i] # "absent"}) : j < k
<1> DEFINE found == {j \in todo : object[j] # "absent"}
<1>1. found \in SUBSET Key /\ k \in found
  OBVIOUS
<1>2. Portion(found) = First(found)
  BY <1>1 DEF Truncated, Portion
<1> HIDE DEF found
<1> SUFFICES ASSUME NEW j \in First(found)
             PROVE  j < k
  BY <1>2 DEF found
<1>3. j \in found /\ k \notin First(found)
  BY <1>2 DEF First, found
<1>4. j \in Nat /\ k \in Nat /\ j # k
  BY <1>1, <1>3, BlobAssumption
<1>5. ~(k < j)
  BY <1>1, <1>3, FirstIsLowest
<1>6. QED
  BY <1>4, <1>5

LEMMA StartsSeen ==
  ASSUME OpsOK, NEW o \in Op, Starts(o)
  PROVE  Promise!Next
<1>1. PICK does \in {"put", "get", "collect", "purge"},
           pc \in {"staging", "looking", "asking", "listing"}, K \in SUBSET Key :
        /\ Begins(o, does, pc, K)
        /\ <<does, pc>> \in {<<"put", "staging">>, <<"get", "looking">>,
                             <<"collect", "asking">>, <<"purge", "listing">>}
        /\ does \in {"put", "get"} => \E k \in Key : K = {k}
  BY StartsBegin
<1> DEFINE r == [NoOp EXCEPT !.does = does, !.pc = pc, !.keys = K, !.todo = K]
           asks == IF does \in {"collect", "purge"} THEN "delete" ELSE does
<1>2. /\ r.does = does /\ r.pc = pc /\ r.keys = K /\ r.todo = K
      /\ r.left = {} /\ r.failed = {} /\ r.verdict = "none"
  BY DEF NoOp
<1>3. Becomes(o, r) /\ Untouched /\ op[o] = NoOp
  BY <1>1 DEF Begins
<1> HIDE DEF r
<1>4. op'[o] = r /\ Alone(o) /\ ~Runs(op[o])
  BY <1>3 DEF Becomes, Alone, OpsOK, NoOp, Runs
<1>5. /\ AskedOf(r) = [does |-> asks, keys |-> K]
      /\ OwedOf(r) = IF asks = "delete" THEN K ELSE {}
      /\ AnswerOf(r) = [is |-> "none", failed |-> {}]
      /\ r.pc # "placed"
  BY <1>1, <1>2 DEF AskedOf, OwedOf, AnswerOf, Runs
<1>6. asks \in {"put", "get", "delete"}
  OBVIOUS
<1> HIDE DEF asks
<1>7. QED
  BY <1>3, <1>4, <1>5, <1>6, SeesAsk DEF Untouched

LEMMA UploadSeen ==
  ASSUME OpsOK, NEW o \in Op, op[o].pc \in Uploading, NEW pc \in Uploading, Goes(o, pc)
  PROVE  /\ Alone(o) /\ op'[o].pc = pc /\ Runs(op[o]) /\ op[o].does = "put"
         /\ AskedOf(op'[o]) = AskedOf(op[o]) /\ OwedOf(op'[o]) = OwedOf(op[o])
         /\ AnswerOf(op'[o]) = AnswerOf(op[o])
         /\ \E k \in Key : op[o].keys = {k}
<1> DEFINE r == [op[o] EXCEPT !.pc = pc]
<1>1. op[o] \in OpRecord /\ Does(op[o]) /\ Owes(op[o])
  BY DEF OpsOK
<1>2. /\ r.pc = pc /\ r.does = op[o].does /\ r.keys = op[o].keys
      /\ r.verdict = op[o].verdict
  BY <1>1 DEF OpRecord
<1>3. op'[o] = r /\ Alone(o)
  BY UploadMoves DEF Alone
<1> HIDE DEF r
<1>4. op[o].does = "put" /\ Runs(op[o]) /\ Runs(r)
  BY <1>1, <1>2 DEF Does, Runs, Uploading
<1>5. QED
  BY <1>1, <1>2, <1>3, <1>4 DEF AskedOf, OwedOf, AnswerOf, Owes

LEMMA AnswerSeen ==
  ASSUME OpsOK, NEW o \in Op, Runs(op[o]),
         NEW verdict \in {"ok", "failed", "absent", "whole", "cut"},
         NEW failed \in SUBSET op[o].keys, Reports(o, verdict, failed),
         UNCHANGED <<backend, object>>,
         \/ verdict = "failed"
         \/ op[o].does = "put" /\ verdict = "ok" /\ op[o].pc = "placed"
         \/ /\ op[o].does \in {"collect", "purge"} /\ verdict = "ok"
            /\ OwedOf(op[o]) \subseteq failed
         \/ op[o].does = "get" /\ \E k \in op[o].keys : verdict = object[k]
  PROVE  Promise!Next
<1>1. op[o] \in OpRecord /\ Does(op[o])
  BY DEF OpsOK
<1>2. op[o].does \in {"put", "get", "collect", "purge"} /\ failed \in SUBSET Key
  BY <1>1 DEF OpRecord, Does, Runs, Uploading
<1>3. /\ op'[o] = [NoOp EXCEPT !.does = op[o].does, !.pc = "done", !.keys = op[o].keys,
                               !.failed = failed, !.verdict = verdict]
      /\ Alone(o)
  <2>1. verdict \in Verdicts
    BY DEF Verdicts
  <2>2. op[o].does # "nothing"
    BY <1>2
  <2>3. QED
    BY ZenonT(90), <2>1, <2>2, OpReports DEF Alone
<1>4. op'[o].pc = "done" /\ op'[o].verdict = verdict /\ op'[o].failed = failed
  <2>. DEFINE n == [NoOp EXCEPT !.does = op[o].does, !.pc = "done",
                      !.keys = op[o].keys, !.failed = failed,
                      !.verdict = verdict]
  <2>1. n.pc = "done" /\ n.verdict = verdict /\ n.failed = failed
    BY DEF NoOp
  <2>2. op'[o] = n
    BY <1>3
  <2>. HIDE DEF n
  <2>3. QED
    BY <2>1, <2>2
<1>5. Alone(o)
  BY <1>3
<1>6. QED
  BY <1>2, <1>4, <1>5, SeesAnswer

LEMMA UploadsSeen ==
  ASSUME OpsOK, StoreTyped, NEW o \in Op,
         \/ StageAnswered(o) \/ AbortUpload(o) \/ UploadAnswered(o)
         \/ OpenPart(o) \/ Rename(o) \/ Cleanup(o) \/ PutToS3(o) \/ PutToS3Fails(o)
  PROVE  Promise!Next \/ UNCHANGED Promise!vars
<1>1. /\ op[o] \in OpRecord /\ Does(op[o]) /\ {} \in SUBSET op[o].keys
      /\ object \in [Key -> {"absent", "whole", "cut"}]
  BY DEF OpsOK, StoreTyped
<1>2. ASSUME op[o].pc \in {"staging", "placed", "aborting"}, Untouched,
             \/ Answers(o, "failed")
             \/ Answers(o, "ok") /\ op[o].pc = "placed"
      PROVE  Promise!Next
  <2>1. Runs(op[o]) /\ op[o].does = "put"
    BY <1>1, <1>2 DEF Runs, Does, Uploading
  <2>2. UNCHANGED <<backend, object>>
    BY <1>2 DEF Untouched
  <2>3. QED
    BY <1>1, <1>2, <2>1, <2>2, AnswerSeen DEF Answers
<1>3. ASSUME op[o].pc \in Uploading, NEW pc \in Uploading, Goes(o, pc),
             op[o].pc # "placed", pc # "placed", UNCHANGED <<backend, object>>
      PROVE  UNCHANGED Promise!vars
  BY <1>3, UploadSeen, SeesNothing
<1>4. ASSUME op[o].pc \in Uploading, op[o].pc # "placed",
             NEW pc \in Uploading, Goes(o, pc), UNCHANGED backend,
             object' = [object EXCEPT ![KeyOf(o)] = "whole"]
      PROVE  Promise!Next
  <2>1. PICK k \in Key : op[o].keys = {k}
    BY <1>4, UploadSeen
  <2>2. object' = [object EXCEPT ![k] = "whole"]
    BY <1>4, <2>1, KeyKnown
  <2>3. QED
    BY <1>1, <1>4, <2>1, <2>2, UploadSeen, SeesAppear
<1>5. CASE StageAnswered(o) \/ AbortUpload(o) \/ UploadAnswered(o)
  BY <1>2, <1>3, <1>5
     DEF StageAnswered, AbortUpload, UploadAnswered, At, Uploading, Untouched
<1>6. CASE OpenPart(o) \/ Cleanup(o) \/ PutToS3Fails(o)
  BY <1>3, <1>6 DEF OpenPart, Cleanup, PutToS3Fails, At, Uploading, Untouched
<1>7. CASE Rename(o) \/ PutToS3(o)
  BY <1>3, <1>4, <1>7 DEF Rename, PutToS3, At, Uploading
<1>8. QED
  BY <1>5, <1>6, <1>7

LEMMA BodiesSeen ==
  ASSUME OpsOK, StoreTyped, NEW o \in Op,
         NEW body \in {"exact", "short", "long", "broken"},
         ReceiveOnDisk(o, body) \/ ReceiveForS3(o, body) \/ ReceiveForR2(o, body)
  PROVE  Promise!Next \/ UNCHANGED Promise!vars
<1>1. /\ object \in [Key -> {"absent", "whole", "cut"}]
      /\ op[o].pc = "receiving" /\ UNCHANGED backend
  BY DEF StoreTyped, ReceiveOnDisk, ReceiveForS3, ReceiveForR2, At, Untouched
<1>2. PICK pc \in {"renaming", "cleaning", "sending", "placed", "aborting"} :
        /\ Goes(o, pc)
        /\ \/ object' = object /\ pc # "placed"
           \/ object' = [object EXCEPT ![KeyOf(o)] = "whole"]
           \/ /\ object' = [object EXCEPT ![KeyOf(o)] = "cut"]
              /\ backend = "r2" /\ pc # "placed"
  BY DEF ReceiveOnDisk, ReceiveForS3, ReceiveForR2, Untouched
<1>3. op[o].pc \in Uploading /\ pc \in Uploading /\ op[o].pc # "placed"
  BY <1>1 DEF Uploading
<1>4. /\ Alone(o) /\ op'[o].pc = pc /\ Runs(op[o]) /\ op[o].does = "put"
      /\ AskedOf(op'[o]) = AskedOf(op[o]) /\ OwedOf(op'[o]) = OwedOf(op[o])
      /\ AnswerOf(op'[o]) = AnswerOf(op[o])
  BY <1>2, <1>3, UploadSeen
<1>5. PICK k \in Key : op[o].keys = {k}
  BY <1>2, <1>3, UploadSeen
<1>6. KeyOf(o) = k
  BY <1>5, KeyKnown
<1>7. CASE object' = object /\ pc # "placed"
  BY <1>1, <1>3, <1>4, <1>7, SeesNothing
<1>8. CASE object' = [object EXCEPT ![KeyOf(o)] = "whole"]
  BY <1>1, <1>3, <1>4, <1>5, <1>6, <1>8, SeesAppear
<1>9. CASE /\ object' = [object EXCEPT ![KeyOf(o)] = "cut"]
           /\ backend = "r2" /\ pc # "placed"
  BY <1>1, <1>3, <1>4, <1>5, <1>6, <1>9, SeesTear
<1>10. QED
  BY <1>2, <1>7, <1>8, <1>9

LEMMA DownloadsSeen ==
  ASSUME OpsOK, StoreTyped, NEW o \in Op, Look(o) \/ ReadFile(o)
  PROVE  Promise!Next \/ UNCHANGED Promise!vars
<1>1. op[o] \in OpRecord /\ Does(op[o]) /\ Owes(op[o]) /\ {} \in SUBSET op[o].keys
  BY DEF OpsOK
<1>2. /\ op[o].pc \in {"looking", "reading"} /\ op[o].does = "get" /\ Runs(op[o])
      /\ UNCHANGED <<backend, object>>
  BY <1>1 DEF Look, ReadFile, At, Untouched, Does, Runs
<1>3. PICK k \in Key : op[o].keys = {k}
  BY <1>1, <1>2 DEF Owes
<1>4. KeyOf(o) = k /\ object[k] \in {"absent", "whole", "cut"}
  BY <1>3, KeyKnown DEF StoreTyped
<1>5. ASSUME NEW verdict \in {"failed", object[k]}, Answers(o, verdict)
      PROVE  Promise!Next
  <2>1. verdict \in {"ok", "failed", "absent", "whole", "cut"}
    BY <1>4
  <2>2. verdict = "failed" \/ verdict = object[k]
    OBVIOUS
  <2>3. QED
    BY <1>1, <1>2, <1>3, <1>5, <2>1, <2>2, AnswerSeen DEF Answers
<1>6. ASSUME Goes(o, "reading")
      PROVE  UNCHANGED Promise!vars
  <2> DEFINE r == [op[o] EXCEPT !.pc = "reading"]
  <2>1. op'[o] = r /\ Alone(o)
    BY <1>6 DEF Goes, Becomes, OpsOK, Alone
  <2>2. /\ r.pc = "reading" /\ r.does = "get" /\ r.keys = op[o].keys
        /\ r.verdict = op[o].verdict
    BY <1>1, <1>2 DEF OpRecord
  <2> HIDE DEF r
  <2>3. /\ AskedOf(r) = AskedOf(op[o]) /\ OwedOf(r) = OwedOf(op[o])
        /\ AnswerOf(r) = AnswerOf(op[o]) /\ r.pc # "placed" /\ op[o].pc # "placed"
    BY <1>2, <2>2 DEF AskedOf, OwedOf, AnswerOf, Runs
  <2>4. QED
    BY <1>2, <2>1, <2>3, SeesNothing
<1>7. Goes(o, "reading") \/ \E verdict \in {"failed", object[k]} : Answers(o, verdict)
  BY <1>4 DEF Look, ReadFile
<1>8. QED
  BY <1>5, <1>6, <1>7

\* A deletion that goes on, however it moves its keys, knows of those it no
\* longer owes that they are absent.
LEMMA DeletionSeen ==
  ASSUME OpsOK, StoreTyped, NEW o \in Op, op[o].pc \in Deletes,
         NEW r, Becomes(o, r), r.pc \in Deletes, r.does = op[o].does,
         r.keys = op[o].keys, r.verdict = op[o].verdict,
         UNCHANGED backend, NEW gone \in SUBSET op[o].keys,
         object' \in [Key -> {"absent", "whole", "cut"}],
         \A k \in Key : object'[k] = IF k \in gone THEN "absent" ELSE object[k],
         r.todo \cup r.left \cup r.failed \subseteq op[o].todo \cup op[o].left \cup op[o].failed,
         \A k \in op[o].todo \cup op[o].left \cup op[o].failed :
           k \in r.todo \cup r.left \cup r.failed \/ object'[k] = "absent"
  PROVE  Promise!Next
<1> DEFINE owed == op[o].todo \cup op[o].left \cup op[o].failed
           owes == r.todo \cup r.left \cup r.failed
           seen == owed \ owes
<1>1. op[o] \in OpRecord /\ Does(op[o])
  BY DEF OpsOK
<1>2. op'[o] = r /\ Alone(o)
  BY DEF Becomes, OpsOK, Alone
<1>3. /\ op[o].does \in {"collect", "purge"} /\ Runs(op[o]) /\ Runs(r)
      /\ op[o].keys \in SUBSET Key /\ owed \in SUBSET Key
  BY <1>1 DEF Does, Runs, Deletes, OpRecord
<1>4. owes = owed \ seen /\ seen \in SUBSET Key /\ \A k \in seen : object'[k] = "absent"
  BY <1>3
<1>5. OwedOf(op[o]) = owed /\ OwedOf(r) = owes
  BY <1>3 DEF OwedOf
<1> HIDE DEF owed, owes, seen
<1>6. /\ AskedOf(r) = AskedOf(op[o]) /\ OwedOf(r) = OwedOf(op[o]) \ seen
      /\ AnswerOf(r) = AnswerOf(op[o]) /\ r.pc # "placed" /\ op[o].pc # "placed"
  BY <1>3, <1>4, <1>5 DEF AskedOf, AnswerOf, Deletes
<1>7. object' = [k \in Key |-> IF k \in gone THEN "absent" ELSE object[k]]
  OBVIOUS
<1>8. QED
  BY <1>2, <1>3, <1>4, <1>6, <1>7, SeesRemove

LEMMA DeletionsSeen ==
  ASSUME OpsOK, StoreTyped, NEW o \in Op,
         \/ AskChunk(o) \/ ChunkDone(o) \/ ChunkFails(o)
         \/ ListPage(o) \/ PageDone(o) \/ PurgeFails(o) \/ RemoveRoom(o)
         \/ \E k \in Key : RemoveObject(o, k) \/ KeyFails(o, k)
  PROVE  Promise!Next \/ UNCHANGED Promise!vars
<1> DEFINE q == op[o]
<1>1. q \in OpRecord /\ Does(q) /\ Owes(q) /\ {} \in SUBSET q.keys
  BY DEF OpsOK
<1>2. object \in [Key -> {"absent", "whole", "cut"}]
  BY DEF StoreTyped
<1>3. Untouched => /\ object' \in [Key -> {"absent", "whole", "cut"}]
                   /\ \A k \in Key : object'[k] = IF k \in {} THEN "absent" ELSE object[k]
  BY <1>2 DEF Untouched
<1>4. ASSUME NEW verdict \in {"ok", "failed"}, NEW failed \in SUBSET q.keys,
             Reports(o, verdict, failed), UNCHANGED <<backend, object>>,
             q.does \in {"collect", "purge"}, Runs(q),
             verdict = "ok" => q.todo \cup q.left \cup q.failed \subseteq failed
      PROVE  Promise!Next
  <2>1. OwedOf(q) = q.todo \cup q.left \cup q.failed
    BY <1>4 DEF OwedOf
  <2>2. QED
    BY <1>4, <2>1, AnswerSeen
<1>5. CASE AskChunk(o)
  <2> DEFINE chunk == Portion(q.todo)
             r == [q EXCEPT !.pc = "deleting", !.chunk = chunk, !.left = chunk,
                            !.todo = @ \ chunk]
  <2>1. chunk \subseteq q.todo
    BY <1>1, PortionOf DEF OpRecord
  <2>2. q.pc = "asking" /\ Becomes(o, r) /\ Untouched
    BY <1>5 DEF AskChunk, At
  <2> HIDE DEF chunk
  <2>3. /\ r.pc = "deleting" /\ r.left = chunk /\ r.todo = q.todo \ chunk
        /\ r.does = q.does /\ r.failed = q.failed /\ r.keys = q.keys
        /\ r.verdict = q.verdict
    BY <1>1 DEF OpRecord
  <2> HIDE DEF r
  <2>4. q.left = {}
    BY <1>1, <2>2 DEF Owes
  <2>5. r.todo \cup r.left \cup r.failed = q.todo \cup q.left \cup q.failed
    BY <2>1, <2>3, <2>4
  <2>6. QED
    BY ZenonT(90), <1>1, <1>3, <2>2, <2>3, <2>5, DeletionSeen DEF Deletes, Untouched
<1>6. ASSUME NEW k \in Key, RemoveObject(o, k)
      PROVE  Promise!Next
  <2> DEFINE r == [q EXCEPT !.left = @ \ {k}]
  <2>1. /\ q.pc = "deleting" /\ Becomes(o, r) /\ UNCHANGED backend
        /\ object' = [object EXCEPT ![k] = "absent"] /\ k \in q.left \cup q.chunk
    BY <1>6 DEF RemoveObject, At
  <2>2. /\ r.pc = "deleting" /\ r.left = q.left \ {k} /\ r.todo = q.todo
        /\ r.does = q.does /\ r.failed = q.failed /\ r.keys = q.keys
        /\ r.verdict = q.verdict
    BY <1>1, <2>1 DEF OpRecord
  <2> HIDE DEF r
  <2>3. {k} \in SUBSET q.keys
    BY <1>1, <2>1 DEF Owes
  <2>4. /\ object' \in [Key -> {"absent", "whole", "cut"}]
        /\ \A j \in Key : object'[j] = IF j \in {k} THEN "absent" ELSE object[j]
    BY <1>2, <2>1
  <2>5. object'[k] = "absent"
    BY <2>4
  <2>6. /\ r.todo \cup r.left \cup r.failed \subseteq q.todo \cup q.left \cup q.failed
        /\ \A j \in q.todo \cup q.left \cup q.failed :
             j \in r.todo \cup r.left \cup r.failed \/ object'[j] = "absent"
    BY <2>2, <2>5
  <2> DEFINE gone == {k}
  <2>7. /\ gone \in SUBSET q.keys
        /\ object' \in [Key -> {"absent", "whole", "cut"}]
        /\ \A j \in Key : object'[j] = IF j \in gone THEN "absent" ELSE object[j]
    BY <2>3, <2>4
  <2> HIDE DEF gone
  <2>8. /\ q.pc \in Deletes /\ r.pc \in Deletes /\ Becomes(o, r) /\ UNCHANGED backend
        /\ r.does = q.does /\ r.keys = q.keys /\ r.verdict = q.verdict
    BY <2>1, <2>2 DEF Deletes
  <2>9. QED
    BY <2>6, <2>7, <2>8, DeletionSeen
<1>7. ASSUME NEW k \in Key, KeyFails(o, k)
      PROVE  Promise!Next
  <2> DEFINE r == [q EXCEPT !.left = @ \ {k}, !.failed = @ \cup {k}]
  <2>1. q.pc = "deleting" /\ Becomes(o, r) /\ Untouched /\ k \in q.left
    BY <1>7 DEF KeyFails, At
  <2>2. /\ r.pc = "deleting" /\ r.left = q.left \ {k} /\ r.todo = q.todo
        /\ r.does = q.does /\ r.failed = q.failed \cup {k} /\ r.keys = q.keys
        /\ r.verdict = q.verdict
    BY <1>1, <2>1 DEF OpRecord
  <2> HIDE DEF r
  <2>3. r.todo \cup r.left \cup r.failed = q.todo \cup q.left \cup q.failed
    BY <2>1, <2>2
  <2>4. QED
    BY ZenonT(90), <1>1, <1>3, <2>1, <2>2, <2>3, DeletionSeen DEF Deletes, Untouched
<1>8. ASSUME NEW pc \in {"asking", "listing"}, NEW r, Becomes(o, r), Untouched,
             q.pc = "deleting", q.left = {}, r.pc = pc, r.left = {}, r.todo = q.todo,
             r.failed = q.failed, r.does = q.does, r.keys = q.keys, r.verdict = q.verdict
      PROVE  Promise!Next
  BY <1>1, <1>3, <1>8, DeletionSeen DEF Deletes, Untouched
<1>9. CASE ChunkDone(o)
  <2>1. /\ q.does = "collect" /\ q.pc = "deleting" /\ q.left = {} /\ Untouched
        /\ Runs(q)
    BY <1>9 DEF ChunkDone, At, Runs
  <2>2. CASE q.todo = {}
    <3>1. Reports(o, "ok", q.failed) /\ q.failed \in SUBSET q.keys
      BY <1>1, <1>9, <2>2 DEF ChunkDone, Owes
    <3>2. q.todo \cup q.left \cup q.failed \subseteq q.failed
      BY <2>1, <2>2
    <3>3. QED
      BY <1>4, <2>1, <3>1, <3>2 DEF Untouched
  <2>3. CASE q.todo # {}
    <3> DEFINE r == [q EXCEPT !.pc = "asking", !.later = TRUE, !.chunk = {}]
    <3>1. Becomes(o, r)
      BY <1>9, <2>3 DEF ChunkDone
    <3>2. /\ r.pc = "asking" /\ r.left = {} /\ r.todo = q.todo /\ r.failed = q.failed
          /\ r.does = q.does /\ r.keys = q.keys /\ r.verdict = q.verdict
      BY <1>1, <2>1 DEF OpRecord
    <3> HIDE DEF r
    <3>3. QED
      BY <1>8, <2>1, <3>1, <3>2
  <2>4. QED
    BY <2>2, <2>3
<1>10. CASE ChunkFails(o)
  <2>1. q.does = "collect" /\ Untouched /\ Runs(q)
    BY <1>10 DEF ChunkFails, At, Runs
  <2> DEFINE failed == q.failed \cup q.chunk \cup q.todo
  <2>2. failed \in SUBSET q.keys /\ q.todo \cup q.left \cup q.failed \subseteq failed
    BY <1>1 DEF Owes
  <2>3. Reports(o, "ok", failed) \/ Reports(o, "failed", {})
    BY <1>10 DEF ChunkFails, Answers
  <2> HIDE DEF failed
  <2>4. QED
    BY <1>1, <1>4, <2>1, <2>2, <2>3 DEF Untouched
<1>11. CASE ListPage(o)
  <2> DEFINE found == {k \in q.todo : object[k] # "absent"}
             page == Portion(found)
             todo == IF Truncated(found) THEN {k \in q.todo : \A j \in page : j < k} ELSE {}
             r == [q EXCEPT !.pc = "deleting", !.chunk = page, !.left = page,
                            !.todo = todo]
  <2>1. q.todo \in SUBSET Key
    BY <1>1 DEF OpRecord
  <2>2. page \subseteq q.todo /\ todo \subseteq q.todo
    BY <2>1, PortionOf
  <2>3. q.pc = "listing" /\ Becomes(o, r) /\ Untouched
    BY <1>11 DEF ListPage, At
  <2>4. \A k \in q.todo : k \in todo \/ k \in page \/ object[k] = "absent"
    <3> SUFFICES ASSUME NEW k \in q.todo, k \notin page, object[k] # "absent"
                 PROVE  k \in todo
      OBVIOUS
    <3>1. Truncated(found)
      BY DEF Truncated
    <3>2. \A j \in page : j < k
      BY <2>1, <3>1, PagesMissNothing
    <3>3. QED
      BY <3>1, <3>2
  <2> HIDE DEF page, todo
  <2>5. /\ r.pc = "deleting" /\ r.left = page /\ r.todo = todo /\ r.does = q.does
        /\ r.failed = q.failed /\ r.keys = q.keys /\ r.verdict = q.verdict
    BY <1>1 DEF OpRecord
  <2> HIDE DEF r
  <2>6. q.left = {} /\ q.failed = {}
    BY <1>1, <2>3 DEF Owes
  <2>7. /\ r.todo \cup r.left \cup r.failed \subseteq q.todo \cup q.left \cup q.failed
        /\ \A k \in q.todo \cup q.left \cup q.failed :
             k \in r.todo \cup r.left \cup r.failed \/ object'[k] = "absent"
    BY <2>2, <2>3, <2>4, <2>5, <2>6 DEF Untouched
  <2>8. QED
    BY ZenonT(90), <1>1, <1>3, <2>3, <2>5, <2>7, DeletionSeen DEF Deletes, Untouched
<1>12. CASE PageDone(o)
  <2>1. /\ q.does = "purge" /\ q.pc = "deleting" /\ q.left = {} /\ Untouched
        /\ Runs(q)
    BY <1>12 DEF PageDone, At, Runs
  <2>2. CASE Reports(o, "failed", {})
    BY <1>1, <1>4, <2>1, <2>2 DEF Untouched
  <2>3. CASE Reports(o, "ok", {}) /\ q.todo = {} /\ q.failed = {}
    <3>1. q.todo \cup q.left \cup q.failed \subseteq {}
      BY <2>1, <2>3
    <3>2. QED
      BY <1>1, <1>4, <2>1, <2>3, <3>1 DEF Untouched
  <2>4. CASE Becomes(o, [q EXCEPT !.pc = "listing", !.chunk = {}])
    <3> DEFINE r == [q EXCEPT !.pc = "listing", !.chunk = {}]
    <3>1. /\ r.pc = "listing" /\ r.left = {} /\ r.todo = q.todo /\ r.failed = q.failed
          /\ r.does = q.does /\ r.keys = q.keys /\ r.verdict = q.verdict
      BY <1>1, <2>1 DEF OpRecord
    <3>2. Becomes(o, r)
      BY <2>4
    <3> HIDE DEF r
    <3>3. QED
      BY <1>8, <2>1, <3>1, <3>2
  <2>5. CASE Goes(o, "removing")
    <3> DEFINE r == [q EXCEPT !.pc = "removing"]
    <3>1. /\ r.pc = "removing" /\ r.left = {} /\ r.todo = q.todo /\ r.failed = q.failed
          /\ r.does = q.does /\ r.keys = q.keys /\ r.verdict = q.verdict
      BY <1>1, <2>1 DEF OpRecord
    <3>2. Becomes(o, r)
      BY <2>5 DEF Goes
    <3> HIDE DEF r
    <3>3. QED
      BY <1>1, <1>3, <2>1, <3>1, <3>2, DeletionSeen DEF Deletes, Untouched
  <2>6. QED
    BY <1>12, <2>2, <2>3, <2>4, <2>5 DEF PageDone, Answers
<1>13. CASE PurgeFails(o)
  <2>1. q.does = "purge" /\ Untouched /\ Reports(o, "failed", {})
    BY <1>13 DEF PurgeFails, Answers
  <2>2. Runs(q)
    BY <1>1, <1>13, <2>1 DEF PurgeFails, At, Does, NoOp, Runs
  <2>3. QED
    BY <1>1, <1>4, <2>1, <2>2 DEF Untouched
<1>14. CASE RemoveRoom(o)
  <2>1. /\ q.does = "purge" /\ Runs(q) /\ UNCHANGED <<backend, object>>
        /\ q.todo = {} /\ q.left = {} /\ q.failed = {}
    BY <1>1, <1>14 DEF RemoveRoom, At, Does, Owes, Runs
  <2>2. Reports(o, "ok", {}) \/ Reports(o, "failed", {})
    BY <1>14 DEF RemoveRoom, Answers
  <2>3. q.todo \cup q.left \cup q.failed \subseteq {}
    BY <2>1
  <2>4. QED
    BY <1>1, <1>4, <2>1, <2>2, <2>3
<1>15. QED
  BY <1>5, <1>6, <1>7, <1>9, <1>10, <1>11, <1>12, <1>13, <1>14

LEMMA StepSeen ==
  ASSUME StorageInv, ServerInv, [Next]_vars
  PROVE  [Promise!Next]_(Promise!vars)
<1>1. StorageMoves /\ OpsOK /\ StoreTyped
  BY ServerMovesStorage DEF StorageInv
<1>2. ASSUME NEW o \in Op, Works(o)
      PROVE  Promise!Next \/ UNCHANGED Promise!vars
  <2>1. CASE Starts(o)
    BY <1>1, <2>1, StartsSeen
  <2>2. CASE StageAnswered(o) \/ AbortUpload(o)
    BY <1>1, <2>2, UploadsSeen
  <2>3. CASE BlobStep(o)
    BY <1>1, <2>3, UploadsSeen, BodiesSeen, DownloadsSeen, DeletionsSeen DEF BlobStep
  <2>4. QED
    BY <1>2, <2>1, <2>2, <2>3 DEF Works
<1>3. CASE BlobCrash
  <2>1. UNCHANGED <<backend, object>> /\ \A o \in Op : op'[o] = NoOp
    BY <1>3 DEF BlobCrash, Untouched
  <2>2. /\ Asked' = [o \in Op |-> [does |-> "nothing", keys |-> {}]]
        /\ Owed' = [o \in Op |-> {}] /\ Placed' = {}
        /\ Answered' = [o \in Op |-> [is |-> "none", failed |-> {}]]
    <3>1. Asked' = [o \in Op |-> AskedOf(NoOp)] /\ Owed' = [o \in Op |-> OwedOf(NoOp)]
      BY ZenonT(90), <2>1 DEF Asked, Owed
    <3>2. Answered' = [o \in Op |-> AnswerOf(NoOp)]
      BY ZenonT(90), <2>1 DEF Answered
    <3>3. Placed' = {}
      BY ZenonT(90), <2>1, NothingAsked DEF Placed
    <3>4. QED
      BY ZenonT(90), <3>1, <3>2, <3>3, NothingAsked
  <2>3. Promise!Forget
    BY <2>1, <2>2
       DEF Promise!Forget, Promise!Nothing, Promise!Unanswered, Asked, Owed, Answered,
           Placed, AskedOf, OwedOf, AnswerOf, Runs, Running, Deleting, At
  <2>4. QED
    BY <2>3 DEF Promise!Next
<1>4. CASE Initialize \/ UNCHANGED blobVars
  <2>1. UNCHANGED <<backend, object, op>>
    BY <1>4 DEF Initialize, blobVars
  <2>2. QED
    BY <2>1 DEF Promise!vars, Running, Deleting, At
<1>5. QED
  BY <1>1, <1>2, <1>3, <1>4 DEF StorageMoves

LEMMA InitSeen == Init => Promise!Init
<1> SUFFICES ASSUME Init
             PROVE  Promise!Init
  OBVIOUS
<1>1. PICK x \in Scenario : BlobInit(x.backend, x.stored)
  BY DEF Init
<1>2. object \in [Key -> {"absent", "whole"}] /\ \A o \in Op : op[o] = NoOp
  BY <1>1 DEF BlobInit
<1>3. /\ Asked = [o \in Op |-> [does |-> "nothing", keys |-> {}]]
      /\ Owed = [o \in Op |-> {}] /\ Placed = {}
      /\ Answered = [o \in Op |-> [is |-> "none", failed |-> {}]]
  <2>1. /\ AskedOf(NoOp) = [does |-> "nothing", keys |-> {}] /\ OwedOf(NoOp) = {}
        /\ AnswerOf(NoOp) = [is |-> "none", failed |-> {}] /\ NoOp.pc # "placed"
    BY DEF AskedOf, OwedOf, AnswerOf, Runs, NoOp
  <2> HIDE DEF NoOp
  <2>2. QED
    BY <1>2, <2>1 DEF Asked, Owed, Answered, Placed
<1>4. QED
  BY <1>2, <1>3
     DEF Promise!Init, Promise!Nothing, Promise!Unanswered, Asked, Owed, Answered,
         Placed, AskedOf, OwedOf, AnswerOf, Runs, Running, Deleting, At

(* Whichever storage it is, and whatever uploads, downloads, collections,   *)
(* purges, shutdowns and crashes interleave, it keeps the promises of       *)
(* ObjectStore, for any keys and any size of a batch: objects are complete, *)
(* a success is a success, and a deletion reports every key that it may not *)
(* have deleted.  That a purge misses no key rests on the order in which    *)
(* pages list them (the three storage adapters).                            *)
THEOREM StorageImplements == Spec => StorageKeepsPromise
<1>1. ServerInv /\ StorageInv /\ [Next]_vars => [Promise!Next]_(Promise!vars)
  BY StepSeen
<1>2. QED
  BY AllInductive, InitSeen, <1>1, PTL DEF Spec, StorageKeepsPromise, Promise!Spec
=============================================================================
