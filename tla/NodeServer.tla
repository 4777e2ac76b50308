----------------------------- MODULE NodeServer -----------------------------
(***************************************************************************)
(* The self-hosted process: it starts, serves HTTP requests, sockets and   *)
(* the timers of its vaults' coordinators, and ends by a signal or a crash *)
(* (self-host.ts, runtime/node*.ts).  A coordinator's work goes through    *)
(* its VaultLock; the requests are transfers of blobs and purges, made     *)
(* through BlobStorage.                                                    *)
(*                                                                         *)
(* `stale` are calls whose coordinator was closed under them, or that were *)
(* made to a closed one: its database answers with errors.  With the       *)
(* backend "r2" the process is a Worker instead, and does not end.         *)
(***************************************************************************)
EXTENDS VaultLock, BlobStorage

CONSTANTS
  Sock,       \* WebSocket connections
  Device,     \* the local vault of every connection
  Flush,      \* the operation of the timer that flushes sharing refreshes
  Again,      \* the coordinator a vault gets when it is asked for after closeAll
  Scenario    \* where a behaviour may begin, and how many events may follow

VARIABLES
  phase,      \* what the process is doing
  forced,     \* the shutdown did not wait any longer
  socket,     \* the state of every connection
  connected,  \* requests whose client waits
  handling,   \* requests whose handler runs
  runtimes,   \* vaults whose coordinator is open
  timer,      \* open coordinators whose timer is armed
  leaked,     \* closed coordinators whose timer is armed
  stale,
  budget

serverVars == <<phase, forced, socket, connected, handling, runtimes, timer,
                leaked, stale>>
vars == <<blobVars, lockVars, serverVars, budget>>

SocketWork == {"prepare", "open", "message", "leave"}

\* The calls of run: those of sockets, of alarms and of requests; requests may
\* also reach the coordinator that is opened after closeAll.  Every coordinator
\* has a lock of its own: a member of Vault is one coordinator of a vault.
Calls == (Sock \X SocketWork) \cup (Vault \X {"alarm"}) \cup (Op \X {"http", "late"})

ASSUME ServerAssumption ==
  /\ Call = Calls /\ Flush \in Op
  /\ \A v \in Vault : VaultOf[<<v, "alarm">>] = v
  /\ \A s \in Sock : \A w \in SocketWork : VaultOf[<<s, w>>] = VaultOf[<<s, "open">>]
  /\ \A r \in Op : VaultOf[<<r, "late">>] = Again[VaultOf[<<r, "http">>]]
  /\ \A v \in Vault : Again[v] # v
  /\ \A x \in Scenario :
       /\ x.backend \in {"disk", "s3", "r2"} /\ x.open \subseteq Vault
       /\ \A e \in DOMAIN x.budget : x.budget[e] \in Nat

TypeOK ==
  /\ LockTypeOK /\ BlobTypeOK
  /\ phase \in {"down", "starting", "ready", "serving", "closing", "forcing",
                 "disposed"}
  /\ forced \in BOOLEAN
  /\ socket \in [Sock -> {"away", "upgrading", "admitted", "open", "closing"}]
  /\ connected \subseteq handling /\ handling \subseteq Op
  /\ timer \subseteq runtimes /\ runtimes \subseteq Vault /\ leaked \subseteq Vault
  /\ stale \subseteq Call
  /\ \A e \in DOMAIN budget : budget[e] \in Nat

Init ==
  \E x \in Scenario :
    /\ BlobInit(x.backend, x.stored) /\ LockInit
    /\ phase = "serving" /\ forced = FALSE
    /\ socket = [s \in Sock |-> "away"]
    /\ connected = {} /\ handling = {}
    /\ runtimes = x.open /\ timer = x.open /\ leaked = {} /\ stale = {}
    /\ budget = x.budget

Spend(e) == budget[e] > 0 /\ budget' = [budget EXCEPT ![e] = @ - 1]

\* The flag `closing` of the upgrade handler.
Closing == phase \in {"closing", "forcing", "disposed"}

SockVault(s) == VaultOf[<<s, "open">>]

Work(s) == {<<s, w>> : w \in SocketWork}

-----------------------------------------------------------------------------
(* Coordinators. *)

\* A coordinator that opens arms its timer if a job is waiting in its table.
CreateCoordinator(v) ==
  /\ runtimes' = runtimes \cup {v}
  /\ timer' \in {timer, timer \cup {v}}

GetOrCreateRuntime(v) ==
  IF v \in runtimes THEN UNCHANGED <<runtimes, timer>> ELSE CreateCoordinator(v)

\* Mutant: the timer is armed before the database has taken the job.
MayArmClosed(v) == timer' \in {timer, timer \cup {v}}

\* NodeMaintenanceScheduler.defer: work under the lock may arm the timer.
MayArm(v) == timer' \in {timer, timer \cup ({v} \cap runtimes)}

\* closeAll: databases are closed and timers cleared, whoever is at work.
CloseAll ==
  /\ runtimes' = {} /\ timer' = {}
  /\ stale' = {c \in Call : stage[c] # "idle"}

Idle(C) == \A c \in C : stage[c] = "idle"

\* A call made to a coordinator that has been closed is stale from the start.
RunOn(c) ==
  /\ Run(c)
  /\ stale' = IF VaultOf[c] \in runtimes THEN stale ELSE stale \cup {c}

LeaveStale(c) == Leave(c) /\ stale' = stale \ {c}

-----------------------------------------------------------------------------
(* Sockets. *)

Upgrade(s) ==
  /\ phase = "serving" /\ socket[s] = "away" /\ Idle(Work(s))
  /\ Spend("socket")
  /\ socket' = [socket EXCEPT ![s] = "upgrading"]
  /\ GetOrCreateRuntime(SockVault(s))
  /\ Run(<<s, "prepare">>)
  /\ UNCHANGED <<phase, forced, connected, handling, leaked, stale, blobVars>>

\* The token is good and access is granted, or the client gets a 401.
Prepared(s) ==
  /\ LeaveStale(<<s, "prepare">>)
  /\ \/ socket' = [socket EXCEPT ![s] = "away"]
     \/ /\ <<s, "prepare">> \notin stale
        /\ socket' = [socket EXCEPT ![s] = "admitted"]
  /\ UNCHANGED <<phase, forced, connected, handling, runtimes, timer, leaked,
                 blobVars, budget>>

\* registerSocket closes the older sockets of the same local vault.
Registered(s) ==
  [t \in Sock |-> IF t = s THEN "open"
                  ELSE IF Device[t] = Device[s] /\ socket[t] = "open" THEN "closing"
                  ELSE socket[t]]

\* A shutdown that began in the meantime turns the connection away.
Accept(s) ==
  /\ socket[s] = "admitted"
  /\ IF Closing
     THEN socket' = [socket EXCEPT ![s] = "away"] /\ UNCHANGED <<lockVars, stale>>
     ELSE socket' = Registered(s) /\ RunOn(<<s, "open">>)
  /\ UNCHANGED <<phase, forced, connected, handling, runtimes, timer, leaked,
                 blobVars, budget>>

Message(s) ==
  /\ socket[s] \in {"open", "closing"}
  /\ Spend("message")
  /\ RunOn(<<s, "message">>)
  /\ UNCHANGED <<phase, forced, socket, connected, handling, runtimes, timer, leaked,
                 blobVars>>

\* The socket's close event: its presence is cleared and a summary is
\* scheduled, in two calls that nothing can come between.
Disconnect(s) ==
  /\ socket[s] \in {"open", "closing"}
  /\ socket' = [socket EXCEPT ![s] = "away"]
  /\ RunOn(<<s, "leave">>)
  /\ UNCHANGED <<phase, forced, connected, handling, runtimes, timer, leaked,
                 blobVars, budget>>

SocketWorkEnds(s) ==
  /\ \E w \in {"open", "message", "leave"} : LeaveStale(<<s, w>>)
  /\ MayArm(SockVault(s))
  /\ UNCHANGED <<phase, forced, socket, connected, handling, runtimes, leaked,
                 blobVars, budget>>

-----------------------------------------------------------------------------
(* Alarms. *)

AlarmDue(v) ==
  /\ v \in timer /\ Spend("alarm")
  /\ timer' = timer \ {v}
  /\ Run(<<v, "alarm">>)
  /\ UNCHANGED <<phase, forced, socket, connected, handling, runtimes, leaked, stale,
                 blobVars>>

\* Collection asks the storage to delete what nothing refers to.
AlarmCollects(v) ==
  /\ stage[<<v, "alarm">>] = "running" /\ Spend("collect")
  /\ \E o \in Op \ {Flush}, K \in SUBSET Key \ {{}} : DeleteMany(o, K)
  /\ UNCHANGED <<lockVars, serverVars>>

\* drain ends by arming the timer for the next job, and an alarm that fails,
\* as all do whose database is closed, by arming it for a retry.
AlarmEnds(v) ==
  LET c == <<v, "alarm">> IN
  /\ \A o \in Op : op[o].does = "collect" => ~Running(o)
  /\ LeaveStale(c)
  /\ IF c \in stale
     THEN leaked' = leaked \cup {v} /\ UNCHANGED timer
     ELSE timer' \in {timer \ {v}, timer \cup {v}} /\ UNCHANGED leaked
  /\ UNCHANGED <<phase, forced, socket, connected, handling, runtimes,
                 blobVars, budget>>

-----------------------------------------------------------------------------
(* Requests. *)

HttpCalls(r) == {<<r, "http">>, <<r, "late">>}

Arrive(r) ==
  /\ phase = "serving" /\ r # Flush /\ r \notin handling
  /\ \/ \E k \in Key : Spend("upload") /\ UploadBlob(r, k)
     \/ \E k \in Key : Spend("download") /\ DownloadBlob(r, k)
     \/ Spend("purge") /\ DeleteByPrefix(r)
  /\ connected' = connected \cup {r} /\ handling' = handling \cup {r}
  /\ UNCHANGED <<phase, forced, socket, runtimes, timer, leaked, stale, lockVars>>

\* The five-minute timer: a flush has no client, and nobody waits for it.
FlushBegins ==
  /\ phase \in {"ready", "serving", "closing", "forcing"} /\ Flush \notin handling
  /\ Spend("flush")
  /\ handling' = handling \cup {Flush}
  /\ UNCHANGED <<phase, forced, socket, connected, runtimes, timer, leaked, stale,
                 lockVars, blobVars>>

\* The handler goes on without its client.
Hangup(r) ==
  /\ r \in connected /\ Spend("hangup")
  /\ connected' = connected \ {r}
  /\ UNCHANGED <<phase, forced, socket, handling, runtimes, timer, leaked, stale,
                 lockVars, blobVars>>

\* What a handler does in its vault's coordinator.
Asks(r) == \/ r = Flush
           \/ At(r, "staging") \/ At(r, "aborting")
           \/ op[r].does = "purge" /\ Running(r)

\* The coordinator is opened if it is not, also after the shutdown closed it.
CallCoordinator(r) ==
  LET c == <<r, IF phase = "disposed" THEN "late" ELSE "http">> IN
  /\ r \in handling /\ Asks(r) /\ Idle(HttpCalls(r))
  /\ GetOrCreateRuntime(VaultOf[c])
  /\ Run(c)
  /\ UNCHANGED <<phase, forced, socket, connected, handling, leaked, stale,
                 blobVars, budget>>

CoordinatorAnswers(r) ==
  /\ \E c \in HttpCalls(r) :
       /\ LeaveStale(c)
       /\ MayArm(VaultOf[c])
       /\ CASE r = Flush -> UNCHANGED blobVars
            [] At(r, "staging") ->
                 IF c \in stale THEN Answers(r, "failed") /\ Untouched
                                ELSE StageAnswered(r)
            [] At(r, "aborting") -> AbortUpload(r)
            [] OTHER -> op[r].does = "purge" /\ ~Running(r) /\ UNCHANGED blobVars
  /\ handling' = handling \ ({r} \cap {Flush})
  /\ UNCHANGED <<phase, forced, socket, connected, runtimes, leaked, budget>>

\* Transfers run beside the lock; collections and purges hold it.
StorageStep(o) ==
  /\ CASE op[o].does = "collect" -> TRUE
       [] op[o].does = "purge" -> \E c \in HttpCalls(o) : stage[c] = "running"
       [] OTHER -> o \in handling /\ Running(o)
  /\ BlobStep(o)
  /\ UNCHANGED <<lockVars, serverVars, budget>>

Respond(r) ==
  /\ r \in handling \ {Flush} /\ ~Running(r) /\ Idle(HttpCalls(r))
  /\ handling' = handling \ {r} /\ connected' = connected \ {r}
  /\ UNCHANGED <<phase, forced, socket, runtimes, timer, leaked, stale,
                 lockVars, blobVars, budget>>

-----------------------------------------------------------------------------
(* The life of the process. *)

\* SIGTERM or SIGINT: the HTTP server stops listening, and sockets are asked
\* to close.
Shutdown ==
  /\ phase = "serving" /\ Spend("signal")
  /\ phase' = "closing"
  /\ socket' = [s \in Sock |-> IF socket[s] = "open" THEN "closing" ELSE socket[s]]
  /\ UNCHANGED <<forced, connected, handling, runtimes, timer, leaked, stale,
                 lockVars, blobVars>>

\* Mutant: the shutdown waits for connections, and not for their work.
DrainedOfConnections ==
  /\ connected = {}
  /\ \A s \in Sock : socket[s] = "away"

\* No connection is left, and what the upgrade handler tracks has ended.
Drained ==
  /\ connected = {}
  /\ \A s \in Sock : socket[s] = "away" /\ Idle(Work(s))

Closed ==
  /\ phase = "closing" /\ Drained
  /\ phase' = "disposed"
  /\ CloseAll
  /\ UNCHANGED <<forced, socket, connected, handling, leaked, lockVars, blobVars, budget>>

\* Thirty seconds have passed: connections are cut.
GiveUp ==
  /\ phase = "closing"
  /\ phase' = "forcing" /\ forced' = TRUE
  /\ connected' = {}
  /\ socket' = [s \in Sock |-> IF socket[s] = "open" THEN "closing" ELSE socket[s]]
  /\ UNCHANGED <<handling, runtimes, timer, leaked, stale, lockVars, blobVars, budget>>

\* Mutant: the connections that were cut are waited for.
SettleDrained ==
  /\ phase = "forcing" /\ Drained
  /\ phase' = "disposed"
  /\ CloseAll
  /\ UNCHANGED <<forced, socket, connected, handling, leaked, lockVars, blobVars, budget>>

\* A second more, drained or not.
Settle ==
  /\ phase = "forcing"
  /\ phase' = "disposed"
  /\ CloseAll
  /\ UNCHANGED <<forced, socket, connected, handling, leaked, lockVars, blobVars, budget>>

Gone ==
  /\ phase' = "down" /\ forced' = FALSE
  /\ socket' = [s \in Sock |-> "away"]
  /\ connected' = {} /\ handling' = {}
  /\ runtimes' = {} /\ timer' = {} /\ leaked' = {} /\ stale' = {}
  /\ LockForgotten /\ BlobCrash

\* Nothing is left that would keep the process: no timer, no work.
Exit ==
  /\ phase = "disposed"
  /\ timer = {} /\ leaked = {} /\ handling = {} /\ Idle(Call)
  /\ \A s \in Sock : socket[s] = "away"
  /\ Gone /\ UNCHANGED budget

Kill == phase # "down" /\ backend # "r2" /\ Spend("kill") /\ Gone

Boot ==
  /\ phase = "down"
  /\ phase' = "starting"
  /\ Initialize
  /\ UNCHANGED <<forced, socket, connected, handling, runtimes, timer, leaked, stale,
                 lockVars, budget>>

\* The database is migrated and the flush timer set; no coordinator is open.
CreateRuntime ==
  /\ phase = "starting"
  /\ phase' = "ready"
  /\ UNCHANGED <<forced, socket, connected, handling, runtimes, timer, leaked, stale,
                 lockVars, blobVars, budget>>

\* Neither the storage nor the database may be there: the process ends.
StartFails ==
  /\ phase = "starting" /\ Spend("kill")
  /\ Gone

Listen ==
  /\ phase = "ready"
  /\ phase' = "serving"
  /\ UNCHANGED <<forced, socket, connected, handling, runtimes, timer, leaked, stale,
                 lockVars, blobVars, budget>>

-----------------------------------------------------------------------------
EnterLock(c) == Enter(c) /\ UNCHANGED <<serverVars, blobVars, budget>>

Next ==
  \/ \E s \in Sock : \/ Upgrade(s) \/ Prepared(s) \/ Accept(s) \/ Message(s)
                     \/ Disconnect(s) \/ SocketWorkEnds(s)
  \/ \E v \in Vault : AlarmDue(v) \/ AlarmCollects(v) \/ AlarmEnds(v)
  \/ \E r \in Op : \/ Arrive(r) \/ Hangup(r) \/ CallCoordinator(r)
                   \/ CoordinatorAnswers(r) \/ StorageStep(r) \/ Respond(r)
  \/ \E c \in Call : EnterLock(c)
  \/ FlushBegins
  \/ Shutdown \/ Closed \/ GiveUp \/ Settle \/ Exit \/ Kill \/ Boot \/ CreateRuntime
  \/ StartFails \/ Listen

Spec == Init /\ [][Next]_vars

\* The timers of a shutdown expire; clients and the storage owe nothing.
FairSpec == Spec /\ WF_vars(GiveUp) /\ WF_vars(Settle)

-----------------------------------------------------------------------------
(* Properties. *)

\* The storage under the server, whichever it is, and whatever transfers,
\* collections, purges and crashes interleave, keeps the promises of
\* ObjectStore: objects are complete, a success is a success, and a deletion
\* reports every key it may not have deleted (the three storage adapters).
StorageKeepsPromise == Promise!Spec

\* While the server serves, every .part file belongs to an upload that is
\* still at it, or could not be removed: none is left by a refused upload or
\* an earlier process (local-disk-object-storage.ts).
PartsAccounted ==
  phase = "serving" =>
    \A o \in part : o \in littered \/ At(o, "receiving") \/ At(o, "renaming")
                                   \/ At(o, "cleaning")

\* A shutdown that was not forced closed no database under the work of a
\* socket, nor under a request whose client still waits (node-shutdown.ts,
\* node-websocket.ts).
GracefulMeansDrained ==
  phase = "disposed" /\ ~forced =>
    \A c \in stale : c \notin Sock \X SocketWork /\ c[1] \notin connected

\* A shutdown ends, whatever clients and the storage do (node-shutdown.ts).
ShutdownEnds == phase = "closing" ~> phase \in {"disposed", "down"}

\* The timer of a coordinator does not outlive it
\* (node-maintenance-scheduler.ts, the comment of dispose).
TimersEndWithRuntime == leaked = {}
=============================================================================
