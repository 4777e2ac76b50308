------------------------------ MODULE SyncFeed ------------------------------
(***************************************************************************)
(* What a vault's coordinator tells its clients over their sockets: the    *)
(* cursor of the newest commit, the entries that changed since a cursor,   *)
(* the storage in use, and who has which entry open                        *)
(* (CoordinatorControlMessageHandler, the socket gateways of both          *)
(* runtimes, PresenceStore, EntryService.listEntryStates, HealthService).  *)
(*                                                                         *)
(* A message a socket is sent arrives, in order, unless the socket closes; *)
(* `sent` is what its client knows from the messages sent so far.          *)
(***************************************************************************)
EXTENDS Integers, FiniteSets

CONSTANTS
  Conns,      \* connections, each used once
  Devices,    \* local vaults of a user
  DeviceOf,   \* the device a connection belongs to
  Entries,
  Handlers,   \* messages and requests that may be handled at once
  None,
  Workloads,  \* where a behaviour may begin: the runtime, and how many events
              \*   of each kind may follow
  PageLimit,  \* entries of one page: at most 500 in the code
  MaxBatch,   \* mutations of one commit
  Loads       \* amounts of storage in use, and limits

ASSUME FeedAssumptions ==
  /\ DeviceOf \in [Conns -> Devices]
  /\ None \notin Conns \cup Entries /\ None \notin Nat
  /\ IsFiniteSet(Conns) /\ IsFiniteSet(Entries)
  /\ PageLimit \in Nat \ {0} /\ MaxBatch \in Nat \ {0}
  /\ Loads \subseteq Nat /\ 0 \in Loads
  /\ \A w \in Workloads : w.runtime \in {"object", "node"}

VARIABLES
  runtime,    \* a Durable Object or the Node server
  cursor,     \* the newest commit
  seqOf,      \* updated_seq of every entry, 0 before its first commit
  storage,    \* bytes used and the limit
  timer,      \* the storage broadcast is scheduled
  socket,     \* a connection's state and the attachment of its socket
  presence,   \* PresenceStore: the entry a connection has open
  handler,    \* handlers waiting between a change and its messages
  sent,       \* what the client of a connection has been told
  device,     \* a device's copy, and the listing it is in
  silent,     \* the newest cursor whose broadcast an error prevented
  unsaid,     \* an error prevented a storage broadcast
  forgot,     \* connections whose presence a hibernation forgot
  budget

feedVars == <<cursor, seqOf, silent>>
statusVars == <<storage, timer, unsaid>>
presenceVars == <<presence, forgot>>
vars == <<runtime, feedVars, statusVars, socket, presenceVars, handler, sent,
          device, budget>>

Larger(a, b) == IF a > b THEN a ELSE b

Idle == [pc |-> "idle", conn |-> None, cursor |-> 0]

NoSocket == [state |-> "new", wantsStorage |-> FALSE, wantsPresence |-> FALSE,
             watching |-> {}]

Nothing == [hello |-> FALSE, told |-> 0, status |-> None, available |-> FALSE,
            shown |-> [p \in Conns |-> None]]

Init ==
  \E w \in Workloads :
    /\ runtime = w.runtime
    /\ cursor = 0 /\ seqOf = [e \in Entries |-> 0] /\ silent = 0
    /\ storage = [used |-> 0, limit |-> 0] /\ timer = FALSE /\ unsaid = FALSE
    /\ socket = [c \in Conns |-> NoSocket]
    /\ presence = [c \in Conns |-> None] /\ forgot = {}
    /\ handler = [h \in Handlers |-> Idle]
    /\ sent = [c \in Conns |-> Nothing]
    /\ device = [d \in Devices |->
         [since |-> 0, target |-> None, after |-> 0,
          got |-> [e \in Entries |-> 0]]]
    /\ budget = w.budget

-----------------------------------------------------------------------------
Open(c) == socket[c].state = "open"          \* readSocketSession finds it

Spend(kind) == /\ budget[kind] > 0
               /\ budget' = [budget EXCEPT ![kind] = @ - 1]

\* On Node a message, a request or a disconnect waits for the vault's lock.
Turn == runtime = "node" => \A h \in Handlers : handler[h] = Idle

Begin(h, pc, c, n) ==
  /\ handler[h] = Idle /\ Turn
  /\ handler' = [handler EXCEPT ![h] = [pc |-> pc, conn |-> c, cursor |-> n]]

End(h) == handler' = [handler EXCEPT ![h] = Idle]

-----------------------------------------------------------------------------
(* Sockets.  A new one replaces those of the same device; a socket the      *)
(* server closes is "closing" until the platform reports its end, and on    *)
(* Node "leaving" from there until the lock lets the handler clean up.      *)

Superseded(c) == {x \in Conns : Open(x) /\ DeviceOf[x] = DeviceOf[c]}

Accept(c) ==
  /\ socket[c].state = "new"
  /\ Spend("accept")
  /\ socket' = [x \in Conns |->
       IF x = c THEN [NoSocket EXCEPT !.state = "open"]
       ELSE IF x \in Superseded(c)
       THEN [socket[x] EXCEPT !.state = "closing"] ELSE socket[x]]
  /\ UNCHANGED <<runtime, feedVars, statusVars, presenceVars, handler, sent,
                 device>>

\* closeSocket, for access that was revoked or a sync pause.
CloseSocket(c) ==
  /\ Open(c)
  /\ Spend("close")
  /\ socket' = [socket EXCEPT ![c].state = "closing"]
  /\ UNCHANGED <<runtime, feedVars, statusVars, presenceVars, handler, sent,
                 device>>

-----------------------------------------------------------------------------
(* The cursor: hello, commits.                                             *)

\* Else the client is ahead of a server whose state was lost.
CursorInRange(d) == device[d].since <= cursor

Hello(h, c) ==
  /\ Open(c) /\ ~sent[c].hello
  /\ CursorInRange(DeviceOf[c])
  /\ Spend("hello")
  /\ Begin(h, "hello", c, 0)
  /\ UNCHANGED <<runtime, feedVars, statusVars, socket, presenceVars, sent,
                 device>>

\* Mutant: the answer names the cursor the next commit will have.
AckHelloNext(h) ==
  LET c == handler[h].conn
  IN
  /\ handler[h].pc = "hello"
  /\ sent' = IF Open(c)
             THEN [sent EXCEPT ![c].hello = TRUE, ![c].told = cursor + 1]
             ELSE sent
  /\ End(h)
  /\ UNCHANGED <<runtime, feedVars, statusVars, socket, presenceVars, device,
                 budget>>

\* The cursor is read after the wait for the scheduler.
AckHello(h) ==
  LET c == handler[h].conn
  IN
  /\ handler[h].pc = "hello"
  /\ sent' = IF Open(c)
             THEN [sent EXCEPT ![c].hello = TRUE,
                               ![c].told = Larger(@, cursor)]
             ELSE sent
  /\ End(h)
  /\ UNCHANGED <<runtime, feedVars, statusVars, socket, presenceVars, device,
                 budget>>

\* A batch of n mutations: place[e] is the number of its last mutation of e,
\* 0 if it has none.  Every mutation takes the next cursor.
CommitMutations(h, c, n, place) ==
  /\ Open(c)
  /\ \E e \in Entries : place[e] = n
  /\ \A e, f \in Entries : place[e] = place[f] => e = f \/ place[e] = 0
  /\ Spend("commit")
  /\ seqOf' = [e \in Entries |->
                 IF place[e] = 0 THEN seqOf[e] ELSE cursor + place[e]]
  /\ cursor' = cursor + n
  /\ Begin(h, "commit", c, cursor + n)
  /\ UNCHANGED <<runtime, statusVars, socket, presenceVars, sent, device,
                 silent>>

\* Mutant: nobody is told when the sender has left.
ReplyFirst(h) ==
  LET n == handler[h].cursor
      reply == Open(handler[h].conn)
  IN
  /\ handler[h].pc = "commit"
  /\ sent' = [c \in Conns |-> IF Open(c) /\ reply
                THEN [sent[c] EXCEPT !.told = Larger(@, n)] ELSE sent[c]]
  /\ End(h)
  /\ UNCHANGED <<runtime, feedVars, statusVars, socket, presenceVars, device,
                 budget>>

\* cursor_advanced to everybody, the answer of the sender among them.
CursorSent(n) == [c \in Conns |-> IF Open(c)
                    THEN [sent[c] EXCEPT !.told = Larger(@, n)] ELSE sent[c]]

\* After the collection and the summary are scheduled.
Reply(h) ==
  /\ handler[h].pc = "commit"
  /\ sent' = CursorSent(handler[h].cursor)
  /\ End(h)
  /\ UNCHANGED <<runtime, feedVars, statusVars, socket, presenceVars, device,
                 budget>>

\* Scheduling fails: the commit stays, its sender is told it failed.
ReplyFails(h) ==
  /\ handler[h].pc = "commit"
  /\ Spend("fault")
  /\ silent' = Larger(silent, handler[h].cursor)
  /\ End(h)
  /\ UNCHANGED <<runtime, cursor, seqOf, statusVars, socket, presenceVars,
                 sent, device>>

-----------------------------------------------------------------------------
(* listEntryStates: pages up to the cursor of the first.  Every mutation    *)
(* has a cursor of its own, so updated_seq alone orders the rows.           *)

Changed(since, target, after) ==
  {e \in Entries : seqOf[e] > since /\ seqOf[e] <= target /\ seqOf[e] > after}

\* Mutant: the query has no row to spare to tell that there are more.
HasMoreUnseen(rows) == Cardinality(rows) > PageLimit + 1

HasMore(rows) == Cardinality(rows) > PageLimit

IsPage(page, rows) ==
  /\ \/ page = rows /\ Cardinality(rows) <= PageLimit
     \/ Cardinality(rows) > PageLimit /\ Cardinality(page) = PageLimit
  /\ \A e \in page, f \in rows \ page : seqOf[e] < seqOf[f]

\* The client asks on with the target and nextAfter of the page before; the
\* last page makes the target its cursor.
ListEntryStates(d, target, after) ==
  LET rows == Changed(device[d].since, target, after)
      Received(page) == [e \in Entries |-> IF e \in page THEN seqOf[e]
                                           ELSE device[d].got[e]]
  IN
  \E page \in SUBSET rows :
    /\ IsPage(page, rows)
    /\ \/ /\ HasMore(rows)
          /\ \E last \in page :
               /\ \A e \in page : seqOf[e] <= seqOf[last]
               /\ device' = [device EXCEPT ![d] =
                    [since |-> @.since, target |-> target,
                     after |-> seqOf[last], got |-> Received(page)]]
       \/ /\ ~HasMore(rows)
          /\ device' = [device EXCEPT ![d] =
               [since |-> target, target |-> None, after |-> 0,
                got |-> Received(page)]]

ListChanges(c) ==
  LET d == DeviceOf[c]
  IN
  /\ Open(c) /\ Turn
  /\ Spend("list")
  /\ \/ CursorInRange(d) /\ ListEntryStates(d, cursor, 0)
     \/ device[d].target # None
          /\ ListEntryStates(d, device[d].target, device[d].after)
  /\ UNCHANGED <<runtime, feedVars, statusVars, socket, presenceVars, handler,
                 sent>>

-----------------------------------------------------------------------------
(* Storage: uploads and collections change what is used, the subscription   *)
(* the limit.  One broadcast, some time later, covers all changes of use.   *)

ChangeUse(h, n) ==
  /\ n # storage.used
  /\ Spend("storage")
  /\ storage' = [storage EXCEPT !.used = n]
  /\ Begin(h, "use", None, 0)
  /\ UNCHANGED <<runtime, feedVars, timer, unsaid, socket, presenceVars, sent,
                 device>>

NotifyStorageStatusChanged(h) ==
  /\ handler[h].pc = "use"
  /\ timer' = TRUE
  /\ End(h)
  /\ UNCHANGED <<runtime, feedVars, storage, unsaid, socket, presenceVars,
                 sent, device, budget>>

FlushStorageStatus ==
  /\ timer
  /\ timer' = FALSE
  /\ sent' = [c \in Conns |-> IF Open(c) /\ socket[c].wantsStorage
                THEN [sent[c] EXCEPT !.status = storage] ELSE sent[c]]
  /\ UNCHANGED <<runtime, feedVars, storage, unsaid, socket, presenceVars,
                 handler, device, budget>>

ApplyVaultPolicy(h, n) ==
  /\ n # storage.limit
  /\ Spend("storage")
  /\ storage' = [storage EXCEPT !.limit = n]
  /\ Begin(h, "limit", None, 0)
  /\ UNCHANGED <<runtime, feedVars, timer, unsaid, socket, presenceVars, sent,
                 device>>

BroadcastPolicyUpdated(h) ==
  /\ handler[h].pc = "limit"
  /\ sent' = [c \in Conns |-> IF Open(c)
                THEN [sent[c] EXCEPT !.status = storage] ELSE sent[c]]
  /\ End(h)
  /\ UNCHANGED <<runtime, feedVars, statusVars, socket, presenceVars, device,
                 budget>>

\* What was to be scheduled before the broadcast fails.
NotifyFails(h) ==
  /\ handler[h].pc \in {"use", "limit"}
  /\ Spend("fault")
  /\ unsaid' = TRUE
  /\ End(h)
  /\ UNCHANGED <<runtime, feedVars, storage, timer, socket, presenceVars, sent,
                 device>>

WatchStorageStatus(c) ==
  /\ Open(c) /\ ~socket[c].wantsStorage /\ Turn
  /\ Spend("watch")
  /\ socket' = [socket EXCEPT ![c].wantsStorage = TRUE]
  /\ sent' = [sent EXCEPT ![c].status = storage]
  /\ UNCHANGED <<runtime, feedVars, statusVars, presenceVars, handler, device>>

UnwatchStorageStatus(c) ==
  /\ Open(c) /\ socket[c].wantsStorage /\ Turn
  /\ Spend("watch")
  /\ socket' = [socket EXCEPT ![c].wantsStorage = FALSE]
  /\ UNCHANGED <<runtime, feedVars, statusVars, presenceVars, handler, sent,
                 device>>

-----------------------------------------------------------------------------
(* Presence.  s is what clients have been told so far, sock the sockets     *)
(* with their new attachments.                                              *)

Hears(sock, c, e) ==
  sock[c].state = "open" /\ sock[c].wantsPresence /\ e \in sock[c].watching

\* broadcastPresenceToWatchers(entry, except = p, presence_cleared)
Cleared(sock, s, p, e) ==
  [c \in Conns |-> IF c # p /\ Hears(sock, c, e)
                   THEN [s[c] EXCEPT !.shown[p] = None] ELSE s[c]]

\* the same with presence_updated, whose sender must still have a session
Updated(sock, s, p, e) ==
  [c \in Conns |-> IF c # p /\ Hears(sock, c, e) /\ Open(p)
                   THEN [s[c] EXCEPT !.shown[p] = e] ELSE s[c]]

\* listByEntryId for the entries of S: what c is sent; a client keeps what it
\* watches.
Replayed(sock, s, store, c, S) ==
  [s EXCEPT ![c].shown = [p \in Conns |->
     IF p # c /\ Open(p) /\ store[p] \in S /\ Hears(sock, c, store[p])
     THEN store[p] ELSE @[p]]]

\* The Node gateway counts sockets until they are unregistered, the other
\* only those that are open.
Watchers(sock) ==
  {c \in Conns : /\ sock[c].wantsPresence
                 /\ \/ sock[c].state = "open"
                    \/ sock[c].state = "closing" /\ runtime = "node"}

Enabled(sock) == Cardinality(Watchers(sock)) > 1

\* presence_availability; a client alone forgets the others.
Announced(sock, s) ==
  [c \in Conns |->
     IF sock[c].state # "open" \/ ~sock[c].wantsPresence THEN s[c]
     ELSE IF Enabled(sock) THEN [s[c] EXCEPT !.available = TRUE]
     ELSE [s[c] EXCEPT !.available = FALSE, !.shown = [p \in Conns |-> None]]]

\* With nobody to show it to, the store is emptied.
Kept(sock, store) == IF Enabled(sock) THEN store
                     ELSE [c \in Conns |-> None]

Without(c) == [presence EXCEPT ![c] = None]

WatchPresence(c, W) ==
  LET sock == [socket EXCEPT ![c].wantsPresence = TRUE, ![c].watching = W]
      dropped == presence[c] # None /\ presence[c] \notin W
      store == IF dropped THEN Without(c) ELSE presence
      kept == [sent EXCEPT ![c].shown =
                 [p \in Conns |-> IF @[p] \in W THEN @[p] ELSE None]]
      told == IF dropped THEN Cleared(sock, kept, c, presence[c]) ELSE kept
      announced == Announced(sock, told)
  IN
  /\ Open(c) /\ Turn
  /\ Spend("presence")
  /\ socket' = sock
  /\ presence' = Kept(sock, store)
  /\ sent' = IF Enabled(sock)
             THEN Replayed(sock, announced, store, c, W \ socket[c].watching)
             ELSE announced
  /\ UNCHANGED <<runtime, feedVars, statusVars, forgot, handler, device>>

UnwatchPresence(c) ==
  LET sock == [socket EXCEPT ![c].wantsPresence = FALSE, ![c].watching = {}]
      told == [sent EXCEPT ![c].shown = [p \in Conns |-> None],
                           ![c].available = FALSE]
  IN
  /\ Open(c) /\ socket[c].wantsPresence /\ Turn
  /\ Spend("presence")
  /\ socket' = sock
  /\ presence' = Kept(sock, Without(c))
  /\ sent' = Announced(sock, Cleared(sock, told, c, presence[c]))
  /\ UNCHANGED <<runtime, feedVars, statusVars, forgot, handler, device>>

ClearPresence(c) ==
  /\ Open(c) /\ socket[c].wantsPresence /\ presence[c] # None /\ Turn
  /\ Spend("presence")
  /\ presence' = Without(c)
  /\ sent' = Cleared(socket, sent, c, presence[c])
  /\ UNCHANGED <<runtime, feedVars, statusVars, socket, forgot, handler, device>>

\* One more update within 200 ms changes nothing.
UpdatePresence(c, e) ==
  LET old == presence[c]
      store == [presence EXCEPT ![c] = e]
      told == IF old = e THEN sent ELSE Cleared(socket, sent, c, old)
      updated == Updated(socket, told, c, e)
  IN
  /\ Open(c) /\ socket[c].wantsPresence /\ Turn
  /\ Spend("presence")
  /\ presence' = store
  /\ sent' = IF old = e THEN updated
             ELSE Replayed(socket, updated, store, c, {e})
  /\ UNCHANGED <<runtime, feedVars, statusVars, socket, forgot, handler, device>>

-----------------------------------------------------------------------------
(* The end of a socket, and of the process.                                *)

\* Mutant: the presence of a socket the server has closed is left.
HandleDisconnectOpen(c, sock) ==
  /\ presence' = Kept(sock, IF Open(c) THEN Without(c) ELSE presence)
  /\ sent' = Announced(sock, IF Open(c)
               THEN Cleared(sock, sent, c, presence[c]) ELSE sent)

HandleDisconnect(c, sock) ==
  /\ presence' = Kept(sock, Without(c))
  /\ sent' = Announced(sock, Cleared(sock, sent, c, presence[c]))

\* The client leaves, or the end of a socket the server closed is reported.
Ends(c) == \/ Open(c) /\ Spend("leave")
           \/ socket[c].state = "closing" /\ UNCHANGED budget

\* webSocketClose, webSocketError
TerminateSocket(c) ==
  LET sock == [socket EXCEPT ![c].state = "gone"]
  IN
  /\ runtime = "object"
  /\ Ends(c)
  /\ socket' = sock
  /\ HandleDisconnect(c, sock)
  /\ UNCHANGED <<runtime, feedVars, statusVars, forgot, handler, device>>

\* The Node server unregisters the socket at once ...
UnregisterSocket(c) ==
  /\ runtime = "node"
  /\ Ends(c)
  /\ socket' = [socket EXCEPT ![c].state = "leaving"]
  /\ UNCHANGED <<runtime, feedVars, statusVars, presenceVars, handler, sent,
                 device>>

\* ... and cleans up when it has the lock.
DisconnectOnNode(c) ==
  LET sock == [socket EXCEPT ![c].state = "gone"]
  IN
  /\ socket[c].state = "leaving" /\ Turn
  /\ socket' = sock
  /\ HandleDisconnect(c, sock)
  /\ UNCHANGED <<runtime, feedVars, statusVars, forgot, handler, device, budget>>

\* An idle object leaves memory; its sockets and attachments stay.
Hibernate ==
  /\ runtime = "object" /\ ~timer /\ \A h \in Handlers : handler[h] = Idle
  /\ Spend("restart")
  /\ presence' = [c \in Conns |-> None]
  /\ forgot' = forgot \cup {c \in Conns : presence[c] # None}
  /\ UNCHANGED <<runtime, feedVars, statusVars, socket, handler, sent, device>>

Crash ==
  /\ Spend("restart")
  /\ socket' = [c \in Conns |-> IF socket[c].state = "new" THEN socket[c]
                                ELSE [socket[c] EXCEPT !.state = "gone"]]
  /\ presence' = [c \in Conns |-> None]
  /\ handler' = [h \in Handlers |-> Idle]
  /\ timer' = FALSE
  /\ UNCHANGED <<runtime, feedVars, storage, unsaid, forgot, sent, device>>

-----------------------------------------------------------------------------
Message(c) ==
  \/ Accept(c) \/ CloseSocket(c)
  \/ \E h \in Handlers :
       \/ Hello(h, c)
       \/ \E n \in 1..MaxBatch : \E place \in [Entries -> 0..n] :
            CommitMutations(h, c, n, place)
  \/ ListChanges(c) \/ WatchStorageStatus(c) \/ UnwatchStorageStatus(c)
  \/ (\E W \in SUBSET Entries : WatchPresence(c, W)) \/ UnwatchPresence(c)
  \/ ClearPresence(c) \/ (\E e \in Entries : UpdatePresence(c, e))
  \/ TerminateSocket(c) \/ UnregisterSocket(c) \/ DisconnectOnNode(c)

Handle(h) ==
  \/ AckHello(h) \/ Reply(h) \/ ReplyFails(h)
  \/ \E n \in Loads : ChangeUse(h, n) \/ ApplyVaultPolicy(h, n)
  \/ NotifyStorageStatusChanged(h) \/ BroadcastPolicyUpdated(h) \/ NotifyFails(h)

Next ==
  \/ \E c \in Conns : Message(c)
  \/ \E h \in Handlers : Handle(h)
  \/ FlushStorageStatus \/ Hibernate \/ Crash

Spec == Init /\ [][Next]_vars

-----------------------------------------------------------------------------
\* Types; a client is never told of a cursor that does not exist.
TypeOK ==
  /\ runtime \in {"object", "node"}
  /\ cursor \in Nat /\ silent \in 0..cursor
  /\ seqOf \in [Entries -> 0..cursor]
  /\ storage \in [used : Loads, limit : Loads]
  /\ timer \in BOOLEAN /\ unsaid \in BOOLEAN
  /\ socket \in [Conns ->
       [state : {"new", "open", "closing", "leaving", "gone"},
        wantsStorage : BOOLEAN, wantsPresence : BOOLEAN,
        watching : SUBSET Entries]]
  /\ presence \in [Conns -> Entries \cup {None}]
  /\ handler \in [Handlers ->
       [pc : {"idle", "hello", "commit", "use", "limit"},
        conn : Conns \cup {None}, cursor : 0..cursor]]
  /\ sent \in [Conns ->
       [hello : BOOLEAN, told : 0..cursor, available : BOOLEAN,
        status : [used : Loads, limit : Loads] \cup {None},
        shown : [Conns -> Entries \cup {None}]]]
  /\ device \in [Devices ->
       [since : 0..cursor, target : (0..cursor) \cup {None}, after : 0..cursor,
        got : [Entries -> 0..cursor]]]
  /\ forgot \subseteq Conns

\* A device that has listed all pages up to a cursor has every entry that was
\* not changed after it, although commits went on between the pages and moved
\* entries out of the range (listEntryStates, validateCursorRange).
ListingComplete ==
  \A d \in Devices, e \in Entries :
    seqOf[e] <= device[d].since => device[d].got[e] = seqOf[e]

CursorTold(c) ==
  sent[c].hello =>
    \/ sent[c].told = cursor
    \/ \E h \in Handlers : handler[h].pc = "commit" /\ handler[h].cursor = cursor
    \/ silent = cursor

StatusTold(c) ==
  socket[c].wantsStorage =>
    \/ sent[c].status = storage \/ timer
    \/ \E h \in Handlers : handler[h].pc \in {"use", "limit"}
    \/ unsaid

\* Every open socket has been told the newest cursor, and one that watches the
\* storage status the newest status, unless the message is on its way: whoever
\* says hello or watches while others commit, upload or leave misses nothing.
\* The exceptions are errors after the change was stored (commitMutations,
\* stageBlob, runGc, applyVaultPolicy).
NothingUntold == \A c \in Conns : Open(c) => CursorTold(c) /\ StatusTold(c)

\* What a socket shows of the others is what they have open among the entries
\* it watches, with nobody left over who moved on or left, through replaced
\* sockets and disconnects that are handled late; and it knows whether others
\* are there.  A hibernating object forgets the presence of its sockets, and
\* theirs is never cleared (PresenceStore, handleDisconnect).
PresenceShown ==
  \A c \in Conns : (Open(c) /\ socket[c].wantsPresence) =>
    /\ \A p \in (Conns \ {c}) \ forgot :
         /\ sent[c].shown[p] \in {None, presence[p]}
         /\ socket[p].state = "gone" => sent[c].shown[p] = None
         /\ (Open(p) /\ presence[p] \in socket[c].watching)
              => sent[c].shown[p] = presence[p]
    /\ \/ sent[c].available = \E p \in Conns \ {c} :
                                 Open(p) /\ socket[p].wantsPresence
       \/ \E p \in Conns : /\ socket[p].wantsPresence
                           /\ socket[p].state \in {"closing", "leaving"}
=============================================================================
