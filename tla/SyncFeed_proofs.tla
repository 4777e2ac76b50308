--------------------------- MODULE SyncFeed_proofs ---------------------------
(***************************************************************************)
(* Proofs about SyncFeed and HistoryPages, for every number of             *)
(* connections, devices, entries, handlers, files and versions, every page *)
(* and batch size, every retention and every workload.                     *)
(***************************************************************************)
EXTENDS HistoryPages, FiniteSetTheorems, WellFoundedInduction, TLAPS

-----------------------------------------------------------------------------
(* The types, variable by variable.                                        *)

FeedTyped == /\ cursor \in Nat /\ silent \in 0..cursor
             /\ seqOf \in [Entries -> 0..cursor]

StatusTyped == /\ storage \in [used : Loads, limit : Loads]
               /\ timer \in BOOLEAN /\ unsaid \in BOOLEAN

SocketTyped == socket \in [Conns ->
  [state : {"new", "open", "closing", "leaving", "gone"},
   wantsStorage : BOOLEAN, wantsPresence : BOOLEAN,
   watching : SUBSET Entries]]

PresenceTyped == /\ presence \in [Conns -> Entries \cup {None}]
                 /\ forgot \subseteq Conns

HandlerTyped == handler \in [Handlers ->
  [pc : {"idle", "hello", "commit", "use", "limit"},
   conn : Conns \cup {None}, cursor : 0..cursor]]

Known == [hello : BOOLEAN, told : 0..cursor, available : BOOLEAN,
          status : [used : Loads, limit : Loads] \cup {None},
          shown : [Conns -> Entries \cup {None}]]

SentTyped == sent \in [Conns -> Known]

DeviceTyped == device \in [Devices ->
  [since : 0..cursor, target : (0..cursor) \cup {None}, after : 0..cursor,
   got : [Entries -> 0..cursor]]]

\* TypeOK is the conjunction of its parts.
LEMMA TypeParts ==
  TypeOK <=> /\ runtime \in {"object", "node"}
             /\ FeedTyped /\ StatusTyped /\ SocketTyped /\ PresenceTyped
             /\ HandlerTyped /\ SentTyped /\ DeviceTyped
  BY DEF TypeOK, FeedTyped, StatusTyped, SocketTyped, PresenceTyped,
         HandlerTyped, SentTyped, DeviceTyped, Known

LEMMA NextTypeParts ==
  TypeOK' <=> /\ runtime' \in {"object", "node"}
              /\ FeedTyped' /\ StatusTyped' /\ SocketTyped' /\ PresenceTyped'
              /\ HandlerTyped' /\ SentTyped' /\ DeviceTyped'
  BY DEF TypeOK, FeedTyped, StatusTyped, SocketTyped, PresenceTyped,
         HandlerTyped, SentTyped, DeviceTyped, Known

-----------------------------------------------------------------------------
(* What the helpers on the knowledge of the clients return.                *)

LEMMA LargerTyped ==
  ASSUME NEW n \in Nat, NEW a \in 0..n, NEW b \in 0..n
  PROVE  Larger(a, b) \in 0..n
  BY DEF Larger

LEMMA ClearedTyped ==
  ASSUME NEW s \in [Conns -> Known], NEW sock, NEW p, NEW e
  PROVE  Cleared(sock, s, p, e) \in [Conns -> Known]
  BY ZenonT(90) DEF Cleared, Known

LEMMA UpdatedTyped ==
  ASSUME NEW s \in [Conns -> Known], NEW sock, NEW p, NEW e \in Entries
  PROVE  Updated(sock, s, p, e) \in [Conns -> Known]
  BY ZenonT(90) DEF Updated, Known

LEMMA ReplayedTyped ==
  ASSUME NEW s \in [Conns -> Known], NEW sock, NEW c \in Conns, NEW S,
         NEW store \in [Conns -> Entries \cup {None}]
  PROVE  Replayed(sock, s, store, c, S) \in [Conns -> Known]
  BY ZenonT(90) DEF Replayed, Known

LEMMA AnnouncedTyped ==
  ASSUME NEW s \in [Conns -> Known], NEW sock
  PROVE  Announced(sock, s) \in [Conns -> Known]
  BY ZenonT(90) DEF Announced, Known

LEMMA KeptTyped ==
  ASSUME NEW store \in [Conns -> Entries \cup {None}], NEW sock
  PROVE  Kept(sock, store) \in [Conns -> Entries \cup {None}]
  BY DEF Kept

\* What an action leaves alone keeps its type; what holds cursors also when
\* the cursor advances.
LEMMA StillTyped ==
  ASSUME TypeOK
  PROVE  /\ UNCHANGED feedVars => FeedTyped'
         /\ UNCHANGED statusVars => StatusTyped'
         /\ UNCHANGED socket => SocketTyped'
         /\ UNCHANGED presenceVars => PresenceTyped'
         /\ UNCHANGED <<handler, cursor>> => HandlerTyped'
         /\ UNCHANGED <<sent, cursor>> => SentTyped'
         /\ UNCHANGED <<device, cursor>> => DeviceTyped'
         /\ (cursor' \in Nat /\ cursor <= cursor') =>
              /\ UNCHANGED sent => SentTyped'
              /\ UNCHANGED device => DeviceTyped'
<1> USE TypeParts
<1>1. UNCHANGED feedVars => FeedTyped'
  BY DEF feedVars, FeedTyped
<1>2. UNCHANGED statusVars => StatusTyped'
  BY DEF statusVars, StatusTyped
<1>3. UNCHANGED socket => SocketTyped'
  BY DEF SocketTyped
<1>4. UNCHANGED presenceVars => PresenceTyped'
  BY DEF presenceVars, PresenceTyped
<1>5. UNCHANGED <<handler, cursor>> => HandlerTyped'
  BY DEF HandlerTyped
<1>6. UNCHANGED <<sent, cursor>> => SentTyped'
  BY DEF SentTyped, Known
<1>7. UNCHANGED <<device, cursor>> => DeviceTyped'
  BY DEF DeviceTyped
<1>8. ASSUME cursor' \in Nat, cursor <= cursor'
      PROVE  0..cursor \subseteq 0..cursor'
  BY <1>8 DEF FeedTyped
<1>9. ASSUME cursor' \in Nat, cursor <= cursor', UNCHANGED sent
      PROVE  SentTyped'
  <2>1. Known \subseteq Known'
    BY <1>8, <1>9 DEF Known
  <2> QED  BY <2>1, <1>9 DEF SentTyped
<1>10. ASSUME cursor' \in Nat, cursor <= cursor', UNCHANGED device
       PROVE  DeviceTyped'
  <2>1. [Entries -> 0..cursor] \subseteq [Entries -> 0..cursor']
    BY <1>8, <1>10
  <2> QED  BY <2>1, <1>8, <1>10 DEF DeviceTyped
<1> QED  BY <1>1, <1>2, <1>3, <1>4, <1>5, <1>6, <1>7, <1>9, <1>10

\* A new page is typed like the copy it goes into.
LEMMA ListedTyped ==
  ASSUME FeedTyped, DeviceTyped, NEW d \in Devices,
         NEW target \in 0..cursor, NEW after, ListEntryStates(d, target, after),
         cursor' = cursor
  PROVE  DeviceTyped'
<1> DEFINE rows == Changed(device[d].since, target, after)
           Copied(page) == [e \in Entries |-> IF e \in page THEN seqOf[e]
                                                ELSE device[d].got[e]]
           Row == [since : 0..cursor, target : (0..cursor) \cup {None},
                   after : 0..cursor, got : [Entries -> 0..cursor]]
<1>1. \A page : Copied(page) \in [Entries -> 0..cursor]
  BY DEF FeedTyped, DeviceTyped
<1>2. 0 \in 0..cursor /\ device[d] \in Row
  BY DEF FeedTyped, DeviceTyped
<1> HIDE DEF Copied
<1>3. PICK page \in SUBSET rows :
        \/ \E last \in page : device' = [device EXCEPT ![d] =
               [since |-> device[d].since, target |-> target,
                after |-> seqOf[last], got |-> Copied(page)]]
        \/ device' = [device EXCEPT ![d] =
               [since |-> target, target |-> None, after |-> 0,
                got |-> Copied(page)]]
  BY DEF ListEntryStates, Copied
<1>4. \A last \in page : seqOf[last] \in 0..cursor
  BY DEF Changed, FeedTyped
<1>5. \E row \in Row : device' = [device EXCEPT ![d] = row]
  BY <1>1, <1>2, <1>3, <1>4
<1> QED  BY <1>5 DEF DeviceTyped

-----------------------------------------------------------------------------
(* Type correctness.                                                       *)

LEMMA InitTyped == Init => TypeOK
<1> SUFFICES ASSUME Init  PROVE TypeOK
  OBVIOUS
<1> USE FeedAssumptions DEF Init
<1>1. runtime \in {"object", "node"}
  OBVIOUS
<1>2. FeedTyped
  BY DEF FeedTyped
<1>3. StatusTyped
  <2>1. storage = [used |-> 0, limit |-> 0] /\ 0 \in Loads
    OBVIOUS
  <2>2. timer = FALSE /\ unsaid = FALSE
    OBVIOUS
  <2>3. storage \in [used : Loads, limit : Loads]
    BY ONLY <2>1
  <2> QED  BY ONLY <2>2, <2>3 DEF StatusTyped
<1>4. PresenceTyped
  BY DEF PresenceTyped
<1>5. SocketTyped
  BY DEF SocketTyped, NoSocket
<1>6. HandlerTyped
  BY DEF HandlerTyped, Idle
<1>7. SentTyped
  BY DEF SentTyped, Known, Nothing
<1>8. DeviceTyped
  BY DEF DeviceTyped
<1> QED
  BY <1>1, <1>2, <1>3, <1>4, <1>5, <1>6, <1>7, <1>8, TypeParts

\* The state of a socket changes.
LEMMA AcceptTyped ==
  ASSUME TypeOK, NEW c \in Conns, Accept(c) \/ CloseSocket(c)
  PROVE  SocketTyped'
<1> USE TypeParts DEF SocketTyped, NoSocket
<1>1. CASE Accept(c)
  BY ZenonT(90), <1>1 DEF Accept, Superseded
<1>2. CASE CloseSocket(c)
  BY <1>2 DEF CloseSocket
<1> QED  BY <1>1, <1>2

\* A handler begins or ends.
LEMMA BegunTyped ==
  ASSUME HandlerTyped, NEW h \in Handlers, cursor' \in Nat, cursor <= cursor',
         cursor \in Nat,
         NEW pc \in {"idle", "hello", "commit", "use", "limit"},
         NEW c \in Conns \cup {None}, NEW n \in 0..cursor',
         Begin(h, pc, c, n)
  PROVE  HandlerTyped'
<1> DEFINE Row == [pc : {"idle", "hello", "commit", "use", "limit"},
                   conn : Conns \cup {None}, cursor : 0..cursor']
<1>1. \A k \in Handlers : handler[k] \in Row
  BY DEF HandlerTyped
<1>2. [pc |-> pc, conn |-> c, cursor |-> n] \in Row
  OBVIOUS
<1> HIDE DEF Row
<1>3. handler' \in [Handlers -> Row]
  BY <1>1, <1>2 DEF Begin, HandlerTyped
<1> QED  BY <1>3 DEF HandlerTyped, Row

LEMMA EndedTyped ==
  ASSUME HandlerTyped, NEW h \in Handlers, cursor \in Nat, cursor' = cursor,
         End(h)
  PROVE  HandlerTyped'
<1>1. Idle \in [pc : {"idle", "hello", "commit", "use", "limit"},
                conn : Conns \cup {None}, cursor : 0..cursor]
  BY DEF Idle
<1> QED  BY <1>1 DEF End, HandlerTyped

\* Some clients are told n.
LEMMA ToldTyped ==
  ASSUME SentTyped, cursor \in Nat, cursor' = cursor, NEW n \in 0..cursor,
         NEW S,
         sent' = [c \in Conns |-> IF c \in S
                    THEN [sent[c] EXCEPT !.told = Larger(@, n)] ELSE sent[c]]
  PROVE  SentTyped'
<1>1. \A c \in Conns : Larger(sent[c].told, n) \in 0..cursor
  BY LargerTyped DEF SentTyped, Known
<1> QED  BY ZenonT(90), <1>1 DEF SentTyped, Known

\* Some clients are told the storage status.
LEMMA StatusSentTyped ==
  ASSUME SentTyped, StatusTyped, cursor' = cursor, NEW S,
         sent' = [c \in Conns |-> IF c \in S
                    THEN [sent[c] EXCEPT !.status = storage] ELSE sent[c]]
  PROVE  SentTyped'
  BY ZenonT(90) DEF SentTyped, Known, StatusTyped

\* Messages about the cursor.
LEMMA CursorMessagesTyped ==
  ASSUME TypeOK, NEW c \in Conns, NEW h \in Handlers
  PROVE  /\ Hello(h, c) => TypeOK'
         /\ \A n \in 1..MaxBatch : \A place \in [Entries -> 0..n] :
              CommitMutations(h, c, n, place) => TypeOK'
<1> USE TypeParts, NextTypeParts, StillTyped
<1>0. cursor \in Nat /\ silent \in 0..cursor /\ 0 \in 0..cursor
  BY DEF FeedTyped
<1>1. ASSUME Hello(h, c)  PROVE TypeOK'
  <2>1. HandlerTyped'
    BY <1>0, <1>1, BegunTyped DEF Hello, CursorInRange, feedVars
  <2> QED  BY <1>1, <2>1 DEF Hello, CursorInRange, feedVars
<1>2. ASSUME NEW n \in 1..MaxBatch, NEW place \in [Entries -> 0..n],
             CommitMutations(h, c, n, place)
      PROVE  TypeOK'
  <2>1. cursor' = cursor + n /\ n \in Nat
    BY <1>2, FeedAssumptions DEF CommitMutations
  <2>2. /\ cursor' \in Nat /\ cursor <= cursor' /\ cursor' \in 0..cursor'
        /\ \A k \in 0..n : cursor + k \in 0..cursor'
        /\ \A k \in 0..cursor : k \in 0..cursor'
    BY <1>0, <2>1
  <2>3. HandlerTyped'
    BY <1>0, <1>2, <2>1, <2>2, BegunTyped DEF CommitMutations
  <2>4. FeedTyped'
    BY <1>0, <1>2, <2>1, <2>2 DEF CommitMutations, FeedTyped
  <2> QED  BY <1>2, <2>2, <2>3, <2>4 DEF CommitMutations
<1> QED  BY <1>1, <1>2

\* A device lists a page.
LEMMA ListTyped ==
  ASSUME TypeOK, NEW c \in Conns, ListChanges(c)
  PROVE  TypeOK'
<1> USE TypeParts, NextTypeParts, StillTyped
<1> DEFINE d == DeviceOf[c]
<1>1. d \in Devices /\ cursor \in 0..cursor /\ cursor' = cursor
  BY FeedAssumptions DEF ListChanges, CursorInRange, feedVars, FeedTyped
<1>2. device[d].target # None => device[d].target \in 0..cursor
  BY <1>1 DEF DeviceTyped
<1>3. PICK target \in 0..cursor : \E after : ListEntryStates(d, target, after)
  BY <1>1, <1>2 DEF ListChanges, CursorInRange
<1>4. DeviceTyped'
  BY <1>1, <1>3, ListedTyped
<1>5. /\ UNCHANGED <<runtime, feedVars, statusVars, socket, presenceVars,
                     handler, sent>>
      /\ UNCHANGED <<handler, cursor>> /\ UNCHANGED <<sent, cursor>>
  BY DEF ListChanges, CursorInRange, feedVars
<1> QED  BY <1>4, <1>5

\* Messages about the storage status.
LEMMA StatusMessagesTyped ==
  ASSUME TypeOK, NEW c \in Conns,
         WatchStorageStatus(c) \/ UnwatchStorageStatus(c)
  PROVE  TypeOK'
<1> USE TypeParts, NextTypeParts, StillTyped
<1>1. CASE WatchStorageStatus(c)
  <2>1. SocketTyped'
    BY ZenonT(90), <1>1 DEF WatchStorageStatus, SocketTyped
  <2>2. SentTyped'
    BY ZenonT(90),
       <1>1 DEF WatchStorageStatus, SentTyped, Known, StatusTyped, feedVars
  <2> QED  BY <1>1, <2>1, <2>2 DEF WatchStorageStatus, feedVars
<1>2. CASE UnwatchStorageStatus(c)
  <2>1. SocketTyped'
    BY ZenonT(90), <1>2 DEF UnwatchStorageStatus, SocketTyped
  <2> QED  BY <1>2, <2>1 DEF UnwatchStorageStatus, feedVars
<1> QED  BY <1>1, <1>2

\* What the presence messages leave alone.
LEMMA PresenceFrame ==
  ASSUME TypeOK,
         UNCHANGED <<runtime, feedVars, statusVars, forgot, handler, device>>,
         SocketTyped', presence' \in [Conns -> Entries \cup {None}],
         sent' \in [Conns -> Known]
  PROVE  TypeOK'
<1> USE TypeParts, NextTypeParts, StillTyped
<1>1. PresenceTyped'
  BY DEF PresenceTyped
<1>2. SentTyped'
  BY DEF SentTyped, Known, feedVars
<1> QED  BY <1>1, <1>2 DEF feedVars

LEMMA PresenceTypes ==
  ASSUME TypeOK, NEW c \in Conns
  PROVE  /\ sent \in [Conns -> Known]
         /\ presence \in [Conns -> Entries \cup {None}]
         /\ Without(c) \in [Conns -> Entries \cup {None}]
  BY TypeParts DEF SentTyped, PresenceTyped, Without

\* A client that forgets what it does not watch.
LEMMA ForgottenTyped ==
  ASSUME TypeOK, NEW c \in Conns, NEW W
  PROVE  /\ [sent EXCEPT ![c].shown =
               [p \in Conns |-> IF @[p] \in W THEN @[p] ELSE None]]
                 \in [Conns -> Known]
         /\ [sent EXCEPT ![c].shown = [p \in Conns |-> None],
                         ![c].available = FALSE] \in [Conns -> Known]
<1>1. sent \in [Conns -> Known]
  BY PresenceTypes
<1> DEFINE Entry == Entries \cup {None}
           Tell(shown, available) ==
             [sent[c] EXCEPT !.shown = shown, !.available = available]
           less == [p \in Conns |-> IF sent[c].shown[p] \in W
                                   THEN sent[c].shown[p] ELSE None]
           none == [p \in Conns |-> None]
<1>2. sent[c] \in Known /\ sent[c].shown \in [Conns -> Entry]
  BY <1>1 DEF Known
<1>3. less \in [Conns -> Entry] /\ none \in [Conns -> Entry]
  BY <1>2
<1>4. [sent EXCEPT ![c].shown =
         [p \in Conns |-> IF @[p] \in W THEN @[p] ELSE None]]
        = [sent EXCEPT ![c] = [@ EXCEPT !.shown = less]]
  BY <1>1
<1>5. [sent EXCEPT ![c].shown = none, ![c].available = FALSE]
        = [sent EXCEPT ![c] = Tell(none, FALSE)]
  BY <1>1 DEF Known
<1>6. [sent[c] EXCEPT !.shown = less] \in Known
  BY <1>2, <1>3 DEF Known
<1>7. Tell(none, FALSE) \in Known
  BY <1>2, <1>3 DEF Known
<1> HIDE DEF less, Tell
<1> QED  BY <1>1, <1>4, <1>5, <1>6, <1>7

\* Messages about presence.
LEMMA PresenceMessagesTyped ==
  ASSUME TypeOK, NEW c \in Conns
  PROVE  /\ \A W \in SUBSET Entries : WatchPresence(c, W) => TypeOK'
         /\ UnwatchPresence(c) => TypeOK'
         /\ ClearPresence(c) => TypeOK'
         /\ \A e \in Entries : UpdatePresence(c, e) => TypeOK'
<1>0. \A W : [sent EXCEPT ![c].shown =
                [p \in Conns |-> IF @[p] \in W THEN @[p] ELSE None]]
                  \in [Conns -> Known]
  BY ZenonT(90), ForgottenTyped
<1> USE TypeParts, NextTypeParts, PresenceTypes, KeptTyped
<1>1. ASSUME NEW W \in SUBSET Entries, WatchPresence(c, W)  PROVE TypeOK'
  <2>1. SocketTyped'
    BY ZenonT(90), <1>1 DEF WatchPresence, SocketTyped
  <2>2. presence' \in [Conns -> Entries \cup {None}]
    BY <1>1 DEF WatchPresence
  <2>3. sent' \in [Conns -> Known]
    <3> DEFINE sock == [socket EXCEPT ![c].wantsPresence = TRUE,
                                      ![c].watching = W]
               dropped == presence[c] # None /\ presence[c] \notin W
               store == IF dropped THEN Without(c) ELSE presence
               kept == [sent EXCEPT ![c].shown =
                          [p \in Conns |-> IF @[p] \in W THEN @[p] ELSE None]]
               told == IF dropped THEN Cleared(sock, kept, c, presence[c])
                                  ELSE kept
               announced == Announced(sock, told)
    <3>1. store \in [Conns -> Entries \cup {None}]
      OBVIOUS
    <3>2. kept \in [Conns -> Known]
      BY <1>0
    <3>3. \/ sent' = announced
          \/ sent' = Replayed(sock, announced, store, c, W \ socket[c].watching)
      BY <1>1 DEF WatchPresence
    <3> HIDE DEF sock, store, kept
    <3>4. told \in [Conns -> Known]
      BY <3>2, ClearedTyped
    <3> HIDE DEF told
    <3>5. announced \in [Conns -> Known]
      BY <3>4, AnnouncedTyped
    <3>6. \A S : Replayed(sock, announced, store, c, S) \in [Conns -> Known]
      BY <3>1, <3>5, ReplayedTyped
    <3> HIDE DEF announced
    <3> QED  BY <3>3, <3>5, <3>6
  <2> QED  BY <1>1, <2>1, <2>2, <2>3, PresenceFrame DEF WatchPresence
<1>2. ASSUME UnwatchPresence(c)  PROVE TypeOK'
  <2>1. SocketTyped'
    BY ZenonT(90), <1>2 DEF UnwatchPresence, SocketTyped
  <2>2. presence' \in [Conns -> Entries \cup {None}]
    BY <1>2 DEF UnwatchPresence
  <2>3. sent' \in [Conns -> Known]
    BY <1>2, ForgottenTyped, ClearedTyped, AnnouncedTyped DEF UnwatchPresence
  <2> QED  BY <1>2, <2>1, <2>2, <2>3, PresenceFrame DEF UnwatchPresence
<1>3. ASSUME ClearPresence(c)  PROVE TypeOK'
  <2>1. sent' \in [Conns -> Known]
    BY <1>3, ClearedTyped DEF ClearPresence
  <2>2. SocketTyped'
    BY <1>3, StillTyped DEF ClearPresence
  <2> QED  BY <1>3, <2>1, <2>2, PresenceFrame DEF ClearPresence
<1>4. ASSUME NEW e \in Entries, UpdatePresence(c, e)  PROVE TypeOK'
  <2>1. presence' \in [Conns -> Entries \cup {None}]
    BY <1>4 DEF UpdatePresence
  <2>2. sent' \in [Conns -> Known]
    BY <1>4, <2>1, ClearedTyped, UpdatedTyped, ReplayedTyped DEF UpdatePresence
  <2>3. SocketTyped'
    BY <1>4, StillTyped DEF UpdatePresence
  <2> QED  BY <1>4, <2>1, <2>2, <2>3, PresenceFrame DEF UpdatePresence
<1> QED  BY <1>1, <1>2, <1>3, <1>4

\* The end of a socket.
LEMMA EndTyped ==
  ASSUME TypeOK, NEW c \in Conns,
         TerminateSocket(c) \/ UnregisterSocket(c) \/ DisconnectOnNode(c)
  PROVE  TypeOK'
<1> USE TypeParts, NextTypeParts, PresenceTypes
<1> DEFINE sock == [socket EXCEPT ![c].state = "gone"]
<1>1. ASSUME socket' = sock, HandleDisconnect(c, sock),
             UNCHANGED <<runtime, feedVars, statusVars, forgot, handler, device>>
      PROVE  TypeOK'
  <2>1. SocketTyped'
    BY ZenonT(90), <1>1 DEF SocketTyped
  <2> HIDE DEF sock
  <2>2. /\ presence' \in [Conns -> Entries \cup {None}]
        /\ sent' \in [Conns -> Known]
    BY <1>1, KeptTyped, ClearedTyped, AnnouncedTyped DEF HandleDisconnect
  <2> QED  BY <1>1, <2>1, <2>2, PresenceFrame
<1>2. CASE TerminateSocket(c)
  BY <1>1, <1>2 DEF TerminateSocket
<1>3. CASE DisconnectOnNode(c)
  BY <1>1, <1>3 DEF DisconnectOnNode
<1>4. CASE UnregisterSocket(c)
  <2>1. SocketTyped'
    BY ZenonT(90), <1>4 DEF UnregisterSocket, SocketTyped
  <2> QED  BY <1>4, <2>1, StillTyped DEF UnregisterSocket, feedVars
<1> QED  BY <1>2, <1>3, <1>4

\* The steps of the handlers.
LEMMA HandleTyped ==
  ASSUME TypeOK, NEW h \in Handlers, Handle(h)
  PROVE  TypeOK'
<1> USE TypeParts, NextTypeParts, StillTyped
<1>0. /\ cursor \in Nat /\ 0 \in 0..cursor /\ cursor \in 0..cursor
      /\ silent \in 0..cursor
  BY DEF FeedTyped
<1>1. CASE AckHello(h)
  <2>1. HandlerTyped'
    BY <1>0, <1>1, EndedTyped DEF AckHello, feedVars
  <2>2. SentTyped'
    <3> DEFINE c == handler[h].conn
    <3>1. CASE Open(c)
      <4>1. sent' = [sent EXCEPT ![c].hello = TRUE,
                                 ![c].told = Larger(sent[c].told, cursor)]
        BY <1>1, <3>1 DEF AckHello, SentTyped, Known
      <4>2. c \in Conns => Larger(sent[c].told, cursor) \in 0..cursor
        BY <1>0, LargerTyped DEF SentTyped, Known
      <4>3. CASE c \in Conns
        <5> DEFINE new == [sent[c] EXCEPT !.hello = TRUE,
                                          !.told = Larger(sent[c].told, cursor)]
        <5>1. new \in Known
          BY ZenonT(90), <4>2, <4>3 DEF SentTyped, Known
        <5>2. sent' = [sent EXCEPT ![c] = new]
          BY <4>1, <4>3 DEF SentTyped, Known
        <5> HIDE DEF new
        <5>3. sent' \in [Conns -> Known]
          BY <5>1, <5>2 DEF SentTyped
        <5> QED  BY <5>3, <1>1 DEF SentTyped, Known, AckHello, feedVars
      <4>4. CASE c \notin Conns
        <5>1. sent' = sent
          BY <4>1, <4>4 DEF SentTyped
        <5> QED  BY <5>1, <1>1 DEF AckHello, feedVars
      <4> QED  BY ZenonT(90), <4>3, <4>4
    <3>2. CASE ~Open(c)
      BY <1>1, <3>2 DEF AckHello, feedVars
    <3> QED  BY <3>1, <3>2
  <2> QED  BY <1>1, <2>1, <2>2 DEF AckHello, feedVars
<1>2. CASE Reply(h)
  <2>1. HandlerTyped'
    BY <1>0, <1>2, EndedTyped DEF Reply, CursorSent, feedVars
  <2>2. SentTyped'
    <3>1. handler[h].cursor \in 0..cursor
      BY DEF HandlerTyped
    <3>2. sent' = [c \in Conns |-> IF c \in {x \in Conns : Open(x)}
                   THEN [sent[c] EXCEPT !.told = Larger(@, handler[h].cursor)]
                   ELSE sent[c]]
      BY <1>2 DEF Reply, CursorSent
    <3> QED  BY ZenonT(90), <1>0, <1>2, <3>1, <3>2, ToldTyped DEF Reply, CursorSent, feedVars
  <2> QED  BY <1>2, <2>1, <2>2 DEF Reply, CursorSent, feedVars
<1>3. CASE ReplyFails(h)
  <2>1. HandlerTyped'
    BY <1>0, <1>3, EndedTyped DEF ReplyFails
  <2>2. FeedTyped'
    BY <1>3, LargerTyped DEF ReplyFails, FeedTyped, HandlerTyped
  <2> QED  BY <1>3, <2>1, <2>2 DEF ReplyFails
<1>4. ASSUME NEW n \in Loads, ChangeUse(h, n) \/ ApplyVaultPolicy(h, n)
      PROVE  TypeOK'
  <2>1. HandlerTyped'
    BY <1>0, <1>4, BegunTyped DEF ChangeUse, ApplyVaultPolicy, feedVars
  <2>2. StatusTyped'
    BY <1>4 DEF ChangeUse, ApplyVaultPolicy, StatusTyped
  <2> QED
    BY <1>4, <2>1, <2>2 DEF ChangeUse, ApplyVaultPolicy, feedVars
<1>5. CASE NotifyStorageStatusChanged(h)
  <2>1. HandlerTyped'
    BY <1>0, <1>5, EndedTyped DEF NotifyStorageStatusChanged, feedVars
  <2>2. StatusTyped'
    BY <1>5 DEF NotifyStorageStatusChanged, StatusTyped
  <2> QED  BY <1>5, <2>1, <2>2 DEF NotifyStorageStatusChanged, feedVars
<1>6. CASE BroadcastPolicyUpdated(h)
  <2>1. HandlerTyped'
    BY <1>0, <1>6, EndedTyped DEF BroadcastPolicyUpdated, feedVars
  <2>2. SentTyped'
    <3>1. sent' = [c \in Conns |-> IF c \in {x \in Conns : Open(x)}
                   THEN [sent[c] EXCEPT !.status = storage] ELSE sent[c]]
      BY <1>6 DEF BroadcastPolicyUpdated
    <3> QED  BY <1>6, <3>1, StatusSentTyped DEF BroadcastPolicyUpdated, feedVars
  <2> QED  BY <1>6, <2>1, <2>2 DEF BroadcastPolicyUpdated, feedVars
<1>7. CASE NotifyFails(h)
  <2>1. HandlerTyped'
    BY <1>0, <1>7, EndedTyped DEF NotifyFails, feedVars
  <2>2. StatusTyped'
    BY <1>7 DEF NotifyFails, StatusTyped
  <2> QED  BY <1>7, <2>1, <2>2 DEF NotifyFails, feedVars
<1> QED  BY <1>1, <1>2, <1>3, <1>4, <1>5, <1>6, <1>7 DEF Handle

\* The broadcast, hibernation and crash.
LEMMA SystemTyped ==
  ASSUME TypeOK, FlushStorageStatus \/ Hibernate \/ Crash
  PROVE  TypeOK'
<1> USE TypeParts, NextTypeParts, StillTyped
<1>1. CASE FlushStorageStatus
  <2>1. StatusTyped'
    BY <1>1 DEF FlushStorageStatus, StatusTyped
  <2>2. SentTyped'
    <3>1. sent' = [c \in Conns |->
                   IF c \in {x \in Conns : Open(x) /\ socket[x].wantsStorage}
                   THEN [sent[c] EXCEPT !.status = storage] ELSE sent[c]]
      BY <1>1 DEF FlushStorageStatus
    <3> QED  BY <1>1, <3>1, StatusSentTyped DEF FlushStorageStatus, feedVars
  <2> QED  BY <1>1, <2>1, <2>2 DEF FlushStorageStatus, feedVars
<1>2. CASE Hibernate
  <2>1. PresenceTyped'
    BY <1>2 DEF Hibernate, PresenceTyped
  <2> QED  BY <1>2, <2>1 DEF Hibernate, feedVars
<1>3. CASE Crash
  <2>1. SocketTyped'
    BY <1>3 DEF Crash, SocketTyped
  <2>2. PresenceTyped'
    BY <1>3 DEF Crash, PresenceTyped
  <2>3. HandlerTyped'
    BY <1>3 DEF Crash, HandlerTyped, Idle, FeedTyped, feedVars
  <2>4. StatusTyped'
    BY <1>3 DEF Crash, StatusTyped
  <2> QED  BY <1>3, <2>1, <2>2, <2>3, <2>4 DEF Crash, feedVars
<1> QED  BY <1>1, <1>2, <1>3

\* Every step keeps the types.
LEMMA NextTyped ==
  ASSUME TypeOK, [Next]_vars
  PROVE  TypeOK'
<1>1. ASSUME NEW c \in Conns, Message(c)  PROVE TypeOK'
  <2>1. CASE Accept(c) \/ CloseSocket(c)
    <3>1. UNCHANGED <<runtime, feedVars, statusVars, presenceVars, handler,
                      sent, device>>
      BY <2>1 DEF Accept, Superseded, CloseSocket
    <3>2. UNCHANGED <<handler, cursor>> /\ UNCHANGED <<sent, cursor>>
            /\ UNCHANGED <<device, cursor>>
      BY <3>1 DEF feedVars
    <3> QED
      BY <2>1, <3>1, <3>2, AcceptTyped, StillTyped, TypeParts, NextTypeParts
  <2>2. ASSUME NEW h \in Handlers, Hello(h, c)  PROVE TypeOK'
    BY <2>2, CursorMessagesTyped
  <2>3. ASSUME NEW h \in Handlers, NEW n \in 1..MaxBatch,
               NEW place \in [Entries -> 0..n], CommitMutations(h, c, n, place)
        PROVE  TypeOK'
    BY <2>3, CursorMessagesTyped
  <2>4. CASE ListChanges(c)
    BY <2>4, ListTyped
  <2>5. CASE WatchStorageStatus(c) \/ UnwatchStorageStatus(c)
    BY <2>5, StatusMessagesTyped
  <2>6. ASSUME NEW W \in SUBSET Entries, WatchPresence(c, W)  PROVE TypeOK'
    BY <2>6, PresenceMessagesTyped
  <2>7. CASE UnwatchPresence(c) \/ ClearPresence(c)
    BY <2>7, PresenceMessagesTyped
  <2>8. ASSUME NEW e \in Entries, UpdatePresence(c, e)  PROVE TypeOK'
    BY <2>8, PresenceMessagesTyped
  <2>9. CASE TerminateSocket(c) \/ UnregisterSocket(c) \/ DisconnectOnNode(c)
    BY <2>9, EndTyped
  <2> QED
    BY <1>1, <2>1, <2>2, <2>3, <2>4, <2>5, <2>6, <2>7, <2>8, <2>9 DEF Message
<1>2. CASE UNCHANGED vars
  BY <1>2, StillTyped, TypeParts, NextTypeParts
  DEF vars, feedVars, statusVars, presenceVars
<1> QED  BY <1>1, <1>2, HandleTyped, SystemTyped DEF Next

\* The types hold in every behaviour: no client is told of a cursor that does
\* not exist, whatever the bounds are.
THEOREM Typed == Spec => []TypeOK
<1>1. TypeOK /\ [Next]_vars => TypeOK'
  BY NextTyped
<1> QED  BY InitTyped, <1>1, PTL DEF Spec

-----------------------------------------------------------------------------
(* Listings.  ListingComplete is not inductive: what a device has of a      *)
(* listing it has not finished has to be known as well.                     *)

\* d has what had changed in the part of its listing that it has received.
HasListed(d) ==
  \A e \in Entries :
    /\ device[d].target # None /\ seqOf[e] > device[d].since
    /\ seqOf[e] <= device[d].target /\ seqOf[e] <= device[d].after
    => device[d].got[e] = seqOf[e]

Listed(d) ==
  \A e \in Entries :
    seqOf[e] <= device[d].since => device[d].got[e] = seqOf[e]

Listings == \A d \in Devices : Listed(d) /\ HasListed(d)

LEMMA InitListings == Init => Listings
<1> SUFFICES ASSUME Init  PROVE Listings
  OBVIOUS
<1>1. /\ seqOf = [e \in Entries |-> 0]
      /\ \A d \in Devices : device[d] = [since |-> 0, target |-> None,
           after |-> 0, got |-> [e \in Entries |-> 0]]
  BY DEF Init
<1> QED  BY <1>1 DEF Listings, Listed, HasListed

\* A commit moves entries behind every listing.
LEMMA CommitListings ==
  ASSUME TypeOK, Listings, UNCHANGED device,
         \A e \in Entries : /\ seqOf'[e] \in Nat
                            /\ seqOf'[e] = seqOf[e] \/ seqOf'[e] > cursor
  PROVE  Listings'
<1>1. cursor \in Nat
  BY TypeParts DEF FeedTyped
<1>2. ASSUME NEW d \in Devices  PROVE Listed(d)' /\ HasListed(d)'
  <2>1. device[d].since \in 0..cursor /\ device[d].after \in 0..cursor
    BY TypeParts DEF DeviceTyped
  <2>2. \A e \in Entries :
          seqOf'[e] <= device[d].since \/ seqOf'[e] <= device[d].after
            => seqOf'[e] = seqOf[e]
    <3> SUFFICES ASSUME NEW e \in Entries,
                   seqOf'[e] <= device[d].since \/ seqOf'[e] <= device[d].after
                 PROVE  seqOf'[e] = seqOf[e]
      OBVIOUS
    <3>1. /\ seqOf'[e] \in Nat
          /\ seqOf'[e] = seqOf[e] \/ seqOf'[e] > cursor
      OBVIOUS
    <3> QED  BY <1>1, <2>1, <3>1
  <2>3. Listed(d)'
    BY <2>2 DEF Listings, Listed
  <2>4. HasListed(d)'
    BY <2>2 DEF Listings, HasListed
  <2> QED  BY <2>3, <2>4
<1> QED  BY <1>2 DEF Listings

\* A page continues what the device has of the listing.
LEMMA PageListings ==
  ASSUME TypeOK, Listings, UNCHANGED seqOf, NEW d \in Devices,
         NEW target \in 0..cursor, NEW after \in 0..cursor,
         after = 0 \/ (target = device[d].target /\ after = device[d].after),
         ListEntryStates(d, target, after)
  PROVE  Listings'
<1> DEFINE since == device[d].since
           rows == Changed(since, target, after)
           Copy(page) == [e \in Entries |-> IF e \in page THEN seqOf[e]
                                            ELSE device[d].got[e]]
<1>1. cursor \in Nat /\ since \in Nat /\ target \in Nat /\ after \in Nat
  BY TypeParts DEF FeedTyped, DeviceTyped
<1>2. \A e \in Entries : seqOf[e] \in Nat
  BY TypeParts DEF FeedTyped
<1>3. PICK page \in SUBSET rows :
        /\ IsPage(page, rows)
        /\ \/ /\ HasMore(rows)
              /\ \E last \in page :
                   /\ \A e \in page : seqOf[e] <= seqOf[last]
                   /\ device' = [device EXCEPT ![d] =
                        [since |-> since, target |-> target,
                         after |-> seqOf[last], got |-> Copy(page)]]
           \/ /\ ~HasMore(rows)
              /\ device' = [device EXCEPT ![d] =
                   [since |-> target, target |-> None, after |-> 0,
                    got |-> Copy(page)]]
  BY DEF ListEntryStates
<1>4. ASSUME NEW e \in Entries,
             \/ seqOf[e] <= since
             \/ seqOf[e] <= target /\ seqOf[e] <= after
      PROVE  Copy(page)[e] = seqOf[e]
  <2>1. CASE e \in page
    BY <2>1
  <2>2. CASE e \notin page /\ seqOf[e] <= since
    BY <2>2 DEF Listings, Listed
  <2>3. CASE e \notin page /\ seqOf[e] > since
    <3>1. seqOf[e] <= target /\ seqOf[e] <= after /\ seqOf[e] > 0
      BY <1>1, <1>2, <1>4, <2>3
    <3>2. target = device[d].target /\ after = device[d].after
      BY <1>1, <1>2, <3>1
    <3>3. device[d].target # None
      BY <1>1, <3>2, FeedAssumptions
    <3> QED  BY <2>3, <3>1, <3>2, <3>3 DEF Listings, HasListed
  <2> QED  BY <1>1, <1>2, <2>1, <2>2, <2>3
<1>5. \A x \in Devices : x # d => device'[x] = device[x]
  BY <1>3, TypeParts DEF DeviceTyped
<1> HIDE DEF Copy
<1>6. Listed(d)' /\ HasListed(d)'
  <2>1. ASSUME HasMore(rows), NEW last \in page,
               \A e \in page : seqOf[e] <= seqOf[last],
               device' = [device EXCEPT ![d] =
                 [since |-> since, target |-> target, after |-> seqOf[last],
                  got |-> Copy(page)]]
        PROVE  Listed(d)' /\ HasListed(d)'
    <3>1. device'[d] = [since |-> since, target |-> target,
                        after |-> seqOf[last], got |-> Copy(page)]
      BY <2>1, TypeParts DEF DeviceTyped
    <3>2. ASSUME NEW e \in Entries, seqOf[e] > since, seqOf[e] <= target,
                 seqOf[e] <= seqOf[last]
          PROVE  Copy(page)[e] = seqOf[e]
      <4>1. CASE seqOf[e] <= after
        BY <1>4, <3>2, <4>1
      <4>2. CASE seqOf[e] > after
        <5>1. e \in rows
          BY <3>2, <4>2 DEF Changed
        <5>2. e \in page
          <6>1. last \in page /\ last \in Entries
            BY DEF Changed
          <6> QED  BY <1>2, <1>3, <3>2, <5>1, <6>1 DEF IsPage
        <5> QED  BY <5>2 DEF Copy
      <4> QED  BY <1>1, <1>2, <4>1, <4>2
    <3>3. Listed(d)'
      <4>1. device'[d].since = since /\ device'[d].got = Copy(page)
        BY <3>1
      <4>2. \A e \in Entries : seqOf[e] <= since => Copy(page)[e] = seqOf[e]
        BY <1>4
      <4> QED  BY <4>1, <4>2 DEF Listed
    <3>4. HasListed(d)'
      BY <3>1, <3>2 DEF HasListed
    <3> QED  BY <3>3, <3>4
  <2>2. ASSUME ~HasMore(rows),
               device' = [device EXCEPT ![d] =
                 [since |-> target, target |-> None, after |-> 0,
                  got |-> Copy(page)]]
        PROVE  Listed(d)' /\ HasListed(d)'
    <3>1. device'[d] = [since |-> target, target |-> None, after |-> 0,
                        got |-> Copy(page)]
      BY <2>2, TypeParts DEF DeviceTyped
    <3>2. page = rows
      BY <1>3, <2>2 DEF IsPage, HasMore
    <3>3. ASSUME NEW e \in Entries, seqOf[e] <= target
          PROVE  Copy(page)[e] = seqOf[e]
      <4>1. CASE seqOf[e] <= since \/ seqOf[e] <= after
        BY <1>4, <3>3, <4>1
      <4>2. CASE seqOf[e] > since /\ seqOf[e] > after
        <5>1. e \in page
          BY <3>2, <3>3, <4>2 DEF Changed
        <5> QED  BY <5>1 DEF Copy
      <4> QED  BY <1>1, <1>2, <4>1, <4>2
    <3> QED  BY <3>1, <3>3 DEF Listed, HasListed
  <2> QED  BY <1>3, <2>1, <2>2
<1> QED  BY <1>5, <1>6 DEF Listings, Listed, HasListed

LEMMA NextListings ==
  ASSUME TypeOK, TypeOK', Listings, [Next]_vars
  PROVE  Listings'
<1>1. CASE UNCHANGED <<seqOf, device>>
  BY <1>1 DEF Listings, Listed, HasListed
<1>2. ASSUME NEW c \in Conns, NEW h \in Handlers, NEW n \in 1..MaxBatch,
             NEW place \in [Entries -> 0..n], CommitMutations(h, c, n, place)
      PROVE  Listings'
  <2>1. \A e \in Entries : seqOf'[e] \in Nat
    BY NextTypeParts DEF FeedTyped
  <2>2. \A e \in Entries : seqOf'[e] = seqOf[e] \/ seqOf'[e] > cursor
    <3> SUFFICES ASSUME NEW e \in Entries, place[e] # 0
                 PROVE  seqOf'[e] > cursor
      BY <1>2 DEF CommitMutations
    <3>1. seqOf'[e] = cursor + place[e] /\ place[e] \in Nat
      BY <1>2, FeedAssumptions DEF CommitMutations
    <3>2. cursor \in Nat
      BY TypeParts DEF FeedTyped
    <3> QED  BY <3>1, <3>2
  <2> QED  BY <1>2, <2>1, <2>2, CommitListings DEF CommitMutations
<1>3. ASSUME NEW c \in Conns, ListChanges(c)  PROVE Listings'
  <2> DEFINE d == DeviceOf[c]
  <2>1. /\ d \in Devices /\ cursor \in 0..cursor /\ 0 \in 0..cursor
        /\ device[d].target # None => device[d].target \in 0..cursor
        /\ device[d].after \in 0..cursor
    BY FeedAssumptions, TypeParts DEF FeedTyped, DeviceTyped
  <2>2. UNCHANGED seqOf
    BY <1>3 DEF ListChanges, CursorInRange, feedVars
  <2> QED  BY <1>3, <2>1, <2>2, PageListings DEF ListChanges, CursorInRange
<1>4. ASSUME NEW c \in Conns, Message(c)  PROVE Listings'
  <2>1. CASE UNCHANGED <<feedVars, device>>
    BY <1>1, <2>1 DEF feedVars
  <2>2. UNCHANGED <<feedVars, device>> \/ ListChanges(c)
          \/ \E h \in Handlers, n \in 1..MaxBatch :
               \E place \in [Entries -> 0..n] : CommitMutations(h, c, n, place)
    BY <1>4 DEF Message, Accept, Superseded, CloseSocket, Hello, CursorInRange,
       WatchStorageStatus,
         UnwatchStorageStatus, WatchPresence, UnwatchPresence, ClearPresence,
         UpdatePresence, TerminateSocket, UnregisterSocket, DisconnectOnNode
  <2> QED  BY <1>2, <1>3, <2>1, <2>2
<1>5. ASSUME NEW h \in Handlers, Handle(h)  PROVE Listings'
  BY <1>1, <1>5 DEF Handle, AckHello, Reply, CursorSent, ReplyFails, ChangeUse,
       ApplyVaultPolicy, NotifyStorageStatusChanged, BroadcastPolicyUpdated,
       NotifyFails, feedVars
<1>6. CASE FlushStorageStatus \/ Hibernate \/ Crash \/ UNCHANGED vars
  BY <1>1, <1>6 DEF FlushStorageStatus, Hibernate, Crash, vars, feedVars
<1> QED  BY <1>4, <1>5, <1>6 DEF Next

\* A device that has listed up to a cursor misses no entry that was last
\* changed before it, for every page size, however many commits go on between
\* the pages (listEntryStates, validateCursorRange).
THEOREM ListingsComplete == Spec => []ListingComplete
<1>1. Init => TypeOK /\ Listings
  BY InitTyped, InitListings
<1>2. TypeOK /\ Listings /\ [Next]_vars => (TypeOK /\ Listings)'
  BY NextTyped, NextListings
<1>3. Listings => ListingComplete
  BY DEF Listings, Listed, ListingComplete
<1> QED  BY <1>1, <1>2, <1>3, PTL DEF Spec

-----------------------------------------------------------------------------
(* News.  A connection that has no socket yet has been told nothing.        *)

Fresh == \A c \in Conns : socket[c].state = "new" =>
                            ~sent[c].hello /\ ~socket[c].wantsStorage

AllTold == Fresh /\ NothingUntold

\* The client of c knows as much of the cursor and the storage in t as in s.
SameNews(s, t, c) == /\ t[c].hello = s[c].hello /\ t[c].told = s[c].told
                     /\ t[c].status = s[c].status

LEMMA InitTold == Init => AllTold
<1> SUFFICES ASSUME Init  PROVE AllTold
  OBVIOUS
<1>1. \A c \in Conns : socket[c] = NoSocket /\ sent[c] = Nothing
  BY DEF Init
<1>2. NoSocket.state = "new" /\ ~NoSocket.wantsStorage /\ ~Nothing.hello
  BY DEF NoSocket, Nothing
<1> QED  BY <1>1, <1>2 DEF AllTold, Fresh, NothingUntold, Open

\* Steps that tell no news, and do not change what there is to tell.
LEMMA QuietTold ==
  ASSUME TypeOK, AllTold, UNCHANGED <<feedVars, statusVars>>,
         \A h \in Handlers : handler[h].pc \in {"commit", "use", "limit"} =>
                               handler'[h] = handler[h],
         \A c \in Conns :
           /\ SameNews(sent, sent', c)
           /\ socket'[c].state = "new" => socket[c].state = "new"
           /\ socket'[c].state = "open" => socket[c].state \in {"new", "open"}
           /\ socket'[c].wantsStorage => socket[c].wantsStorage
  PROVE  AllTold'
<1>1. Fresh'
  BY DEF AllTold, Fresh, SameNews
<1>2. ASSUME NEW c \in Conns, Open(c)'  PROVE CursorTold(c)' /\ StatusTold(c)'
  <2>1. CASE socket[c].state = "new"
    BY <2>1 DEF AllTold, Fresh, SameNews, CursorTold, StatusTold
  <2>2. CASE Open(c)
    <3>1. CursorTold(c) /\ StatusTold(c)
      BY <2>2 DEF AllTold, NothingUntold
    <3>2. CursorTold(c)'
      BY <3>1 DEF CursorTold, SameNews, feedVars
    <3>3. StatusTold(c)'
      BY <3>1 DEF StatusTold, SameNews, statusVars
    <3> QED  BY <3>2, <3>3
  <2> QED  BY <1>2, <2>1, <2>2 DEF Open
<1> QED  BY <1>1, <1>2 DEF AllTold, NothingUntold

\* What is said about presence is no news.
LEMMA PresenceQuiet ==
  ASSUME NEW s \in [Conns -> Known], NEW c \in Conns, NEW sock
  PROVE  /\ \A p, e : SameNews(s, Cleared(sock, s, p, e), c)
         /\ \A p, e : SameNews(s, Updated(sock, s, p, e), c)
         /\ SameNews(s, Announced(sock, s), c)
         /\ \A store, x, S : SameNews(s, Replayed(sock, s, store, x, S), c)
<1>1. \A p, e : SameNews(s, Cleared(sock, s, p, e), c)
  BY DEF Cleared, Known, SameNews
<1>2. \A p, e : SameNews(s, Updated(sock, s, p, e), c)
  BY DEF Updated, Known, SameNews
<1>3. SameNews(s, Announced(sock, s), c)
  BY DEF Announced, Known, SameNews
<1>4. \A store, x, S : SameNews(s, Replayed(sock, s, store, x, S), c)
  BY DEF Replayed, Known, SameNews
<1> QED  BY <1>1, <1>2, <1>3, <1>4

LEMMA PresenceMessagesTold ==
  ASSUME TypeOK, AllTold, NEW c \in Conns
  PROVE  /\ \A W \in SUBSET Entries : WatchPresence(c, W) => AllTold'
         /\ UnwatchPresence(c) => AllTold'
         /\ ClearPresence(c) => AllTold'
         /\ \A e \in Entries : UpdatePresence(c, e) => AllTold'
<1> DEFINE Same(s) == s \in [Conns -> Known]
                        /\ \A x \in Conns : SameNews(sent, s, x)
<1>0. sent \in [Conns -> Known] /\ SocketTyped /\ Same(sent)
  BY PresenceTypes, TypeParts DEF SameNews
<1>1. ASSUME NEW s, Same(s), NEW sock
      PROVE  /\ \A p, e : Same(Cleared(sock, s, p, e))
             /\ \A p : \A e \in Entries : Same(Updated(sock, s, p, e))
             /\ Same(Announced(sock, s))
             /\ \A store \in [Conns -> Entries \cup {None}] :
                  \A x \in Conns : \A S : Same(Replayed(sock, s, store, x, S))
  <2>1. ASSUME NEW t \in [Conns -> Known], \A x \in Conns : SameNews(s, t, x)
        PROVE  Same(t)
    BY <1>1, <2>1 DEF SameNews
  <2>2. s \in [Conns -> Known]
    BY <1>1
  <2> HIDE DEF Same
  <2>3. ASSUME NEW p, NEW e  PROVE Same(Cleared(sock, s, p, e))
    BY <2>1, <2>2, PresenceQuiet, ClearedTyped
  <2>4. ASSUME NEW p, NEW e \in Entries  PROVE Same(Updated(sock, s, p, e))
    BY <2>1, <2>2, PresenceQuiet, UpdatedTyped
  <2>5. Same(Announced(sock, s))
    BY <2>1, <2>2, PresenceQuiet, AnnouncedTyped
  <2>6. ASSUME NEW store \in [Conns -> Entries \cup {None}], NEW x \in Conns,
               NEW S
        PROVE  Same(Replayed(sock, s, store, x, S))
    BY <2>1, <2>2, PresenceQuiet, ReplayedTyped
  <2> QED  BY <2>3, <2>4, <2>5, <2>6
<1>2. ASSUME NEW W
      PROVE  Same([sent EXCEPT ![c].shown =
               [p \in Conns |-> IF @[p] \in W THEN @[p] ELSE None]])
  <2> DEFINE less == [sent EXCEPT ![c].shown =
               [p \in Conns |-> IF @[p] \in W THEN @[p] ELSE None]]
  <2>1. less \in [Conns -> Known]
    BY ZenonT(90), ForgottenTyped
  <2>2. \A x \in Conns : SameNews(sent, less, x)
    BY <1>0 DEF SameNews, Known
  <2> QED  BY <2>1, <2>2
<1>3. Same([sent EXCEPT ![c].shown = [p \in Conns |-> None],
                        ![c].available = FALSE])
  <2> DEFINE none == [sent EXCEPT ![c].shown = [p \in Conns |-> None],
                                  ![c].available = FALSE]
  <2>1. none \in [Conns -> Known]
    BY ForgottenTyped
  <2>2. \A x \in Conns : SameNews(sent, none, x)
    BY <1>0 DEF SameNews, Known
  <2> QED  BY <2>1, <2>2
<1>4. ASSUME UNCHANGED <<feedVars, statusVars, handler>>, Same(sent'),
             NEW b \in BOOLEAN, NEW W,
             \/ UNCHANGED socket
             \/ socket' = [socket EXCEPT ![c].wantsPresence = b,
                                         ![c].watching = W]
      PROVE  AllTold'
  <2>1. \A x \in Conns : /\ socket'[x].state = socket[x].state
                         /\ socket'[x].wantsStorage = socket[x].wantsStorage
    BY <1>0, <1>4 DEF SocketTyped
  <2> HIDE DEF Same
  <2>2. \A x \in Conns : SameNews(sent, sent', x)
    BY <1>4 DEF Same
  <2> QED  BY <1>4, <2>1, <2>2, QuietTold
<1> HIDE DEF Same
<1>5. ASSUME NEW W \in SUBSET Entries, WatchPresence(c, W)  PROVE AllTold'
  <2> DEFINE sock == [socket EXCEPT ![c].wantsPresence = TRUE,
                                    ![c].watching = W]
             dropped == presence[c] # None /\ presence[c] \notin W
             store == IF dropped THEN Without(c) ELSE presence
             kept == [sent EXCEPT ![c].shown =
                        [p \in Conns |-> IF @[p] \in W THEN @[p] ELSE None]]
             told == IF dropped THEN Cleared(sock, kept, c, presence[c])
                                ELSE kept
             announced == Announced(sock, told)
  <2>1. store \in [Conns -> Entries \cup {None}]
    BY PresenceTypes
  <2>2. Same(kept)
    BY <1>2
  <2>3. \/ sent' = announced
        \/ sent' = Replayed(sock, announced, store, c, W \ socket[c].watching)
    BY <1>5 DEF WatchPresence
  <2>4. socket' = sock /\ UNCHANGED <<feedVars, statusVars, handler>>
    BY <1>5 DEF WatchPresence
  <2> HIDE DEF sock, store, kept
  <2>5. Same(told)
    BY <1>1, <2>2
  <2> HIDE DEF told
  <2>6. Same(announced)
    BY <1>1, <2>5
  <2>7. \A S : Same(Replayed(sock, announced, store, c, S))
    BY <1>1, <2>1, <2>6
  <2> HIDE DEF announced
  <2>8. Same(sent')
    BY <2>3, <2>6, <2>7
  <2> QED  BY <1>4, <2>4, <2>8 DEF sock
<1>6. ASSUME UnwatchPresence(c)  PROVE AllTold'
  <2>1. Same(sent')
    BY <1>1, <1>3, <1>6 DEF UnwatchPresence
  <2> QED  BY <1>4, <1>6, <2>1 DEF UnwatchPresence
<1>7. ASSUME ClearPresence(c)  PROVE AllTold'
  <2>1. Same(sent')
    BY <1>0, <1>1, <1>7 DEF ClearPresence
  <2> QED  BY <1>4, <1>7, <2>1 DEF ClearPresence
<1>8. ASSUME NEW e \in Entries, UpdatePresence(c, e)  PROVE AllTold'
  <2> DEFINE old == presence[c]
             store == [presence EXCEPT ![c] = e]
             told == IF old = e THEN sent ELSE Cleared(socket, sent, c, old)
             updated == Updated(socket, told, c, e)
  <2>1. store \in [Conns -> Entries \cup {None}]
    BY PresenceTypes
  <2>2. sent' = updated \/ sent' = Replayed(socket, updated, store, c, {e})
    BY <1>8 DEF UpdatePresence
  <2>3. Same(told)
    BY <1>0, <1>1
  <2> HIDE DEF store, told
  <2>4. Same(updated)
    BY <1>1, <2>3
  <2> HIDE DEF updated
  <2>5. Same(sent')
    BY <1>1, <2>1, <2>2, <2>4
  <2> QED  BY <1>4, <1>8, <2>5 DEF UpdatePresence
<1> QED  BY <1>5, <1>6, <1>7, <1>8

\* Sockets come, close and go.
LEMMA SocketsTold ==
  ASSUME TypeOK, AllTold, NEW c \in Conns,
         \/ Accept(c) \/ CloseSocket(c)
         \/ TerminateSocket(c) \/ UnregisterSocket(c) \/ DisconnectOnNode(c)
  PROVE  AllTold'
<1>0. SocketTyped /\ sent \in [Conns -> Known]
  BY PresenceTypes, TypeParts
<1>1. CASE Accept(c) \/ CloseSocket(c) \/ UnregisterSocket(c)
  <2>1. \A x \in Conns :
          /\ socket'[x].state = "new" => socket[x].state = "new"
          /\ socket'[x].state = "open" => socket[x].state \in {"new", "open"}
          /\ socket'[x].wantsStorage => socket[x].wantsStorage
    BY <1>0, <1>1 DEF Accept, Superseded, CloseSocket, UnregisterSocket, SocketTyped, NoSocket
  <2>2. UNCHANGED <<feedVars, statusVars, handler, sent>>
    BY <1>1 DEF Accept, Superseded, CloseSocket, UnregisterSocket
  <2> QED  BY <2>1, <2>2, QuietTold DEF SameNews
<1>2. CASE TerminateSocket(c) \/ DisconnectOnNode(c)
  <2> DEFINE sock == [socket EXCEPT ![c].state = "gone"]
  <2>1. /\ socket' = sock /\ HandleDisconnect(c, sock)
        /\ UNCHANGED <<feedVars, statusVars, handler>>
    BY <1>2 DEF TerminateSocket, DisconnectOnNode
  <2>2. \A x \in Conns : /\ socket'[x].state \in {socket[x].state, "gone"}
                         /\ socket'[x].wantsStorage = socket[x].wantsStorage
    BY <1>0, <2>1 DEF SocketTyped
  <2> HIDE DEF sock
  <2>3. Cleared(sock, sent, c, presence[c]) \in [Conns -> Known]
    BY <1>0, ClearedTyped
  <2>4. \A x \in Conns :
          /\ SameNews(sent, Cleared(sock, sent, c, presence[c]), x)
          /\ SameNews(Cleared(sock, sent, c, presence[c]), sent', x)
    BY <1>0, <2>1, <2>3, PresenceQuiet DEF HandleDisconnect
  <2>5. \A x \in Conns : SameNews(sent, sent', x)
    BY <2>4 DEF SameNews
  <2> QED  BY <2>1, <2>2, <2>5, QuietTold
<1> QED  BY <1>1, <1>2

LEMMA StatusMessagesTold ==
  ASSUME TypeOK, AllTold, NEW c \in Conns,
         WatchStorageStatus(c) \/ UnwatchStorageStatus(c)
  PROVE  AllTold'
<1>0. SocketTyped /\ sent \in [Conns -> Known]
  BY PresenceTypes, TypeParts
<1>1. CASE UnwatchStorageStatus(c)
  <2>1. \A x \in Conns : /\ socket'[x].state = socket[x].state
                         /\ socket'[x].wantsStorage => socket[x].wantsStorage
    BY <1>0, <1>1 DEF UnwatchStorageStatus, SocketTyped
  <2> QED  BY <1>1, <2>1, QuietTold DEF UnwatchStorageStatus, SameNews
<1>2. CASE WatchStorageStatus(c)
  <2>1. \A x \in Conns :
          /\ socket'[x].state = socket[x].state
          /\ x # c => socket'[x] = socket[x] /\ sent'[x] = sent[x]
          /\ sent'[x].hello = sent[x].hello /\ sent'[x].told = sent[x].told
    BY <1>0, <1>2 DEF WatchStorageStatus, SocketTyped, Known
  <2>2. /\ UNCHANGED <<feedVars, statusVars, handler>>
        /\ sent'[c].status = storage' /\ socket[c].state = "open"
    BY <1>0, <1>2 DEF WatchStorageStatus, statusVars, Open, Known
  <2>3. Fresh'
    BY <2>1, <2>2 DEF AllTold, Fresh
  <2>4. ASSUME NEW x \in Conns, Open(x)'
        PROVE  CursorTold(x)' /\ StatusTold(x)'
    <3>1. CursorTold(x) /\ StatusTold(x)
      BY <2>1, <2>4 DEF Open, AllTold, NothingUntold
    <3>2. CursorTold(x)'
      BY <2>1, <2>2, <3>1 DEF CursorTold, feedVars
    <3>3. StatusTold(x)'
      BY <2>1, <2>2, <3>1 DEF StatusTold, statusVars
    <3> QED  BY <3>2, <3>3
  <2> QED  BY <2>3, <2>4 DEF AllTold, NothingUntold
<1> QED  BY <1>1, <1>2

\* A commit has its newest cursor still to tell.
LEMMA CursorMessagesTold ==
  ASSUME TypeOK, AllTold, NEW c \in Conns, NEW h \in Handlers
  PROVE  /\ Hello(h, c) => AllTold'
         /\ \A n \in 1..MaxBatch : \A place \in [Entries -> 0..n] :
              CommitMutations(h, c, n, place) => AllTold'
<1>0. HandlerTyped
  BY TypeParts
<1>1. ASSUME Hello(h, c)  PROVE AllTold'
  <2>1. \A k \in Handlers : handler[k].pc \in {"commit", "use", "limit"} =>
                              handler'[k] = handler[k]
    BY <1>0, <1>1 DEF Hello, CursorInRange, Begin, Idle, HandlerTyped
  <2> QED  BY <1>1, <2>1, QuietTold DEF Hello, CursorInRange, SameNews
<1>2. ASSUME NEW n \in 1..MaxBatch, NEW place \in [Entries -> 0..n],
             CommitMutations(h, c, n, place)
      PROVE  AllTold'
  <2>1. handler'[h].pc = "commit" /\ handler'[h].cursor = cursor'
    BY <1>0, <1>2 DEF CommitMutations, Begin, HandlerTyped
  <2>2. \A k \in Handlers : handler[k].pc \in {"use", "limit"} =>
                              handler'[k] = handler[k]
    BY <1>0, <1>2 DEF CommitMutations, Begin, Idle, HandlerTyped
  <2>3. Fresh'
    BY <1>2 DEF CommitMutations, AllTold, Fresh
  <2>4. \A x \in Conns : CursorTold(x)'
    BY <2>1 DEF CursorTold
  <2>5. \A x \in Conns : Open(x)' => StatusTold(x)'
    BY <1>2, <2>2 DEF CommitMutations, AllTold, NothingUntold, Open, StatusTold,
                      statusVars
  <2> QED  BY <2>3, <2>4, <2>5 DEF AllTold, NothingUntold
<1> QED  BY <1>1, <1>2

\* A handler tells its news to every open socket, or an error is noted.
LEMMA HandleTold ==
  ASSUME TypeOK, AllTold, NEW h \in Handlers, Handle(h)
  PROVE  AllTold'
<1>0. /\ HandlerTyped /\ sent \in [Conns -> Known] /\ cursor \in Nat
      /\ silent \in 0..cursor
  BY TypeParts DEF FeedTyped, SentTyped
<1>1. \A c \in Conns : Open(c) => CursorTold(c) /\ StatusTold(c)
  BY DEF AllTold, NothingUntold
<1>2. ASSUME NEW c \in Conns
      PROVE  sent[c].told \in 0..cursor
  BY <1>0 DEF Known
<1>3. ASSUME End(h)
      PROVE  \A k \in Handlers : k # h => handler'[k] = handler[k]
  BY <1>0, <1>3 DEF End, HandlerTyped
<1>4. ASSUME UNCHANGED socket, \A c \in Conns : Open(c) =>
               (CursorTold(c) /\ StatusTold(c) => CursorTold(c)' /\ StatusTold(c)'),
             \A c \in Conns : sent'[c].hello => sent[c].hello \/ Open(c)
      PROVE  AllTold'
  BY <1>1, <1>4 DEF AllTold, NothingUntold, Fresh, Open
<1>5. CASE AckHello(h)
  <2>1. ASSUME NEW c \in Conns
        PROVE  /\ sent'[c].status = sent[c].status
               /\ sent'[c].hello => sent[c].hello \/ Open(c)
               /\ \/ sent'[c] = sent[c]
                  \/ sent'[c].told = cursor
    <3>1. CASE Open(handler[h].conn) /\ c = handler[h].conn
      <4>1. /\ sent'[c].told = Larger(sent[c].told, cursor)
            /\ sent'[c].status = sent[c].status
        BY <1>0, <1>5, <3>1 DEF AckHello, Known
      <4>2. Larger(sent[c].told, cursor) = cursor
        BY <1>0, <1>2 DEF Larger
      <4> QED  BY <3>1, <4>1, <4>2
    <3>2. CASE ~(Open(handler[h].conn) /\ c = handler[h].conn)
      BY <1>0, <1>5, <3>2 DEF AckHello
    <3> QED  BY <3>1, <3>2
  <2>2. \A k \in Handlers : handler[k].pc \in {"commit", "use", "limit"} =>
                              handler'[k] = handler[k]
    BY <1>3, <1>5 DEF AckHello
  <2>3. UNCHANGED <<socket, feedVars, statusVars>>
    BY <1>5 DEF AckHello
  <2>4. ASSUME NEW c \in Conns, CursorTold(c), StatusTold(c)
        PROVE  CursorTold(c)' /\ StatusTold(c)'
    <3>1. CursorTold(c)'
      BY <2>1, <2>2, <2>3, <2>4 DEF CursorTold, feedVars
    <3>2. StatusTold(c)'
      BY <2>1, <2>2, <2>3, <2>4 DEF StatusTold, statusVars
    <3> QED  BY <3>1, <3>2
  <2> QED  BY <1>4, <2>1, <2>3, <2>4
<1>6. CASE Reply(h)
  <2>1. /\ handler[h].pc = "commit" /\ handler[h].cursor \in 0..cursor /\ End(h)
        /\ UNCHANGED <<socket, feedVars, statusVars>>
    BY <1>0, <1>6 DEF Reply, CursorSent, HandlerTyped
  <2>2. ASSUME NEW c \in Conns
        PROVE  /\ sent'[c].status = sent[c].status
               /\ sent'[c].hello = sent[c].hello
               /\ Open(c) =>
                    sent'[c].told = Larger(sent[c].told, handler[h].cursor)
    BY <1>0, <1>6 DEF Reply, CursorSent, Known
  <2>3. ASSUME NEW c \in Conns, Open(c), CursorTold(c), StatusTold(c)
        PROVE  CursorTold(c)' /\ StatusTold(c)'
    <3>1. CASE sent[c].told = cursor \/ handler[h].cursor = cursor
      <4>1. sent'[c].told = cursor'
        BY <1>0, <1>2, <2>1, <2>2, <2>3, <3>1 DEF Larger, feedVars
      <4> QED  BY <1>3, <2>1, <2>2, <2>3, <4>1
               DEF CursorTold, StatusTold, statusVars
    <3>2. CASE handler[h].cursor # cursor /\ sent[c].told # cursor
      <4>1. CursorTold(c)'
        BY <1>3, <2>1, <2>2, <2>3, <3>2 DEF CursorTold, feedVars
      <4>2. StatusTold(c)'
        BY <1>3, <2>1, <2>2, <2>3 DEF StatusTold, statusVars
      <4> QED  BY <4>1, <4>2
    <3> QED  BY <3>1, <3>2
  <2> QED  BY <1>4, <2>1, <2>2, <2>3
<1>7. CASE ReplyFails(h)
  <2>1. /\ handler[h].pc = "commit" /\ handler[h].cursor \in 0..cursor /\ End(h)
        /\ silent' = Larger(silent, handler[h].cursor)
        /\ UNCHANGED <<socket, cursor, statusVars, sent>>
    BY <1>0, <1>7 DEF ReplyFails, HandlerTyped
  <2>2. silent = cursor \/ handler[h].cursor = cursor => silent' = cursor'
    BY <1>0, <2>1 DEF Larger
  <2>3. ASSUME NEW c \in Conns, CursorTold(c), StatusTold(c)
        PROVE  CursorTold(c)' /\ StatusTold(c)'
    <3>1. CursorTold(c)'
      BY <1>3, <2>1, <2>2, <2>3 DEF CursorTold
    <3>2. StatusTold(c)'
      BY <1>3, <2>1, <2>3 DEF StatusTold, statusVars
    <3> QED  BY <3>1, <3>2
  <2> QED  BY <1>4, <2>1, <2>3
<1>8. ASSUME NEW n \in Loads, ChangeUse(h, n) \/ ApplyVaultPolicy(h, n)
      PROVE  AllTold'
  <2>1. /\ handler'[h].pc \in {"use", "limit"}
        /\ \A k \in Handlers : handler[k].pc = "commit" => handler'[k] = handler[k]
    BY <1>0, <1>8 DEF ChangeUse, ApplyVaultPolicy, Begin, Idle, HandlerTyped
  <2>2. UNCHANGED <<socket, feedVars, sent>>
    BY <1>8 DEF ChangeUse, ApplyVaultPolicy
  <2>3. ASSUME NEW c \in Conns, CursorTold(c)
        PROVE  CursorTold(c)' /\ StatusTold(c)'
    BY <2>1, <2>2, <2>3 DEF CursorTold, StatusTold, feedVars
  <2> QED  BY <1>4, <2>2, <2>3
<1>9. CASE NotifyStorageStatusChanged(h) \/ NotifyFails(h)
  <2>1. /\ handler[h].pc # "commit" /\ End(h) /\ (timer' \/ unsaid')
        /\ UNCHANGED <<socket, feedVars, sent>>
    BY <1>9 DEF NotifyStorageStatusChanged, NotifyFails
  <2>2. ASSUME NEW c \in Conns, CursorTold(c)
        PROVE  CursorTold(c)' /\ StatusTold(c)'
    BY <1>3, <2>1, <2>2 DEF CursorTold, StatusTold, feedVars
  <2> QED  BY <1>4, <2>1, <2>2
<1>10. CASE BroadcastPolicyUpdated(h)
  <2>1. /\ handler[h].pc = "limit" /\ End(h)
        /\ UNCHANGED <<socket, feedVars, statusVars>>
    BY <1>10 DEF BroadcastPolicyUpdated
  <2>2. ASSUME NEW c \in Conns
        PROVE  /\ sent'[c].told = sent[c].told
               /\ sent'[c].hello = sent[c].hello
               /\ Open(c) => sent'[c].status = storage
    BY <1>0, <1>10 DEF BroadcastPolicyUpdated, Known
  <2>3. ASSUME NEW c \in Conns, Open(c), CursorTold(c)
        PROVE  CursorTold(c)' /\ StatusTold(c)'
    <3>1. CursorTold(c)'
      BY <1>3, <2>1, <2>2, <2>3 DEF CursorTold, feedVars
    <3>2. StatusTold(c)'
      BY <2>1, <2>2, <2>3 DEF StatusTold, statusVars
    <3> QED  BY <3>1, <3>2
  <2> QED  BY <1>4, <2>1, <2>2, <2>3
<1> QED  BY <1>5, <1>6, <1>7, <1>8, <1>9, <1>10 DEF Handle

LEMMA SystemTold ==
  ASSUME TypeOK, AllTold, FlushStorageStatus \/ Hibernate \/ Crash
  PROVE  AllTold'
<1>0. SocketTyped /\ sent \in [Conns -> Known]
  BY TypeParts DEF SentTyped
<1>1. CASE FlushStorageStatus
  <2>1. UNCHANGED <<feedVars, storage, unsaid, handler, socket>>
    BY <1>1 DEF FlushStorageStatus
  <2>2. ASSUME NEW c \in Conns
        PROVE  /\ sent'[c].told = sent[c].told
               /\ sent'[c].hello = sent[c].hello
               /\ Open(c) /\ socket[c].wantsStorage => sent'[c].status = storage
    BY <1>0, <1>1 DEF FlushStorageStatus, Known
  <2>3. Fresh'
    BY <2>1, <2>2 DEF AllTold, Fresh
  <2>4. ASSUME NEW c \in Conns, Open(c)'
        PROVE  CursorTold(c)' /\ StatusTold(c)'
    <3>1. CursorTold(c)
      BY <2>1, <2>4 DEF AllTold, NothingUntold, Open
    <3>2. CursorTold(c)'
      BY <2>1, <2>2, <3>1 DEF CursorTold, feedVars
    <3>3. StatusTold(c)'
      BY <2>1, <2>2, <2>4 DEF StatusTold, Open
    <3> QED  BY <3>2, <3>3
  <2> QED  BY <2>3, <2>4 DEF AllTold, NothingUntold
<1>2. CASE Hibernate
  BY <1>2, QuietTold DEF Hibernate, SameNews
<1>3. CASE Crash
  <2>1. \A c \in Conns : /\ ~Open(c)'
                         /\ socket'[c].state = "new" => socket'[c] = socket[c]
    BY <1>0, <1>3 DEF Crash, Open, SocketTyped
  <2>2. UNCHANGED sent
    BY <1>3 DEF Crash
  <2> QED  BY <2>1, <2>2 DEF AllTold, Fresh, NothingUntold
<1> QED  BY <1>1, <1>2, <1>3

LEMMA NextTold ==
  ASSUME TypeOK, AllTold, [Next]_vars
  PROVE  AllTold'
<1>1. ASSUME NEW c \in Conns, Message(c)  PROVE AllTold'
  <2>1. CASE \/ Accept(c) \/ CloseSocket(c)
             \/ TerminateSocket(c) \/ UnregisterSocket(c) \/ DisconnectOnNode(c)
    BY <2>1, SocketsTold
  <2>2. ASSUME NEW h \in Handlers, Hello(h, c)  PROVE AllTold'
    BY <2>2, CursorMessagesTold
  <2>3. ASSUME NEW h \in Handlers, NEW n \in 1..MaxBatch,
               NEW place \in [Entries -> 0..n], CommitMutations(h, c, n, place)
        PROVE  AllTold'
    BY <2>3, CursorMessagesTold
  <2>4. CASE ListChanges(c)
    BY <2>4, QuietTold DEF ListChanges, CursorInRange, SameNews
  <2>5. CASE WatchStorageStatus(c) \/ UnwatchStorageStatus(c)
    BY <2>5, StatusMessagesTold
  <2>6. ASSUME NEW W \in SUBSET Entries, WatchPresence(c, W)  PROVE AllTold'
    BY <2>6, PresenceMessagesTold
  <2>7. CASE UnwatchPresence(c) \/ ClearPresence(c)
    BY <2>7, PresenceMessagesTold
  <2>8. ASSUME NEW e \in Entries, UpdatePresence(c, e)  PROVE AllTold'
    BY <2>8, PresenceMessagesTold
  <2> QED
    BY <1>1, <2>1, <2>2, <2>3, <2>4, <2>5, <2>6, <2>7, <2>8 DEF Message
<1>2. CASE UNCHANGED vars
  BY <1>2, QuietTold DEF vars, SameNews
<1> QED  BY <1>1, <1>2, HandleTold, SystemTold DEF Next

\* Whatever the order in which sockets come, watch and leave while others
\* commit and upload, on both runtimes: an open socket has been told the newest
\* cursor and status, or a handler that runs or the timer will tell it, or an
\* error kept the code from telling (broadcastCursorExcept,
\* flushStorageStatusBroadcast, broadcastPolicyUpdated).
THEOREM NewsTold == Spec => []NothingUntold
<1>1. Init => TypeOK /\ AllTold
  BY InitTyped, InitTold
<1>2. TypeOK /\ AllTold /\ [Next]_vars => (TypeOK /\ AllTold)'
  BY NextTyped, NextTold
<1>3. AllTold => NothingUntold
  BY DEF AllTold
<1> QED  BY <1>1, <1>2, <1>3, PTL DEF Spec

-----------------------------------------------------------------------------
(* Presence.  A connection that does not watch shows nobody, and watches   *)
(* no entry, so the whole of what it asks for first is replayed to it; one *)
(* that watches shows only entries it watches, so whoever leaves an entry  *)
(* is cleared for all that could show him; and only a connection that is   *)
(* not yet cleaned up has an entry open.                                   *)

Watches(c) == Open(c) /\ socket[c].wantsPresence

Leaves(c) == /\ socket[c].wantsPresence
             /\ socket[c].state \in {"closing", "leaving"}

ShowsNobody(c) == \A p \in Conns : sent[c].shown[p] = None

NewShowNobody == \A c \in Conns : socket[c].state = "new" => ShowsNobody(c)

UnwatchedShowNobody ==
  \A c \in Conns : Open(c) /\ ~socket[c].wantsPresence =>
    socket[c].watching = {} /\ ShowsNobody(c)

ShownAreWatched ==
  \A c \in Conns : Watches(c) =>
    \A p \in Conns : sent[c].shown[p] # None =>
                       sent[c].shown[p] \in socket[c].watching

PresentAreConnected ==
  \A p \in Conns : presence[p] # None =>
    socket[p].state \in {"open", "closing", "leaving"}

ShownAreTrue ==
  \A c, p \in Conns : (Watches(c) /\ p # c /\ p \notin forgot) =>
    /\ sent[c].shown[p] \in {None, presence[p]}
    /\ (Open(p) /\ presence[p] \in socket[c].watching) =>
         sent[c].shown[p] = presence[p]

AvailabilityTrue ==
  \A c \in Conns : Watches(c) =>
    \/ sent[c].available = \E p \in Conns \ {c} : Watches(p)
    \/ \E p \in Conns : Leaves(p)

PresenceInv ==
  /\ NewShowNobody /\ UnwatchedShowNobody /\ ShownAreWatched
  /\ PresentAreConnected /\ ShownAreTrue /\ AvailabilityTrue

\* What a client shows after each kind of message.
LEMMA ClearedShows ==
  ASSUME NEW s \in [Conns -> Known], NEW sock, NEW p \in Conns, NEW e,
         NEW x \in Conns, NEW q \in Conns
  PROVE  /\ Cleared(sock, s, p, e)[x].available = s[x].available
         /\ (x # p /\ Hears(sock, x, e) /\ q = p) =>
              Cleared(sock, s, p, e)[x].shown[q] = None
         /\ ~(x # p /\ Hears(sock, x, e) /\ q = p) =>
              Cleared(sock, s, p, e)[x].shown[q] = s[x].shown[q]
  BY DEF Cleared, Known

LEMMA UpdatedShows ==
  ASSUME NEW s \in [Conns -> Known], NEW sock, NEW p \in Conns, NEW e,
         NEW x \in Conns, NEW q \in Conns
  PROVE  /\ Updated(sock, s, p, e)[x].available = s[x].available
         /\ (x # p /\ Hears(sock, x, e) /\ Open(p) /\ q = p) =>
              Updated(sock, s, p, e)[x].shown[q] = e
         /\ ~(x # p /\ Hears(sock, x, e) /\ Open(p) /\ q = p) =>
              Updated(sock, s, p, e)[x].shown[q] = s[x].shown[q]
  BY DEF Updated, Known

LEMMA ReplayedShows ==
  ASSUME NEW s \in [Conns -> Known], NEW sock, NEW store, NEW c \in Conns,
         NEW S, NEW x \in Conns, NEW q \in Conns
  PROVE  /\ Replayed(sock, s, store, c, S)[x].available = s[x].available
         /\ (x = c /\ q # c /\ Open(q) /\ store[q] \in S
               /\ Hears(sock, c, store[q])) =>
              Replayed(sock, s, store, c, S)[x].shown[q] = store[q]
         /\ ~(x = c /\ q # c /\ Open(q) /\ store[q] \in S
               /\ Hears(sock, c, store[q])) =>
              Replayed(sock, s, store, c, S)[x].shown[q] = s[x].shown[q]
  BY DEF Replayed, Known

LEMMA AnnouncedShows ==
  ASSUME NEW s \in [Conns -> Known], NEW sock, NEW x \in Conns, NEW q \in Conns
  PROVE  /\ (sock[x].state = "open" /\ sock[x].wantsPresence) =>
              /\ Announced(sock, s)[x].available = Enabled(sock)
              /\ Enabled(sock) => Announced(sock, s)[x].shown[q] = s[x].shown[q]
              /\ ~Enabled(sock) => Announced(sock, s)[x].shown[q] = None
         /\ ~(sock[x].state = "open" /\ sock[x].wantsPresence) =>
              Announced(sock, s)[x] = s[x]
<1>1. CASE ~(sock[x].state = "open" /\ sock[x].wantsPresence)
  BY <1>1 DEF Announced
<1>2. CASE sock[x].state = "open" /\ sock[x].wantsPresence /\ Enabled(sock)
  <2>1. Announced(sock, s)[x] = [s[x] EXCEPT !.available = TRUE]
    BY <1>2 DEF Announced
  <2> QED  BY <1>2, <2>1 DEF Known
<1>3. CASE sock[x].state = "open" /\ sock[x].wantsPresence /\ ~Enabled(sock)
  <2>1. Announced(sock, s)[x] =
          [s[x] EXCEPT !.available = FALSE, !.shown = [p \in Conns |-> None]]
    BY <1>3 DEF Announced
  <2>2. s[x] \in Known
    OBVIOUS
  <2>3. /\ Announced(sock, s)[x].available = FALSE
        /\ Announced(sock, s)[x].shown = [p \in Conns |-> None]
    BY <2>1, <2>2 DEF Known
  <2>4. Enabled(sock) = FALSE
    BY <1>3 DEF Enabled
  <2>5. Announced(sock, s)[x].shown[q] = None
    BY <2>3
  <2> QED  BY <1>3, <2>3, <2>4, <2>5
<1> QED  BY <1>1, <1>2, <1>3

\* With no socket on its way out, others are there exactly if more than one
\* socket counts.
LEMMA EnabledMeans ==
  ASSUME NEW sock, NEW c \in Conns,
         sock[c].state = "open", sock[c].wantsPresence,
         \A p \in Conns : sock[p].wantsPresence =>
                            sock[p].state \notin {"closing", "leaving"}
  PROVE  Enabled(sock) <=> \E p \in Conns \ {c} :
                             sock[p].state = "open" /\ sock[p].wantsPresence
<1> DEFINE W == Watchers(sock)
<1>1. \A p : p \in W <=> /\ p \in Conns /\ sock[p].state = "open"
                          /\ sock[p].wantsPresence
  BY DEF Watchers
<1>2. IsFiniteSet(W) /\ c \in W
  <2>1. W \subseteq Conns
    BY <1>1
  <2> QED  BY <1>1, <2>1, FeedAssumptions, FS_Subset
<1> HIDE DEF W
<1>3. ASSUME NEW p \in Conns \ {c}, p \in W
      PROVE  Cardinality(W) > 1
  <2>0. IsFiniteSet({c}) /\ Cardinality({c}) = 1 /\ p \notin {c}
    BY <1>3, FS_Singleton
  <2>1. IsFiniteSet({c} \cup {p}) /\ Cardinality({c} \cup {p}) = 1 + 1
    BY ZenonT(90), <2>0, FS_AddElement
  <2>2. {c} \cup {p} \subseteq W
    BY <1>2, <1>3
  <2>3. Cardinality({c} \cup {p}) <= Cardinality(W) /\ Cardinality(W) \in Nat
    BY <1>2, <2>2, FS_Subset, FS_CardinalityType
  <2>4. Cardinality({c} \cup {p}) = 2
    BY <2>1
  <2> HIDE DEF W
  <2> QED  BY <2>3, <2>4
<1>4. ASSUME \A p \in Conns \ {c} : p \notin W
      PROVE  ~(Cardinality(W) > 1)
  <2>1. W = {c}
    BY <1>1, <1>2, <1>4
  <2>2. Cardinality(W) = 1
    BY <2>1, FS_Singleton
  <2> QED  BY <2>2
<1> QED  BY <1>1, <1>3, <1>4 DEF Enabled, W

-----------------------------------------------------------------------------
LEMMA InitShown == Init => PresenceInv
<1> SUFFICES ASSUME Init  PROVE PresenceInv
  OBVIOUS
<1>1. \A c \in Conns : /\ socket[c].state = "new" /\ presence[c] = None
                       /\ \A p \in Conns : sent[c].shown[p] = None
  BY DEF Init, NoSocket, Nothing
<1> QED
  BY <1>1 DEF PresenceInv, NewShowNobody, UnwatchedShowNobody, ShownAreWatched,
    PresentAreConnected, ShownAreTrue, AvailabilityTrue, Watches, Open,
    ShowsNobody

\* Sockets come and close while nobody is told of presence: a new one does not
\* watch yet, and one that closes while it watches excuses the others.
LEMMA QuietShown ==
  ASSUME PresenceInv, UNCHANGED presenceVars,
         \A x \in Conns :
           /\ sent'[x].shown = sent[x].shown
           /\ sent'[x].available = sent[x].available
           /\ \/ /\ socket'[x].state = socket[x].state
                 /\ socket'[x].wantsPresence = socket[x].wantsPresence
                 /\ socket'[x].watching = socket[x].watching
              \/ /\ socket[x].state = "new" /\ socket'[x].state = "open"
                 /\ ~socket'[x].wantsPresence /\ socket'[x].watching = {}
              \/ /\ socket[x].state \in {"open", "closing"}
                 /\ socket'[x].state \in {"closing", "leaving"}
                 /\ socket'[x].wantsPresence = socket[x].wantsPresence
  PROVE  PresenceInv'
<1>1. presence' = presence /\ forgot' = forgot
  BY DEF presenceVars
<1>2. ASSUME NEW c \in Conns, Watches(c)'
      PROVE  /\ Watches(c) /\ socket'[c].watching = socket[c].watching
  BY <1>2 DEF Watches, Open
<1>3. ASSUME NEW c \in Conns, Open(c)'
      PROVE  /\ socket[c].state = "new" \/ Open(c)
             /\ \/ Open(c) /\ socket'[c].watching = socket[c].watching
                   /\ socket'[c].wantsPresence = socket[c].wantsPresence
                \/ socket'[c].watching = {} /\ socket[c].state = "new"
  BY <1>3 DEF Open
<1>4. NewShowNobody'
  BY DEF PresenceInv, NewShowNobody, ShowsNobody
<1>5. UnwatchedShowNobody'
  <2> SUFFICES ASSUME NEW c \in Conns, Open(c)', ~socket'[c].wantsPresence
               PROVE  socket'[c].watching = {} /\ ShowsNobody(c)'
    BY DEF UnwatchedShowNobody
  <2>1. socket'[c].watching = {} /\ ShowsNobody(c)
    BY <1>3 DEF PresenceInv, UnwatchedShowNobody, NewShowNobody
  <2> QED  BY <2>1 DEF ShowsNobody
<1>6. ShownAreWatched'
  BY <1>2 DEF PresenceInv, ShownAreWatched
<1>7. PresentAreConnected'
  BY <1>1 DEF PresenceInv, PresentAreConnected
<1>8. ShownAreTrue'
  <2> SUFFICES ASSUME NEW c \in Conns, NEW p \in Conns, Watches(c)', p # c,
                      p \notin forgot
               PROVE  /\ sent'[c].shown[p] \in {None, presence[p]}
                      /\ (Open(p)' /\ presence[p] \in socket'[c].watching) =>
                           sent'[c].shown[p] = presence[p]
    BY <1>1 DEF ShownAreTrue
  <2>1. /\ sent[c].shown[p] \in {None, presence[p]}
        /\ (Open(p) /\ presence[p] \in socket[c].watching) =>
             sent[c].shown[p] = presence[p]
    BY <1>2 DEF PresenceInv, ShownAreTrue
  <2>2. Open(p)' /\ ~Open(p) => presence[p] = None
    BY <1>3 DEF PresenceInv, PresentAreConnected
  <2> QED  BY <1>2, <2>1, <2>2
<1>9. AvailabilityTrue'
  <2> SUFFICES ASSUME NEW c \in Conns, Watches(c)',
                      \A p \in Conns : ~Leaves(p)'
               PROVE  sent'[c].available =
                        \E p \in Conns \ {c} : Watches(p)'
    BY DEF AvailabilityTrue
  <2>1. ASSUME NEW p \in Conns
        PROVE  ~Leaves(p) /\ (Watches(p)' <=> Watches(p))
    <3>1. ~Leaves(p)'
      OBVIOUS
    <3> QED  BY <3>1 DEF Leaves, Watches, Open
  <2>2. sent[c].available = \E p \in Conns \ {c} : Watches(p)
    BY <1>2, <2>1 DEF PresenceInv, AvailabilityTrue
  <2>3. sent'[c].available = sent[c].available
    OBVIOUS
  <2> QED  BY <2>1, <2>2, <2>3
<1> QED
  BY <1>4, <1>5, <1>6, <1>7, <1>8, <1>9 DEF PresenceInv

\* Whoever watches is told whether others do.
LEMMA AnnouncedTrue ==
  ASSUME NEW sock, socket' = sock, NEW s \in [Conns -> Known],
         \A x \in Conns : sent'[x].available = Announced(sock, s)[x].available
  PROVE  AvailabilityTrue'
<1> SUFFICES ASSUME NEW c \in Conns, Watches(c)',
                    \A p \in Conns : ~Leaves(p)'
             PROVE  sent'[c].available = \E p \in Conns \ {c} : Watches(p)'
  BY DEF AvailabilityTrue
<1>1. /\ sock[c].state = "open" /\ sock[c].wantsPresence
      /\ \A p \in Conns : sock[p].wantsPresence =>
                            sock[p].state \notin {"closing", "leaving"}
      /\ \A p \in Conns : Watches(p)' <=>
                            sock[p].state = "open" /\ sock[p].wantsPresence
  BY DEF Watches, Leaves, Open
<1>2. Enabled(sock) <=> \E p \in Conns \ {c} : Watches(p)'
  BY <1>1, EnabledMeans
<1>3. sent'[c].available = Enabled(sock)
  BY <1>1, AnnouncedShows
<1>4. Enabled(sock) \in BOOLEAN
  BY DEF Enabled
<1> QED  BY <1>2, <1>3, <1>4

\* A connection that no longer watches, or is gone, is cleared at all that
\* could show it; with fewer than two left, nobody shows anybody.
LEMMA LeftShown ==
  ASSUME TypeOK, PresenceInv, NEW c \in Conns, NEW sock, NEW told,
         told \in [Conns -> Known],
         \A x \in Conns : x # c => sock[x] = socket[x] /\ told[x] = sent[x],
         sock[c].state # "new",
         sock[c].state = "open" =>
           /\ ~sock[c].wantsPresence /\ sock[c].watching = {}
           /\ \A p \in Conns : told[c].shown[p] = None,
         socket' = sock, forgot' = forgot,
         presence' = Kept(sock, Without(c)),
         sent' = Announced(sock, Cleared(sock, told, c, presence[c]))
  PROVE  PresenceInv'
<1> DEFINE s == Cleared(sock, told, c, presence[c])
<1>0. presence \in [Conns -> Entries \cup {None}] /\ sent \in [Conns -> Known]
  BY PresenceTypes
<1>1. s \in [Conns -> Known]
  BY ClearedTyped
<1>2. sent' = Announced(sock, s)
  OBVIOUS
<1>3. ASSUME NEW x \in Conns, NEW q \in Conns
      PROVE  /\ (x # c /\ Hears(sock, x, presence[c]) /\ q = c) =>
                  s[x].shown[q] = None
             /\ ~(x # c /\ Hears(sock, x, presence[c]) /\ q = c) =>
                  s[x].shown[q] = told[x].shown[q]
  BY ClearedShows
<1> HIDE DEF s
<1>4. ASSUME NEW p \in Conns
      PROVE  /\ presence'[p] \in {None, presence[p]} /\ presence'[c] = None
             /\ Enabled(sock) /\ p # c => presence'[p] = presence[p]
             /\ ~Enabled(sock) => presence'[p] = None
  BY <1>0 DEF Kept, Without
<1>5. ASSUME NEW x \in Conns, x # c
      PROVE  sock[x] = socket[x] /\ told[x] = sent[x]
  BY <1>5
<1>6. ASSUME NEW x \in Conns, Watches(x)'
      PROVE  /\ x # c /\ Watches(x)
             /\ sock[x].state = "open" /\ sock[x].wantsPresence
  <2>1. sock[x].state = "open" /\ sock[x].wantsPresence
    BY <1>6 DEF Watches, Open
  <2> QED  BY <1>5, <2>1 DEF Watches, Open
<1>7. ASSUME NEW x \in Conns, Watches(x)', NEW q \in Conns
      PROVE  /\ ~Enabled(sock) => sent'[x].shown[q] = None
             /\ Enabled(sock) => sent'[x].shown[q] = s[x].shown[q]
  BY <1>1, <1>2, <1>6, <1>7, AnnouncedShows
<1>8. ASSUME NEW x \in Conns, ~Watches(x)'
      PROVE  sent'[x] = s[x]
  <2>1. ~(sock[x].state = "open" /\ sock[x].wantsPresence)
    BY <1>8 DEF Watches, Open
  <2> QED  BY <1>1, <1>2, <2>1, AnnouncedShows
<1>9. NewShowNobody'
  <2> SUFFICES ASSUME NEW x \in Conns, socket'[x].state = "new", NEW p \in Conns
               PROVE  sent'[x].shown[p] = None
    BY DEF NewShowNobody, ShowsNobody
  <2>1. x # c /\ sent[x].shown[p] = None /\ told[x] = sent[x]
    BY <1>5 DEF PresenceInv, NewShowNobody, ShowsNobody
  <2>2. ~Watches(x)' /\ ~Hears(sock, x, presence[c])
    BY DEF Watches, Open, Hears
  <2> QED  BY <1>3, <1>8, <2>1, <2>2
<1>10. UnwatchedShowNobody'
  <2> SUFFICES ASSUME NEW x \in Conns, Open(x)', ~socket'[x].wantsPresence
               PROVE  socket'[x].watching = {} /\ ShowsNobody(x)'
    BY DEF UnwatchedShowNobody
  <2>1. /\ socket'[x].watching = {}
        /\ \A p \in Conns : told[x].shown[p] = None
    BY <1>5 DEF Open, PresenceInv, UnwatchedShowNobody, ShowsNobody
  <2>2. ~Watches(x)' /\ ~Hears(sock, x, presence[c])
    BY DEF Watches, Hears
  <2>3. \A p \in Conns : s[x].shown[p] = None
    BY <1>3, <2>1, <2>2
  <2> QED  BY <1>8, <2>1, <2>2, <2>3 DEF ShowsNobody
<1>11. ShownAreWatched'
  <2> SUFFICES ASSUME NEW x \in Conns, Watches(x)', NEW p \in Conns,
                      sent'[x].shown[p] # None
               PROVE  sent'[x].shown[p] \in socket'[x].watching
    BY DEF ShownAreWatched
  <2>1. sent'[x].shown[p] = sent[x].shown[p]
    BY <1>3, <1>5, <1>6, <1>7
  <2> QED  BY <1>5, <1>6, <2>1 DEF PresenceInv, ShownAreWatched
<1>12. PresentAreConnected'
  <2> SUFFICES ASSUME NEW p \in Conns, presence'[p] # None
               PROVE  socket'[p].state \in {"open", "closing", "leaving"}
    BY DEF PresentAreConnected
  <2> QED  BY <1>4, <1>5 DEF PresenceInv, PresentAreConnected
<1>13. ShownAreTrue'
  <2> SUFFICES ASSUME NEW x \in Conns, NEW p \in Conns, Watches(x)', p # x,
                      p \notin forgot
               PROVE  /\ sent'[x].shown[p] \in {None, presence'[p]}
                      /\ (Open(p)' /\ presence'[p] \in socket'[x].watching) =>
                           sent'[x].shown[p] = presence'[p]
    BY DEF ShownAreTrue
  <2>1. CASE ~Enabled(sock)
    BY <1>4, <1>7, <2>1
  <2>2. /\ sent[x].shown[p] \in {None, presence[p]}
        /\ (Open(p) /\ presence[p] \in socket[x].watching) =>
             sent[x].shown[p] = presence[p]
    BY <1>6 DEF PresenceInv, ShownAreTrue
  <2>3. CASE Enabled(sock) /\ p = c
    <3>1. sent[x].shown[c] # None => sent[x].shown[c] \in socket[x].watching
      BY <1>6 DEF PresenceInv, ShownAreWatched
    <3>2. sock[x] = socket[x] /\ told[x] = sent[x]
      BY <1>5, <1>6
    <3>3. sent[x].shown[c] # None => Hears(sock, x, presence[c])
      BY <1>6, <2>2, <2>3, <3>1, <3>2 DEF Hears
    <3>4. s[x].shown[c] = None
      BY <1>3, <1>6, <3>2, <3>3
    <3> QED  BY <1>4, <1>7, <2>3, <3>4
  <2>4. CASE Enabled(sock) /\ p # c
    <3>1. sent'[x].shown[p] = sent[x].shown[p]
      BY <1>3, <1>5, <1>6, <1>7, <2>4
    <3>2. presence'[p] = presence[p] /\ (Open(p)' <=> Open(p))
      BY <1>4, <1>5, <2>4 DEF Open
    <3> QED  BY <1>5, <1>6, <2>2, <3>1, <3>2
  <2> QED  BY <2>1, <2>3, <2>4
<1>14. AvailabilityTrue'
  BY <1>1, <1>2, AnnouncedTrue
<1> QED
  BY <1>9, <1>10, <1>11, <1>12, <1>13, <1>14 DEF PresenceInv

\* handleDisconnect, and presence that is no longer watched.
LEMMA LeavingShown ==
  ASSUME TypeOK, PresenceInv, NEW c \in Conns,
         UnwatchPresence(c) \/ TerminateSocket(c) \/ DisconnectOnNode(c)
  PROVE  PresenceInv'
<1>0. SocketTyped /\ sent \in [Conns -> Known]
  BY PresenceTypes, TypeParts
<1>1. CASE UnwatchPresence(c)
  <2> DEFINE sock == [socket EXCEPT ![c].wantsPresence = FALSE,
                                    ![c].watching = {}]
             told == [sent EXCEPT ![c].shown = [p \in Conns |-> None],
                                  ![c].available = FALSE]
  <2>1. /\ socket' = sock /\ presence' = Kept(sock, Without(c))
        /\ sent' = Announced(sock, Cleared(sock, told, c, presence[c]))
        /\ forgot' = forgot /\ Open(c)
    BY <1>1 DEF UnwatchPresence
  <2>2. told \in [Conns -> Known]
    BY ForgottenTyped
  <2>3. \A x \in Conns : x # c => sock[x] = socket[x] /\ told[x] = sent[x]
    BY <1>0 DEF SocketTyped
  <2>4. /\ sock[c].state = "open" /\ ~sock[c].wantsPresence
        /\ sock[c].watching = {}
    BY <1>0, <2>1 DEF SocketTyped, Open
  <2>5. \A p \in Conns : told[c].shown[p] = None
    <3>1. sent[c] \in Known
      BY <1>0
    <3>2. told[c] = [sent[c] EXCEPT !.shown = [p \in Conns |-> None],
                                    !.available = FALSE]
      BY <1>0, <3>1 DEF Known
    <3> HIDE DEF told
    <3>3. told[c].shown = [p \in Conns |-> None]
      BY <3>1, <3>2 DEF Known
    <3> QED  BY <3>3
  <2> HIDE DEF sock, told
  <2> QED  BY <2>1, <2>2, <2>3, <2>4, <2>5, LeftShown
<1>2. CASE TerminateSocket(c) \/ DisconnectOnNode(c)
  <2> DEFINE sock == [socket EXCEPT ![c].state = "gone"]
  <2>1. /\ socket' = sock /\ presence' = Kept(sock, Without(c))
        /\ sent' = Announced(sock, Cleared(sock, sent, c, presence[c]))
        /\ forgot' = forgot
    BY <1>2 DEF TerminateSocket, DisconnectOnNode, HandleDisconnect
  <2>2. \A x \in Conns : x # c => sock[x] = socket[x]
    BY <1>0 DEF SocketTyped
  <2>3. sock[c].state = "gone"
    BY <1>0 DEF SocketTyped
  <2> HIDE DEF sock
  <2> QED  BY <1>0, <2>1, <2>2, <2>3, LeftShown
<1> QED  BY <1>1, <1>2

\* Nobody who watches still shows a connection whose entry was cleared.
LEMMA ClearedForAll ==
  ASSUME TypeOK, PresenceInv, NEW c \in Conns \ forgot, NEW x \in Conns, x # c,
         Watches(x), NEW sock, sock[x] = socket[x],
         NEW told \in [Conns -> Known], told[x] = sent[x]
  PROVE  Cleared(sock, told, c, presence[c])[x].shown[c] = None
<1>1. /\ sent[x].shown[c] \in {None, presence[c]}
      /\ sent[x].shown[c] # None => sent[x].shown[c] \in socket[x].watching
  BY DEF PresenceInv, ShownAreTrue, ShownAreWatched
<1>2. sent[x].shown[c] # None => Hears(sock, x, presence[c])
  BY <1>1 DEF Hears, Watches, Open
<1> QED  BY <1>2, ClearedShows

LEMMA ClearShown ==
  ASSUME TypeOK, PresenceInv, NEW c \in Conns, ClearPresence(c)
  PROVE  PresenceInv'
<1>0. presence \in [Conns -> Entries \cup {None}] /\ sent \in [Conns -> Known]
  BY PresenceTypes
<1>1. /\ socket' = socket /\ forgot' = forgot /\ presence' = Without(c)
      /\ sent' = Cleared(socket, sent, c, presence[c])
  BY DEF ClearPresence
<1>2. /\ presence'[c] = None
      /\ \A p \in Conns : p # c => presence'[p] = presence[p]
  BY <1>0, <1>1 DEF Without
<1>3. ASSUME NEW x \in Conns, NEW q \in Conns
      PROVE  /\ sent'[x].available = sent[x].available
             /\ ~(x # c /\ Hears(socket, x, presence[c]) /\ q = c) =>
                  sent'[x].shown[q] = sent[x].shown[q]
             /\ sent'[x].shown[q] \in {None, sent[x].shown[q]}
  <2> DEFINE s == Cleared(socket, sent, c, presence[c])
  <2>0. /\ s[x].available = sent[x].available
        /\ (x # c /\ Hears(socket, x, presence[c]) /\ q = c) =>
             s[x].shown[q] = None
        /\ ~(x # c /\ Hears(socket, x, presence[c]) /\ q = c) =>
             s[x].shown[q] = sent[x].shown[q]
    BY <1>0, ClearedShows
  <2> HIDE DEF s
  <2>1. sent' = s
    BY <1>1 DEF s
  <2> QED  BY <2>0, <2>1
<1>4. NewShowNobody' /\ UnwatchedShowNobody' /\ ShownAreWatched'
  <2>1. NewShowNobody'
    BY <1>1, <1>3 DEF PresenceInv, NewShowNobody, ShowsNobody
  <2>2. UnwatchedShowNobody'
    BY <1>1, <1>3 DEF PresenceInv, UnwatchedShowNobody, ShowsNobody, Open
  <2>3. ShownAreWatched'
    BY <1>1, <1>3 DEF PresenceInv, ShownAreWatched, Watches, Open
  <2> QED  BY <2>1, <2>2, <2>3
<1>5. PresentAreConnected'
  BY <1>1, <1>2 DEF PresenceInv, PresentAreConnected
<1>6. ShownAreTrue'
  <2> SUFFICES ASSUME NEW x \in Conns, NEW p \in Conns, Watches(x), p # x,
                      p \notin forgot
               PROVE  /\ sent'[x].shown[p] \in {None, presence'[p]}
                      /\ (Open(p) /\ presence'[p] \in socket[x].watching) =>
                           sent'[x].shown[p] = presence'[p]
    BY <1>1 DEF ShownAreTrue, Watches, Open
  <2>1. CASE p = c
    BY <1>0, <1>1, <1>2, <2>1, ClearedForAll
  <2>2. CASE p # c
    BY <1>2, <1>3, <2>2 DEF PresenceInv, ShownAreTrue
  <2> QED  BY <2>1, <2>2
<1>7. AvailabilityTrue'
  BY <1>1, <1>3 DEF PresenceInv, AvailabilityTrue, Watches, Open, Leaves
<1> QED  BY <1>4, <1>5, <1>6, <1>7 DEF PresenceInv

LEMMA UpdateShown ==
  ASSUME TypeOK, PresenceInv, NEW c \in Conns, NEW e \in Entries,
         UpdatePresence(c, e)
  PROVE  PresenceInv'
<1> DEFINE old == presence[c]
           store == [presence EXCEPT ![c] = e]
           told == IF old = e THEN sent ELSE Cleared(socket, sent, c, old)
           updated == Updated(socket, told, c, e)
<1>0. /\ presence \in [Conns -> Entries \cup {None}] /\ sent \in [Conns -> Known]
      /\ SocketTyped /\ None \notin Entries
  BY PresenceTypes, TypeParts, FeedAssumptions
<1>1. /\ socket' = socket /\ forgot' = forgot /\ presence' = store
      /\ sent' = IF old = e THEN updated
                 ELSE Replayed(socket, updated, store, c, {e})
      /\ Watches(c) /\ Open(c)
  BY DEF UpdatePresence, Watches
<1>2. /\ store[c] = e
      /\ \A p \in Conns : p # c => store[p] = presence[p]
  BY <1>0
<1>3. ASSUME NEW x \in Conns, NEW q \in Conns
      PROVE  /\ told[x].available = sent[x].available
             /\ told[x].shown[q] \in {None, sent[x].shown[q]}
             /\ x = c \/ q # c \/ ~Hears(socket, x, old) =>
                  told[x].shown[q] = sent[x].shown[q]
  BY <1>0, ClearedShows
<1>4. ASSUME NEW x \in Conns, x # c, Watches(x), c \notin forgot, old # e
      PROVE  told[x].shown[c] = None
  BY <1>0, <1>4, ClearedForAll
<1>5. told \in [Conns -> Known]
  BY <1>0, ClearedTyped
<1> HIDE DEF told
<1>6. ASSUME NEW x \in Conns, NEW q \in Conns
      PROVE  /\ updated[x].available = told[x].available
             /\ (x # c /\ Hears(socket, x, e) /\ q = c) =>
                  updated[x].shown[q] = e
             /\ ~(x # c /\ Hears(socket, x, e) /\ q = c) =>
                  updated[x].shown[q] = told[x].shown[q]
  BY <1>1, <1>5, UpdatedShows
<1>7. updated \in [Conns -> Known]
  BY <1>5, UpdatedTyped
<1> HIDE DEF updated
<1>8. ASSUME NEW x \in Conns, NEW q \in Conns
      PROVE  /\ sent'[x].available = updated[x].available
             /\ \/ sent'[x].shown[q] = updated[x].shown[q]
                \/ /\ x = c /\ q # c /\ sent'[x].shown[q] = presence[q]
                   /\ presence[q] = e /\ Hears(socket, c, e)
  <2>1. CASE old = e
    BY <1>1, <2>1
  <2>2. CASE old # e
    <3>1. sent' = Replayed(socket, updated, store, c, {e})
      BY <1>1, <2>2
    <3>2. /\ sent'[x].available = updated[x].available
          /\ (x = c /\ q # c /\ Open(q) /\ store[q] \in {e}
                /\ Hears(socket, c, store[q])) => sent'[x].shown[q] = store[q]
          /\ ~(x = c /\ q # c /\ Open(q) /\ store[q] \in {e}
                /\ Hears(socket, c, store[q])) =>
                  sent'[x].shown[q] = updated[x].shown[q]
      <4> DEFINE r == Replayed(socket, updated, store, c, {e})
      <4> HIDE DEF store
      <4>1. /\ r[x].available = updated[x].available
            /\ (x = c /\ q # c /\ Open(q) /\ store[q] \in {e}
                  /\ Hears(socket, c, store[q])) => r[x].shown[q] = store[q]
            /\ ~(x = c /\ q # c /\ Open(q) /\ store[q] \in {e}
                  /\ Hears(socket, c, store[q])) =>
                    r[x].shown[q] = updated[x].shown[q]
        BY <1>7, ReplayedShows
      <4>2. sent' = r
        BY <3>1
      <4> HIDE DEF r
      <4> QED  BY <4>1, <4>2
    <3> HIDE DEF store
    <3>3. q # c => store[q] = presence[q]
      BY <1>2
    <3> QED  BY <3>2, <3>3
  <2> QED  BY <2>1, <2>2
<1> HIDE DEF store
<1>9. ASSUME NEW x \in Conns, NEW q \in Conns
      PROVE  /\ sent'[x].available = sent[x].available
             /\ \/ sent'[x].shown[q] \in {None, sent[x].shown[q]}
                \/ sent'[x].shown[q] = e /\ Hears(socket, x, e)
  BY <1>3, <1>6, <1>8
<1>10. NewShowNobody'
  <2> SUFFICES ASSUME NEW x \in Conns, socket[x].state = "new", NEW p \in Conns
               PROVE  sent'[x].shown[p] = None
    BY <1>1 DEF NewShowNobody, ShowsNobody
  <2>1. sent[x].shown[p] = None
    BY DEF PresenceInv, NewShowNobody, ShowsNobody
  <2> QED  BY <1>9, <2>1 DEF Hears
<1>11. UnwatchedShowNobody'
  <2> SUFFICES ASSUME NEW x \in Conns, Open(x), ~socket[x].wantsPresence,
                      NEW p \in Conns
               PROVE  socket[x].watching = {} /\ sent'[x].shown[p] = None
    BY <1>1 DEF UnwatchedShowNobody, ShowsNobody, Open
  <2>1. socket[x].watching = {} /\ sent[x].shown[p] = None
    BY DEF PresenceInv, UnwatchedShowNobody, ShowsNobody
  <2> QED  BY <1>9, <2>1 DEF Hears
<1>12. ShownAreWatched'
  BY ZenonT(90), <1>1, <1>9 DEF PresenceInv, ShownAreWatched, Hears, Watches, Open
<1>13. PresentAreConnected'
  BY <1>1, <1>2 DEF PresenceInv, PresentAreConnected, Open
<1>14. ShownAreTrue'
  <2> SUFFICES ASSUME NEW x \in Conns, NEW p \in Conns, Watches(x), p # x,
                      p \notin forgot
               PROVE  /\ sent'[x].shown[p] \in {None, store[p]}
                      /\ (Open(p) /\ store[p] \in socket[x].watching) =>
                           sent'[x].shown[p] = store[p]
    BY <1>1 DEF ShownAreTrue, Watches, Open
  <2>1. /\ sent[x].shown[p] \in {None, presence[p]}
        /\ (Open(p) /\ presence[p] \in socket[x].watching) =>
             sent[x].shown[p] = presence[p]
    BY DEF PresenceInv, ShownAreTrue
  <2>2. CASE p = c
    <3>1. sent'[x].shown[c] = updated[x].shown[c]
      BY <1>8, <2>2
    <3>2. Hears(socket, x, e) <=> e \in socket[x].watching
      BY DEF Hears, Watches, Open
    <3>3. CASE Hears(socket, x, e)
      BY <1>2, <1>6, <2>2, <3>1, <3>3
    <3>4. CASE ~Hears(socket, x, e)
      <4>1. sent'[x].shown[c] = told[x].shown[c]
        BY <1>6, <2>2, <3>1, <3>4
      <4>2. told[x].shown[c] \in {None, e}
        <5>1. CASE old = e
          BY <1>3, <2>1, <2>2, <5>1
        <5>2. CASE old # e
          BY <1>4, <2>2, <5>2
        <5> QED  BY <5>1, <5>2
      <4> QED  BY <1>2, <2>2, <3>2, <3>4, <4>1, <4>2
    <3> QED  BY <3>3, <3>4
  <2>3. CASE p # c
    <3>1. updated[x].shown[p] = sent[x].shown[p]
      BY <1>3, <1>6, <2>3
    <3>2. sent'[x].shown[p] \in {sent[x].shown[p], presence[p]}
      BY <1>8, <3>1
    <3> QED  BY <1>2, <2>1, <2>3, <3>2
  <2> QED  BY <2>2, <2>3
<1>15. AvailabilityTrue'
  BY <1>1, <1>9 DEF PresenceInv, AvailabilityTrue, Watches, Open, Leaves
<1> QED
  BY <1>10, <1>11, <1>12, <1>13, <1>14, <1>15 DEF PresenceInv

\* Whoever begins to watch an entry is sent what is open there, and keeps of
\* what it shows what it still watches.
LEMMA WatchShown ==
  ASSUME TypeOK, PresenceInv, NEW c \in Conns, NEW W \in SUBSET Entries,
         WatchPresence(c, W)
  PROVE  PresenceInv'
<1> DEFINE sock == [socket EXCEPT ![c].wantsPresence = TRUE, ![c].watching = W]
           dropped == presence[c] # None /\ presence[c] \notin W
           store == IF dropped THEN Without(c) ELSE presence
           kept == [sent EXCEPT ![c].shown =
                      [p \in Conns |-> IF @[p] \in W THEN @[p] ELSE None]]
           told == IF dropped THEN Cleared(sock, kept, c, presence[c]) ELSE kept
           announced == Announced(sock, told)
           more == W \ socket[c].watching
           replayed == Replayed(sock, announced, store, c, more)
<1>0. /\ presence \in [Conns -> Entries \cup {None}] /\ sent \in [Conns -> Known]
      /\ SocketTyped /\ None \notin Entries
  BY PresenceTypes, TypeParts, FeedAssumptions
<1>1. /\ socket' = sock /\ forgot' = forgot /\ presence' = Kept(sock, store)
      /\ sent' = IF Enabled(sock) THEN replayed ELSE announced
      /\ Open(c)
  BY DEF WatchPresence
<1>2. /\ sock[c].state = "open" /\ sock[c].wantsPresence /\ sock[c].watching = W
      /\ \A x \in Conns : x # c => sock[x] = socket[x]
  BY <1>0, <1>1 DEF SocketTyped, Open
<1> HIDE DEF sock
<1>3. /\ kept \in [Conns -> Known]
      /\ \A x \in Conns : x # c => kept[x] = sent[x]
      /\ \A p \in Conns : kept[c].shown[p] =
           IF sent[c].shown[p] \in W THEN sent[c].shown[p] ELSE None
  <2>1. kept \in [Conns -> Known]
    BY ZenonT(90), ForgottenTyped
  <2>2. sent[c] \in Known
    BY <1>0
  <2>3. kept[c] = [sent[c] EXCEPT !.shown = [p \in Conns |->
          IF sent[c].shown[p] \in W THEN sent[c].shown[p] ELSE None]]
    BY <1>0
  <2>4. \A x \in Conns : x # c => kept[x] = sent[x]
    BY <1>0
  <2> HIDE DEF kept
  <2>5. kept[c].shown = [p \in Conns |->
          IF sent[c].shown[p] \in W THEN sent[c].shown[p] ELSE None]
    BY <2>2, <2>3 DEF Known
  <2> QED  BY <2>1, <2>4, <2>5
<1> HIDE DEF kept
<1>4. /\ told \in [Conns -> Known]
      /\ \A p \in Conns : told[c].shown[p] = kept[c].shown[p]
      /\ \A x, p \in Conns : x # c =>
           /\ told[x].shown[p] \in {None, sent[x].shown[p]}
           /\ p # c \/ ~dropped => told[x].shown[p] = sent[x].shown[p]
      /\ \A x \in Conns : (x # c /\ Watches(x) /\ dropped /\ c \notin forgot) =>
           told[x].shown[c] = None
  <2>1. told \in [Conns -> Known]
    BY <1>3, ClearedTyped
  <2>2. CASE ~dropped
    BY <1>3, <2>1, <2>2
  <2>3. CASE dropped
    <3> DEFINE s == Cleared(sock, kept, c, presence[c])
    <3>1. told = s
      BY <2>3
    <3>2. ASSUME NEW x \in Conns, NEW q \in Conns
          PROVE  /\ (x # c /\ Hears(sock, x, presence[c]) /\ q = c) =>
                      s[x].shown[q] = None
                 /\ ~(x # c /\ Hears(sock, x, presence[c]) /\ q = c) =>
                      s[x].shown[q] = kept[x].shown[q]
      BY <1>3, ClearedShows
    <3>3. ASSUME NEW x \in Conns, x # c, Watches(x), c \notin forgot
          PROVE  s[x].shown[c] = None
      BY <1>2, <1>3, <3>3, ClearedForAll
    <3> HIDE DEF s, told, dropped
    <3> QED  BY <1>3, <2>1, <2>3, <3>1, <3>2, <3>3
  <2> QED  BY <2>2, <2>3
<1>5. ASSUME NEW p \in Conns
      PROVE  /\ ~Enabled(sock) => presence'[p] = None
             /\ Enabled(sock) => presence'[p] = store[p]
             /\ store[p] \in {None, presence[p]}
             /\ p # c \/ ~dropped => store[p] = presence[p]
             /\ dropped => store[c] = None
  BY <1>0, <1>1 DEF Kept, Without
<1> HIDE DEF told, dropped, store
<1>6. announced \in [Conns -> Known]
  BY <1>4, AnnouncedTyped
<1>7. ASSUME NEW x \in Conns, NEW q \in Conns
      PROVE  /\ ~(sock[x].state = "open" /\ sock[x].wantsPresence) =>
                  announced[x].shown[q] = told[x].shown[q]
             /\ (sock[x].state = "open" /\ sock[x].wantsPresence) =>
                  announced[x].shown[q] =
                    IF Enabled(sock) THEN told[x].shown[q] ELSE None
  BY <1>4, AnnouncedShows
<1> HIDE DEF announced
<1>8. ASSUME NEW x \in Conns, NEW q \in Conns
      PROVE  /\ replayed[x].available = announced[x].available
             /\ (x = c /\ q # c /\ Open(q) /\ store[q] \in more
                   /\ Hears(sock, c, store[q])) =>
                  replayed[x].shown[q] = store[q]
             /\ ~(x = c /\ q # c /\ Open(q) /\ store[q] \in more
                   /\ Hears(sock, c, store[q])) =>
                  replayed[x].shown[q] = announced[x].shown[q]
  <2> HIDE DEF more
  <2> QED  BY <1>6, ReplayedShows
<1> HIDE DEF replayed
<1>9. \A e : Hears(sock, c, e) <=> e \in W
  BY <1>2 DEF Hears
<1>10. ASSUME NEW x \in Conns, x # c, NEW q \in Conns
       PROVE  /\ Watches(x)' <=> Watches(x)
              /\ ~Watches(x) => sent'[x].shown[q] = told[x].shown[q]
              /\ Watches(x) /\ Enabled(sock) =>
                   sent'[x].shown[q] = told[x].shown[q]
              /\ Watches(x) /\ ~Enabled(sock) => sent'[x].shown[q] = None
  <2>1. sent'[x].shown[q] = announced[x].shown[q]
    BY <1>1, <1>8, <1>10
  <2>2. Watches(x) <=> sock[x].state = "open" /\ sock[x].wantsPresence
    BY <1>2, <1>10 DEF Watches, Open
  <2>3. Watches(x)' <=> sock[x].state = "open" /\ sock[x].wantsPresence
    BY <1>1 DEF Watches, Open
  <2> QED  BY <1>7, <2>1, <2>2, <2>3
<1>11. ASSUME NEW q \in Conns
       PROVE  /\ ~Enabled(sock) => sent'[c].shown[q] = None
              /\ (Enabled(sock) /\ q # c /\ Open(q) /\ store[q] \in more) =>
                   sent'[c].shown[q] = store[q]
              /\ (Enabled(sock) /\ ~(q # c /\ Open(q) /\ store[q] \in more)) =>
                   sent'[c].shown[q] = kept[c].shown[q]
  <2>1. announced[c].shown[q] =
          IF Enabled(sock) THEN kept[c].shown[q] ELSE None
    BY <1>2, <1>4, <1>7
  <2> QED  BY <1>1, <1>8, <1>9, <2>1
<1>12. /\ Watches(c)' /\ socket'[c].watching = W
       /\ \A x \in Conns : socket'[x].state = socket[x].state
       /\ \A x \in Conns : x # c => socket'[x] = socket[x]
  BY <1>1, <1>2 DEF Watches, Open
<1>13. NewShowNobody'
  <2> SUFFICES ASSUME NEW x \in Conns, socket[x].state = "new", NEW p \in Conns
               PROVE  sent'[x].shown[p] = None
    BY <1>12 DEF NewShowNobody, ShowsNobody
  <2>1. sent[x].shown[p] = None
    BY DEF PresenceInv, NewShowNobody, ShowsNobody
  <2>2. x # c /\ ~Watches(x)
    BY <1>1 DEF Watches, Open
  <2> QED  BY <1>4, <1>10, <2>1, <2>2
<1>14. UnwatchedShowNobody'
  <2> SUFFICES ASSUME NEW x \in Conns, Open(x)', ~socket'[x].wantsPresence,
                      NEW p \in Conns
               PROVE  socket'[x].watching = {} /\ sent'[x].shown[p] = None
    BY DEF UnwatchedShowNobody, ShowsNobody
  <2>1. x # c /\ Open(x) /\ ~Watches(x)
    BY <1>12 DEF Watches, Open
  <2>2. socket[x].watching = {} /\ sent[x].shown[p] = None
    BY <2>1 DEF PresenceInv, UnwatchedShowNobody, ShowsNobody, Watches
  <2> QED  BY <1>4, <1>10, <1>12, <2>1, <2>2
<1>15. ShownAreWatched'
  <2> SUFFICES ASSUME NEW x \in Conns, Watches(x)', NEW p \in Conns,
                      sent'[x].shown[p] # None
               PROVE  sent'[x].shown[p] \in socket'[x].watching
    BY DEF ShownAreWatched
  <2>1. CASE x = c
    BY <1>3, <1>11, <1>12, <2>1
  <2>2. CASE x # c
    BY <1>4, <1>10, <1>12, <2>2 DEF PresenceInv, ShownAreWatched
  <2> QED  BY <2>1, <2>2
<1>16. PresentAreConnected'
  BY <1>5, <1>12 DEF PresenceInv, PresentAreConnected
<1>17. ShownAreTrue'
  <2> SUFFICES ASSUME NEW x \in Conns, NEW p \in Conns, Watches(x)', p # x,
                      p \notin forgot
               PROVE  /\ sent'[x].shown[p] \in {None, presence'[p]}
                      /\ (Open(p)' /\ presence'[p] \in socket'[x].watching) =>
                           sent'[x].shown[p] = presence'[p]
    BY <1>1 DEF ShownAreTrue
  <2>0. Open(p)' <=> Open(p)
    BY <1>12 DEF Open
  <2>1. CASE ~Enabled(sock)
    BY <1>5, <1>10, <1>11, <2>1
  <2>2. CASE Enabled(sock) /\ x = c
    <3>1. presence'[p] = presence[p] /\ store[p] = presence[p]
      BY <1>5, <2>2
    <3>2. /\ sent[c].shown[p] \in {None, presence[p]}
          /\ (Open(p) /\ presence[p] \in socket[c].watching) =>
               sent[c].shown[p] = presence[p]
      <4>1. CASE Watches(c)
        BY <2>2, <4>1 DEF PresenceInv, ShownAreTrue
      <4>2. CASE ~Watches(c)
        BY <1>1, <4>2
           DEF PresenceInv, UnwatchedShowNobody, ShowsNobody, Watches
      <4> QED  BY <4>1, <4>2
    <3>3. CASE Open(p) /\ presence[p] \in more
      BY <1>11, <2>2, <3>1, <3>3
    <3>4. CASE ~(Open(p) /\ presence[p] \in more)
      <4>1. sent'[c].shown[p] =
              IF sent[c].shown[p] \in W THEN sent[c].shown[p] ELSE None
        BY <1>3, <1>11, <2>2, <3>1, <3>4
      <4>2. (Open(p) /\ presence[p] \in W) =>
              presence[p] \in socket[c].watching
        BY <3>4
      <4> QED  BY <1>12, <2>0, <2>2, <3>1, <3>2, <4>1, <4>2
    <3> QED  BY <3>3, <3>4
  <2>3. CASE Enabled(sock) /\ x # c
    <3>1. /\ sent[x].shown[p] \in {None, presence[p]}
          /\ (Open(p) /\ presence[p] \in socket[x].watching) =>
               sent[x].shown[p] = presence[p]
      BY <1>10, <2>3 DEF PresenceInv, ShownAreTrue
    <3>2. sent'[x].shown[p] = told[x].shown[p] /\ Watches(x)
      BY <1>10, <2>3
    <3>3. CASE p = c /\ dropped
      BY <1>4, <1>5, <2>3, <3>2, <3>3
    <3>4. CASE p # c \/ ~dropped
      <4>1. sent'[x].shown[p] = sent[x].shown[p] /\ presence'[p] = presence[p]
        BY <1>4, <1>5, <2>3, <3>2, <3>4
      <4> QED  BY <1>12, <2>0, <2>3, <3>1, <4>1
    <3> QED  BY <3>3, <3>4
  <2> QED  BY <2>1, <2>2, <2>3
<1>18. AvailabilityTrue'
  <2>1. \A x \in Conns : sent'[x].available = announced[x].available
    BY <1>1, <1>8
  <2> QED  BY <1>1, <1>4, <2>1, AnnouncedTrue DEF announced
<1> QED
  BY <1>13, <1>14, <1>15, <1>16, <1>17, <1>18 DEF PresenceInv

LEMMA RestartShown ==
  ASSUME TypeOK, PresenceInv, Hibernate \/ Crash
  PROVE  PresenceInv'
<1>0. SocketTyped /\ sent \in [Conns -> Known]
  BY TypeParts DEF SentTyped
<1>1. CASE Hibernate
  <2>1. /\ socket' = socket /\ sent' = sent
        /\ \A p \in Conns : presence'[p] = None
        /\ \A p \in Conns : p \notin forgot' =>
             p \notin forgot /\ presence[p] = None
    BY <1>1 DEF Hibernate
  <2>2. NewShowNobody' /\ UnwatchedShowNobody' /\ ShownAreWatched'
    BY <2>1 DEF PresenceInv, NewShowNobody, UnwatchedShowNobody,
                ShownAreWatched, ShowsNobody, Watches, Open
  <2>3. PresentAreConnected' /\ AvailabilityTrue'
    BY <2>1 DEF PresenceInv, PresentAreConnected, AvailabilityTrue, Watches,
                Open, Leaves
  <2>4. ShownAreTrue'
    BY <2>1 DEF PresenceInv, ShownAreTrue, Watches, Open
  <2> QED  BY <2>2, <2>3, <2>4 DEF PresenceInv
<1>2. CASE Crash
  <2>1. /\ sent' = sent
        /\ \A p \in Conns :
             /\ ~Open(p)' /\ presence'[p] = None
             /\ socket'[p].state = "new" => socket[p].state = "new"
    BY <1>0, <1>2 DEF Crash, Open, SocketTyped
  <2>2. NewShowNobody'
    BY <2>1 DEF PresenceInv, NewShowNobody, ShowsNobody
  <2> QED
    BY <2>1, <2>2 DEF PresenceInv, UnwatchedShowNobody, ShownAreWatched,
       PresentAreConnected, ShownAreTrue, AvailabilityTrue, Watches
<1> QED  BY <1>1, <1>2

\* Everything else tells nobody about presence.
LEMMA OthersShown ==
  ASSUME TypeOK, PresenceInv,
         \/ \E c \in Conns :
              \/ Accept(c) \/ CloseSocket(c) \/ UnregisterSocket(c)
              \/ \E h \in Handlers :
                   \/ Hello(h, c)
                   \/ \E n \in 1..MaxBatch : \E place \in [Entries -> 0..n] :
                        CommitMutations(h, c, n, place)
              \/ ListChanges(c) \/ WatchStorageStatus(c)
              \/ UnwatchStorageStatus(c)
         \/ \E h \in Handlers : Handle(h)
         \/ FlushStorageStatus \/ UNCHANGED vars
  PROVE  PresenceInv'
<1>0. SocketTyped /\ sent \in [Conns -> Known]
  BY TypeParts DEF SentTyped
<1>1. ASSUME NEW c \in Conns, Accept(c) \/ CloseSocket(c) \/ UnregisterSocket(c)
      PROVE  PresenceInv'
  <2>1. UNCHANGED <<presenceVars, sent>>
    BY <1>1 DEF Accept, CloseSocket, UnregisterSocket
  <2>2. \A x \in Conns :
          \/ socket'[x] = socket[x]
          \/ /\ socket[x].state = "new" /\ socket'[x].state = "open"
             /\ ~socket'[x].wantsPresence /\ socket'[x].watching = {}
          \/ /\ socket[x].state \in {"open", "closing"}
             /\ socket'[x].state \in {"closing", "leaving"}
             /\ socket'[x].wantsPresence = socket[x].wantsPresence
    <3>1. CASE Accept(c)
      BY <1>0, <3>1 DEF Accept, Superseded, Open, SocketTyped, NoSocket
    <3>2. CASE CloseSocket(c)
      BY <1>0, <3>2 DEF CloseSocket, Open, SocketTyped
    <3>3. CASE UnregisterSocket(c)
      BY <1>0, <3>3 DEF UnregisterSocket, Ends, Open, SocketTyped
    <3> QED  BY <1>1, <3>1, <3>2, <3>3
  <2> QED  BY <2>1, <2>2, QuietShown
<1>2. ASSUME UNCHANGED presenceVars,
             \A x \in Conns :
               /\ sent'[x].shown = sent[x].shown
               /\ sent'[x].available = sent[x].available
               /\ socket'[x].state = socket[x].state
               /\ socket'[x].wantsPresence = socket[x].wantsPresence
               /\ socket'[x].watching = socket[x].watching
      PROVE  PresenceInv'
  BY <1>2, QuietShown
<1>3. ASSUME NEW c \in Conns, NEW h \in Handlers, Hello(h, c)
      PROVE  PresenceInv'
  BY <1>2, <1>3 DEF Hello
<1>4. ASSUME NEW c \in Conns, NEW h \in Handlers, NEW n, NEW place,
             CommitMutations(h, c, n, place)
      PROVE  PresenceInv'
  BY <1>2, <1>4 DEF CommitMutations
<1>5. ASSUME NEW c \in Conns, ListChanges(c)  PROVE PresenceInv'
  BY <1>2, <1>5 DEF ListChanges
<1>6. ASSUME NEW c \in Conns, WatchStorageStatus(c) \/ UnwatchStorageStatus(c)
      PROVE  PresenceInv'
  <2>1. UNCHANGED presenceVars
    BY <1>6 DEF WatchStorageStatus, UnwatchStorageStatus
  <2>2. \A x \in Conns : /\ sent'[x].shown = sent[x].shown
                         /\ sent'[x].available = sent[x].available
    <3>1. CASE WatchStorageStatus(c)
      <4>1. sent' = [sent EXCEPT ![c].status = storage]
        BY <3>1 DEF WatchStorageStatus
      <4>2. \A x \in Conns : sent[x] \in Known
        BY <1>0
      <4>3. \A x \in Conns :
              sent'[x] = sent[x] \/ sent'[x] = [sent[x] EXCEPT !.status = storage]
        BY <1>0, <4>1
      <4> QED  BY ZenonT(90), <4>2, <4>3 DEF Known
    <3>2. CASE UnwatchStorageStatus(c)
      BY <3>2 DEF UnwatchStorageStatus
    <3> QED  BY <1>6, <3>1, <3>2
  <2>3. \A x \in Conns : /\ socket'[x].state = socket[x].state
                         /\ socket'[x].wantsPresence = socket[x].wantsPresence
                         /\ socket'[x].watching = socket[x].watching
    BY <1>0, <1>6 DEF WatchStorageStatus, UnwatchStorageStatus, SocketTyped
  <2> QED  BY <1>2, <2>1, <2>2, <2>3
<1>7. ASSUME NEW h \in Handlers, Handle(h)  PROVE PresenceInv'
  <2>1. UNCHANGED <<presenceVars, socket>>
    BY <1>7 DEF Handle, AckHello, Reply, ReplyFails, ChangeUse,
       ApplyVaultPolicy, NotifyStorageStatusChanged, BroadcastPolicyUpdated,
       NotifyFails
  <2>2. ASSUME NEW x \in Conns
        PROVE  /\ sent'[x].shown = sent[x].shown
               /\ sent'[x].available = sent[x].available
    <3>1. CASE AckHello(h)
      BY <1>0, <3>1 DEF AckHello, Known
    <3>2. CASE Reply(h)
      BY <1>0, <3>2 DEF Reply, CursorSent, Known
    <3>3. CASE BroadcastPolicyUpdated(h)
      BY <1>0, <3>3 DEF BroadcastPolicyUpdated, Known
    <3>4. CASE UNCHANGED sent
      BY <3>4
    <3> QED
      BY <1>7, <3>1, <3>2, <3>3, <3>4 DEF Handle, ReplyFails, ChangeUse,
         ApplyVaultPolicy, NotifyStorageStatusChanged, NotifyFails
  <2> QED  BY <1>2, <2>1, <2>2
<1>8. ASSUME FlushStorageStatus  PROVE PresenceInv'
  <2>1. UNCHANGED <<presenceVars, socket>>
    BY <1>8 DEF FlushStorageStatus
  <2>2. \A x \in Conns : /\ sent'[x].shown = sent[x].shown
                         /\ sent'[x].available = sent[x].available
    BY <1>0, <1>8 DEF FlushStorageStatus, Known
  <2> QED  BY <1>2, <2>1, <2>2
<1>9. CASE UNCHANGED vars
  BY <1>2, <1>9 DEF vars
<1> QED  BY <1>1, <1>3, <1>4, <1>5, <1>6, <1>7, <1>8, <1>9

LEMMA NextShown ==
  ASSUME TypeOK, PresenceInv, [Next]_vars
  PROVE  PresenceInv'
<1>1. ASSUME NEW c \in Conns, Message(c)  PROVE PresenceInv'
  <2>1. CASE UnwatchPresence(c) \/ TerminateSocket(c) \/ DisconnectOnNode(c)
    BY <2>1, LeavingShown
  <2>2. ASSUME NEW W \in SUBSET Entries, WatchPresence(c, W)
        PROVE  PresenceInv'
    BY <2>2, WatchShown
  <2>3. CASE ClearPresence(c)
    BY <2>3, ClearShown
  <2>4. ASSUME NEW e \in Entries, UpdatePresence(c, e)  PROVE PresenceInv'
    BY <2>4, UpdateShown
  <2>5. CASE \/ Accept(c) \/ CloseSocket(c) \/ UnregisterSocket(c)
             \/ \E h \in Handlers :
                  \/ Hello(h, c)
                  \/ \E n \in 1..MaxBatch : \E place \in [Entries -> 0..n] :
                       CommitMutations(h, c, n, place)
             \/ ListChanges(c) \/ WatchStorageStatus(c)
             \/ UnwatchStorageStatus(c)
    BY <2>5, OthersShown
  <2> QED  BY <1>1, <2>1, <2>2, <2>3, <2>4, <2>5 DEF Message
<1> QED  BY <1>1, RestartShown, OthersShown DEF Next

LEMMA ShownFollows == PresenceInv => PresenceShown
<1> SUFFICES ASSUME PresenceInv, NEW c \in Conns, Watches(c)
             PROVE  /\ \A p \in (Conns \ {c}) \ forgot :
                         /\ sent[c].shown[p] \in {None, presence[p]}
                         /\ socket[p].state = "gone" => sent[c].shown[p] = None
                         /\ (Open(p) /\ presence[p] \in socket[c].watching) =>
                              sent[c].shown[p] = presence[p]
                    /\ \/ sent[c].available = \E p \in Conns \ {c} : Watches(p)
                       \/ \E p \in Conns : Leaves(p)
  BY DEF PresenceShown, Watches, Leaves
<1>1. \A p \in (Conns \ {c}) \ forgot :
        /\ sent[c].shown[p] \in {None, presence[p]}
        /\ (Open(p) /\ presence[p] \in socket[c].watching) =>
             sent[c].shown[p] = presence[p]
  BY DEF PresenceInv, ShownAreTrue
<1>2. \A p \in Conns : socket[p].state = "gone" => presence[p] = None
  BY DEF PresenceInv, PresentAreConnected
<1>3. \/ sent[c].available = \E p \in Conns \ {c} : Watches(p)
      \/ \E p \in Conns : Leaves(p)
  BY DEF PresenceInv, AvailabilityTrue
<1> QED  BY <1>1, <1>2, <1>3

\* Whatever the order in which clients watch, open, move, leave and are
\* replaced, on both runtimes: a socket that watches shows of every other what
\* it has open among the entries it watches, and nobody who moved on or has
\* left, except those a hibernation forgot; and it knows whether others are
\* there, but while a socket is on its way out (PresenceStore,
\* broadcastPresenceToWatchers, handleDisconnect).
THEOREM PresenceTrue == Spec => []PresenceShown
<1>1. Init => TypeOK /\ PresenceInv
  BY InitTyped, InitShown
<1>2. TypeOK /\ PresenceInv /\ [Next]_vars => (TypeOK /\ PresenceInv)'
  BY NextTyped, NextShown
<1> QED  BY <1>1, <1>2, ShownFollows, PTL DEF Spec

-----------------------------------------------------------------------------
(* The history.  What a page of a finite set of rows is, whatever the rows. *)

Row == [at : Nat, id : Nat, rev : Nat]

Newer(S, r) == {s \in S : Older(r, s)}

Before(S, r) == {s \in S : Older(s, r)}

LEMMA OlderIsOrder ==
  ASSUME NEW r \in Row, NEW s \in Row
  PROVE  /\ ~Older(r, r)
         /\ ~(Older(r, s) /\ Older(s, r))
         /\ r.id # s.id => Older(r, s) \/ Older(s, r)
         /\ \A t \in Row : Older(r, s) /\ Older(s, t) => Older(r, t)
  BY DEF Older, Row

\* A finite set of rows has a newest and an oldest.
LEMMA NewestExists ==
  ASSUME NEW S \in SUBSET Row, IsFiniteSet(S), S # {}
  PROVE  \E r \in S : Newer(S, r) = {}
<1> DEFINE T == {Newer(S, r) : r \in S}
<1>1. T \subseteq FiniteSubsetsOf(S) /\ T # {}
  <2>1. \A r \in S : Newer(S, r) \in SUBSET S
    BY DEF Newer
  <2>2. \A r \in S : IsFiniteSet(Newer(S, r))
    BY <2>1, FS_Subset
  <2> QED  BY <2>1, <2>2 DEF FiniteSubsetsOf
<1>2. PICK m \in T : \A y \in T : <<y, m>> \notin StrictSubsetOrdering(S)
  BY <1>1, FS_StrictSubsetOrderingWellFounded, WFMin
<1>3. PICK r \in S : m = Newer(S, r)
  BY <1>2
<1>4. ASSUME NEW s \in Newer(S, r)  PROVE FALSE
  <2>1. s \in S /\ Older(r, s)
    BY <1>4 DEF Newer
  <2>2. Newer(S, s) \subseteq m
    BY <1>3, <2>1, OlderIsOrder DEF Newer
  <2>3. s \in m /\ s \notin Newer(S, s)
    BY <1>3, <1>4, <2>1, OlderIsOrder DEF Newer
  <2>4. Newer(S, s) \in T /\ m \in SUBSET S /\ Newer(S, s) \in SUBSET S
    BY <1>3, <2>1 DEF Newer
  <2>5. <<Newer(S, s), m>> \in StrictSubsetOrdering(S)
    BY <2>2, <2>3, <2>4 DEF StrictSubsetOrdering
  <2> QED  BY <1>2, <2>4, <2>5
<1> QED  BY <1>3, <1>4

LEMMA OldestExists ==
  ASSUME NEW S \in SUBSET Row, IsFiniteSet(S), S # {}
  PROVE  \E r \in S : Before(S, r) = {}
<1> DEFINE T == {Before(S, r) : r \in S}
<1>1. T \subseteq FiniteSubsetsOf(S) /\ T # {}
  <2>1. \A r \in S : Before(S, r) \in SUBSET S
    BY DEF Before
  <2>2. \A r \in S : IsFiniteSet(Before(S, r))
    BY <2>1, FS_Subset
  <2> QED  BY <2>1, <2>2 DEF FiniteSubsetsOf
<1>2. PICK m \in T : \A y \in T : <<y, m>> \notin StrictSubsetOrdering(S)
  BY <1>1, FS_StrictSubsetOrderingWellFounded, WFMin
<1>3. PICK r \in S : m = Before(S, r)
  BY <1>2
<1>4. ASSUME NEW s \in Before(S, r)  PROVE FALSE
  <2>1. s \in S /\ Older(s, r)
    BY <1>4 DEF Before
  <2>2. Before(S, s) \subseteq m
    BY <1>3, <2>1, OlderIsOrder DEF Before
  <2>3. s \in m /\ s \notin Before(S, s)
    BY <1>3, <1>4, <2>1, OlderIsOrder DEF Before
  <2>4. Before(S, s) \in T /\ m \in SUBSET S /\ Before(S, s) \in SUBSET S
    BY <1>3, <2>1 DEF Before
  <2>5. <<Before(S, s), m>> \in StrictSubsetOrdering(S)
    BY <2>2, <2>3, <2>4 DEF StrictSubsetOrdering
  <2> QED  BY <1>2, <2>4, <2>5
<1> QED  BY <1>3, <1>4

\* All rows are on a page if they are few.
LEMMA FewRowsAllListed ==
  ASSUME NEW S \in SUBSET Row, IsFiniteSet(S), ~(Cardinality(S) > PageRows)
  PROVE  TopOf(S) = S
<1> SUFFICES ASSUME NEW r \in S
             PROVE  Cardinality(Newer(S, r)) < PageRows
  BY DEF TopOf, Newer
<1>1. Newer(S, r) \in SUBSET S /\ r \notin Newer(S, r)
  BY OlderIsOrder DEF Newer
<1>2. /\ Cardinality(Newer(S, r)) <= Cardinality(S)
      /\ Cardinality(Newer(S, r)) # Cardinality(S)
      /\ IsFiniteSet(Newer(S, r))
  BY <1>1, FS_Subset
<1>3. /\ Cardinality(Newer(S, r)) \in Nat /\ Cardinality(S) \in Nat
      /\ PageRows \in Nat
  BY <1>2, FS_CardinalityType, HistoryAssumptions
<1> QED  BY <1>2, <1>3

\* A page has an oldest row, and what is not on it is older yet.
LEMMA PageHasOldest ==
  ASSUME NEW S \in SUBSET Row, IsFiniteSet(S), Cardinality(S) > PageRows,
         \A r, s \in S : r.id = s.id => r = s
  PROVE  \E l \in TopOf(S) : \A s \in TopOf(S) : s = l \/ Older(l, s)
<1> DEFINE page == TopOf(S)
<1>1. page \in SUBSET S /\ IsFiniteSet(page)
  <2>1. page \in SUBSET S
    BY DEF TopOf
  <2> QED  BY <2>1, FS_Subset
<1>2. S # {}
  <2>1. PageRows \in Nat
    BY HistoryAssumptions
  <2> QED  BY <2>1, FS_EmptySet
<1>3. PICK n \in S : Newer(S, n) = {}
  BY <1>2, NewestExists
<1>4. n \in page
  <2>1. Cardinality(Newer(S, n)) = 0 /\ 0 < PageRows
    BY <1>3, FS_EmptySet, HistoryAssumptions
  <2> QED  BY <2>1 DEF TopOf, Newer
<1> HIDE DEF page
<1>5. PICK l \in page : Before(page, l) = {}
  <2>1. page \in SUBSET Row /\ page # {}
    BY <1>1, <1>4
  <2> QED  BY <1>1, <2>1, OldestExists
<1>6. ASSUME NEW s \in page, s # l
      PROVE  Older(l, s)
  <2>1. s.id # l.id /\ s \in Row /\ l \in Row
    BY <1>1, <1>6
  <2>2. ~Older(s, l)
    BY <1>5 DEF Before
  <2> QED  BY <2>1, <2>2, OlderIsOrder
<1> QED  BY <1>5, <1>6 DEF page

LEMMA RestIsOlder ==
  ASSUME NEW S \in SUBSET Row, IsFiniteSet(S),
         \A r, s \in S : r.id = s.id => r = s,
         NEW l \in TopOf(S), NEW r \in S, r \notin TopOf(S)
  PROVE  Older(r, l)
<1>1. /\ l \in S /\ r # l /\ r.id # l.id /\ l \in Row /\ r \in Row
      /\ Cardinality(Newer(S, l)) < PageRows
      /\ ~(Cardinality(Newer(S, r)) < PageRows)
  BY DEF TopOf, Newer
<1>2. ASSUME Older(l, r)  PROVE FALSE
  <2>1. Newer(S, r) \subseteq Newer(S, l) /\ Newer(S, l) \in SUBSET S
    BY <1>1, <1>2, OlderIsOrder DEF Newer
  <2>2. IsFiniteSet(Newer(S, l)) /\ IsFiniteSet(Newer(S, r))
    BY <2>1, FS_Subset
  <2>3. Cardinality(Newer(S, r)) <= Cardinality(Newer(S, l))
    BY <2>1, <2>2, FS_Subset
  <2>4. /\ Cardinality(Newer(S, r)) \in Nat /\ Cardinality(Newer(S, l)) \in Nat
        /\ PageRows \in Nat
    BY <2>2, FS_CardinalityType, HistoryAssumptions
  <2> QED  BY <1>1, <2>3, <2>4
<1> QED  BY <1>1, <1>2, OlderIsOrder

(* A listing knows rows by their ids.  The revision of an entry and the id  *)
(* of a version never recur, so no row it has seen comes back once it is    *)
(* gone, and an entry deleted again is newer than any page that is left.    *)

HistoryTyped ==
  /\ clock \in Nat
  /\ file \in [Files -> [deleted : BOOLEAN, rev : Nat, at : Nat]]
  /\ drawn \in SUBSET VersionIds
  /\ versions \in SUBSET [id : drawn, file : Files, at : Nat, content : BOOLEAN]
  /\ listing \in [of : Files \cup {Bin, None}, last : Row \cup {None},
                  got : SUBSET Row, began : SUBSET Row]

IdsDiffer == \A v, w \in versions : v.id = w.id => v = w

FilesInPast == \A f \in Files : file[f].at <= clock

\* r was a row of the listing of `what` at some time.
WasRow(what, r) ==
  IF what = Bin
  THEN /\ r.id \in Files /\ r.rev <= file[r.id].rev /\ r.at <= file[r.id].at
  ELSE /\ r.id \in drawn /\ r.rev = 0
       /\ \A v \in versions : v.id = r.id => v.at = r.at

Reached(what) ==
  /\ \A r \in listing.got \cup listing.began : WasRow(what, r)
  /\ listing.last = None =>
       \A r \in listing.began : r \in RowsOf(what) => r \in listing.got
  /\ listing.last # None =>
       /\ \A r \in listing.began :
            r \in RowsOf(what) => r \in listing.got \/ Older(r, listing.last)
       /\ \A r \in listing.got : r = listing.last \/ Older(listing.last, r)
  /\ \A r, s \in listing.got : r.id = s.id => r = s

ListingInv ==
  /\ listing.of = None => listing.last = None
  /\ \A what \in Files \cup {Bin} : listing.of = what => Reached(what)

HistoryInv == HistoryTyped /\ IdsDiffer /\ FilesInPast /\ ListingInv

LEMMA DeletedRowsAre ==
  ASSUME HistoryTyped
  PROVE  /\ DeletedRows \in SUBSET Row
         /\ \A r \in DeletedRows :
              /\ r.id \in Files /\ file[r.id].deleted
              /\ HasRestorableHistory(r.id)
              /\ r.at = file[r.id].at /\ r.rev = file[r.id].rev
         /\ \A r, s \in DeletedRows : r.id = s.id => r = s
<1>1. ASSUME NEW r \in DeletedRows
      PROVE  \E f \in Files : /\ r = [at |-> file[f].at, id |-> f, rev |-> file[f].rev]
                              /\ file[f].deleted /\ HasRestorableHistory(f)
  BY <1>1 DEF DeletedRows
<1>2. ASSUME NEW r \in DeletedRows
      PROVE  /\ r \in Row /\ r.id \in Files /\ file[r.id].deleted
             /\ HasRestorableHistory(r.id)
             /\ r = [at |-> file[r.id].at, id |-> r.id, rev |-> file[r.id].rev]
  <2>1. PICK f \in Files :
          /\ r = [at |-> file[f].at, id |-> f, rev |-> file[f].rev]
          /\ file[f].deleted /\ HasRestorableHistory(f)
    BY <1>1
  <2>2. f \in Nat /\ file[f].at \in Nat /\ file[f].rev \in Nat
    BY HistoryAssumptions DEF HistoryTyped
  <2>3. r.id = f
    BY <2>1
  <2> QED  BY <2>1, <2>2, <2>3 DEF Row
<1>3. DeletedRows \in SUBSET Row
  BY <1>2
<1>4. ASSUME NEW r \in DeletedRows
      PROVE  r.at = file[r.id].at /\ r.rev = file[r.id].rev
  <2> DEFINE f == r.id
  <2>1. r = [at |-> file[f].at, id |-> f, rev |-> file[f].rev]
    BY <1>2
  <2> HIDE DEF f
  <2>2. r.at = file[f].at /\ r.rev = file[f].rev
    BY <2>1
  <2> QED  BY <2>2 DEF f
<1>5. ASSUME NEW r \in DeletedRows, NEW s \in DeletedRows, r.id = s.id
      PROVE  r = s
  BY <1>2, <1>5
<1> QED  BY <1>2, <1>3, <1>4, <1>5

LEMMA VersionRowsAre ==
  ASSUME HistoryTyped, IdsDiffer, NEW f \in Files
  PROVE  /\ VersionRows(f) \in SUBSET Row
         /\ \A r \in VersionRows(f) :
              /\ r.rev = 0 /\ r.id \in drawn
              /\ \E v \in versions : /\ v.id = r.id /\ v.at = r.at /\ v.file = f
                                     /\ v.at >= RetentionStart
         /\ \A r, s \in VersionRows(f) : r.id = s.id => r = s
<1>1. ASSUME NEW r \in VersionRows(f)
      PROVE  \E v \in versions : /\ r = [at |-> v.at, id |-> v.id, rev |-> 0]
                                 /\ v.file = f /\ v.at >= RetentionStart
  BY <1>1 DEF VersionRows
<1>2. ASSUME NEW r \in VersionRows(f)
      PROVE  /\ r \in Row /\ r.rev = 0 /\ r.id \in drawn
             /\ r = [at |-> r.at, id |-> r.id, rev |-> 0]
             /\ \E v \in versions : /\ v.id = r.id /\ v.at = r.at /\ v.file = f
                                    /\ v.at >= RetentionStart
  <2>1. PICK v \in versions : /\ r = [at |-> v.at, id |-> v.id, rev |-> 0]
                              /\ v.file = f /\ v.at >= RetentionStart
    BY <1>1
  <2>2. v.id \in drawn /\ v.id \in Nat /\ v.at \in Nat
    BY HistoryAssumptions DEF HistoryTyped
  <2>3. r.at = v.at /\ r.id = v.id /\ r.rev = 0
    BY <2>1
  <2> QED  BY <2>1, <2>2, <2>3 DEF Row
<1>3. ASSUME NEW r \in VersionRows(f), NEW s \in VersionRows(f), r.id = s.id
      PROVE  r = s
  <2>1. PICK v \in versions : v.id = r.id /\ v.at = r.at
    BY <1>2
  <2>2. PICK w \in versions : w.id = s.id /\ w.at = s.at
    BY <1>2
  <2>3. v = w
    BY <1>3, <2>1, <2>2 DEF IdsDiffer
  <2> QED  BY <1>2, <1>3, <2>1, <2>2, <2>3
<1> QED  BY <1>2, <1>3

\* The rows of a listing: finitely many, each known by its id, and none older
\* than a row of that id was before.
LEMMA RowsAre ==
  ASSUME HistoryTyped, IdsDiffer, NEW what \in Files \cup {Bin}
  PROVE  /\ RowsOf(what) \in SUBSET Row /\ IsFiniteSet(RowsOf(what))
         /\ \A r, s \in RowsOf(what) : r.id = s.id => r = s
         /\ \A r \in RowsOf(what) : WasRow(what, r)
         /\ \A r \in Row, s \in RowsOf(what) :
              WasRow(what, r) /\ r.id = s.id => r.at <= s.at
<1> DEFINE S == RowsOf(what)
           idOf == [r \in S |-> r.id]
<1>1. ASSUME NEW T, IsFiniteSet(T), \A r \in S : r.id \in T,
             \A r, s \in S : r.id = s.id => r = s
      PROVE  IsFiniteSet(S)
  <2>1. idOf \in Injection(S, T)
    BY <1>1 DEF Injection, IsInjective
  <2> QED  BY <1>1, <2>1, FS_Injection
<1>2. CASE what = Bin
  <2>1. S = DeletedRows
    BY <1>2 DEF RowsOf
  <2>2. /\ S \in SUBSET Row
        /\ \A r \in S : /\ r.id \in Files
                        /\ r.at = file[r.id].at /\ r.rev = file[r.id].rev
        /\ \A r, s \in S : r.id = s.id => r = s
    BY <2>1, DeletedRowsAre
  <2>3. IsFiniteSet(S)
    BY <1>1, <2>2, HistoryAssumptions
  <2>4. \A r \in S : WasRow(what, r)
    <3>1. \A f \in Files : file[f].at \in Nat /\ file[f].rev \in Nat
      BY DEF HistoryTyped
    <3> QED  BY <1>2, <2>2, <3>1 DEF WasRow
  <2>5. \A r \in Row, s \in S : WasRow(what, r) /\ r.id = s.id => r.at <= s.at
    BY <1>2, <2>2 DEF WasRow
  <2> QED  BY <2>2, <2>3, <2>4, <2>5
<1>3. CASE what \in Files
  <2>1. S = VersionRows(what) /\ what # Bin
    BY <1>3, HistoryAssumptions DEF RowsOf, Bin
  <2>2. /\ S \in SUBSET Row
        /\ \A r \in S : /\ r.rev = 0 /\ r.id \in drawn
                        /\ \E v \in versions : v.id = r.id /\ v.at = r.at
        /\ \A r, s \in S : r.id = s.id => r = s
    BY <1>3, <2>1, VersionRowsAre
  <2>3. IsFiniteSet(S)
    <3>1. \A r \in S : r.id \in VersionIds
      BY <2>2 DEF HistoryTyped
    <3> QED  BY <1>1, <2>2, <3>1, HistoryAssumptions
  <2>4. \A r \in S : WasRow(what, r)
    BY <2>1, <2>2 DEF WasRow, IdsDiffer
  <2>5. ASSUME NEW r \in Row, NEW s \in S, WasRow(what, r), r.id = s.id
        PROVE  r.at <= s.at
    <3>1. PICK v \in versions : v.id = s.id /\ v.at = s.at
      BY <2>2
    <3>2. v.at = r.at
      BY <2>1, <2>5, <3>1 DEF WasRow
    <3> QED  BY <3>1, <3>2 DEF Row
  <2> QED  BY <2>2, <2>3, <2>4, <2>5
<1> QED  BY <1>2, <1>3

\* A page of what is below the last row a listing has.
LEMMA PageReached ==
  ASSUME HistoryTyped, IdsDiffer, FilesInPast, NEW what \in Files \cup {Bin},
         NEW last \in Row \cup {None}, NEW got \in SUBSET Row,
         NEW began \in SUBSET Row,
         \/ last = None /\ got = {} /\ began = RowsOf(what)
         \/ /\ last # None /\ last = listing.last /\ got = listing.got
            /\ began = listing.began /\ Reached(what),
         Received(what, last, got, began),
         UNCHANGED <<clock, file, versions, drawn>>
  PROVE  HistoryInv'
<1> DEFINE S == RowsOf(what)
           rows == Below(S, last)
           page == TopOf(rows)
           next == IF Cardinality(rows) > PageRows
                   THEN CHOOSE r \in page : \A s \in page : s = r \/ Older(r, s)
                   ELSE None
<1>1. listing' = [of |-> what, last |-> next, got |-> got \cup page,
                  began |-> began]
  BY DEF Received
<1>2. /\ S \in SUBSET Row /\ IsFiniteSet(S)
      /\ \A r, s \in S : r.id = s.id => r = s
      /\ \A r \in S : WasRow(what, r)
      /\ \A r \in Row, s \in S : WasRow(what, r) /\ r.id = s.id => r.at <= s.at
  BY RowsAre
<1> HIDE DEF S
<1>3. /\ rows \in SUBSET S /\ IsFiniteSet(rows)
      /\ \A r \in S : r \in rows <=> last = None \/ Older(r, last)
  <2>1. \A r : r \in rows <=> r \in S /\ (last = None \/ Older(r, last))
    BY DEF Below
  <2> QED  BY <1>2, <2>1, FS_Subset
<1> HIDE DEF rows
<1>4. page \in SUBSET rows
  BY DEF TopOf
<1>5. ~(Cardinality(rows) > PageRows) => page = rows /\ next = None
  BY <1>2, <1>3, FewRowsAllListed
<1>6. ASSUME Cardinality(rows) > PageRows
      PROVE  /\ next \in page /\ next # None
             /\ \A s \in page : s = next \/ Older(next, s)
             /\ \A r \in rows : r \in page \/ Older(r, next)
  <2>1. \E l \in page : \A s \in page : s = l \/ Older(l, s)
    BY <1>2, <1>3, <1>6, PageHasOldest
  <2>2. next \in page /\ \A s \in page : s = next \/ Older(next, s)
    <3> HIDE DEF page
    <3> QED  BY <1>6, <2>1
  <2>3. next # None
    BY <1>2, <1>3, <1>4, <2>2, HistoryAssumptions DEF Row
  <2>4. \A r \in rows : r \in page \/ Older(r, next)
    <3> HIDE DEF next
    <3> QED  BY <1>2, <1>3, <2>2, RestIsOlder
  <2> QED  BY <2>2, <2>3, <2>4
<1> HIDE DEF page, next
<1>7. \A r \in got \cup began : WasRow(what, r)
  BY <1>2 DEF Reached, S
<1>8. \A r \in began : r \in S => r \in got \/ r \in rows
  BY <1>3 DEF Reached, S
<1>9. last # None => \A r \in got : r = last \/ Older(last, r)
  BY DEF Reached
<1>10. ASSUME NEW r \in got, NEW s \in rows
       PROVE  Older(s, r)
  <2>1. last # None /\ last \in Row /\ r \in Row /\ s \in Row
    BY <1>2, <1>3, HistoryAssumptions DEF Row
  <2>2. Older(s, last)
    BY <1>3, <2>1
  <2> QED  BY <1>9, <2>1, <2>2, OlderIsOrder
<1>11. ASSUME NEW r \in got, NEW s \in rows
       PROVE  r.id # s.id
  <2>1. Older(s, r) /\ r \in Row /\ s \in Row
    BY <1>2, <1>3, <1>10
  <2>2. r.id = s.id => r.at <= s.at
    BY <1>2, <1>3, <1>7, <2>1
  <2> QED  BY <2>1, <2>2 DEF Older, Row
<1>12. \A r, s \in got : r.id = s.id => r = s
  BY DEF Reached
<1>13. RowsOf(what)' = S /\ \A r : WasRow(what, r)' <=> WasRow(what, r)
  BY DEF S, RowsOf, DeletedRows, VersionRows, HasRestorableHistory,
         RetentionStart, WasRow
<1>14. next \in Row \cup {None} /\ page \in SUBSET Row
  BY <1>2, <1>3, <1>4, <1>5, <1>6
<1>15. HistoryTyped'
  BY <1>1, <1>14 DEF HistoryTyped
<1>16. IdsDiffer' /\ FilesInPast'
  BY DEF IdsDiffer, FilesInPast
<1>17. Reached(what)'
  <2>1. /\ listing'.last = next /\ listing'.got = got \cup page
        /\ listing'.began = began
    BY <1>1
  <2>2. \A r \in got \cup page \cup began : WasRow(what, r)'
    BY <1>2, <1>3, <1>4, <1>7, <1>13
  <2>3. next = None =>
          \A r \in began : r \in S => r \in got \cup page
    BY <1>5, <1>6, <1>8
  <2>4. next # None => \A r \in began : r \in S =>
                         r \in got \cup page \/ Older(r, next)
    BY <1>5, <1>6, <1>8
  <2>5. next # None => \A r \in got \cup page : r = next \/ Older(next, r)
    BY <1>4, <1>5, <1>6, <1>10
  <2>6. \A r, s \in got \cup page : r.id = s.id => r = s
    BY <1>2, <1>3, <1>4, <1>11, <1>12
  <2> QED  BY <1>13, <2>1, <2>2, <2>3, <2>4, <2>5, <2>6 DEF Reached
<1>18. ListingInv'
  <2>1. what # None
    BY FeedAssumptions, HistoryAssumptions DEF Bin
  <2> QED  BY <1>1, <1>17, <2>1 DEF ListingInv
<1> QED  BY <1>15, <1>16, <1>18 DEF HistoryInv

\* What a commit or the collection leaves of the rows: an entry that changes
\* takes a new revision, a new version an id of its own, and only an entry that
\* changes becomes restorable.
LEMMA EditReached ==
  ASSUME HistoryInv, HistoryTyped', IdsDiffer', UNCHANGED listing,
         clock <= clock', drawn \subseteq drawn',
         \A f \in Files : \/ file'[f] = file[f]
                          \/ /\ file'[f].rev = file[f].rev + 1
                             /\ file'[f].at = clock,
         \A v \in versions' : \/ v \in versions
                                \/ /\ v.id \notin drawn
                                   /\ file'[v.file].rev = file[v.file].rev + 1
  PROVE  HistoryInv'
<1>0. /\ HistoryTyped /\ IdsDiffer /\ FilesInPast
      /\ clock \in Nat /\ clock' \in Nat /\ Retention \in Nat
      /\ \A f \in Files : /\ file[f].rev \in Nat /\ file[f].at \in Nat
                          /\ file'[f].rev \in Nat /\ file'[f].at \in Nat
      /\ \A v \in versions : v.at \in Nat /\ v.file \in Files
      /\ \A v \in versions' : v.at \in Nat /\ v.file \in Files
  BY HistoryAssumptions DEF HistoryInv, HistoryTyped
<1>1. FilesInPast'
  <2>1. \A f \in Files : file'[f].at <= clock'
    BY <1>0 DEF FilesInPast
  <2> QED  BY <2>1 DEF FilesInPast
<1>2. ASSUME NEW v \in versions', v.at >= RetentionStart'
      PROVE  v.at >= RetentionStart
  BY <1>0, <1>2 DEF RetentionStart
<1>3. ASSUME NEW what \in Files \cup {Bin}, NEW r \in Row, WasRow(what, r)
      PROVE  WasRow(what, r)'
  <2>1. CASE what = Bin
    <3>1. /\ r.id \in Files /\ r.rev <= file[r.id].rev /\ r.at <= file[r.id].at
          /\ r.rev \in Nat /\ r.at \in Nat
      BY <1>3, <2>1 DEF WasRow, Row
    <3>2. r.rev <= file'[r.id].rev /\ r.at <= file'[r.id].at
      <4>1. CASE file'[r.id] = file[r.id]
        BY <3>1, <4>1
      <4>2. CASE file'[r.id].rev = file[r.id].rev + 1 /\ file'[r.id].at = clock
        <5>1. file[r.id].at <= clock
          BY <1>0, <3>1 DEF FilesInPast
        <5> QED  BY <1>0, <3>1, <4>2, <5>1
      <4> QED  BY <3>1, <4>1, <4>2
    <3> QED  BY <2>1, <3>1, <3>2 DEF WasRow
  <2>2. CASE what # Bin
    <3>1. /\ r.id \in drawn /\ r.rev = 0
          /\ \A v \in versions : v.id = r.id => v.at = r.at
      BY <1>3, <2>2 DEF WasRow
    <3>2. \A v \in versions' : v.id = r.id => v.at = r.at
      BY <3>1
    <3> QED  BY <2>2, <3>1, <3>2 DEF WasRow
  <2> QED  BY <2>1, <2>2
<1>4. ASSUME NEW what \in Files \cup {Bin}, NEW r \in Row, WasRow(what, r),
             r \in RowsOf(what)'
      PROVE  r \in RowsOf(what)
  <2>1. CASE what = Bin
    <3>1. r \in DeletedRows'
      BY <1>4, <2>1 DEF RowsOf
    <3>2. PICK f \in Files :
            /\ r = [at |-> file'[f].at, id |-> f, rev |-> file'[f].rev]
            /\ file'[f].deleted
            /\ \E v \in versions' : v.file = f /\ v.content
                                    /\ v.at >= RetentionStart'
      BY <3>1 DEF DeletedRows, HasRestorableHistory
    <3>3. r.id = f /\ r.rev = file'[f].rev
      BY <3>2
    <3>4. r.rev <= file[f].rev
      BY <1>4, <2>1, <3>3 DEF WasRow
    <3>5. ~(file'[f].rev = file[f].rev + 1)
      BY <1>0, <3>3, <3>4
    <3>6. file'[f] = file[f]
      BY <3>5
    <3>7. PICK v \in versions' : /\ v.file = f /\ v.content
                                 /\ v.at >= RetentionStart'
      BY <3>2
    <3>8. v \in versions /\ v.at >= RetentionStart
      BY <1>2, <3>5, <3>7
    <3>9. HasRestorableHistory(f)
      BY <3>7, <3>8 DEF HasRestorableHistory
    <3>10. r \in DeletedRows
      BY <3>2, <3>6, <3>9 DEF DeletedRows
    <3> QED  BY <2>1, <3>10 DEF RowsOf
  <2>2. CASE what # Bin
    <3>1. r \in VersionRows(what)'
      BY <1>4, <2>2 DEF RowsOf
    <3>2. PICK v \in versions' : /\ r = [at |-> v.at, id |-> v.id, rev |-> 0]
                                 /\ v.file = what /\ v.at >= RetentionStart'
      BY <3>1 DEF VersionRows
    <3>3. r.id = v.id /\ r.id \in drawn
      BY <1>4, <2>2, <3>2 DEF WasRow
    <3>4. v \in versions /\ v.at >= RetentionStart
      BY <1>2, <3>2, <3>3
    <3>5. r \in VersionRows(what)
      BY <3>2, <3>4 DEF VersionRows
    <3> QED  BY <2>2, <3>5 DEF RowsOf
  <2> QED  BY <2>1, <2>2
<1>5. ListingInv'
  <2> SUFFICES ASSUME NEW what \in Files \cup {Bin}, listing.of = what
               PROVE  Reached(what)'
    BY DEF HistoryInv, ListingInv
  <2>1. Reached(what)
    BY DEF HistoryInv, ListingInv
  <2>2. listing.got \in SUBSET Row /\ listing.began \in SUBSET Row
    BY <1>0 DEF HistoryTyped
  <2>3. \A r \in listing.got \cup listing.began : WasRow(what, r)
    BY <2>1 DEF Reached
  <2>4. \A r \in listing.got \cup listing.began : WasRow(what, r)'
    BY <1>3, <2>2, <2>3
  <2>5. \A r \in listing.began : r \in RowsOf(what)' => r \in RowsOf(what)
    BY <1>4, <2>2, <2>3
  <2> QED  BY <2>1, <2>4, <2>5 DEF Reached
<1> QED  BY <1>1, <1>5 DEF HistoryInv

LEMMA DeleteListed ==
  ASSUME HistoryInv, NEW F \in SUBSET Files, DeleteFiles(F)
  PROVE  HistoryInv'
<1> DEFINE Version == [id : drawn', file : Files, at : Nat, content : BOOLEAN]
           Made(id) == {[id |-> id[f], file |-> f, at |-> clock,
                         content |-> TRUE] : f \in F}
<1>0. HistoryTyped /\ IdsDiffer /\ UNCHANGED <<clock, listing>> /\ clock \in Nat
  BY DEF HistoryInv, HistoryTyped, DeleteFiles
<1>1. PICK id \in [F -> Unused] :
        /\ \A f, g \in F : id[f] = id[g] => f = g
        /\ versions' = versions \cup Made(id)
        /\ drawn' = drawn \cup {id[f] : f \in F}
  BY DEF DeleteFiles
<1>2. \A f \in F : id[f] \in VersionIds /\ id[f] \notin drawn /\ id[f] \in drawn'
  BY <1>1 DEF Unused
<1>3. ASSUME NEW v \in Made(id)
      PROVE  \E f \in F : v = [id |-> id[f], file |-> f, at |-> clock,
                               content |-> TRUE]
  BY <1>3
<1> HIDE DEF Made
<1>4. ASSUME NEW v \in Made(id)
      PROVE  /\ v \in Version /\ v.file \in F /\ v.id \notin drawn
             /\ \A w \in Made(id) : v.id = w.id => v = w
  <2>1. PICK f \in F : v = [id |-> id[f], file |-> f, at |-> clock,
                            content |-> TRUE]
    BY <1>3
  <2>2. v \in Version /\ v.file = f /\ v.id = id[f]
    BY <1>0, <1>2, <2>1
  <2>3. ASSUME NEW w \in Made(id), v.id = w.id
        PROVE  v = w
    <3>1. PICK g \in F : w = [id |-> id[g], file |-> g, at |-> clock,
                              content |-> TRUE]
      BY <1>3
    <3>2. w.id = id[g]
      BY <3>1
    <3>3. f = g
      BY <1>1, <2>2, <2>3, <3>2
    <3> QED  BY <2>1, <3>1, <3>3
  <2> QED  BY <1>2, <2>2, <2>3
<1>5. drawn \subseteq drawn' /\ drawn' \in SUBSET VersionIds
  BY <1>0, <1>1, <1>2 DEF HistoryTyped
<1>6. ASSUME NEW f \in Files
      PROVE  /\ file'[f] \in [deleted : BOOLEAN, rev : Nat, at : Nat]
             /\ f \in F => /\ file'[f].rev = file[f].rev + 1
                           /\ file'[f].at = clock
             /\ f \notin F => file'[f] = file[f]
  <2>1. file[f] \in [deleted : BOOLEAN, rev : Nat, at : Nat]
    BY <1>0 DEF HistoryTyped
  <2>2. CASE f \in F
    <3> DEFINE row == [deleted |-> TRUE, rev |-> file[f].rev + 1, at |-> clock]
    <3>1. file'[f] = row
      BY <2>2 DEF DeleteFiles
    <3>2. /\ row \in [deleted : BOOLEAN, rev : Nat, at : Nat]
          /\ row.rev = file[f].rev + 1 /\ row.at = clock
      BY <1>0, <2>1
    <3> HIDE DEF row
    <3> QED  BY <2>2, <3>1, <3>2
  <2>3. CASE f \notin F
    BY <2>1, <2>3 DEF DeleteFiles
  <2> QED  BY <2>2, <2>3
<1>7. file' \in [Files -> [deleted : BOOLEAN, rev : Nat, at : Nat]]
  <2>1. file' = [f \in Files |-> file'[f]]
    BY DEF DeleteFiles
  <2> QED  BY <1>6, <2>1
<1>8. HistoryTyped'
  <2>1. versions \in SUBSET Version
    BY <1>0, <1>5 DEF HistoryTyped
  <2>2. versions' \in SUBSET Version
    BY <1>1, <1>4, <2>1
  <2> QED  BY <1>0, <1>5, <1>7, <2>2 DEF HistoryTyped
<1>9. IdsDiffer'
  <2>1. \A v \in versions : v.id \in drawn
    BY <1>0 DEF HistoryTyped
  <2>2. \A v, w \in versions' : v.id = w.id => v = w
    BY <1>0, <1>1, <1>4, <2>1 DEF IdsDiffer
  <2> QED  BY <2>2 DEF IdsDiffer
<1>10. \A v \in versions' : \/ v \in versions
                            \/ /\ v.id \notin drawn
                               /\ file'[v.file].rev = file[v.file].rev + 1
  BY <1>1, <1>4, <1>6
<1>11. \A f \in Files : \/ file'[f] = file[f]
                        \/ file'[f].rev = file[f].rev + 1 /\ file'[f].at = clock
  BY <1>6
<1> QED  BY <1>0, <1>5, <1>8, <1>9, <1>10, <1>11, EditReached

LEMMA RestoreListed ==
  ASSUME HistoryInv, NEW f \in Files, RestoreFile(f)
  PROVE  HistoryInv'
<1> DEFINE Version == [id : drawn', file : Files, at : Nat, content : BOOLEAN]
           row == [deleted |-> FALSE, rev |-> file[f].rev + 1, at |-> clock]
<1>0. HistoryTyped /\ IdsDiffer /\ UNCHANGED <<clock, listing>> /\ clock \in Nat
  BY DEF HistoryInv, HistoryTyped, RestoreFile
<1>1. PICK id \in Unused :
        /\ versions' = versions \cup
             {[id |-> id, file |-> f, at |-> clock, content |-> FALSE]}
        /\ drawn' = drawn \cup {id}
  BY DEF RestoreFile
<1> DEFINE made == [id |-> id, file |-> f, at |-> clock, content |-> FALSE]
<1>2. id \in VersionIds /\ id \notin drawn /\ id \in drawn'
  BY <1>1 DEF Unused
<1>3. made.id = id /\ made.file = f
  OBVIOUS
<1>4. drawn \subseteq drawn' /\ drawn' \in SUBSET VersionIds
  BY <1>0, <1>1, <1>2 DEF HistoryTyped
<1>5. file' = [file EXCEPT ![f] = row]
  BY DEF RestoreFile
<1>6. file' \in [Files -> [deleted : BOOLEAN, rev : Nat, at : Nat]]
  <2>1. row \in [deleted : BOOLEAN, rev : Nat, at : Nat]
    BY <1>0 DEF HistoryTyped
  <2> HIDE DEF row
  <2> QED  BY <1>0, <1>5, <2>1 DEF HistoryTyped
<1>7. versions' \in SUBSET Version
  <2>1. versions \in SUBSET Version
    BY <1>0, <1>4 DEF HistoryTyped
  <2>2. made \in Version
    BY <1>0, <1>2
  <2> QED  BY <1>1, <2>1, <2>2
<1>8. HistoryTyped'
  BY <1>0, <1>4, <1>6, <1>7 DEF HistoryTyped
<1>9. file'[f].rev = file[f].rev + 1 /\ file'[f].at = clock
  BY <1>0, <1>5 DEF HistoryTyped
<1>10. \A g \in Files : g # f => file'[g] = file[g]
  BY <1>0, <1>5 DEF HistoryTyped
<1>11. \A v \in versions' : v \in versions \/ v = made
  BY <1>1
<1> HIDE DEF made
<1>12. IdsDiffer'
  <2>1. \A v \in versions : v.id \in drawn
    BY <1>0 DEF HistoryTyped
  <2>2. \A v, w \in versions' : v.id = w.id => v = w
    BY <1>0, <1>2, <1>3, <1>11, <2>1 DEF IdsDiffer
  <2> QED  BY <2>2 DEF IdsDiffer
<1>13. \A v \in versions' : \/ v \in versions
                            \/ /\ v.id \notin drawn
                               /\ file'[v.file].rev = file[v.file].rev + 1
  BY <1>2, <1>3, <1>9, <1>11
<1> QED
  BY <1>0, <1>4, <1>8, <1>9, <1>10, <1>12, <1>13, EditReached

\* A purge and the passing of time only take rows away.
LEMMA LessListed ==
  ASSUME HistoryInv, Later \/ \E f \in Files : PurgeFile(f)
  PROVE  HistoryInv'
<1>0. HistoryTyped /\ IdsDiffer /\ clock \in Nat
  BY DEF HistoryInv, HistoryTyped
<1>1. /\ UNCHANGED <<listing, file, drawn>> /\ versions' \subseteq versions
      /\ clock' \in Nat /\ clock <= clock'
  <2>1. CASE Later
    <3>1. clock' = clock + 1 /\ UNCHANGED <<listing, file, drawn>>
      BY <2>1 DEF Later
    <3>2. versions' \subseteq versions
      BY <2>1 DEF Later
    <3> QED  BY <1>0, <3>1, <3>2
  <2>2. ASSUME NEW f \in Files, PurgeFile(f)
        PROVE  /\ UNCHANGED <<listing, file, drawn, clock>>
               /\ versions' \subseteq versions
    BY <2>2 DEF PurgeFile
  <2> QED  BY <1>0, <2>1, <2>2
<1>2. HistoryTyped' /\ IdsDiffer'
  <2>1. HistoryTyped'
    BY <1>0, <1>1 DEF HistoryTyped
  <2>2. IdsDiffer'
    BY <1>0, <1>1 DEF IdsDiffer
  <2> QED  BY <2>1, <2>2
<1> QED  BY <1>1, <1>2, EditReached

LEMMA StartListed ==
  ASSUME HistoryInv, NEW what \in Files \cup {Bin}, StartListing(what)
  PROVE  HistoryInv'
<1>1. HistoryTyped /\ IdsDiffer /\ FilesInPast
  BY DEF HistoryInv
<1>2. /\ Received(what, None, {}, RowsOf(what))
      /\ UNCHANGED <<clock, file, versions, drawn>>
  BY DEF StartListing
<1>3. RowsOf(what) \in SUBSET Row
  BY <1>1, RowsAre
<1> QED  BY <1>1, <1>2, <1>3, PageReached

LEMMA NextPageListed ==
  ASSUME HistoryInv, NextPage
  PROVE  HistoryInv'
<1>1. HistoryTyped /\ IdsDiffer /\ FilesInPast /\ ListingInv
  BY DEF HistoryInv
<1>2. /\ listing.last # None
      /\ Received(listing.of, listing.last, listing.got, listing.began)
      /\ UNCHANGED <<clock, file, versions, drawn>>
  BY DEF NextPage
<1>3. /\ listing.of \in Files \cup {Bin, None} /\ listing.last \in Row
      /\ listing.got \in SUBSET Row /\ listing.began \in SUBSET Row
  BY <1>1, <1>2 DEF HistoryTyped
<1>4. listing.of \in Files \cup {Bin}
  BY <1>1, <1>2, <1>3 DEF ListingInv
<1>5. Reached(listing.of)
  BY <1>1, <1>4 DEF ListingInv
<1> QED  BY <1>1, <1>2, <1>3, <1>4, <1>5, PageReached

LEMMA InitListed == HistoryInit => HistoryInv
<1> SUFFICES ASSUME HistoryInit  PROVE HistoryInv
  OBVIOUS
<1>1. /\ clock = 0 /\ versions = {} /\ drawn = {}
      /\ file = [f \in Files |-> [deleted |-> FALSE, rev |-> 1, at |-> 0]]
      /\ listing = [of |-> None, last |-> None, got |-> {}, began |-> {}]
  BY DEF HistoryInit, NoListing
<1>2. HistoryTyped
  BY <1>1 DEF HistoryTyped
<1>3. IdsDiffer /\ FilesInPast
  BY <1>1 DEF IdsDiffer, FilesInPast
<1>4. ListingInv
  BY <1>1, FeedAssumptions, HistoryAssumptions DEF ListingInv, Bin
<1> QED  BY <1>2, <1>3, <1>4 DEF HistoryInv

LEMMA NextListed ==
  ASSUME HistoryInv, [FeedNext]_<<vars, historyVars>>
  PROVE  HistoryInv'
<1>1. ASSUME UNCHANGED historyVars  PROVE HistoryInv'
  <2>1. UNCHANGED <<clock, file, versions, drawn, listing>>
    BY <1>1 DEF historyVars
  <2>2. HistoryTyped' /\ IdsDiffer' /\ FilesInPast'
    BY <2>1 DEF HistoryInv, HistoryTyped, IdsDiffer, FilesInPast
  <2>3. ListingInv'
    BY <2>1 DEF HistoryInv, ListingInv, Reached, WasRow, RowsOf, DeletedRows,
       VersionRows, HasRestorableHistory, RetentionStart
  <2> QED  BY <2>2, <2>3 DEF HistoryInv
<1>2. ASSUME HistoryStep  PROVE HistoryInv'
  <2>1. ASSUME NEW F \in SUBSET Files, DeleteFiles(F)  PROVE HistoryInv'
    BY <2>1, DeleteListed
  <2>2. ASSUME NEW f \in Files, RestoreFile(f)  PROVE HistoryInv'
    BY <2>2, RestoreListed
  <2>3. ASSUME Later \/ \E f \in Files : PurgeFile(f)  PROVE HistoryInv'
    BY <2>3, LessListed
  <2>4. ASSUME NEW what \in Files \cup {Bin}, StartListing(what)
        PROVE  HistoryInv'
    BY <2>4, StartListed
  <2>5. ASSUME NextPage  PROVE HistoryInv'
    BY <2>5, NextPageListed
  <2> QED  BY <1>2, <2>1, <2>2, <2>3, <2>4, <2>5 DEF HistoryStep
<1> QED  BY <1>1, <1>2 DEF FeedNext

LEMMA ListedFollows == HistoryInv => HistoryListed
<1> SUFFICES ASSUME HistoryInv, listing.of # None
             PROVE  /\ listing.last = None =>
                         listing.began \cap RowsOf(listing.of)
                           \subseteq listing.got
                    /\ \A r, s \in listing.got : r.id = s.id => r = s
  BY DEF HistoryListed
<1>1. listing.of \in Files \cup {Bin}
  BY DEF HistoryInv, HistoryTyped
<1>2. Reached(listing.of)
  BY <1>1 DEF HistoryInv, ListingInv
<1> QED  BY <1>2 DEF Reached

\* Whatever is deleted, restored, purged or expires between its pages, and
\* however many rows have one time: a listing of the deleted entries or of the
\* versions of one that has come to its end has every row that was there when
\* it began and still is, and no id twice (listDeletedEntries,
\* listEntryVersions).
THEOREM PagesListAll == FeedSpec => []HistoryListed
<1>1. FeedInit => HistoryInv
  BY InitListed DEF FeedInit
<1>2. HistoryInv /\ [FeedNext]_<<vars, historyVars>> => HistoryInv'
  BY NextListed
<1> QED  BY <1>1, <1>2, ListedFollows, PTL DEF FeedSpec


\* The requests of the history tell no client anything else.
LEMMA HistoryQuiet ==
  ASSUME TypeOK, Listings, AllTold, PresenceInv, HistoryStep
  PROVE  (TypeOK /\ Listings /\ AllTold /\ PresenceInv)'
<1>1. UNCHANGED <<runtime, feedVars, statusVars, socket, presenceVars, handler,
                  sent, device>>
  BY DEF HistoryStep
<1>2. TypeOK'
  <2>1. UNCHANGED <<handler, cursor>> /\ UNCHANGED <<sent, cursor>>
          /\ UNCHANGED <<device, cursor>>
    BY <1>1 DEF feedVars
  <2> QED  BY <1>1, <2>1, TypeParts, NextTypeParts, StillTyped
<1>3. Listings'
  BY <1>1 DEF feedVars, Listings, Listed, HasListed
<1>4. AllTold'
  BY <1>1, QuietTold DEF SameNews
<1>5. PresenceInv'
  BY <1>1, QuietShown
<1> QED  BY <1>2, <1>3, <1>4, <1>5

\* What holds of the feed on its own holds of the feed and the history of one
\* vault, whose requests come over the same sockets.
THEOREM FeedHolds ==
  FeedSpec => [](TypeOK /\ ListingComplete /\ NothingUntold /\ PresenceShown)
<1> DEFINE Inv == TypeOK /\ Listings /\ AllTold /\ PresenceInv
<1>1. FeedInit => Inv
  BY InitTyped, InitListings, InitTold, InitShown DEF FeedInit
<1>2. Inv /\ [FeedNext]_<<vars, historyVars>> => Inv'
  <2> SUFFICES ASSUME Inv, [FeedNext]_<<vars, historyVars>>  PROVE Inv'
    OBVIOUS
  <2>1. CASE [Next]_vars
    BY <2>1, NextTyped, NextListings, NextTold, NextShown
  <2>2. CASE HistoryStep
    BY <2>2, HistoryQuiet
  <2> QED  BY <2>1, <2>2 DEF FeedNext
<1>3. Inv => TypeOK /\ ListingComplete /\ NothingUntold /\ PresenceShown
  BY ShownFollows DEF Listings, Listed, ListingComplete, AllTold
<1> QED  BY <1>1, <1>2, <1>3, PTL DEF FeedSpec
=============================================================================
