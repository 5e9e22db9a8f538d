----------------------------- MODULE MarketData -----------------------------
(***************************************************************************)
(* The public market data: the MarketDataHub with its books, replay        *)
(* history and subscribers, the Socket.IO gateway in front of it with its  *)
(* registry, credential timers and connection slots in Redis, and clients  *)
(* that keep a local book the way docs/market-data.md asks them to.        *)
(*                                                                         *)
(* There is one instrument and one network address.  A socket carries its  *)
(* messages in order, so one reaches the client with the emit; buffer      *)
(* counts the data messages the transport has not written.  A subscriber is held when  *)
(* the registry keeps its unsubscribe function.  Handlers interleave at    *)
(* every await; everything between two awaits is one step.                 *)
(***************************************************************************)
EXTENDS Naturals, Sequences, FiniteSets, SequencesExt

CONSTANTS
  Clients,          \* sockets, each used for one connection
  Keyed,            \* those that present the API key
  Channels,         \* subscription keys: book, trades, user
  MaxHistory,       \* increments kept for replay
  MaxWriteBuffer,   \* WEBSOCKET_MAX_PENDING
  MaxConnections,   \* WEBSOCKET_MAX_CONNECTIONS_PER_IP
  MaxSubscribers,   \* WEBSOCKET_MAX_SUBSCRIBERS
  MaxSequence,      \* bound: sequence of the book
  MaxRequests       \* bound: messages of all clients

ASSUME MarketDataAssumption ==
  /\ Keyed \subseteq Clients /\ Channels \subseteq {"book", "trades", "user"}
  /\ {MaxHistory, MaxWriteBuffer, MaxConnections, MaxSubscribers, MaxSequence, MaxRequests} \subseteq Nat \ {0}

VARIABLES
  book,         \* the sequence of the hub's book, 0 when there is none
  replayable,   \* the increments kept, oldest first
  subscribers,  \* subscribers[k]: of channel k, in the order they came
  connection,   \* connection[s]: where handleConnection is
  alive,        \* sockets whose transport is up
  registry,     \* registry[s]: the keys s holds; opened[s]: it has a registry
  opened,
  timers,       \* sockets with a credential timer
  slots,        \* the connection count of the address in Redis
  holders,      \* sockets whose slot will be released
  active,       \* the API key is active
  buffer,       \* buffer[s]: length of the write buffer
  requests,     \* requests[s]: handlers under way, by arrival
  received,     \* messages sent so far, for the bound
  replica,      \* replica[s]: the client's book; fresh: it may be shown
  thrown        \* history: a publication has failed in its producer

hubVars == <<book, replayable, subscribers>>
socketVars == <<connection, alive, registry, opened, timers, slots, holders, buffer>>
clientVars == <<requests, received, replica>>
marketVars == <<hubVars, socketVars, clientVars, active, thrown>>

NoBook == [seq |-> 0, fresh |-> FALSE]

MarketInit ==
  /\ book = 0 /\ replayable = <<>>
  /\ subscribers = [k \in Channels |-> <<>>]
  /\ connection = [s \in Clients |-> "none"] /\ alive = {}
  /\ registry = [s \in Clients |-> {}] /\ opened = {} /\ timers = {}
  /\ slots = 0 /\ holders = {} /\ active = TRUE
  /\ buffer = [s \in Clients |-> 0]
  /\ requests = [s \in Clients |-> <<>>] /\ received = 0
  /\ replica = [s \in Clients |-> NoBook] /\ thrown = FALSE

----------------------------------------------------------------------------
(* Disconnecting                                                           *)

Held(s) == [client |-> s, held |-> TRUE]
Stray(s) == [client |-> s, held |-> FALSE]

\* release: the slot of a socket that remembers one goes back.
Returned(s) == IF s \in holders /\ slots > 0 THEN slots - 1 ELSE slots

\* handleDisconnect: the timer, the subscriptions, the registry and the slot
\* go, whatever handler of the socket is under way.
handleDisconnect(s) ==
  /\ alive' = alive \ {s} /\ timers' = timers \ {s} /\ opened' = opened \ {s}
  /\ registry' = [registry EXCEPT ![s] = {}]
  /\ slots' = Returned(s) /\ holders' = holders \ {s}
  /\ subscribers' = [k \in Channels |-> SelectSeq(subscribers[k], LAMBDA x : x # Held(s))]

Stays == UNCHANGED <<alive, timers, opened, registry, slots, holders, subscribers>>

\* client.disconnect(true): of a socket that has left it does nothing.
Disconnect(s) == IF s \in alive THEN handleDisconnect(s) ELSE Stays

----------------------------------------------------------------------------
(* The client's book                                                       *)

Snapshot == [channel |-> "book", seq |-> book]

\* A snapshot replaces it, an increment continues it, another number than
\* the next is a gap and the book is no longer shown.
Received(r, m) ==
  CASE m.channel = "book" -> [seq |-> m.seq, fresh |-> TRUE]
    [] m.channel = "book_update" /\ m.seq = r.seq + 1 -> [seq |-> m.seq, fresh |-> TRUE]
    [] m.channel = "book_update" /\ m.seq > r.seq + 1 -> [r EXCEPT !.fresh = FALSE]
    [] OTHER -> r

----------------------------------------------------------------------------
(* Publishing                                                              *)

\* A plausible bug: the write buffer is not looked at.
NeverFull(s) == FALSE

\* emitMarketData looks at the write buffer before it adds to it.
Full(s) == s \in alive /\ buffer[s] >= MaxWriteBuffer

\* broadcast to the subscribers of a channel, in order.  The first whose
\* write buffer is full is disconnected, and the exception leaves the loop:
\* the ones after it get nothing and the producer fails.
Broadcast(k, m) ==
  LET list == subscribers[k]
      slow == {n \in DOMAIN list : list[n].held /\ Full(list[n].client)}
      end == IF slow = {} THEN Len(list) ELSE Min(slow) - 1
      got == {list[n].client : n \in {j \in 1..end : list[j].held}} \cap alive IN
    /\ replica' = [s \in Clients |-> IF s \in got THEN Received(replica[s], m) ELSE replica[s]]
    /\ buffer' = [s \in Clients |-> IF s \in got THEN buffer[s] + 1 ELSE buffer[s]]
    /\ IF slow = {} THEN Stays /\ UNCHANGED thrown
       ELSE Disconnect(list[Min(slow)].client) /\ thrown' = TRUE
    /\ UNCHANGED <<connection, requests, received, active>>

\* publishSnapshot, what the runtime calls after every command: it replaces
\* the book, drops the history and tells nobody.
publishSnapshot(n) ==
  /\ n >= book /\ book' = n
  /\ replayable' = <<>>
  /\ UNCHANGED <<subscribers, socketVars, clientVars, active, thrown>>

\* The history with one more increment, bounded.
History(m) == IF Len(replayable) = MaxHistory THEN Append(Tail(replayable), m) ELSE Append(replayable, m)

\* publishIncrement: the next number of a book that exists.
publishIncrement ==
  /\ book > 0 /\ book < MaxSequence
  /\ LET m == [channel |-> "book_update", seq |-> book + 1] IN
       /\ book' = m.seq
       /\ replayable' = History(m)
       /\ Broadcast("book", m)

\* publishTick and publishPrivate, by the channel they are for.
publish(k) ==
  /\ k \in Channels \ {"book"} /\ Broadcast(k, [channel |-> k])
  /\ UNCHANGED <<book, replayable>>

\* The transport writes what waits.
Drain(s) ==
  /\ buffer[s] > 0 /\ buffer' = [buffer EXCEPT ![s] = 0]
  /\ UNCHANGED <<hubVars, connection, alive, registry, opened, timers, slots, holders, clientVars, active, thrown>>

----------------------------------------------------------------------------
(* Connecting                                                              *)

At(s, a) == connection' = [connection EXCEPT ![s] = a]

\* A client connects; one that was connected before remembers its book.
connect(s) ==
  /\ connection[s] = "none" /\ At(s, "address") /\ alive' = alive \cup {s}
  /\ \E r \in {NoBook} \cup {[replica[t] EXCEPT !.fresh = FALSE] : t \in Clients \ alive} :
       replica' = [replica EXCEPT ![s] = r]
  /\ UNCHANGED <<hubVars, registry, opened, timers, slots, holders, buffer, requests, received, active, thrown>>

\* Redis evaluates the script of admitBucket ...
admitIp(s) ==
  /\ connection[s] = "address"
  /\ IF slots < MaxConnections THEN At(s, "admitted") /\ slots' = slots + 1 ELSE At(s, "refused") /\ UNCHANGED slots
  /\ UNCHANGED <<hubVars, alive, registry, opened, timers, holders, buffer, clientVars, active, thrown>>

\* ... and its answer arrives: rememberBucket, even for a socket that has
\* left.  After a refusal, or an answer past the deadline, it is disconnected.
AddressAnswered(s) ==
  /\ \/ /\ connection[s] = "admitted" /\ At(s, "authenticates")
        /\ holders' = holders \cup {s}
        /\ UNCHANGED <<alive, timers, opened, registry, slots, subscribers>>
     \/ connection[s] \in {"admitted", "refused"} /\ At(s, "ended") /\ Disconnect(s)
  /\ UNCHANGED <<book, replayable, buffer, clientVars, active, thrown>>

\* A plausible bug: the timer is kept for anonymous sockets only.
NoTimer(s) == IF s \in Keyed THEN timers ELSE timers \cup {s}

Timed(s) == timers \cup {s}

Authenticated(s) == s \in Keyed => active

\* authenticate and admitPrincipal returned: the registry opens and the
\* timer starts, also for a socket that has left meanwhile.  An unknown
\* origin, a key that is not active or a full principal bucket disconnects;
\* release returns the slot.
handleConnection(s) ==
  /\ connection[s] = "authenticates"
  /\ \/ /\ Authenticated(s)
        /\ At(s, "open") /\ opened' = opened \cup {s} /\ timers' = Timed(s)
        /\ UNCHANGED <<alive, registry, slots, holders, subscribers>>
     \/ /\ At(s, "ended")
        /\ IF s \in alive THEN handleDisconnect(s)
           ELSE /\ slots' = Returned(s)
                /\ holders' = holders \ {s}
                /\ UNCHANGED <<alive, timers, opened, registry, subscribers>>
  /\ UNCHANGED <<book, replayable, buffer, clientVars, active, thrown>>

\* The client leaves.
Leave(s) ==
  /\ s \in alive /\ handleDisconnect(s)
  /\ UNCHANGED <<book, replayable, connection, buffer, clientVars, active, thrown>>

\* The key is revoked, rotated or expires.
Revoke ==
  /\ active /\ active' = FALSE
  /\ UNCHANGED <<hubVars, socketVars, clientVars, thrown>>

\* revalidateConnection: a key that is no longer active, or a failure of
\* Redis or of the registry, disconnects.  The timer of a socket that had
\* left before it was set stays.
revalidateConnection(s) ==
  /\ s \in timers /\ connection[s] = "open"
  /\ s \in Keyed /\ ~active /\ Disconnect(s)
  /\ UNCHANGED <<book, replayable, connection, buffer, clientVars, active, thrown>>

\* A plausible bug, and what the gateway of the live quotes does with this
\* policy: no timer renews the count.
NeverRenewed == FALSE

\* renew, by the timers of the sockets that remember their bucket.
Renewed == timers \cap holders # {}

\* The count expires when no timer has renewed it for two windows, many times
\* what a handshake may take.
SlotsExpire ==
  /\ slots > 0 /\ ~Renewed /\ slots' = 0
  /\ \A s \in Clients : connection[s] \notin {"admitted", "authenticates"}
  /\ UNCHANGED <<hubVars, connection, alive, registry, opened, timers, holders, buffer, clientVars, active, thrown>>

----------------------------------------------------------------------------
(* Messages                                                                *)

Ended(s, n) == requests' = [requests EXCEPT ![s] = RemoveAt(@, n)]

Send(s, kind, k) ==
  /\ s \in alive /\ received < MaxRequests
  /\ (kind = "resync" => k = "book" /\ ~replica[s].fresh)
  /\ received' = received + 1
  /\ requests' = [requests EXCEPT ![s] = Append(@, [kind |-> kind, key |-> k, last |-> replica[s].seq, at |-> "admit"])]
  /\ UNCHANGED <<hubVars, socketVars, replica, active, thrown>>

\* admitMessage answers the messages of a socket in the order of arrival.
Next1(s, n, kind) ==
  /\ n \in DOMAIN requests[s] /\ requests[s][n].kind = kind /\ requests[s][n].at = "admit"
  /\ \A j \in 1..(n - 1) : requests[s][j].at # "admit"

\* It refuses one over the window's limit, or when Redis does not answer.
MessageRefused(s, n) ==
  /\ n \in DOMAIN requests[s] /\ requests[s][n].at = "admit"
  /\ Disconnect(s) /\ Ended(s, n)
  /\ UNCHANGED <<book, replayable, connection, buffer, received, replica, active, thrown>>

\* A private subscription of a socket with a principal asks first whether
\* the key is still active.
subscribe(s, n) ==
  /\ Next1(s, n, "subscribe") /\ requests[s][n].key = "user" /\ s \in Keyed /\ connection[s] = "open"
  /\ requests' = [requests EXCEPT ![s][n].at = "active"]
  /\ UNCHANGED <<hubVars, socketVars, received, replica, active, thrown>>

Inactive(s, n) ==
  /\ n \in DOMAIN requests[s] /\ requests[s][n].at = "active" /\ ~active
  /\ Disconnect(s) /\ Ended(s, n)
  /\ UNCHANGED <<book, replayable, connection, buffer, received, replica, active, thrown>>

\* A plausible bug: the callback that is replaced stays in the hub.
KeptCallback(s, k) == Append(subscribers[k], Held(s))

\* replace: the new callback is in the hub before the old one leaves it.
Replaced(s, k) ==
  Append(IF k \in registry[s] THEN SelectSeq(subscribers[k], LAMBDA x : x # Held(s)) ELSE subscribers[k], Held(s))

Count == LET Sum(n, k) == n + Len(subscribers[k]) IN FoldLeft(Sum, 0, SetToSeq(Channels))

\* subscribeValidated from there on, in one turn.  A socket without registry
\* gets no answer; no principal, or a full hub, an error.  A book that does
\* not exist is missed only after the callback was added: the callback stays,
\* and nothing will ever remove it.
subscribeValidated(s, n) ==
  /\ n \in DOMAIN requests[s] /\ Ended(s, n)
  /\ LET k == requests[s][n].key
         missing == k = "book" /\ book = 0 IN
       /\ \/ requests[s][n].at = "active" /\ active
          \/ Next1(s, n, "subscribe") /\ ~(k = "user" /\ s \in Keyed /\ connection[s] = "open")
       /\ IF s \notin opened \/ Count >= MaxSubscribers \/ (k = "user" /\ s \notin Keyed)
            THEN Stays /\ UNCHANGED <<replica, buffer>>
          ELSE IF missing
            THEN /\ subscribers' = [subscribers EXCEPT ![k] = Append(@, Stray(s))]
                 /\ UNCHANGED <<alive, timers, opened, registry, slots, holders, replica, buffer>>
          ELSE IF k = "book" /\ Full(s)
            THEN Disconnect(s) /\ UNCHANGED <<replica, buffer>>
          ELSE /\ subscribers' = [subscribers EXCEPT ![k] = Replaced(s, k)]
               /\ registry' = [registry EXCEPT ![s] = @ \cup {k}]
               /\ LET sent == k = "book" /\ s \in alive IN
                    /\ replica' = IF sent THEN [replica EXCEPT ![s] = Received(@, Snapshot)] ELSE replica
                    /\ buffer' = IF sent THEN [buffer EXCEPT ![s] = @ + 1] ELSE buffer
               /\ UNCHANGED <<alive, timers, opened, slots, holders>>
  /\ UNCHANGED <<book, replayable, connection, received, active, thrown>>

unsubscribe(s, n) ==
  /\ Next1(s, n, "unsubscribe") /\ Ended(s, n)
  /\ LET k == requests[s][n].key IN
       /\ registry' = [registry EXCEPT ![s] = @ \ {k}]
       /\ subscribers' = [subscribers EXCEPT ![k] =
            IF k \in registry[s] THEN SelectSeq(@, LAMBDA x : x # Held(s)) ELSE @]
  /\ UNCHANGED <<book, replayable, connection, alive, opened, timers, slots, holders, buffer,
                 received, replica, active, thrown>>

\* A plausible bug: what is left of the history is the answer.
WhatIsLeft(last) == SelectSeq(replayable, LAMBDA m : m.seq > last)

\* The hub's resync: the increments after last when all of them are kept,
\* otherwise a snapshot.
Resynced(last) ==
  LET replay == SelectSeq(replayable, LAMBDA m : m.seq > last) IN
    IF last <= book /\ Len(replay) = book - last THEN replay ELSE <<Snapshot>>

\* resync: for a book that does not exist an error.  The messages go out one
\* by one; when the buffer is full before one of them the client is
\* disconnected.
resync(s, n) ==
  /\ Next1(s, n, "resync") /\ Ended(s, n)
  /\ LET answer == IF book = 0 THEN <<>> ELSE Resynced(requests[s][n].last)
         room == MaxWriteBuffer - buffer[s]
         sent == SubSeq(answer, 1, IF Len(answer) <= room THEN Len(answer) ELSE room) IN
       IF s \in alive
         THEN /\ replica' = [replica EXCEPT ![s] = FoldLeft(Received, @, sent)]
              /\ buffer' = [buffer EXCEPT ![s] = @ + Len(sent)]
              /\ IF Len(answer) > room THEN Disconnect(s) ELSE Stays
         ELSE Stays /\ UNCHANGED <<replica, buffer>>
  /\ UNCHANGED <<book, replayable, connection, received, active, thrown>>

MarketNext ==
  \/ publishIncrement \/ \E n \in 1..MaxSequence : publishSnapshot(n)
  \/ \E k \in Channels : publish(k)
  \/ Revoke \/ SlotsExpire
  \/ \E s \in Clients :
       \/ Drain(s) \/ connect(s) \/ admitIp(s) \/ AddressAnswered(s) \/ handleConnection(s)
       \/ Leave(s) \/ revalidateConnection(s)
       \/ \E kind \in {"subscribe", "unsubscribe", "resync"}, k \in Channels : Send(s, kind, k)
       \/ \E n \in DOMAIN requests[s] :
            \/ MessageRefused(s, n) \/ subscribe(s, n) \/ Inactive(s, n) \/ subscribeValidated(s, n)
            \/ unsubscribe(s, n) \/ resync(s, n)

MarketSpec == MarketInit /\ [][MarketNext]_marketVars

\* The credential timers are intervals.
MarketFairness == \A s \in Clients : WF_marketVars(revalidateConnection(s))

----------------------------------------------------------------------------
(* Properties                                                              *)

\* Every variable holds values of its type.
MarketTypeOK ==
  /\ book \in 0..MaxSequence /\ Len(replayable) <= MaxHistory
  /\ \A k \in Channels : \A n \in DOMAIN subscribers[k] : subscribers[k][n].client \in Clients
  /\ connection \in [Clients -> {"none", "address", "admitted", "refused", "authenticates", "open", "ended"}]
  /\ UNION {alive, opened, timers, holders} \subseteq Clients
  /\ registry \in [Clients -> SUBSET Channels] /\ slots \in 0..MaxConnections
  /\ buffer \in [Clients -> 0..MaxWriteBuffer] /\ {active, thrown} \subseteq BOOLEAN
  /\ received \in 0..MaxRequests
  /\ \A s \in Clients : \A n \in DOMAIN requests[s] : requests[s][n].key \in Channels
  /\ \A s \in Clients : replica[s].seq \in 0..MaxSequence /\ replica[s].fresh \in BOOLEAN

\* The registry and the hub agree: one callback of a socket for each key it
\* holds and none for another, however subscribe, unsubscribe and disconnect
\* interleave with the awaits of the gateway.
OneCallbackEach ==
  \A s \in Clients, k \in Channels :
    Cardinality({n \in DOMAIN subscribers[k] : subscribers[k][n] = Held(s)}) = IF k \in registry[s] THEN 1 ELSE 0

\* No more sockets of one address are served than allowed, though answers of
\* Redis come late or never and sockets leave during the handshake.
ConnectionsLimited == Cardinality({s \in alive : connection[s] = "open"}) <= MaxConnections

\* The answer to a resync closes the gap: a client that is behind and still
\* connected has the current book after it.
ResyncClosesGap ==
  [][\A s \in Clients : \A n \in DOMAIN requests[s] :
       resync(s, n) /\ s \in alive' /\ book > requests[s][n].last =>
         replica'[s].fresh /\ replica'[s].seq = book]_marketVars

\* A socket whose key has been revoked is disconnected in the end.
RevokedLeaves ==
  \A s \in Keyed : (~active /\ connection[s] = "open" /\ s \in alive) ~> s \notin alive

\* docs/market-data.md: a disconnect removes the subscriptions of the socket.
\* The callback of a book that did not exist stays.
DisconnectDropsSubscriptions ==
  \A k \in Channels : \A n \in DOMAIN subscribers[k] :
    connection[subscribers[k][n].client] = "open" => subscribers[k][n].client \in alive

\* A publication does not fail in its producer, which is the command whose
\* transaction is open.  One slow client is enough.
NoPublicationFails == ~thrown

\* A client that listens to the book shows the current one.  What the runtime
\* publishes is never broadcast.
BookFollowed ==
  \A s \in alive : "book" \in registry[s] /\ replica[s].fresh => replica[s].seq = book

\* A socket that has left holds no slot.
SlotsReturned == \A s \in Clients \ alive : connection[s] \in {"open", "ended"} => s \notin holders
=============================================================================
