---------------------------- MODULE QuoteIngest ----------------------------
(***************************************************************************)
(* How Twelve Data quotes of one instrument reach Redis.  Every replica    *)
(* runs a PriceStreamSupervisor: it competes for the ingest lease, the     *)
(* holder opens the upstream socket, reconnects after a failure and writes *)
(* every tick through the PUT_LATEST script, which compares the lease      *)
(* token, orders by provider timestamp, numbers and stores the quote.      *)
(*                                                                         *)
(* Every await is a point where the others run: the catalog query of       *)
(* open(), the phases of a socket, a write on its way to Redis.  Only the  *)
(* answer to a lease command is taken together with the command.           *)
(***************************************************************************)
EXTENDS Naturals, FiniteSets

CONSTANTS
  Processes,    \* the replicas that run a supervisor
  Free,         \* the lease key does not exist
  Dead,         \* the lease key holds the token of a process that crashed
  Absent,       \* the quote key does not exist
  Prices,       \* the prices the provider sends
  MaxTs,        \* bound: provider timestamps are 1..MaxTs
  MaxSeq,       \* bound: quotes stored
  MaxSockets,   \* bound: sockets one process keeps at a time
  MaxOpened,    \* bound: sockets opened altogether
  MaxOpens,     \* bound: calls of open() of one process under way
  MaxInFlight   \* bound: writes on their way to Redis at a time

ASSUME IngestAssumption ==
  /\ Free \notin Processes /\ Dead \notin Processes /\ Free # Dead
  /\ {MaxTs, MaxSeq, MaxSockets, MaxOpened, MaxOpens, MaxInFlight} \subseteq Nat \ {0}

VARIABLES
  holder,       \* realtime:ingest-leader:v1: whose token the key holds
  quote,        \* realtime:quote:v1: the latest quote
  counter,      \* realtime:quote-seq:v1, which never expires
  leader,       \* leader[p]: the flag of the supervisor
  opens,        \* opens[p]: calls of open() that await the catalog
  timer,        \* timer[p]: the reconnect timer is set
  socket,       \* socket[p][i]: the phase of the i-th socket of p
  client,       \* client[p]: the socket this.client refers to, 0 for none
  puts,         \* the writes on their way to Redis, in no particular order
  stopped,      \* stopped[p]: onApplicationShutdown has run
  opened        \* sockets opened so far, for the bound

local == <<leader, opens, timer, socket, client, stopped, opened>>
ingestVars == <<holder, quote, counter, puts, local>>

Slots == 1..MaxSockets
Writes == [by : Processes, ts : 1..MaxTs, price : Prices]
Quotes == [ts : 1..MaxTs, price : Prices, seq : 1..MaxSeq]
LivePhases == {"connecting", "subscribing", "streaming"}

IngestInit ==
  /\ holder = Free /\ quote = Absent /\ counter = 0 /\ opened = 0
  /\ leader = [p \in Processes |-> FALSE]
  /\ opens = [p \in Processes |-> 0] /\ timer = [p \in Processes |-> FALSE]
  /\ socket = [p \in Processes |-> [i \in Slots |-> "none"]]
  /\ client = [p \in Processes |-> 0] /\ puts = {}
  /\ stopped = [p \in Processes |-> FALSE]

----------------------------------------------------------------------------
(* Helpers                                                                 *)

\* A plausible bug: a client that is still referred to is trusted to live.
WithoutClient(p) == timer[p] \/ (leader[p] /\ ~stopped[p] /\ client[p] = 0)

\* scheduleReconnect: only a leader that has no timer yet sets one.
Scheduled(p) == timer[p] \/ (leader[p] /\ ~stopped[p])

scheduleReconnect(p) == timer' = [timer EXCEPT ![p] = Scheduled(p)]

\* client.close(): the socket this.client refers to starts to close; a socket
\* that a later open() has replaced is not reached.
ClientClosed(p) ==
  /\ socket' = [socket EXCEPT ![p] =
       [i \in Slots |-> IF i = client[p] /\ @[i] \in LivePhases THEN "closing" ELSE @[i]]]
  /\ client' = [client EXCEPT ![p] = 0]

\* A valid draft of p leaves for Redis; an invalid price or a timestamp of the
\* future has been refused before.
Sent(p, w) == /\ w.by = p /\ Cardinality(puts) < MaxInFlight
              /\ puts' = puts \cup {w}

Phase(p, i, phase) == socket' = [socket EXCEPT ![p][i] = phase]

----------------------------------------------------------------------------
(* The lease                                                               *)

\* maintainLease of a follower: SET NX PX; a winner awaits open().  An answer
\* that is lost counts as a refusal, whatever Redis did.
Acquire(p) ==
  /\ ~leader[p] /\ ~stopped[p] /\ opens[p] < MaxOpens
  /\ holder' = IF holder = Free THEN p ELSE holder
  /\ \E answered \in BOOLEAN :
       LET won == answered /\ holder = Free IN
       /\ leader' = [leader EXCEPT ![p] = won]
       /\ opens' = [opens EXCEPT ![p] = IF won THEN @ + 1 ELSE @]
  /\ UNCHANGED <<quote, counter, timer, socket, client, puts, stopped, opened>>

\* maintainLease of a leader whose RENEW finds another token or gets no
\* answer: it closes its current client.  A reconnect timer and an open()
\* under way are left alone.  (A RENEW that succeeds changes nothing here.)
RenewFails(p) ==
  /\ leader[p] /\ ~stopped[p]
  /\ leader' = [leader EXCEPT ![p] = FALSE] /\ ClientClosed(p)
  /\ UNCHANGED <<holder, quote, counter, opens, timer, puts, stopped, opened>>

\* The lease key reaches its TTL.
LeaseExpires ==
  /\ holder # Free /\ holder' = Free
  /\ UNCHANGED <<quote, counter, puts, local>>

----------------------------------------------------------------------------
(* The upstream socket                                                     *)

\* open() after findStreamable: nothing to stream, or too much.
OpenIdle(p) ==
  /\ opens[p] > 0 /\ opens' = [opens EXCEPT ![p] = @ - 1]
  /\ scheduleReconnect(p)
  /\ UNCHANGED <<holder, quote, counter, leader, socket, client, puts, stopped, opened>>

\* open() after findStreamable: a new client replaces this.client, whatever
\* that one is doing, and leadership is not looked at again.
OpenSocket(p) ==
  /\ opens[p] > 0 /\ opens' = [opens EXCEPT ![p] = @ - 1]
  /\ opened < MaxOpened /\ opened' = opened + 1
  /\ \E i \in Slots :
       /\ socket[p][i] = "none" /\ \A j \in 1..(i - 1) : socket[p][j] # "none"
       /\ Phase(p, i, "connecting")
       /\ client' = [client EXCEPT ![p] = i]
  /\ UNCHANGED <<holder, quote, counter, leader, timer, puts, stopped>>

\* The reconnect timer fires: it calls open() without looking at leader.
TimerFires(p) ==
  /\ timer[p] /\ timer' = [timer EXCEPT ![p] = FALSE]
  /\ opens[p] < MaxOpens
  /\ opens' = [opens EXCEPT ![p] = @ + 1]
  /\ UNCHANGED <<holder, quote, counter, leader, socket, client, puts, stopped, opened>>

\* The handshake succeeds: the client sends its subscription.
SocketOpens(p, i) ==
  /\ socket[p][i] = "connecting" /\ Phase(p, i, "subscribing")
  /\ UNCHANGED <<holder, quote, counter, leader, opens, timer, client, puts, stopped, opened>>

\* The provider accepts every symbol: connect() resolves and bootstrapQuotes
\* asks for a REST quote, which is written when it arrives, as old as the
\* provider has it, or dropped when the request fails.
SubscriptionAccepted(p, i) ==
  /\ socket[p][i] = "subscribing" /\ Phase(p, i, "streaming")
  /\ \/ UNCHANGED puts
     \/ \E w \in Writes : Sent(p, w)
  /\ UNCHANGED <<holder, quote, counter, leader, opens, timer, client, stopped, opened>>

\* A refused or unanswered subscription: connect() rejects, which schedules a
\* reconnect at once, and the socket only starts to close.
SubscriptionFails(p, i) ==
  /\ socket[p][i] = "subscribing" /\ Phase(p, i, "closing")
  /\ scheduleReconnect(p)
  /\ UNCHANGED <<holder, quote, counter, leader, opens, client, puts, stopped, opened>>

\* The close event of a socket, after a close(), an error or a drop by the
\* provider: onClosed schedules a reconnect whichever client it is.
SocketCloses(p, i) ==
  /\ socket[p][i] # "none" /\ Phase(p, i, "none")
  /\ client' = [client EXCEPT ![p] = IF @ = i THEN 0 ELSE @]
  /\ scheduleReconnect(p)
  /\ UNCHANGED <<holder, quote, counter, leader, opens, puts, stopped, opened>>

\* A price message: it is taken in every phase in which the socket delivers.
accept(p, i, w) ==
  /\ socket[p][i] \in {"subscribing", "streaming", "closing"}
  /\ Sent(p, w)
  /\ UNCHANGED <<holder, quote, counter, local>>

----------------------------------------------------------------------------
(* PUT_LATEST                                                              *)

\* A plausible bug: the script trusts the flag its caller had.
Unfenced(w) == TRUE

Fenced(w) == holder = w.by

\* The incoming draft is older than the stored quote or repeats it.
Outdated(w) ==
  /\ quote # Absent
  /\ quote.ts > w.ts \/ (quote.ts = w.ts /\ quote.price = w.price)

\* A write reaches Redis: one script checks the lease, the order, increments
\* the sequence and stores the quote.
putLatest(w) ==
  /\ w \in puts /\ puts' = puts \ {w} /\ counter < MaxSeq
  /\ IF Fenced(w) /\ ~Outdated(w)
       THEN /\ counter' = counter + 1
            /\ quote' = [ts |-> w.ts, price |-> w.price, seq |-> counter']
       ELSE UNCHANGED <<quote, counter>>
  /\ UNCHANGED <<holder, local>>

\* The quote key reaches its TTL; its sequence key has none.
QuoteExpires ==
  /\ quote # Absent /\ quote' = Absent
  /\ UNCHANGED <<holder, counter, puts, local>>

----------------------------------------------------------------------------
(* The process                                                             *)

\* onApplicationShutdown: the timers are cleared, the current client closed,
\* the lease released if it is still ours; the pending writes are flushed.
onApplicationShutdown(p) ==
  /\ ~stopped[p] /\ stopped' = [stopped EXCEPT ![p] = TRUE]
  /\ timer' = [timer EXCEPT ![p] = FALSE]
  /\ ClientClosed(p)
  /\ holder' = IF holder = p THEN Free ELSE holder
  /\ UNCHANGED <<quote, counter, leader, opens, puts, opened>>

\* The process ends, after a shutdown or by a crash (a rejected open() is an
\* unhandled rejection, which ends a Node process too), and starts again with
\* a new token: the key it may leave behind is nobody's until it expires.
Restart(p) ==
  /\ opened < MaxOpened
  /\ holder' = IF holder = p THEN Dead ELSE holder
  /\ leader' = [leader EXCEPT ![p] = FALSE]
  /\ opens' = [opens EXCEPT ![p] = 0] /\ timer' = [timer EXCEPT ![p] = FALSE]
  /\ socket' = [socket EXCEPT ![p] = [i \in Slots |-> "none"]]
  /\ client' = [client EXCEPT ![p] = 0] /\ puts' = {w \in puts : w.by # p}
  /\ stopped' = [stopped EXCEPT ![p] = FALSE]
  /\ UNCHANGED <<quote, counter, opened>>

IngestNext ==
  \/ LeaseExpires \/ QuoteExpires \/ \E w \in puts : putLatest(w)
  \/ \E p \in Processes :
       \/ Acquire(p) \/ RenewFails(p)
       \/ OpenIdle(p) \/ OpenSocket(p) \/ TimerFires(p)
       \/ onApplicationShutdown(p) \/ Restart(p)
       \/ \E i \in Slots :
            \/ SocketOpens(p, i) \/ SubscriptionAccepted(p, i) \/ SubscriptionFails(p, i)
            \/ SocketCloses(p, i) \/ \E w \in Writes : accept(p, i, w)

IngestSpec == IngestInit /\ [][IngestNext]_ingestVars

----------------------------------------------------------------------------
(* Properties                                                              *)

\* Every variable holds values of its type; this.client refers to a socket
\* that exists.
IngestTypeOK ==
  /\ holder \in Processes \cup {Free, Dead}
  /\ quote \in Quotes \cup {Absent} /\ counter \in 0..MaxSeq
  /\ leader \in [Processes -> BOOLEAN] /\ timer \in [Processes -> BOOLEAN]
  /\ opens \in [Processes -> 0..MaxOpens]
  /\ socket \in [Processes -> [Slots -> LivePhases \cup {"none", "closing"}]]
  /\ client \in [Processes -> 0..MaxSockets] /\ stopped \in [Processes -> BOOLEAN]
  /\ \A p \in Processes : client[p] # 0 => socket[p][client[p]] # "none"
  /\ puts \subseteq Writes /\ Cardinality(puts) <= MaxInFlight

\* A leader is never left without a way to its stream: it has a socket that
\* lives or whose close event is still to come, an open() under way or a
\* reconnect timer, however losses of the lease, refused subscriptions and
\* late close events of replaced sockets interleave.
NeverStranded ==
  \A p \in Processes : leader[p] /\ ~stopped[p] =>
    timer[p] \/ opens[p] > 0 \/ \E i \in Slots : socket[p][i] # "none"

\* What stands in Redis only advances: a quote replaces one that is not newer
\* by the provider's clock, its sequence is above every earlier one even when
\* the key had expired, and it was written under the lease of its writer -
\* not by a socket that a former owner has forgotten to close.
SnapshotAdvances ==
  [][quote' # quote /\ quote' # Absent =>
       /\ quote'.seq > counter /\ counter' = quote'.seq
       /\ \E w \in puts \ puts' : holder = w.by
       /\ quote # Absent =>
            quote.ts <= quote'.ts
            /\ <<quote.ts, quote.price>> # <<quote'.ts, quote'.price>>]_ingestVars

\* The README of the module: an upstream connection exists only at the owner
\* of the lease.  The reconnect timer and an open() under way do not look at
\* leadership, and a replaced client is never closed.
UpstreamOnlyAtLeader ==
  \A p \in Processes : (\E i \in Slots : socket[p][i] \in LivePhases) => leader[p]
============================================================================
