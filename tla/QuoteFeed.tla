----------------------------- MODULE QuoteFeed -----------------------------
(***************************************************************************)
(* How a stored quote reaches the live terminal: the Redis channel, the    *)
(* RealtimeMarketHub of one replica, the Socket.IO gateway and the panel   *)
(* of the frontend, which also polls the REST snapshots every five         *)
(* seconds.                                                                *)
(*                                                                         *)
(* A quote is named by its local sequence.  The handlers of the gateway    *)
(* interleave at every await: a client may leave, or send its next         *)
(* message, while handleConnection or subscribe waits for Redis or the     *)
(* catalog.  What a socket carries keeps its order, so a message reaches   *)
(* the panel with the emit.                                                *)
(***************************************************************************)
EXTENDS Naturals, FiniteSets, Sequences, SequencesExt

CONSTANTS
  Instruments,       \* instruments of the catalog
  Sockets,           \* the connections the panel may open, one after another
  NoSocket,          \* the panel has no socket
  MaxSubscriptions,  \* REALTIME_MAX_SUBSCRIPTIONS_PER_SOCKET
  MaxPending,        \* REALTIME_MAX_PENDING_MESSAGES
  MaxQuotes,         \* bound: quotes published per instrument
  MaxMessages,       \* bound: messages sent over one socket
  MaxPolls           \* bound: poll answers under way

ASSUME FeedAssumption ==
  /\ NoSocket \notin Sockets
  /\ {MaxSubscriptions, MaxPending, MaxQuotes, MaxMessages, MaxPolls} \subseteq Nat \ {0}

VARIABLES
  latest,       \* latest[i]: the sequence of the stored quote, 0 when none
  numbered,     \* numbered[i]: the sequences given out
  wire,         \* publications the subscriber of this replica has not seen
  transport,    \* transport[s]: none, up, down
  admission,    \* admission[s]: handleConnection has not begun, waits, is done
  registered,   \* registered[s]: subscriptions and connectionCleanup have s
  current,      \* current[s]: keys of the subscription map made for s
  hub,          \* hub[i]: the sockets whose listener the hub calls for i
  call,         \* call[s]: subscribe and unsubscribe under way, by arrival
  sent,         \* messages sent over the socket so far, for the bound
  wanted,       \* wanted[s]: subscribed by the messages of s taken up so far
  emitted,      \* emitted[s][i]: the newest quote emitted to s
  pending,      \* pending[s]: the gateway's count of unsent messages
  panel,        \* the socket the panel listens to
  shown,        \* shown[i]: the quote on the panel, 0 when none
  polls         \* REST answers on their way to the panel

store == <<latest, numbered, wire>>
gateway == <<transport, admission, registered, current, hub, call, sent, wanted, emitted, pending>>
page == <<panel, shown, polls>>
feedVars == <<store, gateway, page>>

Answers == [Instruments -> 0..MaxQuotes]
Message(kind, ids) == [kind |-> kind, at |-> "admit", ids |-> ids, left |-> ids,
                      reads |-> CHOOSE i \in Instruments : TRUE, snapshots |-> {}]

FeedInit ==
  /\ latest = [i \in Instruments |-> 0] /\ numbered = latest /\ wire = <<>>
  /\ transport = [s \in Sockets |-> "none"] /\ admission = [s \in Sockets |-> "none"]
  /\ registered = [s \in Sockets |-> FALSE] /\ current = [s \in Sockets |-> {}]
  /\ hub = [i \in Instruments |-> {}]
  /\ call = [s \in Sockets |-> <<>>] /\ sent = [s \in Sockets |-> 0]
  /\ wanted = [s \in Sockets |-> {}]
  /\ pending = [s \in Sockets |-> 0]
  /\ emitted = [s \in Sockets |-> [i \in Instruments |-> 0]]
  /\ panel = NoSocket /\ shown = [i \in Instruments |-> 0] /\ polls = {}

----------------------------------------------------------------------------
(* Emitting                                                                *)

Without(h, s, ids) == [i \in Instruments |-> IF i \in ids THEN h[i] \ {s} ELSE h[i]]

\* handleDisconnect, the hub being h: the listeners of a registered socket,
\* its maps and its counter are dropped.  A subscribe that still runs keeps
\* the map it has.
Disconnected(s, h) ==
  /\ transport' = [transport EXCEPT ![s] = "down"]
  /\ registered' = [registered EXCEPT ![s] = FALSE]
  /\ hub' = IF registered[s] THEN Without(h, s, current[s]) ELSE h
  /\ pending' = [pending EXCEPT ![s] = 0]
  /\ panel' = IF panel = s THEN NoSocket ELSE panel

\* emit, n times in one turn: each call stores pending + 1 and leaves a
\* microtask that stores the value it had seen before, so the turn ends one
\* below its highest count - not where it began.  Over the limit the socket
\* is disconnected.

\* A plausible bug: the limit is compared after the microtask.
Unlimited(s, n) == FALSE

Overflows(s, n) == transport[s] = "up" /\ pending[s] + n > MaxPending

AfterTurn(s, n) == [pending EXCEPT ![s] = IF transport[s] = "up" /\ n > 0 THEN @ + n - 1 ELSE @]

\* A turn that emits n messages and leaves the hub h.
Turn(s, n, h) ==
  IF Overflows(s, n) THEN Disconnected(s, h)
  ELSE /\ hub' = h /\ pending' = AfterTurn(s, n)
       /\ UNCHANGED <<transport, registered, panel>>

Newest(s, i, seqs) == Max({emitted[s][i]} \cup seqs)
----------------------------------------------------------------------------
(* The store and the hub                                                   *)

\* PUT_LATEST accepted a quote: stored, numbered and published at once.
Publish(i) ==
  /\ numbered[i] < MaxQuotes
  /\ numbered' = [numbered EXCEPT ![i] = @ + 1]
  /\ latest' = [latest EXCEPT ![i] = numbered'[i]]
  /\ wire' = Append(wire, [id |-> i, seq |-> numbered'[i]])
  /\ UNCHANGED <<gateway, page>>

QuoteGone(i) ==
  /\ latest[i] # 0 /\ latest' = [latest EXCEPT ![i] = 0]
  /\ UNCHANGED <<numbered, wire, gateway, page>>

\* The hub hands the next publication to the listeners of its instrument,
\* one after the other; here they are one step.  A socket with too many
\* pending messages is disconnected instead.
Hears(s) == s \in hub[Head(wire).id] /\ transport[s] = "up" /\ ~Overflows(s, 1)
Deliver ==
  /\ wire # <<>> /\ wire' = Tail(wire)
  /\ LET q == Head(wire) IN
       /\ emitted' = [s \in Sockets |->
            IF Hears(s) THEN [emitted[s] EXCEPT ![q.id] = Newest(s, q.id, {q.seq})] ELSE emitted[s]]
       /\ shown' = IF panel # NoSocket /\ Hears(panel) THEN [shown EXCEPT ![q.id] = q.seq] ELSE shown
       /\ \/ /\ \E s \in hub[q.id] : Overflows(s, 1) /\ Disconnected(s, hub)
          \/ /\ \A s \in hub[q.id] : ~Overflows(s, 1)
             /\ UNCHANGED <<transport, registered, hub, pending, panel>>
  /\ UNCHANGED <<latest, numbered, admission, current, call, sent, wanted, polls>>

----------------------------------------------------------------------------
(* Connections                                                             *)

\* The panel (re)connects: its former socket is dropped on both sides.
connect(s) ==
  /\ transport[s] = "none"
  /\ panel = NoSocket /\ panel' = s
  /\ transport' = [transport EXCEPT ![s] = "up"]
  /\ admission' = [admission EXCEPT ![s] = "waits"]
  /\ UNCHANGED <<store, registered, current, hub, call, sent, wanted, emitted, pending, shown, polls>>

\* The client leaves, whatever handler of it is under way.
handleDisconnect(s) ==
  /\ transport[s] = "up" /\ Disconnected(s, hub)
  /\ UNCHANGED <<store, admission, current, call, sent, wanted, emitted, shown, polls>>

\* handleConnection awaits the IP bucket, the API key and the principal
\* bucket; a refusal disconnects, the last success registers the socket -
\* without asking whether it is still there.
handleConnection(s) ==
  /\ admission[s] = "waits" /\ admission' = [admission EXCEPT ![s] = "done"]
  /\ \/ /\ registered' = [registered EXCEPT ![s] = TRUE]
        /\ UNCHANGED <<transport, hub, pending, panel>>
     \/ IF transport[s] = "up" THEN Disconnected(s, hub)
        ELSE UNCHANGED <<transport, registered, hub, pending, panel>>
  /\ UNCHANGED <<store, current, call, sent, wanted, emitted, shown, polls>>

----------------------------------------------------------------------------
(* realtime.subscribe and realtime.unsubscribe                             *)

Goes(s, k, c) == call' = [call EXCEPT ![s][k] = c]
Ends(s, k) == call' = [call EXCEPT ![s] = RemoveAt(@, k)]
\* admitMessage answers the messages of a socket in the order they arrived.
Admitted(s, k, kind) ==
  /\ call[s][k].kind = kind /\ call[s][k].at = "admit"
  /\ \A j \in 1..(k - 1) : call[s][j].at # "admit"

\* A message arrives and its handler awaits admitMessage.
Send(s, kind, ids) ==
  /\ transport[s] = "up" /\ sent[s] < MaxMessages
  /\ sent' = [sent EXCEPT ![s] = @ + 1]
  /\ call' = [call EXCEPT ![s] = Append(@, Message(kind, ids))]
  /\ UNCHANGED <<store, transport, admission, registered, current, hub, wanted, emitted, pending, page>>

\* subscribe after admitMessage: a socket that is not registered gets no
\* answer, one over its limit an error.
TooMany(s, ids) == Cardinality(current[s] \cup ids) > MaxSubscriptions
subscribe(s, k) ==
  /\ Admitted(s, k, "subscribe")
  /\ \/ /\ ~registered[s] /\ Ends(s, k)
        /\ UNCHANGED <<transport, registered, hub, wanted, pending, panel>>
     \/ /\ registered[s] /\ TooMany(s, call[s][k].ids)
        /\ Ends(s, k) /\ Turn(s, 1, hub)
        /\ UNCHANGED wanted
     \/ /\ registered[s] /\ ~TooMany(s, call[s][k].ids)
        /\ Goes(s, k, [call[s][k] EXCEPT !.at = "catalog"])
        /\ wanted' = [wanted EXCEPT ![s] = @ \cup call[s][k].ids]
        /\ UNCHANGED <<transport, registered, hub, pending, panel>>
  /\ UNCHANGED <<store, admission, current, sent, emitted, shown, polls>>

\* catalog.get returned: for an instrument that is available the listener is
\* registered, before its snapshot is read; for another one the client is
\* told that there is none.
Listens(s, i) == IF i \in current[s] THEN hub ELSE [hub EXCEPT ![i] = @ \cup {s}]
CatalogAnswers(s, k, i, available) ==
  /\ call[s][k].at = "catalog" /\ i \in call[s][k].left
  /\ IF available
       THEN /\ hub' = Listens(s, i)
            /\ current' = [current EXCEPT ![s] = @ \cup {i}]
            /\ Goes(s, k, [call[s][k] EXCEPT !.at = "quote", !.left = @ \ {i}, !.reads = i])
            /\ UNCHANGED <<transport, registered, wanted, pending, panel>>
       ELSE /\ Goes(s, k, [call[s][k] EXCEPT !.left = @ \ {i}, !.ids = @ \ {i}])
            /\ wanted' = [wanted EXCEPT ![s] = @ \ {i}]
            /\ Turn(s, 1, hub)
            /\ UNCHANGED current
  /\ UNCHANGED <<store, admission, sent, emitted, shown, polls>>

\* getLatest reads the snapshot of the instrument just listened to; the
\* answer is on its way until the handler goes on.
getLatest(s, k) ==
  /\ call[s][k].at = "quote"
  /\ LET i == call[s][k].reads IN
       Goes(s, k, [call[s][k] EXCEPT !.at = "catalog",
                     !.snapshots = @ \cup {[id |-> i, seq |-> latest[i]]}])
  /\ UNCHANGED <<store, transport, admission, registered, current, hub, sent, wanted, emitted, pending, page>>

\* A plausible bug: a client that listens is not sent a snapshot.
StreamOnly(s, k) == {}

\* The snapshots that exist.
Found(s, k) == {x \in call[s][k].snapshots : x.seq # 0}

\* The end of subscribe: the acknowledgement and the snapshots that exist go
\* out in one turn.  (For one that does not a status went out before.)
SubscribeAck(s, k) ==
  /\ call[s][k].at = "catalog" /\ call[s][k].left = {}
  /\ LET found == Found(s, k)
         n == 1 + Cardinality(found)
         told == transport[s] = "up" /\ ~Overflows(s, n)
         At(i) == {x.seq : x \in {y \in found : y.id = i}} IN
       /\ Turn(s, n, hub)
       /\ emitted' = [emitted EXCEPT ![s] =
            [i \in Instruments |-> IF told THEN Newest(s, i, At(i)) ELSE @[i]]]
       /\ shown' = [i \in Instruments |->
            IF told /\ s = panel /\ At(i) # {} THEN CHOOSE seq \in At(i) : TRUE ELSE shown[i]]
  /\ Ends(s, k)
  /\ UNCHANGED <<store, admission, current, sent, wanted, polls>>

\* A plausible bug: the listener goes, its entry stays.
KeepEntry(s, ids) == current

Left(s, ids) == [current EXCEPT ![s] = @ \ ids]

\* unsubscribe after admitMessage: it takes effect and is acknowledged in
\* one turn.
unsubscribe(s, k) ==
  /\ Admitted(s, k, "unsubscribe") /\ Ends(s, k)
  /\ LET ids == IF registered[s] THEN call[s][k].ids \cap current[s] ELSE {} IN
       /\ current' = Left(s, ids)
       /\ Turn(s, 1, Without(hub, s, ids))
  /\ wanted' = [wanted EXCEPT ![s] = @ \ call[s][k].ids]
  /\ UNCHANGED <<store, admission, sent, emitted, shown, polls>>

----------------------------------------------------------------------------
(* The panel's polling                                                     *)

\* GET /realtime/quotes reads the snapshots ...
quoteSnapshots ==
  /\ Cardinality(polls) < MaxPolls
  /\ polls' = polls \cup {latest}
  /\ UNCHANGED <<store, gateway, panel, shown>>

\* A plausible bug: a quote that has expired stays on the panel.
KeepShown(answer) == [i \in Instruments |-> IF answer[i] = 0 THEN shown[i] ELSE answer[i]]

\* An instrument without a quote loses the one it has.
Merged(answer) == [i \in Instruments |-> answer[i]]

\* ... and loadQuotes puts its answer in place of whatever is shown.
loadQuotes(answer) ==
  /\ answer \in polls /\ polls' = polls \ {answer}
  /\ shown' = Merged(answer)
  /\ UNCHANGED <<store, gateway, panel>>

FeedNext ==
  \/ Deliver \/ quoteSnapshots \/ \E a \in polls : loadQuotes(a)
  \/ \E i \in Instruments : Publish(i) \/ QuoteGone(i)
  \/ \E s \in Sockets :
       \/ connect(s) \/ handleDisconnect(s) \/ handleConnection(s)
       \/ \E kind \in {"subscribe", "unsubscribe"}, ids \in (SUBSET Instruments) \ {{}} :
            Send(s, kind, ids)
       \/ \E k \in 1..Len(call[s]) :
            \/ subscribe(s, k) \/ getLatest(s, k) \/ SubscribeAck(s, k) \/ unsubscribe(s, k)
            \/ \E i \in Instruments, available \in BOOLEAN : CatalogAnswers(s, k, i, available)

FeedSpec == FeedInit /\ [][FeedNext]_feedVars

\* Redis delivers, and the five second interval of the panel keeps polling.
FeedFairness ==
  /\ WF_feedVars(Deliver) /\ WF_feedVars(quoteSnapshots)
  /\ \A a \in Answers : WF_feedVars(loadQuotes(a))

----------------------------------------------------------------------------
(* Properties                                                              *)

\* Every variable holds values of its type.
FeedTypeOK ==
  /\ latest \in Answers /\ numbered \in Answers /\ shown \in Answers
  /\ \A n \in 1..Len(wire) : wire[n].id \in Instruments /\ wire[n].seq \in 1..MaxQuotes
  /\ transport \in [Sockets -> {"none", "up", "down"}]
  /\ admission \in [Sockets -> {"none", "waits", "done"}]
  /\ registered \in [Sockets -> BOOLEAN] /\ current \in [Sockets -> SUBSET Instruments]
  /\ hub \in [Instruments -> SUBSET Sockets] /\ sent \in [Sockets -> 0..MaxMessages]
  /\ pending \in [Sockets -> 0..MaxPending] /\ polls \subseteq Answers
  /\ panel \in Sockets \cup {NoSocket}

Quiet(s) == call[s] = <<>>

\* A subscriber misses nothing: once its messages are all answered, the newest
\* stored quote of what they have subscribed, in the order it sent them, has
\* been emitted to it or is still on the channel - there is no gap between the
\* snapshot and the stream, however publications interleave with subscribe.
NoQuoteMissed ==
  \A s \in Sockets, i \in Instruments :
    i \in wanted[s] /\ transport[s] = "up" /\ Quiet(s) =>
      \/ latest[i] <= emitted[s][i]
      \/ \E n \in 1..Len(wire) : wire[n].id = i /\ wire[n].seq = latest[i]

\* The gateway's map of a connected client and the hub's listeners agree: no
\* listener without its entry, no entry without its listener.
ListenersMatch ==
  \A s \in Sockets, i \in Instruments :
    registered[s] /\ transport[s] = "up" => (i \in current[s] <=> s \in hub[i])

\* Whatever the stream lost, repeated or put out of order, the polling brings
\* the panel back to the stored quote once quotes stop changing.
PanelCatchesUp == <>[](shown = latest)

\* What the panel shows of an instrument never goes back to an older quote.
\* A snapshot read before a live quote was emitted is emitted after it.
ShownAdvances ==
  [][\A i \in Instruments : shown'[i] # 0 => shown[i] <= shown'[i]]_feedVars

\* A client that has left, with every handler of it finished, leaves no
\* listener behind.
NoListenerLeft ==
  \A s \in Sockets, i \in Instruments :
    transport[s] = "down" /\ Quiet(s) => s \notin hub[i]
============================================================================
