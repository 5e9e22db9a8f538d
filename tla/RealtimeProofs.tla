---------------------------- MODULE RealtimeProofs ----------------------------
(***************************************************************************)
(* The quote store's way in (QuoteIngest), for any number of replicas,      *)
(* sockets and prices, the execution at the reference price                 *)
(* (RealtimeExecution), for any requests, bodies, prices, fee and funds, and *)
(* the way out to the live terminal (QuoteFeed).                            *)
(***************************************************************************)
EXTENDS QuoteIngest, RealtimeExecution, QuoteFeed, FiniteSums, SequenceTheorems

(* What the proofs use of the constants.                                    *)
LEMMA IngestFacts ==
  /\ Free \notin Processes /\ Dead \notin Processes /\ Free # Dead
  /\ MaxTs \in Nat \ {0} /\ MaxSeq \in Nat \ {0} /\ MaxSockets \in Nat \ {0}
  /\ MaxOpened \in Nat \ {0} /\ MaxOpens \in Nat \ {0} /\ MaxInFlight \in Nat \ {0}
  BY IngestAssumption

Phases == LivePhases \cup {"none", "closing"}

(* The variables of a replica have their types.                             *)
SupervisorsTyped ==
  /\ leader \in [Processes -> BOOLEAN] /\ timer \in [Processes -> BOOLEAN]
  /\ stopped \in [Processes -> BOOLEAN]
  /\ opens \in [Processes -> 0..MaxOpens]
  /\ socket \in [Processes -> [Slots -> Phases]]
  /\ client \in [Processes -> 0..MaxSockets]
  /\ \A p \in Processes : client[p] # 0 => socket[p][client[p]] # "none"

(* What stands in Redis, and what is on its way there.                      *)
StoreTyped ==
  /\ holder \in Processes \cup {Free, Dead}
  /\ quote \in Quotes \cup {Absent} /\ counter \in 0..MaxSeq
  /\ puts \subseteq Writes /\ IsFiniteSet(puts) /\ Cardinality(puts) <= MaxInFlight

IngestInv == SupervisorsTyped /\ StoreTyped /\ NeverStranded

(* The initial replicas and the empty store meet the inductive invariant.   *)
LEMMA IngestInitInv == IngestInit => IngestInv
<1> SUFFICES ASSUME IngestInit PROVE IngestInv
  OBVIOUS
<1>1. SupervisorsTyped
  BY IngestFacts DEF IngestInit, SupervisorsTyped, Slots, Phases
<1>2. StoreTyped
  BY IngestFacts, FS_EmptySet DEF IngestInit, StoreTyped
<1>3. NeverStranded
  BY DEF IngestInit, NeverStranded
<1> QED
  BY <1>1, <1>2, <1>3 DEF IngestInv

(* A replica's own step changes nothing of the others.                      *)
Others(p) ==
  \A q \in Processes : q # p =>
    /\ leader'[q] = leader[q] /\ timer'[q] = timer[q] /\ stopped'[q] = stopped[q]
    /\ opens'[q] = opens[q] /\ socket'[q] = socket[q] /\ client'[q] = client[q]

(* Replica p will be heard of again: a retry, an open or a socket is left.  *)
HasWay(p) ==
  leader[p] /\ ~stopped[p] =>
    timer[p] \/ opens[p] > 0 \/ \E i \in Slots : socket[p][i] # "none"

(* A step of one replica strands nobody if it leaves that replica a way     *)
(* on.                                                                      *)
LEMMA WayKept ==
  ASSUME NeverStranded, NEW p \in Processes, Others(p), HasWay(p)'
  PROVE  NeverStranded'
  BY DEF NeverStranded, Others, HasWay

(* A quote on its way to the store keeps the store typed.                   *)
LEMMA PutAdded ==
  ASSUME StoreTyped, NEW p \in Processes, NEW w \in Writes, Sent(p, w),
         UNCHANGED <<holder, quote, counter>>
  PROVE  StoreTyped'
<1>1. puts' = puts \cup {w} /\ Cardinality(puts) < MaxInFlight
  BY DEF Sent
<1>2. /\ IsFiniteSet(puts)
      /\ IsFiniteSet(puts \cup {w})
      /\ Cardinality(puts \cup {w}) = IF w \in puts THEN Cardinality(puts) ELSE Cardinality(puts) + 1
      /\ Cardinality(puts) \in Nat
  BY FS_AddElement, FS_CardinalityType DEF StoreTyped
<1>3. Cardinality(puts \cup {w}) <= MaxInFlight
  BY <1>1, <1>2, IngestFacts
<1> QED
  BY <1>1, <1>2, <1>3 DEF StoreTyped

(* Quotes that arrived or were lost leave the rest on their way.            *)
LEMMA PutsRemoved ==
  ASSUME StoreTyped, puts' \subseteq puts
  PROVE  puts' \subseteq Writes /\ IsFiniteSet(puts') /\ Cardinality(puts') <= MaxInFlight
<1>1. /\ IsFiniteSet(puts') /\ Cardinality(puts') <= Cardinality(puts)
      /\ Cardinality(puts) \in Nat /\ Cardinality(puts') \in Nat
  BY FS_Subset, FS_CardinalityType DEF StoreTyped
<1> QED
  BY <1>1, IngestFacts DEF StoreTyped

(* The variables of one replica have their types.                           *)
LEMMA ReplicaTyped ==
  ASSUME SupervisorsTyped, NEW p \in Processes
  PROVE  /\ leader[p] \in BOOLEAN /\ timer[p] \in BOOLEAN /\ stopped[p] \in BOOLEAN
         /\ opens[p] \in 0..MaxOpens /\ socket[p] \in [Slots -> Phases]
         /\ client[p] \in 0..MaxSockets
  BY DEF SupervisorsTyped

(* Its own variables are all a step has to show.                            *)
LEMMA ReplicaStays ==
  ASSUME SupervisorsTyped, NEW p \in Processes, Others(p),
         leader' \in [Processes -> BOOLEAN], timer' \in [Processes -> BOOLEAN],
         stopped' \in [Processes -> BOOLEAN], opens' \in [Processes -> 0..MaxOpens],
         socket' \in [Processes -> [Slots -> Phases]],
         client' \in [Processes -> 0..MaxSockets],
         client'[p] # 0 => socket'[p][client'[p]] # "none"
  PROVE  SupervisorsTyped'
BY DEF SupervisorsTyped, Others

(* scheduleReconnect sets the timer of a live leader and touches no other   *)
(* replica's.                                                               *)
LEMMA TimerTyped ==
  ASSUME SupervisorsTyped, NEW p \in Processes, scheduleReconnect(p)
  PROVE  /\ timer' \in [Processes -> BOOLEAN]
         /\ leader[p] /\ ~stopped[p] => timer'[p]
         /\ \A q \in Processes : q # p => timer'[q] = timer[q]
<1> DEFINE b == Scheduled(p)
<1>1. b \in BOOLEAN /\ (leader[p] /\ ~stopped[p] => b)
  BY DEF Scheduled
<1>2. timer' = [timer EXCEPT ![p] = b]
  BY DEF scheduleReconnect
<1> HIDE DEF b
<1> QED
  BY <1>1, <1>2 DEF SupervisorsTyped

(* Closing the client's socket leaves the replica without a client, the     *)
(* others as they are.                                                      *)
LEMMA ClientCloses ==
  ASSUME SupervisorsTyped, NEW p \in Processes, ClientClosed(p)
  PROVE  /\ socket' \in [Processes -> [Slots -> Phases]]
         /\ client' \in [Processes -> 0..MaxSockets] /\ client'[p] = 0
         /\ \A q \in Processes : q # p => socket'[q] = socket[q] /\ client'[q] = client[q]
<1> DEFINE s == [i \in Slots |-> IF i = client[p] /\ socket[p][i] \in LivePhases
                                THEN "closing" ELSE socket[p][i]]
<1>1. s \in [Slots -> Phases]
  BY ReplicaTyped DEF Phases, LivePhases
<1>2. socket' = [socket EXCEPT ![p] = s] /\ client' = [client EXCEPT ![p] = 0]
  BY DEF ClientClosed
<1> HIDE DEF s
<1>3. 0 \in 0..MaxSockets
  BY IngestFacts
<1> QED
  BY <1>1, <1>2, <1>3 DEF SupervisorsTyped

(* An open taken from those under way leaves the others in range.           *)
LEMMA OneOpened ==
  ASSUME SupervisorsTyped, NEW p \in Processes, opens[p] > 0,
         opens' = [opens EXCEPT ![p] = @ - 1]
  PROVE  opens' \in [Processes -> 0..MaxOpens]
<1> DEFINE n == opens[p]
<1>1. n \in 0..MaxOpens /\ n > 0 /\ opens' = [opens EXCEPT ![p] = n - 1]
  BY ReplicaTyped
<1> HIDE DEF n
<1>2. n - 1 \in 0..MaxOpens
  BY <1>1, IngestFacts
<1> QED
  BY <1>1, <1>2 DEF SupervisorsTyped

(* A replica with a client has that client's socket.                        *)
LEMMA ClientLives ==
  ASSUME SupervisorsTyped, NEW p \in Processes, client[p] # 0
  PROVE  client[p] \in Slots /\ socket[p][client[p]] # "none"
<1> DEFINE n == client[p]
<1>1. n \in 0..MaxSockets /\ n # 0
  BY ReplicaTyped
<1> HIDE DEF n
<1>2. n \in Slots
  BY <1>1, IngestFacts DEF Slots
<1> QED
  BY <1>2 DEF n, SupervisorsTyped

(* The lease and the timers.                                                *)
LEMMA LeaseStepInv ==
  ASSUME IngestInv, NEW p \in Processes,
         \/ Acquire(p) \/ RenewFails(p) \/ OpenIdle(p) \/ TimerFires(p)
         \/ onApplicationShutdown(p) \/ Restart(p)
  PROVE  IngestInv'
<1>1. /\ leader[p] \in BOOLEAN /\ timer[p] \in BOOLEAN /\ stopped[p] \in BOOLEAN
      /\ opens[p] \in 0..MaxOpens /\ socket[p] \in [Slots -> Phases]
      /\ client[p] \in 0..MaxSockets
  BY ReplicaTyped DEF IngestInv
<1>2. CASE Acquire(p)
  <2>1. SupervisorsTyped'
    BY <1>1, <1>2, IngestFacts DEF Acquire, IngestInv, SupervisorsTyped
  <2>2. StoreTyped'
    BY <1>2 DEF Acquire, IngestInv, StoreTyped
  <2>3. Others(p) /\ HasWay(p)'
    BY <1>1, <1>2 DEF Acquire, IngestInv, SupervisorsTyped, Others, HasWay
  <2> QED
    BY <2>1, <2>2, <2>3, WayKept DEF IngestInv
<1>3. CASE RenewFails(p)
  <2>3. Others(p) /\ HasWay(p)'
    BY <1>1, <1>3, ClientCloses DEF RenewFails, IngestInv, SupervisorsTyped, Others, HasWay
  <2>1. SupervisorsTyped'
    BY <1>3, <2>3, ClientCloses, ReplicaStays DEF RenewFails, IngestInv, SupervisorsTyped
  <2>2. StoreTyped'
    BY <1>3 DEF RenewFails, IngestInv, StoreTyped
  <2> QED
    BY <2>1, <2>2, <2>3, WayKept DEF IngestInv
<1>4. CASE OpenIdle(p)
  <2>3. Others(p) /\ HasWay(p)'
    BY <1>1, <1>4, TimerTyped DEF OpenIdle, IngestInv, SupervisorsTyped, Others, HasWay
  <2>1. SupervisorsTyped'
    <3>1. opens' \in [Processes -> 0..MaxOpens]
      BY <1>4, OneOpened DEF OpenIdle, IngestInv
    <3> QED
      BY <1>4, <2>3, <3>1, TimerTyped, ReplicaStays DEF OpenIdle, IngestInv, SupervisorsTyped
  <2>2. StoreTyped'
    BY <1>4 DEF OpenIdle, IngestInv, StoreTyped
  <2> QED
    BY <2>1, <2>2, <2>3, WayKept DEF IngestInv
<1>5. CASE TimerFires(p)
  <2>1. SupervisorsTyped'
    BY <1>1, <1>5, IngestFacts DEF TimerFires, IngestInv, SupervisorsTyped
  <2>2. StoreTyped'
    BY <1>5 DEF TimerFires, IngestInv, StoreTyped
  <2>3. Others(p) /\ HasWay(p)'
    BY <1>1, <1>5 DEF TimerFires, IngestInv, SupervisorsTyped, Others, HasWay
  <2> QED
    BY <2>1, <2>2, <2>3, WayKept DEF IngestInv
<1>6. CASE onApplicationShutdown(p)
  <2>3. Others(p) /\ HasWay(p)'
    BY <1>1, <1>6, ClientCloses
    DEF onApplicationShutdown, IngestInv, SupervisorsTyped, Others, HasWay
  <2>1. SupervisorsTyped'
    <3>1. timer' \in [Processes -> BOOLEAN] /\ stopped' \in [Processes -> BOOLEAN]
      BY <1>6 DEF onApplicationShutdown, IngestInv, SupervisorsTyped
    <3> QED
      BY <1>6, <2>3, <3>1, ClientCloses, ReplicaStays
      DEF onApplicationShutdown, IngestInv, SupervisorsTyped
  <2>2. StoreTyped'
    BY <1>6 DEF onApplicationShutdown, IngestInv, StoreTyped
  <2> QED
    BY <2>1, <2>2, <2>3, WayKept DEF IngestInv
<1>7. CASE Restart(p)
  <2>1. SupervisorsTyped'
    BY <1>1, <1>7, IngestFacts DEF Restart, IngestInv, SupervisorsTyped, Phases
  <2>2. StoreTyped'
    <3>1. puts' \subseteq puts
      BY <1>7 DEF Restart
    <3> QED
      BY <1>7, <3>1, PutsRemoved DEF Restart, IngestInv, StoreTyped
  <2>3. Others(p) /\ HasWay(p)'
    BY <1>1, <1>7 DEF Restart, IngestInv, SupervisorsTyped, Others, HasWay
  <2> QED
    BY <2>1, <2>2, <2>3, WayKept DEF IngestInv
<1> QED
  BY <1>2, <1>3, <1>4, <1>5, <1>6, <1>7

(* A phase of one socket.                                                   *)
LEMMA PhaseTyped ==
  ASSUME SupervisorsTyped, NEW p \in Processes, NEW i \in Slots, NEW phase \in Phases,
         Phase(p, i, phase)
  PROVE  /\ socket' \in [Processes -> [Slots -> Phases]]
         /\ socket'[p][i] = phase
         /\ \A j \in Slots : j # i => socket'[p][j] = socket[p][j]
         /\ \A q \in Processes : q # p => socket'[q] = socket[q]
  BY DEF SupervisorsTyped, Phase

(* The upstream socket.                                                     *)
LEMMA SocketStepInv ==
  ASSUME IngestInv, NEW p \in Processes,
         \/ OpenSocket(p)
         \/ \E i \in Slots : \/ SocketOpens(p, i) \/ SubscriptionAccepted(p, i)
                             \/ SubscriptionFails(p, i) \/ SocketCloses(p, i)
                             \/ \E w \in Writes : accept(p, i, w)
  PROVE  IngestInv'
<1>1. /\ leader[p] \in BOOLEAN /\ timer[p] \in BOOLEAN /\ stopped[p] \in BOOLEAN
      /\ opens[p] \in 0..MaxOpens /\ socket[p] \in [Slots -> Phases]
      /\ client[p] \in 0..MaxSockets
  BY ReplicaTyped DEF IngestInv
<1>2. {"connecting", "subscribing", "streaming", "closing", "none"} \subseteq Phases
  BY DEF Phases, LivePhases
<1>3. 0 \notin Slots /\ \A i \in Slots : i \in 0..MaxSockets
  BY IngestFacts DEF Slots
<1>4. CASE OpenSocket(p)
  <2>1. PICK i \in Slots : /\ socket[p][i] = "none" /\ Phase(p, i, "connecting")
                           /\ client' = [client EXCEPT ![p] = i]
    BY <1>4 DEF OpenSocket
  <2>2. /\ socket' \in [Processes -> [Slots -> Phases]] /\ socket'[p][i] = "connecting"
        /\ \A j \in Slots : j # i => socket'[p][j] = socket[p][j]
        /\ \A q \in Processes : q # p => socket'[q] = socket[q]
    BY <1>2, <2>1, PhaseTyped DEF IngestInv
  <2>4. StoreTyped'
    BY <1>4 DEF OpenSocket, IngestInv, StoreTyped
  <2>5. Others(p) /\ HasWay(p)'
    BY <1>1, <1>4, <2>1, <2>2 DEF OpenSocket, IngestInv, SupervisorsTyped, Others, HasWay
  <2>3. SupervisorsTyped'
    <3>1. opens' \in [Processes -> 0..MaxOpens]
      BY <1>4, OneOpened DEF OpenSocket, IngestInv
    <3>2. client' \in [Processes -> 0..MaxSockets] /\ client'[p] = i
      BY <1>3, <2>1 DEF IngestInv, SupervisorsTyped
    <3> QED
      BY <1>4, <2>2, <2>5, <3>1, <3>2, ReplicaStays DEF OpenSocket, IngestInv, SupervisorsTyped
  <2> QED
    BY <2>3, <2>4, <2>5, WayKept DEF IngestInv
<1>5. ASSUME NEW i \in Slots, SocketOpens(p, i) \/ SubscriptionAccepted(p, i)
      PROVE  IngestInv'
  <2>1. PICK phase \in {"subscribing", "streaming"} : Phase(p, i, phase)
    BY <1>5 DEF SocketOpens, SubscriptionAccepted
  <2>2. /\ socket' \in [Processes -> [Slots -> Phases]] /\ socket'[p][i] = phase
        /\ \A j \in Slots : j # i => socket'[p][j] = socket[p][j]
        /\ \A q \in Processes : q # p => socket'[q] = socket[q]
    BY <1>2, <2>1, PhaseTyped DEF IngestInv
  <2>3. UNCHANGED <<holder, quote, counter, leader, opens, timer, client, stopped>>
    BY <1>5 DEF SocketOpens, SubscriptionAccepted
  <2>5. StoreTyped'
    <3>1. CASE UNCHANGED puts
      BY <2>3, <3>1 DEF IngestInv, StoreTyped
    <3>2. CASE \E w \in Writes : Sent(p, w)
      BY <2>3, <3>2, PutAdded DEF IngestInv
    <3> QED
      BY <1>5, <3>1, <3>2 DEF SocketOpens, SubscriptionAccepted
  <2>6. Others(p) /\ HasWay(p)'
    BY <2>1, <2>2, <2>3 DEF Others, HasWay
  <2>4. SupervisorsTyped'
    <3>1. client[p] # 0 => client[p] \in Slots /\ socket[p][client[p]] # "none"
      BY ClientLives DEF IngestInv
    <3> QED
      BY <2>1, <2>2, <2>3, <2>6, <3>1, ReplicaStays DEF IngestInv, SupervisorsTyped
  <2> QED
    BY <2>4, <2>5, <2>6, WayKept DEF IngestInv
<1>6. ASSUME NEW i \in Slots, SubscriptionFails(p, i) \/ SocketCloses(p, i)
      PROVE  IngestInv'
  <2>1. PICK phase \in {"closing", "none"} :
          /\ Phase(p, i, phase)
          /\ phase = "none" => client' = [client EXCEPT ![p] = IF client[p] = i THEN 0 ELSE client[p]]
          /\ phase = "closing" => UNCHANGED client
    BY <1>6 DEF SubscriptionFails, SocketCloses
  <2>2. /\ socket' \in [Processes -> [Slots -> Phases]] /\ socket'[p][i] = phase
        /\ \A j \in Slots : j # i => socket'[p][j] = socket[p][j]
        /\ \A q \in Processes : q # p => socket'[q] = socket[q]
    BY <1>2, <2>1, PhaseTyped DEF IngestInv
  <2>3. /\ UNCHANGED <<holder, quote, counter, leader, opens, puts, stopped>>
        /\ scheduleReconnect(p)
    BY <1>6 DEF SubscriptionFails, SocketCloses
  <2>5. StoreTyped'
    BY <2>3 DEF IngestInv, StoreTyped
  <2>6. Others(p) /\ HasWay(p)'
    BY <1>1, <2>1, <2>2, <2>3, TimerTyped DEF Others, HasWay, IngestInv, SupervisorsTyped
  <2>4. SupervisorsTyped'
    <3>1. client[p] # 0 => client[p] \in Slots /\ socket[p][client[p]] # "none"
      BY ClientLives DEF IngestInv
    <3>2. /\ client' \in [Processes -> 0..MaxSockets]
          /\ phase = "none" /\ client[p] = i => client'[p] = 0
          /\ phase = "closing" \/ client[p] # i => client'[p] = client[p]
      BY <1>1, <2>1, IngestFacts DEF IngestInv, SupervisorsTyped
    <3> QED
      BY <2>1, <2>2, <2>3, <2>6, <3>1, <3>2, TimerTyped, ReplicaStays, ZenonT(60)
      DEF IngestInv, SupervisorsTyped
  <2> QED
    BY <2>4, <2>5, <2>6, WayKept DEF IngestInv
<1>7. ASSUME NEW i \in Slots, NEW w \in Writes, accept(p, i, w)
      PROVE  IngestInv'
  <2>1. UNCHANGED <<holder, quote, counter, leader, opens, timer, socket, client, stopped>>
    BY <1>7 DEF accept, local
  <2>2. StoreTyped'
    BY <1>7, <2>1, PutAdded DEF accept, IngestInv
  <2>3. SupervisorsTyped' /\ NeverStranded'
    BY <2>1 DEF IngestInv, SupervisorsTyped, NeverStranded
  <2> QED
    BY <2>2, <2>3 DEF IngestInv
<1> QED
  BY <1>4, <1>5, <1>6, <1>7

(* Redis.                                                                   *)
LEMMA StoreStepInv ==
  ASSUME IngestInv, LeaseExpires \/ QuoteExpires \/ \E w \in puts : putLatest(w)
  PROVE  IngestInv'
<1>1. UNCHANGED <<leader, opens, timer, socket, client, stopped>>
  BY DEF LeaseExpires, QuoteExpires, putLatest, local
<1>2. SupervisorsTyped' /\ NeverStranded'
  BY <1>1 DEF IngestInv, SupervisorsTyped, NeverStranded
<1>3. StoreTyped'
  <2>1. CASE LeaseExpires \/ QuoteExpires
    BY <2>1 DEF LeaseExpires, QuoteExpires, IngestInv, StoreTyped
  <2>2. ASSUME NEW w \in puts, putLatest(w)
        PROVE  StoreTyped'
    <3>1. puts' \subseteq puts /\ UNCHANGED holder
      BY <2>2 DEF putLatest
    <3>2. \/ UNCHANGED <<quote, counter>>
          \/ counter' = counter + 1 /\ quote' = [ts |-> w.ts, price |-> w.price, seq |-> counter + 1]
      BY <2>2 DEF putLatest
    <3>3. w.ts \in 1..MaxTs /\ w.price \in Prices /\ counter \in 0..MaxSeq /\ counter < MaxSeq
      BY <2>2 DEF putLatest, IngestInv, StoreTyped, Writes
    <3>4. counter + 1 \in 1..MaxSeq /\ counter + 1 \in 0..MaxSeq
      BY <3>3, IngestFacts
    <3>5. quote' \in Quotes \cup {Absent} /\ counter' \in 0..MaxSeq
      BY <3>2, <3>3, <3>4 DEF IngestInv, StoreTyped, Quotes
    <3> QED
      BY <3>1, <3>5, PutsRemoved DEF IngestInv, StoreTyped
  <2> QED
    BY <2>1, <2>2
<1> QED
  BY <1>2, <1>3 DEF IngestInv

(* Every step of the supervisors keeps the inductive invariant.             *)
LEMMA IngestStep == IngestInv /\ [IngestNext]_ingestVars => IngestInv'
<1> SUFFICES ASSUME IngestInv, [IngestNext]_ingestVars PROVE IngestInv'
  OBVIOUS
<1>1. CASE UNCHANGED ingestVars
  BY <1>1 DEF ingestVars, local, IngestInv, SupervisorsTyped, StoreTyped, NeverStranded
<1>2. CASE IngestNext
  BY <1>2, LeaseStepInv, SocketStepInv, StoreStepInv DEF IngestNext
<1> QED
  BY <1>1, <1>2

(* The inductive invariant of the supervisors: types, what Redis holds, and *)
(* a way to the stream for every leader.                                    *)
THEOREM IngestInvariant == IngestSpec => []IngestInv
  BY IngestInitInv, IngestStep, PTL DEF IngestSpec

(* A leader always has a socket, an open() under way or a reconnect timer,  *)
(* however lost leases, refused subscriptions and late close events         *)
(* interleave (PriceStreamSupervisor).                                      *)
THEOREM LeaderNeverStranded == IngestSpec => []NeverStranded
<1>1. IngestInv => NeverStranded
  BY DEF IngestInv
<1> QED
  BY <1>1, IngestInvariant, PTL

(* Types of the ingest.                                                     *)
THEOREM IngestTypeCorrect == IngestSpec => []IngestTypeOK
<1>1. IngestInv => IngestTypeOK
  BY DEF IngestInv, SupervisorsTyped, StoreTyped, IngestTypeOK, Phases
<1> QED
  BY <1>1, IngestInvariant, PTL

(* What stands in Redis only advances, by the sequence and by the clock of  *)
(* the provider, and only the holder of the lease writes it (PUT_LATEST).   *)
THEOREM StoredQuoteAdvances == IngestSpec => SnapshotAdvances
<1> DEFINE Advance ==
      quote' # quote /\ quote' # Absent =>
        /\ quote'.seq > counter /\ counter' = quote'.seq
        /\ \E w \in puts \ puts' : holder = w.by
        /\ quote # Absent =>
             quote.ts <= quote'.ts
             /\ <<quote.ts, quote.price>> # <<quote'.ts, quote'.price>>
<1>1. IngestInv /\ [IngestNext]_ingestVars => Advance
  <2> SUFFICES ASSUME IngestInv, [IngestNext]_ingestVars, quote' # quote, quote' # Absent
               PROVE  Advance
    OBVIOUS
  <2>1. PICK w \in puts : putLatest(w)
    <3>1. \E w \in puts : putLatest(w)
      BY DEF IngestNext, ingestVars, LeaseExpires, QuoteExpires, Acquire, RenewFails, OpenIdle,
         OpenSocket, TimerFires, onApplicationShutdown, Restart, SocketOpens,
         SubscriptionAccepted, SubscriptionFails, SocketCloses, accept
    <3> QED
      BY <3>1
  <2>2. /\ holder = w.by /\ w \in puts \ puts'
        /\ counter' = counter + 1
        /\ quote' = [ts |-> w.ts, price |-> w.price, seq |-> counter + 1]
        /\ quote # Absent => ~(quote.ts > w.ts) /\ ~(quote.ts = w.ts /\ quote.price = w.price)
    BY <2>1 DEF putLatest, Fenced, Outdated
  <2>3. /\ counter \in Nat /\ w.ts \in Nat
        /\ quote # Absent => quote.ts \in Nat
    BY <2>1 DEF IngestInv, StoreTyped, Writes, Quotes
  <2> QED
    BY <2>2, <2>3
<1>2. IngestInv /\ [IngestNext]_ingestVars => [Advance]_ingestVars
  BY <1>1
<1> QED
  BY <1>2, IngestInvariant, PTL DEF IngestSpec, SnapshotAdvances

---------------------------------------------------------------------------
(* Execution at the reference price: the inductive invariant.               *)

\* The fill a body may get: at the price of the quote it names.
ConfirmedFill(b) == Fill(b, Price[b.expects])
ConfirmedFills == {ConfirmedFill(b) : b \in Bodies}
Replay == [body : Bodies, fill : ConfirmedFills]
Call == [at : {"idle", "pause", "instrument", "price", "liquidity", "commit",
               "control", "settle", "pay", "done"},
         body : Bodies \cup {None}, price : Nat, leg : Nat,
         answer : ConfirmedFills \cup {None, Refused}]

\* Stored fills and replays are those of bodies.
RecordsFormed ==
  /\ durable \in BOOLEAN
  /\ applied \in [Orders -> SUBSET {"notional", "asset", "fee"}]
  /\ fills \in [Orders -> ConfirmedFills \cup {None}]
  /\ \A o \in Orders : fills[o] # None => fills[o].order = o
  /\ replays \in [Keys -> Replay \cup {None}]
  /\ \A k \in Keys : replays[k] # None =>
       replays[k].body.key = k /\ replays[k].fill = ConfirmedFill(replays[k].body)
  /\ IsFiniteSet(Filled)

\* A call carries a body from its arrival to its end, and once it has read the
\* quote the price its client has confirmed; the two profiles' commits do not
\* meet.
CallsFormed ==
  /\ request \in [Requests -> Call]
  /\ \A r \in Requests :
       /\ ~At(r, "idle") => Body(r) \in Bodies
       /\ request[r].at \in {"liquidity", "commit", "control", "settle", "pay"} =>
            request[r].price = Price[Body(r).expects]
       /\ request[r].at \in Inside => durable
       /\ At(r, "pay") => ~durable /\ request[r].leg >= 1
       /\ At(r, "done") => request[r].answer \in {Refused, ConfirmedFill(Body(r))}

\* What a client was told of is the stored replay of its key.
AnswersStored ==
  durable => \A r \in Requests : At(r, "done") /\ request[r].answer # Refused =>
    replays[Body(r).key] # None /\ request[r].answer = replays[Body(r).key].fill

\* The switch waits for the transaction that has read it.
SwitchWaits == durable /\ ControlLocked => ~paused

ExecutionInv ==
  /\ ExecutionTypeOK /\ RecordsFormed /\ CallsFormed /\ SettledAsRecorded
  /\ AnswersStored /\ SwitchWaits

---------------------------------------------------------------------------
(* Fills, fees and transfers.                                               *)

FillRow == [order : Orders, side : Sides, quantity : Nat \ {0}, price : Nat \ {0}]
LegRow == [name : {"notional", "asset", "fee"}, from : Accounts, to : Accounts,
           asset : Assets, amount : Int]

(* The fill of a body is a row, and no marker of a missing one.             *)
LEMMA FillFacts ==
  ASSUME NEW b \in Bodies
  PROVE  /\ b.key \in Keys /\ b.order \in Orders
         /\ Price[b.expects] \in Nat \ {0}
         /\ ConfirmedFill(b) \in FillRow /\ ConfirmedFill(b) \in ConfirmedFills
         /\ ConfirmedFill(b) # None
         /\ ConfirmedFill(b).order = b.order
         /\ ConfirmedFill(b).price = Price[b.expects]
<1>1. /\ b \in [key : Keys, order : Orders, side : Sides, quantity : Nat \ {0},
                expects : 1..MaxTicks, mine : BOOLEAN]
  BY ExecutionAssumption
<1>2. Price[b.expects] \in Nat \ {0}
  BY <1>1, ExecutionAssumption
<1> DEFINE f == ConfirmedFill(b)
<1>3. f = [order |-> b.order, side |-> b.side, quantity |-> b.quantity, price |-> Price[b.expects]]
  BY DEF ConfirmedFill, Fill
<1>4. f \in FillRow
  BY <1>1, <1>2, <1>3 DEF FillRow
<1>5. f \in [order : Orders, side : Sides, quantity : Nat, price : Nat]
  BY <1>1, <1>2, <1>3
<1>6. f # None
  BY <1>5, ExecutionAssumption
<1>7. f \in ConfirmedFills
  BY DEF ConfirmedFills
<1> QED
  BY <1>1, <1>2, <1>3, <1>4, <1>6, <1>7

(* Every stored fill is such a row.                                         *)
LEMMA ConfirmedFacts ==
  /\ ConfirmedFills \subseteq FillRow /\ None \notin ConfirmedFills
  /\ None \notin Replay /\ None \notin Bodies
<1>1. ConfirmedFills \subseteq FillRow /\ None \notin ConfirmedFills
  BY FillFacts DEF ConfirmedFills
<1>2. Replay \subseteq [body : Bodies,
                        fill : [order : Orders, side : Sides, quantity : Nat, price : Nat]]
  <2>1. FillRow \subseteq [order : Orders, side : Sides, quantity : Nat, price : Nat]
    BY DEF FillRow
  <2> QED
    BY <1>1, <2>1 DEF Replay
<1> QED
  BY <1>1, <1>2, ExecutionAssumption

(* What a fill costs is a natural number.                                   *)
LEMMA FeeTyped ==
  ASSUME NEW f \in FillRow
  PROVE  Notional(f) \in Nat /\ Fee(f) \in Nat
<1>1. f.quantity \in Nat /\ f.price \in Nat /\ FeePercent \in Nat
  BY ExecutionAssumption DEF FillRow
<1>2. Notional(f) \in Nat
  BY <1>1 DEF Notional
<1>3. Notional(f) * FeePercent \in Nat
  BY <1>1, <1>2
<1> QED
  BY <1>2, <1>3 DEF Fee

(* The transfers of a fill: two between user and liquidity, and its fee,    *)
(* where there is one, from liquidity to the fees.                          *)
LEMMA LegsFormed ==
  ASSUME NEW f \in FillRow
  PROVE  /\ Legs(f) \in Seq(LegRow)
         /\ Len(Legs(f)) = IF Fee(f) = 0 THEN 2 ELSE 3
         /\ \A n \in 1..2 : LET l == Legs(f)[n] IN
              l \in LegRow /\ l.from # l.to /\ l.from # "fees" /\ l.to # "fees"
         /\ Fee(f) # 0 => LET l == Legs(f)[3] IN
              /\ l \in LegRow /\ l.from = "liquidity" /\ l.to = "fees"
              /\ l.asset = "quote" /\ l.amount = Fee(f)
<1>1. /\ Notional(f) \in Nat /\ Fee(f) \in Nat /\ f.quantity \in Nat
  BY FeeTyped DEF FillRow
<1> DEFINE buy1 == Leg("notional", "user", "liquidity", "quote", Notional(f) + Fee(f))
           buy2 == Leg("asset", "liquidity", "user", "base", f.quantity)
           sell1 == Leg("asset", "user", "liquidity", "base", f.quantity)
           sell2 == Leg("notional", "liquidity", "user", "quote", Notional(f) - Fee(f))
           fee == Leg("fee", "liquidity", "fees", "quote", Fee(f))
           one == IF f.side = "BUY" THEN buy1 ELSE sell1
           two == IF f.side = "BUY" THEN buy2 ELSE sell2
           last == IF Fee(f) = 0 THEN << >> ELSE <<fee>>
<1>2. /\ one \in LegRow /\ two \in LegRow /\ fee \in LegRow
      /\ one.from # one.to /\ one.from # "fees" /\ one.to # "fees"
      /\ two.from # two.to /\ two.from # "fees" /\ two.to # "fees"
      /\ fee.from = "liquidity" /\ fee.to = "fees" /\ fee.asset = "quote" /\ fee.amount = Fee(f)
  BY <1>1 DEF Leg, LegRow, Accounts, Assets
<1>3. Legs(f) = <<one, two>> \o last
  BY DEF Legs
<1> HIDE DEF one, two, fee
<1>4. /\ <<one, two>> \in Seq(LegRow) /\ Len(<<one, two>>) = 2
      /\ <<one, two>>[1] = one /\ <<one, two>>[2] = two
  BY <1>2
<1>5. CASE Fee(f) = 0
  <2>1. last = << >> /\ Legs(f) = <<one, two>>
    BY <1>3, <1>5
  <2>2. \A n \in 1..2 : Legs(f)[n] = one \/ Legs(f)[n] = two
    BY <1>4, <2>1
  <2> QED
    BY <1>2, <1>4, <1>5, <2>1, <2>2
<1>6. CASE Fee(f) # 0
  <2>1. Legs(f) = <<one, two>> \o <<fee>>
    BY <1>3, <1>6
  <2>2. /\ Legs(f) \in Seq(LegRow) /\ Len(Legs(f)) = 3
        /\ Legs(f)[1] = one /\ Legs(f)[2] = two /\ Legs(f)[3] = fee
    BY <1>2, <2>1
  <2>3. \A n \in 1..2 : Legs(f)[n] = one \/ Legs(f)[n] = two
    BY <2>2
  <2> QED
    BY <1>2, <1>6, <2>2, <2>3
<1> QED
  BY <1>5, <1>6

(* Funds: integers per account and asset.                                   *)
Funds == [Accounts -> [Assets -> Int]]

(* A transfer takes its amount from one account, gives it to the other and  *)
(* leaves the rest.                                                         *)
LEMMA MovedMoves ==
  ASSUME NEW funds \in Funds, NEW l, l.from \in Accounts, l.to \in Accounts,
         l.from # l.to, l.asset \in Assets, l.amount \in Int
  PROVE  /\ Moved(funds, l) \in Funds
         /\ \A a \in Accounts, x \in Assets :
              Moved(funds, l)[a][x] =
                IF x = l.asset /\ a = l.from THEN funds[a][x] - l.amount
                ELSE IF x = l.asset /\ a = l.to THEN funds[a][x] + l.amount
                ELSE funds[a][x]
         /\ \A x \in Assets : Total(Moved(funds, l), x) = Total(funds, x)
<1>1. /\ Moved(funds, l) \in Funds
      /\ \A a \in Accounts, x \in Assets :
              Moved(funds, l)[a][x] =
                IF x = l.asset /\ a = l.from THEN funds[a][x] - l.amount
                ELSE IF x = l.asset /\ a = l.to THEN funds[a][x] + l.amount
                ELSE funds[a][x]
  BY DEF Moved, Funds
<1>2. \A a \in Accounts, x \in Assets : funds[a][x] \in Int
  BY DEF Funds
<1>3. {"user", "liquidity", "fees", "elsewhere"} \subseteq Accounts
  BY DEF Accounts
<1>4. ASSUME NEW x \in Assets PROVE Total(Moved(funds, l), x) = Total(funds, x)
  BY <1>1, <1>2 DEF Total, Accounts
<1> QED
  BY <1>1, <1>4

(* No account goes below zero by a transfer it can afford.                  *)
LEMMA MovedAffordably ==
  ASSUME NEW funds \in [Accounts -> [Assets -> Nat]], NEW l, l.from \in Accounts,
         l.to \in Accounts, l.from # l.to, l.asset \in Assets, l.amount \in Int,
         Affordable(funds, l)
  PROVE  Moved(funds, l) \in [Accounts -> [Assets -> Nat]]
<1>1. funds \in Funds /\ \A a \in Accounts, x \in Assets : funds[a][x] \in Nat
  BY DEF Funds
<1>2. l.amount > 0 /\ funds[l.from][l.asset] >= l.amount
  BY DEF Affordable
<1>3. Moved(funds, l) \in Funds
  BY <1>1, MovedMoves
<1>4. \A a \in Accounts, x \in Assets : Moved(funds, l)[a][x] \in Nat
  BY <1>1, <1>2, MovedMoves
<1> QED
  BY <1>3, <1>4 DEF Funds

(* The funds after each of two or three transfers.                          *)
LEMMA AfterLegsUnfold ==
  ASSUME NEW legs, Len(legs) \in {2, 3}
  PROVE  /\ AfterLegs(legs)[0] = balances
         /\ \A n \in 1..Len(legs) :
              AfterLegs(legs)[n] = Moved(AfterLegs(legs)[n - 1], legs[n])
<1> DEFINE Next1(g, n) == IF n = 0 THEN balances ELSE Moved(g[n - 1], legs[n])
           Solves(g) == g = [n \in 0..Len(legs) |-> Next1(g, n)]
           one == Moved(balances, legs[1])
           two == Moved(one, legs[2])
           h == [n \in 0..Len(legs) |-> IF n = 0 THEN balances
                                        ELSE IF n = 1 THEN one
                                        ELSE IF n = 2 THEN two ELSE Moved(two, legs[3])]
<1>1. Solves(h)
  <2>1. 0..Len(legs) \subseteq {0, 1, 2, 3} /\ {0, 1, 2} \subseteq 0..Len(legs)
    <3> DEFINE m == Len(legs)
    <3>1. m = 2 \/ m = 3
      OBVIOUS
    <3> HIDE DEF m
    <3>2. 0..m \subseteq {0, 1, 2, 3} /\ {0, 1, 2} \subseteq 0..m
      BY <3>1
    <3> QED
      BY <3>2 DEF m
  <2>2. h[0] = balances /\ h[1] = one /\ h[2] = two
    BY <2>1
  <2>3. \A n \in 0..Len(legs) : h[n] = Next1(h, n)
    <3> SUFFICES ASSUME NEW n \in 0..Len(legs) PROVE h[n] = Next1(h, n)
      OBVIOUS
    <3>1. CASE n = 0
      BY <2>2, <3>1
    <3>2. CASE n = 1
      BY <2>2, <3>2
    <3>3. CASE n = 2
      BY <2>2, <3>3
    <3>4. CASE n = 3
      <4>1. h[3] = Moved(two, legs[3])
        BY <3>4
      <4>2. n - 1 = 2
        BY <3>4
      <4> HIDE DEF h, one, two
      <4> QED
        BY <2>2, <3>4, <4>1, <4>2
    <3> QED
      BY <2>1, <3>1, <3>2, <3>3, <3>4
  <2>4. h = [n \in 0..Len(legs) |-> h[n]]
    OBVIOUS
  <2> HIDE DEF h, Next1
  <2> QED
    BY <2>3, <2>4
<1>2. AfterLegs(legs) = CHOOSE g : Solves(g)
  BY Zenon DEF AfterLegs
<1>3. Solves(AfterLegs(legs))
  <2> HIDE DEF Solves, h
  <2> QED
    BY <1>1, <1>2
<1>4. \A n \in 0..Len(legs) : AfterLegs(legs)[n] = Next1(AfterLegs(legs), n)
  <2> DEFINE g == AfterLegs(legs)
  <2>1. g = [n \in 0..Len(legs) |-> Next1(g, n)]
    BY <1>3
  <2> HIDE DEF g, Next1
  <2>2. \A n \in 0..Len(legs) : g[n] = Next1(g, n)
    BY <2>1
  <2> QED
    BY <2>2 DEF g
<1> QED
  BY <1>4

(* Funds that can pay for the transfers of a fill one after the other: the  *)
(* accounts stay covered, nothing is lost, and the fees grow by the fee.    *)
LEMMA LegsSettle ==
  ASSUME balances \in [Accounts -> [Assets -> Nat]], NEW f \in FillRow,
         \A n \in 1..Len(Legs(f)) : Affordable(AfterLegs(Legs(f))[n - 1], Legs(f)[n])
  PROVE  LET paid == AfterLegs(Legs(f))[Len(Legs(f))]
         IN /\ paid \in [Accounts -> [Assets -> Nat]]
            /\ \A x \in Assets : Total(paid, x) = Total(balances, x)
            /\ paid["fees"]["quote"] = balances["fees"]["quote"] + Fee(f)
<1> DEFINE legs == Legs(f)
           funds == AfterLegs(legs)
           Rich == [Accounts -> [Assets -> Nat]]
<1>1. /\ Len(legs) = IF Fee(f) = 0 THEN 2 ELSE 3
      /\ \A n \in 1..2 : LET l == legs[n] IN
           l \in LegRow /\ l.from # l.to /\ l.from # "fees" /\ l.to # "fees"
      /\ Fee(f) # 0 => LET l == legs[3] IN
           /\ l \in LegRow /\ l.from = "liquidity" /\ l.to = "fees"
           /\ l.asset = "quote" /\ l.amount = Fee(f)
  BY LegsFormed
<1>2. Len(legs) \in {2, 3} /\ {1, 2} \subseteq 1..Len(legs)
  BY <1>1
<1>3. /\ funds[0] = balances
      /\ \A n \in 1..Len(legs) : funds[n] = Moved(funds[n - 1], legs[n])
  BY <1>2, AfterLegsUnfold
<1>4. ASSUME NEW n \in 1..Len(legs), funds[n - 1] \in Rich, legs[n] \in LegRow,
             legs[n].from # legs[n].to
      PROVE  /\ funds[n] \in Rich
             /\ \A x \in Assets : Total(funds[n], x) = Total(funds[n - 1], x)
             /\ \A a \in Accounts, x \in Assets :
                  funds[n][a][x] =
                    IF x = legs[n].asset /\ a = legs[n].from THEN funds[n - 1][a][x] - legs[n].amount
                    ELSE IF x = legs[n].asset /\ a = legs[n].to THEN funds[n - 1][a][x] + legs[n].amount
                    ELSE funds[n - 1][a][x]
  <2> DEFINE l == legs[n]  before == funds[n - 1]
  <2>1. /\ l.from \in Accounts /\ l.to \in Accounts /\ l.from # l.to
        /\ l.asset \in Assets /\ l.amount \in Int
    BY <1>4 DEF LegRow
  <2>2. Affordable(before, l)
    OBVIOUS
  <2>3. funds[n] = Moved(before, l)
    BY <1>3
  <2>4. before \in Rich /\ before \in Funds
    BY <1>4 DEF Funds
  <2> HIDE DEF l, before, funds, legs
  <2>5. Moved(before, l) \in Rich
    BY <2>1, <2>2, <2>4, MovedAffordably
  <2>6. /\ \A x \in Assets : Total(Moved(before, l), x) = Total(before, x)
        /\ \A a \in Accounts, x \in Assets :
             Moved(before, l)[a][x] =
               IF x = l.asset /\ a = l.from THEN before[a][x] - l.amount
               ELSE IF x = l.asset /\ a = l.to THEN before[a][x] + l.amount
               ELSE before[a][x]
    BY <2>1, <2>4, MovedMoves, ZenonT(60)
  <2> QED
    BY <2>3, <2>5, <2>6 DEF l, before
<1>5. "fees" \in Accounts /\ "quote" \in Assets
  BY DEF Accounts, Assets
<1> HIDE DEF legs, funds, Rich
<1>6. /\ funds[1] \in Rich /\ funds[1]["fees"]["quote"] = balances["fees"]["quote"]
      /\ \A x \in Assets : Total(funds[1], x) = Total(balances, x)
  <2>1. funds[0] \in Rich /\ 1 \in 1..Len(legs) /\ 1 \in 1..2 /\ 1 - 1 = 0
    BY <1>2, <1>3 DEF Rich
  <2> QED
    BY <1>1, <1>3, <1>4, <1>5, <2>1
<1>7. /\ funds[2] \in Rich /\ funds[2]["fees"]["quote"] = balances["fees"]["quote"]
      /\ \A x \in Assets : Total(funds[2], x) = Total(balances, x)
  <2>1. 2 \in 1..Len(legs) /\ 2 \in 1..2 /\ 2 - 1 = 1
    BY <1>2
  <2> QED
    BY <1>1, <1>4, <1>5, <1>6, <2>1
<1>8. balances["fees"]["quote"] \in Nat /\ Fee(f) \in Nat
  BY <1>5, FeeTyped
<1>9. CASE Fee(f) = 0
  BY <1>1, <1>7, <1>8, <1>9 DEF legs, funds, Rich
<1>10. CASE Fee(f) # 0
  <2>1. 3 \in 1..Len(legs) /\ 3 - 1 = 2 /\ Len(legs) = 3
    BY <1>1, <1>10
  <2>2. funds[2] \in Rich /\ legs[3] \in LegRow /\ legs[3].from # legs[3].to
    BY <1>1, <1>7, <1>10
  <2>3. /\ funds[3] \in Rich
        /\ \A x \in Assets : Total(funds[3], x) = Total(funds[2], x)
        /\ funds[3]["fees"]["quote"] = funds[2]["fees"]["quote"] + Fee(f)
    BY <1>1, <1>4, <1>5, <1>10, <2>1, <2>2
  <2> QED
    BY <1>7, <2>1, <2>3 DEF legs, funds, Rich
<1> QED
  BY <1>9, <1>10

(* What the invariant says of one call.                                     *)
WellCalled(c) ==
  /\ c \in Call
  /\ c.at # "idle" => c.body \in Bodies
  /\ c.at \in {"liquidity", "commit", "control", "settle", "pay"} =>
       c.price = Price[c.body.expects]
  /\ c.at \in Inside => durable
  /\ c.at = "settle" => ~paused
  /\ c.at = "pay" => ~durable /\ c.leg >= 1
  /\ c.at = "done" => c.answer \in {Refused, ConfirmedFill(c.body)}
  /\ c.at = "done" /\ durable /\ c.answer # Refused =>
       replays[c.body.key] # None /\ c.answer = replays[c.body.key].fill

CallsWell ==
  request \in [Requests -> Call] /\ \A r \in Requests : WellCalled(request[r])

(* The invariant's conjuncts on calls, call by call.                        *)
LEMMA CallsAreWell == CallsFormed /\ AnswersStored /\ SwitchWaits <=> CallsWell
<1>1. CallsFormed /\ AnswersStored /\ SwitchWaits => CallsWell
  BY DEF CallsFormed, AnswersStored, SwitchWaits, CallsWell, WellCalled, At, Body,
         Inside, ControlLocked
<1>2. CallsWell => CallsFormed
  BY DEF CallsFormed, CallsWell, WellCalled, At, Body
<1>3. CallsWell => AnswersStored /\ SwitchWaits
  BY DEF AnswersStored, SwitchWaits, CallsWell, WellCalled, At, Body, Inside, ControlLocked
<1> QED
  BY <1>1, <1>2, <1>3

(* The same, one state later.                                               *)
LEMMA CallsStayWell ==
  CallsWell' => CallsFormed' /\ AnswersStored' /\ SwitchWaits'
<1>1. CallsWell' => CallsFormed'
  BY DEF CallsFormed, CallsWell, WellCalled, At, Body
<1>2. CallsWell' => AnswersStored' /\ SwitchWaits'
  BY DEF AnswersStored, SwitchWaits, CallsWell, WellCalled, At, Body, Inside, ControlLocked
<1> QED
  BY <1>1, <1>2

(* The initial tables and calls meet the inductive invariant.               *)
LEMMA ExecutionInitInv == ExecutionInit => ExecutionInv
<1> SUFFICES ASSUME ExecutionInit PROVE ExecutionInv
  OBVIOUS
<1>1. /\ \A o \in Orders : fills[o] = None /\ applied[o] = {}
      /\ \A k \in Keys : replays[k] = None
      /\ \A r \in Requests : request[r] = Waiting
  BY DEF ExecutionInit
<1>2. Filled = {}
  BY <1>1 DEF Filled
<1>3. "user" \in Accounts /\ "liquidity" \in Accounts /\ "fees" \in Accounts /\ "elsewhere" \in Accounts
      /\ "base" \in Assets /\ "quote" \in Assets
  BY DEF Accounts, Assets
<1>4. /\ balances \in [Accounts -> [Assets -> Nat]]
      /\ balances["user"] = UserFunds /\ balances["liquidity"] = SystemFunds
      /\ \A x \in Assets : balances["fees"][x] = 0 /\ balances["elsewhere"][x] = 0
  BY <1>3, ExecutionAssumption DEF ExecutionInit
<1>5. \A x \in Assets : Total(balances, x) = UserFunds[x] + SystemFunds[x]
  <2> SUFFICES ASSUME NEW x \in Assets PROVE Total(balances, x) = UserFunds[x] + SystemFunds[x]
    OBVIOUS
  <2>1. UserFunds[x] \in Nat /\ SystemFunds[x] \in Nat
    BY ExecutionAssumption
  <2> QED
    BY <1>4, <2>1 DEF Total
<1>6. RecordsFormed
  <2>1. durable \in BOOLEAN /\ IsFiniteSet(Filled)
    BY <1>2, FS_EmptySet DEF ExecutionInit
  <2> QED
    BY <1>1, <2>1 DEF RecordsFormed, ExecutionInit
<1>7. SettledAsRecorded
  <2>1. FeesCharged = 0
    BY <1>2, SumEmpty DEF FeesCharged
  <2> QED
    BY <1>1, <1>2, <1>3, <1>4, <2>1 DEF SettledAsRecorded
<1>8. CallsWell
  <2>1. Waiting \in Call /\ Waiting.at = "idle"
    BY DEF Waiting, Call
  <2>2. \A r \in Requests : WellCalled(request[r])
    BY <1>1, <2>1 DEF WellCalled, Inside
  <2> QED
    BY <2>1, <2>2 DEF CallsWell, ExecutionInit
<1>9. ExecutionTypeOK
  <2>1. /\ catalog \in [Listed -> [status : {"ACTIVE", "INACTIVE"}, price : BOOLEAN, trade : BOOLEAN]
                             \cup {None}]
        /\ \A i \in Listed : catalog[i] # None =>
             /\ catalog[i].trade => catalog[i].price
             /\ catalog[i].price => catalog[i].status = "ACTIVE"
    BY DEF ExecutionInit
  <2>2. /\ tick \in [id : 0..MaxTicks, fresh : BOOLEAN] /\ paused \in BOOLEAN
    <3>1. 1 \in 0..MaxTicks
      BY ExecutionAssumption
    <3> QED
      BY <3>1 DEF ExecutionInit
  <2>3. \A r \in Requests : request[r].body \in Bodies \cup {None}
    BY <1>1 DEF Waiting
  <2> QED
    BY <1>4, <1>5, <2>1, <2>2, <2>3 DEF ExecutionTypeOK
<1> QED
  BY <1>6, <1>7, <1>8, <1>9, CallsAreWell DEF ExecutionInv

(* The tables do not move: neither does what is said of them.               *)
LEMMA TablesRest ==
  ASSUME RecordsFormed, SettledAsRecorded, UNCHANGED <<durable, money>>
  PROVE  RecordsFormed' /\ SettledAsRecorded'
<1>1. /\ durable' = durable /\ balances' = balances /\ applied' = applied
      /\ replays' = replays /\ fills' = fills
  BY DEF money
<1>2. Filled' = Filled /\ FeesCharged' = FeesCharged
  BY <1>1 DEF Filled, FeesCharged
<1>3. RecordsFormed'
  BY <1>1, <1>2 DEF RecordsFormed
<1>4. SettledAsRecorded'
  <2> SUFFICES ASSUME durable' PROVE SettledAsRecorded'
    BY DEF SettledAsRecorded
  <2>1. durable
    BY <1>1
  <2>2. \A o \in Orders :
          applied'[o] = IF fills'[o] = None THEN {}
                        ELSE {Legs(fills'[o])[n].name : n \in 1..Len(Legs(fills'[o]))}
    BY <1>1, <2>1 DEF SettledAsRecorded
  <2>3. balances'["fees"]["quote"] = FeesCharged'
    BY <1>1, <1>2, <2>1 DEF SettledAsRecorded
  <2>4. \A o \in Filled' : \E k \in Keys : replays'[k] # None /\ replays'[k].fill = fills'[o]
    BY <1>1, <1>2, <2>1 DEF SettledAsRecorded
  <2>5. \A k \in Keys : replays'[k] # None => replays'[k].fill = fills'[replays'[k].fill.order]
    BY <1>1, <2>1 DEF SettledAsRecorded
  <2> QED
    BY <2>2, <2>3, <2>4, <2>5 DEF SettledAsRecorded
<1> QED
  BY <1>3, <1>4

(* A call that moves on, and nothing else, keeps the invariant.             *)
LEMMA OneCallMoves ==
  ASSUME ExecutionInv, NEW r \in Requests, NEW c, WellCalled(c),
         request' = [request EXCEPT ![r] = c], UNCHANGED <<durable, money, world>>
  PROVE  ExecutionInv'
<1>1. CallsWell /\ RecordsFormed /\ SettledAsRecorded /\ ExecutionTypeOK
  BY CallsAreWell DEF ExecutionInv
<1>2. /\ durable' = durable /\ replays' = replays /\ paused' = paused
      /\ catalog' = catalog /\ tick' = tick /\ balances' = balances
  BY DEF money, world
<1>3. c \in Call
  BY DEF WellCalled
<1>4. /\ request' \in [Requests -> Call]
      /\ \A q \in Requests : WellCalled(request'[q])
  BY <1>1, <1>3 DEF CallsWell
<1>5. CallsWell'
  BY <1>2, <1>4 DEF CallsWell, WellCalled
<1>6. RecordsFormed' /\ SettledAsRecorded'
  BY <1>1, TablesRest
<1>7. ExecutionTypeOK'
  <2>1. \A q \in Requests : request'[q].body \in Bodies \cup {None}
    BY <1>4 DEF Call
  <2>2. \A x \in Assets : Total(balances', x) = UserFunds[x] + SystemFunds[x]
    BY <1>1, <1>2 DEF ExecutionTypeOK
  <2> QED
    BY <1>1, <1>2, <2>1, <2>2 DEF ExecutionTypeOK
<1> QED
  BY <1>5, <1>6, <1>7, CallsStayWell DEF ExecutionInv

(* A replay is answered with the fill of its key, or refused.               *)
LEMMA ReplayedFacts ==
  ASSUME RecordsFormed, NEW b \in Bodies, replays[b.key] # None
  PROVE  /\ Replayed(b) \in {Refused, ConfirmedFill(b)}
         /\ Replayed(b) # Refused => Replayed(b) = replays[b.key].fill
<1>1. b.key \in Keys
  BY FillFacts
<1>2. replays[b.key].fill = ConfirmedFill(replays[b.key].body)
  BY <1>1 DEF RecordsFormed
<1> QED
  BY <1>1, <1>2 DEF Replayed

(* A call refused, or answered with the replay of its key, is well.         *)
LEMMA WellAnswered ==
  ASSUME RecordsFormed, NEW c \in Call, NEW b \in Bodies, c.body = b, NEW a,
         a \in {Refused, ConfirmedFill(b)},
         a # Refused => replays[b.key] # None /\ a = replays[b.key].fill
  PROVE  WellCalled([c EXCEPT !.at = "done", !.answer = a])
<1> DEFINE d == [c EXCEPT !.at = "done", !.answer = a]
<1>1. ConfirmedFill(b) \in ConfirmedFills
  BY FillFacts
<1>2. d \in Call /\ d.at = "done" /\ d.body = b /\ d.answer = a
  BY <1>1 DEF Call
<1> HIDE DEF d
<1>3. d.at \notin Inside
  BY <1>2 DEF Inside
<1>4. WellCalled(d)
  BY <1>2, <1>3 DEF WellCalled
<1> QED
  BY <1>4 DEF d

(* A call that stays on its way, with what it has read.                     *)
LEMMA CallFacts ==
  ASSUME ExecutionInv, NEW r \in Requests
  PROVE  /\ request[r] \in Call /\ WellCalled(request[r]) /\ RecordsFormed
         /\ ~At(r, "idle") => request[r].body \in Bodies
  BY CallsAreWell DEF ExecutionInv, CallsWell, WellCalled, At

(* Refusing a call keeps the invariant.                                     *)
LEMMA RefusedInv ==
  ASSUME ExecutionInv, NEW r \in Requests, ~At(r, "idle"), Replies(r, Refused),
         UNCHANGED <<durable, money, world>>
  PROVE  ExecutionInv'
<1> DEFINE c == request[r]
<1>1. c \in Call /\ c.body \in Bodies /\ RecordsFormed
  BY CallFacts
<1>2. request' = [request EXCEPT ![r] = [c EXCEPT !.at = "done", !.answer = Refused]]
  BY DEF Replies
<1> HIDE DEF c
<1>3. WellCalled([c EXCEPT !.at = "done", !.answer = Refused])
  BY <1>1, WellAnswered
<1> QED
  BY <1>2, <1>3, OneCallMoves

(* Answering a call with the replay of its key keeps the invariant.         *)
LEMMA ReplayedInv ==
  ASSUME ExecutionInv, NEW r \in Requests, ~At(r, "idle"),
         replays[Body(r).key] # None, Replies(r, Replayed(Body(r))),
         UNCHANGED <<durable, money, world>>
  PROVE  ExecutionInv'
<1> DEFINE c == request[r]  b == request[r].body
<1>1. c \in Call /\ b \in Bodies /\ c.body = b /\ RecordsFormed
  BY CallFacts
<1>2. request' = [request EXCEPT ![r] = [c EXCEPT !.at = "done", !.answer = Replayed(b)]]
  BY DEF Replies, Body
<1>3. replays[b.key] # None
  BY DEF Body
<1> HIDE DEF c, b
<1>4. WellCalled([c EXCEPT !.at = "done", !.answer = Replayed(b)])
  BY <1>1, <1>3, ReplayedFacts, WellAnswered
<1> QED
  BY <1>2, <1>4, OneCallMoves

(* A call that goes on to its next place keeps the invariant, if it may be  *)
(* there.                                                                   *)
LEMMA ProceedsInv ==
  ASSUME ExecutionInv, NEW r \in Requests, NEW place, ~At(r, "idle"),
         Proceeds(r, place), UNCHANGED <<durable, money, world>>,
         \/ place \in {"instrument", "price"}
         \/ /\ place \in {"commit", "control", "settle"}
            /\ request[r].at \in {"liquidity", "commit", "control", "settle"}
            /\ place \in {"control", "settle"} => durable
            /\ place = "settle" => ~paused
  PROVE  ExecutionInv'
<1> DEFINE c == request[r]  d == [c EXCEPT !.at = place]
<1>1. c \in Call /\ WellCalled(c) /\ c.body \in Bodies
  BY CallFacts
<1>2. d \in Call /\ d.at = place /\ d.body = c.body /\ d.price = c.price
  BY <1>1 DEF Call
<1>3. request' = [request EXCEPT ![r] = d]
  BY DEF Proceeds
<1>4. c.at \in {"liquidity", "commit", "control", "settle"} => c.price = Price[c.body.expects]
  BY <1>1 DEF WellCalled
<1>5. place # "idle" /\ place # "pay" /\ place # "done"
      /\ (place \in Inside => durable)
  BY DEF Inside
<1> HIDE DEF c, d
<1>6. place \in {"liquidity", "commit", "control", "settle", "pay"} =>
        d.price = Price[d.body.expects]
  BY <1>2, <1>4 DEF c
<1>7. WellCalled(d)
  BY <1>1, <1>2, <1>5, <1>6 DEF WellCalled
<1> QED
  BY <1>3, <1>7, OneCallMoves

(* Every step of execute() up to the transfers keeps the invariant.         *)
LEMMA CallStepInv ==
  ASSUME ExecutionInv, NEW r \in Requests,
         \/ \E b \in Bodies : execute(r, b)
         \/ isPaused(r) \/ GetInstrument(r) \/ GetLatest(r) \/ ensureLiquidity(r)
         \/ BeginCommit(r) \/ LockControl(r) \/ Conflict(r) \/ Crash(r)
         \/ BeginMemoryCommit(r)
  PROVE  ExecutionInv'
<1> DEFINE c == request[r]
<1>1. c \in Call /\ WellCalled(c) /\ RecordsFormed
  BY CallFacts
<1>2. ASSUME NEW b \in Bodies, execute(r, b) PROVE ExecutionInv'
  <2> DEFINE d == [c EXCEPT !.body = b]
  <2>1. d \in Call /\ d.body = b
    BY <1>1 DEF Call
  <2>2. CASE replays[b.key] # None
    <3>1. request' = [request EXCEPT ![r] = [c EXCEPT !.at = "done", !.body = b, !.answer = Replayed(b)]]
      BY <1>2, <2>2 DEF execute
    <3>2. [c EXCEPT !.at = "done", !.body = b, !.answer = Replayed(b)]
            = [d EXCEPT !.at = "done", !.answer = Replayed(b)]
      BY <1>1 DEF Call
    <3> HIDE DEF c, d
    <3>3. WellCalled([d EXCEPT !.at = "done", !.answer = Replayed(b)])
      BY <1>1, <2>1, <2>2, ReplayedFacts, WellAnswered
    <3>4. UNCHANGED <<durable, money, world>>
      BY <1>2 DEF execute
    <3> QED
      BY <3>1, <3>2, <3>3, <3>4, OneCallMoves
  <2>3. CASE replays[b.key] = None
    <3> DEFINE e == [c EXCEPT !.at = "pause", !.body = b]
    <3>1. request' = [request EXCEPT ![r] = e] /\ UNCHANGED <<durable, money, world>>
      BY <1>2, <2>3 DEF execute
    <3>2. e \in Call /\ e.at = "pause" /\ e.body = b
      BY <1>1 DEF Call
    <3> HIDE DEF e
    <3>3. WellCalled(e)
      BY <3>2 DEF WellCalled, Inside
    <3> QED
      BY <3>1, <3>3, OneCallMoves
  <2> QED
    BY <2>2, <2>3
<1>3. CASE isPaused(r)
  BY <1>3, RefusedInv, ProceedsInv DEF isPaused, At
<1>4. CASE GetInstrument(r)
  BY <1>4, RefusedInv, ProceedsInv DEF GetInstrument, At
<1>5. CASE GetLatest(r)
  <2>1. CASE Confirmed(Body(r))
    <3> DEFINE d == [c EXCEPT !.at = "liquidity", !.price = Price[tick.id]]
    <3>1. request' = [request EXCEPT ![r] = d] /\ UNCHANGED <<durable, money, world>>
      BY <1>5, <2>1 DEF GetLatest
    <3>2. c.body \in Bodies /\ tick.id = c.body.expects
      BY <1>5, <2>1, CallFacts DEF GetLatest, At, Confirmed, Body
    <3>3. Price[c.body.expects] \in Nat
      BY <3>2, FillFacts
    <3>4. /\ d \in Call /\ d.at = "liquidity" /\ d.body = c.body
          /\ d.price = Price[d.body.expects]
      BY <1>1, <3>2, <3>3 DEF Call
    <3> HIDE DEF d
    <3>5. WellCalled(d)
      BY <3>2, <3>4 DEF WellCalled, Inside
    <3> QED
      BY <3>1, <3>5, OneCallMoves
  <2> QED
    BY <1>5, <2>1, RefusedInv DEF GetLatest, At
<1>6. CASE ensureLiquidity(r)
  BY <1>6, RefusedInv, ProceedsInv DEF ensureLiquidity, At
<1>7. CASE BeginCommit(r)
  <2>1. CASE replays[Body(r).key] # None
    BY <1>7, <2>1, ReplayedInv DEF BeginCommit, At
  <2>2. CASE replays[Body(r).key] = None
    BY <1>7, <2>2, RefusedInv, ProceedsInv DEF BeginCommit, At
  <2> QED
    BY <2>1, <2>2
<1>8. CASE LockControl(r)
  BY <1>8, RefusedInv, ProceedsInv DEF LockControl, At
<1>9. CASE Conflict(r)
  BY <1>9, RefusedInv, ProceedsInv DEF Conflict, At, Inside
<1>10. CASE Crash(r)
  <2>1. WellCalled(Waiting)
    BY DEF Waiting, WellCalled, Call, Inside
  <2> QED
    BY <1>10, <2>1, OneCallMoves DEF Crash
<1>11. CASE BeginMemoryCommit(r)
  <2>1. CASE replays[Body(r).key] # None
    BY <1>11, <2>1, ReplayedInv DEF BeginMemoryCommit, At
  <2>2. CASE replays[Body(r).key] = None /\ (paused \/ fills[Body(r).order] # None)
    BY <1>11, <2>2, RefusedInv DEF BeginMemoryCommit, At
  <2>3. CASE replays[Body(r).key] = None /\ ~(paused \/ fills[Body(r).order] # None)
    <3> DEFINE d == [c EXCEPT !.at = "pay", !.leg = 1]
    <3>1. request' = [request EXCEPT ![r] = d] /\ UNCHANGED <<durable, money, world>>
      BY <1>11, <2>3 DEF BeginMemoryCommit
    <3>2. c.at = "commit" /\ ~durable
      BY <1>11 DEF BeginMemoryCommit, At
    <3>3. c.body \in Bodies /\ c.price = Price[c.body.expects]
      BY <1>1, <3>2 DEF WellCalled
    <3>4. /\ d \in Call /\ d.at = "pay" /\ d.body = c.body /\ d.leg = 1
          /\ d.price = c.price
      BY <1>1 DEF Call
    <3> HIDE DEF c, d
    <3>5. WellCalled(d)
      BY <3>2, <3>3, <3>4 DEF WellCalled, Inside
    <3> QED
      BY <3>1, <3>5, OneCallMoves
  <2> QED
    BY <2>1, <2>2, <2>3
<1> QED
  BY <1>2, <1>3, <1>4, <1>5, <1>6, <1>7, <1>8, <1>9, <1>10, <1>11

(* The rows of a fill are stored.                                           *)
LEMMA RecordsGrow ==
  ASSUME RecordsFormed, NEW b \in Bodies,
         replays' = [replays EXCEPT ![b.key] = [body |-> b, fill |-> ConfirmedFill(b)]],
         fills' = [fills EXCEPT ![b.order] = ConfirmedFill(b)],
         applied' \in [Orders -> SUBSET {"notional", "asset", "fee"}],
         durable' = durable
  PROVE  /\ RecordsFormed' /\ Filled' = Filled \cup {b.order}
         /\ replays'[b.key] = [body |-> b, fill |-> ConfirmedFill(b)]
         /\ fills'[b.order] = ConfirmedFill(b)
<1> DEFINE f == ConfirmedFill(b)
<1>1. /\ b.key \in Keys /\ b.order \in Orders /\ f \in ConfirmedFills
      /\ f # None /\ f.order = b.order
  BY FillFacts
<1>2. [body |-> b, fill |-> f] \in Replay
  BY <1>1 DEF Replay
<1>3. replays' = [replays EXCEPT ![b.key] = [body |-> b, fill |-> f]] /\ fills' = [fills EXCEPT ![b.order] = f]
  OBVIOUS
<1>4. f = ConfirmedFill(b)
  OBVIOUS
<1> HIDE DEF f
<1>5. /\ replays \in [Keys -> Replay \cup {None}] /\ fills \in [Orders -> ConfirmedFills \cup {None}]
      /\ \A o \in Orders : fills[o] # None => fills[o].order = o
      /\ \A k \in Keys : replays[k] # None =>
           replays[k].body.key = k /\ replays[k].fill = ConfirmedFill(replays[k].body)
      /\ IsFiniteSet(Filled) /\ durable' \in BOOLEAN
  BY DEF RecordsFormed
<1>6. Filled' = Filled \cup {b.order}
  BY <1>1, <1>3, <1>5 DEF Filled
<1>7. IsFiniteSet(Filled')
  BY <1>5, <1>6, FS_AddElement
<1>8. /\ fills' \in [Orders -> ConfirmedFills \cup {None}]
      /\ \A o \in Orders : fills'[o] # None => fills'[o].order = o
      /\ fills'[b.order] = f
  BY <1>1, <1>3, <1>5
<1>9. /\ replays' \in [Keys -> Replay \cup {None}]
      /\ replays'[b.key] = [body |-> b, fill |-> f]
      /\ \A k \in Keys \ {b.key} : replays'[k] = replays[k]
  BY <1>1, <1>2, <1>3, <1>5
<1>10. \A k \in Keys : replays'[k] # None =>
         replays'[k].body.key = k /\ replays'[k].fill = ConfirmedFill(replays'[k].body)
  BY <1>1, <1>4, <1>5, <1>9
<1> QED
  BY <1>4, <1>5, <1>6, <1>7, <1>8, <1>9, <1>10 DEF RecordsFormed

(* Types are kept by a step that moves funds without losing any and leaves  *)
(* the world alone.                                                         *)
LEMMA TypeKept ==
  ASSUME ExecutionTypeOK, UNCHANGED <<catalog, tick, paused>>,
         balances' \in [Accounts -> [Assets -> Nat]],
         \A x \in Assets : Total(balances', x) = Total(balances, x),
         request' \in [Requests -> Call]
  PROVE  ExecutionTypeOK'
<1>1. \A q \in Requests : request'[q].body \in Bodies \cup {None}
  BY DEF Call
<1>2. \A x \in Assets : Total(balances', x) = UserFunds[x] + SystemFunds[x]
  BY DEF ExecutionTypeOK
<1> QED
  BY <1>1, <1>2 DEF ExecutionTypeOK

(* The answer of a commit is what it has stored.                            *)
LEMMA WellCommitted ==
  ASSUME NEW c \in Call, NEW b \in Bodies, c.body = b,
         replays'[b.key] # None, replays'[b.key].fill = ConfirmedFill(b),
         NEW d, d = [c EXCEPT !.at = "done", !.answer = ConfirmedFill(b)]
  PROVE  d \in Call /\ WellCalled(d)'
<1>1. ConfirmedFill(b) \in ConfirmedFills
  BY FillFacts
<1>2. d \in Call /\ d.at = "done" /\ d.body = b /\ d.answer = ConfirmedFill(b)
  BY <1>1 DEF Call
<1>3. d.at \notin Inside
  BY <1>2 DEF Inside
<1> QED
  BY <1>2, <1>3 DEF WellCalled

(* The transaction of the durable profile: the funds move, the rows are     *)
(* stored and the call is answered, all or nothing.                         *)
LEMMA SettleInv ==
  ASSUME ExecutionInv, NEW r \in Requests, Settle(r)
  PROVE  ExecutionInv'
<1> DEFINE c == request[r]  b == c.body  f == ConfirmedFill(b)
           legs == Legs(f)
           payable == \A n \in 1..Len(legs) : Affordable(AfterLegs(legs)[n - 1], legs[n])
<1>1. /\ c \in Call /\ WellCalled(c) /\ RecordsFormed /\ b \in Bodies
      /\ durable /\ c.at = "settle" /\ ExecutionTypeOK /\ SettledAsRecorded
      /\ CallsWell /\ durable' = durable
  BY CallFacts, CallsAreWell DEF Settle, At, ExecutionInv
<1>2. Fill(Body(r), request[r].price) = f /\ Body(r) = b
  BY <1>1 DEF WellCalled, ConfirmedFill, Body
<1>3. /\ b.key \in Keys /\ b.order \in Orders /\ f \in FillRow /\ f # None
      /\ f \in ConfirmedFills /\ f.order = b.order
  BY <1>1, FillFacts
<1>4. UNCHANGED world
  BY DEF Settle
<1>5. CASE ~(Unique(b) /\ payable)
  <2>1. UNCHANGED money /\ Replies(r, Refused)
    BY <1>2, <1>5 DEF Settle
  <2> QED
    BY <1>1, <1>4, <2>1, RefusedInv DEF At
<1>6. CASE Unique(b) /\ payable
  <2>1. /\ balances' = AfterLegs(legs)[Len(legs)]
        /\ applied' = [applied EXCEPT ![f.order] = {legs[n].name : n \in 1..Len(legs)}]
        /\ replays' = [replays EXCEPT ![b.key] = [body |-> b, fill |-> f]]
        /\ fills' = [fills EXCEPT ![f.order] = f]
        /\ Replies(r, f)
    BY <1>2, <1>6, SMTT(40) DEF Settle
  <2>2. replays[b.key] = None /\ fills[b.order] = None
    BY <1>6 DEF Unique
  <2>3. balances \in [Accounts -> [Assets -> Nat]]
    BY <1>1 DEF ExecutionTypeOK
  <2>4. /\ balances' \in [Accounts -> [Assets -> Nat]]
        /\ \A x \in Assets : Total(balances', x) = Total(balances, x)
        /\ balances'["fees"]["quote"] = balances["fees"]["quote"] + Fee(f)
    BY <1>3, <1>6, <2>1, <2>3, LegsSettle
  <2> DEFINE names == {legs[n].name : n \in 1..Len(legs)}
  <2>5. names \subseteq {"notional", "asset", "fee"}
    <3>1. legs \in Seq(LegRow)
      BY <1>3, LegsFormed
    <3> HIDE DEF legs
    <3>2. \A n \in 1..Len(legs) : legs[n] \in LegRow
      BY <3>1
    <3> QED
      BY <3>2 DEF LegRow
  <2>6. names = {Legs(f)[n].name : n \in 1..Len(Legs(f))}
    OBVIOUS
  <2> HIDE DEF names
  <2>7. applied' = [applied EXCEPT ![b.order] = names]
    BY <1>3, <2>1, <2>6
  <2>8. applied' \in [Orders -> SUBSET {"notional", "asset", "fee"}]
    <3>1. applied \in [Orders -> SUBSET {"notional", "asset", "fee"}]
      BY <1>1 DEF RecordsFormed
    <3> QED
      BY <1>3, <2>5, <2>7, <3>1
  <2>9. /\ replays' = [replays EXCEPT ![b.key] = [body |-> b, fill |-> f]]
        /\ fills' = [fills EXCEPT ![b.order] = f]
    BY <1>3, <2>1
  <2>10. /\ RecordsFormed' /\ Filled' = Filled \cup {b.order}
         /\ replays'[b.key] = [body |-> b, fill |-> f]
         /\ fills'[b.order] = f
    BY <1>1, <2>8, <2>9, RecordsGrow
  <2>11. /\ applied \in [Orders -> SUBSET {"notional", "asset", "fee"}]
         /\ fills \in [Orders -> ConfirmedFills \cup {None}]
         /\ replays \in [Keys -> Replay \cup {None}]
         /\ \A o \in Orders : fills[o] # None => fills[o].order = o
         /\ \A k \in Keys : replays[k] # None => replays[k].fill = ConfirmedFill(replays[k].body)
         /\ IsFiniteSet(Filled)
    BY <1>1 DEF RecordsFormed
  <2> HIDE DEF legs, f, b, c
  <2>12. /\ \A o \in Orders : fills'[o] = IF o = b.order THEN f ELSE fills[o]
         /\ \A o \in Orders : applied'[o] = IF o = b.order THEN names ELSE applied[o]
         /\ \A k \in Keys : replays'[k] = IF k = b.key THEN [body |-> b, fill |-> f] ELSE replays[k]
    BY <2>7, <2>9, <2>11
  <2>13. FeesCharged' = FeesCharged + Fee(f)
    <3> DEFINE old == [o \in Filled |-> Fee(fills[o])]
               new == [o \in Filled' |-> Fee(fills'[o])]
    <3>1. b.order \notin Filled /\ Filled \subseteq Orders
      BY <2>2 DEF Filled
    <3>2. \A o \in Filled : Fee(fills[o]) \in Nat
      <4>1. \A o \in Filled : fills[o] \in FillRow
        BY <2>11, ConfirmedFacts DEF Filled
      <4> QED
        BY <4>1, FeeTyped
    <3>3. \A o \in Filled : old[o] \in Int /\ new[o] = old[o]
      BY <2>10, <2>12, <3>1, <3>2
    <3>4. new[b.order] = Fee(f) /\ Fee(f) \in Int
      <4>1. new[b.order] = Fee(f)
        BY <2>10
      <4>2. Fee(f) \in Nat
        BY <1>3, FeeTyped
      <4> QED
        BY <4>1, <4>2
    <3>5. FeesCharged = SumFunctionOnSet(old, Filled) /\ FeesCharged' = SumFunctionOnSet(new, Filled')
      BY DEF FeesCharged
    <3> HIDE DEF old, new
    <3>6. SumFunctionOnSet(new, Filled') = SumFunctionOnSet(old, Filled) + new[b.order]
      BY <2>10, <2>11, <3>1, <3>3, <3>4, SumGrows
    <3> QED
      BY <3>4, <3>5, <3>6
  <2>14. SettledAsRecorded'
    <3>1. ASSUME NEW o \in Orders
          PROVE  applied'[o] = IF fills'[o] = None THEN {}
                        ELSE {Legs(fills'[o])[n].name : n \in 1..Len(Legs(fills'[o]))}
      <4>1. CASE o = b.order
        <5>1. fills'[o] = f /\ applied'[o] = names /\ f # None
          BY <1>3, <2>12, <4>1
        <5> QED
          BY <2>6, <5>1, Zenon
      <4>2. CASE o # b.order
        <5>1. fills'[o] = fills[o] /\ applied'[o] = applied[o]
          BY <2>12, <4>2
        <5>2. applied[o] = IF fills[o] = None THEN {}
                        ELSE {Legs(fills[o])[n].name : n \in 1..Len(Legs(fills[o]))}
          BY <1>1 DEF SettledAsRecorded
        <5> QED
          BY <5>1, <5>2
      <4> QED
        BY <4>1, <4>2
    <3>2. balances'["fees"]["quote"] = FeesCharged'
      <4>1. balances["fees"]["quote"] = FeesCharged
        BY <1>1 DEF SettledAsRecorded
      <4> QED
        BY <2>4, <2>13, <4>1 DEF f, b, c
    <3>3. ASSUME NEW o \in Filled'
          PROVE  \E k \in Keys : replays'[k] # None /\ replays'[k].fill = fills'[o]
      <4>1. CASE o = b.order
        <5>1. b.key \in Keys /\ replays'[b.key].fill = fills'[o] /\ replays'[b.key] # None
          <6>1. [body |-> b, fill |-> f] \in Replay
            BY <1>1, <1>3 DEF Replay, f, b, c
          <6> QED
            BY <1>3, <2>10, <4>1, <6>1, ConfirmedFacts DEF f, b, c
        <5> QED
          BY <5>1
      <4>2. CASE o # b.order
        <5>1. o \in Filled /\ fills'[o] = fills[o]
          BY <2>10, <2>12, <4>2 DEF Filled
        <5>2. PICK k \in Keys : replays[k] # None /\ replays[k].fill = fills[o]
          BY <1>1, <5>1 DEF SettledAsRecorded
        <5>3. k # b.key
          BY <2>2, <5>2
        <5> QED
          BY <2>12, <5>1, <5>2, <5>3
      <4> QED
        BY <4>1, <4>2
    <3>4. ASSUME NEW k \in Keys, replays'[k] # None
          PROVE  replays'[k].fill = fills'[replays'[k].fill.order]
      <4>1. CASE k = b.key
        <5>1. replays'[k].fill = f
          BY <2>12, <4>1
        <5> QED
          BY <1>3, <2>10, <5>1 DEF f, b, c
      <4>2. CASE k # b.key
        <5>1. replays'[k] = replays[k] /\ replays[k] # None
          BY <2>12, <3>4, <4>2
        <5>2. replays[k].fill = fills[replays[k].fill.order]
          BY <1>1, <5>1 DEF SettledAsRecorded
        <5>3. replays[k].fill # None /\ replays[k].fill.order \in Orders
          <6>1. replays[k] \in Replay
            BY <2>11, <5>1
          <6>2. replays[k].fill \in ConfirmedFills
            BY <6>1 DEF Replay
          <6> QED
            BY <6>2, ConfirmedFacts DEF FillRow
        <5>4. replays[k].fill.order # b.order
          BY <2>2, <5>2, <5>3
        <5> QED
          BY <2>12, <5>1, <5>2, <5>3, <5>4
      <4> QED
        BY <4>1, <4>2
    <3> QED
      BY <3>1, <3>2, <3>3, <3>4 DEF SettledAsRecorded
  <2>15. CallsWell'
    <3> PICK d : d = [c EXCEPT !.at = "done", !.answer = f]
      OBVIOUS
    <3>1. request' = [request EXCEPT ![r] = d]
      BY <2>1 DEF Replies, c
    <3>2. d \in Call /\ WellCalled(d)'
      <4>1. replays'[b.key] # None /\ replays'[b.key].fill = f
        <5>1. [body |-> b, fill |-> f] \in Replay
          BY <1>1, <1>3 DEF Replay
        <5> QED
          BY <2>10, <5>1, ConfirmedFacts
      <4>2. PICK c0, b0, f0 : c0 = c /\ b0 = b /\ f0 = f
        OBVIOUS
      <4>3. /\ c0 \in Call /\ b0 \in Bodies /\ c0.body = b0 /\ f0 = ConfirmedFill(b0)
            /\ replays'[b0.key] # None /\ replays'[b0.key].fill = ConfirmedFill(b0)
            /\ d = [c0 EXCEPT !.at = "done", !.answer = ConfirmedFill(b0)]
        BY <1>1, <4>1, <4>2 DEF f, b
      <4> QED
        BY <4>3, WellCommitted
    <3>3. ASSUME NEW q \in Requests, q # r PROVE WellCalled(request[q])'
      <4> PICK e : e = request[q]
        OBVIOUS
      <4>1. WellCalled(e)
        BY <1>1 DEF CallsWell
      <4>2. request'[q] = e
        BY <1>1, <3>1, <3>3 DEF CallsWell
      <4>3. durable' = durable /\ paused' = paused
        BY <1>1, <1>4 DEF world
      <4>4. e.at = "done" /\ durable /\ e.answer # Refused =>
              replays'[e.body.key] # None /\ e.answer = replays'[e.body.key].fill
        <5> SUFFICES ASSUME e.at = "done", durable, e.answer # Refused
                     PROVE  replays'[e.body.key] # None /\ e.answer = replays'[e.body.key].fill
          OBVIOUS
        <5>1. replays[e.body.key] # None /\ e.answer = replays[e.body.key].fill /\ e.body \in Bodies
          BY <4>1 DEF WellCalled
        <5>2. e.body.key # b.key /\ e.body.key \in Keys
          BY <2>2, <5>1, FillFacts
        <5> QED
          BY <2>12, <5>1, <5>2
      <4> QED
        BY <4>1, <4>2, <4>3, <4>4 DEF WellCalled
    <3>4. request \in [Requests -> Call]
      BY <1>1 DEF CallsWell
    <3>5. request' \in [Requests -> Call] /\ request'[r] = d
      BY <3>1, <3>2, <3>4
    <3>6. WellCalled(request[r])'
      BY <3>2, <3>5 DEF WellCalled
    <3> QED
      BY <3>3, <3>5, <3>6 DEF CallsWell
  <2>16. ExecutionTypeOK'
    BY <1>1, <1>4, <2>4, <2>15, TypeKept DEF world, CallsWell
  <2> QED
    BY <2>10, <2>14, <2>15, <2>16, CallsStayWell DEF ExecutionInv
<1> QED
  BY <1>5, <1>6

(* In the component profile a call of its own moves no other call.          *)
LEMMA MemoryCallMoves ==
  ASSUME CallsWell, ~durable, durable' = durable, paused' = paused,
         NEW r \in Requests, NEW d \in Call, WellCalled(d)',
         request' = [request EXCEPT ![r] = d]
  PROVE  CallsWell'
<1>1. request \in [Requests -> Call]
  BY DEF CallsWell
<1>2. request' \in [Requests -> Call] /\ request'[r] = d
  BY <1>1
<1>3. ASSUME NEW q \in Requests, q # r PROVE WellCalled(request[q])'
  <2> PICK e : e = request[q]
    OBVIOUS
  <2>1. WellCalled(e)
    BY DEF CallsWell
  <2>2. request'[q] = e
    BY <1>1, <1>3
  <2> QED
    BY <2>1, <2>2 DEF WellCalled
<1>4. WellCalled(request[r])'
  BY <1>2 DEF WellCalled
<1> QED
  BY <1>2, <1>3, <1>4 DEF CallsWell

(* One transfer of the component profile: covered by the account it takes   *)
(* from, or not made.                                                       *)
LEMMA PayInv ==
  ASSUME ExecutionInv, NEW r \in Requests, Pay(r)
  PROVE  ExecutionInv'
<1> PICK c : c = request[r]
  OBVIOUS
<1> PICK b : b = c.body
  OBVIOUS
<1> PICK f : f = ConfirmedFill(b)
  OBVIOUS
<1>1. /\ c \in Call /\ WellCalled(c) /\ RecordsFormed /\ b \in Bodies
      /\ ~durable /\ c.at = "pay" /\ ExecutionTypeOK /\ SettledAsRecorded
      /\ CallsWell /\ durable' = durable /\ UNCHANGED world
      /\ replays' = replays /\ fills' = fills
  BY CallFacts, CallsAreWell DEF Pay, At, ExecutionInv
<1>2. Fill(Body(r), request[r].price) = f /\ c.price = Price[b.expects] /\ c.leg >= 1
  BY <1>1 DEF WellCalled, ConfirmedFill, Body
<1>3. b.order \in Orders /\ f \in FillRow /\ f.order = b.order
  BY <1>1, FillFacts
<1>4. c.leg \in 1..Len(Legs(f))
  <2>1. c.leg <= Len(Legs(f))
    BY <1>2 DEF Pay
  <2>2. c.leg \in Nat /\ Len(Legs(f)) \in Nat
    BY <1>1, <1>3, LegsFormed DEF Call
  <2> QED
    BY <1>2, <2>1, <2>2
<1> PICK l : l = Legs(f)[c.leg]
  OBVIOUS
<1>5. l \in LegRow /\ l.from # l.to
  <2> DEFINE m == Len(Legs(f))
  <2>1. m = IF Fee(f) = 0 THEN 2 ELSE 3
    BY <1>3, LegsFormed
  <2>2. c.leg \in 1..m
    BY <1>4
  <2> HIDE DEF m
  <2>3. c.leg \in 1..2 \/ (Fee(f) # 0 /\ c.leg = 3)
    BY <2>1, <2>2
  <2>4. CASE c.leg \in 1..2
    BY <1>3, <2>4, LegsFormed
  <2>5. CASE Fee(f) # 0 /\ c.leg = 3
    <3>1. l = Legs(f)[3]
      BY <2>5
    <3>2. l \in LegRow /\ l.from = "liquidity" /\ l.to = "fees"
      BY <1>3, <2>5, <3>1, LegsFormed
    <3> QED
      BY <3>2
  <2> QED
    BY <2>3, <2>4, <2>5
<1> DEFINE done == l.name \in applied[f.order]
<1>6. CASE ~(done \/ Affordable(balances, l))
  <2>1. UNCHANGED <<balances, applied>> /\ Replies(r, Refused)
    BY <1>2, <1>6 DEF Pay
  <2> QED
    BY <1>1, <2>1, RefusedInv DEF At, money
<1>7. CASE done \/ Affordable(balances, l)
  <2>1. /\ balances' = IF done THEN balances ELSE Moved(balances, l)
        /\ applied' = [applied EXCEPT ![f.order] = @ \cup {l.name}]
        /\ request' = [request EXCEPT ![r].leg = @ + 1]
    BY <1>2, <1>7 DEF Pay
  <2>2. balances \in [Accounts -> [Assets -> Nat]]
    BY <1>1 DEF ExecutionTypeOK
  <2>3. /\ balances' \in [Accounts -> [Assets -> Nat]]
        /\ \A x \in Assets : Total(balances', x) = Total(balances, x)
    <3>1. CASE done
      BY <2>1, <2>2, <3>1
    <3>2. CASE ~done
      <4>1. /\ l.from \in Accounts /\ l.to \in Accounts /\ l.asset \in Assets /\ l.amount \in Int
            /\ Affordable(balances, l) /\ balances' = Moved(balances, l)
        BY <1>5, <1>7, <2>1, <3>2 DEF LegRow
      <4>2. balances \in Funds
        BY <2>2 DEF Funds
      <4> QED
        BY <1>5, <2>2, <4>1, <4>2, MovedMoves, MovedAffordably, SMTT(30)
    <3> QED
      BY <3>1, <3>2
  <2>4. applied' \in [Orders -> SUBSET {"notional", "asset", "fee"}]
    <3>1. applied \in [Orders -> SUBSET {"notional", "asset", "fee"}]
      BY <1>1 DEF RecordsFormed
    <3>2. l.name \in {"notional", "asset", "fee"}
      BY <1>5 DEF LegRow
    <3> QED
      BY <1>3, <2>1, <3>1, <3>2
  <2>5. RecordsFormed'
    <3>1. Filled' = Filled
      BY <1>1 DEF Filled
    <3> QED
      BY <1>1, <2>4, <3>1 DEF RecordsFormed
  <2>6. SettledAsRecorded'
    BY <1>1 DEF SettledAsRecorded
  <2>7. CallsWell'
    <3> PICK d : d = [c EXCEPT !.leg = @ + 1]
      OBVIOUS
    <3>1. request' = [request EXCEPT ![r] = d]
      BY <2>1
    <3>2. d \in Call /\ d.at = "pay" /\ d.body = b /\ d.price = c.price /\ d.leg >= 1
      BY <1>1, <1>2 DEF Call
    <3>3. WellCalled(d)'
      BY <1>1, <1>2, <3>2 DEF WellCalled, Inside
    <3> QED
      BY <1>1, <3>1, <3>2, <3>3, MemoryCallMoves DEF world
  <2>8. ExecutionTypeOK'
    BY <1>1, <2>3, <2>7, TypeKept DEF world, CallsWell
  <2> QED
    BY <2>5, <2>6, <2>7, <2>8, CallsStayWell DEF ExecutionInv
<1> QED
  BY <1>6, <1>7

(* The records of the component profile.                                    *)
LEMMA RecordInv ==
  ASSUME ExecutionInv, NEW r \in Requests, Record(r)
  PROVE  ExecutionInv'
<1> PICK c : c = request[r]
  OBVIOUS
<1> PICK b : b = c.body
  OBVIOUS
<1> PICK f : f = ConfirmedFill(b)
  OBVIOUS
<1>1. /\ c \in Call /\ WellCalled(c) /\ RecordsFormed /\ b \in Bodies
      /\ ~durable /\ c.at = "pay" /\ ExecutionTypeOK
      /\ CallsWell /\ durable' = durable /\ UNCHANGED world
      /\ balances' = balances /\ applied' = applied
  BY CallFacts, CallsAreWell DEF Record, At, ExecutionInv
<1>2. Fill(Body(r), request[r].price) = f /\ Body(r) = b
  BY <1>1 DEF WellCalled, ConfirmedFill, Body
<1>3. f.order = b.order
  BY <1>1, FillFacts
<1>4. /\ replays' = [replays EXCEPT ![b.key] = [body |-> b, fill |-> f]]
      /\ fills' = [fills EXCEPT ![b.order] = f] /\ Replies(r, f)
  BY <1>2, <1>3 DEF Record
<1>5. applied' \in [Orders -> SUBSET {"notional", "asset", "fee"}]
  BY <1>1 DEF RecordsFormed
<1>6. RecordsFormed' /\ replays'[b.key] = [body |-> b, fill |-> f]
  BY <1>1, <1>4, <1>5, RecordsGrow
<1>7. SettledAsRecorded'
  BY <1>1 DEF SettledAsRecorded
<1>8. CallsWell'
  <2> PICK d : d = [c EXCEPT !.at = "done", !.answer = f]
    OBVIOUS
  <2>1. request' = [request EXCEPT ![r] = d]
    BY <1>4 DEF Replies
  <2>2. [body |-> b, fill |-> f] \in Replay
    BY <1>1, FillFacts DEF Replay
  <2>3. replays'[b.key] # None /\ replays'[b.key].fill = ConfirmedFill(b)
    BY <1>6, <2>2, ConfirmedFacts
  <2>4. d \in Call /\ WellCalled(d)'
    BY <1>1, <2>3, WellCommitted
  <2> QED
    BY <1>1, <2>1, <2>4, MemoryCallMoves DEF world
<1>9. ExecutionTypeOK'
  <2>1. balances \in [Accounts -> [Assets -> Nat]]
    BY <1>1 DEF ExecutionTypeOK
  <2> QED
    BY <1>1, <1>8, <2>1, TypeKept DEF world, CallsWell
<1> QED
  BY <1>6, <1>7, <1>8, <1>9, CallsStayWell DEF ExecutionInv

(* The rows of the catalog as the invariant wants them.                     *)
Rows == [status : {"ACTIVE", "INACTIVE"}, price : BOOLEAN, trade : BOOLEAN]
Consistent(row) == (row.trade => row.price) /\ (row.price => row.status = "ACTIVE")
CatalogWell == /\ catalog \in [Listed -> Rows \cup {None}]
               /\ \A i \in Listed : catalog[i] # None => Consistent(catalog[i])

(* The world moves, and no call with it: the invariant is kept if the       *)
(* catalog is in order and the switch has waited.                           *)
LEMMA WorldMoves ==
  ASSUME ExecutionInv, UNCHANGED <<durable, money, request>>, CatalogWell',
         tick' \in [id : 0..MaxTicks, fresh : BOOLEAN], paused' \in BOOLEAN,
         durable /\ paused' => paused \/ ~ControlLocked
  PROVE  ExecutionInv'
<1>1. CallsWell /\ RecordsFormed /\ SettledAsRecorded /\ ExecutionTypeOK
  BY CallsAreWell DEF ExecutionInv
<1>2. /\ durable' = durable /\ replays' = replays /\ request' = request /\ balances' = balances
  BY DEF money
<1>3. RecordsFormed' /\ SettledAsRecorded'
  BY <1>1, TablesRest
<1>4. CallsWell'
  <2>1. \A r \in Requests : durable /\ request[r].at = "settle" => ~paused'
    BY <1>1 DEF CallsWell, WellCalled, ControlLocked, At
  <2>2. \A r \in Requests : request[r].at = "settle" => durable
    BY <1>1 DEF CallsWell, WellCalled, Inside
  <2> QED
    BY <1>1, <1>2, <2>1, <2>2 DEF CallsWell, WellCalled
<1>5. ExecutionTypeOK'
  <2>1. \A q \in Requests : request'[q].body \in Bodies \cup {None}
    BY <1>1, <1>2 DEF ExecutionTypeOK
  <2>2. \A x \in Assets : Total(balances', x) = UserFunds[x] + SystemFunds[x]
    BY <1>1, <1>2 DEF ExecutionTypeOK
  <2>3. balances' \in [Accounts -> [Assets -> Nat]]
    BY <1>1, <1>2 DEF ExecutionTypeOK
  <2> QED
    BY <2>1, <2>2, <2>3 DEF ExecutionTypeOK, CatalogWell, Rows, Consistent
<1> QED
  BY <1>3, <1>4, <1>5, CallsStayWell DEF ExecutionInv

(* One row of the catalog changes.                                          *)
LEMMA RowChanges ==
  ASSUME CatalogWell, NEW i \in Listed, NEW row \in Rows, Consistent(row),
         catalog' = [catalog EXCEPT ![i] = row]
  PROVE  CatalogWell'
  BY DEF CatalogWell, Consistent

(* The switches keep a row's order: what is traded is priced, what is       *)
(* priced is listed.                                                        *)
LEMMA SwitchesKeepOrder ==
  ASSUME NEW row \in Rows, Consistent(row), NEW enabled \in BOOLEAN
  PROVE  /\ Priced(row, enabled) \in Rows /\ Consistent(Priced(row, enabled))
         /\ Allowed(row, enabled) \in Rows /\ Consistent(Allowed(row, enabled))
<1>1. Priced(row, enabled) \in Rows /\ Consistent(Priced(row, enabled))
  BY DEF Priced, Rows, Consistent
<1>2. Allowed(row, enabled) \in Rows /\ Consistent(Allowed(row, enabled))
  BY DEF Allowed, Rows, Consistent
<1> QED
  BY <1>1, <1>2

(* A published snapshot is in order.                                        *)
LEMMA PublishedOrder ==
  ASSUME CatalogWell, NEW listed, catalog' = Published(listed)
  PROVE  CatalogWell'
<1> DEFINE Row(i) ==
      CASE i \in listed /\ catalog[i] = None -> [status |-> "ACTIVE", price |-> FALSE, trade |-> FALSE]
        [] i \in listed /\ catalog[i] # None -> [catalog[i] EXCEPT !.status = "ACTIVE"]
        [] i \notin listed /\ catalog[i] # None -> Delisted(catalog[i])
        [] OTHER -> None
<1>1. ASSUME NEW i \in Listed
      PROVE  Row(i) \in Rows \cup {None} /\ (Row(i) # None => Consistent(Row(i)))
  <2> PICK row : row = Row(i)
    OBVIOUS
  <2>1. CASE i \in listed /\ catalog[i] = None
    <3>1. row = [status |-> "ACTIVE", price |-> FALSE, trade |-> FALSE]
      BY <2>1
    <3> HIDE DEF Row
    <3>2. row \in Rows /\ ~row.trade /\ ~row.price
      BY <3>1 DEF Rows
    <3> QED
      BY <3>2 DEF Consistent
  <2>2. CASE i \in listed /\ catalog[i] # None
    <3>1. row = [catalog[i] EXCEPT !.status = "ACTIVE"]
      BY <2>2
    <3> HIDE DEF Row
    <3>2. catalog[i] \in Rows /\ Consistent(catalog[i])
      BY <2>2 DEF CatalogWell
    <3>3. /\ row \in Rows /\ row.status = "ACTIVE"
          /\ row.trade = catalog[i].trade /\ row.price = catalog[i].price
      BY <3>1, <3>2 DEF Rows
    <3> QED
      BY <3>2, <3>3 DEF Consistent
  <2>3. CASE i \notin listed /\ catalog[i] # None
    <3>1. row = [status |-> "INACTIVE", price |-> FALSE, trade |-> FALSE]
      BY <2>3 DEF Delisted
    <3> HIDE DEF Row
    <3>2. row \in Rows /\ ~row.trade /\ ~row.price
      BY <3>1 DEF Rows
    <3> QED
      BY <3>2 DEF Consistent
  <2>4. CASE i \notin listed /\ catalog[i] = None
    BY <2>4
  <2> QED
    BY <2>1, <2>2, <2>3, <2>4
<1>2. catalog' = [i \in Listed |-> Row(i)]
  BY DEF Published
<1> HIDE DEF Row
<1> QED
  BY <1>1, <1>2 DEF CatalogWell

(* The world's own steps keep the invariant.                                *)
LEMMA WorldStepInv ==
  ASSUME ExecutionInv,
         \/ QuoteChanges
         \/ \E v \in BOOLEAN : setPaused(v)
         \/ \E i \in Listed, v \in BOOLEAN : setPriceEnabled(i, v) \/ setTradeEnabled(i, v)
         \/ \E listed \in SUBSET Listed : sync(listed)
  PROVE  ExecutionInv'
<1>1. /\ CatalogWell /\ tick \in [id : 0..MaxTicks, fresh : BOOLEAN] /\ paused \in BOOLEAN
  BY DEF ExecutionInv, ExecutionTypeOK, CatalogWell, Rows, Consistent
<1>2. CASE QuoteChanges
  <2>1. catalog' = catalog /\ paused' = paused /\ UNCHANGED <<durable, money, request>>
    BY <1>2 DEF QuoteChanges
  <2>2. tick' \in [id : 0..MaxTicks, fresh : BOOLEAN]
    <3>1. MaxTicks \in Nat
      BY ExecutionAssumption
    <3>2. CASE tick.id < MaxTicks /\ tick' = [id |-> tick.id + 1, fresh |-> TRUE]
      BY <1>1, <3>1, <3>2
    <3>3. CASE tick.fresh /\ tick' = [tick EXCEPT !.fresh = FALSE]
      BY <1>1, <3>3
    <3>4. CASE tick.id # 0 /\ tick' = [id |-> 0, fresh |-> FALSE]
      BY <3>1, <3>4
    <3> QED
      BY <1>2, <3>2, <3>3, <3>4 DEF QuoteChanges
  <2>3. CatalogWell'
    BY <1>1, <2>1 DEF CatalogWell
  <2> QED
    BY <1>1, <2>1, <2>2, <2>3, WorldMoves
<1>3. ASSUME NEW v \in BOOLEAN, setPaused(v) PROVE ExecutionInv'
  <2>1. /\ catalog' = catalog /\ tick' = tick /\ UNCHANGED <<durable, money, request>>
        /\ paused' = v /\ (durable => ~ControlLocked)
    BY <1>3 DEF setPaused
  <2>2. CatalogWell'
    BY <1>1, <2>1 DEF CatalogWell
  <2> QED
    BY <1>1, <2>1, <2>2, WorldMoves
<1>4. ASSUME NEW i \in Listed, NEW v \in BOOLEAN, setPriceEnabled(i, v) \/ setTradeEnabled(i, v)
      PROVE  ExecutionInv'
  <2>1. /\ tick' = tick /\ paused' = paused /\ UNCHANGED <<durable, money, request>>
        /\ catalog[i] # None
        /\ \/ catalog' = [catalog EXCEPT ![i] = Priced(catalog[i], v)]
           \/ catalog' = [catalog EXCEPT ![i] = Allowed(catalog[i], v)]
    BY <1>4 DEF setPriceEnabled, setTradeEnabled
  <2>2. catalog[i] \in Rows /\ Consistent(catalog[i])
    BY <1>1, <2>1 DEF CatalogWell
  <2>3. CatalogWell'
    BY <1>1, <2>1, <2>2, SwitchesKeepOrder, RowChanges
  <2> QED
    BY <1>1, <2>1, <2>3, WorldMoves
<1>5. ASSUME NEW listed \in SUBSET Listed, sync(listed) PROVE ExecutionInv'
  <2>1. /\ tick' = tick /\ paused' = paused /\ UNCHANGED <<durable, money, request>>
        /\ catalog' = Published(listed)
    BY <1>5 DEF sync
  <2>2. CatalogWell'
    BY <1>1, <2>1, PublishedOrder
  <2> QED
    BY <1>1, <2>1, <2>2, WorldMoves
<1> QED
  BY <1>2, <1>3, <1>4, <1>5

(* What the rest of the exchange takes from an account is not taken from    *)
(* the fees.                                                                *)
LEMMA ForeignDebitInv ==
  ASSUME ExecutionInv, NEW a \in Accounts, NEW x \in Assets, ForeignDebit(a, x)
  PROVE  ExecutionInv'
<1>1. CallsWell /\ RecordsFormed /\ SettledAsRecorded /\ ExecutionTypeOK
  BY CallsAreWell DEF ExecutionInv
<1> PICK l : l = Leg("debit", a, "elsewhere", x, 1)
  OBVIOUS
<1>2. /\ durable' = durable /\ replays' = replays /\ fills' = fills /\ applied' = applied
      /\ request' = request /\ UNCHANGED <<catalog, tick, paused>>
      /\ balances' = Moved(balances, l) /\ balances[a][x] > 0 /\ a \in {"user", "liquidity"}
  BY DEF ForeignDebit
<1>3. /\ balances \in [Accounts -> [Assets -> Nat]] /\ balances \in Funds
  <2>1. balances \in [Accounts -> [Assets -> Nat]]
    BY <1>1 DEF ExecutionTypeOK
  <2> QED
    BY <2>1 DEF Funds
<1>4. /\ l.from = a /\ l.to = "elsewhere" /\ l.from # l.to /\ l.asset = x /\ l.amount = 1
      /\ l.to \in Accounts
  BY <1>2 DEF Leg, Accounts
<1>5. Affordable(balances, l)
  <2>1. balances[a][x] \in Nat
    BY <1>3
  <2> QED
    BY <1>2, <1>4, <2>1 DEF Affordable
<1>6. /\ balances' \in [Accounts -> [Assets -> Nat]]
      /\ \A y \in Assets : Total(balances', y) = Total(balances, y)
      /\ balances'["fees"]["quote"] = balances["fees"]["quote"]
  <2>1. "fees" \in Accounts /\ "quote" \in Assets
    BY DEF Accounts, Assets
  <2>2. Moved(balances, l) \in [Accounts -> [Assets -> Nat]]
    BY <1>3, <1>4, <1>5, MovedAffordably
  <2>3. "fees" # l.from /\ "fees" # l.to
    BY <1>2, <1>4
  <2>4. /\ \A y \in Assets : Total(Moved(balances, l), y) = Total(balances, y)
        /\ Moved(balances, l)["fees"]["quote"] = balances["fees"]["quote"]
    BY <1>3, <1>4, <2>1, <2>3, MovedMoves
  <2> QED
    BY <1>2, <2>2, <2>4
<1>7. RecordsFormed' /\ Filled' = Filled /\ FeesCharged' = FeesCharged
  BY <1>1, <1>2 DEF RecordsFormed, Filled, FeesCharged
<1>8. SettledAsRecorded'
  <2> SUFFICES ASSUME durable' PROVE SettledAsRecorded'
    BY DEF SettledAsRecorded
  <2>1. durable
    BY <1>2
  <2>2. \A o \in Orders :
          applied'[o] = IF fills'[o] = None THEN {}
                        ELSE {Legs(fills'[o])[n].name : n \in 1..Len(Legs(fills'[o]))}
    BY <1>1, <1>2, <2>1 DEF SettledAsRecorded
  <2>3. balances'["fees"]["quote"] = FeesCharged'
    BY <1>1, <1>6, <1>7, <2>1 DEF SettledAsRecorded
  <2>4. \A o \in Filled' : \E k \in Keys : replays'[k] # None /\ replays'[k].fill = fills'[o]
    BY <1>1, <1>2, <1>7, <2>1 DEF SettledAsRecorded
  <2>5. \A k \in Keys : replays'[k] # None => replays'[k].fill = fills'[replays'[k].fill.order]
    BY <1>1, <1>2, <2>1 DEF SettledAsRecorded
  <2> QED
    BY <2>2, <2>3, <2>4, <2>5 DEF SettledAsRecorded
<1>9. CallsWell'
  BY <1>1, <1>2 DEF CallsWell, WellCalled
<1>10. ExecutionTypeOK'
  BY <1>1, <1>2, <1>6, <1>9, TypeKept DEF CallsWell
<1> QED
  BY <1>7, <1>8, <1>9, <1>10, CallsStayWell DEF ExecutionInv

(* A step of a call that is none of the transfers.                          *)
CallStep(r) ==
  \/ \E b \in Bodies : execute(r, b)
  \/ isPaused(r) \/ GetInstrument(r) \/ GetLatest(r) \/ ensureLiquidity(r)
  \/ BeginCommit(r) \/ LockControl(r) \/ Conflict(r) \/ Crash(r)
  \/ BeginMemoryCommit(r)

(* The steps, sorted by what they move.                                     *)
LEMMA ExecutionSteps ==
  ASSUME ExecutionNext
  PROVE  \/ \E r \in Requests : CallStep(r)
         \/ \E r \in Requests : Settle(r) \/ Pay(r) \/ Record(r)
         \/ QuoteChanges \/ \E v \in BOOLEAN : setPaused(v)
         \/ \E i \in Listed, v \in BOOLEAN : setPriceEnabled(i, v) \/ setTradeEnabled(i, v)
         \/ \E listed \in SUBSET Listed : sync(listed)
         \/ \E a \in Accounts, x \in Assets : ForeignDebit(a, x)
  BY Zenon DEF ExecutionNext, CallStep

(* Every step keeps the inductive invariant.                                *)
LEMMA ExecutionStep == ExecutionInv /\ [ExecutionNext]_executionVars => ExecutionInv'
<1> SUFFICES ASSUME ExecutionInv, [ExecutionNext]_executionVars PROVE ExecutionInv'
  OBVIOUS
<1>1. CASE UNCHANGED executionVars
  <2>1. CatalogWell /\ tick \in [id : 0..MaxTicks, fresh : BOOLEAN] /\ paused \in BOOLEAN
    BY DEF ExecutionInv, ExecutionTypeOK, CatalogWell, Rows, Consistent
  <2>2. /\ catalog' = catalog /\ tick' = tick /\ paused' = paused
        /\ UNCHANGED <<durable, money, request>>
    BY <1>1 DEF executionVars, world, money
  <2>3. CatalogWell'
    BY <2>1, <2>2 DEF CatalogWell
  <2> QED
    BY <2>1, <2>2, <2>3, WorldMoves
<1>2. CASE ExecutionNext
  <2>1. ASSUME NEW r \in Requests, CallStep(r) PROVE ExecutionInv'
    BY <2>1, CallStepInv DEF CallStep
  <2>2. ASSUME NEW r \in Requests, Settle(r) \/ Pay(r) \/ Record(r) PROVE ExecutionInv'
    BY <2>2, SettleInv, PayInv, RecordInv
  <2>3. ASSUME NEW a \in Accounts, NEW x \in Assets, ForeignDebit(a, x) PROVE ExecutionInv'
    BY <2>3, ForeignDebitInv
  <2> QED
    BY <1>2, <2>1, <2>2, <2>3, ExecutionSteps, WorldStepInv
<1> QED
  BY <1>1, <1>2

(* The inductive invariant of execution holds in every reachable state.     *)
THEOREM ExecutionInvariant == ExecutionSpec => []ExecutionInv
  BY ExecutionInitInv, ExecutionStep, PTL DEF ExecutionSpec

(* The money has moved as the recorded executions say, for any requests,    *)
(* bodies, prices, fee and funds: an order with a row is settled in full    *)
(* and once, one without has moved nothing, the fee account holds the fees. *)
THEOREM MoneyAsRecorded == ExecutionSpec => []SettledAsRecorded
<1>1. ExecutionInv => SettledAsRecorded
  BY DEF ExecutionInv
<1> QED
  BY <1>1, ExecutionInvariant, PTL

(* Types; no account is overdrawn, no funds are lost, and what may be       *)
(* traded is priced and listed.                                             *)
THEOREM ExecutionTypeCorrect == ExecutionSpec => []ExecutionTypeOK
<1>1. ExecutionInv => ExecutionTypeOK
  BY DEF ExecutionInv
<1> QED
  BY <1>1, ExecutionInvariant, PTL

(* A client is told of a fill at the price of the quote it confirmed, and   *)
(* in the durable profile of the one fill stored under its key.             *)
THEOREM AnswersAsConfirmed == ExecutionSpec => []FilledAsConfirmed
<1>1. ExecutionInv => FilledAsConfirmed
  <2> SUFFICES ASSUME ExecutionInv, NEW r \in Requests, At(r, "done"), request[r].answer # Refused
               PROVE  /\ request[r].answer.price = Price[Body(r).expects]
                      /\ durable => request[r].answer = replays[Body(r).key].fill
    BY DEF FilledAsConfirmed
  <2>1. request[r].answer = ConfirmedFill(Body(r)) /\ Body(r) \in Bodies
    BY DEF ExecutionInv, CallsFormed, At
  <2>2. durable => request[r].answer = replays[Body(r).key].fill
    BY DEF ExecutionInv, AnswersStored
  <2> QED
    BY <2>1, <2>2, FillFacts
<1> QED
  BY <1>1, ExecutionInvariant, PTL

(* The kill switch: in the durable profile no order is filled while         *)
(* execution is paused, however far its call had come before.               *)
THEOREM PauseIsHeld == ExecutionSpec => NoFillWhilePaused
<1>1. ExecutionInv /\ [ExecutionNext]_executionVars
        => [durable /\ fills' # fills => ~paused]_executionVars
  <2> SUFFICES ASSUME ExecutionInv, ExecutionNext, durable, fills' # fills PROVE ~paused
    BY SMTT(30)
  <2>1. ASSUME NEW r \in Requests, CallStep(r) PROVE FALSE
    BY <2>1, Zenon DEF CallStep, execute, isPaused, GetInstrument, GetLatest, ensureLiquidity,
       BeginCommit, LockControl, Conflict, Crash, BeginMemoryCommit, money
  <2>2. ASSUME NEW r \in Requests, Settle(r) PROVE ~paused
    BY <2>2 DEF Settle, At, ControlLocked, SwitchWaits, ExecutionInv
  <2>3. ASSUME NEW r \in Requests, Pay(r) \/ Record(r) PROVE FALSE
    BY <2>3 DEF Pay, Record
  <2>4. ~QuoteChanges /\ \A v \in BOOLEAN : ~setPaused(v)
    BY DEF QuoteChanges, setPaused, money
  <2>5. \A i \in Listed, v \in BOOLEAN : ~setPriceEnabled(i, v) /\ ~setTradeEnabled(i, v)
    BY DEF setPriceEnabled, setTradeEnabled, money
  <2>6. \A listed \in SUBSET Listed : ~sync(listed)
    BY DEF sync, money
  <2>7. \A a \in Accounts, x \in Assets : ~ForeignDebit(a, x)
    BY DEF ForeignDebit
  <2> QED
    BY <2>1, <2>2, <2>3, <2>4, <2>5, <2>6, <2>7, ExecutionSteps
<1> QED
  BY <1>1, ExecutionInvariant, PTL DEF ExecutionSpec, NoFillWhilePaused

(***************************************************************************)
(* The way out of the quote store (QuoteFeed), for any instruments,         *)
(* sockets and limits.                                                      *)
(***************************************************************************)
Snapshots == [id : Instruments, seq : 0 .. MaxQuotes]
Calls == [kind : {"subscribe", "unsubscribe"}, at : {"admit", "catalog", "quote"},
          ids : SUBSET Instruments, left : SUBSET Instruments, reads : Instruments,
          snapshots : SUBSET Snapshots]

(* A call whose message has not been taken up has asked and read nothing,    *)
(* and one that waits for the catalog or for a snapshot subscribes.          *)
CallForm(c) ==
  /\ c.at = "admit" => c.snapshots = {} /\ c.left = c.ids
  /\ c.kind = "unsubscribe" => c.at = "admit"

(* The variables of the store and of the gateway have their types.          *)
FeedTyped ==
  /\ latest \in Answers /\ numbered \in Answers
  /\ wire \in Seq(Snapshots)
  /\ transport \in [Sockets -> {"none", "up", "down"}]
  /\ registered \in [Sockets -> BOOLEAN] /\ current \in [Sockets -> SUBSET Instruments]
  /\ hub \in [Instruments -> SUBSET Sockets] /\ wanted \in [Sockets -> SUBSET Instruments]
  /\ emitted \in [Sockets -> Answers]
  /\ call \in [Sockets -> Seq(Calls)]
  /\ \A s \in Sockets : \A c \in Range(call[s]) : CallForm(c)

(* The panel has one socket at a time, and nothing is kept for a socket that *)
(* has not connected yet.                                                    *)
OneSocket == \A s \in Sockets : transport[s] = "up" => panel = s
Unused(s) ==
  /\ current[s] = {} /\ wanted[s] = {} /\ call[s] = <<>>
  /\ \A i \in Instruments : s \notin hub[i]

(* A call that has still to ask the catalog for instrument i, and one that   *)
(* carries, or is about to read, a snapshot of i that is no older than l.    *)
Seeks(c, i) == c.at # "admit" /\ i \in c.left
Owes(c, i, l) ==
  \/ c.at = "quote" /\ c.reads = i
  \/ \E x \in c.snapshots : x.id = i /\ x.seq >= l

OnWire(w, i, l) == \E n \in 1 .. Len(w) : w[n].id = i /\ w[n].seq = l

(* The stored quote of i has reached s, or is on its way there.             *)
Covered(s, i) ==
  \/ latest[i] <= emitted[s][i]
  \/ OnWire(wire, i, latest[i])
  \/ \E c \in Range(call[s]) : Owes(c, i, latest[i])

(* What is known of a connected socket and an instrument.                   *)
Served(s, i) ==
  /\ i \in current[s] <=> s \in hub[i]
  /\ i \in wanted[s] => i \in current[s] \/ \E c \in Range(call[s]) : Seeks(c, i)
  /\ s \in hub[i] => Covered(s, i)

FeedInv ==
  /\ FeedTyped /\ OneSocket
  /\ \A s \in Sockets : transport[s] = "none" => Unused(s)
  /\ \A s \in Sockets, i \in Instruments : transport[s] = "up" => Served(s, i)

(* What the proofs use of the constants.                                    *)
LEMMA FeedFacts == NoSocket \notin Sockets /\ MaxQuotes \in Nat \ {0}
  BY FeedAssumption

(* A call put in the place of another, a call removed and a call added.     *)
LEMMA ReplacedRange ==
  ASSUME NEW S, NEW q \in Seq(S), NEW k \in 1 .. Len(q), NEW c \in S
  PROVE  LET r == [q EXCEPT ![k] = c] IN
         /\ r \in Seq(S) /\ c \in Range(r)
         /\ \A x \in Range(q) : x = q[k] \/ x \in Range(r)
         /\ \A x \in Range(r) : x = c \/ x \in Range(q)
<1> DEFINE r == [q EXCEPT ![k] = c]
<1>1. /\ r \in Seq(S) /\ Len(r) = Len(q)
      /\ \A j \in 1 .. Len(q) : r[j] = IF j = k THEN c ELSE q[j]
  BY ExceptSeq
<1>2. Range(r) = {r[j] : j \in 1 .. Len(q)} /\ Range(q) = {q[j] : j \in 1 .. Len(q)}
  BY <1>1, RangeEquality
<1> HIDE DEF r
<1>3. c \in Range(r)
  BY <1>1, <1>2
<1>4. ASSUME NEW x \in Range(q) PROVE x = q[k] \/ x \in Range(r)
  <2>1. PICK j \in 1 .. Len(q) : x = q[j]
    BY <1>2
  <2> QED
    BY <2>1, <1>1, <1>2
<1>5. ASSUME NEW x \in Range(r) PROVE x = c \/ x \in Range(q)
  <2>1. PICK j \in 1 .. Len(q) : x = r[j]
    BY <1>2
  <2> QED
    BY <2>1, <1>1, <1>2
<1>6. /\ r \in Seq(S) /\ c \in Range(r)
      /\ \A x \in Range(q) : x = q[k] \/ x \in Range(r)
      /\ \A x \in Range(r) : x = c \/ x \in Range(q)
  BY <1>1, <1>3, <1>4, <1>5
<1> QED
  BY <1>6 DEF r

LEMMA RemovedRange ==
  ASSUME NEW S, NEW q \in Seq(S), NEW k \in 1 .. Len(q)
  PROVE  /\ RemoveAt(q, k) \in Seq(S)
         /\ \A x \in Range(q) : x = q[k] \/ x \in Range(RemoveAt(q, k))
         /\ \A x \in Range(RemoveAt(q, k)) : x \in Range(q)
<1> DEFINE a == SubSeq(q, 1, k - 1)
           b == SubSeq(q, k + 1, Len(q))
<1>0. k \in Int /\ Len(q) \in Nat /\ \A j \in 1 .. Len(q) : q[j] \in S
  BY LenProperties, ElementOfSeq
<1>1. /\ a \in Seq(S) /\ Len(a) = k - 1
      /\ \A j \in 1 .. k - 1 : a[j] = q[j]
  <2>1. \A j \in 1 .. k - 1 : q[j] \in S
    BY <1>0
  <2>2. /\ a \in Seq(S) /\ Len(a) = IF 1 <= k - 1 THEN (k - 1) - 1 + 1 ELSE 0
        /\ \A j \in 1 .. (k - 1) - 1 + 1 : a[j] = q[1 + j - 1]
    BY <1>0, <2>1, SubSeqProperties
  <2> QED
    BY <2>2, <1>0
<1>2. /\ b \in Seq(S) /\ Len(b) = Len(q) - k
      /\ \A j \in 1 .. Len(q) - k : b[j] = q[k + j]
  <2>1. \A j \in k + 1 .. Len(q) : q[j] \in S
    BY <1>0
  <2>2. /\ b \in Seq(S) /\ Len(b) = IF k + 1 <= Len(q) THEN Len(q) - (k + 1) + 1 ELSE 0
        /\ \A j \in 1 .. Len(q) - (k + 1) + 1 : b[j] = q[(k + 1) + j - 1]
    BY <1>0, <2>1, SubSeqProperties
  <2> QED
    BY <2>2, <1>0
<1>3. RemoveAt(q, k) = a \o b
  BY DEF RemoveAt
<1> HIDE DEF a, b
<1>4. a \o b \in Seq(S) /\ Range(a \o b) = Range(a) \cup Range(b)
  BY <1>1, <1>2, ConcatProperties, RangeConcatenation
<1>5. /\ Range(a) = {a[j] : j \in 1 .. k - 1} /\ Range(b) = {b[j] : j \in 1 .. Len(q) - k}
      /\ Range(q) = {q[j] : j \in 1 .. Len(q)}
  BY <1>1, <1>2, RangeEquality
<1>6. ASSUME NEW x \in Range(q) PROVE x = q[k] \/ x \in Range(a \o b)
  <2>1. PICK j \in 1 .. Len(q) : x = q[j]
    BY <1>5
  <2>2. CASE j < k
    <3>1. j \in 1 .. k - 1
      BY <2>2, <1>0
    <3> QED
      BY <3>1, <2>1, <1>1, <1>4, <1>5
  <2>3. CASE j > k
    <3>1. j - k \in 1 .. Len(q) - k /\ k + (j - k) = j
      BY <2>3, <1>0
    <3>2. b[j - k] = x
      BY <3>1, <2>1, <1>2
    <3>3. x \in Range(b)
      BY <3>1, <3>2, <1>5
    <3> QED
      BY <3>3, <1>4
  <2> QED
    BY <2>1, <2>2, <2>3, <1>0
<1>7. ASSUME NEW x \in Range(a \o b) PROVE x \in Range(q)
  <2>1. CASE x \in Range(a)
    <3>1. PICK j \in 1 .. k - 1 : x = a[j]
      BY <2>1, <1>5
    <3>2. j \in 1 .. Len(q)
      BY <1>0
    <3> QED
      BY <3>1, <3>2, <1>1, <1>5
  <2>2. CASE x \in Range(b)
    <3>1. PICK j \in 1 .. Len(q) - k : x = b[j]
      BY <2>2, <1>5
    <3>2. k + j \in 1 .. Len(q)
      BY <1>0
    <3> QED
      BY <3>1, <3>2, <1>2, <1>5
  <2> QED
    BY <2>1, <2>2, <1>4
<1> QED
  BY <1>3, <1>4, <1>6, <1>7

LEMMA AppendedRange ==
  ASSUME NEW S, NEW q \in Seq(S), NEW c \in S
  PROVE  /\ Append(q, c) \in Seq(S)
         /\ \A x \in Range(q) : x \in Range(Append(q, c))
         /\ \A x \in Range(Append(q, c)) : x = c \/ x \in Range(q)
<1>1. /\ Append(q, c) \in Seq(S) /\ Len(Append(q, c)) = Len(q) + 1 /\ Len(q) \in Nat
      /\ \A j \in 1 .. Len(q) : Append(q, c)[j] = q[j]
      /\ Append(q, c)[Len(q) + 1] = c
  BY AppendProperties, LenProperties
<1>2. /\ Range(Append(q, c)) = {Append(q, c)[j] : j \in 1 .. Len(q) + 1}
      /\ Range(q) = {q[j] : j \in 1 .. Len(q)}
  BY <1>1, RangeEquality
<1> QED
  BY <1>1, <1>2

(* The greatest of finitely many bounded numbers.                           *)
LEMMA NewestHolds ==
  ASSUME NEW e \in 0 .. MaxQuotes, NEW seqs \in SUBSET (0 .. MaxQuotes)
  PROVE  /\ Max({e} \cup seqs) \in 0 .. MaxQuotes
         /\ \A x \in {e} \cup seqs : x <= Max({e} \cup seqs)
<1> DEFINE T == {e} \cup seqs
<1>1. T \subseteq Nat /\ T # {} /\ \A n \in T : n <= MaxQuotes
  BY FeedFacts
<1>2. \E m \in T : \A n \in T : n <= m
  BY <1>1, FeedFacts, GreatestElement
<1>3. \E m \in T : \A n \in T : m >= n
  BY <1>1, <1>2
<1>4. Max(T) \in T /\ \A n \in T : Max(T) >= n
  <2> HIDE DEF T
  <2> QED
    BY <1>3 DEF Max
<1> QED
  BY <1>1, <1>4, FeedFacts

(* A turn, or a disconnection, that finds the hub h: it leaves h as it is    *)
(* while nobody leaves, and otherwise nobody is connected any more.          *)
Leaves(h) ==
  /\ transport' \in [Sockets -> {"none", "up", "down"}]
  /\ registered' \in [Sockets -> BOOLEAN] /\ hub' \in [Instruments -> SUBSET Sockets]
  /\ OneSocket'
  /\ \A t \in Sockets : transport'[t] = "none" => transport[t] = "none"
  /\ \A t \in Sockets, i \in Instruments : t \in hub'[i] => t \in h[i]
  /\ (\A t \in Sockets : transport'[t] # "up") \/ (hub' = h /\ transport' = transport)

LEMMA DisconnectedLeaves ==
  ASSUME FeedTyped, OneSocket, NEW s \in Sockets, NEW h \in [Instruments -> SUBSET Sockets],
         transport[s] = "up", Disconnected(s, h)
  PROVE  Leaves(h)
<1>1. /\ transport' = [transport EXCEPT ![s] = "down"]
      /\ registered' = [registered EXCEPT ![s] = FALSE]
      /\ hub' = IF registered[s] THEN Without(h, s, current[s]) ELSE h
  BY DEF Disconnected
<1>2. \A t \in Sockets : transport'[t] # "up"
  BY <1>1 DEF OneSocket, FeedTyped
<1>3. /\ transport' \in [Sockets -> {"none", "up", "down"}]
      /\ registered' \in [Sockets -> BOOLEAN]
      /\ \A t \in Sockets : transport'[t] = "none" => transport[t] = "none"
  BY <1>1 DEF FeedTyped
<1>4. /\ hub' \in [Instruments -> SUBSET Sockets]
      /\ \A t \in Sockets, i \in Instruments : t \in hub'[i] => t \in h[i]
  BY <1>1 DEF Without
<1> QED
  BY <1>2, <1>3, <1>4 DEF Leaves, OneSocket

LEMMA StaysLeaves ==
  ASSUME FeedTyped, OneSocket, NEW h \in [Instruments -> SUBSET Sockets],
         hub' = h, UNCHANGED <<transport, registered, panel>>
  PROVE  Leaves(h)
  BY DEF Leaves, FeedTyped, OneSocket

LEMMA TurnLeaves ==
  ASSUME FeedTyped, OneSocket, NEW s \in Sockets, NEW n, NEW h \in [Instruments -> SUBSET Sockets],
         Turn(s, n, h)
  PROVE  Leaves(h)
<1>1. CASE Overflows(s, n)
  BY <1>1, DisconnectedLeaves DEF Turn, Overflows
<1>2. CASE ~Overflows(s, n)
  BY <1>2, StaysLeaves DEF Turn
<1> QED
  BY <1>1, <1>2

(* A step that keeps the types, gives an unused socket nothing, and serves   *)
(* the connected one if it stays.                                            *)
LEMMA FeedStepInv ==
  ASSUME FeedInv, NEW h, Leaves(h), FeedTyped',
         \A t \in Sockets : transport[t] = "none" =>
           /\ current'[t] = {} /\ wanted'[t] = {} /\ call'[t] = <<>>
           /\ \A i \in Instruments : t \notin h[i],
         hub' = h /\ transport' = transport =>
           \A t \in Sockets, i \in Instruments : transport[t] = "up" => Served(t, i)'
  PROVE  FeedInv'
<1>1. \A t \in Sockets : transport'[t] = "none" => Unused(t)'
  BY DEF Leaves, Unused
<1>2. \A t \in Sockets, i \in Instruments : transport'[t] = "up" => Served(t, i)'
  BY DEF Leaves
<1> QED
  BY <1>1, <1>2 DEF FeedInv, Leaves

(* A handler of socket s changes nothing of the others.                     *)
Elsewhere(s, h) ==
  \A t \in Sockets : t # s =>
    /\ current'[t] = current[t] /\ wanted'[t] = wanted[t] /\ call'[t] = call[t]
    /\ emitted'[t] = emitted[t]
    /\ \A i \in Instruments : t \in h[i] <=> t \in hub[i]

LEMMA HandlerStepInv ==
  ASSUME FeedInv, NEW s \in Sockets, transport[s] # "none", NEW h, Leaves(h), Elsewhere(s, h),
         FeedTyped', latest' = latest, wire' = wire,
         hub' = h /\ transport[s] = "up" => \A i \in Instruments : Served(s, i)'
  PROVE  FeedInv'
<1>1. \A t \in Sockets : transport[t] = "none" =>
           /\ current'[t] = {} /\ wanted'[t] = {} /\ call'[t] = <<>>
           /\ \A i \in Instruments : t \notin h[i]
  BY DEF FeedInv, Unused, Elsewhere
<1>2. ASSUME hub' = h, transport' = transport, NEW t \in Sockets, NEW i \in Instruments,
             transport[t] = "up"
      PROVE  Served(t, i)'
  <2>1. CASE t = s
    BY <1>2, <2>1
  <2>2. CASE t # s
    <3>1. Served(t, i)
      BY <1>2 DEF FeedInv
    <3>2. /\ current'[t] = current[t] /\ wanted'[t] = wanted[t] /\ call'[t] = call[t]
          /\ emitted'[t] = emitted[t] /\ (t \in hub'[i] <=> t \in hub[i])
      BY <1>2, <2>2 DEF Elsewhere
    <3>3. Covered(t, i) => Covered(t, i)'
      BY <3>2 DEF Covered
    <3> QED
      BY <3>1, <3>2, <3>3 DEF Served
  <2> QED
    BY <2>1, <2>2
<1> QED
  BY <1>1, <1>2, FeedStepInv

(* A socket with a call under way has connected.                            *)
LEMMA CallerFacts ==
  ASSUME FeedInv, NEW s \in Sockets, NEW k \in 1 .. Len(call[s])
  PROVE  /\ transport[s] # "none" /\ call[s] \in Seq(Calls)
         /\ call[s][k] \in Calls /\ CallForm(call[s][k]) /\ call[s][k] \in Range(call[s])
<1>1. call[s] \in Seq(Calls)
  BY DEF FeedInv, FeedTyped
<1>2. call[s][k] \in Calls
  BY <1>1, ElementOfSeq
<1>3. call[s][k] \in Range(call[s])
  BY <1>1, RangeEquality
<1>4. CallForm(call[s][k])
  BY <1>3 DEF FeedInv, FeedTyped
<1>5. call[s] # <<>>
  BY EmptySeq
<1> QED
  BY <1>1, <1>2, <1>3, <1>4, <1>5 DEF FeedInv, Unused

(* A call goes on as c, or ends.                                            *)
CallsWellFormed ==
  /\ call \in [Sockets -> Seq(Calls)]
  /\ \A s \in Sockets : \A c \in Range(call[s]) : CallForm(c)

LEMMA CallGoes ==
  ASSUME FeedInv, NEW s \in Sockets, NEW k \in 1 .. Len(call[s]), NEW c \in Calls, CallForm(c),
         Goes(s, k, c)
  PROVE  /\ CallsWellFormed'
         /\ \A t \in Sockets : t # s => call'[t] = call[t]
         /\ c \in Range(call'[s])
         /\ \A x \in Range(call[s]) : x = call[s][k] \/ x \in Range(call'[s])
<1> DEFINE r == [call[s] EXCEPT ![k] = c]
<1>1. call' = [call EXCEPT ![s] = r] /\ call \in [Sockets -> Seq(Calls)]
  BY DEF Goes, FeedInv, FeedTyped
<1>2. /\ r \in Seq(Calls) /\ c \in Range(r)
      /\ \A x \in Range(call[s]) : x = call[s][k] \/ x \in Range(r)
      /\ \A x \in Range(r) : x = c \/ x \in Range(call[s])
  BY CallerFacts, ReplacedRange
<1> HIDE DEF r
<1>3. /\ call' \in [Sockets -> Seq(Calls)] /\ call'[s] = r
      /\ \A t \in Sockets : t # s => call'[t] = call[t]
  BY <1>1, <1>2
<1>4. \A x \in Range(r) : CallForm(x)
  BY <1>2 DEF FeedInv, FeedTyped
<1>5. \A t \in Sockets : \A x \in Range(call'[t]) : CallForm(x)
  BY <1>3, <1>4 DEF FeedInv, FeedTyped
<1> QED
  BY <1>2, <1>3, <1>5 DEF CallsWellFormed

LEMMA CallEnds ==
  ASSUME FeedInv, NEW s \in Sockets, NEW k \in 1 .. Len(call[s]), Ends(s, k)
  PROVE  /\ CallsWellFormed'
         /\ \A t \in Sockets : t # s => call'[t] = call[t]
         /\ \A x \in Range(call[s]) : x = call[s][k] \/ x \in Range(call'[s])
<1> DEFINE r == RemoveAt(call[s], k)
<1>1. call' = [call EXCEPT ![s] = r] /\ call \in [Sockets -> Seq(Calls)]
  BY DEF Ends, FeedInv, FeedTyped
<1>2. /\ r \in Seq(Calls)
      /\ \A x \in Range(call[s]) : x = call[s][k] \/ x \in Range(r)
      /\ \A x \in Range(r) : x \in Range(call[s])
  BY CallerFacts, RemovedRange
<1> HIDE DEF r
<1>3. /\ call' \in [Sockets -> Seq(Calls)] /\ call'[s] = r
      /\ \A t \in Sockets : t # s => call'[t] = call[t]
  BY <1>1, <1>2
<1>4. \A x \in Range(r) : CallForm(x)
  BY <1>2 DEF FeedInv, FeedTyped
<1>5. \A t \in Sockets : \A x \in Range(call'[t]) : CallForm(x)
  BY <1>3, <1>4 DEF FeedInv, FeedTyped
<1> QED
  BY <1>2, <1>3, <1>5 DEF CallsWellFormed

LEMMA FeedInitInv == FeedInit => FeedInv
<1> SUFFICES ASSUME FeedInit PROVE FeedInv
  OBVIOUS
<1>1. FeedTyped
  <2>1. \A s \in Sockets : call[s] = <<>> /\ Range(call[s]) = {}
    <3>1. Range(<<>>) = {}
      BY DEF Range
    <3> QED
      BY <3>1 DEF FeedInit
  <2>2. wire \in Seq(Snapshots) /\ call \in [Sockets -> Seq(Calls)]
    BY EmptySeq DEF FeedInit
  <2>3. [i \in Instruments |-> 0] \in Answers
    BY FeedFacts DEF Answers
  <2> QED
    BY <2>1, <2>2, <2>3 DEF FeedInit, FeedTyped
<1> QED
  BY <1>1 DEF FeedInit, FeedInv, OneSocket, Unused

(* ---- the store and the page ---- *)
LEMMA PublishInv ==
  ASSUME FeedInv, NEW i \in Instruments, Publish(i)
  PROVE  FeedInv'
<1> DEFINE q == [id |-> i, seq |-> numbered'[i]]
<1>1. /\ latest \in Answers /\ numbered \in Answers /\ wire \in Seq(Snapshots)
      /\ hub \in [Instruments -> SUBSET Sockets]
  BY DEF FeedInv, FeedTyped
<1>2. /\ numbered[i] \in 0 .. MaxQuotes /\ numbered[i] + 1 \in 0 .. MaxQuotes
      /\ numbered' = [numbered EXCEPT ![i] = numbered[i] + 1]
  BY <1>1, FeedFacts DEF Publish, Answers
<1>3. /\ numbered' \in Answers /\ numbered'[i] \in 0 .. MaxQuotes
  BY <1>1, <1>2 DEF Answers
<1>4. /\ latest' = [latest EXCEPT ![i] = numbered'[i]] /\ latest' \in Answers
  BY <1>1, <1>3 DEF Publish, Answers
<1>5. q \in Snapshots /\ q.id = i /\ q.seq = numbered'[i]
  BY <1>3 DEF Snapshots
<1>6. wire' = Append(wire, q)
  BY DEF Publish
<1> HIDE DEF q
<1>7. /\ wire' \in Seq(Snapshots) /\ Len(wire') = Len(wire) + 1 /\ Len(wire) \in Nat
      /\ \A n \in 1 .. Len(wire) : wire'[n] = wire[n]
      /\ wire'[Len(wire) + 1] = q
  BY <1>1, <1>5, <1>6, AppendProperties, LenProperties
<1>8. UNCHANGED <<gateway, page>>
  BY DEF Publish
<1>9. FeedTyped'
  BY <1>3, <1>4, <1>7, <1>8 DEF FeedInv, FeedTyped, gateway
<1>10. ASSUME NEW t \in Sockets, NEW j \in Instruments, Covered(t, j) PROVE Covered(t, j)'
  <2>1. CASE j = i
    <3>1. wire'[Len(wire) + 1].id = j /\ wire'[Len(wire) + 1].seq = latest'[j]
      BY <2>1, <1>1, <1>4, <1>5, <1>7 DEF Answers
    <3>2. Len(wire) + 1 \in 1 .. Len(wire')
      BY <1>7
    <3> QED
      BY <3>1, <3>2 DEF Covered, OnWire
  <2>2. CASE j # i
    <3>1. latest'[j] = latest[j]
      BY <2>2, <1>1, <1>4 DEF Answers
    <3>2. OnWire(wire, j, latest[j]) => OnWire(wire', j, latest[j])
      BY <1>7 DEF OnWire
    <3> QED
      BY <1>10, <3>1, <3>2, <1>8 DEF Covered, gateway
  <2> QED
    BY <2>1, <2>2
<1>11. \A t \in Sockets, j \in Instruments : Served(t, j) => Served(t, j)'
  BY <1>8, <1>10 DEF Served, gateway
<1> QED
  BY <1>8, <1>9, <1>11 DEF FeedInv, OneSocket, Unused, gateway, page

LEMMA QuoteGoneInv ==
  ASSUME FeedInv, NEW i \in Instruments, QuoteGone(i)
  PROVE  FeedInv'
<1>1. latest \in Answers /\ emitted \in [Sockets -> Answers]
  BY DEF FeedInv, FeedTyped
<1>2. latest' = [latest EXCEPT ![i] = 0] /\ UNCHANGED <<numbered, wire, gateway, page>>
  BY DEF QuoteGone
<1>3. latest' \in Answers
  BY <1>1, <1>2, FeedFacts DEF Answers
<1>4. FeedTyped'
  BY <1>2, <1>3 DEF FeedInv, FeedTyped, gateway
<1>5. ASSUME NEW t \in Sockets, NEW j \in Instruments, Covered(t, j) PROVE Covered(t, j)'
  <2>1. CASE j = i
    <3>1. emitted[t][j] \in 0 .. MaxQuotes /\ latest'[j] = 0
      BY <2>1, <1>1, <1>2 DEF Answers
    <3> QED
      BY <3>1, <1>2, FeedFacts DEF Covered, gateway
  <2>2. CASE j # i
    <3>1. latest'[j] = latest[j]
      BY <2>2, <1>1, <1>2 DEF Answers
    <3> QED
      BY <1>5, <3>1, <1>2 DEF Covered, gateway
  <2> QED
    BY <2>1, <2>2
<1>6. \A t \in Sockets, j \in Instruments : Served(t, j) => Served(t, j)'
  BY <1>2, <1>5 DEF Served, gateway
<1> QED
  BY <1>2, <1>4, <1>6 DEF FeedInv, OneSocket, Unused, gateway, page

LEMMA DeliverInv ==
  ASSUME FeedInv, Deliver
  PROVE  FeedInv'
<1> DEFINE q == Head(wire)
<1>1. /\ wire \in Seq(Snapshots) /\ wire # <<>> /\ wire' = Tail(wire)
      /\ hub \in [Instruments -> SUBSET Sockets] /\ emitted \in [Sockets -> Answers]
      /\ latest \in Answers
  BY DEF FeedInv, FeedTyped, Deliver
<1>2. /\ q \in Snapshots /\ wire' \in Seq(Snapshots) /\ Len(wire') = Len(wire) - 1
      /\ \A n \in 1 .. Len(wire') : wire'[n] = wire[n + 1]
      /\ Len(wire) \in Nat \ {0} /\ q = wire[1]
  BY <1>1, HeadTailProperties, EmptySeq
<1>3. q.id \in Instruments /\ q.seq \in 0 .. MaxQuotes
  BY <1>2 DEF Snapshots
<1>4. /\ emitted' = [s \in Sockets |->
            IF Hears(s) THEN [emitted[s] EXCEPT ![q.id] = Newest(s, q.id, {q.seq})] ELSE emitted[s]]
      /\ UNCHANGED <<latest, numbered, admission, current, call, sent, wanted, polls>>
  BY DEF Deliver
<1>5. Leaves(hub)
  <2>1. CASE \E s \in hub[q.id] : Overflows(s, 1) /\ Disconnected(s, hub)
    <3>1. PICK s \in hub[q.id] : Overflows(s, 1) /\ Disconnected(s, hub)
      BY <2>1
    <3>2. s \in Sockets
      BY <1>1, <1>3
    <3> QED
      BY <3>1, <3>2, <1>1, DisconnectedLeaves DEF Overflows, FeedInv
  <2>2. CASE UNCHANGED <<transport, registered, hub, pending, panel>>
    BY <2>2, <1>1, StaysLeaves DEF FeedInv
  <2> QED
    BY <2>1, <2>2 DEF Deliver
<1>6. hub' = hub /\ transport' = transport =>
        \A t \in Sockets : t \in hub[q.id] /\ transport[t] = "up" => Hears(t)
  <2>1. ASSUME NEW t \in Sockets, t \in hub[q.id], transport[t] = "up", ~Hears(t),
               hub' = hub, transport' = transport
        PROVE  FALSE
    <3>1. Overflows(t, 1)
      BY <2>1 DEF Hears
    <3>2. \E s \in hub[q.id] : Overflows(s, 1) /\ Disconnected(s, hub)
      BY <2>1, <3>1 DEF Deliver
    <3>3. PICK s \in hub[q.id] : Overflows(s, 1) /\ Disconnected(s, hub)
      BY <3>2
    <3>4. s \in Sockets /\ transport[s] = "up" /\ transport' = [transport EXCEPT ![s] = "down"]
      BY <3>3, <1>1, <1>3 DEF Overflows, Disconnected
    <3>5. transport'[s] = "down"
      BY <3>4 DEF FeedInv, FeedTyped
    <3> QED
      BY <3>4, <3>5, <2>1
  <2> QED
    BY <2>1
<1> HIDE DEF q
<1>7. ASSUME NEW t \in Sockets
      PROVE  /\ emitted'[t] \in Answers
             /\ \A j \in Instruments : emitted[t][j] <= emitted'[t][j]
             /\ Hears(t) => q.seq <= emitted'[t][q.id]
  <2>1. emitted[t] \in Answers /\ emitted[t][q.id] \in 0 .. MaxQuotes
    BY <1>1, <1>3 DEF Answers
  <2>2. \A j \in Instruments : emitted[t][j] \in Nat
    BY <2>1, FeedFacts DEF Answers
  <2>3. CASE ~Hears(t)
    BY <2>1, <2>2, <2>3, <1>4
  <2>4. CASE Hears(t)
    <3> DEFINE m == Newest(t, q.id, {q.seq})
    <3>1. /\ m \in 0 .. MaxQuotes /\ emitted[t][q.id] <= m /\ q.seq <= m
      BY <2>1, <1>3, NewestHolds DEF Newest
    <3>2. emitted'[t] = [emitted[t] EXCEPT ![q.id] = m]
      BY <2>4, <1>4
    <3> HIDE DEF m
    <3> QED
      BY <3>1, <3>2, <2>1, <2>2, <1>3 DEF Answers
  <2> QED
    BY <2>3, <2>4
<1>8. FeedTyped'
  <2>1. emitted' \in [Sockets -> Answers]
    BY <1>4, <1>7
  <2> QED
    BY <1>2, <1>4, <1>5, <2>1 DEF FeedInv, FeedTyped, Leaves
<1>9. ASSUME hub' = hub, transport' = transport, NEW t \in Sockets, NEW i \in Instruments,
             transport[t] = "up"
      PROVE  Served(t, i)'
  <2>1. Served(t, i)
    BY <1>9 DEF FeedInv
  <2>2. ASSUME t \in hub[i] PROVE Covered(t, i)'
    <3>1. Covered(t, i)
      BY <2>1, <2>2 DEF Served
    <3>2. latest'[i] = latest[i] /\ latest[i] \in Nat /\ emitted[t][i] \in Nat /\ emitted'[t][i] \in Nat
      <4>1. latest \in Answers /\ emitted[t] \in Answers /\ emitted'[t] \in Answers
        BY <1>1, <1>7
      <4>2. \A f \in Answers : f[i] \in Nat
        BY FeedFacts DEF Answers
      <4> QED
        BY <4>1, <4>2, <1>4
    <3>3. CASE latest[i] <= emitted[t][i]
      BY <3>2, <3>3, <1>7 DEF Covered
    <3>4. CASE OnWire(wire, i, latest[i])
      <4>1. PICK n \in 1 .. Len(wire) : wire[n].id = i /\ wire[n].seq = latest[i]
        BY <3>4 DEF OnWire
      <4>2. CASE n = 1
        <5>1. q.id = i /\ q.seq = latest[i]
          BY <4>1, <4>2, <1>2
        <5>2. Hears(t)
          BY <5>1, <2>2, <1>6, <1>9
        <5> QED
          BY <5>1, <5>2, <1>7, <3>2 DEF Covered
      <4>3. CASE n # 1
        <5>1. n - 1 \in 1 .. Len(wire') /\ (n - 1) + 1 = n
          BY <4>3, <1>2
        <5>2. wire'[n - 1] = wire[n]
          BY <5>1, <1>2
        <5>3. OnWire(wire', i, latest'[i])
          BY <5>1, <5>2, <4>1, <3>2 DEF OnWire
        <5> QED
          BY <5>3 DEF Covered
      <4> QED
        BY <4>2, <4>3
    <3>5. CASE \E c \in Range(call[t]) : Owes(c, i, latest[i])
      BY <3>5, <3>2, <1>4 DEF Covered
    <3> QED
      BY <3>1, <3>3, <3>4, <3>5 DEF Covered
  <2> QED
    BY <2>1, <2>2, <1>4, <1>9 DEF Served
<1>10. \A t \in Sockets : transport[t] = "none" =>
           /\ current'[t] = {} /\ wanted'[t] = {} /\ call'[t] = <<>>
           /\ \A i \in Instruments : t \notin hub[i]
  BY <1>4 DEF FeedInv, Unused
<1> QED
  BY <1>5, <1>8, <1>9, <1>10, FeedStepInv

(* ---- connections ---- *)
LEMMA ConnectInv ==
  ASSUME FeedInv, NEW s \in Sockets, connect(s)
  PROVE  FeedInv'
<1>1. /\ transport[s] = "none" /\ panel = NoSocket /\ panel' = s
      /\ transport' = [transport EXCEPT ![s] = "up"]
      /\ UNCHANGED <<store, registered, current, hub, call, sent, wanted, emitted, pending, shown, polls>>
  BY DEF connect
<1>2. FeedTyped'
  BY <1>1 DEF FeedInv, FeedTyped, store
<1>3. \A t \in Sockets : transport'[t] = IF t = s THEN "up" ELSE transport[t]
  BY <1>1 DEF FeedInv, FeedTyped
<1>4. \A t \in Sockets : transport'[t] = "up" => t = s
  BY <1>1, <1>3, FeedFacts DEF FeedInv, OneSocket
<1>5. \A i \in Instruments : Served(s, i)'
  BY <1>1 DEF FeedInv, Unused, Served
<1>6. \A t \in Sockets : transport'[t] = "none" => Unused(t)'
  BY <1>1, <1>3 DEF FeedInv, Unused
<1> QED
  BY <1>1, <1>2, <1>4, <1>5, <1>6 DEF FeedInv, OneSocket

(* A step that leaves all the rest alone.                                   *)
LEMMA OnlyLeavesInv ==
  ASSUME FeedInv, Leaves(hub), UNCHANGED <<store, current, call, wanted, emitted>>
  PROVE  FeedInv'
<1>1. FeedTyped'
  BY DEF FeedInv, FeedTyped, Leaves, store
<1>2. \A t \in Sockets : transport[t] = "none" =>
           /\ current'[t] = {} /\ wanted'[t] = {} /\ call'[t] = <<>>
           /\ \A i \in Instruments : t \notin hub[i]
  BY DEF FeedInv, Unused
<1>3. hub' = hub =>
        \A t \in Sockets, i \in Instruments : Served(t, i) => Served(t, i)'
  BY DEF Served, Covered, store
<1> QED
  BY <1>1, <1>2, <1>3, FeedStepInv DEF FeedInv

LEMMA ConnectionInv ==
  ASSUME FeedInv, NEW s \in Sockets, handleDisconnect(s) \/ handleConnection(s)
  PROVE  FeedInv'
<1>1. hub \in [Instruments -> SUBSET Sockets] /\ FeedTyped /\ OneSocket
  BY DEF FeedInv, FeedTyped
<1>2. CASE handleDisconnect(s)
  BY <1>1, <1>2, DisconnectedLeaves, OnlyLeavesInv DEF handleDisconnect
<1>3. CASE handleConnection(s)
  <2>1. UNCHANGED <<store, current, call, wanted, emitted>>
    BY <1>3 DEF handleConnection
  <2>2. CASE registered' = [registered EXCEPT ![s] = TRUE] /\ UNCHANGED <<transport, hub, pending, panel>>
    <3>1. Leaves(hub)
      BY <1>1, <2>2 DEF Leaves, FeedTyped, OneSocket
    <3> QED
      BY <2>1, <3>1, OnlyLeavesInv
  <2>3. CASE transport[s] = "up" /\ Disconnected(s, hub)
    BY <1>1, <2>1, <2>3, DisconnectedLeaves, OnlyLeavesInv
  <2>4. CASE UNCHANGED <<transport, registered, hub, pending, panel>>
    BY <1>1, <2>1, <2>4, StaysLeaves, OnlyLeavesInv
  <2> QED
    BY <1>3, <2>2, <2>3, <2>4 DEF handleConnection
<1> QED
  BY <1>2, <1>3

(* ---- subscribe and unsubscribe ---- *)

(* What a handler of s keeps when it changes nothing of the store.          *)
LEMMA GatewayTyped ==
  ASSUME FeedTyped, NEW h, Leaves(h), UNCHANGED <<latest, numbered, wire>>, CallsWellFormed',
         current' \in [Sockets -> SUBSET Instruments], wanted' \in [Sockets -> SUBSET Instruments],
         emitted' \in [Sockets -> Answers]
  PROVE  FeedTyped'
  BY DEF FeedTyped, CallsWellFormed, Leaves

LEMMA SendInv ==
  ASSUME FeedInv, NEW s \in Sockets, NEW kind \in {"subscribe", "unsubscribe"},
         NEW ids \in (SUBSET Instruments) \ {{}}, Send(s, kind, ids)
  PROVE  FeedInv'
<1> DEFINE c == Message(kind, ids)
<1>1. c \in Calls /\ CallForm(c)
  <2>1. (CHOOSE i \in Instruments : TRUE) \in Instruments
    <3>0. ids \subseteq Instruments /\ ids # {}
      OBVIOUS
    <3>1. \E i \in Instruments : TRUE
      BY <3>0
    <3> QED
      BY <3>1, Zenon
  <2> QED
    BY <2>1 DEF Message, Calls, CallForm
<1>2. /\ transport[s] = "up" /\ call' = [call EXCEPT ![s] = Append(call[s], c)]
      /\ UNCHANGED <<store, transport, registered, panel, current, hub, wanted, emitted>>
  BY DEF Send, page
<1> HIDE DEF c
<1>3. call \in [Sockets -> Seq(Calls)]
  BY DEF FeedInv, FeedTyped
<1>4. /\ Append(call[s], c) \in Seq(Calls)
      /\ \A x \in Range(call[s]) : x \in Range(Append(call[s], c))
      /\ \A x \in Range(Append(call[s], c)) : x = c \/ x \in Range(call[s])
  BY <1>1, <1>3, AppendedRange
<1>5. \A t \in Sockets : call'[t] = IF t = s THEN Append(call[s], c) ELSE call[t]
  BY <1>2, <1>3
<1>6. CallsWellFormed'
  BY <1>1, <1>2, <1>3, <1>4, <1>5 DEF FeedInv, FeedTyped, CallsWellFormed
<1>7. Leaves(hub)
  BY <1>2, StaysLeaves DEF FeedInv, FeedTyped
<1>8. FeedTyped'
  BY <1>2, <1>6, <1>7, GatewayTyped DEF FeedInv, FeedTyped, store
<1>9. ASSUME NEW i \in Instruments PROVE Served(s, i)'
  <2>1. Served(s, i)
    BY <1>2 DEF FeedInv
  <2>2. \A x \in Range(call[s]) : x \in Range(call'[s])
    BY <1>4, <1>5
  <2>3. Covered(s, i) => Covered(s, i)'
    BY <1>2, <2>2 DEF Covered, store
  <2> QED
    BY <1>2, <2>1, <2>2, <2>3 DEF Served
<1>10. Elsewhere(s, hub)
  BY <1>2, <1>5 DEF Elsewhere
<1> QED
  BY <1>2, <1>7, <1>8, <1>9, <1>10, HandlerStepInv DEF store

LEMMA SubscribeInv ==
  ASSUME FeedInv, NEW s \in Sockets, NEW k \in 1 .. Len(call[s]), subscribe(s, k)
  PROVE  FeedInv'
<1>0. hub \in [Instruments -> SUBSET Sockets] /\ FeedTyped /\ OneSocket
  BY DEF FeedInv, FeedTyped
<1>1. /\ UNCHANGED <<latest, numbered, wire, current, emitted>>
      /\ call[s][k].at = "admit" /\ call[s][k].kind = "subscribe"
  BY DEF subscribe, Admitted, store
<1>2. /\ transport[s] # "none" /\ call[s][k] \in Calls /\ CallForm(call[s][k])
  BY CallerFacts
<1>3. \A i \in Instruments : \A l : ~Seeks(call[s][k], i) /\ ~Owes(call[s][k], i, l)
  BY <1>1, <1>2 DEF Seeks, Owes, CallForm
<1>4. CASE Ends(s, k) /\ wanted' = wanted /\ Leaves(hub)
  <2>1. /\ CallsWellFormed' /\ \A t \in Sockets : t # s => call'[t] = call[t]
        /\ \A x \in Range(call[s]) : x = call[s][k] \/ x \in Range(call'[s])
    BY <1>4, CallEnds
  <2>2. FeedTyped'
    BY <1>0, <1>1, <1>4, <2>1, GatewayTyped DEF FeedTyped
  <2>3. ASSUME hub' = hub, transport[s] = "up", NEW i \in Instruments PROVE Served(s, i)'
    <3>1. Served(s, i)
      BY <2>3 DEF FeedInv
    <3>2. Covered(s, i) => Covered(s, i)'
      BY <1>1, <1>3, <2>1 DEF Covered
    <3>3. (\E c \in Range(call[s]) : Seeks(c, i)) => (\E c \in Range(call'[s]) : Seeks(c, i))
      BY <1>3, <2>1
    <3> QED
      BY <1>1, <1>4, <2>3, <3>1, <3>2, <3>3 DEF Served
  <2>4. Elsewhere(s, hub)
    BY <1>1, <1>4, <2>1 DEF Elsewhere
  <2> QED
    BY <1>1, <1>2, <1>4, <2>2, <2>3, <2>4, HandlerStepInv
<1>5. CASE /\ Goes(s, k, [call[s][k] EXCEPT !.at = "catalog"])
           /\ wanted' = [wanted EXCEPT ![s] = @ \cup call[s][k].ids]
           /\ UNCHANGED <<transport, registered, hub, pending, panel>>
  <2> DEFINE c == [call[s][k] EXCEPT !.at = "catalog"]
  <2>1. /\ c \in Calls /\ CallForm(c) /\ c.at = "catalog" /\ c.left = call[s][k].left
        /\ Goes(s, k, c)
    BY <1>1, <1>2, <1>5 DEF Calls, CallForm
  <2> HIDE DEF c
  <2>2. /\ CallsWellFormed' /\ \A t \in Sockets : t # s => call'[t] = call[t]
        /\ c \in Range(call'[s])
        /\ \A x \in Range(call[s]) : x = call[s][k] \/ x \in Range(call'[s])
    BY <2>1, CallGoes
  <2>3. Leaves(hub)
    BY <1>0, <1>5, StaysLeaves
  <2>4. FeedTyped'
    <3>1. wanted' \in [Sockets -> SUBSET Instruments]
      BY <1>0, <1>2, <1>5 DEF FeedTyped, Calls
    <3> QED
      BY <1>0, <1>1, <2>2, <2>3, <3>1, GatewayTyped DEF FeedTyped
  <2>5. ASSUME transport[s] = "up", NEW i \in Instruments PROVE Served(s, i)'
    <3>1. Served(s, i)
      BY <2>5 DEF FeedInv
    <3>2. Covered(s, i) => Covered(s, i)'
      BY <1>1, <1>3, <2>2 DEF Covered
    <3>3. i \in wanted'[s] => i \in wanted[s] \/ i \in call[s][k].left
      BY <1>0, <1>1, <1>2, <1>5 DEF FeedTyped, CallForm
    <3>4. i \in wanted'[s] => i \in current[s] \/ \E x \in Range(call'[s]) : Seeks(x, i)
      BY <1>3, <2>1, <2>2, <3>1, <3>3 DEF Served, Seeks
    <3> QED
      BY <1>1, <1>5, <3>1, <3>2, <3>4 DEF Served
  <2>6. Elsewhere(s, hub)
    BY <1>0, <1>1, <1>5, <2>2 DEF Elsewhere, FeedTyped
  <2> QED
    BY <1>1, <1>2, <2>3, <2>4, <2>5, <2>6, HandlerStepInv
<1>6. CASE ~registered[s] /\ Ends(s, k) /\ UNCHANGED <<transport, registered, hub, wanted, pending, panel>>
  BY <1>0, <1>4, <1>6, StaysLeaves
<1>7. CASE Ends(s, k) /\ Turn(s, 1, hub) /\ UNCHANGED wanted
  BY <1>0, <1>4, <1>7, TurnLeaves
<1> QED
  BY <1>5, <1>6, <1>7 DEF subscribe

LEMMA CatalogInv ==
  ASSUME FeedInv, NEW s \in Sockets, NEW k \in 1 .. Len(call[s]), NEW i \in Instruments,
         NEW available \in BOOLEAN, CatalogAnswers(s, k, i, available)
  PROVE  FeedInv'
<1>0. hub \in [Instruments -> SUBSET Sockets] /\ FeedTyped /\ OneSocket
  BY DEF FeedInv, FeedTyped
<1>1. /\ UNCHANGED <<latest, numbered, wire, emitted>>
      /\ call[s][k].at = "catalog" /\ i \in call[s][k].left
  BY DEF CatalogAnswers, store
<1>2. /\ transport[s] # "none" /\ call[s][k] \in Calls /\ CallForm(call[s][k])
  BY CallerFacts
<1>3. CASE available
  <2> DEFINE c == [call[s][k] EXCEPT !.at = "quote", !.left = @ \ {i}, !.reads = i]
             h == Listens(s, i)
  <2>1. /\ hub' = h /\ current' = [current EXCEPT ![s] = @ \cup {i}] /\ Goes(s, k, c)
        /\ UNCHANGED <<transport, registered, wanted, pending, panel>>
    BY <1>3 DEF CatalogAnswers
  <2>2. /\ c \in Calls /\ CallForm(c) /\ c.at = "quote" /\ c.reads = i
        /\ c.left = call[s][k].left \ {i} /\ c.snapshots = call[s][k].snapshots
    BY <1>1, <1>2 DEF Calls, CallForm
  <2>3. /\ h \in [Instruments -> SUBSET Sockets]
        /\ \A t \in Sockets, j \in Instruments :
             t \in h[j] <=> t \in hub[j] \/ (i \notin current[s] /\ t = s /\ j = i)
    BY <1>0 DEF Listens
  <2> HIDE DEF c, h
  <2>4. /\ CallsWellFormed' /\ \A t \in Sockets : t # s => call'[t] = call[t]
        /\ c \in Range(call'[s])
        /\ \A x \in Range(call[s]) : x = call[s][k] \/ x \in Range(call'[s])
    BY <2>1, <2>2, CallGoes
  <2>5. Leaves(h)
    BY <1>0, <2>1, <2>3, StaysLeaves
  <2>6. FeedTyped'
    <3>1. current' \in [Sockets -> SUBSET Instruments]
      BY <1>0, <2>1 DEF FeedTyped
    <3> QED
      BY <1>0, <1>1, <2>1, <2>4, <2>5, <3>1, GatewayTyped DEF FeedTyped
  <2>7. ASSUME transport[s] = "up", NEW j \in Instruments PROVE Served(s, j)'
    <3>1. Served(s, j)
      BY <2>7 DEF FeedInv
    <3>2. j \in current'[s] <=> j \in current[s] \/ j = i
      BY <1>0, <2>1 DEF FeedTyped
    <3>3. j \in current'[s] <=> s \in hub'[j]
      BY <2>1, <2>3, <3>1, <3>2 DEF Served
    <3>4. \A x \in Range(call[s]) : Seeks(x, j) => j = i \/ \E y \in Range(call'[s]) : Seeks(y, j)
      BY <2>2, <2>4 DEF Seeks
    <3>5. \A x \in Range(call[s]) : \A l : Owes(x, j, l) => \E y \in Range(call'[s]) : Owes(y, j, l)
      BY <1>1, <2>2, <2>4 DEF Owes
    <3>6. Covered(s, j) => Covered(s, j)'
      BY <1>1, <3>5 DEF Covered
    <3>7. Covered(s, i)'
      BY <2>2, <2>4 DEF Covered, Owes
    <3>8. s \in hub'[j] => Covered(s, j)'
      BY <2>1, <2>3, <3>1, <3>6, <3>7 DEF Served
    <3>9. j \in wanted'[s] => j \in current'[s] \/ \E y \in Range(call'[s]) : Seeks(y, j)
      BY <2>1, <3>1, <3>2, <3>4 DEF Served
    <3> QED
      BY <3>3, <3>8, <3>9 DEF Served
  <2>8. Elsewhere(s, h)
    BY <1>0, <1>1, <2>1, <2>3, <2>4 DEF Elsewhere, FeedTyped
  <2> QED
    BY <1>1, <1>2, <2>5, <2>6, <2>7, <2>8, HandlerStepInv
<1>4. CASE ~available
  <2> DEFINE c == [call[s][k] EXCEPT !.left = @ \ {i}, !.ids = @ \ {i}]
  <2>1. /\ Goes(s, k, c) /\ wanted' = [wanted EXCEPT ![s] = @ \ {i}] /\ Turn(s, 1, hub)
        /\ UNCHANGED current
    BY <1>4 DEF CatalogAnswers
  <2>2. /\ c \in Calls /\ CallForm(c) /\ c.at = "catalog"
        /\ c.left = call[s][k].left \ {i} /\ c.snapshots = call[s][k].snapshots
    BY <1>1, <1>2 DEF Calls, CallForm
  <2> HIDE DEF c
  <2>4. /\ CallsWellFormed' /\ \A t \in Sockets : t # s => call'[t] = call[t]
        /\ c \in Range(call'[s])
        /\ \A x \in Range(call[s]) : x = call[s][k] \/ x \in Range(call'[s])
    BY <2>1, <2>2, CallGoes
  <2>5. Leaves(hub)
    BY <1>0, <2>1, TurnLeaves
  <2>6. FeedTyped'
    <3>1. wanted' \in [Sockets -> SUBSET Instruments]
      BY <1>0, <2>1 DEF FeedTyped
    <3> QED
      BY <1>0, <1>1, <2>1, <2>4, <2>5, <3>1, GatewayTyped DEF FeedTyped
  <2>7. ASSUME hub' = hub, transport[s] = "up", NEW j \in Instruments PROVE Served(s, j)'
    <3>1. Served(s, j)
      BY <2>7 DEF FeedInv
    <3>2. j \in wanted'[s] => j \in wanted[s] /\ j # i
      BY <1>0, <2>1 DEF FeedTyped
    <3>4. \A x \in Range(call[s]) : Seeks(x, j) => j = i \/ \E y \in Range(call'[s]) : Seeks(y, j)
      BY <2>2, <2>4 DEF Seeks
    <3>5. \A x \in Range(call[s]) : \A l : Owes(x, j, l) => \E y \in Range(call'[s]) : Owes(y, j, l)
      BY <1>1, <2>2, <2>4 DEF Owes
    <3>6. Covered(s, j) => Covered(s, j)'
      BY <1>1, <3>5 DEF Covered
    <3> QED
      BY <2>1, <2>7, <3>1, <3>2, <3>4, <3>6 DEF Served
  <2>8. Elsewhere(s, hub)
    BY <1>0, <1>1, <2>1, <2>4 DEF Elsewhere, FeedTyped
  <2> QED
    BY <1>1, <1>2, <2>5, <2>6, <2>7, <2>8, HandlerStepInv
<1> QED
  BY <1>3, <1>4

LEMMA GetLatestInv ==
  ASSUME FeedInv, NEW s \in Sockets, NEW k \in 1 .. Len(call[s]), getLatest(s, k)
  PROVE  FeedInv'
<1>0. hub \in [Instruments -> SUBSET Sockets] /\ FeedTyped /\ OneSocket
  BY DEF FeedInv, FeedTyped
<1> DEFINE i == call[s][k].reads
           x == [id |-> i, seq |-> latest[i]]
           c == [call[s][k] EXCEPT !.at = "catalog", !.snapshots = @ \cup {x}]
<1>1. /\ UNCHANGED <<latest, numbered, wire, emitted, current, wanted, hub, transport, registered, panel>>
      /\ call[s][k].at = "quote" /\ Goes(s, k, c)
  BY DEF getLatest, store, page
<1>2. /\ transport[s] # "none" /\ call[s][k] \in Calls /\ CallForm(call[s][k])
  BY CallerFacts
<1>3. i \in Instruments /\ latest[i] \in 0 .. MaxQuotes /\ x.id = i /\ x.seq = latest[i]
  BY <1>0, <1>2 DEF FeedTyped, Calls, Answers
<1>4. x \in Snapshots
  BY <1>3 DEF Snapshots
<1> HIDE DEF x
<1>5. /\ c \in Calls /\ CallForm(c) /\ c.at = "catalog"
      /\ c.left = call[s][k].left /\ c.snapshots = call[s][k].snapshots \cup {x}
  BY <1>1, <1>2, <1>4 DEF Calls, CallForm
<1> HIDE DEF c
<1>6. /\ CallsWellFormed' /\ \A t \in Sockets : t # s => call'[t] = call[t]
      /\ c \in Range(call'[s])
      /\ \A y \in Range(call[s]) : y = call[s][k] \/ y \in Range(call'[s])
  BY <1>1, <1>5, CallGoes
<1>7. Leaves(hub)
  BY <1>0, <1>1, StaysLeaves
<1>8. FeedTyped'
  BY <1>0, <1>1, <1>6, <1>7, GatewayTyped DEF FeedTyped
<1>9. ASSUME transport[s] = "up", NEW j \in Instruments PROVE Served(s, j)'
  <2>1. Served(s, j)
    BY <1>9 DEF FeedInv
  <2>2. latest[j] \in Nat
    BY <1>0, FeedFacts DEF FeedTyped, Answers
  <2>3. \A y \in Range(call[s]) : Seeks(y, j) => \E z \in Range(call'[s]) : Seeks(z, j)
    BY <1>5, <1>6 DEF Seeks
  <2>4. Owes(call[s][k], j, latest[j]) => Owes(c, j, latest[j])
    BY <1>1, <1>3, <1>5, <2>2 DEF Owes
  <2>5. Covered(s, j) => Covered(s, j)'
    BY <1>1, <1>6, <2>4 DEF Covered
  <2> QED
    BY <1>1, <2>1, <2>3, <2>5 DEF Served
<1>10. Elsewhere(s, hub)
  BY <1>1, <1>6 DEF Elsewhere
<1> QED
  BY <1>1, <1>2, <1>7, <1>8, <1>9, <1>10, HandlerStepInv

LEMMA AckInv ==
  ASSUME FeedInv, NEW s \in Sockets, NEW k \in 1 .. Len(call[s]), SubscribeAck(s, k)
  PROVE  FeedInv'
<1>0. hub \in [Instruments -> SUBSET Sockets] /\ FeedTyped /\ OneSocket
  BY DEF FeedInv, FeedTyped
<1> DEFINE c == call[s][k]
           found == Found(s, k)
           n == 1 + Cardinality(found)
           told == transport[s] = "up" /\ ~Overflows(s, n)
           SeqsOf(i) == {x.seq : x \in {y \in found : y.id = i}}
<1>1. /\ UNCHANGED <<latest, numbered, wire, current, wanted>>
      /\ c.at = "catalog" /\ c.left = {} /\ Turn(s, n, hub) /\ Ends(s, k)
      /\ emitted' = [emitted EXCEPT ![s] =
            [i \in Instruments |-> IF told THEN Newest(s, i, SeqsOf(i)) ELSE emitted[s][i]]]
  BY DEF SubscribeAck, store
<1>2. /\ transport[s] # "none" /\ c \in Calls
  BY CallerFacts
<1>3. \A i \in Instruments : SeqsOf(i) \in SUBSET (0 .. MaxQuotes)
  BY <1>2 DEF Found, Calls, Snapshots
<1>4. \A i \in Instruments, x \in c.snapshots : x.id = i /\ x.seq # 0 => x.seq \in SeqsOf(i)
  BY DEF Found
<1>5. /\ CallsWellFormed' /\ \A t \in Sockets : t # s => call'[t] = call[t]
      /\ \A y \in Range(call[s]) : y = c \/ y \in Range(call'[s])
  BY <1>1, CallEnds
<1>6. Leaves(hub)
  BY <1>0, <1>1, TurnLeaves
<1>7. \A i \in Instruments : emitted[s][i] \in 0 .. MaxQuotes
  BY <1>0 DEF FeedTyped, Answers
<1>8. /\ \A t \in Sockets : t # s => emitted'[t] = emitted[t]
      /\ \A i \in Instruments : emitted'[s][i] = IF told THEN Newest(s, i, SeqsOf(i)) ELSE emitted[s][i]
      /\ emitted'[s] = [i \in Instruments |-> emitted'[s][i]]
      /\ DOMAIN emitted' = Sockets /\ emitted' = [t \in Sockets |-> emitted'[t]]
  BY <1>0, <1>1 DEF FeedTyped
<1> HIDE DEF SeqsOf, told, found
<1>9. \A i \in Instruments :
        /\ Newest(s, i, SeqsOf(i)) \in 0 .. MaxQuotes
        /\ emitted[s][i] <= Newest(s, i, SeqsOf(i))
        /\ \A l \in SeqsOf(i) : l <= Newest(s, i, SeqsOf(i))
  BY <1>3, <1>7, NewestHolds DEF Newest
<1>10. \A i \in Instruments : emitted'[s][i] \in 0 .. MaxQuotes
  BY <1>7, <1>8, <1>9
<1>11. FeedTyped'
  <2>1. emitted'[s] \in Answers
    BY <1>8, <1>10 DEF Answers
  <2>2. emitted' \in [Sockets -> Answers]
    BY <1>0, <1>8, <2>1 DEF FeedTyped
  <2> QED
    BY <1>0, <1>1, <1>5, <1>6, <2>2, GatewayTyped DEF FeedTyped
<1>12. ASSUME hub' = hub, transport[s] = "up", transport'[s] # "down", NEW j \in Instruments
       PROVE  Served(s, j)'
  <2>1. Served(s, j)
    BY <1>12 DEF FeedInv
  <2>2. told
    <3>1. Overflows(s, n) => transport'[s] = "down"
      BY <1>0, <1>1 DEF Turn, Disconnected, FeedTyped
    <3> QED
      BY <3>1, <1>12 DEF told
  <2>3. latest[j] \in Nat /\ emitted[s][j] \in Nat /\ emitted'[s][j] \in Nat
    <3>1. latest[j] \in 0 .. MaxQuotes
      BY <1>0 DEF FeedTyped, Answers
    <3> QED
      BY <3>1, <1>7, <1>10, FeedFacts
  <2>4. emitted[s][j] <= emitted'[s][j] /\ \A l \in SeqsOf(j) : l <= emitted'[s][j]
    BY <2>2, <1>8, <1>9
  <2>5. Owes(c, j, latest[j]) => latest[j] <= emitted'[s][j]
    <3>1. ASSUME NEW x \in c.snapshots, x.id = j, x.seq >= latest[j]
          PROVE  latest[j] <= emitted'[s][j]
      <4>1. x.seq \in 0 .. MaxQuotes
        BY <1>2 DEF Calls, Snapshots
      <4>2. PICK l \in 0 .. MaxQuotes : l = x.seq
        BY <4>1
      <4>3. l = 0 \/ l <= emitted'[s][j]
        BY <4>2, <3>1, <1>4, <2>4
      <4> QED
        BY <4>2, <4>3, <3>1, <2>3, FeedFacts
    <3> QED
      BY <3>1, <1>1 DEF Owes
  <2>6. Covered(s, j) => Covered(s, j)'
    <3>1. CASE latest[j] <= emitted[s][j]
      BY <3>1, <2>3, <2>4, <1>1 DEF Covered
    <3>2. CASE OnWire(wire, j, latest[j])
      BY <3>2, <1>1 DEF Covered
    <3>3. CASE \E y \in Range(call[s]) : Owes(y, j, latest[j])
      BY <3>3, <2>5, <1>1, <1>5 DEF Covered
    <3> QED
      BY <3>1, <3>2, <3>3 DEF Covered
  <2>7. (\E y \in Range(call[s]) : Seeks(y, j)) => (\E y \in Range(call'[s]) : Seeks(y, j))
    BY <1>1, <1>5 DEF Seeks
  <2> QED
    BY <1>1, <1>12, <2>1, <2>6, <2>7 DEF Served
<1>13. Elsewhere(s, hub)
  BY <1>1, <1>5, <1>8 DEF Elsewhere
<1>14. CASE transport'[s] = "down" /\ transport[s] = "up"
  <2>1. \A t \in Sockets, i \in Instruments : t \in hub'[i] => t \in hub[i]
    BY <1>6 DEF Leaves
  <2>2. \A t \in Sockets : transport'[t] # "up"
    BY <1>6, <1>14 DEF Leaves
  <2>3. \A t \in Sockets : transport'[t] = "none" => Unused(t)'
    BY <1>1, <1>2, <1>6, <1>13, <1>14, <2>1 DEF FeedInv, Leaves, Elsewhere, Unused
  <2> QED
    BY <1>6, <1>11, <2>2, <2>3 DEF FeedInv, Leaves
<1>15. CASE ~(transport'[s] = "down" /\ transport[s] = "up")
  BY <1>1, <1>2, <1>6, <1>11, <1>12, <1>13, <1>15, HandlerStepInv
<1> QED
  BY <1>14, <1>15

LEMMA UnsubscribeInv ==
  ASSUME FeedInv, NEW s \in Sockets, NEW k \in 1 .. Len(call[s]), unsubscribe(s, k)
  PROVE  FeedInv'
<1>0. hub \in [Instruments -> SUBSET Sockets] /\ FeedTyped /\ OneSocket
  BY DEF FeedInv, FeedTyped
<1> DEFINE c == call[s][k]
           ids == IF registered[s] THEN c.ids \cap current[s] ELSE {}
           h == Without(hub, s, ids)
<1>1. /\ UNCHANGED <<latest, numbered, wire, emitted>>
      /\ c.at = "admit" /\ Turn(s, 1, h) /\ Ends(s, k)
      /\ current' = [current EXCEPT ![s] = @ \ ids]
      /\ wanted' = [wanted EXCEPT ![s] = @ \ c.ids]
  BY DEF unsubscribe, Admitted, Left, store
<1>2. /\ transport[s] # "none" /\ c \in Calls /\ CallForm(c)
  BY CallerFacts
<1>3. /\ h \in [Instruments -> SUBSET Sockets]
      /\ \A t \in Sockets, j \in Instruments : t \in h[j] <=> t \in hub[j] /\ ~(t = s /\ j \in ids)
  BY <1>0 DEF Without
<1>4. ids \subseteq c.ids
  OBVIOUS
<1> HIDE DEF ids, h
<1>5. \A i \in Instruments : \A l : ~Seeks(c, i) /\ ~Owes(c, i, l)
  BY <1>1, <1>2 DEF Seeks, Owes, CallForm
<1>6. /\ CallsWellFormed' /\ \A t \in Sockets : t # s => call'[t] = call[t]
      /\ \A y \in Range(call[s]) : y = c \/ y \in Range(call'[s])
  BY <1>1, CallEnds
<1>7. Leaves(h)
  BY <1>0, <1>1, <1>3, TurnLeaves
<1>8. FeedTyped'
  <2>1. current' \in [Sockets -> SUBSET Instruments] /\ wanted' \in [Sockets -> SUBSET Instruments]
    BY <1>0, <1>1 DEF FeedTyped
  <2> QED
    BY <1>0, <1>1, <1>6, <1>7, <2>1, GatewayTyped DEF FeedTyped
<1>9. ASSUME hub' = h, transport[s] = "up", NEW j \in Instruments PROVE Served(s, j)'
  <2>1. Served(s, j)
    BY <1>9 DEF FeedInv
  <2>2. /\ j \in current'[s] <=> j \in current[s] /\ j \notin ids
        /\ j \in wanted'[s] <=> j \in wanted[s] /\ j \notin c.ids
    BY <1>0, <1>1 DEF FeedTyped
  <2>3. s \in hub'[j] <=> s \in hub[j] /\ j \notin ids
    BY <1>3, <1>9
  <2>4. Covered(s, j) => Covered(s, j)'
    BY <1>1, <1>5, <1>6 DEF Covered
  <2>5. (\E y \in Range(call[s]) : Seeks(y, j)) => (\E y \in Range(call'[s]) : Seeks(y, j))
    BY <1>5, <1>6
  <2> QED
    BY <1>4, <2>1, <2>2, <2>3, <2>4, <2>5 DEF Served
<1>10. Elsewhere(s, h)
  BY <1>0, <1>1, <1>3, <1>6 DEF Elsewhere, FeedTyped
<1> QED
  BY <1>1, <1>2, <1>7, <1>8, <1>9, <1>10, HandlerStepInv

(* ---- every step ---- *)
LEMMA FeedStep == FeedInv /\ [FeedNext]_feedVars => FeedInv'
<1> SUFFICES ASSUME FeedInv, [FeedNext]_feedVars PROVE FeedInv'
  OBVIOUS
<1>1. CASE Deliver
  BY <1>1, DeliverInv
<1>2. CASE UNCHANGED <<store, gateway, panel>>
  BY <1>2 DEF FeedInv, FeedTyped, OneSocket, Unused, Served, Covered, store, gateway
<1>3. CASE \E i \in Instruments : Publish(i) \/ QuoteGone(i)
  BY <1>3, PublishInv, QuoteGoneInv
<1>4. CASE \E s \in Sockets : connect(s) \/ handleDisconnect(s) \/ handleConnection(s)
  BY <1>4, ConnectInv, ConnectionInv
<1>5. CASE \E s \in Sockets, kind \in {"subscribe", "unsubscribe"},
              ids \in (SUBSET Instruments) \ {{}} : Send(s, kind, ids)
  BY <1>5, SendInv
<1>6. CASE \E s \in Sockets : \E k \in 1 .. Len(call[s]) :
              \/ subscribe(s, k) \/ getLatest(s, k) \/ SubscribeAck(s, k) \/ unsubscribe(s, k)
              \/ \E i \in Instruments, available \in BOOLEAN : CatalogAnswers(s, k, i, available)
  BY <1>6, SubscribeInv, GetLatestInv, AckInv, UnsubscribeInv, CatalogInv
<1>7. quoteSnapshots \/ (\E a \in polls : loadQuotes(a)) \/ UNCHANGED feedVars
        => UNCHANGED <<store, gateway, panel>>
  BY DEF quoteSnapshots, loadQuotes, feedVars, page
<1> QED
  BY <1>1, <1>2, <1>3, <1>4, <1>5, <1>6, <1>7 DEF FeedNext

(* The inductive invariant of the gateway: the listeners of a connected      *)
(* client are the entries of its map, what it wants is listened to or about  *)
(* to be, and of what it listens to the stored quote has reached it or is    *)
(* on its way to it.                                                        *)
THEOREM FeedInvariant == FeedSpec => []FeedInv
<1> QED
  BY FeedInitInv, FeedStep, PTL DEF FeedSpec

(* Between the snapshot and the stream no quote is missed, for any           *)
(* instruments and limits, and for any order in which messages, publications *)
(* and catalog reads come.                                                   *)
THEOREM NothingMissed == FeedSpec => []NoQuoteMissed
<1>1. FeedInv => NoQuoteMissed
  <2> SUFFICES ASSUME FeedInv, NEW s \in Sockets, NEW i \in Instruments,
                      i \in wanted[s], transport[s] = "up", Quiet(s)
               PROVE  \/ latest[i] <= emitted[s][i]
                      \/ \E n \in 1 .. Len(wire) : wire[n].id = i /\ wire[n].seq = latest[i]
    BY DEF NoQuoteMissed
  <2>1. Range(call[s]) = {}
    <3>1. Range(<<>>) = {}
      BY DEF Range
    <3> QED
      BY <3>1 DEF Quiet
  <2>2. Served(s, i)
    BY DEF FeedInv
  <2> QED
    BY <2>1, <2>2 DEF Served, Covered, OnWire
<1> QED
  BY <1>1, FeedInvariant, PTL

(* A connected client's map and the hub agree about its listeners.          *)
THEOREM ListenersAgree == FeedSpec => []ListenersMatch
<1>1. FeedInv => ListenersMatch
  BY DEF FeedInv, Served, ListenersMatch
<1> QED
  BY <1>1, FeedInvariant, PTL
=============================================================================
