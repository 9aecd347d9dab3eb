----------------------- MODULE ServiceStreamsProofs ------------------------
(***************************************************************************)
(* Proofs about the streams of a ServiceServer, for any size of the pool   *)
(* and any number of clients and messages, and at the end about how its    *)
(* clients find it.                                                        *)
(***************************************************************************)
EXTENDS ServiceStreams, ServiceConnection, FiniteSetTheorems, TLAPS

\* Control points of a CONNECT before its new stream is listened on.
Opening == event.pc \in {"abort", "store", "get"}
\* Control points at which event.id is a stream that is being handled.
Busy == event.pc \in {"abort", "store", "get", "read", "prompt"}

Mentioned(i) == \E k \in DOMAIN cq : cq[k].id = i
Owned(i) == i \in Ids /\ owner[i] \in Clients /\ i \notin listening /\ i < stream_id
\* The client of stream i has gone and every tag of the stream is handled.
Retired(i) == Owned(i) /\ conn[owner[i]] = "closed" /\ ~Mentioned(i)

(***************************************************************************)
(* An id is new, listened on, or has a client; a client has one stream,    *)
(* and callbacks are for streams that have one.                            *)
(***************************************************************************)
OwnerInv ==
  /\ \A i \in Ids : owner[i] # NoClient => conn[owner[i]] # "new"
  /\ \A i, j \in Ids : (owner[i] = owner[j] /\ owner[i] # NoClient) => i = j
  /\ \A i \in Ids : i >= stream_id => i \notin listening /\ owner[i] = NoClient
  /\ \A i \in listening : owner[i] = NoClient /\ callback[i] = NoCall
  /\ \A i \in reading : Owned(i) /\ conn[owner[i]] = "connected"

\* Tags are of streams with a client; CONNECT comes first, BROKEN_PIPE last.
QueueInv ==
  /\ \A k \in DOMAIN cq : Owned(cq[k].id)
  /\ \A k \in DOMAIN cq : cq[k].type = "BROKEN_PIPE" => conn[owner[cq[k].id]] = "closed"
  /\ \A j, k \in DOMAIN cq :
       (j < k /\ cq[j].id = cq[k].id) => cq[j].type # "BROKEN_PIPE" /\ cq[k].type # "CONNECT"

\* Ids that wait to be used again are retired.
ReuseInv ==
  /\ \A k \in DOMAIN reusable_id : Retired(reusable_id[k])
  /\ IsInjective(reusable_id)

\* The id that is about to be listened on is retired or has never been used.
EventInv ==
  /\ Busy => Owned(event.id)
  /\ Opening => /\ event.new # event.id /\ event.id \notin Connecting
                /\ event.new \notin listening /\ event.new < stream_id
                /\ ~Mentioned(event.new) /\ event.new \notin ToSet(reusable_id)
                /\ \/ owner[event.new] = NoClient /\ future_storages[event.new]
                   \/ owner[event.new] # NoClient /\ conn[owner[event.new]] = "closed"

\* A client with an accepted request has a future in the place of its stream.
ServedInv ==
  /\ \A c \in served : conn[c] # "new"
  /\ \A i \in Ids : owner[i] \in served => future_storages[i]
  /\ server = "no future" => event.pc = "get" /\ ~future_storages[event.new]

\* The pool, with the stream whose CONNECT is being handled.
Pool == listening \cup Connecting \cup (IF Opening THEN {event.id} ELSE {})
\* Clients whose CONNECT has been taken: no more ids than these are made.
Taken == {c \in Clients : conn[c] # "new" /\ \A i \in Connecting : owner[i] # c}
PoolInv == Cardinality(Pool) = PoolSize /\ stream_id <= PoolSize + Cardinality(Taken)

IndInv == /\ TypeOK /\ OwnerInv /\ QueueInv /\ ReuseInv /\ EventInv /\ ServedInv
          /\ PoolInv /\ CallbackOnOwnStream
---------------------------------------------------------------------------
(* Facts about the constants and the completion queue.                     *)

\* Stream ids and clients are finitely many numbers.
LEMMA Constants ==
  /\ Ids \subseteq Nat /\ Clients \subseteq Nat /\ NoClient \notin Clients
  /\ IsFiniteSet(Ids) /\ IsFiniteSet(Clients) /\ Cardinality(Clients) = MaxClients
  /\ PoolSize \in Nat \ {0} /\ MaxClients \in Nat
  /\ 0 \in Ids
<1>1. PoolSize \in Nat \ {0} /\ MaxClients \in Nat
  BY PoolAssumption, BoundsAssumption
<1>2. IsFiniteSet(Ids) /\ IsFiniteSet(Clients) /\ Cardinality(Clients) = MaxClients
  BY <1>1, FS_Interval DEF Ids, Clients
<1> QED
  BY <1>1, <1>2 DEF Ids, Clients, NoClient

\* The counter of ids is a number.
LEMMA Numbers ==
  ASSUME TypeOK
  PROVE  stream_id \in Nat /\ \A i \in Ids : i \in Nat
<1>1. stream_id \in PoolSize..(PoolSize + MaxClients)
  BY DEF TypeOK
<1> QED
  BY <1>1, PoolAssumption, BoundsAssumption DEF Ids

\* A tag is put at the end of the queue.
LEMMA AppendTag ==
  ASSUME TypeOK, NEW t \in Tags, cq' = Append(cq, t)
  PROVE  /\ cq' \in Seq(Tags) /\ Len(cq) \in Nat
         /\ DOMAIN cq = 1..Len(cq) /\ DOMAIN cq' = 1..(Len(cq) + 1)
         /\ \A k \in DOMAIN cq : cq'[k] = cq[k]
         /\ cq'[Len(cq) + 1] = t
         /\ \A i : Mentioned(i)' <=> (Mentioned(i) \/ t.id = i)
         /\ Connecting' = Connecting \cup (IF t.type = "CONNECT" THEN {t.id} ELSE {})
<1>1. /\ cq' \in Seq(Tags) /\ Len(cq) \in Nat
      /\ DOMAIN cq = 1..Len(cq) /\ DOMAIN cq' = 1..(Len(cq) + 1)
      /\ \A k \in DOMAIN cq : cq'[k] = cq[k]
      /\ cq'[Len(cq) + 1] = t
  <2>1. cq \in Seq(Tags)
    BY DEF TypeOK
  <2> QED
    BY <2>1
<1>2. /\ Len(cq) + 1 \in DOMAIN cq' /\ DOMAIN cq \subseteq DOMAIN cq'
      /\ \A k \in DOMAIN cq' : k \in DOMAIN cq \/ k = Len(cq) + 1
  BY <1>1
<1>3. \A i : Mentioned(i)' <=> (Mentioned(i) \/ t.id = i)
  BY <1>1, <1>2 DEF Mentioned
<1>4. t.id \in Ids
  BY DEF Tags
<1>5. Connecting' = Connecting \cup (IF t.type = "CONNECT" THEN {t.id} ELSE {})
  BY <1>1, <1>2, <1>4 DEF Connecting
<1> QED
  BY <1>1, <1>3, <1>5

\* The first tag is taken from the queue.
LEMMA TakeTag ==
  ASSUME TypeOK, NEW type, Take(type)
  PROVE  /\ cq' \in Seq(Tags) /\ Head(cq) \in Tags /\ Head(cq) = cq[1]
         /\ Head(cq).type = type /\ 1 \in DOMAIN cq /\ DOMAIN cq \subseteq Nat
         /\ \A k \in DOMAIN cq' : k \in Nat /\ k + 1 \in DOMAIN cq /\ k + 1 # 1
                                  /\ cq'[k] = cq[k + 1]
         /\ \A k \in DOMAIN cq : k = 1 \/ (k - 1 \in DOMAIN cq' /\ cq'[k - 1] = cq[k])
         /\ \A i : Mentioned(i)' => Mentioned(i)
<1>1. /\ cq \in Seq(Tags) /\ cq # <<>> /\ cq' = Tail(cq) /\ Head(cq).type = type
  BY DEF TypeOK, Take
<1>2. /\ Len(cq) \in Nat \ {0} /\ DOMAIN cq = 1..Len(cq)
      /\ cq' \in Seq(Tags) /\ Head(cq) \in Tags /\ Head(cq) = cq[1]
      /\ DOMAIN cq' = 1..(Len(cq) - 1)
      /\ \A k \in 1..(Len(cq) - 1) : cq'[k] = cq[k + 1]
  BY <1>1
<1>3. /\ 1 \in DOMAIN cq /\ DOMAIN cq \subseteq Nat
      /\ \A k \in DOMAIN cq' : k \in Nat /\ k + 1 \in DOMAIN cq /\ k + 1 # 1
                               /\ cq'[k] = cq[k + 1]
  BY <1>2
<1>4. \A k \in DOMAIN cq : k = 1 \/ (k - 1 \in DOMAIN cq' /\ cq'[k - 1] = cq[k])
  <2> SUFFICES ASSUME NEW k \in DOMAIN cq, k # 1
               PROVE  k - 1 \in DOMAIN cq' /\ cq'[k - 1] = cq[k]
    OBVIOUS
  <2>1. k - 1 \in 1..(Len(cq) - 1) /\ (k - 1) + 1 = k
    BY <1>2
  <2> QED
    BY <1>2, <2>1
<1>5. \A i : Mentioned(i)' => Mentioned(i)
  BY <1>3 DEF Mentioned
<1> QED
  BY <1>1, <1>2, <1>3, <1>4, <1>5

\* Owned streams stay owned while nobody touches what they depend on.
Steady == /\ UNCHANGED <<conn, listening, owner>>
          /\ stream_id' \in Nat /\ stream_id' >= stream_id

\* So it is, also when a new id is made.
LEMMA SteadyOwned ==
  ASSUME TypeOK, Steady, NEW i, Owned(i)
  PROVE  Owned(i)'
<1>1. stream_id \in Nat /\ i \in Nat
  BY Numbers DEF Owned
<1> QED
  BY <1>1 DEF Steady, Owned

\* What taking a tag does to the invariants about the queue.
LEMMA TakeQueue ==
  ASSUME IndInv, NEW type, Take(type), Steady
  PROVE  /\ QueueInv' /\ Owned(Head(cq).id) /\ Mentioned(Head(cq).id)
         /\ \A k \in DOMAIN cq' : cq'[k].id = Head(cq).id =>
                                   type # "BROKEN_PIPE" /\ cq'[k].type # "CONNECT"
         /\ type = "BROKEN_PIPE" => conn[owner[Head(cq).id]] = "closed"
         /\ type = "CONNECT" => Head(cq).id \in Connecting
         /\ Connecting' = Connecting \ (IF type = "CONNECT" THEN {Head(cq).id} ELSE {})
<1> DEFINE h == cq[1]
<1> USE DEF IndInv
<1>1. /\ cq' \in Seq(Tags) /\ h \in Tags /\ Head(cq) = h
      /\ h.type = type /\ 1 \in DOMAIN cq /\ DOMAIN cq \subseteq Nat
      /\ \A k \in DOMAIN cq' : k \in Nat /\ k + 1 \in DOMAIN cq /\ k + 1 # 1
                               /\ cq'[k] = cq[k + 1]
      /\ \A k \in DOMAIN cq : k = 1 \/ (k - 1 \in DOMAIN cq' /\ cq'[k - 1] = cq[k])
  BY TakeTag
<1>2. \A k \in DOMAIN cq' : 1 < k + 1
  BY <1>1
<1>3. \A k \in DOMAIN cq' : cq'[k].id = h.id =>
                             type # "BROKEN_PIPE" /\ cq'[k].type # "CONNECT"
  BY <1>1, <1>2 DEF QueueInv
<1>4. QueueInv'
  <2>1. \A k \in DOMAIN cq' : Owned(cq[k].id)'
    <3> SUFFICES ASSUME NEW k \in DOMAIN cq' PROVE Owned(cq[k].id)'
      OBVIOUS
    <3>1. Owned(cq[k + 1].id) /\ cq'[k] = cq[k + 1]
      BY <1>1 DEF QueueInv
    <3>2. stream_id \in Nat /\ \A i \in Ids : i \in Nat
      BY Numbers
    <3> QED
      BY <3>1, <3>2 DEF Steady, Owned
  <2>2. \A k \in DOMAIN cq' : cq'[k].type = "BROKEN_PIPE" => conn'[owner'[cq'[k].id]] = "closed"
    BY <1>1 DEF QueueInv, Steady
  <2>3. \A j, k \in DOMAIN cq' : j < k => j + 1 < k + 1
    BY <1>1
  <2>4. \A j, k \in DOMAIN cq' :
          (j < k /\ cq'[j].id = cq'[k].id) =>
             cq'[j].type # "BROKEN_PIPE" /\ cq'[k].type # "CONNECT"
    BY <1>1, <2>3 DEF QueueInv
  <2> QED
    BY <2>1, <2>2, <2>4 DEF QueueInv
<1>5. h.id \in Ids /\ Owned(h.id) /\ Mentioned(h.id)
  BY <1>1 DEF QueueInv, Mentioned, Tags
<1>6. Connecting' = Connecting \ (IF type = "CONNECT" THEN {h.id} ELSE {})
  <2>1. ASSUME NEW i \in Connecting'
        PROVE  i \in Connecting /\ ~(type = "CONNECT" /\ i = h.id)
    BY <1>1, <1>3 DEF Connecting
  <2>2. ASSUME NEW i \in Connecting, ~(type = "CONNECT" /\ i = h.id)
        PROVE  i \in Connecting'
    <3>1. PICK k \in DOMAIN cq : cq[k].type = "CONNECT" /\ cq[k].id = i
      BY DEF Connecting
    <3>2. k # 1
      BY <1>1, <2>2, <3>1
    <3> QED
      BY <1>1, <3>1, <3>2 DEF Connecting
  <2> QED
    BY <2>1, <2>2
<1>7. type = "CONNECT" => h.id \in Connecting
  BY <1>1, <1>5 DEF Connecting
<1>8. type = "BROKEN_PIPE" => conn[owner[h.id]] = "closed"
  BY <1>1 DEF QueueInv
<1> QED
  BY <1>1, <1>3, <1>4, <1>5, <1>6, <1>7, <1>8
---------------------------------------------------------------------------
(* The invariant holds at first, and types are kept.                       *)

\* The constructor has filled the pool.
LEMMA InitInd == Init => IndInv
<1> SUFFICES ASSUME Init PROVE IndInv
  OBVIOUS
<1> USE Constants
<1>1. TypeOK
  <2>1. Idle \in [pc : {"next", "abort", "store", "get", "read", "prompt"}, id : Ids, new : Ids]
    BY DEF Idle
  <2>2. 0..(PoolSize - 1) \subseteq Ids /\ PoolSize \in PoolSize..(PoolSize + MaxClients)
    BY DEF Ids
  <2>3. NoCall \in [pc : {"none", "run", "write", "suspend"}, client : Clients \cup {NoClient}]
    BY DEF NoCall
  <2>4. <<>> \in Seq(Tags) /\ <<>> \in Seq(Ids)
    OBVIOUS
  <2> QED
    BY <2>1, <2>2, <2>3, <2>4, BoundsAssumption DEF Init, TypeOK, Statuses
<1>2. /\ cq = <<>> /\ DOMAIN cq = {} /\ reusable_id = <<>> /\ DOMAIN reusable_id = {}
      /\ Connecting = {}
  BY DEF Init, Connecting
<1>3. OwnerInv
  BY DEF Init, OwnerInv, Ids
<1>4. QueueInv /\ ReuseInv
  BY <1>2 DEF QueueInv, ReuseInv, IsInjective
<1>5. EventInv /\ ServedInv /\ CallbackOnOwnStream
  BY DEF Init, EventInv, ServedInv, CallbackOnOwnStream, Idle, Busy, Opening
<1>6. PoolInv
  <2>1. Pool = 0..(PoolSize - 1)
    BY <1>2 DEF Init, Pool, Opening, Idle
  <2>2. Taken = {}
    BY DEF Init, Taken
  <2> QED
    BY <2>1, <2>2, FS_Interval, FS_EmptySet DEF Init, PoolInv
<1> QED
  BY <1>1, <1>3, <1>4, <1>5, <1>6 DEF IndInv

\* A new id is made only while there are clients whose CONNECT is not taken.
LEMMA RoomForId ==
  ASSUME IndInv, Connect
  PROVE  /\ stream_id \in Ids /\ stream_id + 1 \in PoolSize..(PoolSize + MaxClients)
         /\ IsFiniteSet(Taken) /\ owner[Head(cq).id] \in Clients \ Taken
<1>1. TypeOK /\ Take("CONNECT") /\ Head(cq) \in Tags
  BY TakeTag DEF IndInv, Connect
<1>2. cq[1] = Head(cq) /\ 1 \in DOMAIN cq /\ Head(cq).type = "CONNECT"
  BY <1>1, TakeTag
<1>3. owner[Head(cq).id] \in Clients
  BY <1>2 DEF IndInv, QueueInv, Owned
<1>4. Head(cq).id \in Connecting
  BY <1>1, <1>2 DEF Connecting, Tags
<1>5. owner[Head(cq).id] \notin Taken
  BY <1>4 DEF Taken
<1>6. IsFiniteSet(Taken) /\ Cardinality(Taken) < Cardinality(Clients)
  <2>1. Taken \subseteq Clients /\ Taken # Clients /\ IsFiniteSet(Clients)
    BY <1>3, <1>5, Constants DEF Taken
  <2> QED
    BY <2>1, FS_Subset, FS_CardinalityType
<1>7. /\ PoolSize \in Nat /\ MaxClients \in Nat /\ Cardinality(Taken) < MaxClients
      /\ Cardinality(Taken) \in Nat
  BY <1>6, Constants, FS_CardinalityType
<1>8. stream_id \in PoolSize..(PoolSize + MaxClients)
  BY <1>1 DEF TypeOK
<1>9. stream_id <= PoolSize + Cardinality(Taken)
  BY DEF IndInv, PoolInv
<1>10. stream_id \in Ids /\ stream_id + 1 \in PoolSize..(PoolSize + MaxClients)
  BY <1>7, <1>8, <1>9 DEF Ids
<1> QED
  BY <1>3, <1>5, <1>6, <1>10

\* A callback that moves on to another control point.
LEMMA CallbackMoves ==
  ASSUME NEW I, NEW P, NEW C, NEW f \in [I -> [pc : P, client : C]], NEW i \in I, NEW pc \in P
  PROVE  [f EXCEPT ![i].pc = pc] \in [I -> [pc : P, client : C]]
<1>1. f[i] \in [pc : P, client : C]
  OBVIOUS
<1>2. [f[i] EXCEPT !.pc = pc] \in [pc : P, client : C]
  BY <1>1
<1> QED
  BY <1>2

\* Every step keeps every variable in its type.
LEMMA TypeInd ==
  ASSUME IndInv, [Next]_vars
  PROVE  TypeOK'
<1>0. TypeOK
  BY DEF IndInv
<1>1. ASSUME NEW c \in Clients, NEW i \in Ids, Accept(c, i) \/ Close(c, i)
      PROVE  TypeOK'
  <2>1. Tag("CONNECT", i, "none") \in Tags /\ Tag("BROKEN_PIPE", i, "none") \in Tags
    BY DEF Tag, Tags
  <2>2. cq' \in Seq(Tags)
    BY <1>0, <1>1, <2>1, AppendTag DEF Accept, Close, Complete
  <2>3. CASE Accept(c, i)
    BY <1>0, <2>2, <2>3 DEF Accept, TypeOK, callVars
  <2>4. CASE Close(c, i)
    BY <1>0, <2>2, <2>4 DEF Close, TypeOK, callVars, idVars
  <2> QED
    BY <1>1, <2>3, <2>4
<1>2. ASSUME NEW i \in Ids, NEW setting \in Settings, Send(i, setting)
      PROVE  TypeOK'
  <2>1. Tag("READ", i, setting) \in Tags
    BY DEF Tag, Tags
  <2>2. cq' \in Seq(Tags)
    BY <1>0, <1>2, <2>1, AppendTag DEF Send
  <2>3. messages' \in 0..MaxMessages
    BY <1>0, <1>2, BoundsAssumption DEF Send, TypeOK
  <2> QED
    BY <1>0, <1>2, <2>2, <2>3 DEF Send, TypeOK, callVars, idVars
<1>3. ASSUME NEW i \in Ids, WriteDone(i) \/ SetOutcome(i) \/ Callback(i)
      PROVE  TypeOK'
  <2>1. CASE WriteDone(i)
    BY <1>0, <2>1 DEF WriteDone, TypeOK, clientVars, idVars, callVars
  <2>2. CASE SetOutcome(i)
    <3>1. PICK outcome \in Outcomes : calls_status' = [calls_status EXCEPT ![i] = outcome]
      BY <2>2 DEF SetOutcome
    <3>2. calls_status' \in [Ids -> Statuses]
      BY <1>0, <3>1 DEF TypeOK, Statuses
    <3> QED
      BY <1>0, <2>2, <3>2 DEF SetOutcome, CallbackOnly, TypeOK, clientVars, idVars
  <2>a. ASSUME NEW pc \in {"write", "suspend"}, callback' = [callback EXCEPT ![i].pc = pc]
        PROVE  callback' \in [Ids -> [pc : {"none", "run", "write", "suspend"},
                                     client : Clients \cup {NoClient}]]
    BY <1>0, <2>a, CallbackMoves DEF TypeOK
  <2>3. CASE endStatus(i)
    <3>1. calls_status' \in [Ids -> Statuses]
      BY <1>0, <2>3 DEF endStatus, TypeOK, Statuses, Outcomes
    <3>2. callback' = [callback EXCEPT ![i].pc = "write"]
      BY <2>3 DEF endStatus
    <3>3. UNCHANGED <<dialled, conn, messages, cq, event, server, stream_id, reusable_id, listening, owner,
                      reading, writing, future_storages, served>>
      BY <2>3 DEF endStatus, CallbackOnly, clientVars, idVars
    <3> QED
      BY <1>0, <2>a, <3>1, <3>2, <3>3 DEF TypeOK
  <2>4. CASE WriteFinal(i)
    <3>1. writing' \subseteq Ids /\ server' \in {"up", "two writes", "no future"}
      BY <1>0, <2>4 DEF WriteFinal, write_reply, TypeOK
    <3>2. callback' = [callback EXCEPT ![i].pc = "suspend"]
      BY <2>4 DEF WriteFinal
    <3>3. UNCHANGED <<dialled, conn, messages, cq, event, stream_id, reusable_id, listening, owner,
                      reading, calls_status, future_storages, served>>
      BY <2>4 DEF WriteFinal, CallbackOnly, clientVars, idVars
    <3> QED
      BY <1>0, <2>a, <3>1, <3>2, <3>3 DEF TypeOK
  <2>5. CASE setSuspend(i)
    BY <1>0, <2>5 DEF setSuspend, CallbackOnly, TypeOK, clientVars, idVars, Statuses, NoCall
  <2> QED
    BY <1>3, <2>1, <2>2, <2>3, <2>4, <2>5 DEF Callback
<1>4. CASE Connect
  <2>1. cq' \in Seq(Tags) /\ Head(cq).id \in Ids
    BY <1>0, <1>4, TakeTag DEF Connect, Tags
  <2>2. CASE reusable_id = <<>>
    <3>1. stream_id \in Ids /\ stream_id' \in PoolSize..(PoolSize + MaxClients)
      BY <1>4, <2>2, RoomForId DEF Connect
    <3>2. /\ event' = [pc |-> "get", id |-> Head(cq).id, new |-> stream_id]
          /\ future_storages' = [future_storages EXCEPT ![stream_id] = TRUE]
          /\ UNCHANGED reusable_id
      BY <1>4, <2>2 DEF Connect
    <3>3. future_storages' \in [Ids -> BOOLEAN]
      BY <1>0, <3>2 DEF TypeOK
    <3> QED
      BY <1>0, <1>4, <2>1, <3>1, <3>2, <3>3 DEF Connect, TypeOK, clientVars
  <2>3. CASE reusable_id # <<>>
    <3>1. reusable_id \in Seq(Ids)
      BY <1>0 DEF TypeOK
    <3>2. Head(reusable_id) \in Ids /\ Tail(reusable_id) \in Seq(Ids)
      BY <2>3, <3>1
    <3>3. /\ event' = [pc |-> "abort", id |-> Head(cq).id, new |-> Head(reusable_id)]
          /\ reusable_id' = Tail(reusable_id) /\ UNCHANGED <<stream_id, future_storages>>
      BY <1>4, <2>3 DEF Connect
    <3> QED
      BY <1>0, <1>4, <2>1, <3>2, <3>3 DEF Connect, TypeOK, clientVars
  <2> QED
    BY <2>2, <2>3
<1>5. CASE AbortTest \/ setAborted \/ GetThrows
  BY <1>0, <1>5 DEF AbortTest, setAborted, GetThrows, TypeOK, clientVars, idVars, callVars,
     Statuses, Outcomes, InProgress
<1>6. CASE CreateListenPort
  BY <1>0, <1>6 DEF CreateListenPort, TypeOK, clientVars
<1>7. CASE ConnectRead
  BY <1>0, <1>7, Constants DEF ConnectRead, Read, Idle, TypeOK, clientVars, idVars, Statuses,
     Outcomes, InProgress
<1>8. CASE HandlePull \/ HandleCancel \/ HandleInvalid
  <2>1. cq' \in Seq(Tags) /\ Head(cq).id \in Ids
    BY <1>0, <1>8, TakeTag DEF HandlePull, HandleCancel, HandleInvalid, Tags
  <2>2. CASE HandlePull
    <3>1. owner[Head(cq).id] \in Clients
      <4>1. cq[1] = Head(cq) /\ 1 \in DOMAIN cq
        BY <1>0, <2>2, TakeTag DEF HandlePull
      <4> QED
        BY <4>1 DEF IndInv, QueueInv, Owned
    <3> QED
      BY <1>0, <2>1, <2>2, <3>1 DEF HandlePull, Read, write_reply, TypeOK, clientVars,
         idVars, Statuses, Outcomes, InProgress
  <2>3. CASE HandleCancel
    BY <1>0, <2>1, <2>3 DEF HandleCancel, TypeOK, clientVars, idVars, callVars
  <2>4. CASE HandleInvalid
    BY <1>0, <2>1, <2>4 DEF HandleInvalid, Read, TypeOK, clientVars, idVars, callVars
  <2> QED
    BY <1>8, <2>2, <2>3, <2>4
<1>9. CASE setPrompted
  BY <1>0, <1>9, Constants DEF setPrompted, Read, write_reply, Idle, TypeOK, clientVars, idVars,
     Statuses, Outcomes, InProgress
<1>10. CASE BrokenPipe
  <2>1. cq' \in Seq(Tags) /\ Head(cq).id \in Ids
    BY <1>0, <1>10, TakeTag DEF BrokenPipe, Tags
  <2>2. reusable_id \in Seq(Ids)
    BY <1>0 DEF TypeOK
  <2>3. reusable_id' \in Seq(Ids)
    BY <1>10, <2>1, <2>2 DEF BrokenPipe
  <2> QED
    BY <1>0, <1>10, <2>1, <2>3 DEF BrokenPipe, TypeOK, clientVars, callVars
<1>11. CASE UNCHANGED vars
  BY <1>0, <1>11 DEF vars, TypeOK, clientVars, idVars, callVars
<1>12. CASE Dial
  <2>1. dialled' \in 0..MaxClients
    <3>1. dialled \in 0..MaxClients /\ dialled < MaxClients /\ dialled' = dialled + 1
      BY <1>0, <1>12 DEF Dial, TypeOK
    <3> QED
      BY <3>1, BoundsAssumption
  <2> QED
    BY <1>0, <1>12, <2>1 DEF Dial, TypeOK, idVars, callVars
<1> QED
  BY <1>1, <1>2, <1>3, <1>4, <1>5, <1>6, <1>7, <1>8, <1>9, <1>10, <1>11, <1>12
     DEF Next, Event
---------------------------------------------------------------------------
(* Steps that leave the ids where they are.                                *)

(***************************************************************************)
(* Clients, owners and both sets of free ids stay; what is added to the    *)
(* queue or read from is the stream of a connected client; callbacks are   *)
(* for the owners of streams in use.                                       *)
(***************************************************************************)
Calm ==
  /\ UNCHANGED <<conn, idVars>> /\ Connecting' = Connecting
  /\ \A i \in Ids : Mentioned(i)' =>
                      Mentioned(i) \/ (Owned(i) /\ conn[owner[i]] = "connected")
  /\ \A i \in reading' : i \in reading \/ (Owned(i) /\ conn[owner[i]] = "connected")
  /\ (Opening' <=> Opening)
  /\ Opening => event'.id = event.id /\ event'.new = event.new
  /\ Busy' => Owned(event'.id)
  /\ \A i \in Ids : future_storages[i] => future_storages'[i]
  /\ \A i \in Ids : callback'[i] # NoCall => callback'[i].client = owner[i] /\ i \notin listening

\* Such a step keeps the invariant if it keeps what is said of the queue and
\* of accepted requests.
LEMMA CalmInd ==
  ASSUME IndInv, TypeOK', Calm, QueueInv', ServedInv'
  PROVE  IndInv'
<1>1. /\ UNCHANGED <<conn, stream_id, reusable_id, listening, owner>>
      /\ \A i : Owned(i) => Owned(i)'
  BY DEF Calm, idVars, Owned
<1>2. OwnerInv'
  <2>1. OwnerInv
    BY DEF IndInv
  <2>2. \A i \in reading' : Owned(i)' /\ conn'[owner'[i]] = "connected"
    BY <1>1, <2>1 DEF Calm, OwnerInv
  <2>3. \A i \in listening' : owner'[i] = NoClient /\ callback'[i] = NoCall
    <3>1. \A i \in listening : owner[i] = NoClient /\ i \in Ids
      BY <2>1 DEF OwnerInv, IndInv, TypeOK
    <3> QED
      BY <1>1, <3>1 DEF Calm
  <2> QED
    BY <1>1, <2>1, <2>2, <2>3 DEF OwnerInv
<1>3. ReuseInv'
  <2>1. \A k \in DOMAIN reusable_id : Retired(reusable_id[k])
    BY DEF IndInv, ReuseInv
  <2>2. ASSUME NEW i, Retired(i) PROVE Retired(i)'
    BY <1>1, <2>2 DEF Retired, Calm, Owned
  <2>3. \A k \in DOMAIN reusable_id' : Retired(reusable_id[k])'
    BY <1>1, <2>1, <2>2
  <2>4. IsInjective(reusable_id')
    BY <1>1 DEF IndInv, ReuseInv
  <2> QED
    BY <1>1, <2>3, <2>4 DEF ReuseInv
<1>4. EventInv'
  <2>1. Busy' => Owned(event.id)'
    BY <1>1 DEF Calm, Owned
  <2>2. ASSUME Opening'
        PROVE  /\ event'.new # event'.id /\ event'.id \notin Connecting'
               /\ event'.new \notin listening' /\ event'.new < stream_id'
               /\ ~Mentioned(event.new)' /\ event'.new \notin ToSet(reusable_id')
               /\ \/ owner'[event'.new] = NoClient /\ future_storages'[event'.new]
                  \/ owner'[event'.new] # NoClient /\ conn'[owner'[event'.new]] = "closed"
    <3>1. Opening /\ event'.id = event.id /\ event'.new = event.new /\ EventInv
      BY <2>2 DEF Calm, IndInv
    <3>2. event.new \in Ids
      BY DEF IndInv, TypeOK
    <3>3. ~Mentioned(event.new)'
      <4>1. ~(owner[event.new] \in Clients /\ conn[owner[event.new]] = "connected")
        BY <3>1, Constants DEF EventInv
      <4>2. \A k \in DOMAIN cq' : cq'[k].id # event.new
        BY <3>1, <3>2, <4>1 DEF Calm, EventInv, Owned, Mentioned
      <4> QED
        BY <3>1, <4>2 DEF Mentioned
    <3> QED
      BY <1>1, <3>1, <3>2, <3>3 DEF EventInv, Calm
  <2> QED
    BY <2>1, <2>2 DEF EventInv
<1>5. PoolInv'
  <2>1. Pool' = Pool /\ Taken' = Taken
    BY <1>1 DEF Pool, Taken, Calm
  <2> QED
    BY <1>1, <2>1 DEF IndInv, PoolInv
<1>6. CallbackOnOwnStream'
  BY <1>1 DEF Calm, CallbackOnOwnStream
<1> QED
  BY <1>2, <1>3, <1>4, <1>5, <1>6 DEF IndInv

\* A step that leaves the queue alone leaves what is said of it.
LEMMA QueueStays ==
  ASSUME IndInv, UNCHANGED <<conn, cq, idVars>>
  PROVE  /\ QueueInv' /\ Connecting' = Connecting /\ \A i : Mentioned(i)' <=> Mentioned(i)
         /\ \A i : Owned(i)' <=> Owned(i)
<1>1. /\ UNCHANGED <<conn, cq, listening, owner, stream_id>>
      /\ \A i : Owned(i)' <=> Owned(i)
  BY DEF idVars, Owned
<1>2. \A k \in DOMAIN cq' : Owned(cq[k].id)'
  BY <1>1 DEF IndInv, QueueInv, Owned
<1> QED
  BY <1>1, <1>2 DEF IndInv, QueueInv, Connecting, Mentioned

\* The steps of callbacks, and of the event thread between Connect and get.
LEMMA LocalInd ==
  ASSUME IndInv, TypeOK',
         \/ \E i \in Ids : WriteDone(i) \/ SetOutcome(i) \/ Callback(i)
         \/ AbortTest \/ setAborted \/ GetThrows
  PROVE  IndInv'
<1>0. TypeOK /\ CallbackOnOwnStream /\ OwnerInv /\ EventInv /\ ServedInv
  BY DEF IndInv
<1>1. UNCHANGED <<conn, cq, idVars, reading, future_storages, served>>
  BY DEF WriteDone, SetOutcome, Callback, endStatus, WriteFinal, setSuspend, CallbackOnly,
     AbortTest, setAborted, GetThrows, clientVars, callVars
<1>2. /\ (Opening' <=> Opening) /\ (Busy' <=> Busy)
      /\ event'.id = event.id /\ event'.new = event.new
  <2>1. CASE UNCHANGED event
    BY <2>1 DEF Opening, Busy
  <2>2. CASE AbortTest \/ setAborted
    BY <1>0, <2>2 DEF AbortTest, setAborted, Opening, Busy, TypeOK
  <2> QED
    BY <2>1, <2>2 DEF WriteDone, SetOutcome, Callback, endStatus, WriteFinal, setSuspend,
       CallbackOnly, GetThrows
<1>3. \A i \in Ids : callback'[i] # NoCall =>
                       callback[i] # NoCall /\ callback'[i].client = callback[i].client
  <2>1. CASE UNCHANGED callback
    BY <2>1
  <2>2. ASSUME NEW i \in Ids, Callback(i)
        PROVE  \A j \in Ids : callback'[j] # NoCall =>
                       callback[j] # NoCall /\ callback'[j].client = callback[j].client
    <3>1. callback \in [Ids -> [pc : {"none", "run", "write", "suspend"},
                                client : Clients \cup {NoClient}]]
      BY <1>0 DEF TypeOK
    <3>2. CASE setSuspend(i)
      BY <3>1, <3>2 DEF setSuspend
    <3>3. CASE endStatus(i) \/ WriteFinal(i)
      <4>1. PICK pc : callback' = [callback EXCEPT ![i].pc = pc]
        BY <3>3 DEF endStatus, WriteFinal
      <4>2. callback[i] # NoCall
        BY <3>3 DEF endStatus, WriteFinal, CallbackAt, NoCall
      <4>3. callback'[i].client = callback[i].client
        BY <3>1, <4>1
      <4>4. \A j \in Ids \ {i} : callback'[j] = callback[j]
        BY <3>1, <4>1
      <4> QED
        BY <4>2, <4>3, <4>4
    <3> QED
      BY <2>2, <3>2, <3>3 DEF Callback
  <2> QED
    BY <2>1, <2>2 DEF WriteDone, SetOutcome, AbortTest, setAborted, GetThrows, callVars
<1>4. server = "up" /\ (server' = "no future" => event'.pc = "get" /\ ~future_storages[event.new])
  BY DEF WriteDone, SetOutcome, Callback, endStatus, WriteFinal, setSuspend, CallbackAt,
     write_reply, AbortTest, setAborted, GetThrows
<1>5. ServedInv'
  BY <1>0, <1>1, <1>2, <1>4 DEF ServedInv, idVars
<1>6. /\ QueueInv' /\ Connecting' = Connecting /\ \A i : Mentioned(i)' <=> Mentioned(i)
  BY <1>1, QueueStays
<1>7. \A i \in Ids : callback'[i] # NoCall => callback'[i].client = owner[i] /\ i \notin listening
  BY <1>0, <1>3 DEF CallbackOnOwnStream, OwnerInv
<1>8. Calm
  BY <1>0, <1>1, <1>2, <1>6, <1>7 DEF Calm, EventInv
<1> QED
  BY <1>5, <1>6, <1>8, CalmInd

\* A Read is started only for a client that has not gone.
LEMMA ReadStarted ==
  ASSUME IndInv, NEW i, Owned(i), Read(i)
  PROVE  \A j \in reading' : j \in reading \/ (Owned(j) /\ conn[owner[j]] = "connected")
<1>1. i \in Ids /\ owner[i] \in Clients /\ conn[owner[i]] # "new"
  BY Constants DEF Owned, IndInv, OwnerInv
<1>2. conn[owner[i]] \in {"new", "connected", "closed"}
  BY <1>1 DEF IndInv, TypeOK
<1> QED
  BY <1>1, <1>2 DEF Read, IsCancelled

\* The ends of CONNECT and of a cancel, which go on to read.
LEMMA EndInd ==
  ASSUME IndInv, TypeOK', ConnectRead \/ setPrompted
  PROVE  IndInv'
<1>0. TypeOK /\ CallbackOnOwnStream /\ OwnerInv /\ EventInv /\ ServedInv
  BY DEF IndInv
<1>1. /\ UNCHANGED <<conn, cq, idVars, future_storages, served, callback>>
      /\ ~Opening /\ Busy /\ ~Opening' /\ ~Busy' /\ Read(event.id)
      /\ server = "up" /\ server' # "no future"
  <2>1. CASE ConnectRead
    BY <2>1 DEF ConnectRead, clientVars, Idle, Opening, Busy
  <2>2. CASE setPrompted
    BY <2>2 DEF setPrompted, clientVars, Idle, Opening, Busy, write_reply
  <2> QED
    BY <2>1, <2>2
<1>2. \A j \in reading' : j \in reading \/ (Owned(j) /\ conn[owner[j]] = "connected")
  BY <1>0, <1>1, ReadStarted DEF EventInv
<1>3. QueueInv' /\ Connecting' = Connecting /\ \A i : Mentioned(i)' <=> Mentioned(i)
  BY <1>1, QueueStays
<1>4. ServedInv'
  BY <1>0, <1>1 DEF ServedInv, idVars
<1>5. Calm
  BY <1>0, <1>1, <1>2, <1>3 DEF Calm, CallbackOnOwnStream, OwnerInv
<1> QED
  BY <1>3, <1>4, <1>5, CalmInd

\* The messages of clients are handled: the first tag is a READ.
LEMMA HandleReadInd ==
  ASSUME IndInv, TypeOK', HandlePull \/ HandleCancel \/ HandleInvalid
  PROVE  IndInv'
<1> DEFINE h == Head(cq).id
<1>0. TypeOK /\ CallbackOnOwnStream /\ OwnerInv /\ EventInv /\ ServedInv
  BY DEF IndInv
<1>1. /\ Take("READ") /\ UNCHANGED <<conn, idVars>> /\ server = "up" /\ server' # "no future"
      /\ event.pc = "next"
  BY DEF HandlePull, HandleCancel, HandleInvalid, clientVars, write_reply, Take
<1>2. Steady
  <2>1. stream_id \in Nat /\ UNCHANGED <<conn, listening, owner, stream_id>>
    BY <1>0, <1>1, Numbers DEF idVars
  <2> QED
    BY <2>1 DEF Steady
<1>3. /\ QueueInv' /\ Owned(h) /\ Connecting' = Connecting
      /\ \A i : Mentioned(i)' => Mentioned(i)
  BY <1>0, <1>1, <1>2, TakeQueue, TakeTag
<1>4. h \in Ids /\ owner[h] \in Clients /\ h \notin listening /\ conn[owner[h]] # "new"
  BY <1>0, <1>3, Constants DEF Owned, OwnerInv
<1>5. ~Opening /\ ~Opening' /\ (Busy' => Owned(event'.id))
  BY <1>0, <1>1, <1>3 DEF HandlePull, HandleCancel, HandleInvalid, Opening, Busy, TypeOK
<1>6. \A j \in reading' : j \in reading \/ (Owned(j) /\ conn[owner[j]] = "connected")
  <2>1. CASE HandleCancel
    BY <2>1 DEF HandleCancel
  <2>2. CASE HandlePull \/ HandleInvalid
    BY <1>3, <2>2, ReadStarted DEF HandlePull, HandleInvalid
  <2> QED
    BY <2>1, <2>2
<1>7. CASE HandlePull
  <2>1. /\ future_storages' = [future_storages EXCEPT ![h] = TRUE]
        /\ callback' = [callback EXCEPT ![h] = [pc |-> "run", client |-> owner[h]]]
        /\ served' = served \cup {owner[h]}
    BY <1>7 DEF HandlePull
  <2>2. \A i \in Ids : future_storages[i] => future_storages'[i]
    BY <1>0, <2>1 DEF TypeOK
  <2>3. ServedInv'
    <3>1. \A c \in served' : conn'[c] # "new"
      BY <1>0, <1>1, <1>4, <2>1 DEF ServedInv
    <3>2. ASSUME NEW i \in Ids, owner'[i] \in served' PROVE future_storages'[i]
      <4>1. CASE owner[i] \in served
        BY <1>0, <2>2, <4>1 DEF ServedInv
      <4>2. CASE owner[i] = owner[h]
        <5>1. i = h
          BY <1>0, <1>4, <4>2, Constants DEF OwnerInv
        <5>2. DOMAIN future_storages = Ids
          BY <1>0 DEF TypeOK
        <5> QED
          BY <1>4, <2>1, <5>1, <5>2
      <4> QED
        BY <1>1, <2>1, <3>2, <4>1, <4>2 DEF idVars
    <3> QED
      BY <1>1, <3>1, <3>2 DEF ServedInv
  <2>4. ASSUME NEW i \in Ids, callback'[i] # NoCall
        PROVE  callback'[i].client = owner[i] /\ i \notin listening
    <3>1. CASE i = h
      <4>1. callback'[i] = [pc |-> "run", client |-> owner[i]] /\ i \notin listening
        BY <1>0, <1>4, <2>1, <3>1 DEF TypeOK
      <4> QED
        BY <4>1
    <3>2. CASE i # h
      <4>1. callback'[i] = callback[i]
        BY <1>0, <2>1, <3>2 DEF TypeOK
      <4> QED
        BY <1>0, <2>4, <4>1 DEF CallbackOnOwnStream, OwnerInv
    <3> QED
      BY <3>1, <3>2
  <2>5. Calm
    BY <1>1, <1>3, <1>5, <1>6, <2>2, <2>4 DEF Calm
  <2> QED
    BY <1>3, <2>3, <2>5, CalmInd
<1>8. CASE HandleCancel \/ HandleInvalid
  <2>1. UNCHANGED <<future_storages, served, callback>>
    BY <1>8 DEF HandleCancel, HandleInvalid, callVars
  <2>2. ServedInv'
    BY <1>0, <1>1, <2>1 DEF ServedInv, idVars
  <2>3. Calm
    BY <1>0, <1>1, <1>3, <1>5, <1>6, <2>1 DEF Calm, CallbackOnOwnStream, OwnerInv
  <2> QED
    BY <1>3, <2>2, <2>3, CalmInd
<1> QED
  BY <1>7, <1>8
---------------------------------------------------------------------------
(* Clients and gRPC, which add tags to the completion queue.               *)

\* What adding a tag does to the invariants about the queue.
LEMMA AppendQueue ==
  ASSUME IndInv, NEW t \in Tags, cq' = Append(cq, t), Owned(t.id)',
         \A i \in Ids : Mentioned(i) => /\ Owned(i)'
                                        /\ conn[owner[i]] = "closed" => conn'[owner'[i]] = "closed",
         t.type = "BROKEN_PIPE" => conn'[owner'[t.id]] = "closed",
         \A k \in DOMAIN cq : cq[k].id = t.id => cq[k].type # "BROKEN_PIPE" /\ t.type # "CONNECT"
  PROVE  QueueInv'
<1>1. /\ Len(cq) \in Nat /\ DOMAIN cq = 1..Len(cq) /\ DOMAIN cq' = 1..(Len(cq) + 1)
      /\ \A k \in DOMAIN cq : cq'[k] = cq[k]
      /\ cq'[Len(cq) + 1] = t
  BY AppendTag DEF IndInv
<1>2. /\ \A k \in DOMAIN cq' : k \in DOMAIN cq \/ k = Len(cq) + 1
      /\ \A j, k \in DOMAIN cq' : j < k => j \in DOMAIN cq
  BY <1>1
<1>3. QueueInv /\ \A k \in DOMAIN cq : cq[k].id \in Ids /\ Mentioned(cq[k].id)
  BY DEF IndInv, QueueInv, Owned, Mentioned
<1>4. ASSUME NEW k \in DOMAIN cq' PROVE Owned(cq[k].id)'
  <2>1. ASSUME NEW i, i = t.id \/ Mentioned(i), i \in Ids PROVE Owned(i)'
    BY <2>1
  <2>2. cq'[k].id \in Ids /\ (cq'[k].id = t.id \/ Mentioned(cq'[k].id))
    <3>1. t.id \in Ids
      BY DEF Tags
    <3> QED
      BY <1>1, <1>2, <1>3, <3>1
  <2>3. PICK i : i = cq'[k].id
    OBVIOUS
  <2> QED
    BY <2>1, <2>2, <2>3
<1>5. \A k \in DOMAIN cq' : cq'[k].type = "BROKEN_PIPE" => conn'[owner'[cq'[k].id]] = "closed"
  BY <1>1, <1>2, <1>3 DEF QueueInv
<1>6. \A j, k \in DOMAIN cq' :
        (j < k /\ cq'[j].id = cq'[k].id) => cq'[j].type # "BROKEN_PIPE" /\ cq'[k].type # "CONNECT"
  BY <1>1, <1>2, <1>3 DEF QueueInv
<1> QED
  BY <1>4, <1>5, <1>6 DEF QueueInv

\* A stream with a client has been made and is not listened on.
LEMMA ClientsStream ==
  ASSUME IndInv, NEW i \in Ids, owner[i] # NoClient
  PROVE  Owned(i)
<1>1. TypeOK /\ OwnerInv
  BY DEF IndInv
<1>2. owner[i] \in Clients /\ i \notin listening /\ ~(i >= stream_id)
  BY <1>1 DEF TypeOK, OwnerInv
<1>3. i \in Nat /\ stream_id \in Nat
  BY <1>1, Numbers
<1> QED
  BY <1>2, <1>3 DEF Owned

\* A message arrives.
LEMMA SendInd ==
  ASSUME IndInv, TypeOK', NEW i \in Ids, NEW setting \in Settings, Send(i, setting)
  PROVE  IndInv'
<1>0. TypeOK /\ CallbackOnOwnStream /\ OwnerInv /\ EventInv /\ ServedInv /\ QueueInv
  BY DEF IndInv
<1> DEFINE t == Tag("READ", i, setting)
<1>1. /\ UNCHANGED <<conn, event, server, idVars, future_storages, callback, served>>
      /\ cq' = Append(cq, t) /\ reading' \subseteq reading /\ i \in reading /\ server = "up"
  BY DEF Send, callVars
<1>2. t \in Tags /\ t.id = i /\ t.type = "READ"
  BY DEF Tag, Tags
<1>3. Owned(i) /\ conn[owner[i]] = "connected"
  BY <1>0, <1>1 DEF OwnerInv
<1>4. \A j : Owned(j)' <=> Owned(j)
  BY <1>1 DEF Owned, idVars
<1>5. \A j \in Ids : Mentioned(j) => Owned(j)
  BY <1>0 DEF QueueInv, Mentioned
<1>6. /\ \A j : Mentioned(j)' <=> (Mentioned(j) \/ i = j)
      /\ Connecting' = Connecting
  BY <1>0, <1>1, <1>2, AppendTag
<1>7. QueueInv'
  <2>1. \A k \in DOMAIN cq : cq[k].id = i => cq[k].type # "BROKEN_PIPE"
    BY <1>0, <1>3 DEF QueueInv
  <2>2. UNCHANGED <<conn, owner>>
    BY <1>1 DEF idVars
  <2>3. Owned(t.id)'
    BY <1>3, <1>2, <1>4
  <2> QED
    BY <1>1, <1>2, <1>4, <1>5, <2>1, <2>2, <2>3, AppendQueue
<1>8. ServedInv'
  BY <1>0, <1>1 DEF ServedInv, idVars
<1>9. Opening' = Opening /\ Busy' = Busy /\ event'.id = event.id /\ event'.new = event.new
  BY <1>1 DEF Opening, Busy
<1>10. Calm
  BY <1>0, <1>1, <1>3, <1>6, <1>9 DEF Calm, EventInv, CallbackOnOwnStream, OwnerInv
<1> QED
  BY <1>7, <1>8, <1>10, CalmInd

\* A client goes.
LEMMA CloseInd ==
  ASSUME IndInv, TypeOK', NEW c \in Clients, NEW i \in Ids, Close(c, i)
  PROVE  IndInv'
<1>0. TypeOK /\ CallbackOnOwnStream /\ OwnerInv /\ EventInv /\ ServedInv /\ QueueInv
  BY DEF IndInv
<1> DEFINE t == Tag("BROKEN_PIPE", i, "none")
<1>1. /\ UNCHANGED <<event, server, stream_id, reusable_id, listening, owner,
                     future_storages, callback, served>>
      /\ cq' = Append(cq, t) /\ reading' = reading \ {i} /\ server = "up"
      /\ conn[c] = "connected" /\ owner[i] = c
  BY DEF Close, callVars, idVars, Complete
<1>2. t \in Tags /\ t.id = i /\ t.type = "BROKEN_PIPE"
  BY DEF Tag, Tags
<1>3. /\ conn'[c] = "closed" /\ \A d \in Clients \ {c} : conn'[d] = conn[d]
      /\ \A d \in Clients : conn[d] = "closed" => conn'[d] = "closed"
      /\ \A d \in Clients : conn'[d] = "new" <=> conn[d] = "new"
  BY <1>0, <1>1 DEF Close, TypeOK
<1>4. Owned(i) /\ \A j : Owned(j)' <=> Owned(j)
  <2>1. owner[i] # NoClient
    BY <1>1, Constants
  <2> QED
    BY <1>1, <2>1, ClientsStream DEF Owned
<1>5. \A j \in Ids \ {i} : owner[j] # c
  BY <1>0, <1>1, Constants DEF OwnerInv
<1>6. \A j : Mentioned(j)' <=> (Mentioned(j) \/ i = j)
  BY <1>0, <1>1, <1>2, AppendTag
<1>7. Connecting' = Connecting
  BY <1>0, <1>1, <1>2, AppendTag
<1>8. OwnerInv'
  <2>1. \A j \in Ids : owner[j] # NoClient => owner[j] \in Clients
    BY <1>0 DEF TypeOK
  <2>2. \A j \in reading' : Owned(j)' /\ conn'[owner'[j]] = "connected"
    BY <1>0, <1>1, <1>3, <1>4, <1>5 DEF OwnerInv, Owned
  <2> QED
    BY <1>0, <1>1, <1>3, <2>1, <2>2 DEF OwnerInv
<1>9. QueueInv'
  <2>1. \A k \in DOMAIN cq : cq[k].id = i => cq[k].type # "BROKEN_PIPE"
    BY <1>0, <1>1 DEF QueueInv
  <2>2. \A j \in Ids : Mentioned(j) => Owned(j)
    BY <1>0 DEF QueueInv, Mentioned
  <2>3. \A j \in Ids : Mentioned(j) =>
                         Owned(j)' /\ (conn[owner[j]] = "closed" => conn'[owner'[j]] = "closed")
    BY <1>1, <1>3, <1>4, <2>2 DEF Owned
  <2>4. Owned(t.id)' /\ conn'[owner'[t.id]] = "closed"
    BY <1>1, <1>2, <1>3, <1>4
  <2> QED
    BY <1>1, <1>2, <2>1, <2>3, <2>4, AppendQueue
<1>10. ReuseInv'
  <2>1. ASSUME NEW j, Retired(j) PROVE Retired(j)'
    BY <1>1, <1>3, <1>4, <1>6, <2>1 DEF Retired, Owned
  <2>2. \A k \in DOMAIN reusable_id' : Retired(reusable_id[k])'
    BY <1>1, <2>1 DEF IndInv, ReuseInv
  <2> QED
    BY <1>1, <2>2 DEF IndInv, ReuseInv
<1>11. EventInv'
  <2>1. Busy' => Owned(event.id)'
    BY <1>0, <1>1, <1>4 DEF EventInv, Busy
  <2>2. ASSUME Opening
        PROVE  ~Mentioned(event.new)' /\
               (\/ owner[event.new] = NoClient /\ future_storages[event.new]
                \/ owner[event.new] # NoClient /\ conn'[owner[event.new]] = "closed")
    <3>1. event.new \in Ids /\ owner[event.new] \in Clients \cup {NoClient}
      BY <1>0 DEF TypeOK
    <3>2. event.new # i
      BY <1>0, <1>1, <2>2, Constants DEF EventInv
    <3>3. ~Mentioned(event.new)'
      BY <1>0, <1>1, <1>6, <2>2, <3>2 DEF EventInv
    <3> QED
      BY <1>0, <1>3, <2>2, <3>1, <3>3 DEF EventInv
  <2> QED
    BY <1>0, <1>1, <1>7, <2>1, <2>2 DEF EventInv, Opening
<1>12. ServedInv'
  <2>1. served \subseteq Clients
    BY <1>0 DEF TypeOK
  <2> QED
    BY <1>0, <1>1, <1>3, <2>1 DEF ServedInv
<1>13. PoolInv'
  <2>1. Pool' = Pool /\ Taken' = Taken
    BY <1>1, <1>3, <1>7 DEF Pool, Taken, Opening
  <2> QED
    BY <1>1, <2>1 DEF IndInv, PoolInv
<1>14. CallbackOnOwnStream'
  BY <1>0, <1>1 DEF CallbackOnOwnStream
<1> QED
  BY <1>8, <1>9, <1>10, <1>11, <1>12, <1>13, <1>14 DEF IndInv

\* A client's call is given to a stream that is listened on.
LEMMA AcceptInd ==
  ASSUME IndInv, TypeOK', NEW c \in Clients, NEW i \in Ids, Accept(c, i)
  PROVE  IndInv'
<1>0. TypeOK /\ CallbackOnOwnStream /\ OwnerInv /\ EventInv /\ ServedInv /\ QueueInv
  BY DEF IndInv
<1> DEFINE t == Tag("CONNECT", i, "none")
<1>1. /\ UNCHANGED <<event, server, stream_id, reusable_id, reading,
                     future_storages, callback, served>>
      /\ cq' = Append(cq, t) /\ listening' = listening \ {i} /\ i \in listening
      /\ server = "up" /\ conn[c] = "new"
  BY DEF Accept, callVars, Complete
<1>2. t \in Tags /\ t.id = i /\ t.type = "CONNECT"
  BY DEF Tag, Tags
<1>3. conn'[c] = "connected" /\ \A d \in Clients \ {c} : conn'[d] = conn[d]
  BY <1>0 DEF Accept, TypeOK
<1>4. owner'[i] = c /\ \A j \in Ids \ {i} : owner'[j] = owner[j]
  BY <1>0 DEF Accept, TypeOK
<1>5. \A j \in Ids : owner[j] # c
  BY <1>0, <1>1, Constants DEF OwnerInv
<1>6. /\ i < stream_id /\ owner[i] = NoClient /\ callback[i] = NoCall
  <2>1. i \in Nat /\ stream_id \in Nat
    BY <1>0, Numbers
  <2> QED
    BY <1>0, <1>1, <2>1 DEF OwnerInv
<1>7. /\ Owned(i)' /\ \A j : Owned(j) => j # i /\ Owned(j)'
  BY <1>1, <1>4, <1>6 DEF Owned
<1>8. \A j \in Ids : Mentioned(j) => Owned(j)
  BY <1>0 DEF QueueInv, Mentioned
<1>9. \A j : Mentioned(j)' <=> (Mentioned(j) \/ i = j)
  BY <1>0, <1>1, <1>2, AppendTag
<1>10. Connecting' = Connecting \cup {i}
  BY <1>0, <1>1, <1>2, AppendTag
<1>11. \A j \in Ids : j # i => /\ owner'[j] = owner[j]
                               /\ owner[j] # NoClient => conn'[owner[j]] = conn[owner[j]]
  <2>1. \A j \in Ids : owner[j] # NoClient => owner[j] \in Clients
    BY <1>0 DEF TypeOK
  <2> QED
    BY <1>3, <1>4, <1>5, <2>1
<1>12. OwnerInv'
  <2>1. \A j \in Ids : owner'[j] # NoClient => conn'[owner'[j]] # "new"
    BY <1>0, <1>3, <1>4, <1>11 DEF OwnerInv
  <2>2. \A j, k \in Ids : (owner'[j] = owner'[k] /\ owner'[j] # NoClient) => j = k
    BY <1>0, <1>4, <1>5 DEF OwnerInv
  <2>3. \A j \in Ids : j >= stream_id' => j \notin listening' /\ owner'[j] = NoClient
    <3>1. \A j \in Ids : j >= stream_id => j # i
      BY <1>0, <1>1 DEF OwnerInv
    <3> QED
      BY <1>0, <1>1, <1>4, <3>1 DEF OwnerInv
  <2>4. \A j \in listening' : owner'[j] = NoClient /\ callback'[j] = NoCall
    BY <1>0, <1>1, <1>4 DEF OwnerInv, TypeOK
  <2>5. \A j \in reading' : Owned(j)' /\ conn'[owner'[j]] = "connected"
    <3>1. \A j \in reading : Owned(j) /\ j \in Ids /\ j # i /\ owner[j] # NoClient
      BY <1>0, <1>7, Constants DEF OwnerInv, Owned
    <3> QED
      BY <1>0, <1>1, <1>7, <1>11, <3>1 DEF OwnerInv
  <2> QED
    BY <2>1, <2>2, <2>3, <2>4, <2>5 DEF OwnerInv
<1>13. QueueInv'
  <2>1. ~Mentioned(i) /\ \A k \in DOMAIN cq : cq[k].id # i
    BY <1>7, <1>8 DEF Mentioned
  <2>2. \A j \in Ids : Mentioned(j) =>
                         Owned(j)' /\ (conn[owner[j]] = "closed" => conn'[owner'[j]] = "closed")
    BY <1>7, <1>8, <1>11, Constants DEF Owned
  <2>3. Owned(t.id)'
    BY <1>2, <1>7
  <2> QED
    BY <1>1, <1>2, <2>1, <2>2, <2>3, AppendQueue
<1>14. ReuseInv'
  <2>1. ASSUME NEW j, Retired(j) PROVE Retired(j)'
    <3>1. j \in Ids /\ j # i /\ owner[j] # NoClient
      BY <1>7, <2>1, Constants DEF Retired, Owned
    <3> QED
      BY <1>7, <1>9, <1>11, <2>1, <3>1 DEF Retired
  <2>2. \A k \in DOMAIN reusable_id' : Retired(reusable_id[k])'
    BY <1>1, <2>1 DEF IndInv, ReuseInv
  <2> QED
    BY <1>1, <2>2 DEF IndInv, ReuseInv
<1>15. EventInv'
  <2>1. Busy => event.id # i
    BY <1>0, <1>7 DEF EventInv
  <2>2. Busy' => Owned(event.id)'
    BY <1>0, <1>1, <1>7 DEF EventInv, Busy
  <2>3. ASSUME Opening
        PROVE  /\ ~Mentioned(event.new)' /\ event.id \notin Connecting'
               /\ \/ owner'[event.new] = NoClient /\ future_storages[event.new]
                  \/ owner'[event.new] # NoClient /\ conn'[owner'[event.new]] = "closed"
    <3>1. event.new \in Ids /\ event.new # i
      BY <1>0, <1>1, <2>3 DEF TypeOK, EventInv
    <3>2. ~Mentioned(event.new)'
      BY <1>0, <1>1, <1>9, <2>3, <3>1 DEF EventInv
    <3>3. Busy
      BY <2>3 DEF Busy, Opening
    <3> QED
      BY <1>0, <1>10, <1>11, <2>1, <2>3, <3>1, <3>2, <3>3 DEF EventInv
  <2> QED
    BY <1>0, <1>1, <2>2, <2>3 DEF EventInv, Opening
<1>16. ServedInv'
  <2>1. c \notin served /\ served \subseteq Clients /\ NoClient \notin served
    BY <1>0, <1>1, Constants DEF ServedInv, TypeOK
  <2> QED
    BY <1>0, <1>1, <1>3, <1>4, <2>1 DEF ServedInv
<1>17. PoolInv'
  <2>1. Pool' = Pool
    BY <1>1, <1>10 DEF Pool, Opening
  <2>2. \A j \in Connecting : j \in Ids /\ j # i
    BY <1>7, <1>8 DEF Connecting, Mentioned
  <2>3. c \notin Taken /\ c \notin Taken'
    BY <1>1, <1>4, <1>10 DEF Taken
  <2>4. ASSUME NEW d \in Clients \ {c} PROVE d \in Taken <=> d \in Taken'
    BY <1>3, <1>4, <1>10, <2>2 DEF Taken
  <2>5. Taken \subseteq Clients /\ Taken' \subseteq Clients
    BY DEF Taken
  <2>6. Taken' = Taken
    BY <2>3, <2>4, <2>5
  <2> QED
    BY <1>1, <2>1, <2>6 DEF IndInv, PoolInv
<1>18. CallbackOnOwnStream'
  BY <1>0, <1>1, <1>4, <1>6 DEF CallbackOnOwnStream
<1> QED
  BY <1>12, <1>13, <1>14, <1>15, <1>16, <1>17, <1>18 DEF IndInv
---------------------------------------------------------------------------
(* The event thread gives ids back and uses them again.                    *)

\* A stream whose client has gone is the last to be waited for.
LEMMA BrokenPipeInd ==
  ASSUME IndInv, TypeOK', BrokenPipe
  PROVE  IndInv'
<1> DEFINE h == Head(cq).id
<1>0. TypeOK /\ CallbackOnOwnStream /\ OwnerInv /\ EventInv /\ ServedInv /\ ReuseInv
  BY DEF IndInv
<1>1. /\ Take("BROKEN_PIPE")
      /\ UNCHANGED <<conn, event, server, stream_id, listening, owner, reading,
                     future_storages, callback, served>>
      /\ reusable_id' = Append(reusable_id, h) /\ event.pc = "next" /\ server = "up"
  BY DEF BrokenPipe, clientVars, callVars, Take
<1>2. Steady
  <2>1. stream_id \in Nat
    BY <1>0, Numbers
  <2> QED
    BY <1>1, <2>1 DEF Steady
<1>3. /\ QueueInv' /\ Owned(h) /\ Mentioned(h) /\ conn[owner[h]] = "closed"
      /\ Connecting' = Connecting
      /\ \A k \in DOMAIN cq' : cq'[k].id # h
  BY <1>1, <1>2, TakeQueue
<1>4. /\ \A i : Mentioned(i)' => Mentioned(i)
      /\ \A i : Owned(i)' <=> Owned(i)
  BY <1>0, <1>1, TakeTag DEF Owned
<1>5. ReuseInv'
  <2>1. reusable_id \in Seq(Ids) /\ h \in Ids
    BY <1>0, <1>3 DEF TypeOK, Owned
  <2>2. /\ Len(reusable_id) \in Nat /\ DOMAIN reusable_id = 1..Len(reusable_id)
        /\ DOMAIN reusable_id' = 1..(Len(reusable_id) + 1)
        /\ \A k \in DOMAIN reusable_id : reusable_id'[k] = reusable_id[k]
        /\ reusable_id'[Len(reusable_id) + 1] = h
    BY <1>1, <2>1
  <2>3. \A k \in DOMAIN reusable_id' : k \in DOMAIN reusable_id \/ k = Len(reusable_id) + 1
    BY <2>2
  <2>4. \A k \in DOMAIN reusable_id : Retired(reusable_id[k]) /\ reusable_id[k] # h
    BY <1>0, <1>3 DEF ReuseInv, Retired
  <2>5. ASSUME NEW i, Retired(i) \/ i = h PROVE Retired(i)'
    <3>1. CASE i = h
      BY <1>1, <1>3, <1>4, <3>1 DEF Retired, Mentioned
    <3>2. CASE Retired(i)
      BY <1>1, <1>4, <3>2 DEF Retired
    <3> QED
      BY <2>5, <3>1, <3>2
  <2>6. ASSUME NEW k \in DOMAIN reusable_id' PROVE Retired(reusable_id[k])'
    <3>1. Retired(reusable_id'[k]) \/ reusable_id'[k] = h
      BY <2>2, <2>3, <2>4
    <3>2. PICK i : i = reusable_id'[k]
      OBVIOUS
    <3> QED
      BY <2>5, <3>1, <3>2
  <2>7. IsInjective(reusable_id')
    BY <1>0, <2>2, <2>3, <2>4 DEF ReuseInv, IsInjective
  <2> QED
    BY <2>6, <2>7 DEF ReuseInv
<1>6. OwnerInv' /\ CallbackOnOwnStream'
  BY <1>0, <1>1, <1>4 DEF OwnerInv, CallbackOnOwnStream
<1>7. EventInv' /\ ServedInv'
  BY <1>0, <1>1 DEF EventInv, Busy, Opening, ServedInv
<1>8. PoolInv'
  <2>1. Pool' = Pool /\ Taken' = Taken
    BY <1>1, <1>3 DEF Pool, Taken, Opening
  <2> QED
    BY <1>1, <2>1 DEF IndInv, PoolInv
<1> QED
  BY <1>3, <1>5, <1>6, <1>7, <1>8 DEF IndInv

\* A CONNECT is taken: the id of the stream that replaces it is chosen.
LEMMA ConnectInd ==
  ASSUME IndInv, TypeOK', Connect
  PROVE  IndInv'
<1> DEFINE h == Head(cq).id
           new == event'.new
<1>0. TypeOK /\ CallbackOnOwnStream /\ OwnerInv /\ EventInv /\ ServedInv /\ ReuseInv /\ QueueInv
  BY DEF IndInv
<1>1. /\ Take("CONNECT") /\ event.pc = "next" /\ server = "up"
      /\ UNCHANGED <<conn, server, listening, owner, reading, callback, served>>
  BY DEF Connect, clientVars, Take
<1>2. stream_id \in Nat /\ \A i \in Ids : i \in Nat
  BY <1>0, Numbers
<1>3. Steady
  BY <1>1, <1>2 DEF Steady, Connect
<1>4. /\ QueueInv' /\ Owned(h) /\ Mentioned(h) /\ h \in Connecting
      /\ Connecting' = Connecting \ {h}
  BY <1>1, <1>3, TakeQueue
<1>5. \A i : Mentioned(i)' => Mentioned(i)
  BY <1>0, <1>1, TakeTag
<1>6. \A i : Owned(i) => Owned(i)'
  BY <1>0, <1>3, SteadyOwned
<1>7. \A i \in Ids : Mentioned(i) => Owned(i)
  BY <1>0 DEF QueueInv, Mentioned
\* Where the new id comes from.
<1>8. /\ event'.id = h /\ event'.pc \in {"abort", "get"} /\ new # h
      /\ new \notin listening /\ new < stream_id' /\ ~Mentioned(new)
      /\ \/ owner[new] = NoClient /\ future_storages'[new]
         \/ owner[new] # NoClient /\ conn[owner[new]] = "closed"
      /\ \A i \in Ids : future_storages[i] => future_storages'[i]
      /\ new \notin ToSet(reusable_id')
      /\ \A k \in DOMAIN reusable_id' : Retired(reusable_id'[k])
      /\ IsInjective(reusable_id')
      /\ stream_id' \in {stream_id, stream_id + 1}
  <2>1. CASE reusable_id # <<>>
    <3>1. /\ event' = [pc |-> "abort", id |-> h, new |-> Head(reusable_id)]
          /\ reusable_id' = Tail(reusable_id)
          /\ UNCHANGED <<stream_id, future_storages>>
      BY <2>1 DEF Connect
    <3>2. reusable_id \in Seq(Ids)
      BY <1>0 DEF TypeOK
    <3>3. /\ Len(reusable_id) \in Nat \ {0} /\ DOMAIN reusable_id = 1..Len(reusable_id)
          /\ DOMAIN reusable_id' = 1..(Len(reusable_id) - 1) /\ Head(reusable_id) = reusable_id[1]
          /\ \A k \in 1..(Len(reusable_id) - 1) : reusable_id'[k] = reusable_id[k + 1]
      BY <2>1, <3>1, <3>2
    <3>4. /\ 1 \in DOMAIN reusable_id
          /\ \A k \in DOMAIN reusable_id' : /\ k + 1 \in DOMAIN reusable_id /\ k + 1 # 1
                                            /\ reusable_id'[k] = reusable_id[k + 1]
          /\ \A j, k \in DOMAIN reusable_id' : j + 1 = k + 1 => j = k
      BY <3>3
    <3>5. new = reusable_id[1] /\ Retired(new)
      BY <1>0, <3>1, <3>3, <3>4 DEF ReuseInv
    <3>6. new \notin ToSet(reusable_id') /\ IsInjective(reusable_id')
      BY <1>0, <3>4, <3>5 DEF ReuseInv, IsInjective, ToSet
    <3>7. \A k \in DOMAIN reusable_id' : Retired(reusable_id'[k])
      BY <1>0, <3>4 DEF ReuseInv
    <3>8. /\ new # h /\ new \notin listening /\ new < stream_id' /\ ~Mentioned(new)
          /\ owner[new] # NoClient /\ conn[owner[new]] = "closed"
      BY <1>4, <3>1, <3>5, Constants DEF Retired, Owned
    <3> QED
      BY <3>1, <3>6, <3>7, <3>8
  <2>2. CASE reusable_id = <<>>
    <3>1. /\ event' = [pc |-> "get", id |-> h, new |-> stream_id]
          /\ stream_id' = stream_id + 1
          /\ future_storages' = [future_storages EXCEPT ![stream_id] = TRUE]
          /\ reusable_id' = <<>>
      BY <2>2 DEF Connect
    <3>2. stream_id \in Ids
      BY RoomForId
    <3>3. DOMAIN reusable_id' = {} /\ ToSet(reusable_id') = {}
      BY <3>1 DEF ToSet
    <3>4. future_storages'[stream_id] /\ \A i \in Ids : future_storages[i] => future_storages'[i]
      BY <1>0, <3>1, <3>2 DEF TypeOK
    <3>5. new = stream_id /\ new < stream_id' /\ new >= stream_id /\ ~(new < stream_id)
      BY <1>2, <3>1
    <3>6. ~Owned(new) /\ ~Mentioned(new) /\ new \notin listening /\ owner[new] = NoClient
      BY <1>0, <1>7, <3>2, <3>5 DEF Owned, OwnerInv
    <3>7. new # h
      BY <1>4, <3>6
    <3> QED
      BY <3>1, <3>3, <3>4, <3>5, <3>6, <3>7 DEF IsInjective
  <2> QED
    BY <2>1, <2>2
<1>9. stream_id' \in Nat /\ stream_id' >= stream_id
  BY <1>3 DEF Steady
<1>10. OwnerInv' /\ CallbackOnOwnStream'
  <2>1. \A i \in Ids : i >= stream_id' => i >= stream_id
    BY <1>2, <1>9
  <2> QED
    BY <1>0, <1>1, <1>6, <2>1 DEF OwnerInv, CallbackOnOwnStream
<1>11. ReuseInv'
  <2>1. ASSUME NEW i, Retired(i) PROVE Retired(i)'
    BY <1>1, <1>5, <1>6, <2>1 DEF Retired
  <2>2. ASSUME NEW k \in DOMAIN reusable_id' PROVE Retired(reusable_id[k])'
    <3>1. PICK i : i = reusable_id'[k]
      OBVIOUS
    <3> QED
      BY <1>8, <2>1, <3>1
  <2> QED
    BY <1>8, <2>2 DEF ReuseInv
<1>12. EventInv'
  <2>1. Owned(event.id)'
    BY <1>4, <1>6, <1>8
  <2>2. ~Mentioned(event.new)'
    <3>1. PICK i : i = event'.new
      OBVIOUS
    <3> QED
      BY <1>5, <1>8, <3>1
  <2> QED
    BY <1>1, <1>4, <1>8, <2>1, <2>2 DEF EventInv
<1>13. ServedInv'
  BY <1>0, <1>1, <1>8 DEF ServedInv
<1>14. PoolInv'
  <2>1. ~Opening /\ Opening'
    BY <1>1, <1>8 DEF Opening
  <2>2. Pool' = Pool
    BY <1>1, <1>4, <1>8, <2>1 DEF Pool
  <2>3. IsFiniteSet(Taken) /\ owner[h] \in Clients \ Taken
    BY RoomForId
  <2>4. Taken' = Taken \cup {owner[h]}
    <3>1. h \in Ids /\ owner[h] \in Clients /\ owner[h] # NoClient /\ conn[owner[h]] # "new"
      BY <1>0, <1>4, Constants DEF Owned, OwnerInv
    <3>2. \A i \in Connecting \ {h} : i \in Ids /\ owner[i] # owner[h]
      BY <1>0, <3>1 DEF OwnerInv, Connecting
    <3>3. ASSUME NEW c \in Clients PROVE c \in Taken' <=> c \in Taken \/ c = owner[h]
      <4>1. CASE c = owner[h]
        BY <1>1, <1>4, <3>1, <3>2, <4>1 DEF Taken
      <4>2. CASE c # owner[h]
        BY <1>1, <1>4, <4>2 DEF Taken
      <4> QED
        BY <4>1, <4>2
    <3>4. Taken \subseteq Clients /\ Taken' \subseteq Clients
      BY DEF Taken
    <3> QED
      BY <3>1, <3>3, <3>4
  <2>5. Cardinality(Taken') = Cardinality(Taken) + 1 /\ Cardinality(Taken) \in Nat
    BY <2>3, <2>4, FS_AddElement, FS_CardinalityType
  <2>6. Cardinality(Pool) = PoolSize /\ stream_id <= PoolSize + Cardinality(Taken)
    BY DEF IndInv, PoolInv
  <2>7. stream_id' <= PoolSize + Cardinality(Taken')
    BY <1>2, <1>8, <2>5, <2>6, PoolAssumption
  <2> QED
    BY <2>2, <2>6, <2>7 DEF PoolInv
<1> QED
  BY <1>4, <1>10, <1>11, <1>12, <1>13, <1>14 DEF IndInv

\* The new stream is listened on: it takes the place of the one that was taken.
LEMMA CreateListenPortInd ==
  ASSUME IndInv, TypeOK', CreateListenPort
  PROVE  IndInv'
<1> DEFINE new == event.new
<1>0. TypeOK /\ CallbackOnOwnStream /\ OwnerInv /\ EventInv /\ ServedInv /\ ReuseInv /\ QueueInv
  BY DEF IndInv
<1>1. /\ UNCHANGED <<conn, cq, server, stream_id, reusable_id, reading, callback, served>>
      /\ server = "up" /\ event.pc = "get" /\ callback[new] = NoCall
      /\ listening' = listening \cup {new}
  BY DEF CreateListenPort, clientVars
<1>2. new \in Ids /\ event.id \in Ids
  BY <1>0 DEF TypeOK
<1>3. /\ owner'[new] = NoClient /\ \A i \in Ids \ {new} : owner'[i] = owner[i]
      /\ \A i \in Ids \ {new} : future_storages'[i] = future_storages[i]
  BY <1>0, <1>2 DEF CreateListenPort, TypeOK
<1>4. event'.pc = "read" /\ event'.id = event.id /\ event'.new = new
  BY <1>0 DEF CreateListenPort, TypeOK
<1>5. /\ Owned(event.id) /\ new # event.id /\ event.id \notin Connecting
      /\ new \notin listening /\ new < stream_id /\ ~Mentioned(new)
      /\ new \notin ToSet(reusable_id)
      /\ owner[new] = NoClient \/ conn[owner[new]] = "closed"
  BY <1>0, <1>1 DEF EventInv, Busy, Opening
<1>6. \A i \in Ids \ {new} : Owned(i)' <=> Owned(i)
  BY <1>1, <1>3 DEF Owned
<1>7. \A i : Mentioned(i)' <=> Mentioned(i)
  BY <1>1 DEF Mentioned
<1>8. Connecting' = Connecting /\ Connecting \subseteq Ids /\ new \notin Connecting
  BY <1>1, <1>5 DEF Connecting, Mentioned
<1>9. OwnerInv'
  <2>1. \A i \in Ids : owner'[i] # NoClient => i # new /\ conn'[owner'[i]] # "new"
    BY <1>0, <1>1, <1>3 DEF OwnerInv
  <2>2. \A i, j \in Ids : (owner'[i] = owner'[j] /\ owner'[i] # NoClient) => i = j
    BY <1>0, <1>3 DEF OwnerInv
  <2>3. \A i \in Ids : i >= stream_id' => i \notin listening' /\ owner'[i] = NoClient
    <3>1. new \in Nat /\ stream_id \in Nat
      BY <1>0, <1>2, Numbers
    <3>2. ~(new >= stream_id)
      BY <1>5, <3>1
    <3> QED
      BY <1>0, <1>1, <1>3, <3>2 DEF OwnerInv
  <2>4. \A i \in listening' : owner'[i] = NoClient /\ callback'[i] = NoCall
    BY <1>0, <1>1, <1>3 DEF OwnerInv, TypeOK
  <2>5. \A i \in reading' : Owned(i)' /\ conn'[owner'[i]] = "connected"
    <3>1. \A i \in reading : i \in Ids \ {new} /\ Owned(i) /\ conn[owner[i]] = "connected"
      BY <1>0, <1>5, Constants DEF OwnerInv, Owned
    <3> QED
      BY <1>1, <1>3, <1>6, <3>1
  <2> QED
    BY <2>1, <2>2, <2>3, <2>4, <2>5 DEF OwnerInv
<1>10. QueueInv'
  <2>1. \A k \in DOMAIN cq : cq[k].id \in Ids \ {new} /\ Owned(cq[k].id)
    BY <1>0, <1>5 DEF QueueInv, Owned, Mentioned
  <2>2. ASSUME NEW k \in DOMAIN cq' PROVE Owned(cq[k].id)'
    <3>1. PICK i : i = cq[k].id
      OBVIOUS
    <3>2. i = cq'[k].id /\ i \in Ids \ {new} /\ Owned(i)
      BY <1>1, <2>1, <3>1
    <3> QED
      BY <1>6, <3>2
  <2> QED
    BY <1>0, <1>1, <1>3, <2>1, <2>2 DEF QueueInv
<1>11. ReuseInv'
  <2>1. ASSUME NEW i, Retired(i), i # new PROVE Retired(i)'
    BY <1>1, <1>3, <1>6, <1>7, <2>1 DEF Retired, Owned
  <2>2. ASSUME NEW k \in DOMAIN reusable_id' PROVE Retired(reusable_id[k])'
    <3>1. PICK i : i = reusable_id[k]
      OBVIOUS
    <3>2. i = reusable_id'[k] /\ Retired(i) /\ i # new
      BY <1>0, <1>1, <1>5, <3>1 DEF ReuseInv, ToSet
    <3> QED
      BY <2>1, <3>2
  <2> QED
    BY <1>0, <1>1, <2>2 DEF ReuseInv
<1>12. EventInv'
  <2>1. Owned(event.id)'
    BY <1>2, <1>4, <1>5, <1>6
  <2>2. ~Opening'
    BY <1>4 DEF Opening
  <2> QED
    BY <2>1, <2>2 DEF EventInv
<1>13. ServedInv'
  <2>1. NoClient \notin served
    BY <1>0, Constants DEF TypeOK
  <2>2. \A i \in Ids : owner'[i] \in served' => future_storages'[i]
    BY <1>0, <1>1, <1>3, <2>1 DEF ServedInv
  <2> QED
    BY <1>0, <1>1, <2>2 DEF ServedInv
<1>14. PoolInv'
  <2> DEFINE base == listening \cup Connecting
  <2>1. IsFiniteSet(base)
    <3>1. base \subseteq Ids
      BY <1>0, <1>8 DEF TypeOK
    <3> QED
      BY <3>1, Constants, FS_Subset
  <2>2. new \notin base /\ event.id \notin base
    BY <1>5, <1>8 DEF Owned
  <2>3. Pool = base \cup {event.id} /\ Pool' = base \cup {new}
    BY <1>1, <1>4, <1>8 DEF Pool, Opening
  <2>4. Cardinality(Pool') = Cardinality(Pool)
    BY <2>1, <2>2, <2>3, FS_AddElement
  <2>5. Taken' = Taken
    <3>1. \A i \in Connecting : owner'[i] = owner[i]
      BY <1>3, <1>8
    <3> QED
      BY <1>1, <1>8, <3>1 DEF Taken
  <2> QED
    BY <1>1, <2>4, <2>5 DEF IndInv, PoolInv
<1>15. CallbackOnOwnStream'
  BY <1>0, <1>1, <1>3 DEF CallbackOnOwnStream
<1> QED
  BY <1>9, <1>10, <1>11, <1>12, <1>13, <1>14, <1>15 DEF IndInv
---------------------------------------------------------------------------
\* Every step keeps the invariant.
LEMMA NextInd == IndInv /\ [Next]_vars => IndInv'
<1> SUFFICES ASSUME IndInv, [Next]_vars PROVE IndInv'
  OBVIOUS
<1>1. TypeOK'
  BY TypeInd
<1>2. CASE UNCHANGED vars \/ Dial
  <2>1. UNCHANGED <<conn, cq, idVars, event, server, reading, future_storages, callback, served>>
    BY <1>2 DEF vars, clientVars, callVars, Dial
  <2>2. QueueInv' /\ Connecting' = Connecting /\ \A i : Mentioned(i)' <=> Mentioned(i)
    BY <2>1, QueueStays
  <2>3. ServedInv'
    BY <2>1 DEF IndInv, ServedInv, idVars
  <2>4. (Opening' <=> Opening) /\ (Busy' <=> Busy)
    BY <2>1 DEF Opening, Busy
  <2>5. Calm
    BY <2>1, <2>2, <2>4 DEF Calm, IndInv, EventInv, CallbackOnOwnStream, OwnerInv
  <2> QED
    BY <1>1, <2>2, <2>3, <2>5, CalmInd
<1>3. ASSUME NEW c \in Clients, NEW i \in Ids, Accept(c, i) \/ Close(c, i) PROVE IndInv'
  BY <1>1, <1>3, AcceptInd, CloseInd
<1>4. ASSUME NEW i \in Ids, NEW s \in Settings, Send(i, s) PROVE IndInv'
  BY <1>1, <1>4, SendInd
<1>5. ASSUME NEW i \in Ids, WriteDone(i) \/ SetOutcome(i) \/ Callback(i) PROVE IndInv'
  BY <1>1, <1>5, LocalInd
<1>6. CASE Event
  BY <1>1, <1>6, ConnectInd, LocalInd, CreateListenPortInd, EndInd, HandleReadInd,
     BrokenPipeInd DEF Event
<1> QED
  BY <1>2, <1>3, <1>4, <1>5, <1>6 DEF Next

\* IndInv holds in every state.
LEMMA SpecInd == Spec => []IndInv
<1>1. Init => IndInv
  BY InitInd
<1>2. IndInv /\ [Next]_vars => IndInv'
  BY NextInd
<1> QED
  BY <1>1, <1>2, PTL DEF Spec

(***************************************************************************)
(* However clients come and go, PoolSize streams are listened on or about  *)
(* to be replaced (ServiceServer.hpp, CONNECT), and the queue of ids to be *)
(* used again (BROKEN_PIPE, generate_stream_id) holds each id once, when   *)
(* its client has gone.                                                    *)
(***************************************************************************)
THEOREM PoolIsKept == Spec => []PoolKept
<1>1. IndInv => PoolKept
  <2> SUFFICES ASSUME IndInv PROVE PoolKept
    OBVIOUS
  <2>1. event.pc = "next" => Cardinality(listening \cup Connecting) = PoolSize
    <3>1. event.pc = "next" => Pool = listening \cup Connecting
      BY DEF Pool, Opening
    <3> QED
      BY <3>1 DEF IndInv, PoolInv
  <2>2. listening \cap Connecting = {}
    BY DEF IndInv, QueueInv, Owned, Connecting
  <2>3. \A i \in ToSet(reusable_id) : i \notin listening /\ conn[owner[i]] = "closed"
    BY DEF IndInv, ReuseInv, Retired, Owned, ToSet
  <2> QED
    BY <2>1, <2>2, <2>3 DEF PoolKept, IndInv, ReuseInv
<1> QED
  BY <1>1, SpecInd, PTL

(***************************************************************************)
(* The stream of a client is not replaced while the callback of one of its *)
(* requests runs: CreateListenPort waits for the future of the callback.   *)
(***************************************************************************)
THEOREM CallbacksKeepTheirStream == Spec => []CallbackOnOwnStream
<1>1. IndInv => CallbackOnOwnStream
  BY DEF IndInv
<1> QED
  BY <1>1, SpecInd, PTL

(***************************************************************************)
(* The get of CreateListenPort throws only for the id of a client that has *)
(* gone without a request of it being accepted.                            *)
(***************************************************************************)
THEOREM OnlyIdleClientsBreakIt == Spec => []OnlyIdleClientsBreak
<1>1. IndInv => OnlyIdleClientsBreak
  <2> SUFFICES ASSUME IndInv, server = "no future"
               PROVE  conn[owner[event.new]] = "closed" /\ owner[event.new] \notin served
    BY DEF OnlyIdleClientsBreak
  <2>1. event.pc = "get" /\ ~future_storages[event.new]
    BY DEF IndInv, ServedInv
  <2>2. conn[owner[event.new]] = "closed"
    BY <2>1 DEF IndInv, EventInv, Opening
  <2>3. event.new \in Ids
    BY DEF IndInv, TypeOK
  <2> QED
    BY <2>1, <2>2, <2>3 DEF IndInv, ServedInv
<1> QED
  BY <1>1, SpecInd, PTL
---------------------------------------------------------------------------
(***************************************************************************)
(* How a client finds its server: ServiceConnection, which shares neither  *)
(* parameters nor state with ServiceStreams.  Two servers of one name      *)
(* never both go on, for any number of servers.  ConflictSeen needs one    *)
(* more fact to be inductive: who has asked anybody has recorded its       *)
(* service, or has died.                                                   *)
(***************************************************************************)
RecordedFirst == \A c \in Calls : call[c] # "none" => serving[c[1]] \in {"asking", "dead"}
AskedInv == ConflictSeen /\ RecordedFirst

\* A pair of two servers is a call, and its parts are its servers.
LEMMA PairIsCall ==
  ASSUME NEW s \in Servers, NEW t \in Servers, s # t
  PROVE  <<s, t>> \in Calls /\ <<s, t>>[1] = s /\ <<s, t>>[2] = t
  BY DEF Calls, Nodes

\* The two ends of a call are a server and another node.
LEMMA CallEnds ==
  ASSUME NEW c \in Calls
  PROVE  c[1] \in Servers /\ c[2] \in Nodes /\ c = <<c[1], c[2]>>
  BY DEF Calls

\* Nobody is served, asked or dead at first.
LEMMA AskedInit == ConnectionInit => AskedInv
<1> SUFFICES ASSUME ConnectionInit PROVE AskedInv
  OBVIOUS
<1>1. ConnectionTypeOK /\ RecordedFirst
  BY DEF ConnectionInit, ConnectionTypeOK, RecordedFirst, HandlerPCs
<1>2. \A s, t \in Servers : s # t => ~Asked(s, t)
  BY PairIsCall DEF ConnectionInit, Asked
<1> QED
  BY <1>1, <1>2 DEF AskedInv, ConflictSeen

\* Every step keeps every variable in its type.
LEMMA AskedTypes == ConnectionTypeOK /\ [ConnectionNext]_ConnectionVars => ConnectionTypeOK'
<1> SUFFICES ASSUME ConnectionTypeOK, [ConnectionNext]_ConnectionVars PROVE ConnectionTypeOK'
  OBVIOUS
<1> USE DEF ConnectionTypeOK, Goto, Ask, ClientSame, HandlerPCs
<1>1. ASSUME NEW s \in Servers, Die(s) \/ add_serving_service(s)
                                \/ pull_serving_service_request(s)
      PROVE  ConnectionTypeOK'
  BY <1>1 DEF Die, add_serving_service, pull_serving_service_request
<1>2. ASSUME NEW s \in Servers, NEW n \in Nodes, add_client(s, n)
      PROVE  ConnectionTypeOK'
  BY <1>2 DEF add_client
<1>3. ASSUME NEW c \in Calls, NameConflict(c) \/ NoConflict(c)
      PROVE  ConnectionTypeOK'
  BY <1>3 DEF NameConflict, NoConflict
<1>4. ASSUME NEW c \in Calls, Loop(c) \/ LoopCancelled(c) \/ Sleep(c) \/ Retry(c)
      PROVE  ConnectionTypeOK'
  BY <1>4 DEF Loop, LoopCancelled, Sleep, Retry
<1>5. ASSUME NEW c \in Calls, add_rpc_service_client(c)
      PROVE  ConnectionTypeOK'
  BY <1>5, CallEnds DEF add_rpc_service_client
<1>6. CASE add_served_service \/ notify_all \/ Reader \/ reset \/ UNCHANGED ConnectionVars
  BY <1>6 DEF add_served_service, notify_all, Reader, create_connection, StreamEnds,
              reset, ConnectionVars
<1> QED
  BY <1>1, <1>2, <1>3, <1>4, <1>5, <1>6 DEF ConnectionNext, Handler

\* What a step must leave alone to keep the two facts: nobody is asked, and
\* a server changes only to have died or from not having asked.
Quiet ==
  /\ \A c \in Calls : /\ call[c] = "none" => call'[c] = "none"
                      /\ call[c] = "rpc" => call'[c] = "rpc"
  /\ \A s \in Servers : serving'[s] = serving[s] \/ serving'[s] = "dead"
                          \/ serving[s] = "idle"

\* A calm step keeps both facts.
LEMMA QuietKeepsAsked ==
  ASSUME AskedInv, Quiet, ConnectionTypeOK'
  PROVE  AskedInv'
<1>1. ASSUME NEW c \in Calls, call'[c] # "none"
      PROVE  serving'[c[1]] \in {"asking", "dead"}
  <2>1. serving[c[1]] \in {"asking", "dead"}
    BY <1>1 DEF AskedInv, RecordedFirst, Quiet
  <2>2. c[1] \in Servers
    BY CallEnds
  <2> QED
    BY <2>1, <2>2 DEF Quiet
<1>2. ASSUME NEW s \in Servers, NEW t \in Servers, s # t, Asked(s, t)', Asked(t, s)'
      PROVE  serving'[s] = "dead" \/ serving'[t] = "dead"
  <2>0. <<s, t>> \in Calls /\ <<t, s>> \in Calls
    BY <1>2, PairIsCall
  <2>1. Asked(s, t) /\ Asked(t, s)
    BY <1>2, <2>0 DEF Asked, Quiet
  <2> QED
    BY <1>2, <2>1 DEF AskedInv, ConflictSeen, Quiet
<1> QED
  BY <1>1, <1>2 DEF AskedInv, ConflictSeen, RecordedFirst

\* The facts are inductive: the second of two handlers to run finds the
\* service of its own node recorded.
LEMMA AskedStep == AskedInv /\ [ConnectionNext]_ConnectionVars => AskedInv'
<1> SUFFICES ASSUME AskedInv, [ConnectionNext]_ConnectionVars PROVE AskedInv'
  OBVIOUS
<1>a. ConnectionTypeOK /\ ConnectionTypeOK'
  BY AskedTypes DEF AskedInv, ConflictSeen
<1>1. ASSUME NEW s \in Servers, Die(s) \/ add_serving_service(s)
      PROVE  AskedInv'
  <2>1. Quiet
    BY <1>a, <1>1 DEF ConnectionTypeOK, Quiet, Die, add_serving_service
  <2> QED
    BY <1>a, <2>1, QuietKeepsAsked
<1>2. ASSUME NEW s \in Servers, NEW ns \in SUBSET Nodes, Ask(s, ns),
             serving'[s] = "asking", \A t \in Servers : t # s => serving'[t] = serving[t],
             serving[s] \in {"added", "asking"}
      PROVE  AskedInv'
  <2>1. \A c \in Calls : call'[c] # "none" => serving'[c[1]] \in {"asking", "dead"}
    BY <1>2, CallEnds DEF AskedInv, RecordedFirst, Ask
  <2>2. ASSUME NEW t \in Servers, NEW u \in Servers, t # u, Asked(t, u)', Asked(u, t)'
        PROVE  serving'[t] = "dead" \/ serving'[u] = "dead"
    <3>1. Asked(t, u) /\ Asked(u, t)
      BY <1>2, <2>2, PairIsCall DEF Asked, Ask
    <3>2. serving[t] = "dead" \/ serving[u] = "dead"
      BY <2>2, <3>1 DEF AskedInv, ConflictSeen
    <3> QED
      BY <1>2, <3>2
  <2> QED
    BY <1>a, <2>1, <2>2 DEF AskedInv, ConflictSeen, RecordedFirst
<1>3. ASSUME NEW s \in Servers, pull_serving_service_request(s)
      PROVE  AskedInv'
  <2>1. club[s] \in SUBSET Nodes /\ Ask(s, club[s]) /\ serving[s] = "added"
        /\ serving'[s] = "asking" /\ \A t \in Servers : t # s => serving'[t] = serving[t]
    BY <1>a, <1>3 DEF ConnectionTypeOK, pull_serving_service_request
  <2> QED
    BY <1>2, <2>1
<1>4. ASSUME NEW s \in Servers, NEW n \in Nodes, add_client(s, n)
      PROVE  AskedInv'
  <2>1. serving' = serving
    BY <1>4 DEF add_client
  <2>2. CASE serving[s] = "asking"
    <3>1. Ask(s, {n}) /\ {n} \in SUBSET Nodes
      BY <1>4, <2>2 DEF add_client
    <3> QED
      BY <1>2, <2>1, <2>2, <3>1
  <2>3. CASE serving[s] # "asking"
    <3>1. Quiet
      BY <1>4, <2>1, <2>3 DEF add_client, Quiet
    <3> QED
      BY <1>a, <3>1, QuietKeepsAsked
  <2> QED
    BY <2>2, <2>3
<1>5. ASSUME NEW c \in Calls, NameConflict(c) \/ NoConflict(c)
      PROVE  AskedInv'
  <2>1. /\ call[c] = "rpc"
        /\ \A d \in Calls : d # c => call'[d] = call[d]
        /\ c[1] \in Servers /\ c[2] \in Nodes /\ c = <<c[1], c[2]>>
    BY <1>a, <1>5, CallEnds DEF ConnectionTypeOK, NameConflict, NoConflict, Goto
  <2>2. \A s \in Servers : serving'[s] = serving[s] \/ serving'[s] = "dead"
    BY <1>a, <1>5 DEF ConnectionTypeOK, NameConflict, NoConflict
  <2>3. c[2] \in Servers => serving'[c[2]] \in {"idle", "dead"}
    BY <1>a, <1>5 DEF ConnectionTypeOK, NameConflict, NoConflict, Running, find_serving_service
  <2>4. \A d \in Calls : call'[d] # "none" => serving'[d[1]] \in {"asking", "dead"}
    BY <2>1, <2>2, CallEnds DEF AskedInv, RecordedFirst
  <2>5. ASSUME NEW t \in Servers, NEW u \in Servers, t # u, Asked(t, u)', Asked(u, t)'
        PROVE  serving'[t] = "dead" \/ serving'[u] = "dead"
    <3>1. /\ <<t, u>> \in Calls /\ <<u, t>> \in Calls
          /\ <<t, u>>[1] = t /\ <<t, u>>[2] = u /\ <<u, t>>[1] = u /\ <<u, t>>[2] = t
      BY <2>5, PairIsCall
    <3>2. /\ serving'[t] \in {"asking", "dead"} /\ serving'[u] \in {"asking", "dead"}
      BY <2>4, <2>5, <3>1 DEF Asked
    <3>3. CASE c = <<t, u>> \/ c = <<u, t>>
      BY <2>3, <3>1, <3>2, <3>3
    <3>4. CASE c # <<t, u>> /\ c # <<u, t>>
      <4>1. Asked(t, u) /\ Asked(u, t)
        BY <2>1, <2>5, <3>1, <3>4 DEF Asked
      <4> QED
        BY <2>2, <2>5, <4>1 DEF AskedInv, ConflictSeen
    <3> QED
      BY <3>3, <3>4
  <2> QED
    BY <1>a, <2>4, <2>5 DEF AskedInv, ConflictSeen, RecordedFirst
<1>6. ASSUME NEW c \in Calls, Loop(c) \/ LoopCancelled(c) \/ Sleep(c) \/ Retry(c)
                              \/ add_rpc_service_client(c)
      PROVE  AskedInv'
  <2>1. Quiet
    BY <1>a, <1>6 DEF ConnectionTypeOK, Quiet, Loop, LoopCancelled, Sleep, Retry,
                      add_rpc_service_client, Goto
  <2> QED
    BY <1>a, <2>1, QuietKeepsAsked
<1>7. CASE add_served_service \/ notify_all \/ Reader \/ reset \/ UNCHANGED ConnectionVars
  <2>1. Quiet
    BY <1>a, <1>7 DEF ConnectionTypeOK, Quiet, add_served_service, notify_all, Reader,
                      create_connection, StreamEnds, reset, ConnectionVars
  <2> QED
    BY <1>a, <2>1, QuietKeepsAsked
<1> QED
  BY <1>1, <1>3, <1>4, <1>5, <1>6, <1>7 DEF ConnectionNext, Handler

\* However many servers of a name start, and in whatever order they learn
\* of each other, no two that have asked each other both live.
THEOREM ConflictIsSeen == ConnectionSpec => []ConflictSeen
<1>1. AskedInv => ConflictSeen
  BY DEF AskedInv
<1> QED
  BY AskedInit, AskedStep, <1>1, PTL DEF ConnectionSpec
=============================================================================
