------------------------- MODULE ParamClientProofs -------------------------
(***************************************************************************)
(* Proofs about the parameter clients of a node, for any number of remote  *)
(* processes, names, callbacks and stores.                                 *)
(***************************************************************************)
EXTENDS ParamClient, TLAPS

Adds(i, p) == commands[i].code = "ADD" /\ commands[i].peer = p
Pending(p) == \E i \in 1..Len(commands) : Adds(i, p)
\* p has no client, and nothing was ever asked of it.
Unknown(p) == slot[p] = NoSlot /\ \A n \in Names : clients[n] # p
\* The register thread is about to issue the queued requests to p.
Adding(p) == mtx.by = "ADD" /\ mtx.peer = p

(***************************************************************************)
(* A process is added once, so the client that add_client makes for it has *)
(* an empty slot; and a client is found under the name of its peer only.   *)
(***************************************************************************)
FreshInv ==
  /\ \A p \in Peers : process[p] = "new" => registered[p] = "none"
  /\ \A p \in Peers : registered[p] \in {"none", "claim"} => Unknown(p) /\ ~Pending(p)
  /\ \A p \in Peers : Pending(p) => Unknown(p)
  /\ \A p \in Peers : \A i, j \in 1..Len(commands) : (Adds(i, p) /\ Adds(j, p)) => i = j
  /\ \A n \in Names : clients[n] # NoPeer => NameOf[clients[n]] = n
  /\ \A p \in Peers : Adding(p) => slot[p] = NoSlot /\ clients[NameOf[p]] = p
  /\ mtx.by # "none" => mtx.peer \in Peers

\* The queue of a name ends with the callback asked for last.
AskedInv ==
  \A n \in Names : asked[n] = IF get_requests_queue[n] = <<>> THEN NoCallback
                                                              ELSE Last(get_requests_queue[n])

\* Clients other than the one that is being added have that callback.
SlotInv ==
  /\ \A p \in Peers : ~slot[p].made => slot[p] = NoSlot
  /\ \A p \in Peers : slot[p].cb # NoCallback =>
                        \E n \in Names : Contains(get_requests_queue[n], slot[p].cb)
  /\ \A n \in Names :
       (clients[n] # NoPeer /\ asked[n] # NoCallback /\ ~Adding(clients[n])) =>
         slot[clients[n]].cb = asked[n]

\* Replies on their way are in the order of the stores, after the slot's data.
StreamInv ==
  \A p \in Peers :
    /\ slot[p].data <= value[p]
    /\ \A i \in 1..Len(stream[p]) : slot[p].data <= stream[p][i] /\ stream[p][i] <= value[p]
    /\ \A i, j \in 1..Len(stream[p]) : i < j => stream[p][i] <= stream[p][j]

IndInv == TypeOK /\ FreshInv /\ AskedInv /\ SlotInv /\ StreamInv
---------------------------------------------------------------------------
(* Facts about sequences and the constants.                                *)

\* Values are natural numbers, and no slot is a made slot.
LEMMA Constants ==
  /\ Replies \subseteq Nat /\ 0 \in Replies /\ MaxStores \in Nat
  /\ NoSlot \in [made : BOOLEAN, cb : Callbacks \cup {NoCallback}, data : Replies]
  /\ \A c \in Callbacks \cup {NoCallback} :
       NewSlot(c) \in [made : BOOLEAN, cb : Callbacks \cup {NoCallback}, data : Replies]
  BY StoresAssumption DEF Replies, NoSlot, NewSlot, NotAvailable

\* The first element of a sequence and the rest.
LEMMA HeadAndTail ==
  ASSUME NEW S, NEW s \in Seq(S), s # <<>>
  PROVE  /\ Head(s) \in S /\ Head(s) = s[1] /\ Tail(s) \in Seq(S)
         /\ Len(s) \in Nat \ {0} /\ Len(Tail(s)) = Len(s) - 1
         /\ \A i \in 1..Len(Tail(s)) : Tail(s)[i] = s[i + 1]
  OBVIOUS

\* A sequence with one more element.
LEMMA Appended ==
  ASSUME NEW S, NEW s \in Seq(S), NEW x \in S
  PROVE  /\ Append(s, x) \in Seq(S) /\ Len(s) \in Nat /\ Len(Append(s, x)) = Len(s) + 1
         /\ \A i \in 1..Len(s) : Append(s, x)[i] = s[i]
         /\ Append(s, x)[Len(s) + 1] = x /\ Append(s, x) # <<>>
  OBVIOUS

\* What a dead process leaves on its stream is a prefix.
LEMMA Prefix ==
  ASSUME NEW S, NEW s \in Seq(S), NEW k \in 0..Len(s)
  PROVE  /\ SubSeq(s, 1, k) \in Seq(S) /\ Len(SubSeq(s, 1, k)) = k /\ Len(s) \in Nat
         /\ \A i \in 1..k : i \in 1..Len(s) /\ SubSeq(s, 1, k)[i] = s[i]
  OBVIOUS

Commands == [code : Codes, peer : Peers]

\* Nothing is known at first.
LEMMA InitInd == Init => IndInv
<1> SUFFICES ASSUME Init PROVE IndInv
  OBVIOUS
<1>1. TypeOK
  BY Constants, StoresAssumption DEF Init, StreamInit, TypeOK, StreamTypeOK, Free, NoSlot, Replies
<1>2. commands = <<>> /\ Len(commands) = 0 /\ \A p \in Peers : Len(stream[p]) = 0
  BY DEF Init, StreamInit
<1>3. FreshInv
  BY <1>2, PeerNames DEF Init, StreamInit, FreshInv, Unknown, Pending, Adding, Free
<1>4. AskedInv
  BY DEF Init, AskedInv
<1>5. SlotInv
  BY DEF Init, SlotInv, NoSlot
<1>6. StreamInv
  <2>1. \A p \in Peers : slot[p].data = 0 /\ value[p] = 0
    BY DEF Init, NoSlot, NotAvailable
  <2>2. ASSUME NEW p \in Peers PROVE 1..Len(stream[p]) = {}
    <3>1. Len(stream[p]) = 0
      BY <1>2
    <3>2. 1..0 = {}
      OBVIOUS
    <3> QED
      BY <3>1, <3>2
  <2>3. 0 <= 0
    OBVIOUS
  <2> QED
    BY <2>1, <2>2, <2>3, Zenon DEF StreamInv
<1> QED
  BY <1>1, <1>3, <1>4, <1>5, <1>6 DEF IndInv
---------------------------------------------------------------------------
\* getRemoteParam leaves a slot that is made and a reader for it.
LEMMA RequestType ==
  ASSUME TypeOK, NEW p \in Peers, NEW c \in Callbacks \cup {NoCallback}, getRemoteParam(p, c)
  PROVE  /\ slot' \in [Peers -> [made : BOOLEAN, cb : Callbacks \cup {NoCallback}, data : Replies]]
         /\ reader' \in [Peers -> {"none", "reading", "done"}]
         /\ \A q \in Peers : slot'[q].made <=> reader'[q] # "none"
         /\ \A q \in Peers \ {p} : slot'[q] = slot[q]
         /\ slot'[p] = IF slot[p].made /\ c = NoCallback THEN slot[p] ELSE NewSlot(c)
<1>1. /\ \A q \in Peers \ {p} : slot'[q] = slot[q] /\ reader'[q] = reader[q]
      /\ slot'[p] = (IF slot[p].made /\ c = NoCallback THEN slot[p] ELSE NewSlot(c))
      /\ reader'[p] = (IF slot[p].made THEN reader[p] ELSE "reading")
      /\ DOMAIN slot' = Peers /\ DOMAIN reader' = Peers
  BY DEF getRemoteParam, TypeOK
<1>2. slot' \in [Peers -> [made : BOOLEAN, cb : Callbacks \cup {NoCallback}, data : Replies]]
  BY <1>1, Constants DEF getRemoteParam, TypeOK
<1>3. reader' \in [Peers -> {"none", "reading", "done"}]
  BY DEF getRemoteParam, TypeOK
<1>4. NewSlot(c).made
  BY DEF NewSlot
<1>5. ASSUME NEW q \in Peers PROVE slot'[q].made <=> reader'[q] # "none"
  <2>0. /\ slot[q].made <=> reader[q] # "none"
        /\ slot[p].made <=> reader[p] # "none"
    BY DEF TypeOK
  <2>1. CASE q # p
    BY <1>1, <2>0, <2>1
  <2>2. CASE q = p /\ slot[p].made
    <3>1. reader'[p] = reader[p] /\ (slot'[p] = slot[p] \/ slot'[p] = NewSlot(c))
      BY <1>1, <2>2
    <3> QED
      BY <1>4, <2>0, <2>2, <3>1
  <2>3. CASE q = p /\ ~slot[p].made
    <3>1. reader'[p] = "reading" /\ slot'[p] = NewSlot(c)
      BY <1>1, <2>3
    <3> QED
      BY <1>4, <2>3, <3>1
  <2> QED
    BY <2>1, <2>2, <2>3
<1> QED
  BY <1>1, <1>2, <1>3, <1>5

\* Every step of the stream keeps its variables in their types.
LEMMA StreamTypes ==
  ASSUME StreamTypeOK, StreamNext \/ Receive \/ UNCHANGED streamVars
  PROVE  StreamTypeOK'
<1> USE DEF StreamTypeOK
<1>1. commands \in Seq(Commands)
  BY DEF Commands
<1>2. \A p \in Peers : NameOf[p] \in Names
  BY PeerNames
<1>3. ASSUME NEW p \in Peers, find_exist_node(p) PROVE StreamTypeOK'
  BY <1>3 DEF find_exist_node
<1>4. ASSUME NEW p \in Peers, registration(p) PROVE StreamTypeOK'
  <2>1. [code |-> "ADD", peer |-> p] \in Commands
    BY DEF Codes, Commands
  <2>2. commands' \in Seq(Commands)
    BY <1>1, <1>4, <2>1, Appended DEF registration
  <2> QED
    BY <1>2, <1>4, <2>2 DEF registration, Commands
<1>5. ASSUME NEW p \in Peers, deregistration(p) PROVE StreamTypeOK'
  <2>1. [code |-> "DELETE", peer |-> p] \in Commands
    BY DEF Codes, Commands
  <2>2. commands' \in Seq(Commands)
    BY <1>1, <1>5, <2>1, Appended DEF deregistration
  <2> QED
    BY <1>2, <1>5, <2>2 DEF deregistration, Commands
<1>6. CASE list
  <2>1. /\ Head(commands) \in Commands
        /\ commands' \in Seq(Commands)
    BY <1>1, <1>6, HeadAndTail DEF list
  <2>2. Head(commands).peer \in Peers /\ NameOf[Head(commands).peer] \in Names
    BY <1>2, <2>1 DEF Commands
  <2>3. confused' \subseteq Names /\ skip_version' \subseteq Peers
    BY <1>6, <2>2 DEF list
  <2> QED
    BY <1>6, <2>1, <2>3 DEF list, Commands
<1>7. CASE Receive
  <2>1. commands' \in Seq(Commands)
    BY <1>1, <1>7, HeadAndTail DEF Receive
  <2> QED
    BY <1>7, <2>1 DEF Receive, Commands
<1>8. CASE UNCHANGED streamVars
  BY <1>8 DEF streamVars
<1> QED
  BY <1>3, <1>4, <1>5, <1>6, <1>7, <1>8 DEF StreamNext

\* Every step keeps every variable in its type.
LEMMA TypeInd ==
  ASSUME IndInv, [Next]_vars
  PROVE  TypeOK'
<1>0. TypeOK /\ FreshInv
  BY DEF IndInv
<1>s. (StreamNext \/ Receive \/ UNCHANGED streamVars) => StreamTypeOK'
  BY <1>0, StreamTypes DEF TypeOK
<1>1. CASE StreamNext /\ UNCHANGED <<valueVars, nodeVars>>
  BY <1>0, <1>1, <1>s DEF TypeOK, valueVars, nodeVars, clubVars, clientVars
<1>2. ASSUME NEW p \in Peers, Die(p) PROVE TypeOK'
  <2>1. StreamTypeOK'
    BY <1>0, <1>2 DEF Die, TypeOK, StreamTypeOK
  <2>2. PICK k \in 0..Len(stream[p]) : stream' = [stream EXCEPT ![p] = SubSeq(@, 1, k)]
    BY <1>2 DEF Die
  <2>3. stream[p] \in Seq(Replies)
    BY <1>0 DEF TypeOK
  <2>4. stream' \in [Peers -> Seq(Replies)]
    BY <1>0, <2>2, <2>3, Prefix DEF TypeOK
  <2> QED
    BY <1>0, <1>2, <2>1, <2>4 DEF Die, TypeOK, nodeVars, clubVars, clientVars
<1>3. ASSUME NEW p \in Peers, Store(p) PROVE TypeOK'
  <2>1. value' \in [Peers -> Replies]
    BY <1>0, <1>3, StoresAssumption DEF Store, TypeOK, Replies, NotAvailable
  <2> QED
    BY <1>0, <1>s, <1>3, <2>1 DEF Store, TypeOK, clubVars, clientVars, nodeVars
<1>4. ASSUME NEW p \in Peers, WriteReply(p) PROVE TypeOK'
  <2>1. value[p] \in Replies /\ value[p] \in -1..MaxStores /\ stream[p] \in Seq(Replies)
    BY <1>0, StoresAssumption DEF TypeOK, Replies, NotAvailable
  <2>2. stream' \in [Peers -> Seq(Replies)]
    BY <1>0, <1>4, <2>1, Appended DEF WriteReply, TypeOK
  <2>3. sent' \in [Peers -> -1..MaxStores]
    BY <1>0, <1>4, <2>1 DEF WriteReply, TypeOK
  <2> QED
    BY <1>0, <1>s, <1>4, <2>2, <2>3 DEF WriteReply, TypeOK, clubVars, clientVars, nodeVars
<1>5. ASSUME NEW p \in Peers, Read(p) PROVE TypeOK'
  <2>1. stream[p] \in Seq(Replies) /\ stream[p] # <<>>
    BY <1>0, <1>5 DEF TypeOK, Read
  <2>2. Head(stream[p]) \in Replies /\ Tail(stream[p]) \in Seq(Replies)
    BY <2>1, HeadAndTail
  <2>3. /\ stream' \in [Peers -> Seq(Replies)]
        /\ slot' = [slot EXCEPT ![p].data = Head(stream[p])]
    BY <1>0, <1>5, <2>2 DEF TypeOK, Read
  <2>4. /\ slot' \in [Peers -> [made : BOOLEAN, cb : Callbacks \cup {NoCallback}, data : Replies]]
        /\ \A q \in Peers : slot'[q].made = slot[q].made
    <3>1. slot \in [Peers -> [made : BOOLEAN, cb : Callbacks \cup {NoCallback}, data : Replies]]
      BY <1>0 DEF TypeOK
    <3> QED
      BY <2>2, <2>3, <3>1
  <2>5. running' \subseteq Calls
    <3>1. Head(stream[p]) # NotAvailable => Head(stream[p]) \in 1..MaxStores
      BY <2>2, StoresAssumption DEF Replies, NotAvailable
    <3>2. slot[p].cb # NoCallback => slot[p].cb \in Callbacks
      BY <1>0 DEF TypeOK
    <3>3. running' \subseteq running \cup {<<slot[p].cb, p, Head(stream[p])>>}
          /\ (running' # running => slot[p].cb # NoCallback /\ Head(stream[p]) # NotAvailable)
      BY <1>5 DEF Read
    <3> QED
      BY <1>0, <3>1, <3>2, <3>3 DEF Calls, TypeOK
  <2> QED
    BY <1>0, <1>s, <1>5, <2>3, <2>4, <2>5 DEF Read, TypeOK, clubVars
<1>6. ASSUME NEW p \in Peers, ReadEnds(p) PROVE TypeOK'
  BY <1>0, <1>s, <1>6 DEF ReadEnds, TypeOK, remoteVars, clubVars, valueVars
<1>7. ASSUME NEW n \in Names, getRemoteRequest(n) PROVE TypeOK'
  <2>1. clients[n] \in Peers /\ getRemoteParam(clients[n], NoCallback)
    BY <1>0, <1>7 DEF getRemoteRequest, TypeOK
  <2> QED
    BY <1>0, <1>s, <1>7, <2>1, RequestType
       DEF getRemoteRequest, TypeOK, remoteVars, clubVars, valueVars
<1>8. ASSUME NEW n \in Names, setRemoteRequest(n) PROVE TypeOK'
  BY <1>0, <1>s, <1>8 DEF setRemoteRequest, TypeOK, remoteVars, clientVars, valueVars
<1>9. ASSUME NEW n \in Names, NEW c \in Callbacks, getRemoteDynamic(n, c) PROVE TypeOK'
  <2>1. get_requests_queue' \in [Names -> Seq(Callbacks)]
    BY <1>0, <1>9, Appended DEF getRemoteDynamic, TypeOK
  <2>2. asked' \in [Names -> Callbacks \cup {NoCallback}]
    BY <1>0, <1>9 DEF getRemoteDynamic, TypeOK
  <2>3. CASE clients[n] = NoPeer
    BY <1>0, <1>s, <1>9, <2>1, <2>2, <2>3
       DEF getRemoteDynamic, TypeOK, remoteVars, clientVars, valueVars
  <2>4. CASE clients[n] # NoPeer
    <3>1. clients[n] \in Peers /\ getRemoteParam(clients[n], c)
      BY <1>0, <1>9, <2>4 DEF getRemoteDynamic, TypeOK
    <3> QED
      BY <1>0, <1>s, <1>9, <2>1, <2>2, <3>1, RequestType
         DEF getRemoteDynamic, TypeOK, remoteVars, valueVars
  <2> QED
    BY <2>3, <2>4
<1>10. CASE setRemoteParam
  <2>1. value' \in [Peers -> Replies]
    <3>1. mtx.peer \in Peers
      BY <1>0, <1>10 DEF setRemoteParam, FreshInv
    <3>2. value[mtx.peer] \in 1..(MaxStores - 1) => value[mtx.peer] + 1 \in Replies
      BY StoresAssumption DEF Replies, NotAvailable
    <3>3. value \in [Peers -> Replies]
      BY <1>0 DEF TypeOK
    <3> QED
      BY <1>10, <3>1, <3>2, <3>3 DEF setRemoteParam
  <2> QED
    BY <1>0, <1>s, <1>10, <2>1 DEF setRemoteParam, TypeOK, Free, clientVars
<1>11. CASE ReadCommand
  <2>1. commands \in Seq(Commands) /\ commands # <<>>
    BY <1>0, <1>11 DEF ReadCommand, Receive, TypeOK, StreamTypeOK, Commands
  <2>2. Head(commands) \in Commands
    BY <2>1, HeadAndTail
  <2>3. NameOf[Head(commands).peer] \in Names
    BY <2>2, PeerNames DEF Commands
  <2> QED
    BY <1>0, <1>s, <1>11, <2>2, <2>3 DEF ReadCommand, TypeOK, clientVars, Commands, Codes, valueVars
<1>12. CASE add_client
  <2>1. CASE UNCHANGED clientVars
    BY <1>0, <1>s, <1>12, <2>1 DEF add_client, TypeOK, Free, remoteVars, clientVars, valueVars
  <2>2. CASE ~UNCHANGED clientVars
    <3> DEFINE queue == get_requests_queue[NameOf[mtx.peer]]
    <3>1. mtx.peer \in Peers /\ queue # <<>> /\ getRemoteParam(mtx.peer, Last(queue))
      BY <1>0, <1>12, <2>2 DEF add_client, FreshInv
    <3>2. queue \in Seq(Callbacks)
      BY <1>0, <3>1, PeerNames DEF TypeOK
    <3>3. Last(queue) \in Callbacks
      BY <3>1, <3>2 DEF Last
    <3> HIDE DEF queue
    <3>4. /\ slot' \in [Peers -> [made : BOOLEAN, cb : Callbacks \cup {NoCallback}, data : Replies]]
          /\ reader' \in [Peers -> {"none", "reading", "done"}]
          /\ \A q \in Peers : slot'[q].made <=> reader'[q] # "none"
      BY <1>0, <3>1, <3>3, RequestType
    <3> QED
      BY <1>0, <1>s, <1>12, <3>4 DEF add_client, TypeOK, Free, remoteVars, valueVars
  <2> QED
    BY <2>1, <2>2
<1>13. CASE delete_client
  BY <1>0, <1>s, <1>13 DEF delete_client, TypeOK, Free, remoteVars, clientVars, valueVars
<1>14. ASSUME NEW x \in running, CallBack(x) PROVE TypeOK'
  BY <1>0, <1>s, <1>14 DEF CallBack, TypeOK, remoteVars, clubVars, clientVars, valueVars
<1>15. CASE UNCHANGED vars
  BY <1>0, <1>s, <1>15 DEF vars, TypeOK, remoteVars, clubVars, clientVars, valueVars, nodeVars
<1> QED
  BY <1>1, <1>2, <1>3, <1>4, <1>5, <1>6, <1>7, <1>8, <1>9, <1>10, <1>11, <1>12, <1>13, <1>14,
     <1>15 DEF Next, Register, Reader
---------------------------------------------------------------------------
(* Clients and the commands that add them.                                 *)

\* What a step does to the slots: only a client that is known gets another.
LEMMA SlotStep ==
  ASSUME IndInv, Next
  PROVE  \A p \in Peers : \/ slot'[p] = slot[p] \/ slot[p].made
                          \/ (mtx.by # "ADD" \/ mtx' = Free) /\ \E n \in Names : clients[n] = p
<1>0. TypeOK /\ FreshInv
  BY DEF IndInv
<1>1. ASSUME NEW q \in Peers, Read(q)
      PROVE  \A p \in Peers : slot'[p] = slot[p] \/ slot[p].made
  BY <1>0, <1>1 DEF Read, TypeOK
<1>2. ASSUME NEW n \in Names, getRemoteRequest(n)
      PROVE  mtx.by # "ADD" /\ \A p \in Peers : slot'[p] = slot[p] \/ clients[n] = p
  BY <1>0, <1>2 DEF getRemoteRequest, getRemoteParam, TypeOK, Free
<1>3. ASSUME NEW n \in Names, NEW c \in Callbacks, getRemoteDynamic(n, c)
      PROVE  mtx.by # "ADD" /\ \A p \in Peers : slot'[p] = slot[p] \/ clients[n] = p
  BY <1>0, <1>3 DEF getRemoteDynamic, getRemoteParam, TypeOK, Free, clientVars
<1>4. CASE add_client
  <2>1. \A p \in Peers : slot'[p] = slot[p] \/ Adding(p)
    BY <1>0, <1>4 DEF add_client, getRemoteParam, TypeOK, clientVars, Adding
  <2>2. \A p \in Peers : Adding(p) => NameOf[p] \in Names /\ clients[NameOf[p]] = p
    BY <1>0, PeerNames DEF FreshInv
  <2> QED
    BY <1>4, <2>1, <2>2 DEF add_client
<1>5. CASE UNCHANGED slot
  BY <1>5
<1> QED
  BY <1>1, <1>2, <1>3, <1>4, <1>5 DEF Next, Register, Reader, Die, Store,
     WriteReply, ReadEnds, setRemoteRequest, setRemoteParam, ReadCommand, delete_client,
     CallBack, nodeVars, clientVars

\* A step that sends a command about q.
LEMMA CommandFresh ==
  ASSUME IndInv, NEW q \in Peers, NEW code \in Codes,
         commands' = Append(commands, [code |-> code, peer |-> q]),
         registered' = [registered EXCEPT ![q] = IF code = "ADD" THEN "live" ELSE "gone"],
         code = "ADD" => registered[q] = "claim",
         code = "DELETE" => registered[q] = "live",
         UNCHANGED <<process, clients, mtx, slot>>
  PROVE  FreshInv'
<1>1. /\ Len(commands) \in Nat /\ Len(commands') = Len(commands) + 1
      /\ \A i \in 1..Len(commands) : commands'[i] = commands[i]
      /\ commands'[Len(commands) + 1] = [code |-> code, peer |-> q]
  <2>1. commands \in Seq(Commands) /\ [code |-> code, peer |-> q] \in Commands
    BY DEF IndInv, TypeOK, StreamTypeOK, Commands
  <2> QED
    BY <2>1, Appended
<1>2. \A p \in Peers : \A i \in 1..Len(commands') :
        Adds(i, p)' <=> \/ i \in 1..Len(commands) /\ Adds(i, p)
                        \/ i = Len(commands) + 1 /\ code = "ADD" /\ p = q
  BY <1>1 DEF Adds
<1>3. \A p \in Peers : Pending(p)' <=> (Pending(p) \/ (code = "ADD" /\ p = q))
  <2>1. /\ \A i \in 1..Len(commands) : i \in 1..Len(commands')
        /\ Len(commands) + 1 \in 1..Len(commands')
    BY <1>1
  <2> QED
    BY <1>2, <2>1 DEF Pending
<1>4. \A p \in Peers : (Unknown(p)' <=> Unknown(p)) /\ (Adding(p)' <=> Adding(p))
  BY DEF Unknown, Adding
<1>5. FreshInv
  BY DEF IndInv
<1>6. ASSUME NEW p \in Peers, NEW i \in 1..Len(commands'), NEW j \in 1..Len(commands'),
             Adds(i, p)', Adds(j, p)'
      PROVE  i = j
  <2>1. code = "ADD" => ~Pending(q)
    BY <1>5 DEF FreshInv
  <2>2. \A k \in 1..Len(commands) : Adds(k, p) => Pending(p)
    BY DEF Pending
  <2> QED
    BY <1>2, <1>5, <1>6, <2>1, <2>2 DEF FreshInv
<1>7. \A p \in Peers : registered'[p] = IF p = q THEN (IF code = "ADD" THEN "live" ELSE "gone")
                                                ELSE registered[p]
  BY DEF IndInv, TypeOK, StreamTypeOK
<1>8. \A p \in Peers : process'[p] = "new" => registered'[p] = "none"
  BY <1>5, <1>7 DEF FreshInv, Codes
<1>9. /\ \A p \in Peers : registered'[p] \in {"none", "claim"} => Unknown(p)' /\ ~Pending(p)'
      /\ \A p \in Peers : Pending(p)' => Unknown(p)'
  BY <1>3, <1>4, <1>5, <1>7 DEF FreshInv
<1> QED
  BY <1>4, <1>5, <1>6, <1>8, <1>9 DEF FreshInv

\* What becomes of the peers to add when the first command is taken off.
LEMMA TailFresh ==
  ASSUME IndInv, commands # <<>>, commands' = Tail(commands)
  PROVE  /\ commands[1] \in Commands /\ commands[1] = Head(commands)
         /\ commands[1].code = "ADD" => Pending(commands[1].peer)
         /\ \A p \in Peers : Pending(p)' =>
              Pending(p) /\ ~(commands[1].code = "ADD" /\ commands[1].peer = p)
         /\ \A p \in Peers : \A i, j \in 1..Len(commands') : (Adds(i, p)' /\ Adds(j, p)') => i = j
<1> DEFINE h == commands[1]
<1>0. TypeOK /\ FreshInv
  BY DEF IndInv
<1>1. /\ h \in Commands /\ h = Head(commands)
      /\ Len(commands) \in Nat \ {0} /\ Len(commands') = Len(commands) - 1
      /\ \A i \in 1..Len(commands') : commands'[i] = commands[i + 1]
  <2>1. commands \in Seq(Commands)
    BY <1>0 DEF TypeOK, StreamTypeOK, Commands
  <2> QED
    BY <2>1, HeadAndTail
<1>2. \A p \in Peers : \A i \in 1..Len(commands') :
        i + 1 \in 1..Len(commands) /\ i + 1 # 1 /\ (Adds(i, p)' <=> Adds(i + 1, p))
  BY <1>1 DEF Adds
<1>3. 1 \in 1..Len(commands) /\ \A p \in Peers : Adds(1, p) <=> (h.code = "ADD" /\ h.peer = p)
  BY <1>1 DEF Adds
<1>4. \A p \in Peers : Pending(p)' => Pending(p) /\ ~(h.code = "ADD" /\ h.peer = p)
  BY <1>0, <1>2, <1>3 DEF Pending, FreshInv
<1>5. h.code = "ADD" => Pending(h.peer)
  BY <1>1, <1>3 DEF Pending, Commands
<1>6. ASSUME NEW p \in Peers, NEW i \in 1..Len(commands'), NEW j \in 1..Len(commands'),
             Adds(i, p)', Adds(j, p)'
      PROVE  i = j
  <2>1. i + 1 = j + 1
    BY <1>0, <1>2, <1>6 DEF FreshInv
  <2> QED
    BY <2>1
<1> QED
  BY <1>1, <1>4, <1>5, <1>6

\* A slot is lost or dropped.
LEMMA ListFresh ==
  ASSUME IndInv, list, UNCHANGED <<clients, mtx, slot>>
  PROVE  FreshInv'
<1>1. commands # <<>> /\ commands' = Tail(commands) /\ UNCHANGED <<process, registered>>
  BY DEF list
<1>2. /\ \A p \in Peers : Pending(p)' => Pending(p)
      /\ \A p \in Peers : \A i, j \in 1..Len(commands') : (Adds(i, p)' /\ Adds(j, p)') => i = j
  BY <1>1, TailFresh
<1>3. \A p \in Peers : (Unknown(p)' <=> Unknown(p)) /\ (Adding(p)' <=> Adding(p))
  BY DEF Unknown, Adding
<1> QED
  BY <1>1, <1>2, <1>3 DEF IndInv, FreshInv

\* The register thread takes a command: a peer that is added was unknown.
LEMMA ReadFresh ==
  ASSUME IndInv, ReadCommand
  PROVE  FreshInv'
<1> DEFINE h == commands[1]
           m == NameOf[h.peer]
<1>0. TypeOK /\ FreshInv
  BY DEF IndInv
<1>1. /\ h \in Commands /\ h = Head(commands)
      /\ h.code = "ADD" => Pending(h.peer)
      /\ \A p \in Peers : Pending(p)' => Pending(p) /\ ~(h.code = "ADD" /\ h.peer = p)
      /\ \A p \in Peers : \A i, j \in 1..Len(commands') : (Adds(i, p)' /\ Adds(j, p)') => i = j
  <2>1. commands # <<>> /\ commands' = Tail(commands)
    BY DEF ReadCommand, Receive
  <2> QED
    BY <2>1, TailFresh
<1>2. /\ clients' = [clients EXCEPT ![m] = IF h.code = "ADD" THEN h.peer ELSE NoPeer]
      /\ mtx' = [by |-> h.code, peer |-> h.peer, old |-> clients[m]]
      /\ UNCHANGED <<process, registered, slot>>
  BY <1>1 DEF ReadCommand, Receive, clientVars
<1>3. /\ m \in Names /\ NoPeer \notin Peers /\ DOMAIN clients = Names
      /\ h.peer \in Peers /\ h.code \in {"ADD", "DELETE"}
  <2>1. h.peer \in Peers /\ h.code \in {"ADD", "DELETE"}
    BY <1>1 DEF Commands, Codes
  <2>2. DOMAIN clients = Names
    BY <1>0 DEF TypeOK
  <2> HIDE DEF h
  <2> QED
    BY <2>1, <2>2, PeerNames
<1>7. h.code = "ADD" => Unknown(h.peer) /\ registered[h.peer] \notin {"none", "claim"}
  BY <1>0, <1>1, <1>3 DEF FreshInv
<1>8. \A p \in Peers : (Unknown(p) /\ ~(h.code = "ADD" /\ h.peer = p)) => Unknown(p)'
  BY <1>2, <1>3 DEF Unknown
<1>9. \A p \in Peers : process'[p] = "new" => registered'[p] = "none"
  BY <1>0, <1>2 DEF FreshInv
<1>10. \A p \in Peers : registered'[p] \in {"none", "claim"} => Unknown(p)' /\ ~Pending(p)'
  BY <1>0, <1>1, <1>2, <1>7, <1>8 DEF FreshInv
<1>11. \A p \in Peers : Pending(p)' => Unknown(p)'
  BY <1>0, <1>1, <1>8 DEF FreshInv
<1>12. \A n \in Names : clients'[n] # NoPeer => NameOf[clients'[n]] = n
  BY <1>0, <1>2, <1>3 DEF FreshInv
<1>13. \A p \in Peers : Adding(p)' => slot'[p] = NoSlot /\ clients'[NameOf[p]] = p
  BY <1>2, <1>3, <1>7 DEF Adding, Unknown
<1>14. mtx'.peer \in Peers
  BY <1>2, <1>3
<1> QED
  BY <1>1, <1>9, <1>10, <1>11, <1>12, <1>13, <1>14 DEF FreshInv

\* Every step keeps FreshInv.
LEMMA FreshInd ==
  ASSUME IndInv, [Next]_vars
  PROVE  FreshInv'
<1>0. TypeOK /\ FreshInv
  BY DEF IndInv
<1>1. ASSUME NEW q \in Peers, registration(q) \/ deregistration(q), UNCHANGED nodeVars
      PROVE  FreshInv'
  <2>1. UNCHANGED <<process, clients, mtx, slot>> /\ "ADD" \in Codes /\ "DELETE" \in Codes
    BY <1>1 DEF registration, deregistration, nodeVars, clubVars, clientVars, Codes
  <2>2. CASE registration(q)
    BY <2>1, <2>2, CommandFresh DEF registration
  <2>3. CASE deregistration(q)
    BY <2>1, <2>3, CommandFresh DEF deregistration
  <2> QED
    BY <1>1, <2>2, <2>3
<1>2. CASE ReadCommand
  BY <1>2, ReadFresh
\* Steps that leave the commands alone.
<1>3. ASSUME UNCHANGED <<commands, clients>>, Next \/ UNCHANGED vars,
             \A p \in Peers : process'[p] = "new" =>
                                process[p] = "new" /\ registered'[p] = registered[p],
             \A p \in Peers : \/ registered'[p] = registered[p]
                              \/ registered[p] = "none" /\ registered'[p] = "claim",
             UNCHANGED mtx \/ mtx' = Free \/ (mtx'.by = "set" /\ mtx'.peer \in Peers)
      PROVE  FreshInv'
  <2>1. \A p \in Peers : Pending(p)' <=> Pending(p)
    BY <1>3 DEF Pending, Adds
  <2>2. \A p \in Peers : Adding(p)' => mtx' = mtx /\ Adding(p)
    BY <1>3 DEF Adding, Free
  <2>3. \A p \in Peers : \/ slot'[p] = slot[p] \/ slot[p].made
                         \/ (mtx.by # "ADD" \/ mtx' = Free) /\ \E n \in Names : clients[n] = p
    BY <1>3, SlotStep DEF vars, nodeVars, clientVars
  <2>4. \A p \in Peers : Unknown(p) => Unknown(p)'
    BY <1>3, <2>3 DEF Unknown, NoSlot
  <2>5. \A p \in Peers : Adding(p)' => slot'[p] = NoSlot /\ clients'[NameOf[p]] = p
    <3>1. \A p \in Peers : Adding(p)' => slot[p] = NoSlot /\ clients[NameOf[p]] = p
      BY <1>0, <2>2 DEF FreshInv
    <3>2. \A p \in Peers : Adding(p)' => mtx' # Free /\ mtx.by = "ADD"
      BY <2>2 DEF Adding, Free
    <3>3. \A p \in Peers : Adding(p)' => ~slot[p].made
      BY <3>1 DEF NoSlot
    <3>4. \A p \in Peers : Adding(p)' => slot'[p] = slot[p]
      BY <2>3, <3>2, <3>3
    <3> QED
      BY <1>3, <3>1, <3>4
  <2>6. mtx'.by # "none" => mtx'.peer \in Peers
    BY <1>0, <1>3 DEF FreshInv, Free
  <2>7. \A p \in Peers : \A i, j \in 1..Len(commands') : (Adds(i, p)' /\ Adds(j, p)') => i = j
    BY <1>0, <1>3 DEF FreshInv, Adds
  <2>8. /\ \A p \in Peers : process'[p] = "new" => registered'[p] = "none"
        /\ \A p \in Peers : registered'[p] \in {"none", "claim"} => Unknown(p)' /\ ~Pending(p)'
        /\ \A p \in Peers : Pending(p)' => Unknown(p)'
    BY <1>0, <1>3, <2>1, <2>4 DEF FreshInv
  <2> QED
    BY <1>0, <1>3, <2>5, <2>6, <2>7, <2>8 DEF FreshInv
<1>s. UNCHANGED streamVars => UNCHANGED <<process, registered, commands>>
  BY DEF streamVars
<1>4. ASSUME NEW q \in Peers, Die(q) PROVE FreshInv'
  <2>1. UNCHANGED <<registered, commands, clients, mtx>>
    BY <1>4 DEF Die, nodeVars, clubVars
  <2>2. \A p \in Peers : process'[p] = "new" => process[p] = "new"
    BY <1>0, <1>4 DEF Die, TypeOK, StreamTypeOK
  <2> QED
    BY <1>3, <1>4, <2>1, <2>2 DEF Next
<1>10. ASSUME NEW q \in Peers, find_exist_node(q), UNCHANGED <<valueVars, nodeVars>> PROVE FreshInv'
  <2>1. UNCHANGED <<commands, clients, mtx>>
    BY <1>10 DEF find_exist_node, nodeVars, clubVars
  <2>2. /\ process[q] = "new" /\ registered[q] = "none"
        /\ \A p \in Peers : process'[p] = IF p = q THEN "up" ELSE process[p]
        /\ \A p \in Peers : registered'[p] = IF p = q THEN "claim" ELSE registered[p]
    BY <1>0, <1>10 DEF find_exist_node, FreshInv, TypeOK, StreamTypeOK
  <2>3. /\ \A p \in Peers : process'[p] = "new" =>
                              process[p] = "new" /\ registered'[p] = registered[p]
        /\ \A p \in Peers : \/ registered'[p] = registered[p]
                            \/ registered[p] = "none" /\ registered'[p] = "claim"
    BY <2>2
  <2>4. Next
    BY <1>10 DEF Next, StreamNext
  <2> QED
    BY <1>3, <2>1, <2>3, <2>4
<1>11. CASE StreamNext /\ UNCHANGED <<valueVars, nodeVars>>
  <2>1. UNCHANGED <<clients, mtx, slot, nodeVars>>
    BY <1>11 DEF nodeVars, clubVars, clientVars
  <2>2. CASE list
    BY <2>1, <2>2, ListFresh
  <2> QED
    BY <1>1, <1>10, <1>11, <2>1, <2>2 DEF StreamNext
<1>5. CASE UNCHANGED vars
  BY <1>3, <1>5, <1>s DEF vars, remoteVars, nodeVars, clubVars
<1>6. ASSUME NEW p \in Peers, Store(p) \/ WriteReply(p) \/ Reader(p) PROVE FreshInv'
  <2>1. UNCHANGED <<process, registered, commands, clients, mtx>>
    BY <1>6, <1>s DEF Store, WriteReply, Reader, Read, ReadEnds, remoteVars, clubVars, nodeVars
  <2> QED
    BY <1>3, <1>6, <2>1 DEF Next
<1>7. ASSUME NEW n \in Names,
             \/ getRemoteRequest(n) \/ setRemoteRequest(n)
             \/ \E c \in Callbacks : getRemoteDynamic(n, c)
      PROVE  FreshInv'
  <2>1. UNCHANGED <<process, registered, commands, clients>>
    BY <1>7, <1>s DEF getRemoteRequest, setRemoteRequest, getRemoteDynamic, remoteVars, clubVars
  <2>2. UNCHANGED mtx \/ (mtx'.by = "set" /\ mtx'.peer \in Peers)
    BY <1>0, <1>7 DEF getRemoteRequest, setRemoteRequest, getRemoteDynamic, clubVars, TypeOK
  <2> QED
    BY <1>3, <1>7, <2>1, <2>2 DEF Next
<1>8. CASE setRemoteParam \/ add_client \/ delete_client
  <2>1. UNCHANGED <<process, registered, commands, clients>> /\ mtx' = Free
    BY <1>8, <1>s DEF setRemoteParam, add_client, delete_client, remoteVars
  <2> QED
    BY <1>3, <1>8, <2>1 DEF Next, Register
<1>9. ASSUME NEW x \in running, CallBack(x) PROVE FreshInv'
  <2>1. UNCHANGED <<process, registered, commands, clients, mtx>>
    BY <1>9, <1>s DEF CallBack, remoteVars, clubVars
  <2> QED
    BY <1>3, <1>9, <2>1 DEF Next
<1> QED
  BY <1>2, <1>4, <1>5, <1>6, <1>7, <1>8, <1>9, <1>11 DEF Next, Register
---------------------------------------------------------------------------
(* The callback of a client.                                               *)

\* Every step keeps AskedInv; no callback is taken out of a queue, and one
\* that is put in was in none.
LEMMA AskedInd ==
  ASSUME IndInv, [Next]_vars
  PROVE  /\ AskedInv'
         /\ \A n \in Names, c \in Callbacks : Contains(get_requests_queue[n], c) =>
                                                Contains(get_requests_queue'[n], c)
<1>0. TypeOK /\ AskedInv
  BY DEF IndInv
<1>1. ASSUME NEW n \in Names, NEW c \in Callbacks, getRemoteDynamic(n, c)
      PROVE  /\ AskedInv'
             /\ \A m \in Names, d \in Callbacks : Contains(get_requests_queue[m], d) =>
                                                    Contains(get_requests_queue'[m], d)
  <2> DEFINE queue == get_requests_queue[n]
  <2>1. queue \in Seq(Callbacks)
    BY <1>0 DEF TypeOK
  <2>2. /\ get_requests_queue'[n] = Append(queue, c) /\ asked'[n] = c
        /\ \A m \in Names \ {n} : /\ get_requests_queue'[m] = get_requests_queue[m]
                                  /\ asked'[m] = asked[m]
    BY <1>0, <1>1 DEF getRemoteDynamic, TypeOK
  <2>3. /\ Append(queue, c) # <<>> /\ Last(Append(queue, c)) = c
        /\ \A d \in Callbacks : Contains(queue, d) => Contains(Append(queue, c), d)
    BY <2>1, Appended DEF Last, Contains
  <2> QED
    BY <1>0, <2>2, <2>3 DEF AskedInv
<1>2. CASE UNCHANGED <<asked, get_requests_queue>>
  BY <1>0, <1>2 DEF AskedInv
<1>3. [Next]_vars => \/ UNCHANGED <<asked, get_requests_queue>>
                     \/ \E n \in Names, c \in Callbacks : getRemoteDynamic(n, c)
  BY DEF Next, Register, Reader, Die, Store, WriteReply, Read, ReadEnds,
     getRemoteRequest, setRemoteRequest, setRemoteParam, ReadCommand, add_client,
     delete_client, CallBack, clubVars, nodeVars, vars
<1> QED
  BY <1>1, <1>2, <1>3

\* Every step keeps SlotInv.
LEMMA SlotInd ==
  ASSUME IndInv, [Next]_vars
  PROVE  SlotInv'
<1>0. TypeOK /\ FreshInv /\ AskedInv /\ SlotInv
  BY DEF IndInv
<1>1. TypeOK' /\ FreshInv' /\ AskedInv'
  BY TypeInd, FreshInd, AskedInd
<1>2. \A n \in Names, c \in Callbacks : Contains(get_requests_queue[n], c) =>
                                          Contains(get_requests_queue'[n], c)
  BY AskedInd
<1>3. \A p \in Peers : slot[p].cb # NoCallback => slot[p].cb \in Callbacks
  BY <1>0 DEF TypeOK
\* Callbacks stay in their queues.
<1>4. ASSUME NEW p \in Peers, slot'[p].cb = slot[p].cb, slot'[p].cb # NoCallback
      PROVE  \E n \in Names : Contains(get_requests_queue'[n], slot'[p].cb)
  BY <1>0, <1>2, <1>3, <1>4 DEF SlotInv
\* Steps that give no client another callback.
<1>5. ASSUME \A p \in Peers : slot'[p].cb = slot[p].cb,
             \A p \in Peers : ~slot'[p].made => slot'[p] = NoSlot,
             UNCHANGED asked,
             \A n \in Names : clients'[n] # NoPeer /\ ~Adding(clients[n])' =>
                                clients[n] = clients'[n] /\ ~Adding(clients[n])
      PROVE  SlotInv'
  <2>1. ASSUME NEW n \in Names, clients'[n] # NoPeer, asked'[n] # NoCallback,
               ~Adding(clients[n])'
        PROVE  slot'[clients'[n]].cb = asked'[n]
    <3>1. clients'[n] \in Peers
      BY <1>1, <2>1 DEF TypeOK
    <3> QED
      BY <1>0, <1>5, <2>1, <3>1 DEF SlotInv
  <2>2. \A p \in Peers : slot'[p].cb # NoCallback =>
                           \E n \in Names : Contains(get_requests_queue'[n], slot'[p].cb)
    BY <1>4, <1>5
  <2> QED
    BY <1>5, <2>1, <2>2 DEF SlotInv
<1>6. CASE UNCHANGED <<slot, asked, clients>> /\ (UNCHANGED mtx \/ mtx.by # "ADD")
  BY <1>0, <1>5, <1>6 DEF SlotInv, Adding
<1>7. ASSUME NEW q \in Peers, Read(q) PROVE SlotInv'
  <2>1. /\ slot' = [slot EXCEPT ![q].data = Head(stream[q])] /\ slot[q].made
        /\ UNCHANGED <<asked, clients, mtx>>
    BY <1>0, <1>7 DEF Read, TypeOK, clubVars
  <2>2. slot \in [Peers -> [made : BOOLEAN, cb : Callbacks \cup {NoCallback}, data : Replies]]
    BY <1>0 DEF TypeOK
  <2>3. /\ \A p \in Peers : slot'[p].cb = slot[p].cb
        /\ \A p \in Peers : slot'[p] = slot[p] \/ slot'[p].made
    BY <2>1, <2>2
  <2>4. \A p \in Peers : ~slot'[p].made => slot'[p] = NoSlot
    BY <1>0, <2>3 DEF SlotInv
  <2> QED
    BY <1>5, <2>1, <2>3, <2>4 DEF Adding
<1>8. CASE ReadCommand
  <2> DEFINE h == Head(commands)
             m == NameOf[h.peer]
  <2>1. /\ mtx = Free /\ mtx' = [by |-> h.code, peer |-> h.peer, old |-> clients[m]]
        /\ clients' = [clients EXCEPT ![m] = IF h.code = "ADD" THEN h.peer ELSE NoPeer]
        /\ UNCHANGED <<asked, slot>>
    BY <1>8 DEF ReadCommand, clientVars
  <2>2. \A n \in Names : clients'[n] # NoPeer /\ ~Adding(clients[n])' =>
                           clients[n] = clients'[n] /\ ~Adding(clients[n])
    BY <1>0, <2>1 DEF Adding, TypeOK, Free
  <2> QED
    BY <1>0, <1>5, <2>1, <2>2 DEF SlotInv
<1>9. ASSUME NEW n \in Names, getRemoteRequest(n) PROVE SlotInv'
  <2>1. /\ clients[n] \in Peers /\ getRemoteParam(clients[n], NoCallback)
        /\ UNCHANGED <<asked, clients, mtx>>
    BY <1>0, <1>9 DEF getRemoteRequest, TypeOK, clubVars
  <2>2. /\ \A q \in Peers \ {clients[n]} : slot'[q] = slot[q]
        /\ slot'[clients[n]] = slot[clients[n]] \/
             (~slot[clients[n]].made /\ slot'[clients[n]] = NewSlot(NoCallback))
    BY <1>0, <2>1, RequestType
  <2>3. NewSlot(NoCallback).made /\ NewSlot(NoCallback).cb = NoCallback /\ NoSlot.cb = NoCallback
    BY DEF NewSlot, NoSlot
  <2>4. /\ \A p \in Peers : slot'[p].cb = slot[p].cb
        /\ \A p \in Peers : ~slot'[p].made => slot'[p] = NoSlot
    BY <1>0, <2>2, <2>3 DEF SlotInv
  <2> QED
    BY <1>5, <2>1, <2>4 DEF Adding
<1>10. ASSUME NEW n \in Names, NEW c \in Callbacks, getRemoteDynamic(n, c) PROVE SlotInv'
  <2>1. /\ mtx = Free /\ UNCHANGED <<mtx, clients>> /\ asked'[n] = c
        /\ \A m \in Names \ {n} : asked'[m] = asked[m]
        /\ get_requests_queue'[n] = Append(get_requests_queue[n], c)
    BY <1>0, <1>10 DEF getRemoteDynamic, TypeOK
  <2>2. Contains(get_requests_queue'[n], c)
    <3>1. get_requests_queue[n] \in Seq(Callbacks)
      BY <1>0 DEF TypeOK
    <3>2. \A s \in Seq(Callbacks) : Contains(Append(s, c), c)
      BY Appended DEF Contains
    <3> QED
      BY <2>1, <3>1, <3>2
  <2>3. CASE clients[n] = NoPeer
    <3>1. UNCHANGED slot
      BY <1>10, <2>3 DEF getRemoteDynamic, clientVars
    <3>2. \A p \in Peers : slot'[p].cb # NoCallback =>
                             \E m \in Names : Contains(get_requests_queue'[m], slot'[p].cb)
      BY <1>4, <3>1
    <3>3. \A m \in Names : (clients[m] # NoPeer /\ asked'[m] # NoCallback) =>
                             slot[clients[m]].cb = asked'[m]
      BY <1>0, <2>1, <2>3 DEF SlotInv, Adding, Free
    <3> QED
      BY <1>0, <2>1, <3>1, <3>2, <3>3 DEF SlotInv
  <2>4. CASE clients[n] # NoPeer
    <3>1. clients[n] \in Peers /\ getRemoteParam(clients[n], c) /\ c # NoCallback
      BY <1>0, <1>10, <2>4, CallbacksAssumption DEF getRemoteDynamic, TypeOK
    <3>2. /\ \A q \in Peers \ {clients[n]} : slot'[q] = slot[q]
          /\ slot'[clients[n]] = NewSlot(c)
      BY <1>0, <3>1, RequestType
    <3>3. NewSlot(c).made /\ NewSlot(c).cb = c
      BY DEF NewSlot
    <3>4. \A p \in Peers : slot'[p].cb # NoCallback =>
                             \E m \in Names : Contains(get_requests_queue'[m], slot'[p].cb)
      BY <1>4, <2>2, <3>2, <3>3
    <3>5. \A m \in Names : clients[m] = clients[n] => m = n
      BY <1>0, <2>4 DEF FreshInv
    <3>6. \A m \in Names : (clients[m] # NoPeer /\ asked'[m] # NoCallback) =>
                             slot'[clients[m]].cb = asked'[m]
      <4>1. \A m \in Names : clients[m] # NoPeer => clients[m] \in Peers
        BY <1>0 DEF TypeOK
      <4>2. \A m \in Names \ {n} : (clients[m] # NoPeer /\ asked[m] # NoCallback) =>
                                     slot[clients[m]].cb = asked[m]
        BY <1>0, <2>1 DEF SlotInv, Adding, Free
      <4> QED
        BY <2>1, <3>2, <3>3, <3>5, <4>1, <4>2
    <3> QED
      BY <1>0, <2>1, <3>2, <3>3, <3>4, <3>6 DEF SlotInv
  <2> QED
    BY <2>3, <2>4
<1>11. CASE add_client
  <2> DEFINE p == mtx.peer
             n == NameOf[p]
             queue == get_requests_queue[n]
  <2>1. /\ p \in Peers /\ n \in Names /\ Adding(p) /\ clients[n] = p /\ slot[p] = NoSlot
        /\ \A m \in Names : clients[m] = p => m = n
    BY <1>0, <1>11, PeerNames DEF add_client, FreshInv, Adding
  <2>2. UNCHANGED <<asked, clients, get_requests_queue>> /\ mtx.by = "ADD"
    BY <1>11 DEF add_client
  <2>3. \A m \in Names \ {n} : (clients[m] # NoPeer /\ asked[m] # NoCallback) =>
                                 slot[clients[m]].cb = asked[m] /\ clients[m] \in Peers \ {p}
    <3>1. \A m \in Names \ {n} : clients[m] # NoPeer => clients[m] \in Peers \ {p}
      BY <1>0, <2>1 DEF TypeOK
    <3> QED
      BY <1>0, <3>1 DEF SlotInv, Adding
  <2>4. CASE queue = <<>>
    <3>1. UNCHANGED slot /\ asked[n] = NoCallback
      BY <1>0, <1>11, <2>1, <2>4 DEF add_client, AskedInv, clientVars
    <3>2. \A q \in Peers : slot'[q].cb # NoCallback =>
                             \E m \in Names : Contains(get_requests_queue'[m], slot'[q].cb)
      BY <1>4, <3>1
    <3> QED
      BY <1>0, <2>2, <2>3, <3>1, <3>2 DEF SlotInv
  <2>5. CASE queue # <<>>
    <3>1. queue \in Seq(Callbacks)
      BY <1>0, <2>1 DEF TypeOK
    <3>2. Last(queue) \in Callbacks /\ Contains(queue, Last(queue))
      BY <2>5, <3>1 DEF Last, Contains
    <3>3. getRemoteParam(p, Last(queue)) /\ asked[n] = Last(queue)
      BY <1>0, <1>11, <2>1, <2>5 DEF add_client, AskedInv
    <3> HIDE DEF queue
    <3>4. /\ \A q \in Peers \ {p} : slot'[q] = slot[q]
          /\ slot'[p] = NewSlot(Last(queue))
      BY <1>0, <2>1, <3>2, <3>3, RequestType, CallbacksAssumption
    <3>5. NewSlot(Last(queue)).made /\ NewSlot(Last(queue)).cb = Last(queue)
      BY DEF NewSlot
    <3>6. \A q \in Peers : slot'[q].cb # NoCallback =>
                             \E m \in Names : Contains(get_requests_queue'[m], slot'[q].cb)
      BY <1>4, <2>1, <2>2, <3>2, <3>4, <3>5 DEF queue
    <3>7. \A m \in Names : (clients[m] # NoPeer /\ asked[m] # NoCallback) =>
                             slot'[clients[m]].cb = asked[m]
      BY <2>1, <2>3, <3>3, <3>4, <3>5
    <3> QED
      BY <1>0, <2>2, <3>4, <3>5, <3>6, <3>7 DEF SlotInv
  <2> QED
    BY <2>4, <2>5
<1>12. \/ UNCHANGED <<slot, asked, clients>> /\ (UNCHANGED mtx \/ mtx.by # "ADD")
       \/ \E q \in Peers : Read(q)
       \/ ReadCommand \/ add_client
       \/ \E n \in Names : getRemoteRequest(n) \/ \E c \in Callbacks : getRemoteDynamic(n, c)
  <2>1. ASSUME NEW p \in Peers,
               Die(p) \/ Store(p) \/ WriteReply(p) \/ ReadEnds(p)
        PROVE  UNCHANGED <<slot, asked, clients, mtx>>
    BY <2>1 DEF Die, Store, WriteReply, ReadEnds, nodeVars, clubVars, clientVars
  <2>2. ASSUME NEW n \in Names, setRemoteRequest(n)
        PROVE  UNCHANGED <<slot, asked, clients>> /\ mtx.by # "ADD"
    BY <2>2 DEF setRemoteRequest, clientVars, Free
  <2>3. ASSUME setRemoteParam \/ delete_client
        PROVE  UNCHANGED <<slot, asked, clients>> /\ mtx.by # "ADD"
    BY <2>3 DEF setRemoteParam, delete_client, clientVars
  <2>4. ASSUME UNCHANGED vars \/ UNCHANGED <<valueVars, nodeVars>> \/ \E x \in running : CallBack(x)
        PROVE  UNCHANGED <<slot, asked, clients, mtx>>
    BY <2>4 DEF CallBack, vars, nodeVars, clubVars, clientVars
  <2> QED
    BY <2>1, <2>2, <2>3, <2>4 DEF Next, Register, Reader
<1> QED
  BY <1>6, <1>7, <1>8, <1>9, <1>10, <1>11, <1>12
---------------------------------------------------------------------------
(* The data of a slot.                                                     *)

\* Requests empty a slot or leave its data; no other step of a user or of
\* the register thread changes it.
LEMMA DataStep ==
  ASSUME IndInv, [Next]_vars
  PROVE  \/ \E p \in Peers : Read(p)
         \/ /\ \A p \in Peers : slot'[p].data \in {slot[p].data, NotAvailable}
            /\ \A p \in Peers : \/ slot'[p].data = slot[p].data
                                \/ slot[p].data = NotAvailable
                                \/ slot'[p].cb # slot[p].cb
<1>0. TypeOK /\ FreshInv /\ SlotInv
  BY DEF IndInv
<1>1. NoSlot.data = NotAvailable /\ \A c : NewSlot(c).data = NotAvailable /\ NewSlot(c).cb = c
  BY DEF NoSlot, NewSlot
<1> DEFINE Kept(p) == /\ slot'[p].data \in {slot[p].data, NotAvailable}
                      /\ \/ slot'[p].data = slot[p].data
                         \/ slot[p].data = NotAvailable
                         \/ slot'[p].cb # slot[p].cb
<1>2. ASSUME NEW n \in Names, getRemoteRequest(n), NEW p \in Peers PROVE Kept(p)
  <2>1. clients[n] \in Peers /\ getRemoteParam(clients[n], NoCallback)
    BY <1>0, <1>2 DEF getRemoteRequest, TypeOK
  <2>2. \/ slot'[p] = slot[p]
        \/ ~slot[p].made /\ slot'[p] = NewSlot(NoCallback)
    BY <1>0, <2>1, RequestType
  <2> QED
    BY <1>0, <1>1, <2>2 DEF SlotInv
<1>3. ASSUME NEW n \in Names, NEW c \in Callbacks, getRemoteDynamic(n, c), NEW p \in Peers
      PROVE  Kept(p)
  <2>1. CASE clients[n] = NoPeer
    BY <1>3, <2>1 DEF getRemoteDynamic, clientVars
  <2>2. CASE clients[n] # NoPeer
    <3>1. clients[n] \in Peers /\ getRemoteParam(clients[n], c) /\ c # NoCallback
      BY <1>0, <1>3, <2>2, CallbacksAssumption DEF getRemoteDynamic, TypeOK
    <3>2. slot'[p] = slot[p] \/ slot'[p] = NewSlot(c)
      BY <1>0, <3>1, RequestType
    <3>3. slot[p].cb # c
      <4>1. \A m \in Names : ~Contains(get_requests_queue[m], c)
        BY <1>3 DEF getRemoteDynamic
      <4> QED
        BY <1>0, <3>1, <4>1 DEF SlotInv
    <3> QED
      BY <1>1, <3>2, <3>3
  <2> QED
    BY <2>1, <2>2
<1>4. ASSUME add_client, NEW p \in Peers PROVE Kept(p)
  <2> DEFINE queue == get_requests_queue[NameOf[mtx.peer]]
  <2>1. CASE queue = <<>>
    BY <1>4, <2>1 DEF add_client, clientVars
  <2>2. CASE queue # <<>>
    <3>1. mtx.peer \in Peers /\ slot[mtx.peer] = NoSlot
      BY <1>0, <1>4 DEF add_client, FreshInv, Adding
    <3>2. slot'[p] = slot[p] \/ (p = mtx.peer /\ slot'[p].data = NotAvailable)
      <4>1. queue \in Seq(Callbacks)
        BY <1>0, <3>1, PeerNames DEF TypeOK
      <4>2. Last(queue) \in Callbacks
        BY <2>2, <4>1 DEF Last
      <4>3. getRemoteParam(mtx.peer, Last(queue))
        BY <1>4, <2>2 DEF add_client
      <4> HIDE DEF queue
      <4> QED
        BY <1>0, <1>1, <3>1, <4>2, <4>3, RequestType, CallbacksAssumption
    <3> QED
      BY <1>1, <3>1, <3>2
  <2> QED
    BY <2>1, <2>2
<1>5. \/ UNCHANGED slot \/ add_client
      \/ \E q \in Peers : Read(q)
      \/ \E n \in Names : getRemoteRequest(n) \/ \E c \in Callbacks : getRemoteDynamic(n, c)
  <2>1. ASSUME NEW p \in Peers,
               Die(p) \/ Store(p) \/ WriteReply(p) \/ ReadEnds(p)
        PROVE  UNCHANGED slot
    BY <2>1 DEF Die, Store, WriteReply, ReadEnds, nodeVars, clientVars
  <2>2. ASSUME \/ \E n \in Names : setRemoteRequest(n)
               \/ setRemoteParam \/ ReadCommand \/ delete_client
        PROVE  UNCHANGED slot
    BY <2>2 DEF setRemoteRequest, setRemoteParam, ReadCommand, delete_client, clientVars
  <2>3. ASSUME UNCHANGED vars \/ UNCHANGED <<valueVars, nodeVars>> \/ \E x \in running : CallBack(x)
        PROVE  UNCHANGED slot
    BY <2>3 DEF CallBack, vars, nodeVars, clientVars
  <2> QED
    BY <2>1, <2>2, <2>3 DEF Next, Register, Reader
<1>6. CASE UNCHANGED slot
  BY <1>6
<1> QED
  BY <1>2, <1>3, <1>4, <1>5, <1>6

\* Every step keeps StreamInv.
LEMMA StreamInd ==
  ASSUME IndInv, [Next]_vars
  PROVE  StreamInv'
<1>0. TypeOK /\ FreshInv /\ StreamInv
  BY DEF IndInv
<1>1. \A p \in Peers : /\ slot[p].data \in Nat /\ value[p] \in Nat
                       /\ stream[p] \in Seq(Replies) /\ Len(stream[p]) \in Nat
                       /\ \A i \in 1..Len(stream[p]) : stream[p][i] \in Nat
  <2>1. \A p \in Peers : slot[p].data \in Replies /\ value[p] \in Replies
                         /\ stream[p] \in Seq(Replies)
    BY <1>0 DEF TypeOK
  <2>2. \A s \in Seq(Replies) : Len(s) \in Nat /\ \A i \in 1..Len(s) : s[i] \in Replies
    OBVIOUS
  <2> QED
    BY <2>1, <2>2, Constants
<1>2. CASE \E q \in Peers : Read(q)
  <2>1. PICK q \in Peers : Read(q)
    BY <1>2
  <2>2. /\ slot'[q].data = Head(stream[q]) /\ stream'[q] = Tail(stream[q])
        /\ \A p \in Peers \ {q} : slot'[p] = slot[p] /\ stream'[p] = stream[p]
        /\ value' = value /\ stream[q] # <<>>
    BY <1>0, <2>1 DEF Read, TypeOK
  <2>3. /\ Head(stream[q]) = stream[q][1] /\ Len(stream[q]) \in Nat \ {0}
        /\ Len(stream'[q]) = Len(stream[q]) - 1
        /\ \A i \in 1..Len(stream'[q]) : stream'[q][i] = stream[q][i + 1]
    BY <1>1, <2>2, HeadAndTail
  <2>4. /\ 1 \in 1..Len(stream[q])
        /\ \A i \in 1..Len(stream'[q]) : i + 1 \in 1..Len(stream[q]) /\ 1 < i + 1
        /\ \A i, j \in 1..Len(stream'[q]) : i < j => i + 1 < j + 1
    BY <2>3
  <2>5. ASSUME NEW p \in Peers
        PROVE  /\ slot'[p].data <= value'[p]
               /\ \A i \in 1..Len(stream'[p]) :
                    slot'[p].data <= stream'[p][i] /\ stream'[p][i] <= value'[p]
               /\ \A i, j \in 1..Len(stream'[p]) : i < j => stream'[p][i] <= stream'[p][j]
    <3>1. CASE p = q
      <4>1. /\ \A i \in 1..Len(stream[q]) : stream[q][i] <= value[q]
            /\ \A i, j \in 1..Len(stream[q]) : i < j => stream[q][i] <= stream[q][j]
        BY <1>0 DEF StreamInv
      <4>2. \A i \in 1..Len(stream'[q]) : stream'[q][i] <= value[q]
        BY <2>3, <2>4, <4>1
      <4>3. \A i \in 1..Len(stream'[q]) : stream[q][1] <= stream'[q][i]
        BY <2>3, <2>4, <4>1
      <4>4. \A i, j \in 1..Len(stream'[q]) : i < j => stream'[q][i] <= stream'[q][j]
        BY <2>3, <2>4, <4>1
      <4>5. stream[q][1] <= value[q]
        BY <2>4, <4>1
      <4> QED
        BY <2>2, <2>3, <3>1, <4>2, <4>3, <4>4, <4>5
    <3>2. CASE p # q
      BY <1>0, <2>2, <3>2 DEF StreamInv
    <3> QED
      BY <3>1, <3>2
  <2> QED
    BY <2>5 DEF StreamInv
<1>3. ASSUME UNCHANGED stream, \A p \in Peers : value'[p] \in Nat /\ value'[p] >= value[p],
             \A p \in Peers : slot'[p].data \in {slot[p].data, NotAvailable}
      PROVE  StreamInv'
  BY <1>0, <1>1, <1>3 DEF StreamInv, NotAvailable
<1>4. ASSUME NEW q \in Peers, Die(q) PROVE StreamInv'
  <2>1. PICK k \in 0..Len(stream[q]) : stream' = [stream EXCEPT ![q] = SubSeq(@, 1, k)]
    BY <1>4 DEF Die
  <2>2. /\ stream'[q] = SubSeq(stream[q], 1, k) /\ UNCHANGED <<slot, value>>
        /\ \A p \in Peers \ {q} : stream'[p] = stream[p]
    BY <1>0, <1>4, <2>1 DEF Die, TypeOK, nodeVars, clientVars
  <2>3. /\ Len(stream'[q]) = k
        /\ \A i \in 1..k : i \in 1..Len(stream[q]) /\ stream'[q][i] = stream[q][i]
    BY <1>1, <2>2, Prefix
  <2> QED
    BY <1>0, <2>2, <2>3 DEF StreamInv
<1>5. ASSUME NEW q \in Peers, WriteReply(q) PROVE StreamInv'
  <2>1. /\ stream'[q] = Append(stream[q], value[q]) /\ UNCHANGED <<slot, value>>
        /\ \A p \in Peers \ {q} : stream'[p] = stream[p]
    BY <1>0, <1>5 DEF WriteReply, TypeOK, nodeVars, clientVars
  <2>2. value[q] \in Replies
    BY <1>0 DEF TypeOK
  <2>3. /\ Len(stream'[q]) = Len(stream[q]) + 1 /\ Len(stream[q]) \in Nat
        /\ \A i \in 1..Len(stream[q]) : stream'[q][i] = stream[q][i]
        /\ stream'[q][Len(stream[q]) + 1] = value[q]
    BY <1>1, <2>1, <2>2, Appended
  <2>4. /\ \A i \in 1..Len(stream'[q]) : i \in 1..Len(stream[q]) \/ i = Len(stream[q]) + 1
        /\ \A i, j \in 1..Len(stream'[q]) : i < j => i \in 1..Len(stream[q])
    BY <2>3
  <2>5. /\ \A i \in 1..Len(stream'[q]) : slot[q].data <= stream'[q][i] /\ stream'[q][i] <= value[q]
        /\ \A i, j \in 1..Len(stream'[q]) : i < j => stream'[q][i] <= stream'[q][j]
    <3>1. /\ \A i \in 1..Len(stream[q]) : slot[q].data <= stream[q][i] /\ stream[q][i] <= value[q]
          /\ \A i, j \in 1..Len(stream[q]) : i < j => stream[q][i] <= stream[q][j]
          /\ slot[q].data <= value[q] /\ value[q] <= value[q]
      BY <1>0, <1>1 DEF StreamInv
    <3>2. \A i \in 1..Len(stream'[q]) : slot[q].data <= stream'[q][i] /\ stream'[q][i] <= value[q]
      BY <2>3, <2>4, <3>1
    <3>3. ASSUME NEW i \in 1..Len(stream'[q]), NEW j \in 1..Len(stream'[q]), i < j
          PROVE  stream'[q][i] <= stream'[q][j]
      <4>1. i \in 1..Len(stream[q]) /\ (j \in 1..Len(stream[q]) \/ j = Len(stream[q]) + 1)
        BY <2>4, <3>3
      <4> QED
        BY <2>3, <3>1, <3>3, <4>1
    <3> QED
      BY <3>2, <3>3
  <2> QED
    BY <1>0, <2>1, <2>5 DEF StreamInv
<1>6. /\ UNCHANGED stream \/ \E q \in Peers : Read(q) \/ Die(q) \/ WriteReply(q)
      /\ \A p \in Peers : value'[p] \in Nat /\ value'[p] >= value[p]
  <2>1. ASSUME UNCHANGED value
        PROVE  \A p \in Peers : value'[p] \in Nat /\ value'[p] >= value[p]
    BY <1>1, <2>1
  <2>2. ASSUME UNCHANGED <<valueVars, nodeVars>> \/ \E p \in Peers : ReadEnds(p)
        PROVE  UNCHANGED <<stream, value>>
    BY <2>2 DEF ReadEnds, remoteVars, valueVars
  <2>3. ASSUME NEW p \in Peers, Die(p) \/ WriteReply(p) \/ Read(p)
        PROVE  UNCHANGED value
    BY <2>3 DEF Die, WriteReply, Read
  <2>4. ASSUME NEW q \in Peers, Store(q)
        PROVE  UNCHANGED stream /\ \A p \in Peers : value'[p] \in Nat /\ value'[p] >= value[p]
    BY <1>0, <1>1, <2>4 DEF Store, TypeOK
  <2>5. ASSUME setRemoteParam
        PROVE  UNCHANGED stream /\ \A p \in Peers : value'[p] \in Nat /\ value'[p] >= value[p]
    <3>1. mtx.peer \in Peers
      BY <1>0, <2>5 DEF setRemoteParam, FreshInv
    <3>2. UNCHANGED value \/ value' = [value EXCEPT ![mtx.peer] = value[mtx.peer] + 1]
      BY <2>5 DEF setRemoteParam
    <3>3. DOMAIN value = Peers
      BY <1>0 DEF TypeOK
    <3>4. \A p \in Peers : value'[p] = value[p] \/ value'[p] = value[p] + 1
      BY <3>1, <3>2, <3>3
    <3> QED
      BY <1>1, <2>5, <3>4 DEF setRemoteParam
  <2>6. ASSUME \/ \E n \in Names : \/ getRemoteRequest(n) \/ setRemoteRequest(n)
                                   \/ \E c \in Callbacks : getRemoteDynamic(n, c)
               \/ Register \/ UNCHANGED vars \/ \E x \in running : CallBack(x)
        PROVE  UNCHANGED <<stream, value>>
    BY <2>6 DEF getRemoteRequest, setRemoteRequest, getRemoteDynamic, Register, ReadCommand,
       add_client, delete_client, CallBack, vars, remoteVars, valueVars
  <2> QED
    BY <2>1, <2>2, <2>3, <2>4, <2>5, <2>6 DEF Next, Reader
<1> QED
  BY <1>2, <1>3, <1>4, <1>5, <1>6, DataStep
---------------------------------------------------------------------------
\* IndInv holds in every state.
LEMMA SpecInd == Spec => []IndInv
<1>1. Init => IndInv
  BY InitInd
<1>2. IndInv /\ [Next]_vars => IndInv'
  BY TypeInd, FreshInd, AskedInd, SlotInd, StreamInd DEF IndInv
<1> QED
  BY <1>1, <1>2, PTL DEF Spec

(***************************************************************************)
(* Whoever came first, the user with a callback or the remote node, and    *)
(* however often that node restarts: when add_client and getRemoteRequest  *)
(* (ParamRPC.cpp, ParamRPC.hpp) are done, the client of the node has the   *)
(* callback the user has asked for last.                                   *)
(***************************************************************************)
THEOREM LastCallbackIsInstalled == Spec => []LastCallbackInstalled
<1>1. IndInv => LastCallbackInstalled
  <2> SUFFICES ASSUME IndInv, mtx.by \in {"none", "set"}, NEW n \in Names,
                      clients[n] # NoPeer, asked[n] # NoCallback
               PROVE  slot[clients[n]].cb = asked[n]
    BY DEF LastCallbackInstalled, IndInv
  <2>1. ~Adding(clients[n])
    BY DEF Adding
  <2> QED
    BY <2>1 DEF IndInv, SlotInv
<1> QED
  BY <1>1, SpecInd, PTL

(***************************************************************************)
(* The answers of one client never become older: the reader of a client    *)
(* (ParamRPCClient::write_thread) stores replies in the order of the       *)
(* remote stores, and only a request with a new callback empties a slot.   *)
(***************************************************************************)
THEOREM AnswersDoNotGoBack == Spec => AnswersNeverGoBack
<1> DEFINE Forward == \A p \in Peers :
                        \/ slot'[p].data >= slot[p].data
                        \/ slot'[p].data = NotAvailable /\ slot'[p].cb # slot[p].cb
<1>1. IndInv /\ [Next]_vars => Forward
  <2> SUFFICES ASSUME IndInv, [Next]_vars, NEW p \in Peers
               PROVE  \/ slot'[p].data >= slot[p].data
                      \/ slot'[p].data = NotAvailable /\ slot'[p].cb # slot[p].cb
    OBVIOUS
  <2>1. slot[p].data \in Nat
    <3>1. slot[p].data \in Replies
      BY DEF IndInv, TypeOK
    <3> QED
      BY <3>1, Constants
  <2>2. ASSUME NEW q \in Peers, Read(q) PROVE slot'[p].data >= slot[p].data
    <3>1. CASE p = q
      <4>1. slot'[p].data = Head(stream[p]) /\ stream[p] # <<>> /\ stream[p] \in Seq(Replies)
        BY <2>2, <3>1 DEF Read, IndInv, TypeOK
      <4>2. Head(stream[p]) = stream[p][1] /\ 1 \in 1..Len(stream[p]) /\ stream[p][1] \in Replies
        BY <4>1
      <4>3. stream[p][1] \in Nat /\ slot[p].data <= stream[p][1]
        BY <4>2, Constants DEF IndInv, StreamInv
      <4> QED
        BY <2>1, <4>1, <4>2, <4>3
    <3>2. CASE p # q
      BY <2>1, <2>2, <3>2 DEF Read, IndInv, TypeOK
    <3> QED
      BY <3>1, <3>2
  <2> QED
    BY <2>1, <2>2, DataStep DEF NotAvailable
<1>2. IndInv /\ [Next]_vars => [Forward]_vars
  BY <1>1
<1>3. AnswersNeverGoBack <=> [][Forward]_vars
  BY DEF AnswersNeverGoBack
<1> HIDE DEF Forward
<1> QED
  BY <1>2, <1>3, SpecInd, PTL DEF Spec
=============================================================================
