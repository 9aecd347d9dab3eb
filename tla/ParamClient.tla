---------------------------- MODULE ParamClient ----------------------------
(***************************************************************************)
(* The other side of a remote parameter: a node's ParamRPCClientClub with  *)
(* a ParamRPCClient per remote node (cpp/include/ParamRPC.hpp,             *)
(* cpp/src/ParamRPC.cpp), one parameter in each remote node.               *)
(*                                                                         *)
(* A peer is one process of a remote node; a restarted node is a second    *)
(* peer of the same name.  Threads of the node: its users, the register    *)
(* thread, which adds and deletes clients, one reader per client and a     *)
(* detached thread per callback.  Users and register thread hold the       *)
(* club's mtx over a whole call, so a call is one step where nothing in it *)
(* waits: it waits in the set RPC and in the joins of ~ParamRPCClient.     *)
(*                                                                         *)
(* The commands come from RegistStream, with what its stream may lose.     *)
(* The remote side is ParamServer as its streams show it: a reply carries  *)
(* the value at the time it is written, an update may be skipped.  A value *)
(* is the number of stores that led to it, and 0 is the answer             *)
(* TMEP_NOT_AVALIABLE.                                                     *)
(***************************************************************************)
EXTENDS RegistStream, SequencesExt

CONSTANTS
  Callbacks,  \* the callbacks of the calls of getRemoteDynamicParameter
  NoCallback, \* the slot is a plain ParamSlot
  MaxStores   \* bound: stores to the parameter of one peer

ASSUME CallbacksAssumption == NoCallback \notin Callbacks
ASSUME StoresAssumption == MaxStores \in Nat \ {0}

VARIABLES
  value,     \* the parameter of each peer, 0 before it is declared
  sent,      \* the last reply each peer has written, -1 before the first
  stream,    \* replies written and not read
  mtx,       \* who holds the club's mtx at a point where it waits
  clients,   \* ParamRPCClientClub::clients, a peer for each name
  get_requests_queue, \* the callbacks queued under each name
  asked,     \* the last callback the user has asked for under each name
  slot,      \* get_replies of each client: callback and data
  reader,    \* the thread in write_thread of each client
  running,   \* detached callback threads not yet run
  called     \* callbacks made

valueVars == <<value, sent, stream>>
remoteVars == <<streamVars, valueVars>>
clubVars == <<mtx, clients, get_requests_queue, asked>>
clientVars == <<slot, reader>>
nodeVars == <<clubVars, clientVars, running, called>>
vars == <<remoteVars, nodeVars>>

NotAvailable == 0
Replies == NotAvailable..MaxStores
Calls == Callbacks \X Peers \X (1..MaxStores)
Free == [by |-> "none", peer |-> NoPeer, old |-> NoPeer]
\* A client's get_replies before the first request, and a slot just made.
NoSlot == [made |-> FALSE, cb |-> NoCallback, data |-> NotAvailable]
NewSlot(c) == [made |-> TRUE, cb |-> c, data |-> NotAvailable]
---------------------------------------------------------------------------
Init ==
  /\ StreamInit
  /\ value = [p \in Peers |-> 0]
  /\ sent = [p \in Peers |-> -1]
  /\ stream = [p \in Peers |-> <<>>]
  /\ mtx = Free
  /\ clients = [n \in Names |-> NoPeer]
  /\ get_requests_queue = [n \in Names |-> <<>>]
  /\ asked = [n \in Names |-> NoCallback]
  /\ slot = [p \in Peers |-> NoSlot]
  /\ reader = [p \in Peers |-> "none"]
  /\ running = {} /\ called = {}

\* The process of p ends; some of what it has written may not arrive.
Die(p) ==
  /\ Running(p)
  /\ process' = [process EXCEPT ![p] = "dead"]
  /\ \E k \in 0..Len(stream[p]) : stream' = [stream EXCEPT ![p] = SubSeq(@, 1, k)]
  /\ UNCHANGED <<registered, alive_nodes, commands, skip_version, confused>>
  /\ UNCHANGED <<value, sent, nodeVars>>

\* declare, and later set, by the remote node itself.
Store(p) ==
  /\ Running(p) /\ value[p] < MaxStores
  /\ value' = [value EXCEPT ![p] = @ + 1]
  /\ UNCHANGED <<streamVars, sent, stream, nodeVars>>

\* ParamRPCServerImpl::getRemoteParam writes the value there is.
WriteReply(p) ==
  /\ Running(p) /\ reader[p] = "reading" /\ sent[p] # value[p]
  /\ sent' = [sent EXCEPT ![p] = value[p]]
  /\ stream' = [stream EXCEPT ![p] = Append(@, value[p])]
  /\ UNCHANGED <<streamVars, value, nodeVars>>
---------------------------------------------------------------------------
(* ParamRPCClient::getRemoteParam, with a callback or without.  The first  *)
(* request of a client makes the slot and starts the reader; a later one   *)
(* with a callback puts a new, empty slot in the place of the old one.     *)

getRemoteParam(p, c) ==
  /\ slot' = [slot EXCEPT ![p] = IF @.made /\ c = NoCallback THEN @ ELSE NewSlot(c)]
  /\ reader' = [reader EXCEPT ![p] = IF slot[p].made THEN @ ELSE "reading"]

\* getRemoteRequest(name, reply, namespace_).
getRemoteRequest(n) ==
  /\ mtx = Free
  /\ clients[n] # NoPeer  \* otherwise TMEP_NOT_AVALIABLE and no effect
  /\ getRemoteParam(clients[n], NoCallback)
  /\ UNCHANGED <<remoteVars, clubVars, running, called>>

\* getRemoteRequest(name, cb, namespace_): queued for later clients in any case.
getRemoteDynamic(n, c) ==
  /\ mtx = Free
  /\ \A m \in Names : ~Contains(get_requests_queue[m], c)
  /\ asked' = [asked EXCEPT ![n] = c]
  /\ get_requests_queue' = [get_requests_queue EXCEPT ![n] = Append(@, c)]
  /\ IF clients[n] = NoPeer THEN UNCHANGED clientVars
                            ELSE getRemoteParam(clients[n], c)
  /\ UNCHANGED <<remoteVars, mtx, clients, running, called>>

(* setRemoteRequest holds mtx until the RPC has an answer or has failed.   *)
setRemoteRequest(n) ==
  /\ mtx = Free /\ clients[n] # NoPeer
  /\ mtx' = [by |-> "set", peer |-> clients[n], old |-> NoPeer]
  /\ UNCHANGED <<remoteVars, clients, get_requests_queue, asked, clientVars, running, called>>

setRemoteParam ==
  /\ mtx.by = "set"
  /\ \/ /\ Running(mtx.peer) /\ value[mtx.peer] \in 1..(MaxStores - 1)
        /\ value' = [value EXCEPT ![mtx.peer] = @ + 1]
     \/ UNCHANGED value  \* undeclared, constant, or the RPC has failed
  /\ mtx' = Free
  /\ UNCHANGED <<streamVars, sent, stream, clients, get_requests_queue, asked,
                 clientVars, running, called>>
---------------------------------------------------------------------------
(* The register thread: takes mtx, replaces or erases the client, destroys *)
(* the old one, which joins its reader with mtx held, and goes on.         *)
ReadCommand ==
  /\ mtx = Free /\ Receive
  /\ LET cmd == Head(commands)
         n   == NameOf[cmd.peer]
     IN  /\ mtx' = [by |-> cmd.code, peer |-> cmd.peer, old |-> clients[n]]
         /\ clients' = [clients EXCEPT ![n] = IF cmd.code = "ADD" THEN cmd.peer ELSE NoPeer]
  /\ UNCHANGED <<valueVars, get_requests_queue, asked, clientVars, running, called>>

OldJoined == mtx.old # NoPeer => reader[mtx.old] # "reading"

\* Mutant: the queue is taken by reference and popped until it is empty.
add_clientEmpties ==
  /\ mtx.by = "ADD" /\ OldJoined
  /\ LET queue == get_requests_queue[NameOf[mtx.peer]]
     IN  IF queue = <<>> THEN UNCHANGED clientVars
                         ELSE getRemoteParam(mtx.peer, Last(queue))
  /\ get_requests_queue' = [get_requests_queue EXCEPT ![NameOf[mtx.peer]] = <<>>]
  /\ mtx' = Free
  /\ UNCHANGED <<remoteVars, clients, asked, running, called>>

(***************************************************************************)
(* The rest of add_client: every queued request is issued to the client;   *)
(* the queue is a copy, so they are there for the next client as well.     *)
(* Each request replaces the slot of the one before.                       *)
(***************************************************************************)
add_client ==
  /\ mtx.by = "ADD" /\ OldJoined
  /\ LET queue == get_requests_queue[NameOf[mtx.peer]]
     IN  IF queue = <<>> THEN UNCHANGED clientVars
                         ELSE getRemoteParam(mtx.peer, Last(queue))
  /\ mtx' = Free
  /\ UNCHANGED <<remoteVars, clients, get_requests_queue, asked, running, called>>

delete_client ==
  /\ mtx.by = "DELETE" /\ OldJoined
  /\ mtx' = Free
  /\ UNCHANGED <<remoteVars, clients, get_requests_queue, asked, clientVars, running, called>>
---------------------------------------------------------------------------
\* Mutant: replies are stored by threads of their own, in any order.
ReadAny(p) ==
  /\ reader[p] = "reading" /\ stream[p] # <<>>
  /\ \E i \in DOMAIN stream[p] :
       /\ slot' = [slot EXCEPT ![p].data = stream[p][i]]
       /\ stream' = [stream EXCEPT ![p] = RemoveAt(@, i)]
       /\ running' = IF slot[p].cb = NoCallback \/ stream[p][i] = NotAvailable THEN running
                     ELSE running \cup {<<slot[p].cb, p, stream[p][i]>>}
  /\ UNCHANGED <<streamVars, value, sent, clubVars, reader, called>>

\* Mutant: a callback only for a value the slot did not have before.
ReadFirst(p) ==
  /\ reader[p] = "reading" /\ stream[p] # <<>>
  /\ LET reply == Head(stream[p])
     IN  /\ slot' = [slot EXCEPT ![p].data = reply]
         /\ running' = IF slot[p].cb = NoCallback \/ reply = NotAvailable
                            \/ slot[p].data # NotAvailable
                         THEN running ELSE running \cup {<<slot[p].cb, p, reply>>}
  /\ stream' = [stream EXCEPT ![p] = Tail(@)]
  /\ UNCHANGED <<streamVars, value, sent, clubVars, reader, called>>

\* The reader: Read, then set of the slot there is now, which starts a
\* detached thread for the callback of a NORMAL reply.
Read(p) ==
  /\ reader[p] = "reading" /\ stream[p] # <<>>
  /\ LET reply == Head(stream[p])
     IN  /\ slot' = [slot EXCEPT ![p].data = reply]
         /\ running' = IF slot[p].cb = NoCallback \/ reply = NotAvailable
                         THEN running ELSE running \cup {<<slot[p].cb, p, reply>>}
  /\ stream' = [stream EXCEPT ![p] = Tail(@)]
  /\ UNCHANGED <<streamVars, value, sent, clubVars, reader, called>>

\* Mutant: the reader takes the club's mtx before it ends.
ReadEndsLocked(p) ==
  /\ reader[p] = "reading" /\ stream[p] = <<>> /\ ~Running(p) /\ mtx = Free
  /\ reader' = [reader EXCEPT ![p] = "done"]
  /\ UNCHANGED <<remoteVars, clubVars, slot, running, called>>

\* Read fails when the process is gone and everything it sent is read.
ReadEnds(p) ==
  /\ reader[p] = "reading" /\ stream[p] = <<>> /\ ~Running(p)
  /\ reader' = [reader EXCEPT ![p] = "done"]
  /\ UNCHANGED <<remoteVars, clubVars, slot, running, called>>

\* A detached thread runs its callback, in any order with the others.
CallBack(x) ==
  /\ x \in running
  /\ running' = running \ {x}
  /\ called' = called \cup {x}
  /\ UNCHANGED <<remoteVars, clubVars, clientVars>>
---------------------------------------------------------------------------
Register == ReadCommand \/ add_client \/ delete_client
Reader(p) == Read(p) \/ ReadEnds(p)

Next ==
  \/ StreamNext /\ UNCHANGED <<valueVars, nodeVars>>
  \/ \E p \in Peers : Die(p) \/ Store(p) \/ WriteReply(p) \/ Reader(p)
  \/ \E n \in Names : getRemoteRequest(n) \/ setRemoteRequest(n)
  \/ \E n \in Names, c \in Callbacks : getRemoteDynamic(n, c)
  \/ setRemoteParam
  \/ Register
  \/ \E x \in running : CallBack(x)

Spec == Init /\ [][Next]_vars

(***************************************************************************)
(* The threads of the node run and a set RPC returns.  Nothing is assumed  *)
(* of the remote nodes and of the users; that a stream writes every update *)
(* is not assumed either, ParamServer shows that it may not.               *)
(***************************************************************************)
FairSpec ==
  /\ Spec
  /\ WF_vars(Register) /\ WF_vars(setRemoteParam)
  /\ \A p \in Peers : WF_vars(Reader(p))
  /\ \A x \in Calls : WF_vars(CallBack(x))
---------------------------------------------------------------------------
(* Properties.                                                             *)

\* Every variable keeps its type, and a client has a reader exactly when it
\* has a slot.
TypeOK ==
  /\ StreamTypeOK
  /\ value \in [Peers -> Replies]
  /\ sent \in [Peers -> -1..MaxStores]
  /\ stream \in [Peers -> Seq(Replies)]
  /\ mtx \in [by : {"none", "set", "ADD", "DELETE"}, peer : Peers \cup {NoPeer},
              old : Peers \cup {NoPeer}]
  /\ clients \in [Names -> Peers \cup {NoPeer}]
  /\ get_requests_queue \in [Names -> Seq(Callbacks)]
  /\ asked \in [Names -> Callbacks \cup {NoCallback}]
  /\ slot \in [Peers -> [made : BOOLEAN, cb : Callbacks \cup {NoCallback}, data : Replies]]
  /\ reader \in [Peers -> {"none", "reading", "done"}]
  /\ \A p \in Peers : slot[p].made <=> reader[p] # "none"
  /\ running \subseteq Calls /\ called \subseteq Calls

(***************************************************************************)
(* cpp/test/remote_param_test.cpp: "the new callback will replace the old  *)
(* one".  Whoever came first, the user with the callback or the node, and  *)
(* however often the node restarts: its client has the last callback.      *)
(***************************************************************************)
LastCallbackInstalled ==
  /\ TypeOK
  /\ mtx.by \in {"none", "set"} =>
       \A n \in Names :
         (clients[n] # NoPeer /\ asked[n] # NoCallback) => slot[clients[n]].cb = asked[n]

(***************************************************************************)
(* What a get of a client answers never becomes older, and goes back to    *)
(* TMEP_NOT_AVALIABLE only when a callback takes the slot over.            *)
(***************************************************************************)
AnswersNeverGoBack ==
  [][\A p \in Peers :
       \/ slot'[p].data >= slot[p].data
       \/ slot'[p].data = NotAvailable /\ slot'[p].cb # slot[p].cb]_vars

(***************************************************************************)
(* A value on the stream of a client with a callback reaches a callback,   *)
(* even if the client is deleted meanwhile, unless the process dies first. *)
(***************************************************************************)
WrittenReachesCallback ==
  \A p \in Peers : \A v \in 1..MaxStores :
    (slot[p].cb # NoCallback /\ Contains(stream[p], v))
      ~> (process[p] = "dead" \/ \E c \in Callbacks : <<c, p, v>> \in called)

(***************************************************************************)
(* The join of a dead process's reader ends, and the club's mtx is free    *)
(* again: the node goes on handling commands, gets and sets.               *)
(***************************************************************************)
DeadClientJoined ==
  \A p \in Peers : (mtx.old = p /\ process[p] = "dead") ~> mtx.old # p
=============================================================================
