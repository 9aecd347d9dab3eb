-------------------------- MODULE TopicConnection --------------------------
(***************************************************************************)
(* How a subscribing node finds publishers (cpp/src/rscl.cpp, NodeRegist,  *)
(* TCPClient::add_client, TCPServer::accept_client): the registrar's       *)
(* commands add peers to the connection club and delete them; every peer   *)
(* is asked for every subscribed topic with a TopicConnection call, which  *)
(* it answers when it has advertised the topic and has opened a TCP        *)
(* connection to the subscriber.                                           *)
(*                                                                         *)
(* One subscribing node and its peers.  A peer in Peers is one process; a  *)
(* restarted node is a second peer of the same name.  All subscriptions    *)
(* are of one topic, all peers publish it, and a call is a pair of a peer  *)
(* and a subscription.  Threads of the subscriber: the user, who also      *)
(* spins, the register thread, and one worker per call; of a peer: its     *)
(* user, who advertises, and one handler per call.  The commands come from *)
(* RegistStream, with what its stream may lose.                            *)
(***************************************************************************)
EXTENDS RegistStream, FiniteSets

CONSTANT MaxSubscribes  \* bound: calls of subscribe

ASSUME SubscribesAssumption == MaxSubscribes \in Nat \ {0}

VARIABLES
  clients,        \* NodeConnectionClientClub::clients, a peer for each name
  topic_requests, \* the number of entries in topic_requests
  register,       \* the register thread; the club's mtx is held outside "read"
  worker,         \* the thread of each call in write_queue
  handler,        \* the handler of each call in the peer
  advertised,     \* each peer: "no", "added" to topics, "notified"
  sock            \* the TCP connection a peer opens for each call

callVars == <<worker, handler, sock>>
nodeVars == <<clients, topic_requests, register, callVars, advertised>>
vars == <<streamVars, nodeVars>>

Requests == 1..MaxSubscribes
Calls == Peers \X Requests

WorkerPCs == {"none", "rpc", "accept", "done"}
\* Control points of TopicConnection; "ok", "empty" and "error" are replies.
Replies == {"ok", "empty", "error"}
HandlerPCs == {"none", "loop", "sleep", "blocked", "connect", "select"} \cup Replies
SockStates == {"none", "pending", "unmapped", "mapped", "failed", "closed"}
Idle == [pc |-> "read", peer |-> NoPeer, old |-> NoPeer]
---------------------------------------------------------------------------
Init ==
  /\ StreamInit
  /\ clients = [n \in Names |-> NoPeer]
  /\ topic_requests = 0
  /\ register = Idle
  /\ worker = [c \in Calls |-> "none"]
  /\ handler = [c \in Calls |-> "none"]
  /\ advertised = [p \in Peers |-> "no"]
  /\ sock = [c \in Calls |-> "none"]

\* The process of p ends, its calls fail and its connections are closed.
Die(p) ==
  /\ Running(p)
  /\ process' = [process EXCEPT ![p] = "dead"]
  /\ handler' = [c \in Calls |-> IF c[1] = p /\ handler[c] \notin Replies
                                   THEN "error" ELSE handler[c]]
  /\ UNCHANGED <<registered, alive_nodes, commands, skip_version, confused>>
  /\ UNCHANGED <<clients, topic_requests, register, worker, advertised, sock>>
---------------------------------------------------------------------------
(* NodeConnectionClient::pull_subscribe_request for the calls cs.          *)
Spawn(cs) ==
  worker' = [c \in Calls |-> IF c \in cs THEN "rpc" ELSE worker[c]]

\* Mutant: the request is sent to the clients there are and not recorded.
pull_subscribe_requestOnce ==
  /\ register.pc = "read" /\ topic_requests < MaxSubscribes
  /\ Spawn({<<clients[n], topic_requests + 1>> : n \in {m \in Names : clients[m] # NoPeer}})
  /\ topic_requests' = topic_requests
  /\ UNCHANGED <<streamVars, clients, register, handler, advertised, sock>>

\* subscribe: record the request and send it to every client, under mtx.
pull_subscribe_request ==
  /\ register.pc = "read" /\ topic_requests < MaxSubscribes
  /\ topic_requests' = topic_requests + 1
  /\ Spawn({<<clients[n], topic_requests'>> : n \in {m \in Names : clients[m] # NoPeer}})
  /\ UNCHANGED <<streamVars, clients, register, handler, advertised, sock>>

(***************************************************************************)
(* The register thread handles one command: it takes mtx, puts the new     *)
(* client into the club or erases one, and destroys the old client, which  *)
(* waits for that client's workers with mtx held.                          *)
(***************************************************************************)
ReadCommand ==
  /\ register.pc = "read" /\ Receive
  /\ LET cmd == Head(commands)
         n   == NameOf[cmd.peer]
     IN  /\ register' = [pc |-> cmd.code, peer |-> cmd.peer, old |-> clients[n]]
         /\ clients' = [clients EXCEPT ![n] =
                          IF cmd.code = "ADD" THEN cmd.peer ELSE NoPeer]
  /\ UNCHANGED <<topic_requests, callVars, advertised>>

\* ~NodeConnectionClient has joined every thread of the old client.
OldJoined == \A c \in Calls : c[1] = register.old => worker[c] \in {"none", "done"}

\* The rest of add_client: the new client is sent all topic requests.
add_client ==
  /\ register.pc = "ADD" /\ OldJoined
  /\ Spawn({register.peer} \X (1..topic_requests))
  /\ register' = Idle
  /\ UNCHANGED <<streamVars, clients, topic_requests, handler, advertised, sock>>

\* Mutant: the client stays in the club.
delete_clientKept ==
  /\ register.pc = "DELETE" /\ OldJoined
  /\ clients' = [clients EXCEPT ![NameOf[register.peer]] = register.old]
  /\ register' = Idle
  /\ UNCHANGED <<streamVars, topic_requests, callVars, advertised>>

delete_client ==
  /\ register.pc = "DELETE" /\ OldJoined
  /\ register' = Idle
  /\ UNCHANGED <<streamVars, clients, topic_requests, callVars, advertised>>
---------------------------------------------------------------------------
GotoHandler(c, label) == handler' = [handler EXCEPT ![c] = label]
HandlerOnly == UNCHANGED <<streamVars, clients, topic_requests, register,
                           worker, advertised>>

\* The call arrives at the peer, or fails because there is none.
CallTopicConnection(c) ==
  /\ worker[c] = "rpc" /\ handler[c] = "none"
  /\ GotoHandler(c, IF Running(c[1]) THEN "loop" ELSE "error")
  /\ HandlerOnly /\ UNCHANGED sock

find_wait_published_topic(p) == advertised[p] # "no"

(***************************************************************************)
(* The loop of TopicConnection and the predicate of cv.wait in it test the *)
(* same thing, which never becomes false again: connect, or go to sleep.   *)
(* advertise may notify between the test and the wait.                     *)
(***************************************************************************)
TopicConnection(c) ==
  /\ handler[c] = "loop"
  /\ GotoHandler(c, IF find_wait_published_topic(c[1]) THEN "connect" ELSE "sleep")
  /\ HandlerOnly /\ UNCHANGED sock

Sleep(c) ==
  /\ handler[c] = "sleep"
  /\ GotoHandler(c, "blocked")
  /\ HandlerOnly /\ UNCHANGED sock

(***************************************************************************)
(* TCPClient::add_client: connect is in progress, or has failed at once.   *)
(* Two ways out leave no value for TopicConnection to get: create_socket   *)
(* fails, or connect ends at once and the promise is dropped, with the     *)
(* connection still open.  Then get throws and gRPC replies with an error. *)
(***************************************************************************)
ConnectSocket(c) ==
  /\ handler[c] = "connect"
  /\ \/ GotoHandler(c, "select") /\ UNCHANGED sock
     \/ GotoHandler(c, "empty") /\ sock' = [sock EXCEPT ![c] = "failed"]
     \/ GotoHandler(c, "error") /\ \E s \in {"failed", "pending"} : sock' = [sock EXCEPT ![c] = s]
  /\ HandlerOnly

\* Its thread: select and getsockopt tell how connect ended.
SelectSocket(c) ==
  /\ handler[c] = "select"
  /\ \/ GotoHandler(c, "ok") /\ sock' = [sock EXCEPT ![c] = "pending"]
     \/ GotoHandler(c, "empty") /\ sock' = [sock EXCEPT ![c] = "failed"]
  /\ HandlerOnly

\* advertise: add_published_topic, then notify_all.
add_published_topic(p) ==
  /\ Running(p) /\ advertised[p] = "no"
  /\ advertised' = [advertised EXCEPT ![p] = "added"]
  /\ UNCHANGED <<streamVars, clients, topic_requests, register, callVars>>

\* Mutant: notify_one instead of notify_all.
NotifyOne(p) ==
  /\ Running(p) /\ advertised[p] = "added"
  /\ advertised' = [advertised EXCEPT ![p] = "notified"]
  /\ LET blocked == {c \in Calls : c[1] = p /\ handler[c] = "blocked"}
     IN  IF blocked = {} THEN UNCHANGED handler
         ELSE \E c \in blocked : GotoHandler(c, "loop")
  /\ UNCHANGED <<streamVars, clients, topic_requests, register, worker, sock>>

Notify(p) ==
  /\ Running(p) /\ advertised[p] = "added"
  /\ advertised' = [advertised EXCEPT ![p] = "notified"]
  /\ handler' = [c \in Calls |-> IF c[1] = p /\ handler[c] = "blocked"
                                   THEN "loop" ELSE handler[c]]
  /\ UNCHANGED <<streamVars, clients, topic_requests, register, worker, sock>>
---------------------------------------------------------------------------
WorkerOnly == UNCHANGED <<streamVars, clients, topic_requests, register,
                          handler, advertised>>

\* Mutant: the status of the call is not tested.
ReplyUntested(c) ==
  /\ worker[c] = "rpc" /\ handler[c] \in Replies
  /\ worker' = [worker EXCEPT ![c] = "accept"]
  /\ WorkerOnly /\ UNCHANGED sock

\* The call returns: with status OK even if the reply is empty.
Reply(c) ==
  /\ worker[c] = "rpc" /\ handler[c] \in Replies
  /\ worker' = [worker EXCEPT ![c] = IF handler[c] = "error" THEN "done" ELSE "accept"]
  /\ WorkerOnly /\ UNCHANGED sock

(***************************************************************************)
(* TCPServer::accept_client: it comes back every 100 ms until spinOnce has *)
(* accepted the connection.  The address of an empty reply never appears.  *)
(***************************************************************************)
accept_client(c) ==
  /\ worker[c] = "accept" /\ handler[c] = "ok" /\ sock[c] = "unmapped"
  /\ sock' = [sock EXCEPT ![c] = "mapped"]
  /\ worker' = [worker EXCEPT ![c] = "done"]
  /\ WorkerOnly

\* spinOnce: a new TCP connection, or the end of a mapped one.
accept_new_client(c) ==
  /\ sock[c] = "pending"
  /\ sock' = [sock EXCEPT ![c] = "unmapped"]
  /\ WorkerOnly /\ UNCHANGED worker

handle_client_event(c) ==
  /\ sock[c] = "mapped" /\ ~Running(c[1])
  /\ sock' = [sock EXCEPT ![c] = "closed"]
  /\ WorkerOnly /\ UNCHANGED worker
---------------------------------------------------------------------------
Register == ReadCommand \/ add_client \/ delete_client
Handler(c) == \/ CallTopicConnection(c) \/ TopicConnection(c) \/ Sleep(c)
              \/ ConnectSocket(c) \/ SelectSocket(c)
Worker(c) == Reply(c) \/ accept_client(c)
spinOnce(c) == accept_new_client(c) \/ handle_client_event(c)

Next ==
  \/ StreamNext /\ UNCHANGED nodeVars
  \/ \E p \in Peers : Die(p) \/ add_published_topic(p) \/ Notify(p)
  \/ pull_subscribe_request
  \/ Register
  \/ \E c \in Calls : Handler(c) \/ Worker(c) \/ spinOnce(c)

Spec == Init /\ [][Next]_vars

(***************************************************************************)
(* Threads run and the subscriber keeps spinning; a connect that is in     *)
(* progress ends, one way or the other.                                    *)
(***************************************************************************)
FairSpec ==
  /\ Spec
  /\ WF_vars(Register)
  /\ \A c \in Calls : WF_vars(Handler(c)) /\ WF_vars(Worker(c)) /\ WF_vars(spinOnce(c))
  /\ \A p \in Peers : WF_vars(Notify(p))
---------------------------------------------------------------------------
(* Properties.                                                             *)

\* Every variable keeps its type.
TypeOK ==
  /\ StreamTypeOK
  /\ clients \in [Names -> Peers \cup {NoPeer}]
  /\ topic_requests \in 0..MaxSubscribes
  /\ register \in [pc : Codes \cup {"read"}, peer : Peers \cup {NoPeer},
                   old : Peers \cup {NoPeer}]
  /\ worker \in [Calls -> WorkerPCs]
  /\ handler \in [Calls -> HandlerPCs]
  /\ advertised \in [Peers -> {"no", "added", "notified"}]
  /\ sock \in [Calls -> SockStates]

(***************************************************************************)
(* Every client of the club has been asked for every topic request, once,  *)
(* and nobody else ever: subscribe and add_client may come in any order.   *)
(***************************************************************************)
EveryPeerAsked ==
  /\ TypeOK
  /\ register.pc = "read" =>
       \A n \in Names : clients[n] # NoPeer =>
         \A r \in Requests : r <= topic_requests <=> worker[<<clients[n], r>>] # "none"

(***************************************************************************)
(* When every command is handled, the club holds, under each name, the     *)
(* peer the registrar has registered and nobody else: a DELETE, which      *)
(* carries only a name, does not hit the restarted node of that name, and  *)
(* commands that list drops are not missed.  It is so for every name of    *)
(* which no slot was lost and that no two peers have shared.               *)
(***************************************************************************)
ClubMatchesRegistrar ==
  (register.pc = "read" /\ commands = <<>>) =>
    \A n \in Names \ confused :
      {clients[n]} \ {NoPeer} = {p \in Peers : NameOf[p] = n /\ registered[p] = "live"}

(***************************************************************************)
(* A call that waits for advertise when it notifies leads to a TCP         *)
(* connection mapped to the topic, unless connect fails, the call ends     *)
(* with an error or the peer dies.                                         *)
(***************************************************************************)
AdvertiseConnects ==
  \A c \in Calls :
    (handler[c] = "blocked" /\ advertised[c[1]] = "added")
      ~> (sock[c] \in {"mapped", "failed"} \/ handler[c] = "error" \/ process[c[1]] = "dead")

(***************************************************************************)
(* The register thread gets over a deleted peer whose process has died and *)
(* takes the next command, unless a call got an empty reply: the joins of  *)
(* the destructor, with mtx held, end.                                     *)
(***************************************************************************)
DeadPeerJoined ==
  \A p \in Peers :
    (register.old = p /\ process[p] = "dead"
       /\ \A r \in Requests : handler[<<p, r>>] # "empty")
      ~> register.old # p
=============================================================================
