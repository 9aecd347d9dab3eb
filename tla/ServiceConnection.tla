------------------------- MODULE ServiceConnection -------------------------
(***************************************************************************)
(* How a service client gets the address of its server (cpp/src/rscl.cpp,  *)
(* NodeHandler::serviceServer and serviceClient): a server asks every node *)
(* it knows with a ServiceConnection call.  The handler in a node that     *)
(* serves the same name ends that node's process; the handler in a node    *)
(* with a client of that name puts the address into the client's promise,  *)
(* and comes back every second while the promise is taken.                 *)
(*                                                                         *)
(* One service name, one client node, and the processes that may serve the *)
(* name; a server that restarts is a second process.  A call is a pair of  *)
(* a server and the node it asks.  The handlers' mtx orders them only      *)
(* among themselves, since notify_all is called without it, and is left    *)
(* out.  What the club does with nodes that go is in TopicConnection, what *)
(* the client does with its stream in ServiceCall.                         *)
(***************************************************************************)
CONSTANTS
  Servers,   \* processes that may call serviceServer
  Client,    \* the node that calls serviceClient
  Unset      \* a promise without a value

ASSUME NodesDistinct == Client \notin Servers /\ Unset \notin Servers \cup {Client}

VARIABLES
  serving,   \* each server: "idle", "added" to services, "asking", "dead"
  club,      \* the nodes each server has a connection client for
  call,      \* the handler of each call, in the node that is asked
  wanted,    \* serviceClient: "no", "added" to services, "notified"
  srv_addr,  \* the promise of the client: a server's address or Unset
  given,     \* the servers whose address the client has been given
  stream     \* the client's stream: "none", "open", "ended"

ConnectionVars == <<serving, club, call, wanted, srv_addr, given, stream>>

Nodes == Servers \cup {Client}
Calls == {c \in Servers \X Nodes : c[1] # c[2]}
HandlerPCs == {"none", "rpc", "loop", "sleep", "blocked", "set", "retry", "done"}
Running(n) == n \in Servers => serving[n] # "dead"
find_serving_service(n) == n \in Servers /\ serving[n] \in {"added", "asking"}
find_wait_served_service(n) == n = Client /\ wanted # "no"
---------------------------------------------------------------------------
ConnectionInit ==
  /\ serving = [s \in Servers |-> "idle"]
  /\ club = [s \in Servers |-> {}]
  /\ call = [c \in Calls |-> "none"]
  /\ wanted = "no"
  /\ srv_addr = Unset
  /\ given = {}
  /\ stream = "none"

Goto(c, label) == call' = [call EXCEPT ![c] = label]
Ask(s, ns) == call' = [c \in Calls |-> IF c[1] = s /\ c[2] \in ns THEN "rpc" ELSE call[c]]
ClientSame == UNCHANGED <<wanted, srv_addr, given, stream>>

\* add_client for a node the registrar announces: it is sent the request.
add_client(s, n) ==
  /\ serving[s] # "dead" /\ n # s /\ n \notin club[s]
  /\ club' = [club EXCEPT ![s] = @ \cup {n}]
  /\ IF serving[s] = "asking" THEN Ask(s, {n}) ELSE UNCHANGED call
  /\ UNCHANGED serving /\ ClientSame

\* A process dies; what it asked for is cancelled, what it was asked fails.
Die(s) ==
  /\ serving[s] # "dead"
  /\ serving' = [serving EXCEPT ![s] = "dead"]
  /\ UNCHANGED <<club, call>> /\ ClientSame

\* serviceServer: the name is in services before anybody is asked.
add_serving_service(s) ==
  /\ serving[s] = "idle"
  /\ serving' = [serving EXCEPT ![s] = "added"]
  /\ UNCHANGED <<club, call>> /\ ClientSame

\* Mutant: the nodes are asked before the service is recorded.
pull_serving_service_requestFirst(s) ==
  /\ serving[s] = "idle" /\ \A c \in Calls : c[1] = s => call[c] = "none"
  /\ Ask(s, club[s])
  /\ UNCHANGED <<serving, club>> /\ ClientSame

\* The end of the constructor of ServiceServer: record and send the request.
pull_serving_service_request(s) ==
  /\ serving[s] = "added"
  /\ serving' = [serving EXCEPT ![s] = "asking"]
  /\ Ask(s, club[s])
  /\ UNCHANGED club /\ ClientSame
---------------------------------------------------------------------------
(* NodeConnectionServerImpl::ServiceConnection for the call c.             *)

\* Mutant: the conflict is logged and the process goes on.
NameConflictLogged(c) ==
  /\ call[c] = "rpc" /\ Running(c[2]) /\ find_serving_service(c[2])
  /\ Goto(c, "done")
  /\ UNCHANGED <<serving, club>> /\ ClientSame

\* The asked process serves the name itself: setAbort and exit.
NameConflict(c) ==
  /\ call[c] = "rpc" /\ Running(c[2]) /\ find_serving_service(c[2])
  /\ serving' = [serving EXCEPT ![c[2]] = "dead"]
  /\ Goto(c, "done")
  /\ UNCHANGED club /\ ClientSame

NoConflict(c) ==
  /\ call[c] = "rpc" /\ ~(Running(c[2]) /\ find_serving_service(c[2]))
  /\ Goto(c, IF Running(c[2]) THEN "loop" ELSE "done")
  /\ UNCHANGED <<serving, club>> /\ ClientSame

(***************************************************************************)
(* The head of the loop, and the predicate of cv.wait, which tests the     *)
(* same thing: fill the promise, or go to sleep.  gRPC may notice late     *)
(* that the asking process is gone.                                        *)
(***************************************************************************)
Loop(c) ==
  /\ call[c] = "loop" /\ Running(c[2])
  /\ Goto(c, IF find_wait_served_service(c[2]) THEN "set" ELSE "sleep")
  /\ UNCHANGED <<serving, club>> /\ ClientSame

LoopCancelled(c) ==
  /\ call[c] = "loop" /\ ~Running(c[1])
  /\ Goto(c, "done")
  /\ UNCHANGED <<serving, club>> /\ ClientSame

Sleep(c) ==
  /\ call[c] = "sleep"
  /\ Goto(c, "blocked")
  /\ UNCHANGED <<serving, club>> /\ ClientSame

\* Mutant: a promise that is taken ends the handler.
add_rpc_service_clientOnce(c) ==
  /\ call[c] = "set"
  /\ srv_addr' = IF srv_addr = Unset THEN c[1] ELSE srv_addr
  /\ given' = IF srv_addr = Unset THEN given \cup {c[1]} ELSE given
  /\ Goto(c, "done")
  /\ UNCHANGED <<serving, club, wanted, stream>>

\* set_value, or a future_error because the promise has its value.
add_rpc_service_client(c) ==
  /\ call[c] = "set"
  /\ srv_addr' = IF srv_addr = Unset THEN c[1] ELSE srv_addr
  /\ given' = IF srv_addr = Unset THEN given \cup {c[1]} ELSE given
  /\ Goto(c, IF srv_addr = Unset THEN "done" ELSE "retry")
  /\ UNCHANGED <<serving, club, wanted, stream>>

\* this_thread::sleep_for one second, and continue.
Retry(c) ==
  /\ call[c] = "retry"
  /\ Goto(c, "loop")
  /\ UNCHANGED <<serving, club>> /\ ClientSame
---------------------------------------------------------------------------
(* The client's node.                                                      *)
add_served_service ==
  /\ wanted = "no"
  /\ wanted' = "added"
  /\ UNCHANGED <<serving, club, call, srv_addr, given, stream>>

\* connection_rpc_service->notify_all()
notify_all ==
  /\ wanted = "added"
  /\ wanted' = "notified"
  /\ call' = [c \in Calls |-> IF c[2] = Client /\ call[c] = "blocked"
                                THEN "loop" ELSE call[c]]
  /\ UNCHANGED <<serving, club, srv_addr, given, stream>>

\* wait_server_notify_thread: the address is there, open the stream.
create_connection ==
  /\ wanted = "notified" /\ srv_addr # Unset /\ stream = "none"
  /\ stream' = IF Running(srv_addr) THEN "open" ELSE "ended"
  /\ UNCHANGED <<serving, club, call, wanted, srv_addr, given>>

StreamEnds ==
  /\ stream = "open" /\ ~Running(srv_addr)
  /\ stream' = "ended"
  /\ UNCHANGED <<serving, club, call, wanted, srv_addr, given>>

\* ServiceClient::reset with reset_served_service: a new promise.
reset ==
  /\ stream \in {"open", "ended"}
  /\ stream' = "none"
  /\ srv_addr' = Unset
  /\ UNCHANGED <<serving, club, call, wanted, given>>
---------------------------------------------------------------------------
Handler(c) == \/ NameConflict(c) \/ NoConflict(c) \/ Loop(c) \/ LoopCancelled(c)
              \/ Sleep(c) \/ add_rpc_service_client(c) \/ Retry(c)
Reader == create_connection \/ StreamEnds

ConnectionNext ==
  \/ \E s \in Servers : \/ Die(s) \/ add_serving_service(s)
                        \/ pull_serving_service_request(s)
                        \/ \E n \in Nodes : add_client(s, n)
  \/ \E c \in Calls : Handler(c)
  \/ add_served_service \/ notify_all \/ Reader \/ reset

ConnectionSpec == ConnectionInit /\ [][ConnectionNext]_ConnectionVars

(***************************************************************************)
(* Handlers run on, and serviceClient, once begun, notifies; nobody has to *)
(* create a server or a client, to ask, to die, to open a stream or to     *)
(* call reset.                                                             *)
(***************************************************************************)
ConnectionFairness ==
  /\ \A c \in Calls : WF_ConnectionVars(Handler(c))
  /\ WF_ConnectionVars(notify_all)

FairConnectionSpec == ConnectionSpec /\ ConnectionFairness
---------------------------------------------------------------------------
(* Properties.                                                             *)

\* Every variable keeps its type.
ConnectionTypeOK ==
  /\ serving \in [Servers -> {"idle", "added", "asking", "dead"}]
  /\ club \in [Servers -> SUBSET Nodes]
  /\ call \in [Calls -> HandlerPCs]
  /\ wanted \in {"no", "added", "notified"}
  /\ srv_addr \in Servers \cup {Unset}
  /\ given \in SUBSET Servers
  /\ stream \in {"none", "open", "ended"}

(***************************************************************************)
(* Two servers of one name that ask each other cannot both go on: a node   *)
(* records its service before it asks, so whichever handler runs second    *)
(* finds the service of its own node.                                      *)
(***************************************************************************)
Asked(s, t) == call[<<s, t>>] \notin {"none", "rpc"}
ConflictSeen ==
  /\ ConnectionTypeOK
  /\ \A s, t \in Servers :
       (s # t /\ Asked(s, t) /\ Asked(t, s)) => serving[s] = "dead" \/ serving[t] = "dead"

(***************************************************************************)
(* And they do not go on: two servers that know each other end with one of *)
(* them exiting, in whatever order they started and learnt of each other.  *)
(***************************************************************************)
Rivals == {pair \in SUBSET Servers : \E s, t \in pair : s # t /\ pair = {s, t}}
ConflictResolved ==
  \A pair \in Rivals :
    (\A s \in pair : serving[s] = "asking" /\ pair \ {s} \subseteq club[s])
      ~> (\E s \in pair : serving[s] = "dead")

(***************************************************************************)
(* A client whose promise is open gets an address if some server that it   *)
(* has not heard of yet has asked its node: also after reset, long after   *)
(* that server found the promise taken.  Only a handler that falls asleep  *)
(* between the two steps of serviceClient is not woken.                    *)
(***************************************************************************)
Overslept(c) == call[c] = "sleep" \/ (call[c] = "blocked" /\ wanted = "notified")
WaitingClientServed ==
  \A s \in Servers :
    (/\ wanted # "no" /\ srv_addr = Unset
     /\ serving[s] = "asking" /\ Client \in club[s] /\ s \notin given
     /\ ~Overslept(<<s, Client>>))
      ~> (srv_addr # Unset \/ serving[s] = "dead")
=============================================================================
