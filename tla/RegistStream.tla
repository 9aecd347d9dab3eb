---------------------------- MODULE RegistStream ----------------------------
(***************************************************************************)
(* The registrar (cpp/src/Registrar.cpp) as one node sees it: its Regist   *)
(* stream brings it the commands of its peers, processes that register and *)
(* go away.  TopicConnection and ParamClient build on it.                  *)
(*                                                                         *)
(* Registrar has the versions, locks and notifications; here they are left *)
(* out, and what they can do to one stream is kept.  The stream brings the *)
(* slots of the log in the order of their versions.  A slot is a peer's    *)
(* ADD or DELETE, unless list read it between version++ and its store, and *)
(* list drops the ADD of a peer that has gone, with its DELETE if that is  *)
(* in the same window.  Two handlers that have both passed                 *)
(* find_exist_node register two processes of one name, and the first of    *)
(* them to go takes the name out of alive_nodes.                           *)
(***************************************************************************)
EXTENDS Integers, Sequences

CONSTANTS
  Peers,   \* node processes
  Names,   \* node names
  NameOf,  \* the name of each peer
  NoPeer   \* no client under a name

ASSUME PeerNames == NameOf \in [Peers -> Names] /\ NoPeer \notin Peers

VARIABLES
  process,       \* each peer: "new", "up", "dead"
  registered,    \* its Regist handler: "none", "claim", "live", "gone"
  alive_nodes,   \* Registrar::alive_nodes
  commands,      \* slots of the log the node has not handled
  skip_version,  \* peers whose DELETE is dropped, since their ADD was
  confused       \* names a slot of which was lost or that two peers shared

streamVars == <<process, registered, alive_nodes, commands, skip_version, confused>>

Codes == {"ADD", "DELETE"}
Running(p) == process[p] = "up"
Namesakes(p) == {q \in Peers : NameOf[q] = NameOf[p]}
---------------------------------------------------------------------------
StreamInit ==
  /\ process = [p \in Peers |-> "new"]
  /\ registered = [p \in Peers |-> "none"]
  /\ alive_nodes = {}
  /\ commands = <<>>
  /\ skip_version = {}
  /\ confused = {}

\* p starts and its handler has found its name free, at once or after a wait.
find_exist_node(p) ==
  /\ process[p] = "new" /\ NameOf[p] \notin alive_nodes
  /\ process' = [process EXCEPT ![p] = "up"]
  /\ registered' = [registered EXCEPT ![p] = "claim"]
  /\ UNCHANGED <<alive_nodes, commands, skip_version, confused>>

\* The handler goes on even if another of the name has registered meanwhile.
registration(p) ==
  /\ registered[p] = "claim"
  /\ registered' = [registered EXCEPT ![p] = "live"]
  /\ alive_nodes' = alive_nodes \cup {NameOf[p]}
  /\ commands' = Append(commands, [code |-> "ADD", peer |-> p])
  /\ confused' = IF \E q \in Namesakes(p) : registered[q] = "live"
                   THEN confused \cup {NameOf[p]} ELSE confused
  /\ UNCHANGED <<process, skip_version>>

\* The peer's stream is broken, since its process has died or otherwise.
deregistration(p) ==
  /\ registered[p] = "live"
  /\ registered' = [registered EXCEPT ![p] = "gone"]
  /\ alive_nodes' = alive_nodes \ {NameOf[p]}
  /\ commands' = Append(commands, [code |-> "DELETE", peer |-> p])
  /\ UNCHANGED <<process, skip_version, confused>>

(***************************************************************************)
(* Registrar::list for the slot that is next: what is not a command of its *)
(* peer.  A slot that nobody has written is a node without a name, whose   *)
(* client no peer answers; a dropped slot is nothing at all.               *)
(***************************************************************************)
Skipped(cmd) == cmd.code = "DELETE" /\ cmd.peer \in skip_version

list ==
  /\ commands # <<>>
  /\ commands' = Tail(commands)
  /\ LET cmd == Head(commands)
     IN  \/ /\ Skipped(cmd)
            /\ UNCHANGED <<skip_version, confused>>
         \/ /\ cmd.code = "ADD" /\ registered[cmd.peer] = "gone"
            /\ skip_version' \in {skip_version, skip_version \cup {cmd.peer}}
            /\ UNCHANGED confused
         \/ /\ ~Skipped(cmd)
            /\ confused' = confused \cup {NameOf[cmd.peer]}
            /\ UNCHANGED skip_version
  /\ UNCHANGED <<process, registered, alive_nodes>>

\* The node handles the next slot, a command of a peer.
Receive ==
  /\ commands # <<>> /\ ~Skipped(Head(commands))
  /\ commands' = Tail(commands)
  /\ UNCHANGED <<process, registered, alive_nodes, skip_version, confused>>

StreamNext == list \/ \E p \in Peers : find_exist_node(p) \/ registration(p)
                                         \/ deregistration(p)

StreamTypeOK ==
  /\ process \in [Peers -> {"new", "up", "dead"}]
  /\ registered \in [Peers -> {"none", "claim", "live", "gone"}]
  /\ alive_nodes \subseteq Names /\ confused \subseteq Names
  /\ commands \in Seq([code : Codes, peer : Peers])
  /\ skip_version \subseteq Peers
=============================================================================
