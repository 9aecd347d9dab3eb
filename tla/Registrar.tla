----------------------------- MODULE Registrar -----------------------------
(***************************************************************************)
(* The NodeCore registrar (cpp/src/Registrar.cpp): a versioned log of node *)
(* additions and deletions, and one Regist handler thread per node, which  *)
(* registers the node, streams the log to it and deregisters it when the   *)
(* node goes away.                                                         *)
(*                                                                         *)
(* A call in Calls is one node process together with the handler thread    *)
(* that serves its Regist stream; a node that restarts is a second call    *)
(* with the same name.  The handler is split exactly where another thread  *)
(* can interfere: at the atomic counter, at registrar.mtx (held for the    *)
(* whole of registration, deregistration and list), and at the service's   *)
(* mtx and condition variable.  A call's ip and port identify its process, *)
(* so the call itself stands for its address.                              *)
(***************************************************************************)
EXTENDS Integers, FiniteSets

CONSTANTS
  Calls,    \* node processes, each with the Regist handler that serves it
  Names,    \* node names, ${namespace}/${name}
  NameOf,   \* the name under which each call registers
  NoCall,   \* the empty NodeInfo of a slot that was never written
  Growth    \* slots added beyond the written one by nodes.resize (1000)

ASSUME NameOfType == NameOf \in [Calls -> Names]
ASSUME NoCallFresh == NoCall \notin Calls
ASSUME GrowthPositive == Growth \in Nat \ {0}

VARIABLES
  version,          \* Registrar::version, the next version to hand out
  nodes,            \* Registrar::nodes, the log, a function on 0..size-1
  size,             \* nodes.size()
  alive_nodes,      \* Registrar::alive_nodes
  mtx,              \* holder of RegistServiceImpl::mtx, or NoCall
  pc,               \* control point of each handler
  cancelled,        \* context->IsCancelled(): the node process is gone
  regist_version,   \* local of Regist, -1 before it is assigned
  deleted_version,  \* local of deregistration, -1 before it is assigned
  kept_version,     \* local of Regist, -1 before it is assigned
  cversion,         \* local of the streaming loop, -1 outside it
  sent,             \* the commands written to each stream
  up                \* FALSE once list() has read past the end of nodes

registrarVars == <<version, nodes, size, alive_nodes>>
localVars == <<regist_version, deleted_version, kept_version, cversion>>
vars == <<version, nodes, size, alive_nodes, mtx, pc, cancelled,
          regist_version, deleted_version, kept_version, cversion, sent, up>>

(***************************************************************************)
(* Log entries.  first is -1 for a live entry, the deleting version for a  *)
(* deleted registration and 0 for a slot that resize value-initialised.    *)
(* The code of an unwritten slot is the protobuf default, ADD.             *)
(***************************************************************************)
Codes == {"ADD", "DELETE"}
Blank == [first |-> 0, call |-> NoCall, code |-> "ADD"]
Entry == [first : Int, call : Calls \cup {NoCall}, code : Codes]

\* A command in a RegistrationReply: a copy of the NodeInfo of slot v.
Command == [v : Nat, call : Calls \cup {NoCall}, code : Codes]

\* Handler control points at which the node is registered and streaming.
Streaming == {"top", "blocked", "woken", "list"}
\* Control points between the store of the ADD and the store of the DELETE.
Registered == Streaming \cup {"snapshot", "unclaim", "unstore"}
\* Control points of a handler that waits for its name to become free.
Waiting == {"nameLock", "nameSleep", "nameBlocked", "nameWoken"}
PCs == Registered \cup Waiting \cup {"idle", "check", "claim", "store", "done"}

Stored(v) == v < size /\ nodes[v].call # NoCall
\* c has been handed version v and has not yet written its slot.
Holds(c, v) == \/ pc[c] = "store" /\ regist_version[c] = v
               \/ pc[c] = "unstore" /\ deleted_version[c] = v
SentAt(c, v) == \E m \in sent[c] : m.v = v
---------------------------------------------------------------------------
Init ==
  /\ version = 0
  /\ nodes = [i \in {} |-> Blank]
  /\ size = 0
  /\ alive_nodes = {}
  /\ mtx = NoCall
  /\ pc = [c \in Calls |-> "idle"]
  /\ cancelled = [c \in Calls |-> FALSE]
  /\ regist_version = [c \in Calls |-> -1]
  /\ deleted_version = [c \in Calls |-> -1]
  /\ kept_version = [c \in Calls |-> -1]
  /\ cversion = [c \in Calls |-> -1]
  /\ sent = [c \in Calls |-> {}]
  /\ up = TRUE

Goto(c, label) == pc' = [pc EXCEPT ![c] = label]

\* pc after c moves to label and cv.notify_all wakes every blocked handler.
GotoAndNotify(c, label) ==
  pc' = [d \in Calls |-> CASE d = c -> label
                           [] d # c /\ pc[d] = "blocked" -> "woken"
                           [] d # c /\ pc[d] = "nameBlocked" -> "nameWoken"
                           [] OTHER -> pc[d]]

\* Mutant of Size: the test is nodes.size() < fixed_version.
SizeOffByOne(written) == IF size < written THEN written + Growth ELSE size

\* Mutant of Resized: the vector gets one slot fewer than it is asked for.
ResizedShort(written) ==
  [i \in 0..(written + Growth - 2) |-> IF i < size THEN nodes[i] ELSE Blank]

\* nodes.resize(written + Growth) when the slot does not exist, else as is.
Size(written) == IF size <= written THEN written + Growth ELSE size
Resized(written) ==
  [i \in 0..(Size(written) - 1) |-> IF i < size THEN nodes[i] ELSE Blank]

\* A read of nodes[i]; past the end it finds no NodeInfo of any node.
Slot(i) == IF i < size THEN nodes[i] ELSE Blank

(***************************************************************************)
(* Registrar::list(from, to): every slot of the window in version order,   *)
(* except an ADD that has been deleted and the DELETE of such an ADD when  *)
(* both lie in the window.                                                 *)
(***************************************************************************)
SkippedBlank(from, i) ==  \* mutant: the test is first >= 0
  \/ Slot(i).first >= 0
  \/ \E j \in from..(i - 1) : Slot(j).first >= 0 /\ Slot(j).first = i
SkippedAlways(from, i) ==  \* mutant: skip_version outlives the call of list
  \/ Slot(i).first > 0
  \/ \E j \in 0..(i - 1) : Slot(j).first > 0 /\ Slot(j).first = i
SkippedDelete(from, i) ==  \* mutant: the ADD of a deleted node is listed
  \E j \in from..(i - 1) : Slot(j).first > 0 /\ Slot(j).first = i
Skipped(from, i) ==
  \/ Slot(i).first > 0
  \/ \E j \in from..(i - 1) : Slot(j).first > 0 /\ Slot(j).first = i
list(from, to) ==
  {[v |-> i, call |-> Slot(i).call, code |-> Slot(i).code] :
     i \in {k \in from..to : ~Skipped(from, k)}}
---------------------------------------------------------------------------
(* The node process calls Regist; gRPC starts a handler thread for it.     *)
CallRegist(c) ==
  /\ pc[c] = "idle"
  /\ Goto(c, "check")
  /\ UNCHANGED <<registrarVars, mtx, cancelled, localVars, sent, up>>

\* The node process dies or loses its connection to the registrar.
Disconnect(c) ==
  /\ pc[c] \notin {"idle", "done"}
  /\ ~cancelled[c]
  /\ cancelled' = [cancelled EXCEPT ![c] = TRUE]
  /\ UNCHANGED <<registrarVars, mtx, pc, localVars, sent, up>>

\* if (registrar.find_exist_node(name))
find_exist_node(c) ==
  /\ pc[c] = "check"
  /\ Goto(c, IF NameOf[c] \in alive_nodes THEN "nameLock" ELSE "claim")
  /\ UNCHANGED <<registrarVars, mtx, cancelled, localVars, sent, up>>

(***************************************************************************)
(* cv.wait(lock, pred) on the name.  A true predicate ends the wait and    *)
(* the block that owns the lock, and a cancelled handler returns.  A false *)
(* predicate has been evaluated with mtx held, which the notifiers do not  *)
(* take: they can run before the handler is blocked.                       *)
(***************************************************************************)
NameFree(c) ==
  /\ pc[c] \in {"nameLock", "nameWoken"}
  /\ mtx = NoCall
  /\ NameOf[c] \notin alive_nodes \/ cancelled[c]
  /\ Goto(c, IF cancelled[c] THEN "done" ELSE "claim")
  /\ UNCHANGED <<registrarVars, mtx, cancelled, localVars, sent, up>>

NameTaken(c) ==
  /\ pc[c] \in {"nameLock", "nameWoken"}
  /\ mtx = NoCall
  /\ NameOf[c] \in alive_nodes /\ ~cancelled[c]
  /\ mtx' = c
  /\ Goto(c, "nameSleep")
  /\ UNCHANGED <<registrarVars, cancelled, localVars, sent, up>>

NameSleep(c) ==
  /\ pc[c] = "nameSleep"
  /\ mtx' = NoCall
  /\ Goto(c, "nameBlocked")
  /\ UNCHANGED <<registrarVars, cancelled, localVars, sent, up>>

\* The argument registrar.version++ of the call of registration.
ClaimVersion(c) ==
  /\ pc[c] = "claim"
  /\ regist_version' = [regist_version EXCEPT ![c] = version]
  /\ version' = version + 1
  /\ Goto(c, "store")
  /\ UNCHANGED <<nodes, size, alive_nodes, mtx, cancelled, deleted_version,
                 kept_version, cversion, sent, up>>

registration(c) ==
  /\ pc[c] = "store"
  /\ LET fixed_version == regist_version[c]
     IN  /\ size' = Size(fixed_version)
         /\ nodes' = [Resized(fixed_version) EXCEPT ![fixed_version] =
                        [first |-> -1, call |-> c, code |-> "ADD"]]
  /\ alive_nodes' = alive_nodes \cup {NameOf[c]}
  /\ Goto(c, "snapshot")
  /\ UNCHANGED <<version, mtx, cancelled, localVars, sent, up>>

(***************************************************************************)
(* The first reply, the whole log before this node's own entry, and the    *)
(* notify_all that tells the other handlers of the new entry.              *)
(***************************************************************************)
WriteSnapshot(c) ==
  /\ pc[c] = "snapshot"
  /\ sent' = [sent EXCEPT ![c] = list(0, regist_version[c] - 1)]
  /\ kept_version' = [kept_version EXCEPT ![c] = regist_version[c]]
  /\ GotoAndNotify(c, "top")
  /\ UNCHANGED <<registrarVars, mtx, cancelled, regist_version,
                 deleted_version, cversion, up>>

\* The loop head: leave when cancelled, else lock mtx and block in cv.wait.
LoopCancelled(c) ==
  /\ pc[c] = "top"
  /\ cancelled[c]
  /\ Goto(c, "unclaim")
  /\ UNCHANGED <<registrarVars, mtx, cancelled, localVars, sent, up>>

LoopWait(c) ==
  /\ pc[c] = "top"
  /\ ~cancelled[c]
  /\ mtx = NoCall
  /\ Goto(c, "blocked")
  /\ UNCHANGED <<registrarVars, mtx, cancelled, localVars, sent, up>>

\* cv.wait returns with mtx held; cversion = registrar.version - 1.
WakeBehind(c) ==
  /\ pc[c] = "woken"
  /\ mtx = NoCall
  /\ kept_version[c] + 1 <= version - 1
  /\ mtx' = c
  /\ cversion' = [cversion EXCEPT ![c] = version - 1]
  /\ Goto(c, "list")
  /\ UNCHANGED <<registrarVars, cancelled, regist_version, deleted_version,
                 kept_version, sent, up>>

\* Mutant: the handler waits again instead of testing IsCancelled.
WakeCurrentBlocks(c) ==
  /\ pc[c] = "woken"
  /\ mtx = NoCall
  /\ ~(kept_version[c] + 1 <= version - 1)
  /\ Goto(c, "blocked")
  /\ UNCHANGED <<registrarVars, mtx, cancelled, localVars, sent, up>>

WakeCurrent(c) ==
  /\ pc[c] = "woken"
  /\ mtx = NoCall
  /\ ~(kept_version[c] + 1 <= version - 1)
  /\ Goto(c, "top")
  /\ UNCHANGED <<registrarVars, mtx, cancelled, localVars, sent, up>>

\* Mutant: the window starts at kept_version.
WriteDeltaOverlap(c) ==
  /\ pc[c] = "list"
  /\ sent' = [sent EXCEPT ![c] = @ \cup list(kept_version[c], cversion[c])]
  /\ kept_version' = [kept_version EXCEPT ![c] = cversion[c]]
  /\ cversion' = [cversion EXCEPT ![c] = -1]
  /\ mtx' = NoCall
  /\ Goto(c, "top")
  /\ UNCHANGED <<registrarVars, cancelled, regist_version, deleted_version, up>>

\* list(kept_version + 1, cversion) and a Write that succeeds.
WriteDelta(c) ==
  /\ pc[c] = "list"
  /\ sent' = [sent EXCEPT ![c] = @ \cup list(kept_version[c] + 1, cversion[c])]
  /\ kept_version' = [kept_version EXCEPT ![c] = cversion[c]]
  /\ cversion' = [cversion EXCEPT ![c] = -1]
  /\ mtx' = NoCall
  /\ Goto(c, "top")
  /\ UNCHANGED <<registrarVars, cancelled, regist_version, deleted_version, up>>

\* The same, with a Write that fails because the node is gone.
WriteFails(c) ==
  /\ pc[c] = "list"
  /\ cancelled[c]
  /\ cversion' = [cversion EXCEPT ![c] = -1]
  /\ mtx' = NoCall
  /\ Goto(c, "unclaim")
  /\ UNCHANGED <<registrarVars, cancelled, regist_version, deleted_version,
                 kept_version, sent, up>>

(***************************************************************************)
(* list indexes nodes[i] with i >= nodes.size(): undefined behaviour.  The *)
(* server may crash here, or read a slot without a node (WriteDelta).      *)
(***************************************************************************)
ReadPastEnd(c) ==
  /\ pc[c] = "list"
  /\ cversion[c] >= size
  /\ up' = FALSE
  /\ UNCHANGED <<registrarVars, mtx, pc, cancelled, localVars, sent>>

\* Mutant: the deleting version is read but not taken.
ClaimDeletionShared(c) ==
  /\ pc[c] = "unclaim"
  /\ deleted_version' = [deleted_version EXCEPT ![c] = version - 1]
  /\ Goto(c, "unstore")
  /\ UNCHANGED <<registrarVars, mtx, cancelled, regist_version,
                 kept_version, cversion, sent, up>>

\* const int deleted_version = version ++;
ClaimDeletion(c) ==
  /\ pc[c] = "unclaim"
  /\ deleted_version' = [deleted_version EXCEPT ![c] = version]
  /\ version' = version + 1
  /\ Goto(c, "unstore")
  /\ UNCHANGED <<nodes, size, alive_nodes, mtx, cancelled, regist_version,
                 kept_version, cversion, sent, up>>

\* Mutant: the name stays in alive_nodes.
deregistrationKeepsName(c) ==
  /\ pc[c] = "unstore"
  /\ LET deleted == deleted_version[c]
         regist  == regist_version[c]
     IN  /\ size' = Size(deleted)
         /\ nodes' = [Resized(deleted) EXCEPT
                        ![deleted] = [first |-> -1, code |-> "DELETE",
                                      call |-> nodes[regist].call],
                        ![regist].first = deleted]
  /\ GotoAndNotify(c, "done")
  /\ UNCHANGED <<version, alive_nodes, mtx, cancelled, localVars, sent, up>>

\* The rest of deregistration, and the notify_all that follows it in Regist.
deregistration(c) ==
  /\ pc[c] = "unstore"
  /\ LET deleted == deleted_version[c]
         regist  == regist_version[c]
     IN  /\ size' = Size(deleted)
         /\ nodes' = [Resized(deleted) EXCEPT
                        ![deleted] = [first |-> -1, code |-> "DELETE",
                                      call |-> nodes[regist].call],
                        ![regist].first = deleted]
         /\ alive_nodes' = alive_nodes \ {NameOf[nodes[regist].call]}
  /\ GotoAndNotify(c, "done")
  /\ UNCHANGED <<version, mtx, cancelled, localVars, sent, up>>

\* Mutants: no notify_all; a condition variable of its own for the name wait.
Healthy_CheckSilent == UNCHANGED vars
Healthy_CheckStreams ==
  /\ pc' = [c \in Calls |-> IF pc[c] = "blocked" THEN "woken" ELSE pc[c]]
  /\ UNCHANGED <<registrarVars, mtx, cancelled, localVars, sent, up>>

\* Healthy_Check wakes every blocked handler once per healthy_check_sec.
Healthy_Check ==
  /\ pc' = [c \in Calls |-> CASE pc[c] = "blocked" -> "woken"
                              [] pc[c] = "nameBlocked" -> "nameWoken"
                              [] OTHER -> pc[c]]
  /\ UNCHANGED <<registrarVars, mtx, cancelled, localVars, sent, up>>
---------------------------------------------------------------------------
(* Steps of the handler thread of c, and steps it takes holding no lock.   *)
Lockless(c) ==
  \/ find_exist_node(c) \/ NameSleep(c) \/ ClaimVersion(c) \/ registration(c)
  \/ WriteSnapshot(c) \/ LoopCancelled(c) \/ WriteDelta(c) \/ WriteFails(c)
  \/ ReadPastEnd(c) \/ ClaimDeletion(c) \/ deregistration(c)
Locking(c) ==
  \/ NameFree(c) \/ NameTaken(c) \/ LoopWait(c) \/ WakeBehind(c) \/ WakeCurrent(c)
Handler(c) == Lockless(c) \/ Locking(c)

Next == /\ up
        /\ \/ \E c \in Calls : CallRegist(c) \/ Disconnect(c) \/ Handler(c)
           \/ Healthy_Check

Spec == Init /\ [][Next]_vars

(***************************************************************************)
(* Handler threads and the health-check thread are scheduled; a handler    *)
(* that keeps finding mtx free at some moments eventually gets it.  Nodes  *)
(* need neither call nor disconnect.                                       *)
(***************************************************************************)
FairSpec == /\ Spec
            /\ \A c \in Calls : WF_vars(up /\ Lockless(c))
            /\ \A c \in Calls : SF_vars(up /\ Locking(c))
            /\ WF_vars(up /\ Healthy_Check)
---------------------------------------------------------------------------
(* Properties.                                                             *)

\* Every variable keeps its type; size is the extent of nodes.
TypeOK ==
  /\ version \in Nat
  /\ size \in Nat
  /\ nodes \in [0..(size - 1) -> Entry]
  /\ alive_nodes \in SUBSET Names
  /\ mtx \in Calls \cup {NoCall}
  /\ pc \in [Calls -> PCs]
  /\ cancelled \in [Calls -> BOOLEAN]
  /\ regist_version \in [Calls -> Int]
  /\ deleted_version \in [Calls -> Int]
  /\ kept_version \in [Calls -> Int]
  /\ cversion \in [Calls -> Int]
  /\ sent \in [Calls -> SUBSET Command]
  /\ up \in BOOLEAN

(***************************************************************************)
(* version++ happens before registrar.mtx is taken, so versions are stored *)
(* out of order.  Still every version handed out is either in the log, and *)
(* then nobody will write its slot again, or held by exactly one handler   *)
(* that has yet to write it.                                               *)
(***************************************************************************)
VersionsAccounted ==
  \A v \in 0..(version - 1) :
    /\ Stored(v) => \A c \in Calls : ~Holds(c, v)
    /\ ~Stored(v) => \E c \in Calls : /\ Holds(c, v)
                                      /\ \A d \in Calls : Holds(d, v) => d = c

(***************************************************************************)
(* A live registration at or below kept_version has been written to the    *)
(* stream, even though list() drops entries and each stream reads the log  *)
(* in windows of its own; the only other possibility is that the slot was  *)
(* still unwritten when it was read (NoCall).                              *)
(***************************************************************************)
LiveNodesSent ==
  \A c \in Calls : pc[c] \in Streaming =>
    \A v \in 0..kept_version[c] :
      (Stored(v) /\ v # regist_version[c] /\ nodes[v].code = "ADD"
         /\ nodes[v].first = -1)
        => \E m \in sent[c] : m.v = v /\ m.call \in {nodes[v].call, NoCall}

(***************************************************************************)
(* A node that was sent a registration is sent the DELETE too, once the    *)
(* stream has passed its version: list() drops a DELETE only with its ADD, *)
(* wherever the windows of the stream fall.  The one other possibility,    *)
(* as for LiveNodesSent, is a slot that was read between version++ and     *)
(* the store of the DELETE (NoCall): the node is then never told that the  *)
(* process has gone, which EveryNodeDiscovered is about.                   *)
(***************************************************************************)
DeletionsSent ==
  \A c \in Calls : pc[c] \in Streaming =>
    \A v \in 0..kept_version[c] :
      (Stored(v) /\ nodes[v].code = "DELETE"
         /\ SentAt(c, regist_version[nodes[v].call]))
        => \E m \in sent[c] : m.v = v /\ m.call \in {nodes[v].call, NoCall}

(***************************************************************************)
(* A command in a stream is the entry of the log at its version, unless it *)
(* was copied from a slot nobody had written; and no stream contains its   *)
(* own registration or a version it has not yet kept.                      *)
(***************************************************************************)
CommandsFaithful ==
  \A c \in Calls : \A m \in sent[c] :
    /\ m.v # regist_version[c] /\ m.v <= kept_version[c]
    /\ m.call # NoCall => /\ Stored(m.v)
                          /\ m.call = nodes[m.v].call
                          /\ m.code = nodes[m.v].code

(***************************************************************************)
(* A name in alive_nodes has a handler that is between its registration    *)
(* and its deregistration, and so will take the name out again: a dead     *)
(* process cannot block its name for ever.                                 *)
(***************************************************************************)
AliveHasHolder ==
  \A n \in alive_nodes : \E c \in Calls : NameOf[c] = n /\ pc[c] \in Registered

(***************************************************************************)
(* The log is append-only: a written slot keeps its node and its code, and *)
(* its first changes at most once, from -1 to a later version.             *)
(***************************************************************************)
LogAppendOnly ==
  [][\A v \in 0..(size - 1) : Stored(v) =>
       /\ Stored(v)'
       /\ nodes'[v].call = nodes[v].call /\ nodes'[v].code = nodes[v].code
       /\ \/ nodes'[v].first = nodes[v].first
          \/ nodes[v].first = -1 /\ nodes[v].code = "ADD" /\ nodes'[v].first > v
    ]_vars

(***************************************************************************)
(* The registrar implements Discovery: a process is live from the store of *)
(* its ADD to the store of its DELETE, and has been told what was written  *)
(* to its stream, except for copies of slots nobody had written.  So no    *)
(* stream ever announces a process that has left, whatever the order in    *)
(* which versions are taken and stored and wherever its windows fall.      *)
(***************************************************************************)
Life(c) == CASE pc[c] \in Registered -> "live"
             [] pc[c] = "done" /\ deleted_version[c] >= 0 -> "gone"
             [] OTHER -> "new"
Told(c, code) == {m.call : m \in {k \in sent[c] : k.code = code}} \ {NoCall}
D == INSTANCE Discovery WITH Nodes <- Calls,
                             life <- [c \in Calls |-> Life(c)],
                             added <- [c \in Calls |-> Told(c, "ADD")],
                             deleted <- [c \in Calls |-> Told(c, "DELETE")]
ImplementsDiscovery == D!Spec

(***************************************************************************)
(* Every stream catches up with every version handed out while it runs,    *)
(* although the notifications of registration and deregistration can fall  *)
(* between the loop head and cv.wait and be lost.                          *)
(***************************************************************************)
StreamsCatchUp ==
  \A c \in Calls : \A v \in 1..(2 * Cardinality(Calls)) :
    (pc[c] \in Streaming /\ version = v)
      ~> (kept_version[c] >= v - 1 \/ pc[c] \notin Streaming \/ ~up)

(***************************************************************************)
(* A registered node that goes away is deregistered, although its handler  *)
(* looks at IsCancelled only when something wakes it.                      *)
(***************************************************************************)
DisconnectNoticed ==
  \A c \in Calls :
    (cancelled[c] /\ pc[c] \in Registered) ~> (pc[c] = "done" \/ ~up)

(***************************************************************************)
(* A node that waits for its name gets it once every other process of that *)
(* name has gone, although the wake-up of the deregistration can be lost.  *)
(***************************************************************************)
LiveRival(c) == \E d \in Calls \ {c} : /\ NameOf[d] = NameOf[c]
                                       /\ pc[d] \notin {"idle", "done"}
                                       /\ ~cancelled[d]
RestartServed ==
  \A c \in Calls :
    (pc[c] \in Waiting /\ ~LiveRival(c))
      ~> (pc[c] \notin Waiting \/ LiveRival(c) \/ ~up)

(***************************************************************************)
(* README.md: the registrar is there for "node discovery and               *)
(* deregistration notifications".  What a stream has passed, its node has  *)
(* been told of: every live node, and the deletion of every node it was    *)
(* told of.  A slot listed between version++ and its store breaks either.  *)
(***************************************************************************)
ToldOf(c, v) == \E m \in sent[c] : m.v = v /\ m.call = nodes[v].call
EveryNodeDiscovered ==
  \A c \in Calls : pc[c] \in Streaming =>
    \A v \in 0..kept_version[c] : (Stored(v) /\ v # regist_version[c]) =>
      /\ (nodes[v].code = "ADD" /\ nodes[v].first = -1) => ToldOf(c, v)
      /\ (nodes[v].code = "DELETE" /\ ToldOf(c, regist_version[nodes[v].call])) => ToldOf(c, v)
=============================================================================
