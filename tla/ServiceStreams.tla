-------------------------- MODULE ServiceStreams --------------------------
(***************************************************************************)
(* The streams of a ServiceServer (cpp/include/ServiceServer.hpp, and its  *)
(* constructor in cpp/include/rscl.hpp): stream ids that are listened on,  *)
(* taken by a client, and used again when the client has gone, while the   *)
(* callback of that client may still be running.                           *)
(*                                                                         *)
(* Threads: the event thread, which takes the tags of completed operations *)
(* from the completion queue one at a time, and one callback thread per    *)
(* stream with a call.  ServiceCall has what a single stream carries; here *)
(* the messages are reduced to their setting.  Tags that come with ok =    *)
(* false are deleted unseen and left out.                                  *)
(***************************************************************************)
EXTENDS Integers, Sequences, SequencesExt, FiniteSets

CONSTANTS
  PoolSize,     \* streams listened on from the start, 10 in the code
  MaxClients,   \* bound: clients that connect
  MaxMessages   \* bound: messages they send

ASSUME PoolAssumption == PoolSize \in Nat \ {0}
ASSUME BoundsAssumption == MaxClients \in Nat /\ MaxMessages \in Nat

\* Clients are numbered in the order of their calls.
Clients == 1..MaxClients
NoClient == 0

VARIABLES
  dialled,      \* how many clients have dialled
  conn,         \* each client: "new", "connected", "closed"
  messages,     \* how many messages clients have sent
  cq,           \* tags of completed operations, with the setting of a READ
  event,        \* the event thread: control point and the ids it works on
  server,       \* "up", or what ended the process
  stream_id, reusable_id,
  listening,    \* ids with a RequestServicePullRequest that waits
  owner,        \* the client of the stream in streams_[id]
  reading, writing,  \* ids with a Read or a Write that is not complete
  calls_status,
  future_storages,   \* whether future_storages[id] is valid
  callback,     \* the callback thread of each id and the client it works for
  served        \* clients that have had a request accepted

clientVars == <<dialled, conn, messages>>
idVars == <<stream_id, reusable_id, listening, owner>>
callVars == <<calls_status, future_storages, callback, served>>
vars == <<clientVars, cq, event, server, idVars, reading, writing, callVars>>

Ids == 0..(PoolSize + MaxClients - 1)
Settings == {"PULL_NEW_REQ", "SET_CANCELED"}
\* A stream treats FAILED as it treats SUCCESS.
Outcomes == {"SUCCESS", "ABORTED"}
InProgress == {"PROCESS", "PROMPTED"}
Statuses == Outcomes \cup InProgress \cup {"SUSPEND"}
Idle == [pc |-> "next", id |-> 0, new |-> 0]
NoCall == [pc |-> "none", client |-> NoClient]

Tag(type, id, setting) == [type |-> type, id |-> id, setting |-> setting]
Tags == [type : {"CONNECT", "READ", "BROKEN_PIPE"}, id : Ids,
         setting : Settings \cup {"none"}]
Complete(type, id) == cq' = Append(cq, Tag(type, id, "none"))
---------------------------------------------------------------------------
(* The constructor has listened on PoolSize streams: the future of each    *)
(* was taken by CreateListenPort.                                          *)
Init ==
  /\ dialled = 0
  /\ conn = [c \in Clients |-> "new"]
  /\ messages = 0
  /\ cq = <<>> /\ event = Idle /\ server = "up"
  /\ stream_id = PoolSize /\ reusable_id = <<>>
  /\ listening = 0..(PoolSize - 1)
  /\ owner = [i \in Ids |-> NoClient]
  /\ reading = {} /\ writing = {}
  /\ calls_status = [i \in Ids |-> "SUSPEND"]
  /\ future_storages = [i \in Ids |-> FALSE]
  /\ callback = [i \in Ids |-> NoCall]
  /\ served = {}

(* The clients, and gRPC, which gives calls in their order to streams that *)
(* are listened on.                                                        *)
Dial ==
  /\ dialled < MaxClients
  /\ dialled' = dialled + 1
  /\ UNCHANGED <<conn, messages, cq, event, server, idVars, reading, writing, callVars>>

Accept(c, i) ==
  /\ server = "up" /\ c <= dialled /\ conn[c] = "new" /\ i \in listening
  /\ \A d \in 1..(c - 1) : conn[d] # "new"
  /\ conn' = [conn EXCEPT ![c] = "connected"]
  /\ owner' = [owner EXCEPT ![i] = c]
  /\ listening' = listening \ {i}
  /\ Complete("CONNECT", i)
  /\ UNCHANGED <<dialled, messages, event, server, stream_id, reusable_id, reading, writing,
                 callVars>>

\* A message arrives at a stream that has a Read.
Send(i, setting) ==
  /\ server = "up" /\ i \in reading /\ messages < MaxMessages
  /\ messages' = messages + 1
  /\ reading' = reading \ {i}
  /\ cq' = Append(cq, Tag("READ", i, setting))
  /\ UNCHANGED <<dialled, conn, event, server, idVars, writing, callVars>>

\* The client goes: what was not complete on its stream comes with ok = false.
Close(c, i) ==
  /\ server = "up" /\ conn[c] = "connected" /\ owner[i] = c
  /\ conn' = [conn EXCEPT ![c] = "closed"]
  /\ reading' = reading \ {i} /\ writing' = writing \ {i}
  /\ Complete("BROKEN_PIPE", i)
  /\ UNCHANGED <<dialled, messages, event, server, idVars, callVars>>

\* The handler of its tag WRITE finds reply_wait_queue empty and does nothing.
WriteDone(i) ==
  /\ server = "up" /\ i \in writing
  /\ writing' = writing \ {i}
  /\ UNCHANGED <<clientVars, cq, event, server, idVars, reading, callVars>>
---------------------------------------------------------------------------
IsCancelled(i) == conn[owner[i]] = "closed"

(***************************************************************************)
(* write_reply: nothing for a client that has gone.  reply_wait_queue is   *)
(* pushed to only when it is not empty, so it never is: the reply is       *)
(* written at once, and gRPC ends the process if a Write is in progress.   *)
(***************************************************************************)
write_reply(i) ==
  IF IsCancelled(i) THEN UNCHANGED <<writing, server>>
  ELSE IF i \in writing THEN server' = "two writes" /\ UNCHANGED writing
  ELSE writing' = writing \cup {i} /\ UNCHANGED server

\* The next tag, of the given type, is taken from the completion queue.
Take(type) ==
  /\ server = "up" /\ event.pc = "next" /\ cq # <<>> /\ Head(cq).type = type
  /\ cq' = Tail(cq)

(* handle_event, CONNECT: generate_stream_id, which prefers a used id.     *)

\* Mutant: an id of the queue is used but not popped.
ConnectUnpopped ==
  /\ Take("CONNECT")
  /\ IF reusable_id # <<>>
       THEN /\ event' = [pc |-> "abort", id |-> Head(cq).id, new |-> Head(reusable_id)]
            /\ UNCHANGED <<reusable_id, stream_id, future_storages>>
       ELSE /\ event' = [pc |-> "get", id |-> Head(cq).id, new |-> stream_id]
            /\ stream_id' = stream_id + 1
            /\ future_storages' = [future_storages EXCEPT ![stream_id] = TRUE]
            /\ UNCHANGED reusable_id
  /\ UNCHANGED <<clientVars, server, listening, owner, reading, writing, calls_status,
                 callback, served>>

Connect ==
  /\ Take("CONNECT")
  /\ IF reusable_id # <<>>
       THEN /\ event' = [pc |-> "abort", id |-> Head(cq).id, new |-> Head(reusable_id)]
            /\ reusable_id' = Tail(reusable_id)
            /\ UNCHANGED <<stream_id, future_storages>>
       ELSE /\ event' = [pc |-> "get", id |-> Head(cq).id, new |-> stream_id]
            /\ stream_id' = stream_id + 1
            /\ future_storages' = [future_storages EXCEPT ![stream_id] = TRUE]
            /\ UNCHANGED reusable_id
  /\ UNCHANGED <<clientVars, server, listening, owner, reading, writing, calls_status,
                 callback, served>>

\* setAborted of CreateListenPort: its test, and its store.
AbortTest ==
  /\ server = "up" /\ event.pc = "abort"
  /\ event' = [event EXCEPT !.pc = IF calls_status[event.new] \in InProgress
                                     THEN "store" ELSE "get"]
  /\ UNCHANGED <<clientVars, cq, server, idVars, reading, writing, callVars>>

\* Mutant: the call in progress is not aborted.
setAbortedNot ==
  /\ server = "up" /\ event.pc = "store"
  /\ event' = [event EXCEPT !.pc = "get"]
  /\ UNCHANGED <<clientVars, cq, server, idVars, reading, writing, callVars>>

setAborted ==
  /\ server = "up" /\ event.pc = "store"
  /\ calls_status' = [calls_status EXCEPT ![event.new] = "ABORTED"]
  /\ event' = [event EXCEPT !.pc = "get"]
  /\ UNCHANGED <<clientVars, cq, server, idVars, reading, writing, future_storages,
                 callback, served>>

\* get of a future that was taken before throws out of the event thread.
GetThrows ==
  /\ server = "up" /\ event.pc = "get" /\ ~future_storages[event.new]
  /\ server' = "no future"
  /\ UNCHANGED <<clientVars, cq, event, idVars, reading, writing, callVars>>

\* Mutant: the callback of the last client is not waited for.
ListenAtOnce ==
  /\ server = "up" /\ event.pc = "get" /\ future_storages[event.new]
  /\ future_storages' = [future_storages EXCEPT ![event.new] = FALSE]
  /\ owner' = [owner EXCEPT ![event.new] = NoClient]
  /\ listening' = listening \cup {event.new}
  /\ event' = [event EXCEPT !.pc = "read"]
  /\ UNCHANGED <<clientVars, cq, server, stream_id, reusable_id, reading, writing,
                 calls_status, callback, served>>

\* get returns when the callback of the last client is done; then a new
\* context and stream are listened on.
CreateListenPort ==
  /\ server = "up" /\ event.pc = "get" /\ future_storages[event.new]
  /\ callback[event.new] = NoCall
  /\ future_storages' = [future_storages EXCEPT ![event.new] = FALSE]
  /\ owner' = [owner EXCEPT ![event.new] = NoClient]
  /\ listening' = listening \cup {event.new}
  /\ event' = [event EXCEPT !.pc = "read"]
  /\ UNCHANGED <<clientVars, cq, server, stream_id, reusable_id, reading, writing,
                 calls_status, callback, served>>

\* A Read completes with ok = false if the client has gone.
Read(i) == reading' = IF IsCancelled(i) THEN reading ELSE reading \cup {i}

\* The rest of CONNECT: setSuspend and the first Read.
ConnectRead ==
  /\ server = "up" /\ event.pc = "read"
  /\ calls_status' = [calls_status EXCEPT ![event.id] =
                        IF @ \in InProgress THEN @ ELSE "SUSPEND"]
  /\ Read(event.id)
  /\ event' = Idle
  /\ UNCHANGED <<clientVars, cq, server, idVars, writing, future_storages, callback,
                 served>>
---------------------------------------------------------------------------
(* handle_event, READ.                                                     *)

\* Mutant: the callback runs in a detached thread, no future is kept.
HandlePullDetached ==
  LET i == Head(cq).id
  IN  /\ Take("READ") /\ Head(cq).setting = "PULL_NEW_REQ"
      /\ calls_status[i] = "SUSPEND"
      /\ calls_status' = [calls_status EXCEPT ![i] = "PROCESS"]
      /\ write_reply(i)
      /\ callback' = [callback EXCEPT ![i] = [pc |-> "run", client |-> owner[i]]]
      /\ served' = served \cup {owner[i]}
      /\ Read(i)
      /\ UNCHANGED <<clientVars, event, idVars, future_storages>>

HandlePull ==
  LET i == Head(cq).id
  IN  /\ Take("READ") /\ Head(cq).setting = "PULL_NEW_REQ"
      /\ calls_status[i] = "SUSPEND"
      /\ calls_status' = [calls_status EXCEPT ![i] = "PROCESS"]
      /\ write_reply(i)
      /\ future_storages' = [future_storages EXCEPT ![i] = TRUE]
      /\ callback' = [callback EXCEPT ![i] = [pc |-> "run", client |-> owner[i]]]
      /\ served' = served \cup {owner[i]}
      /\ Read(i)
      /\ UNCHANGED <<clientVars, event, idVars>>

\* A cancel of a call in process: the test of setPrompted, then the rest.
HandleCancel ==
  /\ Take("READ") /\ Head(cq).setting = "SET_CANCELED"
  /\ calls_status[Head(cq).id] = "PROCESS"
  /\ event' = [event EXCEPT !.pc = "prompt", !.id = Head(cq).id]
  /\ UNCHANGED <<clientVars, server, idVars, reading, writing, callVars>>

setPrompted ==
  /\ server = "up" /\ event.pc = "prompt"
  /\ calls_status' = [calls_status EXCEPT ![event.id] = "PROMPTED"]
  /\ write_reply(event.id)
  /\ Read(event.id)
  /\ event' = Idle
  /\ UNCHANGED <<clientVars, cq, idVars, future_storages, callback, served>>

HandleInvalid ==
  LET i == Head(cq).id
  IN  /\ Take("READ")
      /\ calls_status[i] # (IF Head(cq).setting = "PULL_NEW_REQ" THEN "SUSPEND"
                                                                 ELSE "PROCESS")
      /\ Read(i)
      /\ UNCHANGED <<clientVars, event, server, idVars, writing, callVars>>

(* BROKEN_PIPE gives the id back.                                          *)
BrokenPipe ==
  /\ Take("BROKEN_PIPE")
  /\ reusable_id' = Append(reusable_id, Head(cq).id)
  /\ UNCHANGED <<clientVars, event, server, stream_id, listening, owner, reading,
                 writing, callVars>>
---------------------------------------------------------------------------
(* The callback thread of stream i: the user's function may set an outcome *)
(* before it returns; then endStatus, write_reply and setSuspend.          *)
CallbackAt(i, pc) == server = "up" /\ callback[i].pc = pc
CallbackOnly == UNCHANGED <<clientVars, cq, event, idVars, reading, future_storages, served>>

SetOutcome(i) ==
  /\ CallbackAt(i, "run") /\ calls_status[i] \in InProgress
  /\ \E outcome \in Outcomes : calls_status' = [calls_status EXCEPT ![i] = outcome]
  /\ CallbackOnly /\ UNCHANGED <<server, writing, callback>>

endStatus(i) ==
  /\ CallbackAt(i, "run")
  /\ calls_status' = [calls_status EXCEPT ![i] = IF @ \in Outcomes THEN @ ELSE "ABORTED"]
  /\ callback' = [callback EXCEPT ![i].pc = "write"]
  /\ CallbackOnly /\ UNCHANGED <<server, writing>>

WriteFinal(i) ==
  /\ CallbackAt(i, "write")
  /\ write_reply(i)
  /\ callback' = [callback EXCEPT ![i].pc = "suspend"]
  /\ CallbackOnly /\ UNCHANGED calls_status

\* A cancel handled since endStatus keeps the call from being suspended.
setSuspend(i) ==
  /\ CallbackAt(i, "suspend")
  /\ calls_status' = [calls_status EXCEPT ![i] = IF @ \in InProgress THEN @ ELSE "SUSPEND"]
  /\ callback' = [callback EXCEPT ![i] = NoCall]
  /\ CallbackOnly /\ UNCHANGED <<server, writing>>
---------------------------------------------------------------------------
Event == \/ Connect \/ AbortTest \/ setAborted \/ GetThrows \/ CreateListenPort
         \/ ConnectRead \/ HandlePull \/ HandleCancel \/ setPrompted \/ HandleInvalid
         \/ BrokenPipe
Callback(i) == endStatus(i) \/ WriteFinal(i) \/ setSuspend(i)

Next ==
  \/ Dial
  \/ \E c \in Clients, i \in Ids : Accept(c, i) \/ Close(c, i)
  \/ \E i \in Ids : \/ \E s \in Settings : Send(i, s)
                    \/ WriteDone(i) \/ SetOutcome(i) \/ Callback(i)
  \/ Event

Spec == Init /\ [][Next]_vars

(***************************************************************************)
(* gRPC accepts calls, the event thread runs, and a callback it waits for  *)
(* returns when its call has an outcome: cpp/test/svc_server.cpp asks a    *)
(* callback to "always check if the server has been aborted at regular     *)
(* intervals".                                                             *)
(***************************************************************************)
AwaitedCallback ==
  /\ event.pc = "get"
  /\ calls_status[event.new] \notin InProgress \/ callback[event.new].pc # "run"
  /\ Callback(event.new)

Fairness ==
  /\ WF_vars(Event)
  /\ WF_vars(\E c \in Clients, i \in Ids : Accept(c, i))
  /\ WF_vars(AwaitedCallback)

FairSpec == Spec /\ Fairness
---------------------------------------------------------------------------
(* Properties.                                                             *)

\* Every variable keeps its type.
TypeOK ==
  /\ dialled \in 0..MaxClients
  /\ conn \in [Clients -> {"new", "connected", "closed"}]
  /\ messages \in 0..MaxMessages
  /\ cq \in Seq(Tags)
  /\ event \in [pc : {"next", "abort", "store", "get", "read", "prompt"}, id : Ids, new : Ids]
  /\ server \in {"up", "two writes", "no future"}
  /\ stream_id \in PoolSize..(PoolSize + MaxClients)
  /\ reusable_id \in Seq(Ids)
  /\ listening \subseteq Ids /\ reading \subseteq Ids /\ writing \subseteq Ids
  /\ owner \in [Ids -> Clients \cup {NoClient}]
  /\ calls_status \in [Ids -> Statuses]
  /\ future_storages \in [Ids -> BOOLEAN]
  /\ callback \in [Ids -> [pc : {"none", "run", "write", "suspend"},
                           client : Clients \cup {NoClient}]]
  /\ served \subseteq Clients

\* Streams whose CONNECT is in the completion queue.
Connecting == {i \in Ids : \E k \in DOMAIN cq : cq[k].type = "CONNECT" /\ cq[k].id = i}

(***************************************************************************)
(* The pool neither shrinks nor grows: between events PoolSize streams are *)
(* listened on or have a CONNECT that is still to be handled, none both;   *)
(* and an id that may be used again is not in use, and is there once.      *)
(* (The types of the variables are part of this invariant.)                *)
(***************************************************************************)
PoolKept ==
  /\ TypeOK
  /\ event.pc = "next" => Cardinality(listening \cup Connecting) = PoolSize
  /\ listening \cap Connecting = {}
  /\ IsInjective(reusable_id)
  /\ \A i \in ToSet(reusable_id) : i \notin listening /\ conn[owner[i]] = "closed"

(***************************************************************************)
(* A callback works on the stream of the client whose request started it:  *)
(* the stream is not replaced under it when its client has gone.           *)
(***************************************************************************)
CallbackOnOwnStream ==
  \A i \in Ids : callback[i] # NoCall => callback[i].client = owner[i]

(***************************************************************************)
(* The event thread dies on a stream id that is used again only if the     *)
(* last client of that id has gone without a request of it being accepted. *)
(***************************************************************************)
OnlyIdleClientsBreak ==
  server = "no future" =>
    LET last == owner[event.new] IN conn[last] = "closed" /\ last \notin served

(***************************************************************************)
(* A client that dials is taken, and its stream read from, whatever the    *)
(* callbacks of clients that have gone are doing, unless the process ends. *)
(***************************************************************************)
DialledServed ==
  \A c \in Clients :
    (c <= dialled /\ conn[c] = "new")
      ~> (\/ \E i \in Ids : owner[i] = c /\ i \in reading
          \/ conn[c] = "closed" \/ server # "up")
=============================================================================
