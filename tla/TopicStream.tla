---------------------------- MODULE TopicStream ----------------------------
(***************************************************************************)
(* A topic's TCP connection from a publisher to a subscriber: the write    *)
(* buffer and non-blocking writes of TCPClient (cpp/src/TCPClient.cpp),    *)
(* the receive buffer of TCPServer (cpp/src/TCPServer.cpp) and the framing *)
(* of messages (cpp/include/serialization.hpp).                            *)
(*                                                                         *)
(* Threads: the publisher, the thread add_client starts to bring the       *)
(* connection into clients_topic_fd, and the subscriber that spins.        *)
(* Messages are numbered; the frame of a message is a sequence of units,   *)
(* the first of which stands for the four bytes with its length.  write    *)
(* and recv move any number of units the socket has room or data for.      *)
(***************************************************************************)
EXTENDS Integers, Sequences, FiniteSets, SequencesExt

CONSTANTS
  Sizes,                  \* the number of units of each message published
  MAX_WRITE_BUFFER_SIZE,  \* a longer write buffer drops new messages
  Window                  \* units the socket holds between the two nodes

ASSUME SizesAssumption == Sizes \in Seq(Nat \ {0})
ASSUME LimitsAssumption == MAX_WRITE_BUFFER_SIZE \in Nat /\ Window \in Nat \ {0}

VARIABLES
  published,    \* messages published so far
  cache,        \* static_topic_cache[topic]
  pub, join,    \* control points of the publisher and of add_client's thread
  clients_data, \* clients_data[fd]
  writer,       \* the thread inside write_fd, which holds mtx, and its locals
  errno,        \* errno of the two threads: what the last failed call left
  socket,       \* units written and not received
  open,         \* the publisher has not closed fd
  fd_receive_data,  \* the subscriber's buffer
  delivered,    \* messages passed to the callbacks
  torn          \* a write or a join has left a frame incomplete or repeated

vars == <<published, cache, pub, join, clients_data, writer, errno, socket, open,
          fd_receive_data, delivered, torn>>

Messages == 1..Len(Sizes)
Threads == {"pub", "join"}
Units == UNION {{[msg |-> m, pos |-> i] : i \in 1..Sizes[m]} : m \in Messages}
NoWriter == [thread |-> "none", to_send |-> <<>>, n |-> 0]

\* serialize: the length first, the message after it.
serialize(m) == [i \in 1..Sizes[m] |-> [msg |-> m, pos |-> i]]

(***************************************************************************)
(* decode: how many units are whole frames, and the messages in them.  A   *)
(* unit that is no length would be read as a length nobody wrote; the      *)
(* model stops there, and no property speaks of what follows.              *)
(***************************************************************************)
Whole(buf, o) ==
  /\ o < Len(buf) /\ buf[o + 1].pos = 1
  /\ o + Sizes[buf[o + 1].msg] <= Len(buf)
decode(buf) ==
  LET from[o \in 0..Len(buf)] ==
        IF Whole(buf, o)
          THEN LET rest == from[o + Sizes[buf[o + 1].msg]]
               IN  [consumed |-> rest.consumed, msgs |-> <<buf[o + 1].msg>> \o rest.msgs]
          ELSE [consumed |-> o, msgs |-> <<>>]
  IN  from[0]
---------------------------------------------------------------------------
Init ==
  /\ published = 0 /\ cache = {}
  /\ pub = "idle" /\ join = "select"
  /\ clients_data = <<>>
  /\ writer = NoWriter
  /\ errno = [t \in Threads |-> "other"]
  /\ socket = <<>> /\ open = TRUE
  /\ fd_receive_data = <<>> /\ delivered = <<>>
  /\ torn = FALSE

Registered == join # "select" /\ open
subscriberVars == <<fd_receive_data, delivered>>

\* publish(msg, true): write_to_cache, and mtx is free again.
write_to_cache ==
  /\ pub = "idle" /\ published < Len(Sizes) /\ writer = NoWriter
  /\ published' = published + 1
  /\ cache' = cache \cup {published + 1}
  /\ pub' = "cached"
  /\ UNCHANGED <<join, clients_data, writer, errno, socket, open, subscriberVars, torn>>

\* publish(msg): straight to write_to_socket.
PublishUncached ==
  /\ pub = "idle" /\ published < Len(Sizes) /\ writer = NoWriter
  /\ published' = published + 1
  /\ pub' = "uncached"
  /\ UNCHANGED <<cache, join, clients_data, writer, errno, socket, open,
                 subscriberVars, torn>>

\* The message goes to the buffer; write_fd starts with a copy of the buffer.
Send(data) ==
  /\ clients_data' = data
  /\ writer' = [thread |-> "pub", to_send |-> data, n |-> Len(data)]

\* Mutant: the limit is for the buffer with the message.
write_to_socketCounted ==
  /\ pub \in {"cached", "uncached"} /\ writer = NoWriter
  /\ IF Registered /\ Len(clients_data) + Sizes[published] <= MAX_WRITE_BUFFER_SIZE
       THEN Send(clients_data \o serialize(published)) /\ pub' = "write"
       ELSE pub' = "idle" /\ UNCHANGED <<clients_data, writer>>
  /\ torn' = (torn \/ (Registered /\ join = "inserted"))
  /\ UNCHANGED <<published, cache, join, errno, socket, open, subscriberVars>>

(***************************************************************************)
(* write_to_socket for this fd: nothing if it is not in clients_topic_fd   *)
(* or its buffer is over the limit.  A publication while add_client's      *)
(* thread is between clients_topic_fd and clients_data will be overwritten *)
(* there.                                                                  *)
(***************************************************************************)
write_to_socket ==
  /\ pub \in {"cached", "uncached"} /\ writer = NoWriter
  /\ IF Registered /\ Len(clients_data) <= MAX_WRITE_BUFFER_SIZE
       THEN Send(clients_data \o serialize(published)) /\ pub' = "write"
       ELSE pub' = "idle" /\ UNCHANGED <<clients_data, writer>>
  /\ torn' = (torn \/ (Registered /\ join = "inserted"))
  /\ UNCHANGED <<published, cache, join, errno, socket, open, subscriberVars>>
---------------------------------------------------------------------------
(***************************************************************************)
(* One call of write in the loop of write_fd: k of the n units that are    *)
(* left are taken.  After a part the code looks at errno, which a          *)
(* successful call does not touch: an old EAGAIN ends the loop as if       *)
(* nothing had been taken.                                                 *)
(***************************************************************************)
WritePart(k) ==
  /\ open /\ writer # NoWriter /\ 0 < k /\ k < writer.n /\ k <= Window - Len(socket)
  /\ socket' = socket \o SubSeq(writer.to_send, Len(writer.to_send) - writer.n + 1,
                                Len(writer.to_send) - writer.n + k)
  /\ IF errno[writer.thread] = "EAGAIN"
       THEN writer' = [writer EXCEPT !.to_send = SubSeq(@, 1, Len(@) - writer.n), !.n = 0]
       ELSE writer' = [writer EXCEPT !.n = @ - k]
  /\ torn' = (torn \/ errno[writer.thread] = "EAGAIN")
  /\ UNCHANGED <<published, cache, pub, join, clients_data, errno, open, subscriberVars>>

WriteAll ==
  /\ open /\ writer # NoWriter /\ 0 < writer.n /\ writer.n <= Window - Len(socket)
  /\ socket' = socket \o SubSeq(writer.to_send, Len(writer.to_send) - writer.n + 1,
                                Len(writer.to_send))
  /\ writer' = [writer EXCEPT !.n = 0]
  /\ UNCHANGED <<published, cache, pub, join, clients_data, errno, open,
                 subscriberVars, torn>>

\* Mutant: a full socket is taken for the end of the data.
WriteAgainEndsAll ==
  /\ open /\ writer # NoWriter /\ 0 < writer.n /\ Len(socket) = Window
  /\ errno' = [errno EXCEPT ![writer.thread] = "EAGAIN"]
  /\ writer' = [writer EXCEPT !.n = 0]
  /\ UNCHANGED <<published, cache, pub, join, clients_data, socket, open,
                 subscriberVars, torn>>

\* The socket is full: break; n is kept and to_send cut to what was taken.
WriteAgain ==
  /\ open /\ writer # NoWriter /\ 0 < writer.n /\ Len(socket) = Window
  /\ errno' = [errno EXCEPT ![writer.thread] = "EAGAIN"]
  /\ writer' = [writer EXCEPT !.to_send = SubSeq(@, 1, Len(@) - writer.n), !.n = 0]
  /\ UNCHANGED <<published, cache, pub, join, clients_data, socket, open,
                 subscriberVars, torn>>

\* What a thread does when write_fd has returned.
WriterDone ==
  /\ writer' = NoWriter
  /\ pub' = IF writer.thread = "pub" THEN "idle" ELSE pub
  /\ join' = IF writer.thread = "join" THEN "done" ELSE join

\* The subscriber is gone, or fd is closed already: fd leaves clients_topic_fd,
\* its buffer is emptied, and it is closed.
WriteError ==
  /\ writer # NoWriter /\ 0 < writer.n
  /\ errno' = [errno EXCEPT ![writer.thread] = "other"]
  /\ clients_data' = <<>> /\ open' = FALSE
  /\ WriterDone
  /\ UNCHANGED <<published, cache, socket, subscriberVars, torn>>

\* clients_data[fd].erase(0, siz - n), on whatever the buffer is by now.
EraseWritten ==
  /\ writer # NoWriter /\ writer.n = 0
  /\ clients_data' = SubSeq(clients_data, Len(writer.to_send) + 1, Len(clients_data))
  /\ WriterDone
  /\ UNCHANGED <<published, cache, errno, socket, open, subscriberVars, torn>>
---------------------------------------------------------------------------
(* The thread of add_client once connect has succeeded; it takes mtx only  *)
(* for write_fd.  The cache is an unordered set.                           *)
InsertFd ==
  /\ join = "select"
  /\ join' = "inserted"
  /\ UNCHANGED <<published, cache, pub, clients_data, writer, errno, socket, open,
                 subscriberVars, torn>>

InitData ==
  /\ join = "inserted"
  /\ \E order \in SetToSeqs(cache) :
       clients_data' = FlattenSeq([i \in DOMAIN order |-> serialize(order[i])])
  /\ join' = "init"
  /\ UNCHANGED <<published, cache, pub, writer, errno, socket, open, subscriberVars, torn>>

\* Mutant: the initial data waits for the next publication.
JoinWritesNot ==
  /\ join = "init" /\ writer = NoWriter
  /\ join' = "done"
  /\ UNCHANGED <<published, cache, pub, clients_data, writer, errno, socket, open,
                 subscriberVars, torn>>

JoinWrites ==
  /\ join = "init" /\ writer = NoWriter
  /\ writer' = [thread |-> "join", to_send |-> clients_data, n |-> Len(clients_data)]
  /\ join' = "write"
  /\ UNCHANGED <<published, cache, pub, clients_data, errno, socket, open,
                 subscriberVars, torn>>

\* spinOnce of the publisher's own thread ends with a recv that finds EAGAIN.
PublisherSpins ==
  /\ pub = "idle" /\ errno["pub"] # "EAGAIN"
  /\ errno' = [errno EXCEPT !["pub"] = "EAGAIN"]
  /\ UNCHANGED <<published, cache, pub, join, clients_data, writer, socket, open,
                 subscriberVars, torn>>

\* Mutant: what was decoded stays in the receive buffer.
handle_client_eventKept(k) ==
  /\ 0 < k /\ k <= Len(socket)
  /\ socket' = SubSeq(socket, k + 1, Len(socket))
  /\ fd_receive_data' = fd_receive_data \o SubSeq(socket, 1, k)
  /\ delivered' = delivered \o decode(fd_receive_data').msgs
  /\ UNCHANGED <<published, cache, pub, join, clients_data, writer, errno, open, torn>>

(***************************************************************************)
(* handle_client_event: recv of k units, decode, handle, erase.            *)
(***************************************************************************)
handle_client_event(k) ==
  /\ 0 < k /\ k <= Len(socket)
  /\ socket' = SubSeq(socket, k + 1, Len(socket))
  /\ LET buf == fd_receive_data \o SubSeq(socket, 1, k)
         got == decode(buf)
     IN  /\ delivered' = delivered \o got.msgs
         /\ fd_receive_data' = SubSeq(buf, got.consumed + 1, Len(buf))
  /\ UNCHANGED <<published, cache, pub, join, clients_data, writer, errno, open, torn>>

(***************************************************************************)
(* The same when the publisher's end is closed: EPOLLHUP, a recv that      *)
(* fails or one that returns 0 closes the connection here too, with what   *)
(* it still holds and the beginning of a frame in the receive buffer.  (A  *)
(* subscriber that sees a break before the publisher does is one that has  *)
(* stopped reading when WriteError comes.)                                 *)
(***************************************************************************)
close_and_delete_event ==
  /\ ~open
  /\ socket' = <<>> /\ fd_receive_data' = <<>>
  /\ UNCHANGED <<published, cache, pub, join, clients_data, writer, errno, open,
                 delivered, torn>>
---------------------------------------------------------------------------
Publisher == write_to_cache \/ PublishUncached \/ PublisherSpins
write_fd == (\E k \in 1..Window : WritePart(k)) \/ WriteAll \/ WriteAgain \/ EraseWritten
Joiner == InsertFd \/ InitData \/ JoinWrites
Subscriber == \E k \in 1..Window : handle_client_event(k)

Next ==
  \/ Publisher \/ write_to_socket \/ write_fd \/ WriteError \/ Joiner
  \/ Subscriber \/ close_and_delete_event

Spec == Init /\ [][Next]_vars

\* The threads go on; nobody is obliged to publish and no write need fail.
FairSpec == /\ Spec
            /\ WF_vars(write_to_socket) /\ WF_vars(write_fd \/ WriteError)
            /\ WF_vars(Joiner) /\ WF_vars(Subscriber)
---------------------------------------------------------------------------
(* Properties.                                                             *)

\* Every variable keeps its type; the socket holds no more than its window.
TypeOK ==
  /\ published \in 0..Len(Sizes) /\ cache \subseteq Messages
  /\ pub \in {"idle", "cached", "uncached", "write"}
  /\ join \in {"select", "inserted", "init", "write", "done"}
  /\ {clients_data, socket, fd_receive_data} \subseteq Seq(Units)
  /\ writer.thread \in Threads \cup {"none"} /\ writer.n \in 0..Len(writer.to_send)
  /\ errno \in [Threads -> {"other", "EAGAIN"}]
  /\ Len(socket) <= Window
  /\ delivered \in Seq(Messages)
  /\ {open, torn} \subseteq BOOLEAN

\* What is still to be written: the buffer without what write_fd has written.
Unsent == SubSeq(clients_data, Len(writer.to_send) - writer.n + 1, Len(clients_data))
\* Everything that is on its way to the subscriber, or still to be decoded.
Stream == fd_receive_data \o socket \o Unsent

(***************************************************************************)
(* The receive buffer, the socket and the write buffer together are whole  *)
(* frames, however writes and reads cut them, and a message over the limit *)
(* is dropped as a whole.  Two things break it: a part written while errno *)
(* holds an old EAGAIN, and a publication that add_client's thread         *)
(* overwrites.                                                             *)
(***************************************************************************)
FramesIntact ==
  /\ TypeOK
  /\ (open /\ ~torn) => decode(Stream).consumed = Len(Stream)

(***************************************************************************)
(* The subscriber gets messages that are not cached in the order in which  *)
(* they were published, and none of them twice.                            *)
(***************************************************************************)
DeliveredInOrder ==
  ~torn => \A i, j \in DOMAIN delivered :
             (i < j /\ {delivered[i], delivered[j]} \cap cache = {})
               => delivered[i] < delivered[j]

(***************************************************************************)
(* The bytes carry messages: the connection implements Channel.  What is   *)
(* on its way is what decode would find in the stream, however write and   *)
(* recv have cut it.  A message is never split, repeated, overtaken or     *)
(* lost from the middle, an idle connection drops none, and a subscriber   *)
(* that joins starts with every cached message once, until the stream is   *)
(* torn.                                                                   *)
(***************************************************************************)
Link == IF torn THEN "torn"
        ELSE IF join \in {"select", "inserted"} THEN "new"
        ELSE IF open THEN "open" ELSE "closed"
Handed == IF pub \in {"cached", "uncached"} THEN published - 1 ELSE published
InFlight == IF torn THEN <<>> ELSE decode(Stream).msgs
Ch == INSTANCE Channel WITH handed <- Handed, static <- cache, link <- Link, queue <- InFlight
ImplementsChannel == Ch!Spec

(***************************************************************************)
(* Static messages reach a subscriber that joins after they were published *)
(* (static_topic_cache), unless the connection breaks or fills up.         *)
(***************************************************************************)
CacheDelivered ==
  \A m \in Messages :
    (m \in cache /\ join = "select")
      ~> (m \in ToSet(delivered) \/ ~open \/ torn \/ errno["join"] = "EAGAIN")
=============================================================================
