# ProtoCore2 in TLA+

A TLA+ model of ProtoCore2 (`cpp/`, `protos/`), a small robot middleware on
gRPC, protobuf and TCP: nodes find each other through a registrar and then talk
by topics, services, parameters and a tree of coordinate transforms. The project
holds the specifications, the TLC configurations that check them on small
instances, and TLAPS proofs, for every size of the system, of the safety
invariants of all nine parts: the registrar, the connection club, the stream of
a topic, both sides of the parameters, the finding, the calls and the streams of
services, and the transform tree. The registrar and the stream of a topic are
also proved to implement an abstract specification. Lines below are lines of
`cpp/src/Registrar.cpp` and so on at the commit modelled; `PROJECT.json` maps
every definition to its lines.

## 1. Inventory

| Part | Code | State | Operations |
|---|---|---|---|
| Registrar | `Registrar.cpp/.hpp` | atomic `version`, the log `nodes` (grown in blocks of 1000), `alive_nodes`, a condition variable | `Regist` (register, stream the log, deregister), `Healthy_Check` |
| Registration client | `NodeRegist.cpp` | the register thread | calls `Regist`, applies ADD and DELETE to the two clubs |
| Client club | `rscl.cpp` 218-313 | `clients` by name, `topic_requests`, `service_requests`, one thread per call | `add_client`, `delete_client`, `pull_subscribe_request`, `pull_serving_service_request`; on the other side `TopicConnection`, `ServiceConnection` |
| Topic stream | `TCPClient.cpp`, `TCPServer.cpp`, `serialization.hpp` | write buffers by fd, static cache, receive buffers, address-to-topic map | `publish`, `write_fd`, `add_client`, `accept_client`, `spinOnce` |
| Parameter server | `ParamRPC.hpp/.cpp` | `params`, `params_version`, `is_const_params` | `declare`, `set`, `get` with callback, `setRemoteParam`, `getRemoteParam` |
| Parameter client | `ParamRPC.hpp/.cpp` | slots by name, reader threads, queued requests | `getRemoteRequest`, `setRemoteRequest`, `add_client`, `delete_client` |
| Service call | `ServiceClient.hpp`, `ServiceServer.hpp` | `connected`, `requested`, `reply_promise`; `calls_status`, stream pool | `request`, `cancel`, `reset`, the reader; the event loop and the callback |
| Transform tree | `TransformTree.cpp/.hpp` | parents, time series, cached ancestors | `addTransformNode`, `lookupTransform` |
| Rate, life cycle, sockets | `Rate.hpp`, `common.hpp`, `exception.hpp`, `AsyncSocket.*` | a clock, the `ok` flag, file descriptors | sleep, SIGINT, wrappers of system calls |

How they interact. A node opens its TCP server and its gRPC server, then calls
`Regist`; the stream of that call brings ADD and DELETE commands, which the
register thread applies to the connection club and to the parameter club. The
connection club asks every peer for every subscribed topic by an RPC; the peer
holds that RPC until it advertises, connects by TCP to the subscriber, and
answers with its address, by which the subscriber's server maps the connection
to the topic. Services are found the same way, and then a client and a server
share one bidirectional gRPC stream. Parameters are read over a stream for each
parameter.

What is hard here:

* counters, tests and stores under different locks (registrar versions and
  names, `is_const` and `find_param`, `calls_status`);
* flags and promises shared by two threads with no lock at all (`ServiceClient`);
* condition variables notified without the mutex of the waiters, everywhere;
* destructors that join threads waiting for a remote node, with a mutex held;
* restarts under the same name, while the commands carry only the name;
* a tree that grows while answers about it are cached, and time arithmetic in
  mixed units (`TransformTree`);
* short writes, full sockets, buffers at their limit, and a thread that brings a
  connection into use without the lock.

`PROJECT.json` lists these, at their lines, under `hazards`. What makes each
part correct: no registered node is passed over and no deletion kept from one
who was told of the node, unless its slot was read before it was stored; a name is freed when its node dies; the club is what the
registrar has registered, and every peer is asked for every topic; frames stay whole and
in order; a constant keeps its value, and watchers get the last value; a request
gets its own reply or an exception, and one callback runs at a time; a parameter
client never shows an older value after a newer one, and keeps the callback it
was given last; two servers of one name notice each other; a stream id is used
again only when its last client's callback is done.

## 2. Modules

| Module | Part | Instance |
|---|---|---|
| `Discovery` | abstract: what nodes may rely on the registrar for | refined by `Registrar` |
| `Registrar` | registrar and the call of `Regist`; `RegistrarProofs` | `MCRegistrar` |
| `RegistStream` | the registrar as the stream of one node shows it | extended by `TopicConnection` and `ParamClient` |
| `TopicConnection` | register thread, connection club, topic connections; `TopicConnectionProofs` | `MCTopicConnection` |
| `Channel` | abstract: what a topic's connection promises, without bytes | refined by `TopicStream` |
| `TopicStream` | one connection of a topic; `TopicStreamProofs` | `MCTopicStream` |
| `ParamServer` | parameters of a node; `ParamServerProofs` | `MCParamServer` |
| `ParamClient` | parameters of other nodes; `ParamClientProofs` | `MCParamClient` |
| `ServiceConnection` | how servers and clients of a service meet; the end of `ServiceStreamsProofs` | `MCServiceServer` |
| `ServiceCall` | one client and its server on one stream; `ServiceCallProofs` | run as it is |
| `ServiceStreams` | all streams of one server; `ServiceStreamsProofs` | `MCServiceServer` |
| `TransformTree` | transform tree; `TransformTreeProofs` | `MCTransformTree` |

The type invariant of a module is a conjunct of its main invariant, except in
`Registrar`, where it is checked by itself. A thread is cut into steps where
another thread can interfere: at atomics, at every acquisition of a lock, at
calls that block, at RPCs. What a thread does with a lock held is one step.
Definitions keep the names of the functions they model; a definition whose name
starts like another's and whose comment says "Mutant" is a faulty variant of
that one, used to see that the properties notice it.

**Registrar.** A call in `Calls` is a node process and the handler thread that
serves its stream; a restarted node is a second call of the same name. `nodes`
is a function on `0..size-1`; `Size` and `Resized` are the growth of the vector,
and a slot nobody wrote is `Blank`, what `resize` leaves there. `list` is the
loop of `Registrar::list` with its `skip_version`, and a handler passes
`check`, (the name wait), `claim`, `store`, `snapshot`, then the loop `top`,
`blocked`, `woken`, `list`, and at the end `unclaim`, `unstore`. The two waits on
the condition variable are split into a step that tests with the mutex and a
step that blocks, so that notifications can be lost as in the code.
`Disconnect` is gRPC's cancellation. `ReadPastEnd` is the read of `nodes[i]`
beyond the vector: it may find anything, and the model clears `up`.

**ParamServer.** One parameter. Writers are calls of `declare`, `set` and
`setRemoteParam`; watchers are the threads of `get` with a callback, which read
value then version, and of `getRemoteParam`, which read version then value.
The moment between the predicate and the wait is the control point `sleep`.

**ParamClient.** The club of one node, one parameter in each remote process, a
restarted node being a second process of the same name. A user's call and the
register thread hold the club's `mtx`, so a call is one step unless it waits:
`mtx` names who holds it while a set RPC is out or `~ParamRPCClient` joins a
reader (`mtx.old`). `slot` is what `get_replies` holds, callback and data: a
request with a callback replaces a slot that has been read by an empty one.
`reader` is the thread of `write_thread`; each reply it reads starts a thread in
`running`, and these run in any order. The remote side is what
`ParamServer`'s streams show: a reply is the value when it is written, and
values may be skipped.

**ServiceConnection.** One service name, the processes that may serve it, and
one node with a client. A server records its service, then asks every node of
its club; the handler in the asked node is a step for each test, wait and
one-second sleep. A handler in a node that serves the same name itself ends that
process (`NameConflict`: `LOG(ERROR)`, then `exit`, `rscl.cpp` 189-193). The promise `srv_addr`
is renewed by `reset`, which the user calls when the reader has had the address.

**ServiceStreams.** The event thread of a `ServiceServer`, which takes completed
operations one at a time, its pool of stream ids (`listening`, `reusable_id`,
`stream_id`), clients that come and go, and one callback thread for each call.
`CreateListenPort` aborts the call of the last client of an id and waits for its
callback before it listens again. `reading` and `writing` are operations in
progress; `server` says what ended the process: a Write while another was in
progress, or `get` of a future that had been taken.

**Discovery.** The abstract specification: processes join and leave once, and a
live one is told, once, of others that are live or have left. `Registrar` maps a
process to live between the stores of its ADD and its DELETE (`Life`) and takes
for told what its stream carries (`Told`), without copies of unwritten slots.
Discovery says nothing of when, or whether, a process is told; the model of the
registrar does (`LiveNodesSent`, `DeletionsSent`, `StreamsCatchUp`).

**ServiceCall.** The user's thread, the reader thread `create_connection`, the
event thread of the server and the thread of the callback, over one stream with
two FIFO directions. A promise records the request whose future was taken from
it and the reply stored in it; renewing it while its future waits breaks that
future only if it was never satisfied. After a crash the user may `reset` and a
second server may appear.

**RegistStream.** The commands one node gets, for the modules of what it does
with them. The registrar's versions, locks and notifications are left out, since
`Registrar` has them; what they can do to one stream is kept. The stream brings
the slots of the log in the order of their versions (`commands`); the node
handles a slot (`Receive`), or `list` makes something else of it: a slot read
between `version++` and its store is the copy of an unwritten one and tells
nothing of its peer, the ADD of a peer that has gone is dropped, and with it its
DELETE when both are in one window (`skip_version`). Two handlers that have both
passed `find_exist_node` register two processes of one name (55-61). `confused`
collects the names of lost slots and of shared names, for the properties that
cannot hold there.

**TopicConnection.** One subscriber and its peers, with the command stream of
`RegistStream`, the register thread, a worker thread per call at the subscriber, a
handler per call at the peer, and the TCP connection of each call through
connect, accept and mapping. `register.old` is the client whose destructor is
joining its workers while the club's mutex is held.

**TopicStream.** One connection. A frame is a sequence of units, the first of
which is the length; `write` and `recv` move any number of them. `writer` is
the thread inside `write_fd` with its copy `to_send` and its `n`. When a write
has failed and the publisher has closed its end, the subscriber may close its own
(`close_and_delete_event`) with whatever it has not read. `errno` is
kept for each thread, because `write_fd` looks at it after a short write too.
`torn` records the two steps at which the code really cuts or repeats frames:
a short write with an old EAGAIN in `errno` (`TCPClient.cpp` 128), and a
publication between the two unlocked assignments of `add_client` (77-86). The
second is a data race in C++; the model lets the buffer be overwritten.
`Channel` is the same connection seen from outside: numbered messages, the ones
on their way in `queue`, no bytes and no threads. It drops a message only
without a connection or behind others, loses the last ones when either end of
the connection breaks, and starts with the static messages, each once. The mapping (`Ch`) takes
for `queue` what `decode` finds in the receive buffer, the socket and the
unwritten part of the write buffer together (`Stream`); a torn stream promises
only that what was delivered stays delivered.

**TransformTree.** The tree a listener builds, in the one thread that spins and
looks up. A transform is its parent frame and its time; a product is the
sequence of its factors, so that nothing commutes by accident. `Climb` is the
walk to the root, `find_shared_ancestor` fills the cache, `get_transform` is the
result of a lookup, `push`, `cleanup` and `NodeTransform` the time series with
the code's arithmetic, in which nanoseconds count as microseconds. A lookup of a
cached, missing or looping pair changes no state and is no action.
`NoSharedAncestor` is the null dereference for two separate trees. The properties
read a product as a chain: a factor goes from the frame it was sent for to its
own (`Source`, `Target`), its inverse back, and a product composes when each
factor goes on where the one before it ends (`Composes`).

## 3. Runs

Passing runs:

| Run | Instance | What it shows |
|---|---|---|
| `registrar` | nodes a1, a2 of one name, observer b1; `Growth` 2 (23,000 states) | Versions stored out of order are each accounted for; live nodes a stream has passed, and deletions of nodes it was sent, are in it, as commands or as copies of unwritten slots; names have a holder; `Discovery` is implemented. Streams catch up, disconnects are noticed, a restarted node gets its name, whichever notifications are lost. |
| `param_server` | a declarer, a local and a remote setter, a watcher of each kind | A remote stream that believes itself current is; `set` respects constants; a blocked watcher is served. |
| `param_client` | one node that restarts once, 2 callbacks, 2 stores in each process | The callback asked for last is installed in every incarnation; what a plain request answers does not go back; every value on the stream of a client with a callback reaches one; readers of a dead process are joined, so the club goes on. |
| `service_call` | 3 requests, 1 cancel, 2 servers (75,000 states) | One callback at a time; replies reach their own futures, for a user that makes no request while an earlier one may still be answered; an accepted request ends; a crash is reported to the request in progress. |
| `service_server` | a pool of 1, 3 clients, 2 messages; 2 servers of one name, one client (107,000 states) | The pool keeps its size and ids are not shared; a callback never works on the stream of another client; the event thread dies only of a client that left without a request; a client that dials is served whatever the callbacks of clients that left do. Two servers that have asked each other are not both alive; when both have asked, one ends; an open promise gets the address of a server it has not had. |
| `topic_connection` | two processes of one node, 2 subscriptions (70,000 states) | Every peer is asked; the club matches the registrar where no slot was lost and no name shared; an advertisement connects waiting calls; the death of a peer lets its client be destroyed. |
| `topic_stream` | messages of 2, 3, 2 units, limit 2, window 3 | Whole frames, order, no duplicates, delivery of the static cache to a late subscriber; `Channel` is implemented. |
| `transform_tree` | 4 frames, 3 transforms at 3 times with nanoseconds, 1 cached pair | A cached ancestor stays the lowest one while the tree grows; a lookup along one branch composes to the transform the tests document; static frames stay reachable whatever is received; a lookup without tolerance never goes back in time. |

Violations, each of a sentence of the repository (quoted under `findings`):

| Run | What TLC finds |
|---|---|
| `registrar_discovery` | A stream lists a version that was handed out but not stored, and never comes back to it: the node that registers there is not discovered, or the deletion stored there not notified (each half is violated by itself; TLC shows the shorter one). |
| `service_answered` | `request` returned true and its future is never completed. |
| `transform_direction` | Between frames of two branches `get_transform` multiplies the halves in the wrong order: the product is not ^{from}_{to}T, nor a transform between any two frames of the tree. |
| `transform_tolerance` | With nanoseconds in the stamps a dynamic frame gives a transform 999 ms away to a lookup with tolerance 0. |

Known limits. The models also contain these behaviours of the code, which the
properties above leave room for:

* A watcher of a parameter that has tested the version and not yet begun to wait
  misses the notification and keeps the old value until the next store
  (`ParamRPC.cpp` 19); `BlockedWatcherServed` speaks of watchers that wait. A
  handler of `advertise` and of `serviceClient` can miss its notification in the
  same way, and `AdvertiseConnects` and `WaitingClientServed` except it.
* Two nodes of one name can both pass the name test (`Registrar.cpp` 55-61). The
  clubs of the other nodes then hold the one whose ADD came last, and a DELETE
  for either removes it (`rscl.cpp` 280). When a stream loses a slot
  (`registrar_discovery`) a club misses a peer or keeps one that has gone.
  `ClubMatchesRegistrar` excepts such names (`confused`).
* A TCP connection that `connect` completes at once, or for which no socket can be
  created, leaves `TopicConnection` without a future to get (`TCPClient.cpp` 39
  and 52): the call ends with an error although, in the first case, the connection
  is open and never mapped.
* A remote set can overwrite a parameter that is declared constant between its
  two tests (`ParamRPC.cpp` 29-31); `SetRespectsConst` names it as the only way.
* Two calls of `declare` for one parameter can both find it undeclared; the
  second store sets the version back to 1 (`ParamRPC.hpp` 87-100). A stream that
  has sent the first value then keeps it, and a constant of the first is
  overwritten. The run has one declarer and the theorems about the parameter
  server exclude the race by a hypothesis.
* A request between `connected = true` and `requested = false` loses its mark
  (`ServiceClient.hpp` 96-97); for the next one `get_future` throws, although its
  message is written, and its reply is given to the request after it.
  `RepliesMatch` is about users that stop, or wait, when a request has thrown.
* A second `join` in `reset` throws after `cancel` met the end of the stream
  (`rscl.hpp` 266, `ServiceClient.hpp` 72 and 86).
* A server that is alive and whose address the client has already had does not
  ask again after a `reset`: its call is done (`rscl.cpp` 183-211).
* `reply_wait_queue` is pushed to only when it is not empty, so a callback that
  replies before the Write of PROCESS is complete starts a second Write
  (`ServiceServer.hpp` 183); a reused id without a future ends the event thread
  (159).
* `cpp/test/transform_listen_test.cpp` 22 says that "the dynamic transform will
  not reacheable whem the broadcaster close". Nothing in the tree knows of
  broadcasters: a lookup without tolerance, which that test makes, gives the last
  transform a dynamic frame has got for ever (`TransformTree.cpp` 26). No run
  states it, since the closing of a broadcaster changes nothing in this module;
  `LookupAdvances` is what such a lookup does keep.
* A transform for a second parent is complained about and kept (79-86): the frame
  then gives it out as one for its first parent. `BranchLookup` and
  `LookupDirection` speak of products without such factors.
* `cleanup` computes the age with the sign reversed and in mixed units (51-55):
  nothing is erased while stamps differ by whole seconds, and with nanoseconds
  young transforms are erased and old ones kept. It spares the latest, which is
  what `LookupAdvances` needs.
* Two frames of separate trees dereference null (129).

Bounds. Three processes make every pair of handlers race before a third that
looks on, and two of one name make the name wait and the restart; `Growth` 2
puts a boundary of the vector inside the four to six versions such a run hands
out. `ObserverFirst` makes b1 a node that registers first and stays, and a2 one
that comes after a1 and stays, which keeps the pairs that race and the restart;
`Bound` in `MCTopicConnection` and `MCParamClient` does the same for the two
processes of the peer, and cuts what follows a lost slot to what the properties
still speak of there. All three exclude only successors of steps that no
fairness condition obliges, so that liveness is not lost with them. Frames are
symmetric in `transform_tree`, whose properties are invariants and action
properties only. Two requests are the fewest that can confuse their replies, and
a third is the first to meet what the second leaves when its `get_future`
throws; two servers are the fewest for a reset or a conflict. A pool of one is
refilled at every connect; with it, the third client is the first to meet an id
that was used again after a callback outlived its client. The two parts of
`service_server` share no state: each is explored while the other rests in its
initial state, where nothing has to happen. In `param_client` two stores in each
process are the fewest for an order, and a second callback the fewest to replace
a slot that was read. In `topic_stream` the window is smaller than two frames,
so writes are cut at each place and sockets fill up, and the limit is smaller
than the longest frame, so that messages are dropped. Four frames and three
transforms make two branches, and then something above, a loop or a second
parent; an entry of the ancestor cache depends on no other. The three stamps are
chosen for the arithmetic: two are 999 ms apart and 0 as `time_diff_ms` reckons,
and one of two 100 ms apart is erased by `cleanup`. All runs end because the
calls, messages or requests are used up, hence `CHECK_DEADLOCK FALSE`; a service
that has done everything legitimately stops.

Fairness. Threads that can run do run (weak fairness of each thread's steps);
mutexes of the registrar's handlers are granted in the long run (strong fairness
of the steps that take one). `Healthy_Check` runs for ever (`Registrar.cpp`
83-89, a thread that sleeps and notifies), and so is fair. A connect that is in
progress ends. The event thread of a service and gRPC's acceptance of calls are
fair, and a callback is obliged to return only when the event thread waits for
it and its call has an outcome, an abort included (`AwaitedCallback`):
`cpp/test/svc_server.cpp` asks callbacks to "always check if the server has been
aborted at regular intervals". In `ServiceCall` the callback returns. A set RPC
returns, since a node that has died refuses it. Of `ServiceConnection` only the
handlers and the notification of `serviceClient` are fair. A subscriber goes on
spinning, as the programs in `cpp/test` do. Nobody is obliged to call, publish,
subscribe, connect, store, reset, serve, die or disconnect.

## 4. Proofs

`RegistrarProofs` proves of `Registrar!Spec`, for every set of calls, names and
every positive `Growth` (`NameOfType`, `NoCallFresh`, `GrowthPositive` are the
only assumptions): `TypeOK`, `VersionsAccounted`, `LiveNodesSent`,
`DeletionsSent`, `CommandsFaithful`, `AliveHasHolder` and the action property
`LogAppendOnly`. Each rests on the inductive invariant

    IndInv == TypeOK /\ ControlInv /\ LogInv /\ HoldInv /\ StreamInv /\ AliveHasHolder

None of the properties is inductive alone. `ControlInv` says which locals are
set at which control point and that they are below `version`. `LogInv` ties a
slot to the locals of the call it names: a live registration is at
`regist_version` of a registered call, a deleted one points to the slot at its
`deleted_version`. `HoldInv` is `VersionsAccounted` in the form a step
preserves: two handlers never hold one version. `StreamInv` says why an entry
that a stream has passed is not in it: it is a registration deleted later,
or a deletion whose registration the stream never had. The step that
needs most is `WriteDelta`: `list` skips a deletion when the registration lies
in the same window, so the windows of one stream must meet (`kept_version + 1`
to `cversion`) for `DeletionsSent` to follow. `LiveNodesSent` and `DeletionsSent`
say what is true of the code, and name the exception: the slot was copied before
it was stored. That it happens is the violation of `registrar_discovery`.

`StoredByRegistration` and `StoredByDeregistration` say what the two writes do
to the log, `QuietOrWrite` that no other step touches it, `ListMember` what
`list` returns; the induction has a lemma for each conjunct.

The last part of the module proves `ImplementsAbstract`, `Spec =>
ImplementsDiscovery`, from the same invariant. A registration that is stored is
a `Join`, a deregistration a `Leave`, a reply (`WriteSnapshot`, `WriteDelta`) a
`Tell`, and every other step a stutter (`QuietLife`, `ClaimLife`). What a reply
needs is `ListedIsTrue`, an entry that `list` returns is of a process that is
there, or has left, now; `ListedIsNew`, it lies past `kept_version`, and so is
not in the stream; and `OneEntryEach`, a process has one ADD and one DELETE in
the log.

The end of `ServiceStreamsProofs` proves `ConflictIsSeen`, `ConnectionSpec =>
[]ConflictSeen` of `ServiceConnection`, for every set of servers and from no
assumption. `ConflictSeen` is not inductive: what carries it is that a server
whose call has arrived anywhere has recorded its service before
(`RecordedFirst`), so of two that ask each other the later handler finds its own
node serving.

`ParamServerProofs` proves `StreamIsCurrent` and `ConstantsRespected` for every
set of threads, from `ThreadsDistinct` (a thread has one job; the model's
threads are calls), `ValueOfType` and `NoValueFresh`, and from the hypothesis
`[]DeclaresApart`: no two calls of `declare` stand between their test and their
store at once. The hypothesis is needed: the race it excludes is a real one (see
the known limits), and everything else may interleave. `WriterInv` is what the
tests of the writers are worth when they store (`declare` still finds nothing,
`set` still finds the parameter, and finds it changeable); with it a store raises
the version or is the first one, so no stream has seen a version that is to come
(`SeenInv`), and a stream that reads the version before the value cannot miss
one.

`TopicConnectionProofs` proves `EveryPeerIsAsked` and `ClubFollowsRegistrar` for
every set of peers and names and every number of subscriptions, from
`PeerNames` and `SubscribesAssumption`. The club lags behind the registrar by the
commands on their way, so `ClubMatchesRegistrar` says something only at the end
of the queue. `Decided(p)` is its form for every state: the last command about
p's name that is not skipped adds p, or there is none and the club holds p.
`NameInv` holds of every name that is not confused: the decided peer is the one
the registrar has registered (`Follows`), there is at most one (`Alone`), and every
client and every ADD that something else about the name comes after is first
followed by its own DELETE (`ClientEnds`, `AddsEnd`). The last two are what the
dropped commands need: an ADD that `list` drops is of a peer that has gone, so
that its DELETE comes next for that name, whether it is dropped too or finds
nothing to delete. `FreshInv` says that a peer is
added once and that nobody was asked before; `AskedInv` is `EveryPeerAsked`
without its condition that the register thread be idle.

`ParamClientProofs` proves `LastCallbackIsInstalled` and `AnswersDoNotGoBack`
from `PeerNames`, `CallbacksAssumption` and `StoresAssumption`, whatever the
command stream loses. As in the
connection club a process is added once, so its client starts with an empty slot
(`FreshInv`); the queue of a name ends with the callback asked for last
(`AskedInv`), and a callback in a slot is in a queue (`SlotInv`), so replaying
the queue installs the last one even where a repeated callback is skipped.
`StreamInv` says that the replies on a stream are in the order of the stores and
no older than the slot.

`ServiceStreamsProofs` proves `PoolIsKept`, `CallbacksKeepTheirStream` and
`OnlyIdleClientsBreakIt` for every pool, every number of clients and messages
(`PoolAssumption`, `BoundsAssumption`). An id is new, listened on, or has a
client (`OwnerInv`); the tags of a stream in the completion queue begin with its
CONNECT and end with its BROKEN_PIPE (`QueueInv`), so that an id in
`reusable_id` is `Retired`: its client has gone and no tag of it is left
(`ReuseInv`). That is why the id `CreateListenPort` takes cannot be in use
(`EventInv`), and why the callback it waits for is the last client's
(`ServedInv`). `PoolInv` counts: the streams listened on, those with a CONNECT in
the queue and the one being handled are `PoolSize`, and ids are made for clients
whose CONNECT was taken only.

`ServiceCallProofs` proves `OneCallAtOnce` and `RepliesBelong` for every number
of requests, cancels and servers (`BoundsAssumption`). `ServerInv` says that a
callback works for the only request without a reply, and that SUSPEND means that
no callback is there, however a cancel's late store of PROMPTED falls.
`PromiseInv` says that the future of `reply_promise` is the only one that waits,
and that the promise has a value only before the reader renews it. `RepliesMatch`
then follows from `MatchInv`: without overlapping requests only the last request
is in flight, in one place (`FlightInv`: on its way, in the callback, or in a
final reply), the promise is that request's, and a value set before its
`get_future` is that request's too (`OwnInv`). The case that needs `OwnInv` most
is the next request: all earlier futures have a result, so nothing is in flight
and no value without future is left for it. The first version of `RepliesMatch`
did not except requests that threw; the step of `request` could not be proved,
and TLC found the behaviour with three requests.

`TransformTreeProofs` proves `CachedAncestorStays`, `StaticStaysReachable`,
`LookupNeverGoesBack` and `BranchIsDocumented` for every finite set of frames and every number of transforms
and lookups (`FramesAssumption`, `StampsAssumption`, `LimitsAssumption`, and
`NoneAssumption`, that no transform is the null one). `IndInv` adds to
`CachedAncestorLowest` that a frame with a parent has a finite series that is not
empty (`SeriesInv`) and that cached pairs are of known frames (`CacheInv`).
`Climb` is a recursive function, so its values need an induction, here in the
form of a least counterexample: `LeastNumber` and `UpTo` follow from the
library's `WFMin`, which speaks of a set and not of an operator. `WalkExists` and
`WalkIs` show that `Climb` is what it says; `WalkShift`, that the rest of a walk
is a walk; `WalkGrows`, that a first parent lengthens walks and changes nothing
else. That is why an ancestor that is cached stays right (`LowestKept`): a frame
that comes to be on both walks is above the ancestor on one of them. It would not
hold if a frame could move, as the mutant `addTransformNodeMoves` lets it.
`PushKeeps` shows that `cleanup` spares the latest transform and that a push
never makes it older, `PathIs` that the path to a cached ancestor goes through
frames with parents only, and `StepKeeps` that no step changes such a path; that
gives `StaticReachable` and `LookupAdvances`. `BranchLookup` is about products of
any length: `ProductIs` and `ProductFactors` say which factors stand where,
`DownComposes` that the way down is a chain as it is, and `UpComposes` that the
inverse of the way up is one in reverse. `LookupDirection` and `WithinTolerance`
are false of the code and have their violation runs instead.

`TopicStreamProofs` proves `FramesStayIntact` and `DeliveredStaysInOrder` for all
messages of any sizes, any limit of the write buffer and any window
(`SizesAssumption`, `LimitsAssumption`). The bytes are seen as one sequence,
`Stream`: the receive buffer, the socket and what `write_fd` has not written yet.
Few kinds of step change it: `write_to_socket` puts a frame behind it, the
initial data of `add_client` fills it, a failed write cuts its end off,
`handle_client_event` takes frames from its front, and `close_and_delete_event`
empties it; a write moves units within it
(`Moved`). `FrameInv` says that neighbours in the stream belong together
(`Linked`), and that the last frame is whole while the connection is open.
`FramesIntact` speaks of what `decode` makes of the whole stream, but the
subscriber decodes any prefix of it; `DecodeIs` says for every such prefix that
decode stops at a boundary of frames, at the end if the last frame is whole, and
finds the messages whose frames begin before it, in order. `decode` is a recursive
function, and the lemma is an induction from the end of the buffer, as a least
counterexample (`ScanInduction`). `OrderInv` orders what is delivered before
what is in the stream, and both before the message that is to be sent. `BufferInv`
is what makes the copy `to_send` worth something when the buffer is erased by its
length. All but the types holds as long as `torn` is false, and no longer: the
two steps that set it break the frames.

The last part of the module proves `StreamImplementsChannel`,
`Spec => ImplementsChannel`, from the same invariant and for the same constants.
A publication is a `Publish`; `write_to_socket` a `Send`, or a `Drop` when the
fd is not registered or its buffer is over the limit; the initial data of
`add_client` a `Join`; a chunk that completes a frame a `Deliver`; a failed
write and the closing of the subscriber's end a `Break`; the two steps that set
`torn` a `Tear`. Everything else, `write_fd` in particular, is a stutter. The
facts that carry it are about `decode`: what it finds in a buffer is what it
finds in any part from the start of it, followed by what it finds when it is
called again with the rest (`DecodeConcat`, from `ScanConcat` and `ScanSuffix`,
two more inductions by least counterexample); a frame behind whole frames is
decoded after them (`DecodeAppend`); the concatenated frames of the cache decode
to the cached messages, each once (`FlattenIs`, `InitialData`). Two conjuncts of
the invariant are there for the refinement: a publisher in `write_fd` has handed
its message over (`WriterInv`), and nothing is delivered before the join
(`BufferInv`). A drop while the connection is idle is excluded because the
buffer is then empty, and an empty buffer is not over the limit.

Only model-checked: liveness (fairness and `ENABLED` are beyond the prover) and
the runs' four violations. The inductive invariants above were checked by TLC as
invariants of the runs' instances before they were proved.

## 5. Not modelled

* `TreeConnection` and `pull_possess_tree_request` are empty in the code,
  `accept_service_client` returns true, `Node.hpp` is used by no source.
* Rate is a wrapper of a kernel timer whose expiration counter is its only
  state; nothing else looks at it. Logging, the wrappers of system calls, SIGINT:
  nothing shared but a flag. Loops that test `core::ok()` run as while it is true.
* Several connections of one topic: the loop over them returns at the first
  write that fails (`TCPClient.cpp` 110). Two write buffers, each with its own
  short writes, exceed what a run can explore.
* Numbers of the transforms (KDL frames) and the payloads of messages. The
  republication of static transforms, so that they outlive their broadcaster.
* The end of the register thread when the registrar dies: the code does not
  reconnect, and nodes go on with the peers they know.
* Data races on the containers themselves (`unmapped_addr_to_fd`, `decoders`,
  `clients_topic_fd`) other than the one on `clients_data` above.
* A second publication of a cached message, which `write_to_cache` refuses and
  which changes nothing.

## 6. Plan

Done: the registrar, its proofs and its refinement of `Discovery`; parameters on
both sides, services (connection, call, streams), the topic connection and the
transform tree, and the topic stream with its refinement of `Channel`; with proofs
of all their safety invariants, some under the hypotheses named above.

Left, in this order:

1. The republication of static transforms by listeners, composed from
   `TopicStream`'s cache and `TransformTree`: a static transform outlives its
   broadcaster while some listener lives, and the publications end.
2. `RegistStream` as an abstraction of `Registrar`, shown by a refinement: its
   lost and dropped slots are argued from the code in the module's comments.
