---------------------------- MODULE ServiceCall ----------------------------
(***************************************************************************)
(* A service call: a ServiceClient (cpp/include/ServiceClient.hpp), the    *)
(* bidirectional gRPC stream, and the server side of that stream in        *)
(* ServiceServer (cpp/include/ServiceServer.hpp).                          *)
(*                                                                         *)
(* Threads: the user of the client (usr_operation_mtx makes all of them    *)
(* one), the reader thread create_connection, the server's event thread    *)
(* and the thread of the user's service callback.  A thread is split at    *)
(* every access to something another thread writes: connected, requested   *)
(* and reply_promise have no common lock on the client, and calls_status   *)
(* is tested and set under two acquisitions of its lock on the server.     *)
(* Payloads are the numbers of the requests they belong to.                *)
(***************************************************************************)
EXTENDS Integers, Sequences, FiniteSets

CONSTANTS
  MaxRequests,     \* bound: requests written by the user
  MaxCancels,      \* bound: cancels written by the user
  MaxConnections   \* bound: streams, one per server process

ASSUME BoundsAssumption == /\ MaxRequests \in Nat \ {0}
                           /\ MaxCancels \in Nat
                           /\ MaxConnections \in Nat \ {0}

VARIABLES
  connected, requested,  \* the flags of ServiceClient
  promise,               \* reply_promise
  future,                \* what the user holds for each request
  user, reader,          \* control points of the two client threads
  joinable,              \* wait_server_notify_thread.joinable()
  requests, cancels, connections,  \* how many there have been
  overlapped,            \* a request was made while an earlier one had no result
  open,                  \* the server process of this stream is alive
  c2s, s2c,              \* the two directions of the stream, in order
  calls_status,          \* calls_status[stream_id]
  event,                 \* control point of the server's event thread
  callback,              \* the thread of the service callback
  accepted, answered     \* requests of this stream taken, and replied to

clientVars == <<connected, requested, promise, future, user, reader, joinable>>
counters == <<requests, cancels, connections, overlapped>>
serverVars == <<calls_status, event, callback, accepted, answered>>
vars == <<clientVars, counters, open, c2s, s2c, serverVars>>

Requests == 1..MaxRequests
Outcomes == {"SUCCESS", "FAILED", "ABORTED"}
Statuses == Outcomes \cup {"SUSPEND", "PROCESS", "PROMPTED"}

\* A promise without future and value; val is -1 once it holds an exception.
Exception == -1
FreshPromise == [req |-> 0, val |-> 0]
Promises == [req : 0..MaxRequests, val : Exception..MaxRequests]

(***************************************************************************)
(* A future: not yet given out, waiting, ready with the reply to request   *)
(* of, ready with StreamCloseException, reported once the user has reset   *)
(* the client on it, ready with broken_promise, or never given out because *)
(* get_future threw future_already_retrieved.                              *)
(***************************************************************************)
FutureStates == {"none", "waiting", "value", "closed", "reported", "broken", "threw"}
Futures == [state : FutureStates, of : 0..MaxRequests]
\* The reply may still come, and would be the next that is read.
Unresolved == {"waiting", "threw"}
Plain(state) == [state |-> state, of |-> 0]
Ready(val) == IF val = Exception THEN Plain("closed")
                                 ELSE [state |-> "value", of |-> val]

UserPCs == {"idle", "sent", "marked", "join", "reset", "terminated"}
ReaderPCs == {"await", "connect", "flagged", "read", "replace", "clear",
              "closing", "off", "unrequest", "exited"}
\* The reader has seen the end of the stream.
Closed == {"closing", "off", "unrequest", "exited"}
NoCallback == [pc |-> "idle", req |-> 0, final |-> "SUSPEND"]
---------------------------------------------------------------------------
Init ==
  /\ connected = FALSE /\ requested = FALSE
  /\ promise = FreshPromise
  /\ future = [r \in Requests |-> Plain("none")]
  /\ user = "idle" /\ reader = "await" /\ joinable = TRUE
  /\ requests = 0 /\ cancels = 0 /\ connections = 0
  /\ overlapped = FALSE
  /\ open = FALSE
  /\ c2s = <<>> /\ s2c = <<>>
  /\ calls_status = "SUSPEND" /\ event = "idle" /\ callback = NoCallback
  /\ accepted = {} /\ answered = {}

\* promise::set_value and set_exception: the future, if given out, is ready.
Satisfy(val) ==
  /\ promise' = [promise EXCEPT !.val = val]
  /\ future' = [r \in Requests |-> IF r = promise.req THEN Ready(val) ELSE future[r]]

\* reply_promise = promise<Reply>(): a waiting future gets broken_promise.
RenewPromise ==
  /\ promise' = FreshPromise
  /\ future' = [r \in Requests |-> IF r = promise.req /\ promise.val = 0
                                     THEN Plain("broken") ELSE future[r]]

(***************************************************************************)
(* stream_->Write: it reaches the server or is lost with it; it fails only *)
(* when the stream has ended, and surely once the reader has seen that.    *)
(***************************************************************************)
WriteOk(msg) == \/ open /\ c2s' = Append(c2s, msg)
                \/ ~open /\ reader \notin Closed /\ UNCHANGED c2s
---------------------------------------------------------------------------
(* request, up to its Write; then requested = true; then get_future.       *)
request ==
  /\ user = "idle" /\ requests < MaxRequests
  /\ connected /\ ~requested
  /\ WriteOk([setting |-> "PULL_NEW_REQ", req |-> requests + 1])
  /\ requests' = requests + 1
  /\ overlapped' = (overlapped \/ \E r \in Requests : future[r].state \in Unresolved)
  /\ user' = "sent"
  /\ UNCHANGED <<connected, requested, promise, future, reader, joinable,
                 cancels, connections, open, s2c, serverVars>>

MarkRequested ==
  /\ user = "sent"
  /\ requested' = TRUE
  /\ user' = "marked"
  /\ UNCHANGED <<connected, promise, future, reader, joinable, counters, open,
                 c2s, s2c, serverVars>>

GetFuture ==
  /\ user = "marked"
  /\ user' = "idle"
  /\ IF promise.req # 0
       THEN /\ future' = [future EXCEPT ![requests] = Plain("threw")]
            /\ UNCHANGED promise
       ELSE /\ promise' = [promise EXCEPT !.req = requests]
            /\ future' = [future EXCEPT ![requests] =
                 IF promise.val = 0 THEN Plain("waiting") ELSE Ready(promise.val)]
  /\ UNCHANGED <<connected, requested, reader, joinable, counters, open, c2s, s2c,
                 serverVars>>

cancel ==
  /\ user = "idle" /\ cancels < MaxCancels
  /\ connected /\ requested
  /\ WriteOk([setting |-> "SET_CANCELED", req |-> 0])
  /\ cancels' = cancels + 1
  /\ UNCHANGED <<clientVars, requests, connections, overlapped, open, s2c, serverVars>>

\* request or cancel whose Write fails: wait_server_notify_thread.join().
WriteFails ==
  /\ user = "idle" /\ connected /\ ~open
  /\ (~requested /\ requests < MaxRequests) \/ (requested /\ cancels < MaxCancels)
  /\ user' = "join"
  /\ UNCHANGED <<connected, requested, promise, future, reader, joinable,
                 counters, open, c2s, s2c, serverVars>>

Joined ==
  /\ user = "join" /\ reader = "exited"
  /\ joinable' = FALSE
  /\ user' = "idle"
  /\ UNCHANGED <<connected, requested, promise, future, reader, counters, open,
                 c2s, s2c, serverVars>>

(***************************************************************************)
(* reset, which the user calls when a future has thrown                    *)
(* StreamCloseException.  join of a thread that was joined already throws  *)
(* system_error, which ends the process.                                   *)
(***************************************************************************)
reset(r) ==
  /\ user = "idle" /\ future[r].state = "closed"
  /\ future' = [future EXCEPT ![r] = Plain("reported")]
  /\ user' = "reset"
  /\ UNCHANGED <<connected, requested, promise, reader, joinable, counters, open,
                 c2s, s2c, serverVars>>

ResetJoin ==
  /\ user = "reset"
  /\ \/ ~joinable /\ user' = "terminated" /\ UNCHANGED reader
     \/ joinable /\ reader = "exited" /\ reader' = "await" /\ user' = "idle"
  /\ UNCHANGED <<connected, requested, promise, future, joinable, counters, open,
                 c2s, s2c, serverVars>>
---------------------------------------------------------------------------
(* create_connection: a stream to a server process that has just started.  *)
Connect ==
  /\ reader = "await" /\ connections < MaxConnections
  /\ connections' = connections + 1
  /\ open' = TRUE /\ c2s' = <<>> /\ s2c' = <<>>
  /\ calls_status' = "SUSPEND" /\ event' = "idle" /\ callback' = NoCallback
  /\ accepted' = {} /\ answered' = {}
  /\ RenewPromise
  /\ reader' = "connect"
  /\ UNCHANGED <<connected, requested, user, joinable, requests, cancels, overlapped>>

ReaderOnly == UNCHANGED <<user, joinable, counters, open, c2s, serverVars>>

SetConnected ==
  /\ reader = "connect"
  /\ connected' = TRUE
  /\ reader' = "flagged"
  /\ ReaderOnly /\ UNCHANGED <<requested, promise, future, s2c>>

\* requested = false, at the start and after a final reply.
ClearRequested ==
  /\ reader \in {"flagged", "clear"}
  /\ requested' = FALSE
  /\ reader' = "read"
  /\ ReaderOnly /\ UNCHANGED <<connected, promise, future, s2c>>

\* A reply with status PROCESS or PROMPTED only changes the client's status.
ReadStatus ==
  /\ reader = "read" /\ s2c # <<>> /\ Head(s2c).status \notin Outcomes
  /\ s2c' = Tail(s2c)
  /\ ReaderOnly /\ UNCHANGED <<connected, requested, promise, future, reader>>

ReadFinal ==
  /\ reader = "read" /\ s2c # <<>> /\ Head(s2c).status \in Outcomes
  /\ s2c' = Tail(s2c)
  /\ Satisfy(Head(s2c).req)
  /\ reader' = "replace"
  /\ ReaderOnly /\ UNCHANGED <<connected, requested>>

\* Mutant: the promise is kept, so the next reply finds the old future.
ReplacePromiseNot ==
  /\ reader = "replace"
  /\ promise' = [promise EXCEPT !.val = 0] /\ UNCHANGED future
  /\ reader' = "clear"
  /\ ReaderOnly /\ UNCHANGED <<connected, requested, s2c>>

ReplacePromise ==
  /\ reader = "replace"
  /\ RenewPromise
  /\ reader' = "clear"
  /\ ReaderOnly /\ UNCHANGED <<connected, requested, s2c>>

\* Mutant: no exception is set.
ReadClosedSilently ==
  /\ reader = "read" /\ s2c = <<>> /\ ~open
  /\ reader' = "closing"
  /\ ReaderOnly /\ UNCHANGED <<connected, requested, promise, future, s2c>>

\* Read returns false: the stream has ended and everything sent is read.
ReadClosed ==
  /\ reader = "read" /\ s2c = <<>> /\ ~open
  /\ IF requested THEN Satisfy(Exception) ELSE UNCHANGED <<promise, future>>
  /\ reader' = "closing"
  /\ ReaderOnly /\ UNCHANGED <<connected, requested, s2c>>

CloseRenew ==
  /\ reader = "closing"
  /\ RenewPromise
  /\ reader' = "off"
  /\ ReaderOnly /\ UNCHANGED <<connected, requested, s2c>>

CloseDisconnect ==
  /\ reader = "off"
  /\ connected' = FALSE
  /\ reader' = "unrequest"
  /\ ReaderOnly /\ UNCHANGED <<requested, promise, future, s2c>>

CloseExit ==
  /\ reader = "unrequest"
  /\ requested' = FALSE
  /\ reader' = "exited"
  /\ ReaderOnly /\ UNCHANGED <<connected, promise, future, s2c>>
---------------------------------------------------------------------------
(* handle_event, READ.  The event thread is one thread: it reads the next  *)
(* message only when it is done with this one.  write_reply never finds a  *)
(* reply in reply_wait_queue, so it writes at once; that two writes may    *)
(* then be outstanding, which gRPC forbids, can end the process (Crash).   *)
write_reply(status, r) == s2c' = Append(s2c, [status |-> status, req |-> r])

\* Mutant: the test isSuspend is missing.
HandlePullAlways ==
  /\ open /\ event = "idle" /\ c2s # <<>> /\ Head(c2s).setting = "PULL_NEW_REQ"
  /\ c2s' = Tail(c2s)
  /\ calls_status' = "PROCESS"
  /\ write_reply("PROCESS", Head(c2s).req)
  /\ callback' = [pc |-> "run", req |-> Head(c2s).req, final |-> "SUSPEND"]
  /\ accepted' = accepted \cup {Head(c2s).req}
  /\ UNCHANGED <<clientVars, counters, open, event, answered>>

HandlePull ==
  /\ open /\ event = "idle" /\ c2s # <<>> /\ Head(c2s).setting = "PULL_NEW_REQ"
  /\ calls_status = "SUSPEND"
  /\ c2s' = Tail(c2s)
  /\ calls_status' = "PROCESS"
  /\ write_reply("PROCESS", Head(c2s).req)
  /\ callback' = [pc |-> "run", req |-> Head(c2s).req, final |-> "SUSPEND"]
  /\ accepted' = accepted \cup {Head(c2s).req}
  /\ UNCHANGED <<clientVars, counters, open, event, answered>>

\* A cancel of a request in process: the test of setPrompted, then its store.
HandleCancel ==
  /\ open /\ event = "idle" /\ c2s # <<>> /\ Head(c2s).setting = "SET_CANCELED"
  /\ calls_status = "PROCESS"
  /\ c2s' = Tail(c2s)
  /\ event' = "prompt"
  /\ UNCHANGED <<clientVars, counters, open, s2c, calls_status, callback,
                 accepted, answered>>

setPrompted ==
  /\ open /\ event = "prompt"
  /\ calls_status' = "PROMPTED"
  /\ write_reply("PROMPTED", 0)
  /\ event' = "idle"
  /\ UNCHANGED <<clientVars, counters, open, c2s, callback, accepted, answered>>

\* "invalid operation, will not reponse to client".
HandleInvalid ==
  /\ open /\ event = "idle" /\ c2s # <<>>
  /\ calls_status # (IF Head(c2s).setting = "PULL_NEW_REQ" THEN "SUSPEND" ELSE "PROCESS")
  /\ c2s' = Tail(c2s)
  /\ UNCHANGED <<clientVars, counters, open, s2c, serverVars>>

(* The callback thread: setSuccess, setFailed or setAborted by the user's  *)
(* function, any number of times, and what follows when it returns.        *)
SetOutcome(outcome) ==
  /\ open /\ callback.pc = "run"
  /\ calls_status \in {"PROCESS", "PROMPTED"}
  /\ calls_status' = outcome
  /\ UNCHANGED <<clientVars, counters, open, c2s, s2c, event, callback, accepted,
                 answered>>

endStatus ==
  /\ open /\ callback.pc = "run"
  /\ LET final == IF calls_status \in Outcomes THEN calls_status ELSE "ABORTED"
     IN  /\ calls_status' = final
         /\ callback' = [callback EXCEPT !.pc = "write", !.final = final]
  /\ UNCHANGED <<clientVars, counters, open, c2s, s2c, event, accepted, answered>>

\* Mutant: the reply is put into reply_wait_queue, where it stays.
WriteFinalQueued ==
  /\ open /\ callback.pc = "write"
  /\ answered' = answered \cup {callback.req}
  /\ callback' = [callback EXCEPT !.pc = "test"]
  /\ UNCHANGED <<clientVars, counters, open, c2s, s2c, calls_status, event, accepted>>

WriteFinal ==
  /\ open /\ callback.pc = "write"
  /\ write_reply(callback.final, callback.req)
  /\ answered' = answered \cup {callback.req}
  /\ callback' = [callback EXCEPT !.pc = "test"]
  /\ UNCHANGED <<clientVars, counters, open, c2s, calls_status, event, accepted>>

\* setSuspend: its test, then its store.
TestSuspend ==
  /\ open /\ callback.pc = "test"
  /\ callback' = IF calls_status \in {"PROCESS", "PROMPTED"}
                   THEN NoCallback ELSE [callback EXCEPT !.pc = "suspend"]
  /\ UNCHANGED <<clientVars, counters, open, c2s, s2c, calls_status, event,
                 accepted, answered>>

setSuspend ==
  /\ open /\ callback.pc = "suspend"
  /\ calls_status' = "SUSPEND"
  /\ callback' = NoCallback
  /\ UNCHANGED <<clientVars, counters, open, c2s, s2c, event, accepted, answered>>

\* The server process ends; the client may still read some of what it sent.
Crash ==
  /\ open
  /\ open' = FALSE
  /\ \E n \in 0..Len(s2c) : s2c' = SubSeq(s2c, 1, n)
  /\ c2s' = <<>>
  /\ calls_status' = "SUSPEND" /\ event' = "idle" /\ callback' = NoCallback
  /\ UNCHANGED <<clientVars, counters, accepted, answered>>
---------------------------------------------------------------------------
User == MarkRequested \/ GetFuture \/ Joined \/ ResetJoin
Calls == request \/ cancel \/ WriteFails \/ \E r \in Requests : reset(r)
Reader == \/ SetConnected \/ ClearRequested \/ ReadStatus \/ ReadFinal
          \/ ReplacePromise \/ ReadClosed \/ CloseRenew \/ CloseDisconnect \/ CloseExit
Event == HandlePull \/ HandleCancel \/ setPrompted \/ HandleInvalid
Return == endStatus \/ WriteFinal \/ TestSuspend \/ setSuspend
Next == \/ User \/ Calls \/ Connect \/ Reader \/ Event \/ Return \/ Crash
        \/ \E outcome \in Outcomes : SetOutcome(outcome)

Spec == Init /\ [][Next]_vars

(***************************************************************************)
(* The four threads are scheduled and the service callback returns.  The   *)
(* user need not call, no server need appear and none need crash.          *)
(***************************************************************************)
FairSpec == Spec /\ WF_vars(User) /\ WF_vars(Reader) /\ WF_vars(Event) /\ WF_vars(Return)
---------------------------------------------------------------------------
(* Properties.                                                             *)

\* Every variable keeps its type.
TypeOK ==
  /\ {connected, requested, joinable, open, overlapped} \subseteq BOOLEAN
  /\ promise \in Promises
  /\ future \in [Requests -> Futures]
  /\ user \in UserPCs /\ reader \in ReaderPCs
  /\ requests \in 0..MaxRequests /\ cancels \in 0..MaxCancels
  /\ connections \in 0..MaxConnections
  /\ c2s \in Seq([setting : {"PULL_NEW_REQ", "SET_CANCELED"}, req : 0..MaxRequests])
  /\ s2c \in Seq([status : Statuses, req : 0..MaxRequests])
  /\ calls_status \in Statuses
  /\ event \in {"idle", "prompt"}
  /\ callback \in [pc : {"idle", "run", "write", "test", "suspend"},
                   req : 0..MaxRequests, final : Outcomes \cup {"SUSPEND"}]
  /\ accepted \subseteq Requests /\ answered \subseteq accepted

(***************************************************************************)
(* A stream that is SUSPEND has replied to every request it has taken, and *)
(* otherwise at most one is without a reply: no two callbacks of a stream  *)
(* run at once, whatever cancels race with their end.                      *)
(***************************************************************************)
OneCallAtATime ==
  /\ TypeOK
  /\ open => /\ calls_status = "SUSPEND" => accepted = answered
             /\ Cardinality(accepted \ answered) <= 1

(***************************************************************************)
(* A user that takes each reply before it makes the next request, and none *)
(* after one that threw, as cpp/test/svc_client.cpp does, gets the reply   *)
(* to its own request or none: a reply that comes before its future is     *)
(* given out is lost and not kept for the next request.                    *)
(***************************************************************************)
RepliesMatch ==
  \A r \in Requests :
    (future[r].state = "value" /\ ~overlapped) => future[r].of = r

(***************************************************************************)
(* A future that waits on the current promise while the server works on    *)
(* its request is completed: by the reply, or by the end of the stream.    *)
(***************************************************************************)
AcceptedCompleted ==
  \A r \in Requests :
    (future[r].state = "waiting" /\ callback.req = r /\ r \notin answered)
      ~> future[r].state # "waiting"

(***************************************************************************)
(* A request in progress when the server dies gets its reply, if that was  *)
(* still sent, or StreamCloseException, and never a broken promise.        *)
(***************************************************************************)
CloseReported ==
  \A r \in Requests :
    (future[r].state = "waiting" /\ requested /\ reader = "read" /\ ~open)
      ~> future[r].state \in {"value", "closed"}

(***************************************************************************)
(* cpp/test/svc_client.cpp: when request has returned true, future.get()   *)
(* gives the reply or throws.  No future waits for ever.                   *)
(***************************************************************************)
RequestAnswered ==
  \A r \in Requests :
    (future[r].state = "waiting") ~> (future[r].state # "waiting")

=============================================================================
