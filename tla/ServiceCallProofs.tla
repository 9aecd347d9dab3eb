------------------------- MODULE ServiceCallProofs -------------------------
(***************************************************************************)
(* Proofs about service calls, for any number of requests, cancels and     *)
(* streams.                                                                *)
(***************************************************************************)
EXTENDS ServiceCall, FiniteSetTheorems, TLAPS

\* Requests the server has not handled, and final replies not yet read.
Pulls == {k \in DOMAIN c2s : c2s[k].setting = "PULL_NEW_REQ"}
Finals == {k \in DOMAIN s2c : s2c[k].status \in Outcomes}
\* The callback has a reply to write.
Working == callback.pc \in {"run", "write"}
NothingInFlight == Pulls = {} /\ Finals = {} /\ ~Working
\* The user is inside request, after its Write.
Requesting == user \in {"sent", "marked"}

\* A callback works for the only request that is without a reply.
ServerInv ==
  /\ Working => callback.req \in accepted /\ accepted \ answered \subseteq {callback.req}
  /\ (open /\ ~Working) => accepted = answered
  /\ calls_status = "SUSPEND" => callback.pc = "idle"
  /\ ~open => c2s = <<>> /\ callback = NoCallback
  /\ reader \in Closed \cup {"await"} => ~open /\ s2c = <<>>
  /\ \A k \in Pulls : c2s[k].req \in Requests
  /\ \A k \in Finals : s2c[k].req \in Requests

\* A future waits exactly while reply_promise is its promise and has no value.
PromiseInv ==
  /\ promise.req <= requests
  /\ promise.val # 0 => reader \in {"replace", "closing"}
  /\ reader = "replace" => promise.val \in Requests
  /\ reader = "closing" => promise.val \in {0, Exception}
  /\ \A r \in Requests : future[r].state = "waiting" <=> (promise.req = r /\ promise.val = 0)
  /\ \A r \in Requests : r > requests => future[r].state = "none"
  /\ Requesting => requests > 0 /\ future[requests].state = "none" /\ promise.req # requests
  /\ ~Requesting => requests = 0 \/ future[requests].state # "none"

(***************************************************************************)
(* Without overlapping requests only the last one is in flight, in one     *)
(* place: on its way, in the callback, or replied to.  A promise without   *)
(* value is the last request's, and so is a value without future.          *)
(***************************************************************************)
FlightInv ==
  /\ \A k \in Pulls : c2s[k].req = requests
  /\ \A k \in Finals : s2c[k].req = requests
  /\ Working => callback.req = requests /\ Pulls = {} /\ Finals = {}
  /\ \A j, k \in Pulls : j = k
  /\ \A j, k \in Finals : j = k
  /\ Pulls = {} \/ Finals = {}
OwnInv ==
  /\ (promise.val = 0 /\ promise.req # 0) => promise.req = requests
  /\ (reader = "replace" /\ promise.req = 0) => promise.val = requests /\ NothingInFlight
  /\ (~Requesting /\ (requests = 0 \/ future[requests].state \notin Unresolved)) =>
       NothingInFlight /\ ~(reader = "replace" /\ promise.req = 0)
MatchInv == ~overlapped => FlightInv /\ OwnInv

IndInv == TypeOK /\ ServerInv /\ PromiseInv /\ MatchInv /\ RepliesMatch
---------------------------------------------------------------------------
(* Facts about futures and the two directions of the stream.               *)

ClientMessages == [setting : {"PULL_NEW_REQ", "SET_CANCELED"}, req : 0..MaxRequests]
ServerMessages == [status : Statuses, req : 0..MaxRequests]

\* What a future can become.
LEMMA FutureTypes ==
  /\ MaxRequests \in Nat \ {0} /\ Requests \subseteq Nat \ {0} /\ Requests \subseteq 0..MaxRequests
  /\ \A state \in FutureStates : Plain(state) \in Futures /\ Plain(state).state = state
  /\ \A val \in Exception..MaxRequests :
       /\ Ready(val) \in Futures /\ Ready(val).state \in {"value", "closed"}
       /\ Ready(val).state = "value" => Ready(val).of = val /\ val # Exception
  /\ FreshPromise \in Promises
  /\ -1 \in Exception..MaxRequests /\ 0..MaxRequests \subseteq Exception..MaxRequests
<1>1. /\ MaxRequests \in Nat \ {0} /\ Requests \subseteq Nat \ {0}
      /\ Requests \subseteq 0..MaxRequests
      /\ -1 \in Exception..MaxRequests /\ 0..MaxRequests \subseteq Exception..MaxRequests
  BY BoundsAssumption DEF Requests, Exception
<1>2. \A state \in FutureStates : Plain(state) \in Futures /\ Plain(state).state = state
  BY <1>1 DEF Plain, Futures
<1>3. \A val \in Exception..MaxRequests :
       /\ Ready(val) \in Futures /\ Ready(val).state \in {"value", "closed"}
       /\ Ready(val).state = "value" => Ready(val).of = val /\ val # Exception
  BY <1>1 DEF Ready, Plain, Futures, FutureStates, Exception
<1>4. FreshPromise \in Promises
  BY <1>1 DEF FreshPromise, Promises, Exception
<1> QED
  BY <1>1, <1>2, <1>3, <1>4

\* The first element of a sequence and the rest.
LEMMA HeadAndTail ==
  ASSUME NEW S, NEW s \in Seq(S), s # <<>>
  PROVE  /\ Head(s) \in S /\ Head(s) = s[1] /\ Tail(s) \in Seq(S) /\ 1 \in DOMAIN s
         /\ \A k \in DOMAIN Tail(s) : /\ k \in Nat /\ k + 1 \in DOMAIN s /\ k + 1 # 1
                                      /\ Tail(s)[k] = s[k + 1]
  OBVIOUS

\* A sequence with one more element.
LEMMA Appended ==
  ASSUME NEW S, NEW s \in Seq(S), NEW x \in S
  PROVE  /\ Append(s, x) \in Seq(S)
         /\ \A k \in DOMAIN Append(s, x) : \/ k \in DOMAIN s /\ Append(s, x)[k] = s[k]
                                           \/ k = Len(s) + 1 /\ Append(s, x)[k] = x
  OBVIOUS

\* What a dead process leaves on its stream is a prefix.
LEMMA Prefix ==
  ASSUME NEW S, NEW s \in Seq(S), NEW n \in 0..Len(s)
  PROVE  /\ SubSeq(s, 1, n) \in Seq(S)
         /\ \A k \in DOMAIN SubSeq(s, 1, n) : k \in DOMAIN s /\ SubSeq(s, 1, n)[k] = s[k]
  OBVIOUS

\* The server takes the first message.
LEMMA MessageTaken ==
  ASSUME TypeOK, c2s # <<>>, c2s' = Tail(c2s)
  PROVE  /\ c2s' \in Seq(ClientMessages) /\ Head(c2s) \in ClientMessages
         /\ Head(c2s).setting = "PULL_NEW_REQ" => 1 \in Pulls /\ c2s[1] = Head(c2s)
         /\ \A k \in Pulls' : k \in Nat /\ k + 1 \in Pulls /\ k + 1 # 1 /\ c2s'[k] = c2s[k + 1]
<1>1. c2s \in Seq(ClientMessages)
  BY DEF TypeOK, ClientMessages
<1>2. /\ Head(c2s) \in ClientMessages /\ Head(c2s) = c2s[1] /\ c2s' \in Seq(ClientMessages)
      /\ 1 \in DOMAIN c2s
      /\ \A k \in DOMAIN c2s' : k \in Nat /\ k + 1 \in DOMAIN c2s /\ k + 1 # 1 /\ c2s'[k] = c2s[k + 1]
  BY <1>1, HeadAndTail
<1> QED
  BY <1>2 DEF Pulls

\* The client writes a message.
LEMMA MessageWritten ==
  ASSUME TypeOK, NEW m \in ClientMessages, c2s' = Append(c2s, m)
  PROVE  /\ c2s' \in Seq(ClientMessages)
         /\ \A k \in Pulls' : \/ k \in Pulls /\ c2s'[k] = c2s[k]
                              \/ /\ k = Len(c2s) + 1 /\ c2s'[k] = m
                                 /\ m.setting = "PULL_NEW_REQ"
<1>1. c2s \in Seq(ClientMessages)
  BY DEF TypeOK, ClientMessages
<1>2. /\ c2s' \in Seq(ClientMessages)
      /\ \A k \in DOMAIN c2s' : \/ k \in DOMAIN c2s /\ c2s'[k] = c2s[k]
                                \/ k = Len(c2s) + 1 /\ c2s'[k] = m
  BY <1>1, Appended
<1> QED
  BY <1>2 DEF Pulls

\* The client reads a reply.
LEMMA ReplyRead ==
  ASSUME TypeOK, s2c # <<>>, s2c' = Tail(s2c)
  PROVE  /\ s2c' \in Seq(ServerMessages) /\ Head(s2c) \in ServerMessages
         /\ Head(s2c).status \in Outcomes => 1 \in Finals /\ s2c[1] = Head(s2c)
         /\ \A k \in Finals' : k \in Nat /\ k + 1 \in Finals /\ k + 1 # 1 /\ s2c'[k] = s2c[k + 1]
<1>1. s2c \in Seq(ServerMessages)
  BY DEF TypeOK, ServerMessages
<1>2. /\ Head(s2c) \in ServerMessages /\ Head(s2c) = s2c[1] /\ s2c' \in Seq(ServerMessages)
      /\ 1 \in DOMAIN s2c
      /\ \A k \in DOMAIN s2c' : k \in Nat /\ k + 1 \in DOMAIN s2c /\ k + 1 # 1 /\ s2c'[k] = s2c[k + 1]
  BY <1>1, HeadAndTail
<1> QED
  BY <1>2 DEF Finals

\* The server writes a reply.
LEMMA ReplyWritten ==
  ASSUME TypeOK, NEW status \in Statuses, NEW r \in 0..MaxRequests, write_reply(status, r)
  PROVE  /\ s2c' \in Seq(ServerMessages)
         /\ \A k \in Finals' : \/ k \in Finals /\ s2c'[k] = s2c[k]
                               \/ /\ k = Len(s2c) + 1 /\ s2c'[k].req = r
                                  /\ status \in Outcomes
<1> DEFINE m == [status |-> status, req |-> r]
<1>1. s2c \in Seq(ServerMessages) /\ m \in ServerMessages /\ s2c' = Append(s2c, m)
  BY DEF TypeOK, ServerMessages, write_reply
<1>2. m.req = r /\ m.status = status
  OBVIOUS
<1> HIDE DEF m
<1>3. /\ s2c' \in Seq(ServerMessages)
      /\ \A k \in DOMAIN s2c' : \/ k \in DOMAIN s2c /\ s2c'[k] = s2c[k]
                                \/ k = Len(s2c) + 1 /\ s2c'[k] = m
  BY <1>1, Appended
<1> QED
  BY <1>2, <1>3 DEF Finals
---------------------------------------------------------------------------
\* Nothing is in flight at first.
LEMMA InitInd == Init => IndInv
<1> SUFFICES ASSUME Init PROVE IndInv
  OBVIOUS
<1>1. c2s = <<>> /\ s2c = <<>> /\ Pulls = {} /\ Finals = {}
  BY DEF Init, Pulls, Finals
<1>2. TypeOK
  <2>1. future \in [Requests -> Futures]
    BY FutureTypes DEF Init, FutureStates
  <2>2. callback \in [pc : {"idle", "run", "write", "test", "suspend"},
                      req : 0..MaxRequests, final : Outcomes \cup {"SUSPEND"}]
    BY FutureTypes DEF Init, NoCallback
  <2>3. requests \in 0..MaxRequests /\ cancels \in 0..MaxCancels /\ connections \in 0..MaxConnections
    BY BoundsAssumption DEF Init
  <2>4. {connected, requested, joinable, open, overlapped} \subseteq BOOLEAN
    BY DEF Init
  <2>5. promise \in Promises
    BY FutureTypes DEF Init
  <2> QED
    BY <1>1, <2>1, <2>2, <2>3, <2>4, <2>5 DEF Init, TypeOK, UserPCs, ReaderPCs, Statuses
<1>3. ServerInv
  BY <1>1 DEF Init, ServerInv, Working, NoCallback
<1>4. PromiseInv
  BY FutureTypes DEF Init, PromiseInv, FreshPromise, Plain, Requesting
<1>5. MatchInv
  BY <1>1 DEF Init, MatchInv, FlightInv, OwnInv, NothingInFlight, Working, NoCallback, FreshPromise
<1>6. RepliesMatch
  BY DEF Init, RepliesMatch, Plain
<1> QED
  BY <1>2, <1>3, <1>4, <1>5, <1>6 DEF IndInv

\* The flags are Boolean.
LEMMA FlagsInd ==
  ASSUME TypeOK, [Next]_vars
  PROVE  {connected', requested', joinable', open', overlapped'} \subseteq BOOLEAN
<1>0. {connected, requested, joinable, open, overlapped} \subseteq BOOLEAN
  BY DEF TypeOK
<1>1. CASE User \/ Reader \/ UNCHANGED vars
  BY <1>0, <1>1 DEF User, MarkRequested, GetFuture, Joined, ResetJoin, Reader, SetConnected,
     ClearRequested, ReadStatus, ReadFinal, ReplacePromise, ReadClosed, CloseRenew,
     CloseDisconnect, CloseExit, ReaderOnly, vars, clientVars, counters
<1>2. CASE Calls \/ Connect
  BY <1>0, <1>2 DEF Calls, request, cancel, WriteFails, reset, Connect, clientVars, counters
<1>3. CASE Event \/ Return \/ Crash \/ \E outcome \in Outcomes : SetOutcome(outcome)
  BY <1>0, <1>3 DEF Event, HandlePull, HandleCancel, setPrompted, HandleInvalid, Return,
     endStatus, WriteFinal, TestSuspend, setSuspend, Crash, SetOutcome, clientVars, counters
<1> QED
  BY <1>1, <1>2, <1>3 DEF Next

\* What the promise and the futures can become.
LEMMA SatisfyType ==
  ASSUME TypeOK, NEW val \in Exception..MaxRequests, Satisfy(val)
  PROVE  /\ promise' \in Promises /\ promise'.val = val /\ promise'.req = promise.req
         /\ future' \in [Requests -> Futures]
         /\ \A r \in Requests : future'[r] = IF r = promise.req THEN Ready(val) ELSE future[r]
<1>1. promise \in Promises /\ future \in [Requests -> Futures]
  BY DEF TypeOK
<1>2. promise' \in Promises /\ promise'.val = val /\ promise'.req = promise.req
  BY <1>1 DEF Satisfy, Promises
<1>3. Ready(val) \in Futures
  BY FutureTypes
<1> QED
  BY <1>1, <1>2, <1>3 DEF Satisfy

\* After reply_promise = promise<Reply>().
LEMMA RenewType ==
  ASSUME TypeOK, RenewPromise
  PROVE  /\ promise' \in Promises /\ promise'.val = 0 /\ promise'.req = 0
         /\ future' \in [Requests -> Futures]
         /\ \A r \in Requests : future'[r] = IF r = promise.req /\ promise.val = 0
                                               THEN Plain("broken") ELSE future[r]
<1>1. future \in [Requests -> Futures]
  BY DEF TypeOK
<1>2. promise' \in Promises /\ promise'.val = 0 /\ promise'.req = 0
  BY FutureTypes DEF RenewPromise, FreshPromise
<1>3. Plain("broken") \in Futures
  BY FutureTypes DEF FutureStates
<1> QED
  BY <1>1, <1>2, <1>3 DEF RenewPromise

\* After get_future: it throws, or the future of the last request is given out.
LEMMA GetFutureType ==
  ASSUME TypeOK, PromiseInv, GetFuture
  PROVE  /\ promise' \in Promises /\ promise'.val = promise.val /\ requests \in Requests
         /\ future' \in [Requests -> Futures]
         /\ \A r \in Requests \ {requests} : future'[r] = future[r]
         /\ promise.req # 0 => promise' = promise /\ future'[requests] = Plain("threw")
         /\ promise.req = 0 => /\ promise'.req = requests
                               /\ future'[requests] = IF promise.val = 0 THEN Plain("waiting")
                                                      ELSE Ready(promise.val)
<1>1. /\ promise \in Promises /\ future \in [Requests -> Futures]
      /\ requests \in 0..MaxRequests /\ promise.val \in Exception..MaxRequests
  BY DEF TypeOK, Promises
<1>2. requests > 0
  BY DEF PromiseInv, Requesting, GetFuture
<1>3. requests \in Requests
  BY <1>1, <1>2, FutureTypes DEF Requests
<1>4. /\ Plain("threw") \in Futures /\ Plain("waiting") \in Futures
      /\ Ready(promise.val) \in Futures
  BY <1>1, FutureTypes DEF FutureStates
<1>5. CASE promise.req # 0
  <2>1. promise' = promise /\ future' = [future EXCEPT ![requests] = Plain("threw")]
    BY <1>5 DEF GetFuture
  <2> QED
    BY <1>1, <1>3, <1>4, <1>5, <2>1
<1>6. CASE promise.req = 0
  <2> DEFINE new == IF promise.val = 0 THEN Plain("waiting") ELSE Ready(promise.val)
  <2>1. promise' = [promise EXCEPT !.req = requests] /\ future' = [future EXCEPT ![requests] = new]
    BY <1>6 DEF GetFuture
  <2>2. new \in Futures
    BY <1>4
  <2> HIDE DEF new
  <2>3. promise' \in Promises /\ promise'.val = promise.val /\ promise'.req = requests
    BY <1>1, <2>1 DEF Promises
  <2>4. future' \in [Requests -> Futures] /\ future'[requests] = new
        /\ \A r \in Requests \ {requests} : future'[r] = future[r]
    BY <1>1, <1>3, <2>1, <2>2
  <2> QED
    BY <1>3, <1>6, <2>3, <2>4 DEF new
<1> QED
  BY <1>5, <1>6

\* Every step keeps every variable in its type.
LEMMA TypeInd ==
  ASSUME IndInv, [Next]_vars
  PROVE  TypeOK'
<1>0. TypeOK /\ ServerInv /\ PromiseInv
  BY DEF IndInv
<1>1. {connected', requested', joinable', open', overlapped'} \subseteq BOOLEAN
  BY <1>0, FlagsInd
<1>2. CASE User
  <2>1. CASE GetFuture
    BY <1>0, <1>1, <2>1, GetFutureType DEF GetFuture, TypeOK, UserPCs, counters, serverVars
  <2>2. CASE MarkRequested \/ Joined \/ ResetJoin
    BY <1>0, <1>1, <2>2 DEF MarkRequested, Joined, ResetJoin, TypeOK, UserPCs, ReaderPCs,
       counters, serverVars
  <2> QED
    BY <1>2, <2>1, <2>2 DEF User
<1>3. CASE request
  <2>1. requests + 1 \in 0..MaxRequests /\ requests + 1 \in Requests
    BY <1>0, <1>3, FutureTypes DEF request, TypeOK, Requests
  <2>2. c2s' \in Seq(ClientMessages)
    <3> DEFINE m == [setting |-> "PULL_NEW_REQ", req |-> requests + 1]
    <3>1. m \in ClientMessages
      BY <2>1 DEF ClientMessages
    <3>2. c2s' = c2s \/ c2s' = Append(c2s, m)
      BY <1>3 DEF request, WriteOk
    <3>3. c2s \in Seq(ClientMessages)
      BY <1>0 DEF TypeOK, ClientMessages
    <3> HIDE DEF m
    <3> QED
      BY <3>1, <3>2, <3>3, Appended
  <2> QED
    BY <1>0, <1>1, <1>3, <2>1, <2>2 DEF request, TypeOK, UserPCs, serverVars, ClientMessages
<1>4. CASE cancel
  <2>1. cancels' \in 0..MaxCancels
    BY <1>0, <1>4, BoundsAssumption DEF cancel, TypeOK
  <2>2. c2s' \in Seq(ClientMessages)
    <3> DEFINE m == [setting |-> "SET_CANCELED", req |-> 0]
    <3>1. m \in ClientMessages
      BY FutureTypes DEF ClientMessages
    <3>2. c2s' = c2s \/ c2s' = Append(c2s, m)
      BY <1>4 DEF cancel, WriteOk
    <3>3. c2s \in Seq(ClientMessages)
      BY <1>0 DEF TypeOK, ClientMessages
    <3> HIDE DEF m
    <3> QED
      BY <3>1, <3>2, <3>3, Appended
  <2> QED
    BY <1>0, <1>1, <1>4, <2>1, <2>2 DEF cancel, TypeOK, clientVars, serverVars, ClientMessages
<1>5. CASE WriteFails
  BY <1>0, <1>1, <1>5 DEF WriteFails, TypeOK, UserPCs, counters, serverVars
<1>6. ASSUME NEW r \in Requests, reset(r) PROVE TypeOK'
  <2>1. Plain("reported") \in Futures
    BY FutureTypes DEF FutureStates
  <2> QED
    BY <1>0, <1>1, <1>6, <2>1 DEF reset, TypeOK, UserPCs, counters, serverVars
<1>7. CASE Connect
  <2>1. connections' \in 0..MaxConnections
    BY <1>0, <1>7, BoundsAssumption DEF Connect, TypeOK
  <2>2. promise' \in Promises /\ future' \in [Requests -> Futures]
    BY <1>0, <1>7, RenewType DEF Connect
  <2>3. callback' \in [pc : {"idle", "run", "write", "test", "suspend"},
                       req : 0..MaxRequests, final : Outcomes \cup {"SUSPEND"}]
    BY <1>7, FutureTypes DEF Connect, NoCallback
  <2> QED
    BY <1>0, <1>1, <1>7, <2>1, <2>2, <2>3 DEF Connect, TypeOK, ReaderPCs, Statuses
<1>8. CASE Reader
  <2>0. /\ UNCHANGED <<user, requests, cancels, connections, c2s, calls_status, event, callback,
                       accepted, answered>>
        /\ reader' \in ReaderPCs
    BY <1>0, <1>8 DEF Reader, SetConnected, ClearRequested, ReadStatus, ReadFinal, ReplacePromise,
       ReadClosed, CloseRenew, CloseDisconnect, CloseExit, ReaderOnly, counters, serverVars,
       TypeOK, ReaderPCs
  <2>1. promise' \in Promises /\ future' \in [Requests -> Futures]
    <3>1. CASE ReadFinal
      <4>1. Head(s2c).req \in 0..MaxRequests
        BY <1>0, <3>1, ReplyRead DEF ReadFinal, ServerMessages
      <4>2. Head(s2c).req \in Exception..MaxRequests
        BY <4>1, FutureTypes
      <4> QED
        BY <1>0, <3>1, <4>2, SatisfyType DEF ReadFinal
    <3>2. CASE ReadClosed
      <4>1. Exception \in Exception..MaxRequests
        BY FutureTypes DEF Exception
      <4> QED
        BY <1>0, <3>2, <4>1, SatisfyType DEF ReadClosed, TypeOK
    <3>3. CASE RenewPromise
      BY <1>0, <3>3, RenewType
    <3>4. CASE UNCHANGED <<promise, future>>
      BY <1>0, <3>4 DEF TypeOK
    <3> QED
      BY <1>8, <3>1, <3>2, <3>3, <3>4 DEF Reader, SetConnected, ClearRequested, ReadStatus,
         ReplacePromise, CloseRenew, CloseDisconnect, CloseExit
  <2>2. s2c' \in Seq(ServerMessages)
    <3>1. CASE UNCHANGED s2c
      BY <1>0, <3>1 DEF TypeOK, ServerMessages
    <3>2. CASE s2c # <<>> /\ s2c' = Tail(s2c)
      BY <1>0, <3>2, ReplyRead
    <3> QED
      BY <1>8, <3>1, <3>2 DEF Reader, SetConnected, ClearRequested, ReadStatus, ReadFinal,
         ReplacePromise, ReadClosed, CloseRenew, CloseDisconnect, CloseExit
  <2> QED
    BY <1>0, <1>1, <2>0, <2>1, <2>2 DEF TypeOK, ServerMessages
<1>9. CASE Event
  <2>0. UNCHANGED <<clientVars, counters, open, answered>>
    BY <1>9 DEF Event, HandlePull, HandleCancel, setPrompted, HandleInvalid, serverVars
  <2>1. c2s' \in Seq(ClientMessages)
    <3>1. CASE UNCHANGED c2s
      BY <1>0, <3>1 DEF TypeOK, ClientMessages
    <3>2. CASE c2s # <<>> /\ c2s' = Tail(c2s)
      BY <1>0, <3>2, MessageTaken
    <3> QED
      BY <1>9, <3>1, <3>2 DEF Event, HandlePull, HandleCancel, setPrompted, HandleInvalid
  <2>2. CASE HandlePull
    <3>1. Head(c2s).req \in Requests /\ Head(c2s).req \in 0..MaxRequests
      BY <1>0, <2>2, MessageTaken, FutureTypes DEF HandlePull, ServerInv
    <3>2. s2c' \in Seq(ServerMessages)
      BY <1>0, <2>2, <3>1, ReplyWritten DEF HandlePull, Statuses
    <3>3. callback' \in [pc : {"idle", "run", "write", "test", "suspend"},
                         req : 0..MaxRequests, final : Outcomes \cup {"SUSPEND"}]
      BY <2>2, <3>1 DEF HandlePull
    <3> QED
      BY <1>0, <1>1, <2>0, <2>1, <2>2, <3>1, <3>2, <3>3
      DEF HandlePull, TypeOK, ClientMessages, ServerMessages, Statuses, clientVars, counters
  <2>3. CASE HandleCancel \/ HandleInvalid
    BY <1>0, <1>1, <2>0, <2>1, <2>3
    DEF HandleCancel, HandleInvalid, TypeOK, ClientMessages, clientVars, counters, serverVars
  <2>4. CASE setPrompted
    <3>0. 0 \in 0..MaxRequests /\ "PROMPTED" \in Statuses
      BY FutureTypes DEF Statuses
    <3>1. s2c' \in Seq(ServerMessages)
      BY <1>0, <2>4, <3>0, ReplyWritten DEF setPrompted
    <3> QED
      BY <1>0, <1>1, <2>0, <2>1, <2>4, <3>1
      DEF setPrompted, TypeOK, ClientMessages, ServerMessages, Statuses, clientVars, counters
  <2> QED
    BY <1>9, <2>2, <2>3, <2>4 DEF Event
<1>10. CASE Return
  <2>0. UNCHANGED <<clientVars, counters, open, c2s, event, accepted>>
    BY <1>10 DEF Return, endStatus, WriteFinal, TestSuspend, setSuspend
  <2>1. callback' \in [pc : {"idle", "run", "write", "test", "suspend"},
                       req : 0..MaxRequests, final : Outcomes \cup {"SUSPEND"}]
    <3>1. NoCallback \in [pc : {"idle", "run", "write", "test", "suspend"},
                          req : 0..MaxRequests, final : Outcomes \cup {"SUSPEND"}]
      BY FutureTypes DEF NoCallback
    <3>2. CASE endStatus
      BY <1>0, <3>2 DEF endStatus, TypeOK, Outcomes
    <3>3. CASE WriteFinal \/ TestSuspend \/ setSuspend
      BY <1>0, <3>1, <3>3 DEF WriteFinal, TestSuspend, setSuspend, TypeOK
    <3> QED
      BY <1>10, <3>2, <3>3 DEF Return
  <2>2. CASE WriteFinal
    <3>1. callback.req \in accepted /\ callback.req \in 0..MaxRequests /\ callback.final \in Statuses
      BY <1>0, <2>2 DEF WriteFinal, ServerInv, Working, TypeOK, Statuses
    <3>2. s2c' \in Seq(ServerMessages)
      BY <1>0, <2>2, <3>1, ReplyWritten DEF WriteFinal
    <3> QED
      BY <1>0, <1>1, <2>0, <2>1, <2>2, <3>1, <3>2
      DEF WriteFinal, TypeOK, ServerMessages, clientVars, counters
  <2>3. CASE endStatus \/ TestSuspend \/ setSuspend
    <3>1. calls_status' \in Statuses
      BY <1>0, <2>3 DEF endStatus, TestSuspend, setSuspend, TypeOK, Statuses, Outcomes
    <3> QED
      BY <1>0, <1>1, <2>0, <2>1, <2>3, <3>1
      DEF endStatus, TestSuspend, setSuspend, TypeOK, clientVars, counters
  <2> QED
    BY <1>10, <2>2, <2>3 DEF Return
<1>11. CASE Crash
  <2>1. s2c' \in Seq(ServerMessages) /\ c2s' \in Seq(ClientMessages)
    <3>1. s2c \in Seq(ServerMessages)
      BY <1>0 DEF TypeOK, ServerMessages
    <3>2. PICK n \in 0..Len(s2c) : s2c' = SubSeq(s2c, 1, n)
      BY <1>11 DEF Crash
    <3>3. c2s' = <<>>
      BY <1>11 DEF Crash
    <3> QED
      BY <3>1, <3>2, <3>3, Prefix
  <2>2. callback' \in [pc : {"idle", "run", "write", "test", "suspend"},
                       req : 0..MaxRequests, final : Outcomes \cup {"SUSPEND"}]
    BY <1>11, FutureTypes DEF Crash, NoCallback
  <2> QED
    BY <1>0, <1>1, <1>11, <2>1, <2>2
    DEF Crash, TypeOK, ClientMessages, ServerMessages, Statuses, clientVars, counters
<1>12. ASSUME NEW outcome \in Outcomes, SetOutcome(outcome) PROVE TypeOK'
  BY <1>0, <1>1, <1>12 DEF SetOutcome, TypeOK, Statuses, clientVars, counters
<1>13. CASE UNCHANGED vars
  BY <1>0, <1>13 DEF vars, TypeOK, clientVars, counters, serverVars
<1> QED
  BY <1>2, <1>3, <1>4, <1>5, <1>6, <1>7, <1>8, <1>9, <1>10, <1>11, <1>12, <1>13 DEF Next, Calls

\* The client's steps leave the server as it is, but for Connect.
ClientSide == User \/ Calls \/ Reader \/ UNCHANGED vars
\* The server's steps leave the client as it is.
ServerSide == Event \/ Return \/ Crash \/ \E outcome \in Outcomes : SetOutcome(outcome)

\* What the two sides leave alone.
LEMMA Sides ==
  /\ [Next]_vars => ClientSide \/ Connect \/ ServerSide
  /\ ClientSide => UNCHANGED <<open, calls_status, event, callback, accepted, answered>>
  /\ ServerSide => UNCHANGED <<clientVars, counters>> /\ open
<1>1. [Next]_vars => ClientSide \/ Connect \/ ServerSide
  BY DEF Next, ClientSide, ServerSide
<1>2. User \/ Calls \/ UNCHANGED vars =>
        UNCHANGED <<open, calls_status, event, callback, accepted, answered>>
  BY DEF User, MarkRequested, GetFuture, Joined, ResetJoin, Calls, request, cancel, WriteFails,
     reset, vars, serverVars
<1>3. Reader => UNCHANGED <<open, calls_status, event, callback, accepted, answered>>
  BY DEF Reader, SetConnected, ClearRequested, ReadStatus, ReadFinal, ReplacePromise,
     ReadClosed, CloseRenew, CloseDisconnect, CloseExit, ReaderOnly, serverVars
<1>4. ServerSide => UNCHANGED <<clientVars, counters>> /\ open
  BY DEF ServerSide, Event, HandlePull, HandleCancel, setPrompted, HandleInvalid, Return,
     endStatus, WriteFinal, TestSuspend, setSuspend, Crash, SetOutcome
<1> QED
  BY <1>1, <1>2, <1>3, <1>4 DEF ClientSide

\* What a step does to the requests on their way: request alone adds one.
LEMMA PullsStep ==
  ASSUME TypeOK, [Next]_vars
  PROVE  \/ \A k \in Pulls' : k \in Pulls /\ c2s'[k] = c2s[k]
         \/ HandlePull \/ HandleCancel \/ HandleInvalid
         \/ request /\ open
<1>1. CASE UNCHANGED c2s
  BY <1>1 DEF Pulls
<1>2. CASE c2s' = <<>>
  BY <1>2 DEF Pulls
<1>3. CASE cancel /\ ~UNCHANGED c2s
  <2>1. PICK m : m = [setting |-> "SET_CANCELED", req |-> 0]
    OBVIOUS
  <2>2. m \in ClientMessages /\ m.setting # "PULL_NEW_REQ"
    BY <2>1, FutureTypes DEF ClientMessages
  <2>3. c2s' = Append(c2s, m)
    BY <1>3, <2>1 DEF cancel, WriteOk
  <2> QED
    BY <2>2, <2>3, MessageWritten
<1>4. CASE request /\ ~UNCHANGED c2s
  BY <1>4 DEF request, WriteOk
<1>5. CASE ClientSide
  BY <1>1, <1>3, <1>4, <1>5
  DEF ClientSide, User, MarkRequested, GetFuture, Joined, ResetJoin, Calls, WriteFails,
     reset, vars, Reader, SetConnected, ClearRequested, ReadStatus, ReadFinal, ReplacePromise,
     ReadClosed, CloseRenew, CloseDisconnect, CloseExit, ReaderOnly
<1>6. CASE Connect
  BY <1>2, <1>6 DEF Connect
<1>7. CASE ServerSide
  BY <1>1, <1>2, <1>7
  DEF ServerSide, Event, setPrompted, Return, endStatus, WriteFinal, TestSuspend, setSuspend,
     Crash, SetOutcome
<1> QED
  BY <1>5, <1>6, <1>7, Sides

\* A final reply is added by the callback's thread only.
LEMMA FinalsStep ==
  ASSUME TypeOK, ServerInv, [Next]_vars
  PROVE  \/ \A k \in Finals' : k \in Finals /\ s2c'[k] = s2c[k]
         \/ /\ ReadStatus \/ ReadFinal
            /\ \A k \in Finals' : k \in Nat /\ k + 1 \in Finals /\ k + 1 # 1 /\ s2c'[k] = s2c[k + 1]
         \/ /\ WriteFinal
            /\ \A k \in Finals' : \/ k \in Finals /\ s2c'[k] = s2c[k]
                                  \/ k = Len(s2c) + 1 /\ s2c'[k].req = callback.req
<1>1. CASE UNCHANGED s2c
  BY <1>1 DEF Finals
<1>2. CASE s2c' = <<>>
  BY <1>2 DEF Finals
<1>3. CASE ReadStatus \/ ReadFinal
  BY <1>3, ReplyRead DEF ReadStatus, ReadFinal
<1>4. CASE HandlePull
  <2>1. Head(c2s).req \in 0..MaxRequests /\ "PROCESS" \in Statuses /\ "PROCESS" \notin Outcomes
    BY <1>4, MessageTaken DEF HandlePull, ClientMessages, Statuses, Outcomes
  <2> QED
    BY <1>4, <2>1, ReplyWritten DEF HandlePull
<1>5. CASE setPrompted
  <2>1. 0 \in 0..MaxRequests /\ "PROMPTED" \in Statuses /\ "PROMPTED" \notin Outcomes
    BY FutureTypes DEF Statuses, Outcomes
  <2> QED
    BY <1>5, <2>1, ReplyWritten DEF setPrompted
<1>6. CASE WriteFinal
  <2>1. callback.req \in 0..MaxRequests /\ callback.final \in Statuses
    BY DEF TypeOK, Statuses
  <2> QED
    BY <1>6, <2>1, ReplyWritten DEF WriteFinal
<1>7. CASE Crash
  <2>1. PICK n \in 0..Len(s2c) : s2c' = SubSeq(s2c, 1, n)
    BY <1>7 DEF Crash
  <2>2. s2c \in Seq(ServerMessages)
    BY DEF TypeOK, ServerMessages
  <2>3. \A k \in DOMAIN s2c' : k \in DOMAIN s2c /\ s2c'[k] = s2c[k]
    BY <2>1, <2>2, Prefix
  <2> QED
    BY <2>3 DEF Finals
<1>8. CASE ClientSide
  BY <1>1, <1>3, <1>8
  DEF ClientSide, User, MarkRequested, GetFuture, Joined, ResetJoin, Calls, request, cancel,
     WriteFails, reset, vars, Reader, SetConnected, ClearRequested, ReplacePromise,
     ReadClosed, CloseRenew, CloseDisconnect, CloseExit
<1>9. CASE Connect
  BY <1>2, <1>9 DEF Connect
<1>10. CASE ServerSide
  BY <1>1, <1>4, <1>5, <1>6, <1>7, <1>10
  DEF ServerSide, Event, HandleCancel, HandleInvalid, Return, endStatus, TestSuspend, setSuspend,
     SetOutcome
<1> QED
  BY <1>8, <1>9, <1>10, Sides

\* A callback works for the only request without a reply, whatever a cancel does.
LEMMA ServerInd ==
  ASSUME IndInv, [Next]_vars
  PROVE  ServerInv'
<1>0. TypeOK /\ ServerInv /\ PromiseInv
  BY DEF IndInv
<1>1. \A k \in Pulls' : c2s'[k].req \in Requests
  <2>1. CASE \A k \in Pulls' : k \in Pulls /\ c2s'[k] = c2s[k]
    BY <1>0, <2>1 DEF ServerInv
  <2>2. CASE HandlePull \/ HandleCancel \/ HandleInvalid
    <3>1. \A k \in Pulls' : k + 1 \in Pulls /\ c2s'[k] = c2s[k + 1]
      BY <1>0, <2>2, MessageTaken DEF HandlePull, HandleCancel, HandleInvalid
    <3> QED
      BY <1>0, <3>1 DEF ServerInv
  <2>3. CASE request /\ open
    <3>1. PICK m : m = [setting |-> "PULL_NEW_REQ", req |-> requests + 1]
      OBVIOUS
    <3>2. m \in ClientMessages /\ m.req \in Requests
      BY <1>0, <2>3, <3>1, FutureTypes DEF request, TypeOK, Requests, ClientMessages
    <3>3. c2s' = Append(c2s, m)
      BY <2>3, <3>1 DEF request, WriteOk
    <3>4. \A k \in Pulls' : (k \in Pulls /\ c2s'[k] = c2s[k]) \/ c2s'[k] = m
      BY <1>0, <3>2, <3>3, MessageWritten
    <3> QED
      BY <1>0, <3>2, <3>4 DEF ServerInv
  <2> QED
    BY <1>0, <2>1, <2>2, <2>3, PullsStep
<1>2. \A k \in Finals' : s2c'[k].req \in Requests
  <2>1. WriteFinal => callback.req \in Requests
    BY <1>0 DEF WriteFinal, ServerInv, Working, TypeOK
  <2> QED
    BY <1>0, <2>1, FinalsStep DEF ServerInv
<1>3. /\ reader' \in Closed \cup {"await"} => ~open' /\ s2c' = <<>>
      /\ ~open' => c2s' = <<>> /\ callback' = NoCallback
  <2>1. CASE ClientSide
    <3>1. UNCHANGED <<open, callback>>
      BY <2>1, Sides
    <3>2. ~open => UNCHANGED c2s
      BY <2>1 DEF ClientSide, User, MarkRequested, GetFuture, Joined, ResetJoin, Calls, request,
         cancel, WriteFails, reset, WriteOk, vars, Reader, SetConnected, ClearRequested,
         ReadStatus, ReadFinal, ReplacePromise, ReadClosed, CloseRenew, CloseDisconnect,
         CloseExit, ReaderOnly
    <3>3. reader' \in Closed \cup {"await"} => ~open /\ s2c' = <<>>
      BY <1>0, <2>1 DEF ClientSide, User, MarkRequested, GetFuture, Joined, ResetJoin, Calls,
         request, cancel, WriteFails, reset, vars, clientVars, Reader, SetConnected,
         ClearRequested, ReadStatus, ReadFinal, ReplacePromise, ReadClosed, CloseRenew,
         CloseDisconnect, CloseExit, ReaderOnly, ServerInv, Closed
    <3> QED
      BY <1>0, <3>1, <3>2, <3>3 DEF ServerInv
  <2>2. CASE Connect
    BY <2>2 DEF Connect, Closed
  <2>3. CASE ServerSide
    <3>1. reader' = reader /\ open
      BY <2>3, Sides DEF clientVars
    <3>2. CASE Crash
      BY <1>0, <3>1, <3>2 DEF Crash, ServerInv
    <3>3. ~Crash => open' = open
      BY <2>3 DEF ServerSide, Event, HandlePull, HandleCancel, setPrompted, HandleInvalid,
         Return, endStatus, WriteFinal, TestSuspend, setSuspend, SetOutcome
    <3> QED
      BY <1>0, <3>1, <3>2, <3>3 DEF ServerInv
  <2> QED
    BY <2>1, <2>2, <2>3, Sides
<1>4. /\ Working' => callback'.req \in accepted' /\ accepted' \ answered' \subseteq {callback'.req}
      /\ (open' /\ ~Working') => accepted' = answered'
      /\ calls_status' = "SUSPEND" => callback'.pc = "idle"
  <2>1. CASE ClientSide
    BY <1>0, <2>1, Sides DEF ServerInv, Working
  <2>2. CASE Connect \/ Crash
    BY <2>2 DEF Connect, Crash, Working, NoCallback
  <2>3. CASE HandlePull
    BY <1>0, <2>3 DEF HandlePull, ServerInv, Working
  <2>4. CASE HandleCancel \/ setPrompted \/ HandleInvalid
    BY <1>0, <2>4 DEF HandleCancel, setPrompted, HandleInvalid, ServerInv, Working, serverVars
  <2>5. ASSUME NEW outcome \in Outcomes, SetOutcome(outcome)
        PROVE  /\ UNCHANGED <<callback, open, accepted, answered>>
               /\ calls_status' # "SUSPEND"
    BY <2>5 DEF SetOutcome, Outcomes
  <2>6. CASE endStatus
    <3>1. callback'.pc = "write" /\ callback'.req = callback.req /\ calls_status' # "SUSPEND"
          /\ callback.pc = "run"
      BY <1>0, <2>6 DEF endStatus, TypeOK, Outcomes
    <3> QED
      BY <1>0, <2>6, <3>1 DEF endStatus, ServerInv, Working
  <2>7. CASE WriteFinal
    <3>1. callback'.pc = "test" /\ callback.pc = "write"
      BY <1>0, <2>7 DEF WriteFinal, TypeOK
    <3> QED
      BY <1>0, <2>7, <3>1 DEF WriteFinal, ServerInv, Working, TypeOK
  <2>8. CASE TestSuspend \/ setSuspend
    <3>1. callback'.pc \in {"idle", "suspend"} /\ callback.pc \in {"test", "suspend"}
          /\ (calls_status' = "SUSPEND" => callback'.pc = "idle" \/ calls_status = "SUSPEND")
      BY <1>0, <2>8 DEF TestSuspend, setSuspend, TypeOK, NoCallback
    <3> QED
      BY <1>0, <2>8, <3>1 DEF TestSuspend, setSuspend, ServerInv, Working
  <2>9. CASE \E outcome \in Outcomes : SetOutcome(outcome)
    BY <1>0, <2>5, <2>9 DEF ServerInv, Working
  <2>10. CASE ServerSide
    BY <2>2, <2>3, <2>4, <2>6, <2>7, <2>8, <2>9, <2>10 DEF ServerSide, Event, Return
  <2> QED
    BY <2>1, <2>2, <2>10, Sides
<1> QED
  BY <1>1, <1>2, <1>3, <1>4 DEF ServerInv

\* A new promise breaks the future that waits for the old one, and no other.
LEMMA RenewInd ==
  ASSUME TypeOK, PromiseInv, RenewPromise, UNCHANGED <<user, requests>>, reader' # "replace"
  PROVE  PromiseInv'
<1>1. /\ promise'.val = 0 /\ promise'.req = 0
      /\ \A r \in Requests : future'[r] = IF r = promise.req /\ promise.val = 0
                                            THEN Plain("broken") ELSE future[r]
  BY RenewType
<1>2. Plain("broken").state = "broken"
  BY DEF Plain
<1>3. requests \in Nat /\ promise.req \in Nat /\ Requests \subseteq Nat \ {0}
  BY FutureTypes DEF TypeOK, Promises
<1>4. requests > 0 => requests \in Requests
  BY FutureTypes DEF TypeOK, Requests
<1>5. \A r \in Requests : future'[r].state # "waiting" /\ promise'.req # r
  BY <1>1, <1>2, <1>3 DEF PromiseInv
<1>6. \A r \in Requests : /\ r > requests => future'[r].state = "none"
                          /\ future[r].state # "none" => future'[r].state # "none"
  BY <1>1, <1>2, <1>3 DEF PromiseInv
<1>7. Requesting => /\ requests > 0 /\ future'[requests].state = "none"
                    /\ promise'.req # requests
  BY <1>1, <1>3, <1>4 DEF PromiseInv
<1>8. ~Requesting => requests = 0 \/ future'[requests].state # "none"
  BY <1>3, <1>4, <1>6 DEF PromiseInv
<1> QED
  BY <1>1, <1>3, <1>5, <1>6, <1>7, <1>8 DEF PromiseInv, Requesting

\* A value or an exception ends the wait of the future, if that was given out.
LEMMA SatisfyInd ==
  ASSUME TypeOK, PromiseInv, NEW val \in Exception..MaxRequests, val # 0, Satisfy(val),
         UNCHANGED <<user, requests>>,
         IF val = Exception THEN reader' = "closing" ELSE reader' = "replace"
  PROVE  PromiseInv'
<1>1. /\ promise'.val = val /\ promise'.req = promise.req
      /\ \A r \in Requests : future'[r] = IF r = promise.req THEN Ready(val) ELSE future[r]
  BY SatisfyType
<1>2. Ready(val).state \in {"value", "closed"}
  BY FutureTypes
<1>3. requests \in Nat /\ promise.req \in Nat /\ Requests \subseteq Nat \ {0}
  BY FutureTypes DEF TypeOK, Promises
<1>4. requests > 0 => requests \in Requests
  BY FutureTypes DEF TypeOK, Requests
<1>5. \A r \in Requests : future'[r].state # "waiting"
  BY <1>1, <1>2, <1>3 DEF PromiseInv
<1>6. \A r \in Requests : /\ r > requests => future'[r].state = "none"
                          /\ future[r].state # "none" => future'[r].state # "none"
  <2>1. \A r \in Requests : r > requests => r # promise.req /\ future[r].state = "none"
    BY <1>3 DEF PromiseInv
  <2> QED
    BY <1>1, <1>2, <2>1
<1>7. Requesting => /\ requests > 0 /\ future'[requests].state = "none"
                    /\ promise'.req # requests
  BY <1>1, <1>3, <1>4 DEF PromiseInv
<1>8. ~Requesting => requests = 0 \/ future'[requests].state # "none"
  BY <1>3, <1>4, <1>6 DEF PromiseInv
<1> QED
  <2>1. reader' = "replace" => val \in Requests
    BY DEF Requests, Exception
  <2>2. reader' = "closing" => val \in {0, Exception}
    OBVIOUS
  <2>3. reader' \in {"replace", "closing"}
    OBVIOUS
  <2> QED
    BY <1>1, <1>3, <1>5, <1>6, <1>7, <1>8, <2>1, <2>2, <2>3 DEF PromiseInv, Requesting

\* Exactly the future of reply_promise waits.
LEMMA PromiseInd ==
  ASSUME IndInv, [Next]_vars
  PROVE  PromiseInv'
<1>0. TypeOK /\ ServerInv /\ PromiseInv
  BY DEF IndInv
<1>1. requests \in Nat /\ promise.req \in Nat /\ Requests \subseteq Nat \ {0}
  BY <1>0, FutureTypes DEF TypeOK, Promises
<1>2. CASE UNCHANGED <<promise, future, requests>> /\ Requesting' = Requesting
           /\ \/ reader' = reader
              \/ reader \notin {"replace", "closing"} /\ reader' # "replace"
  BY <1>0, <1>2 DEF PromiseInv
<1>3. CASE MarkRequested \/ Joined \/ ResetJoin \/ cancel \/ WriteFails
  <2>1. Requesting' = Requesting
    BY <1>3 DEF Requesting, MarkRequested, Joined, ResetJoin, cancel, WriteFails, clientVars
  <2>2. reader' = reader \/ (reader = "exited" /\ reader' = "await")
    BY <1>3 DEF MarkRequested, Joined, ResetJoin, cancel, WriteFails, clientVars
  <2> QED
    BY <1>2, <1>3, <2>1, <2>2 DEF MarkRequested, Joined, ResetJoin, cancel, WriteFails, clientVars, counters
<1>4. CASE GetFuture
  <2>1. /\ promise'.val = promise.val /\ requests \in Requests
        /\ \A r \in Requests \ {requests} : future'[r] = future[r]
        /\ promise.req # 0 => promise' = promise /\ future'[requests] = Plain("threw")
        /\ promise.req = 0 => /\ promise'.req = requests
                              /\ future'[requests] = IF promise.val = 0 THEN Plain("waiting")
                                                     ELSE Ready(promise.val)
    BY <1>0, <1>4, GetFutureType
  <2>2. UNCHANGED <<reader, requests>> /\ ~Requesting' /\ Requesting
    BY <1>4 DEF GetFuture, counters, Requesting
  <2>3. /\ Plain("threw").state = "threw" /\ Plain("waiting").state = "waiting"
        /\ Ready(promise.val).state \in {"value", "closed"}
    BY <1>0, FutureTypes DEF TypeOK, Promises, Plain
  <2>4. \A r \in Requests : future'[r].state = "waiting" <=> (promise'.req = r /\ promise'.val = 0)
    <3>1. \A r \in Requests : /\ r # 0
                              /\ future[r].state = "waiting" <=> (promise.req = r /\ promise.val = 0)
      BY <1>0, <1>1 DEF PromiseInv
    <3>2. promise.req # requests
      BY <1>0, <2>2 DEF PromiseInv
    <3>3. CASE promise.req = 0
      BY <2>1, <2>3, <3>1, <3>3
    <3>4. CASE promise.req # 0
      BY <2>1, <2>3, <3>1, <3>2, <3>4
    <3> QED
      BY <3>3, <3>4
  <2>5. promise'.req <= requests /\ future'[requests].state # "none"
    BY <1>0, <1>1, <2>1, <2>3 DEF PromiseInv
  <2>6. /\ promise'.val # 0 => reader' \in {"replace", "closing"}
        /\ reader' = "replace" => promise'.val \in Requests
        /\ reader' = "closing" => promise'.val \in {0, Exception}
    BY <1>0, <2>1, <2>2 DEF PromiseInv
  <2>7. \A r \in Requests : r > requests' => future'[r].state = "none"
    BY <1>0, <1>1, <2>1, <2>2 DEF PromiseInv
  <2> QED
    BY <2>2, <2>4, <2>5, <2>6, <2>7 DEF PromiseInv
<1>5. CASE request
  <2>1. /\ UNCHANGED <<promise, future, reader>> /\ requests' = requests + 1
        /\ Requesting' /\ ~Requesting
    BY <1>5 DEF request, Requesting
  <2>2. requests' \in Requests
    BY <1>0, <1>5, FutureTypes DEF request, TypeOK, Requests
  <2>3. requests' > requests /\ requests' > 0
    BY <1>1, <2>1
  <2>4. future[requests'].state = "none" /\ promise.req # requests' /\ promise.req <= requests'
    BY <1>0, <1>1, <2>1, <2>2, <2>3 DEF PromiseInv
  <2>5. \A r \in Requests : r > requests' => future[r].state = "none"
    BY <1>0, <1>1, <2>1 DEF PromiseInv
  <2> QED
    BY <1>0, <2>1, <2>3, <2>4, <2>5 DEF PromiseInv
<1>6. ASSUME NEW r \in Requests, reset(r) PROVE PromiseInv'
  <2>1. /\ UNCHANGED <<promise, requests, reader>> /\ Requesting' = Requesting
        /\ future[r].state = "closed" /\ future' = [future EXCEPT ![r] = Plain("reported")]
    BY <1>6 DEF reset, Requesting, counters
  <2>2. \A q \in Requests : future'[q] = IF q = r THEN Plain("reported") ELSE future[q]
    BY <1>0, <2>1 DEF TypeOK
  <2>3. Plain("reported").state = "reported"
    BY DEF Plain
  <2>4. requests > 0 => requests \in Requests
    BY <1>0, FutureTypes DEF TypeOK, Requests
  <2>5. \A q \in Requests : /\ future'[q].state = "waiting" <=> future[q].state = "waiting"
                            /\ future'[q].state = "none" <=> future[q].state = "none"
    BY <2>1, <2>2, <2>3
  <2> QED
    BY <1>0, <1>1, <2>1, <2>4, <2>5 DEF PromiseInv
<1>7. CASE Connect \/ ReplacePromise \/ CloseRenew
  BY <1>0, <1>7, RenewInd DEF Connect, ReplacePromise, CloseRenew, ReaderOnly, counters
<1>8. CASE SetConnected \/ ClearRequested \/ ReadStatus \/ CloseDisconnect \/ CloseExit
  <2>1. Requesting' = Requesting /\ reader \notin {"replace", "closing"} /\ reader' # "replace"
    BY <1>8 DEF SetConnected, ClearRequested, ReadStatus, CloseDisconnect, CloseExit,
       ReaderOnly, Requesting
  <2> QED
    BY <1>2, <1>8, <2>1 DEF SetConnected, ClearRequested, ReadStatus, CloseDisconnect, CloseExit,
       ReaderOnly, counters
<1>9. CASE ReadFinal
  <2>1. Head(s2c).req \in Requests
    BY <1>0, <1>9, ReplyRead DEF ReadFinal, ServerInv
  <2>2. /\ Head(s2c).req \in Exception..MaxRequests
        /\ Head(s2c).req # 0 /\ Head(s2c).req # Exception
    <3>1. Head(s2c).req \in 1..MaxRequests /\ MaxRequests \in Nat
      BY <2>1, FutureTypes DEF Requests
    <3> QED
      BY <3>1 DEF Exception
  <2> QED
    BY <1>0, <1>9, <2>2, SatisfyInd DEF ReadFinal, ReaderOnly, counters
<1>10. CASE ReadClosed
  <2>1. Exception \in Exception..MaxRequests /\ Exception # 0
    BY FutureTypes DEF Exception
  <2>2. CASE Satisfy(Exception)
    BY <1>0, <1>10, <2>1, <2>2, SatisfyInd DEF ReadClosed, ReaderOnly, counters
  <2>3. CASE UNCHANGED <<promise, future>>
    BY <1>2, <1>10, <2>3 DEF ReadClosed, ReaderOnly, counters, Requesting
  <2> QED
    BY <1>10, <2>2, <2>3 DEF ReadClosed
<1>11. CASE ServerSide \/ UNCHANGED vars
  BY <1>2, <1>11, Sides DEF vars, clientVars, counters, Requesting
<1>12. CASE ClientSide
  BY <1>3, <1>4, <1>5, <1>6, <1>7, <1>8, <1>9, <1>10, <1>11, <1>12
  DEF ClientSide, User, Calls, Reader
<1> QED
  BY <1>7, <1>11, <1>12, Sides
---------------------------------------------------------------------------
(* Requests that do not overlap.                                           *)

\* A request on its way stays the only one, and leaves when it is handled.
LEMMA PullsShrink ==
  ASSUME TypeOK, FlightInv, [Next]_vars, ~request
  PROVE  /\ Pulls = {} => Pulls' = {}
         /\ \A k \in Pulls' : c2s'[k].req = requests
         /\ \A j, k \in Pulls' : j = k
         /\ HandlePull => Pulls' = {} /\ Pulls # {} /\ Head(c2s).req = requests
<1>1. CASE \A k \in Pulls' : k \in Pulls /\ c2s'[k] = c2s[k]
  <2>1. HandlePull => Pulls' = {} /\ Pulls # {} /\ Head(c2s).req = requests
    <3> SUFFICES ASSUME HandlePull PROVE Pulls' = {} /\ Pulls # {} /\ Head(c2s).req = requests
      OBVIOUS
    <3>1. /\ 1 \in Pulls /\ c2s[1] = Head(c2s)
          /\ \A k \in Pulls' : k \in Nat /\ k + 1 \in Pulls /\ k + 1 # 1
      BY MessageTaken DEF HandlePull
    <3> QED
      BY <3>1 DEF FlightInv
  <2> QED
    BY <1>1, <2>1 DEF FlightInv
<1>2. CASE HandlePull \/ HandleCancel \/ HandleInvalid
  <2>1. /\ Head(c2s).setting = "PULL_NEW_REQ" => 1 \in Pulls /\ c2s[1] = Head(c2s)
        /\ \A k \in Pulls' : k \in Nat /\ k + 1 \in Pulls /\ k + 1 # 1 /\ c2s'[k] = c2s[k + 1]
    BY <1>2, MessageTaken DEF HandlePull, HandleCancel, HandleInvalid
  <2>2. \A j, k \in Pulls' : j = k
    BY <2>1 DEF FlightInv
  <2>3. HandlePull => Pulls' = {} /\ Pulls # {} /\ Head(c2s).req = requests
    BY <2>1 DEF FlightInv, HandlePull
  <2> QED
    BY <2>1, <2>2, <2>3 DEF FlightInv
<1> QED
  BY <1>1, <1>2, PullsStep

\* So does the final reply, which leaves when it is read.
LEMMA FinalsShrink ==
  ASSUME TypeOK, ServerInv, FlightInv, [Next]_vars, ~WriteFinal
  PROVE  /\ Finals = {} => Finals' = {}
         /\ \A k \in Finals' : s2c'[k].req = requests
         /\ \A j, k \in Finals' : j = k
         /\ ReadFinal => Finals' = {} /\ Finals # {} /\ Head(s2c).req = requests
<1>1. /\ Finals = {} => Finals' = {}
      /\ \A k \in Finals' : s2c'[k].req = requests
      /\ \A j, k \in Finals' : j = k
  <2>1. CASE \A k \in Finals' : k \in Finals /\ s2c'[k] = s2c[k]
    BY <2>1 DEF FlightInv
  <2>2. CASE \A k \in Finals' : k \in Nat /\ k + 1 \in Finals /\ k + 1 # 1 /\ s2c'[k] = s2c[k + 1]
    <3>1. \A j, k \in Finals' : j = k
      BY <2>2 DEF FlightInv
    <3> QED
      BY <2>2, <3>1 DEF FlightInv
  <2> QED
    BY <2>1, <2>2, FinalsStep
<1>2. ReadFinal => Finals' = {} /\ Finals # {} /\ Head(s2c).req = requests
  <2> SUFFICES ASSUME ReadFinal PROVE Finals' = {} /\ Finals # {} /\ Head(s2c).req = requests
    OBVIOUS
  <2>1. /\ 1 \in Finals /\ s2c[1] = Head(s2c)
        /\ \A k \in Finals' : k \in Nat /\ k + 1 \in Finals /\ k + 1 # 1
    BY ReplyRead DEF ReadFinal
  <2> QED
    BY <2>1 DEF FlightInv
<1> QED
  BY <1>1, <1>2

\* Only a request that is handled gives the callback work.
LEMMA WorkStep ==
  ASSUME TypeOK, [Next]_vars, ~HandlePull
  PROVE  Working' => Working /\ callback'.req = callback.req
<1>1. CASE ClientSide
  BY <1>1, Sides DEF Working
<1>2. CASE Connect \/ Crash
  BY <1>2 DEF Connect, Crash, Working, NoCallback
<1>3. CASE HandleCancel \/ setPrompted \/ HandleInvalid \/ \E outcome \in Outcomes : SetOutcome(outcome)
  BY <1>3 DEF HandleCancel, setPrompted, HandleInvalid, SetOutcome, Working, serverVars
<1>4. CASE Return
  <2>1. CASE endStatus
    BY <2>1 DEF endStatus, TypeOK, Working
  <2>2. CASE WriteFinal
    <3>1. callback'.pc = "test"
      BY <2>2 DEF WriteFinal, TypeOK
    <3> QED
      BY <3>1 DEF Working
  <2>3. CASE TestSuspend \/ setSuspend
    <3>1. callback'.pc \in {"idle", "suspend"}
      BY <2>3 DEF TestSuspend, setSuspend, TypeOK, NoCallback
    <3> QED
      BY <3>1 DEF Working
  <2> QED
    BY <1>4, <2>1, <2>2, <2>3 DEF Return
<1> QED
  BY <1>1, <1>2, <1>3, <1>4, Sides DEF ServerSide, Event

\* What is not in flight does not appear but by a request.
LEMMA Stillness ==
  ASSUME TypeOK, ServerInv, FlightInv, [Next]_vars, ~request, NothingInFlight
  PROVE  NothingInFlight'
<1>1. Pulls' = {} /\ ~HandlePull
  BY PullsShrink DEF NothingInFlight
<1>2. ~WriteFinal
  BY DEF NothingInFlight, WriteFinal, Working
<1>3. Finals' = {}
  BY <1>2, FinalsShrink DEF NothingInFlight
<1>4. ~Working'
  BY <1>1, WorkStep DEF NothingInFlight
<1> QED
  BY <1>1, <1>3, <1>4 DEF NothingInFlight

\* Nor is anything in flight on a stream whose end the reader has seen.
LEMMA EndedQuiet ==
  ASSUME ServerInv, reader \in Closed \cup {"await"}
  PROVE  NothingInFlight
<1>1. c2s = <<>> /\ s2c = <<>> /\ callback = NoCallback
  BY DEF ServerInv
<1> QED
  BY <1>1 DEF NothingInFlight, Pulls, Finals, Working, NoCallback

\* A request made without an unresolved future finds nothing in flight.
LEMMA FreshRequest ==
  ASSUME IndInv, request, ~overlapped'
  PROVE  /\ ~overlapped
         /\ NothingInFlight
         /\ promise.val # 0 \/ promise.req = 0
         /\ ~(reader = "replace" /\ promise.req = 0)
<1>0. TypeOK /\ PromiseInv /\ MatchInv
  BY DEF IndInv
<1>1. ~overlapped /\ \A r \in Requests : future[r].state \notin Unresolved
  BY DEF request
<1>2. ~Requesting
  BY DEF request, Requesting
<1>3. requests = 0 \/ requests \in Requests
  BY <1>0, FutureTypes DEF TypeOK, Requests
<1>4. NothingInFlight /\ ~(reader = "replace" /\ promise.req = 0)
  BY <1>0, <1>1, <1>2, <1>3 DEF MatchInv, OwnInv
<1>5. promise.req = 0 \/ promise.req \in Requests
  BY <1>0, FutureTypes DEF TypeOK, Promises, Requests
<1>6. promise.val # 0 \/ promise.req = 0
  BY <1>0, <1>1, <1>5 DEF PromiseInv, Unresolved
<1> QED
  BY <1>1, <1>4, <1>6

\* Only the last request is in flight.
LEMMA FlightInd ==
  ASSUME IndInv, [Next]_vars, ~overlapped, ~overlapped'
  PROVE  FlightInv'
<1>0. TypeOK /\ ServerInv /\ FlightInv
  BY DEF IndInv, MatchInv
<1>1. CASE request
  <2>1. NothingInFlight
    BY <1>1, FreshRequest
  <2>2. PICK m : m = [setting |-> "PULL_NEW_REQ", req |-> requests + 1]
    OBVIOUS
  <2>3. m \in ClientMessages /\ m.req = requests'
    BY <1>0, <1>1, <2>2, FutureTypes DEF request, TypeOK, ClientMessages
  <2>4. c2s' = Append(c2s, m) \/ c2s' = c2s
    BY <1>1, <2>2 DEF request, WriteOk
  <2>5. \A k \in Pulls' : k = Len(c2s) + 1 /\ c2s'[k] = m
    <3>1. CASE c2s' = c2s
      BY <2>1, <3>1 DEF Pulls, NothingInFlight
    <3>2. CASE c2s' = Append(c2s, m)
      BY <1>0, <2>1, <2>3, <3>2, MessageWritten DEF NothingInFlight
    <3> QED
      BY <2>4, <3>1, <3>2
  <2>6. Finals' = {} /\ ~Working'
    BY <1>1, <2>1 DEF request, serverVars, Finals, Working, NothingInFlight
  <2> QED
    BY <2>3, <2>5, <2>6 DEF FlightInv
<1>2. CASE ~request
  <2>1. requests' = requests
    BY <1>2, Sides DEF ClientSide, User, MarkRequested, GetFuture, Joined, ResetJoin, Calls,
       cancel, WriteFails, reset, vars, Reader, SetConnected, ClearRequested, ReadStatus,
       ReadFinal, ReplacePromise, ReadClosed, CloseRenew, CloseDisconnect, CloseExit, ReaderOnly,
       Connect, counters
  <2>2. /\ Pulls = {} => Pulls' = {}
        /\ \A k \in Pulls' : c2s'[k].req = requests
        /\ \A j, k \in Pulls' : j = k
        /\ HandlePull => Pulls' = {} /\ Pulls # {} /\ Head(c2s).req = requests
    BY <1>0, <1>2, PullsShrink
  <2>3. CASE WriteFinal
    <3>1. Working /\ ~Working'
      BY <1>0, <2>3 DEF WriteFinal, Working, TypeOK
    <3>2. Pulls = {} /\ Finals = {} /\ callback.req = requests
      BY <1>0, <3>1 DEF FlightInv
    <3>3. \A k \in Finals' : k = Len(s2c) + 1 /\ s2c'[k].req = callback.req
      <4>1. callback.req \in 0..MaxRequests /\ callback.final \in Statuses
        BY <1>0 DEF TypeOK, Statuses
      <4> QED
        BY <1>0, <2>3, <3>2, <4>1, ReplyWritten DEF WriteFinal
    <3> QED
      BY <2>1, <2>2, <3>1, <3>2, <3>3 DEF FlightInv
  <2>4. CASE ~WriteFinal
    <3>1. /\ Finals = {} => Finals' = {}
          /\ \A k \in Finals' : s2c'[k].req = requests
          /\ \A j, k \in Finals' : j = k
      BY <1>0, <2>4, FinalsShrink
    <3>2. Pulls' = {} \/ Finals' = {}
      BY <1>0, <2>2, <3>1 DEF FlightInv
    <3>3. Working' => callback'.req = requests /\ Pulls' = {} /\ Finals' = {}
      <4>1. CASE HandlePull
        BY <1>0, <2>2, <3>1, <4>1 DEF FlightInv, HandlePull
      <4>2. CASE ~HandlePull
        BY <1>0, <2>2, <3>1, <4>2, WorkStep DEF FlightInv
      <4> QED
        BY <4>1, <4>2
    <3> QED
      BY <2>1, <2>2, <3>1, <3>2, <3>3 DEF FlightInv
  <2> QED
    BY <2>3, <2>4
<1> QED
  BY <1>1, <1>2

\* The promise, and a value in it without future, belong to the last request,
\* and no future has the reply to another request.
LEMMA OwnInd ==
  ASSUME IndInv, [Next]_vars, ~overlapped, ~overlapped'
  PROVE  OwnInv' /\ RepliesMatch'
<1>0. /\ TypeOK /\ ServerInv /\ PromiseInv /\ FlightInv /\ OwnInv /\ RepliesMatch
      /\ ServerInv' /\ PromiseInv'
  BY ServerInd, PromiseInd DEF IndInv, MatchInv
<1>1. /\ requests \in Nat /\ promise.req \in Nat /\ Requests \subseteq Nat \ {0}
      /\ requests = 0 \/ requests \in Requests
      /\ promise.req = 0 \/ promise.req \in Requests
      /\ promise.val \in Exception..MaxRequests
      /\ \A r \in Requests : future[r].state = "value" => future[r].of = r
  BY <1>0, FutureTypes DEF TypeOK, Promises, Requests, RepliesMatch
<1>2. (~request /\ NothingInFlight) => NothingInFlight'
  BY <1>0, Stillness
<1>3. reader' \in Closed \cup {"await"} => NothingInFlight'
  <2>1. reader \in Closed \cup {"await"} /\ ServerInv => NothingInFlight
    BY EndedQuiet
  <2> QED
    BY <1>0 DEF ServerInv, NothingInFlight, Pulls, Finals, Working, NoCallback
<1>4. CASE /\ UNCHANGED <<promise, future, requests>> /\ Requesting' = Requesting /\ ~request
           /\ reader' = reader \/ reader' # "replace"
  <2>1. OwnInv'
    BY <1>0, <1>2, <1>4 DEF OwnInv
  <2>2. RepliesMatch'
    BY <1>1, <1>4 DEF RepliesMatch
  <2> QED
    BY <2>1, <2>2
<1>5. CASE request
  <2>1. /\ UNCHANGED <<promise, future, reader>> /\ Requesting'
        /\ promise.val # 0 \/ promise.req = 0
        /\ ~(reader = "replace" /\ promise.req = 0)
    BY <1>5, FreshRequest DEF request, Requesting
  <2>2. OwnInv'
    BY <2>1 DEF OwnInv
  <2>3. RepliesMatch'
    BY <1>1, <2>1 DEF RepliesMatch
  <2> QED
    BY <2>2, <2>3
<1>6. CASE GetFuture
  <2>1. /\ promise'.val = promise.val /\ requests \in Requests
        /\ \A r \in Requests \ {requests} : future'[r] = future[r]
        /\ promise.req # 0 => promise' = promise /\ future'[requests] = Plain("threw")
        /\ promise.req = 0 => /\ promise'.req = requests
                              /\ future'[requests] = IF promise.val = 0 THEN Plain("waiting")
                                                     ELSE Ready(promise.val)
    BY <1>0, <1>6, GetFutureType
  <2>2. UNCHANGED <<reader, requests>> /\ ~request /\ Requesting
    BY <1>6 DEF GetFuture, counters, request, Requesting
  <2>3. Plain("threw").state = "threw" /\ Plain("waiting").state = "waiting"
    BY DEF Plain
  <2>4. CASE promise.req # 0
    <3>1. future'[requests].state = "threw" /\ promise' = promise
      BY <2>1, <2>3, <2>4
    <3>2. OwnInv'
      BY <1>0, <1>1, <2>1, <2>2, <2>4, <3>1 DEF OwnInv, Unresolved
    <3>3. RepliesMatch'
      BY <1>1, <2>1, <3>1 DEF RepliesMatch
    <3> QED
      BY <3>2, <3>3
  <2>5. CASE promise.req = 0 /\ promise.val = 0
    <3>1. future'[requests].state = "waiting" /\ promise'.req = requests
      BY <2>1, <2>3, <2>5
    <3>2. OwnInv'
      BY <1>1, <2>1, <2>2, <3>1 DEF OwnInv, Unresolved
    <3>3. RepliesMatch'
      BY <1>1, <2>1, <3>1 DEF RepliesMatch
    <3> QED
      BY <3>2, <3>3
  <2>6. CASE promise.req = 0 /\ promise.val # 0
    <3>1. future'[requests] = Ready(promise.val) /\ promise'.req = requests
      BY <2>1, <2>6
    <3>2. NothingInFlight
      BY <1>0, <2>6, EndedQuiet DEF PromiseInv, OwnInv, Closed
    <3>3. promise.val \in {requests, Exception}
      BY <1>0, <2>6 DEF PromiseInv, OwnInv
    <3>4. Ready(promise.val).state = "value" => Ready(promise.val).of = requests
      BY <1>1, <3>3, FutureTypes
    <3>5. OwnInv'
      BY <1>1, <1>2, <2>1, <2>2, <2>6, <3>1, <3>2 DEF OwnInv
    <3>6. RepliesMatch'
      BY <1>1, <2>1, <3>1, <3>4 DEF RepliesMatch
    <3> QED
      BY <3>5, <3>6
  <2> QED
    BY <2>4, <2>5, <2>6
<1>7. ASSUME NEW r \in Requests, reset(r) PROVE OwnInv' /\ RepliesMatch'
  <2>1. /\ UNCHANGED <<promise, requests, reader>> /\ Requesting' = Requesting /\ ~request
        /\ future[r].state = "closed" /\ future' = [future EXCEPT ![r] = Plain("reported")]
    BY <1>7 DEF reset, Requesting, counters, request
  <2>2. \A q \in Requests : future'[q] = IF q = r THEN Plain("reported") ELSE future[q]
    BY <1>0, <2>1 DEF TypeOK
  <2>3. Plain("reported").state = "reported"
    BY DEF Plain
  <2>4. \A q \in Requests : /\ future'[q].state \notin Unresolved => future[q].state \notin Unresolved
                            /\ future'[q].state = "value" => future'[q] = future[q]
    BY <2>1, <2>2, <2>3 DEF Unresolved
  <2>5. OwnInv'
    BY <1>0, <1>1, <1>2, <2>1, <2>4 DEF OwnInv
  <2>6. RepliesMatch'
    BY <1>1, <2>4 DEF RepliesMatch
  <2> QED
    BY <2>5, <2>6
<1>8. CASE Connect
  <2>1. /\ promise'.val = 0 /\ promise'.req = 0
        /\ \A r \in Requests : future'[r] = IF r = promise.req /\ promise.val = 0
                                              THEN Plain("broken") ELSE future[r]
    BY <1>0, <1>8, RenewType DEF Connect
  <2>2. NothingInFlight' /\ reader' # "replace"
    BY <1>8 DEF Connect, NothingInFlight, Pulls, Finals, Working, NoCallback
  <2>3. OwnInv'
    BY <2>1, <2>2 DEF OwnInv
  <2>4. RepliesMatch'
    BY <1>1, <2>1 DEF RepliesMatch, Plain
  <2> QED
    BY <2>3, <2>4
<1>9. CASE ReadFinal
  <2>1. Finals' = {} /\ Finals # {} /\ Head(s2c).req = requests
    <3>1. ~WriteFinal
      BY <1>9 DEF ReadFinal, WriteFinal, ReaderOnly, serverVars, write_reply
    <3> QED
      BY <1>0, <1>9, <3>1, FinalsShrink
  <2>2. Head(s2c).req \in Requests
    BY <1>0, <1>9, ReplyRead DEF ReadFinal, ServerInv
  <2>3. requests \in Exception..MaxRequests /\ requests # 0
    BY <2>1, <2>2, FutureTypes
  <2>4. /\ promise'.val = requests /\ promise'.req = promise.req
        /\ \A r \in Requests : future'[r] = IF r = promise.req THEN Ready(requests) ELSE future[r]
    BY <1>0, <1>9, <2>1, <2>3, SatisfyType DEF ReadFinal
  <2>5. UNCHANGED <<requests, user, c2s, callback>> /\ promise.val = 0
    BY <1>0, <1>9 DEF ReadFinal, ReaderOnly, counters, serverVars, PromiseInv
  <2>6. Pulls' = {} /\ ~Working'
    <3>1. Pulls = {} /\ ~Working
      BY <1>0, <2>1 DEF FlightInv
    <3> QED
      BY <2>5, <3>1 DEF Pulls, Working
  <2>7. NothingInFlight' /\ ~NothingInFlight
    BY <2>1, <2>6 DEF NothingInFlight
  <2>8. promise.req = 0 => (Requesting \/ (requests # 0 /\ future'[requests].state \in Unresolved))
    BY <1>0, <1>1, <2>2, <2>1, <2>4, <2>7 DEF OwnInv
  <2>9. OwnInv'
    BY <2>3, <2>4, <2>5, <2>7, <2>8 DEF OwnInv, Requesting
  <2>10. RepliesMatch'
    <3>1. promise.req # 0 => promise.req = requests
      BY <1>0, <2>5 DEF OwnInv
    <3>2. Ready(requests).state = "value" => Ready(requests).of = requests
      BY <2>3, FutureTypes
    <3> QED
      BY <1>1, <2>4, <3>1, <3>2 DEF RepliesMatch
  <2> QED
    BY <2>9, <2>10
<1>10. CASE ReplacePromise
  <2>1. /\ promise'.val = 0 /\ promise'.req = 0
        /\ \A r \in Requests : future'[r] = IF r = promise.req /\ promise.val = 0
                                              THEN Plain("broken") ELSE future[r]
    BY <1>0, <1>10, RenewType DEF ReplacePromise
  <2>2. promise.val # 0
    BY <1>0, <1>1, <1>10 DEF ReplacePromise, PromiseInv
  <2>3. /\ UNCHANGED <<requests, user>> /\ reader' = "clear" /\ ~request
    BY <1>10 DEF ReplacePromise, ReaderOnly, counters, request
  <2>4. OwnInv'
    BY <1>0, <1>1, <1>2, <2>1, <2>2, <2>3 DEF OwnInv, Requesting
  <2>5. RepliesMatch'
    BY <1>1, <2>1, <2>2 DEF RepliesMatch
  <2> QED
    BY <2>4, <2>5
<1>11. CASE ReadClosed /\ ~UNCHANGED <<promise, future>>
  <2>1. Exception \in Exception..MaxRequests /\ Exception # 0 /\ Ready(Exception).state = "closed"
    BY FutureTypes DEF Exception, Ready, Plain
  <2>2. /\ promise'.val = Exception
        /\ \A r \in Requests : future'[r] = IF r = promise.req THEN Ready(Exception) ELSE future[r]
    BY <1>0, <1>11, <2>1, SatisfyType DEF ReadClosed
  <2>3. NothingInFlight' /\ reader' = "closing"
    BY <1>3, <1>11 DEF ReadClosed, Closed
  <2>4. OwnInv'
    BY <2>1, <2>2, <2>3 DEF OwnInv
  <2>5. RepliesMatch'
    BY <1>1, <2>1, <2>2 DEF RepliesMatch
  <2> QED
    BY <2>4, <2>5
<1>12. CASE CloseRenew
  <2>1. /\ promise'.val = 0 /\ promise'.req = 0
        /\ \A r \in Requests : future'[r] = IF r = promise.req /\ promise.val = 0
                                              THEN Plain("broken") ELSE future[r]
    BY <1>0, <1>12, RenewType DEF CloseRenew
  <2>2. NothingInFlight' /\ reader' = "off"
    BY <1>3, <1>12 DEF CloseRenew, Closed
  <2>3. OwnInv'
    BY <2>1, <2>2 DEF OwnInv
  <2>4. RepliesMatch'
    BY <1>1, <2>1 DEF RepliesMatch, Plain
  <2> QED
    BY <2>3, <2>4
<1>13. CASE MarkRequested \/ Joined \/ ResetJoin \/ cancel \/ WriteFails
  <2>1. Requesting' = Requesting
    BY <1>13 DEF Requesting, MarkRequested, Joined, ResetJoin, cancel, WriteFails, clientVars
  <2>2. reader' = reader \/ reader' # "replace"
    BY <1>13 DEF MarkRequested, Joined, ResetJoin, cancel, WriteFails, clientVars
  <2>3. UNCHANGED <<promise, future, requests>>
    BY <1>13 DEF MarkRequested, Joined, ResetJoin, cancel, WriteFails, clientVars, counters
  <2> QED
    BY <1>4, <1>5, <2>1, <2>2, <2>3
<1>14. CASE \/ SetConnected \/ ClearRequested \/ ReadStatus \/ CloseDisconnect \/ CloseExit
            \/ ReadClosed /\ UNCHANGED <<promise, future>>
  <2>1. Requesting' = Requesting /\ reader' # "replace" /\ UNCHANGED <<promise, future, requests>>
    BY <1>14 DEF SetConnected, ClearRequested, ReadStatus, CloseDisconnect, CloseExit, ReadClosed,
       ReaderOnly, Requesting, counters
  <2> QED
    BY <1>4, <1>5, <2>1
<1>15. CASE ServerSide \/ UNCHANGED vars
  BY <1>4, <1>5, <1>15, Sides DEF vars, clientVars, counters, Requesting
<1>16. CASE ClientSide
  BY <1>5, <1>6, <1>7, <1>9, <1>10, <1>11, <1>12, <1>13, <1>14, <1>15, <1>16
  DEF ClientSide, User, Calls, Reader
<1> QED
  BY <1>8, <1>15, <1>16, Sides

\* overlapped is never reset.
LEMMA OverlapKept ==
  ASSUME TypeOK, [Next]_vars, ~overlapped'
  PROVE  ~overlapped
<1>1. CASE request
  BY <1>1 DEF request
<1>2. CASE ~request
  BY <1>2, Sides DEF ClientSide, User, MarkRequested, GetFuture, Joined, ResetJoin, Calls,
     cancel, WriteFails, reset, vars, Reader, SetConnected, ClearRequested, ReadStatus,
     ReadFinal, ReplacePromise, ReadClosed, CloseRenew, CloseDisconnect, CloseExit, ReaderOnly,
     Connect, counters
<1> QED
  BY <1>1, <1>2

\* Every step keeps the invariant.
LEMMA NextInd ==
  ASSUME IndInv, [Next]_vars
  PROVE  IndInv'
<1>1. TypeOK' /\ ServerInv' /\ PromiseInv'
  BY TypeInd, ServerInd, PromiseInd
<1>2. CASE overlapped'
  BY <1>1, <1>2 DEF IndInv, MatchInv, RepliesMatch
<1>3. CASE ~overlapped'
  <2>1. ~overlapped
    BY <1>3, OverlapKept DEF IndInv
  <2>2. FlightInv' /\ OwnInv' /\ RepliesMatch'
    BY <1>3, <2>1, FlightInd, OwnInd
  <2> QED
    BY <1>1, <2>2 DEF IndInv, MatchInv
<1> QED
  BY <1>2, <1>3
---------------------------------------------------------------------------
(* The theorems.                                                           *)

\* The invariant of the proofs holds of every behaviour.
LEMMA SpecInd == Spec => []IndInv
<1>1. Init => IndInv
  BY InitInd
<1>2. IndInv /\ [Next]_vars => IndInv'
  BY NextInd
<1> QED
  BY <1>1, <1>2, PTL DEF Spec

(***************************************************************************)
(* ServiceServer takes a request of a stream only when it has replied to   *)
(* every earlier one: whatever cancels race with the end of a callback, no *)
(* two callbacks of a stream run at once.                                  *)
(***************************************************************************)
THEOREM OneCallAtOnce == Spec => []OneCallAtATime
<1>1. IndInv => OneCallAtATime
  <2> SUFFICES ASSUME IndInv, open
               PROVE  /\ calls_status = "SUSPEND" => accepted = answered
                      /\ Cardinality(accepted \ answered) <= 1
    BY DEF IndInv, OneCallAtATime
  <2>1. \E r : accepted \ answered \subseteq {r}
    BY DEF IndInv, ServerInv
  <2>2. PICK r : accepted \ answered = {} \/ accepted \ answered = {r}
    BY <2>1
  <2>3. Cardinality(accepted \ answered) <= 1
    <3>1. Cardinality({}) = 0 /\ Cardinality({r}) = 1
      BY FS_EmptySet, FS_Singleton
    <3> QED
      BY <2>2, <3>1
  <2>4. calls_status = "SUSPEND" => accepted = answered
    BY DEF IndInv, ServerInv, Working
  <2> QED
    BY <2>3, <2>4
<1> QED
  BY <1>1, SpecInd, PTL

(***************************************************************************)
(* A user of ServiceClient that takes each reply before its next request   *)
(* gets the reply to its own request: reply_promise is replaced after each *)
(* reply, whichever of set_value and get_future comes first.               *)
(***************************************************************************)
THEOREM RepliesBelong == Spec => []RepliesMatch
<1>1. IndInv => RepliesMatch
  BY DEF IndInv
<1> QED
  BY <1>1, SpecInd, PTL
=============================================================================
