-------------------------- MODULE RegistrarProofs --------------------------
(***************************************************************************)
(* Proofs about the registrar, for any number of nodes, any names and any  *)
(* growth of the log.  The invariants the theorems state are not inductive *)
(* by themselves; IndInv is.  Its three layers are                         *)
(*   Control - which locals a handler at a control point has assigned, and *)
(*             how they relate to version;                                 *)
(*   Log     - what a slot of the log says about the call it names, and    *)
(*             that a version is in the log or held by one handler;        *)
(*   Streams - what a stream has been sent, and why an entry at or below   *)
(*             kept_version may be missing from it.                        *)
(***************************************************************************)
EXTENDS Registrar, TLAPS

\* Control points at which the handler has not taken a version.
Early == {"idle", "check", "claim"} \cup Waiting

Control(c) ==
  /\ regist_version[c] \in -1..(version - 1)
  /\ deleted_version[c] \in -1..(version - 1)
  /\ pc[c] \in Early => regist_version[c] = -1
  /\ pc[c] \in Registered \cup {"store"} => regist_version[c] >= 0
  /\ pc[c] \notin {"unstore", "done"} => deleted_version[c] = -1
  /\ pc[c] = "unstore" => deleted_version[c] > regist_version[c]
  /\ pc[c] \in Streaming => /\ regist_version[c] <= kept_version[c]
                            /\ kept_version[c] < version
  /\ pc[c] = "list" => /\ kept_version[c] < cversion[c]
                       /\ cversion[c] < version
ControlInv == \A c \in Calls : Control(c)

\* The slot v holds the registration of its call, live or deleted.
AddEntry(v) ==
  LET c == nodes[v].call
  IN  /\ regist_version[c] = v
      /\ \/ nodes[v].first = -1 /\ pc[c] \in Registered
         \/ /\ nodes[v].first = deleted_version[c] /\ pc[c] = "done"
            /\ v < deleted_version[c]
            /\ Stored(deleted_version[c])
            /\ nodes[deleted_version[c]].call = c
            /\ nodes[deleted_version[c]].code = "DELETE"

\* The slot v holds the deregistration of its call.
DeleteEntry(v) ==
  LET c == nodes[v].call
  IN  /\ deleted_version[c] = v /\ pc[c] = "done" /\ nodes[v].first = -1
      /\ regist_version[c] >= 0 /\ regist_version[c] < v

LogInv ==
  /\ \A v \in 0..(size - 1) :
       /\ nodes[v].call = NoCall => nodes[v].first = 0
       /\ nodes[v].call # NoCall =>
            /\ v < version
            /\ nodes[v].code = "ADD" => AddEntry(v)
            /\ nodes[v].code = "DELETE" => DeleteEntry(v)
  /\ \A c \in Calls : pc[c] \in Registered =>
       /\ regist_version[c] < size
       /\ nodes[regist_version[c]].call = c
       /\ nodes[regist_version[c]].code = "ADD"
       /\ nodes[regist_version[c]].first = -1

HoldInv ==
  /\ \A v \in 0..(version - 1) : Stored(v) \/ \E c \in Calls : Holds(c, v)
  /\ \A c \in Calls, v \in 0..(version - 1) :
       Holds(c, v) => /\ ~Stored(v)
                      /\ \A d \in Calls : Holds(d, v) => d = c

\* Why an entry v that the stream of c has passed was not written to it.
Suppressed(c, v) ==
  /\ Stored(v)
  /\ nodes[v].code = "ADD" => nodes[v].first > 0
  /\ nodes[v].code = "DELETE" => ~SentAt(c, regist_version[nodes[v].call])

StreamInv ==
  /\ \A c \in Calls : pc[c] \in Early \cup {"store", "snapshot"} => sent[c] = {}
  /\ CommandsFaithful
  /\ \A c \in Calls : pc[c] \in Streaming =>
       \A v \in 0..kept_version[c] :
         v # regist_version[c] => SentAt(c, v) \/ Suppressed(c, v)

IndInv == TypeOK /\ ControlInv /\ LogInv /\ HoldInv /\ StreamInv /\ AliveHasHolder
---------------------------------------------------------------------------
(* What list returns, and what the two steps that write the log do to it.  *)

\* A slot of the vector is still one when the vector has grown.
LEMMA RangeGrows ==
  ASSUME NEW a \in Nat, NEW b \in Nat, a <= b, NEW v \in 0..(a - 1)
  PROVE  v \in 0..(b - 1)
  OBVIOUS

\* A version below the size of the vector is one of its slots.
LEMMA RangeOf ==
  ASSUME NEW b \in Nat, NEW v \in Nat, v < b
  PROVE  v \in 0..(b - 1)
  OBVIOUS

\* Slot is nodes inside the vector and a blank entry outside it.
LEMMA SlotType == ASSUME TypeOK, NEW i \in Nat PROVE Slot(i) \in Entry
  BY DEF TypeOK, Slot, Blank, Entry, Codes

\* The commands list copies into a reply are well formed.
LEMMA ListType ==
  ASSUME TypeOK, NEW from \in Nat, NEW to \in Int
  PROVE  list(from, to) \in SUBSET Command
<1>1. SUFFICES ASSUME NEW i \in from..to
               PROVE  [v |-> i, call |-> Slot(i).call, code |-> Slot(i).code] \in Command
  BY DEF list
<1>2. Slot(i) \in Entry
  BY SlotType
<1> QED
  BY <1>2 DEF Command, Entry

\* A version is in a reply of list exactly when the window has it and list
\* does not skip it, and the command carries the slot's node and code.
LEMMA ListMember ==
  ASSUME NEW from \in Nat, NEW to \in Int
  PROVE  /\ \A i \in from..to : ~Skipped(from, i) => \E m \in list(from, to) : m.v = i
         /\ \A m \in list(from, to) :
              /\ m.v \in from..to /\ ~Skipped(from, m.v)
              /\ m.call = Slot(m.v).call /\ m.code = Slot(m.v).code
<1> DEFINE Copy(i) == [v |-> i, call |-> Slot(i).call, code |-> Slot(i).code]
<1>1. list(from, to) = {Copy(i) : i \in {k \in from..to : ~Skipped(from, k)}}
  BY DEF list
<1>2. \A i : Copy(i).v = i /\ Copy(i).call = Slot(i).call /\ Copy(i).code = Slot(i).code
  OBVIOUS
<1> HIDE DEF Copy
<1> QED
  BY <1>1, <1>2

\* registration writes its own slot; every other one is as Slot reads it.
LEMMA RegistrationWrites ==
  ASSUME TypeOK, ControlInv, NEW c \in Calls, registration(c)
  PROVE  LET v == regist_version[c]
         IN  /\ size' \in Nat /\ size <= size' /\ v \in 0..(size' - 1)
             /\ nodes' \in [0..(size' - 1) -> Entry]
             /\ nodes'[v].first = -1 /\ nodes'[v].call = c /\ nodes'[v].code = "ADD"
             /\ \A i \in 0..(size' - 1) : i # v => nodes'[i] = Slot(i)
<1> DEFINE v == regist_version[c]
<1>1. v \in Nat
  BY DEF TypeOK, ControlInv, Control, registration
<1>2. /\ size' \in Nat /\ size <= size' /\ v \in 0..(size' - 1)
      /\ size' = Size(v)
  BY <1>1, GrowthPositive DEF TypeOK, registration, Size
<1>3. nodes' = [i \in 0..(size' - 1) |->
                  IF i = v THEN [first |-> -1, call |-> c, code |-> "ADD"]
                  ELSE Slot(i)]
  BY <1>1, <1>2 DEF TypeOK, registration, Resized, Slot
<1>4. \A i \in 0..(size' - 1) : Slot(i) \in Entry
  BY <1>2, SlotType
<1> QED
  BY <1>2, <1>3, <1>4 DEF Entry, Codes

\* deregistration writes the slot of the deleting version and the first of
\* the registration it deletes; every other slot is as Slot reads it.
LEMMA DeregistrationWrites ==
  ASSUME TypeOK, ControlInv, LogInv, NEW c \in Calls, deregistration(c)
  PROVE  LET v == deleted_version[c]
             r == regist_version[c]
         IN  /\ size' \in Nat /\ size <= size' /\ v \in 0..(size' - 1)
             /\ r \in 0..(size - 1) /\ r < v
             /\ nodes' \in [0..(size' - 1) -> Entry]
             /\ nodes'[v].first = -1 /\ nodes'[v].call = c /\ nodes'[v].code = "DELETE"
             /\ nodes'[r].first = v /\ nodes'[r].call = c /\ nodes'[r].code = "ADD"
             /\ \A i \in 0..(size' - 1) : i # v /\ i # r => nodes'[i] = Slot(i)
<1> DEFINE v == deleted_version[c]
           r == regist_version[c]
<1>1. /\ r \in 0..(size - 1) /\ v \in Nat /\ r < v
      /\ nodes[r] = [first |-> -1, call |-> c, code |-> "ADD"]
  BY DEF TypeOK, Entry, ControlInv, Control, LogInv, deregistration, Registered
<1>2. /\ size' \in Nat /\ size <= size' /\ v \in 0..(size' - 1)
      /\ size' = Size(v)
  <2>1. size' = Size(v)
    BY DEF deregistration
  <2>2. v \in Nat /\ size \in Nat /\ Growth \in Nat /\ Growth > 0
    BY <1>1, GrowthPositive DEF TypeOK
  <2> HIDE DEF v
  <2> QED
    BY <2>1, <2>2 DEF Size
<1>3. nodes' = [i \in 0..(size' - 1) |->
                  IF i = r THEN [first |-> v, call |-> c, code |-> "ADD"]
                  ELSE IF i = v THEN [first |-> -1, call |-> c, code |-> "DELETE"]
                  ELSE Slot(i)]
  <2>1. nodes' = [Resized(v) EXCEPT
                    ![v] = [first |-> -1, code |-> "DELETE", call |-> nodes[r].call],
                    ![r].first = v]
    BY DEF deregistration
  <2>2. Resized(v) = [i \in 0..(size' - 1) |-> Slot(i)]
    BY <1>2 DEF Resized, Slot
  <2>3. Slot(r) = [first |-> -1, call |-> c, code |-> "ADD"]
    BY <1>1 DEF Slot, TypeOK
  <2>4. v # r /\ v \in 0..(size' - 1) /\ r \in 0..(size' - 1) /\ nodes[r].call = c
    BY <1>1, <1>2 DEF TypeOK
  <2>5. [Slot(r) EXCEPT !.first = v] = [first |-> v, call |-> c, code |-> "ADD"]
    BY <2>3
  <2> HIDE DEF v, r
  <2>6. nodes' = [i \in 0..(size' - 1) |->
                    IF i = r THEN [Slot(r) EXCEPT !.first = v]
                    ELSE IF i = v THEN [first |-> -1, code |-> "DELETE", call |-> c]
                    ELSE Slot(i)]
    BY <2>1, <2>2, <2>4
  <2> QED
    BY <2>5, <2>6
<1>4. \A i \in 0..(size' - 1) : Slot(i) \in Entry
  BY <1>2, SlotType
<1> QED
  BY <1>1, <1>2, <1>3, <1>4 DEF Entry, Codes
---------------------------------------------------------------------------
(* The control points and locals of the handlers.                          *)

\* The initial state, an empty log and no handler started, satisfies IndInv.
LEMMA InitInd == Init => IndInv
<1> SUFFICES ASSUME Init PROVE IndInv
  OBVIOUS
<1>1. TypeOK
  BY DEF Init, TypeOK, PCs, Registered, Streaming, Waiting
<1>2. ControlInv
  BY DEF Init, ControlInv, Control, Registered, Streaming
<1>3. LogInv /\ HoldInv
  BY DEF Init, LogInv, HoldInv, Holds, Registered, Streaming
<1>4. StreamInv /\ AliveHasHolder
  BY DEF Init, StreamInv, CommandsFaithful, AliveHasHolder, Streaming
<1> QED
  BY <1>1, <1>2, <1>3, <1>4 DEF IndInv

\* Every step keeps every variable in its type.
LEMMA TypeInd == IndInv /\ [Next]_vars => TypeOK'
<1> SUFFICES ASSUME IndInv, [Next]_vars PROVE TypeOK'
  OBVIOUS
<1> USE DEF registrarVars, localVars, Goto, PCs, Registered, Streaming, Waiting
<1>a. TypeOK /\ ControlInv /\ LogInv
  BY DEF IndInv
<1>1. ASSUME NEW c \in Calls, CallRegist(c) \/ Disconnect(c) \/ find_exist_node(c)
                              \/ NameFree(c) \/ NameTaken(c) \/ NameSleep(c)
      PROVE  TypeOK'
  BY <1>a, <1>1 DEF TypeOK, CallRegist, Disconnect, find_exist_node, NameFree,
                    NameTaken, NameSleep
<1>2. ASSUME NEW c \in Calls, ClaimVersion(c) \/ ClaimDeletion(c)
      PROVE  TypeOK'
  <2>1. CASE ClaimVersion(c)
    BY <1>a, <2>1 DEF TypeOK, ClaimVersion
  <2>2. CASE ClaimDeletion(c)
    BY <1>a, <2>2 DEF TypeOK, ClaimDeletion
  <2> QED
    BY <1>2, <2>1, <2>2
<1>3. ASSUME NEW c \in Calls, registration(c)
      PROVE  TypeOK'
  <2>1. size' \in Nat /\ nodes' \in [0..(size' - 1) -> Entry]
    BY <1>a, <1>3, RegistrationWrites
  <2>2. alive_nodes' \in SUBSET Names
    BY <1>a, <1>3, NameOfType DEF TypeOK, registration
  <2>3. pc' \in [Calls -> PCs]
    BY <1>a, <1>3 DEF TypeOK, registration
  <2>4. UNCHANGED <<version, mtx, cancelled, localVars, sent, up>>
    BY <1>3 DEF registration
  <2> QED
    BY <1>a, <2>1, <2>2, <2>3, <2>4 DEF TypeOK
<1>4. ASSUME NEW c \in Calls, deregistration(c)
      PROVE  TypeOK'
  <2>1. size' \in Nat /\ nodes' \in [0..(size' - 1) -> Entry]
    BY <1>a, <1>4, DeregistrationWrites
  <2>2. alive_nodes' \in SUBSET Names
    BY <1>a, <1>4 DEF TypeOK, deregistration
  <2>3. pc' \in [Calls -> PCs]
    BY <1>a, <1>4 DEF TypeOK, deregistration, GotoAndNotify
  <2>4. UNCHANGED <<version, mtx, cancelled, localVars, sent, up>>
    BY <1>4 DEF deregistration
  <2> QED
    BY <1>a, <2>1, <2>2, <2>3, <2>4 DEF TypeOK
<1>5. ASSUME NEW c \in Calls, WriteSnapshot(c)
      PROVE  TypeOK'
  <2>1. list(0, regist_version[c] - 1) \in SUBSET Command
    BY <1>a, ListType DEF TypeOK
  <2>2. pc' \in [Calls -> PCs]
    BY <1>a, <1>5 DEF TypeOK, WriteSnapshot, GotoAndNotify
  <2> QED
    BY <1>a, <1>5, <2>1, <2>2 DEF TypeOK, WriteSnapshot
<1>6. ASSUME NEW c \in Calls, LoopCancelled(c) \/ LoopWait(c) \/ WakeBehind(c)
                              \/ WakeCurrent(c) \/ WriteFails(c) \/ ReadPastEnd(c)
      PROVE  TypeOK'
  <2>1. CASE LoopCancelled(c)
    BY <1>a, <2>1 DEF TypeOK, LoopCancelled
  <2>2. CASE LoopWait(c)
    BY <1>a, <2>2 DEF TypeOK, LoopWait
  <2>3. CASE WakeBehind(c)
    BY <1>a, <2>3 DEF TypeOK, WakeBehind
  <2>4. CASE WakeCurrent(c)
    BY <1>a, <2>4 DEF TypeOK, WakeCurrent
  <2>5. CASE WriteFails(c)
    BY <1>a, <2>5 DEF TypeOK, WriteFails
  <2>6. CASE ReadPastEnd(c)
    BY <1>a, <2>6 DEF TypeOK, ReadPastEnd
  <2> QED
    BY <1>6, <2>1, <2>2, <2>3, <2>4, <2>5, <2>6
<1>7. ASSUME NEW c \in Calls, WriteDelta(c)
      PROVE  TypeOK'
  <2>1. kept_version[c] + 1 \in Nat /\ cversion[c] \in Int
    BY <1>a, <1>7 DEF TypeOK, ControlInv, Control, WriteDelta
  <2>2. list(kept_version[c] + 1, cversion[c]) \in SUBSET Command
    BY <1>a, <2>1, ListType
  <2> QED
    BY <1>a, <1>7, <2>2 DEF TypeOK, WriteDelta
<1>8. CASE Healthy_Check
  BY <1>a, <1>8 DEF TypeOK, Healthy_Check
<1>9. CASE UNCHANGED vars
  BY <1>a, <1>9 DEF TypeOK, vars
<1> QED
  BY <1>1, <1>2, <1>3, <1>4, <1>5, <1>6, <1>7, <1>8, <1>9
     DEF Next, Handler, Lockless, Locking

\* Every step keeps the locals of every handler consistent with version.
LEMMA ControlInd == IndInv /\ [Next]_vars => ControlInv'
<1> SUFFICES ASSUME IndInv, [Next]_vars, NEW d \in Calls PROVE Control(d)'
  BY DEF ControlInv
<1> USE DEF registrarVars, localVars, Goto, Registered, Streaming, Waiting, Early
<1>a. TypeOK /\ (\A e \in Calls : Control(e))
  BY DEF IndInv, ControlInv
<1>1. ASSUME NEW c \in Calls, CallRegist(c) \/ Disconnect(c) \/ find_exist_node(c)
                              \/ NameFree(c) \/ NameTaken(c) \/ NameSleep(c)
      PROVE  Control(d)'
  BY <1>a, <1>1 DEF TypeOK, Control, CallRegist, Disconnect, find_exist_node,
                    NameFree, NameTaken, NameSleep
<1>2. ASSUME NEW c \in Calls, ClaimVersion(c) \/ ClaimDeletion(c)
      PROVE  Control(d)'
  <2>1. CASE ClaimVersion(c)
    BY <1>a, <2>1 DEF TypeOK, Control, ClaimVersion
  <2>2. CASE ClaimDeletion(c)
    BY <1>a, <2>2 DEF TypeOK, Control, ClaimDeletion
  <2> QED
    BY <1>2, <2>1, <2>2
<1>3. ASSUME NEW c \in Calls, registration(c)
      PROVE  Control(d)'
  BY <1>a, <1>3 DEF TypeOK, Control, registration
<1>4. ASSUME NEW c \in Calls, deregistration(c)
      PROVE  Control(d)'
  BY <1>a, <1>4 DEF TypeOK, Control, deregistration, GotoAndNotify
<1>5. ASSUME NEW c \in Calls, WriteSnapshot(c)
      PROVE  Control(d)'
  <2>1. UNCHANGED <<version, regist_version, deleted_version, cversion>>
    BY <1>5 DEF WriteSnapshot
  <2>2. CASE d = c
    <3>1. pc[c] = "snapshot" /\ pc'[c] = "top" /\ kept_version'[c] = regist_version[c]
      BY <1>a, <1>5 DEF TypeOK, WriteSnapshot, GotoAndNotify
    <3>2. Control(c) /\ version \in Nat
      BY <1>a DEF TypeOK
    <3>3. Control(c)'
      BY <2>1, <3>1, <3>2 DEF Control
    <3> QED
      BY <2>2, <3>3
  <2>3. CASE d # c
    BY <1>a, <1>5, <2>1, <2>3 DEF TypeOK, Control, WriteSnapshot, GotoAndNotify
  <2> QED
    BY <2>2, <2>3
<1>6. ASSUME NEW c \in Calls, LoopCancelled(c) \/ LoopWait(c) \/ WakeBehind(c)
                              \/ WakeCurrent(c) \/ WriteFails(c) \/ ReadPastEnd(c)
      PROVE  Control(d)'
  <2>1. CASE LoopCancelled(c)
    BY <1>a, <2>1 DEF TypeOK, Control, LoopCancelled
  <2>2. CASE LoopWait(c)
    BY <1>a, <2>2 DEF TypeOK, Control, LoopWait
  <2>3. CASE WakeBehind(c)
    BY <1>a, <2>3 DEF TypeOK, Control, WakeBehind
  <2>4. CASE WakeCurrent(c)
    BY <1>a, <2>4 DEF TypeOK, Control, WakeCurrent
  <2>5. CASE WriteFails(c)
    BY <1>a, <2>5 DEF TypeOK, Control, WriteFails
  <2>6. CASE ReadPastEnd(c)
    BY <1>a, <2>6 DEF TypeOK, Control, ReadPastEnd
  <2> QED
    BY <1>6, <2>1, <2>2, <2>3, <2>4, <2>5, <2>6
<1>7. ASSUME NEW c \in Calls, WriteDelta(c)
      PROVE  Control(d)'
  BY <1>a, <1>7 DEF TypeOK, Control, WriteDelta
<1>8. CASE Healthy_Check
  BY <1>a, <1>8 DEF TypeOK, Control, Healthy_Check
<1>9. CASE UNCHANGED vars
  BY <1>a, <1>9 DEF TypeOK, Control, vars
<1> QED
  BY <1>1, <1>2, <1>3, <1>4, <1>5, <1>6, <1>7, <1>8, <1>9
     DEF Next, Handler, Lockless, Locking
---------------------------------------------------------------------------
(* The log.                                                                *)

\* A step that takes no version and writes no slot.
Quiet ==
  /\ UNCHANGED <<version, nodes, size, regist_version, deleted_version>>
  /\ \A d \in Calls : /\ pc'[d] \in Registered <=> pc[d] \in Registered
                      /\ pc'[d] = "store" <=> pc[d] = "store"
                      /\ pc'[d] = "unstore" <=> pc[d] = "unstore"
                      /\ pc[d] = "done" => pc'[d] = "done"

\* Only four actions of a handler are not quiet.
LEMMA QuietOrWrite ==
  ASSUME TypeOK, [Next]_vars
  PROVE  \/ Quiet
         \/ \E c \in Calls : \/ ClaimVersion(c) \/ registration(c)
                             \/ ClaimDeletion(c) \/ deregistration(c)
<1> USE DEF registrarVars, localVars, Goto, Registered, Streaming, Waiting
<1>1. ASSUME NEW c \in Calls, CallRegist(c) \/ Disconnect(c) \/ find_exist_node(c)
                              \/ NameFree(c) \/ NameTaken(c) \/ NameSleep(c)
      PROVE  Quiet
  BY <1>1 DEF TypeOK, Quiet, CallRegist, Disconnect, find_exist_node, NameFree,
              NameTaken, NameSleep
<1>2. ASSUME NEW c \in Calls, LoopCancelled(c) \/ LoopWait(c) \/ WakeBehind(c)
                              \/ WakeCurrent(c) \/ WriteFails(c) \/ ReadPastEnd(c)
                              \/ WriteDelta(c)
      PROVE  Quiet
  BY <1>2 DEF TypeOK, Quiet, LoopCancelled, LoopWait, WakeBehind, WakeCurrent,
              WriteFails, ReadPastEnd, WriteDelta
<1>3. ASSUME NEW c \in Calls, WriteSnapshot(c)
      PROVE  Quiet
  BY <1>3 DEF TypeOK, Quiet, WriteSnapshot, GotoAndNotify
<1>4. CASE Healthy_Check
  BY <1>4 DEF TypeOK, Quiet, Healthy_Check
<1>5. CASE UNCHANGED vars
  BY <1>5 DEF TypeOK, Quiet, vars
<1> QED
  BY <1>1, <1>2, <1>3, <1>4, <1>5 DEF Next, Handler, Lockless, Locking

\* The log goes on describing the calls it names, whoever writes it.
LEMMA LogInd == IndInv /\ [Next]_vars => LogInv'
<1> SUFFICES ASSUME IndInv, [Next]_vars PROVE LogInv'
  OBVIOUS
<1>a. TypeOK /\ ControlInv /\ LogInv /\ HoldInv /\ NoCall \notin Calls
  BY NoCallFresh DEF IndInv
<1>b. \A v \in 0..(size - 1) : /\ nodes[v].call \in Calls \cup {NoCall}
                               /\ nodes[v].code \in {"ADD", "DELETE"}
                               /\ nodes[v].first \in Int
  BY <1>a DEF TypeOK, Entry, Codes
<1>c. /\ size \in Nat /\ version \in Nat
      /\ \A d \in Calls : /\ regist_version[d] \in Int /\ deleted_version[d] \in Int
                          /\ pc[d] \in Registered => regist_version[d] \in 0..(version - 1)
  BY <1>a DEF TypeOK, ControlInv, Control
<1>1. CASE Quiet
  BY <1>a, <1>b, <1>1 DEF TypeOK, LogInv, AddEntry, DeleteEntry, Stored, Quiet
<1>2. ASSUME NEW c \in Calls, ClaimVersion(c)
      PROVE  LogInv'
  <2>1. /\ UNCHANGED <<nodes, size, deleted_version>> /\ version' = version + 1
        /\ \A d \in Calls : d # c => pc'[d] = pc[d] /\ regist_version'[d] = regist_version[d]
        /\ pc[c] = "claim" /\ pc'[c] = "store"
    BY <1>a, <1>2 DEF TypeOK, ClaimVersion, Goto
  <2>2. \A v \in 0..(size - 1) : nodes[v].call # c
    BY <1>a, <1>b, <2>1 DEF LogInv, AddEntry, DeleteEntry, Registered, Streaming
  <2>3. ASSUME NEW v \in 0..(size - 1), nodes[v].call # NoCall
        PROVE  /\ v < version'
               /\ nodes[v].code = "ADD" => AddEntry(v)'
               /\ nodes[v].code = "DELETE" => DeleteEntry(v)'
    <3>1. nodes[v].call \in Calls /\ nodes[v].call # c
      BY <1>b, <2>2, <2>3
    <3>2. /\ v < version
          /\ nodes[v].code = "ADD" => AddEntry(v)
          /\ nodes[v].code = "DELETE" => DeleteEntry(v)
      BY <1>a, <2>3 DEF LogInv
    <3>3. v < version'
      BY <1>a, <2>1, <3>2 DEF TypeOK
    <3> QED
      BY <2>1, <3>1, <3>2, <3>3 DEF AddEntry, DeleteEntry, Stored
  <2>4. \A d \in Calls : pc'[d] \in Registered =>
          pc[d] \in Registered /\ regist_version'[d] = regist_version[d]
    BY <2>1 DEF Registered, Streaming
  <2> QED
    BY <1>a, <2>1, <2>3, <2>4 DEF LogInv
<1>3. ASSUME NEW c \in Calls, ClaimDeletion(c)
      PROVE  LogInv'
  <2>1. /\ UNCHANGED <<nodes, size, regist_version>> /\ version' = version + 1
        /\ \A d \in Calls : d # c => pc'[d] = pc[d] /\ deleted_version'[d] = deleted_version[d]
        /\ pc[c] = "unclaim" /\ pc'[c] = "unstore"
    BY <1>a, <1>3 DEF TypeOK, ClaimDeletion, Goto
  <2>2. ASSUME NEW v \in 0..(size - 1), nodes[v].call # NoCall
        PROVE  /\ v < version'
               /\ nodes[v].code = "ADD" => AddEntry(v)'
               /\ nodes[v].code = "DELETE" => DeleteEntry(v)'
    <3>1. nodes[v].call \in Calls
      BY <1>b, <2>2
    <3>2. /\ v < version
          /\ nodes[v].code = "ADD" => AddEntry(v)
          /\ nodes[v].code = "DELETE" => DeleteEntry(v)
      BY <1>a, <2>2 DEF LogInv
    <3>3. v < version'
      BY <1>a, <2>1, <3>2 DEF TypeOK
    <3>4. nodes[v].code = "ADD" => AddEntry(v)'
      BY <2>1, <3>1, <3>2 DEF AddEntry, Stored, Registered
    <3>5. nodes[v].code = "DELETE" => DeleteEntry(v)'
      BY <2>1, <3>1, <3>2 DEF DeleteEntry
    <3> QED
      BY <3>3, <3>4, <3>5
  <2>3. \A d \in Calls : pc'[d] \in Registered => pc[d] \in Registered
    BY <2>1 DEF Registered, Streaming
  <2> QED
    BY <1>a, <2>1, <2>2, <2>3 DEF LogInv
<1>4. ASSUME NEW c \in Calls, registration(c)
      PROVE  LogInv'
  <2> DEFINE r == regist_version[c]
  <2>1. /\ UNCHANGED <<version, regist_version, deleted_version>>
        /\ \A d \in Calls : d # c => pc'[d] = pc[d]
        /\ pc[c] = "store" /\ pc'[c] = "snapshot"
    BY <1>a, <1>4 DEF TypeOK, registration, Goto, localVars
  <2>2. /\ size' \in Nat /\ size <= size' /\ r \in 0..(size' - 1)
        /\ nodes'[r].first = -1 /\ nodes'[r].call = c /\ nodes'[r].code = "ADD"
        /\ \A i \in 0..(size' - 1) : i # r => nodes'[i] = Slot(i)
    BY <1>a, <1>4, RegistrationWrites
  <2>3. r < version /\ ~Stored(r)
    BY <1>a, <2>1, <2>2 DEF TypeOK, ControlInv, Control, HoldInv, Holds
  <2>4. \A v \in 0..(size - 1) : nodes[v].call # c
    BY <1>a, <1>b, <2>1 DEF LogInv, AddEntry, DeleteEntry, Registered, Streaming
  <2>5. ASSUME NEW v \in 0..(size' - 1), v # r
        PROVE  IF v < size THEN nodes'[v] = nodes[v]
               ELSE nodes'[v].call = NoCall /\ nodes'[v].first = 0
    <3>1. nodes'[v] = Slot(v)
      BY <2>2, <2>5
    <3> QED
      BY <3>1 DEF Slot, Blank
  <2>6. ASSUME NEW v \in 0..(size - 1), nodes[v].call # NoCall
        PROVE  Stored(v)' /\ nodes'[v] = nodes[v]
    <3>0. size \in Nat /\ size' \in Nat /\ size <= size'
      BY <1>c, <2>2
    <3>a. v \in 0..(size' - 1)
      BY <3>0, RangeGrows
    <3>1. v < size /\ v < size'
      BY <3>0
    <3>2. v # r
      BY <2>3, <2>6, <3>1 DEF Stored
    <3> QED
      BY <2>5, <2>6, <3>a, <3>1, <3>2 DEF Stored
  <2>7. ASSUME NEW v \in 0..(size' - 1), v # r, nodes'[v].call # NoCall
        PROVE  /\ v < version'
               /\ nodes'[v].code = "ADD" => AddEntry(v)'
               /\ nodes'[v].code = "DELETE" => DeleteEntry(v)'
    <3>1. v \in 0..(size - 1) /\ nodes'[v] = nodes[v] /\ nodes[v].call # NoCall
      BY <1>a, <2>5, <2>7 DEF TypeOK
    <3>2. nodes[v].call \in Calls /\ nodes[v].call # c
      BY <1>b, <2>4, <3>1
    <3>3. v < version /\ (nodes[v].code = "ADD" => AddEntry(v))
                      /\ (nodes[v].code = "DELETE" => DeleteEntry(v))
      BY <1>a, <3>1 DEF LogInv
    <3>4. nodes[v].code = "ADD" => AddEntry(v)'
      BY <1>c, <2>1, <2>6, <3>1, <3>2, <3>3 DEF AddEntry, Stored
    <3>5. nodes[v].code = "DELETE" => DeleteEntry(v)'
      BY <2>1, <3>1, <3>2, <3>3 DEF DeleteEntry
    <3> QED
      BY <2>1, <3>1, <3>3, <3>4, <3>5
  <2>8. ASSUME NEW v \in 0..(size' - 1), v = r
        PROVE  v < version' /\ AddEntry(v)' /\ nodes'[v].code = "ADD"
    BY <2>1, <2>2, <2>3, <2>8 DEF AddEntry, Registered
  <2>9. ASSUME NEW d \in Calls, pc'[d] \in Registered
        PROVE  /\ regist_version'[d] < size'
               /\ nodes'[regist_version'[d]].call = d
               /\ nodes'[regist_version'[d]].code = "ADD"
               /\ nodes'[regist_version'[d]].first = -1
    <3>1. CASE d = c
      BY <2>1, <2>2, <3>1
    <3>2. CASE d # c
      <4>1. /\ regist_version[d] \in 0..(size - 1) /\ nodes[regist_version[d]].call = d
            /\ nodes[regist_version[d]].code = "ADD" /\ nodes[regist_version[d]].first = -1
        BY <1>a, <1>c, <2>1, <2>9, <3>2 DEF LogInv
      <4>2. nodes'[regist_version[d]] = nodes[regist_version[d]]
        BY <1>a, <2>6, <4>1
      <4> QED
        BY <1>c, <2>1, <2>2, <4>1, <4>2
    <3> QED
      BY <3>1, <3>2
  <2>10. ASSUME NEW v \in 0..(size' - 1), nodes'[v].call = NoCall
         PROVE  nodes'[v].first = 0
    BY <1>a, <1>c, <2>2, <2>5, <2>10 DEF LogInv
  <2>11. ASSUME NEW v \in 0..(size' - 1), nodes'[v].call # NoCall
         PROVE  /\ v < version'
                /\ nodes'[v].code = "ADD" => AddEntry(v)'
                /\ nodes'[v].code = "DELETE" => DeleteEntry(v)'
    <3>1. CASE v = r
      BY <2>8, <2>11, <3>1
    <3>2. CASE v # r
      BY <2>7, <2>11, <3>2
    <3> QED
      BY <3>1, <3>2
  <2> QED
    BY <2>9, <2>10, <2>11 DEF LogInv
<1>5. ASSUME NEW c \in Calls, deregistration(c)
      PROVE  LogInv'
  <2> DEFINE r == regist_version[c]
             w == deleted_version[c]
  <2>1. /\ UNCHANGED <<version, regist_version, deleted_version>>
        /\ pc[c] = "unstore" /\ pc'[c] = "done"
        /\ \A d \in Calls : d # c => /\ pc'[d] \in Registered <=> pc[d] \in Registered
                                     /\ pc[d] = "done" => pc'[d] = "done"
    BY <1>a, <1>5 DEF TypeOK, deregistration, GotoAndNotify, localVars,
                      Registered, Streaming
  <2>2. /\ size' \in Nat /\ size <= size' /\ w \in 0..(size' - 1)
        /\ r \in 0..(size - 1) /\ r < w
        /\ nodes'[w].first = -1 /\ nodes'[w].call = c /\ nodes'[w].code = "DELETE"
        /\ nodes'[r].first = w /\ nodes'[r].call = c /\ nodes'[r].code = "ADD"
        /\ \A i \in 0..(size' - 1) : i # w /\ i # r => nodes'[i] = Slot(i)
    BY <1>a, <1>5, DeregistrationWrites
  <2>3. w < version /\ ~Stored(w)
    BY <1>a, <2>1, <2>2 DEF TypeOK, ControlInv, Control, HoldInv, Holds
  <2>4. \A v \in 0..(size - 1) : nodes[v].call = c => v = r
    BY <1>a, <1>b, <2>1 DEF LogInv, AddEntry, DeleteEntry
  <2>5. ASSUME NEW v \in 0..(size' - 1), v # r, v # w
        PROVE  IF v < size THEN nodes'[v] = nodes[v]
               ELSE nodes'[v].call = NoCall /\ nodes'[v].first = 0
    <3>1. nodes'[v] = Slot(v)
      BY <2>2, <2>5
    <3> QED
      BY <3>1 DEF Slot, Blank
  <2>6. ASSUME NEW v \in 0..(size - 1), nodes[v].call # NoCall, v # r
        PROVE  Stored(v)' /\ nodes'[v] = nodes[v]
    <3>0. size \in Nat /\ size' \in Nat /\ size <= size'
      BY <1>c, <2>2
    <3>a. v \in 0..(size' - 1)
      BY <3>0, RangeGrows
    <3>1. v < size /\ v < size'
      BY <3>0
    <3>2. v # w
      BY <2>3, <2>6, <3>1 DEF Stored
    <3> QED
      BY <2>5, <2>6, <3>a, <3>1, <3>2 DEF Stored
  <2>7. ASSUME NEW v \in 0..(size' - 1), v # r, v # w, nodes'[v].call # NoCall
        PROVE  /\ v < version'
               /\ nodes'[v].code = "ADD" => AddEntry(v)'
               /\ nodes'[v].code = "DELETE" => DeleteEntry(v)'
    <3>1. v \in 0..(size - 1) /\ nodes'[v] = nodes[v] /\ nodes[v].call # NoCall
      BY <1>a, <2>5, <2>7 DEF TypeOK
    <3>2. nodes[v].call \in Calls /\ nodes[v].call # c
      BY <1>b, <2>4, <2>7, <3>1
    <3>3. v < version /\ (nodes[v].code = "ADD" => AddEntry(v))
                      /\ (nodes[v].code = "DELETE" => DeleteEntry(v))
      BY <1>a, <3>1 DEF LogInv
    <3>4. nodes[v].code = "ADD" => AddEntry(v)'
      <4>1. nodes[r].call = c
        BY <1>a, <2>1 DEF LogInv, Registered
      <4> QED
        BY <1>c, <2>1, <2>6, <3>1, <3>2, <3>3, <4>1 DEF AddEntry, Stored
    <3>5. nodes[v].code = "DELETE" => DeleteEntry(v)'
      BY <2>1, <3>1, <3>2, <3>3 DEF DeleteEntry
    <3> QED
      BY <2>1, <3>1, <3>3, <3>4, <3>5
  <2>8. ASSUME NEW v \in 0..(size' - 1)
        PROVE  /\ v = r => v < version' /\ AddEntry(v)' /\ nodes'[v].code = "ADD"
               /\ v = w => v < version' /\ DeleteEntry(v)' /\ nodes'[v].code = "DELETE"
    <3>1. w < size' /\ r < w
      BY <2>2
    <3>2. CASE v = r
      BY <1>a, <1>c, <2>1, <2>2, <2>3, <3>1, <3>2 DEF AddEntry, Stored
    <3>3. CASE v = w
      BY <1>c, <2>1, <2>2, <2>3, <3>1, <3>3 DEF DeleteEntry
    <3> QED
      BY <2>2, <3>2, <3>3
  <2>9. ASSUME NEW d \in Calls, pc'[d] \in Registered
        PROVE  /\ regist_version'[d] < size'
               /\ nodes'[regist_version'[d]].call = d
               /\ nodes'[regist_version'[d]].code = "ADD"
               /\ nodes'[regist_version'[d]].first = -1
    <3>1. d # c
      BY <2>1, <2>9 DEF Registered, Streaming
    <3>2. /\ regist_version[d] \in 0..(size - 1) /\ nodes[regist_version[d]].call = d
          /\ nodes[regist_version[d]].code = "ADD" /\ nodes[regist_version[d]].first = -1
      BY <1>a, <2>1, <2>9, <3>1 DEF TypeOK, LogInv, ControlInv, Control
    <3>3. nodes[r].call = c
      BY <1>a, <2>1 DEF LogInv, Registered
    <3>4. regist_version[d] # r
      BY <3>1, <3>2, <3>3
    <3>5. nodes'[regist_version[d]] = nodes[regist_version[d]]
      BY <1>a, <2>6, <3>2, <3>4
    <3> QED
      BY <1>c, <2>1, <2>2, <3>2, <3>5
  <2>10. ASSUME NEW v \in 0..(size' - 1), nodes'[v].call = NoCall
         PROVE  nodes'[v].first = 0
    <3>1. v # r /\ v # w
      BY <1>a, <2>2, <2>10
    <3>2. CASE v < size
      BY <1>a, <1>c, <2>5, <2>10, <3>1, <3>2 DEF LogInv
    <3>3. CASE ~(v < size)
      BY <2>5, <3>1, <3>3
    <3> QED
      BY <3>2, <3>3
  <2>11. ASSUME NEW v \in 0..(size' - 1), nodes'[v].call # NoCall
         PROVE  /\ v < version'
                /\ nodes'[v].code = "ADD" => AddEntry(v)'
                /\ nodes'[v].code = "DELETE" => DeleteEntry(v)'
    <3>1. CASE v = r
      BY <2>8, <2>11, <3>1
    <3>2. CASE v = w
      BY <2>8, <2>11, <3>2
    <3>3. CASE v # r /\ v # w
      BY <2>7, <2>11, <3>3
    <3> QED
      BY <3>1, <3>2, <3>3
  <2> QED
    BY <2>9, <2>10, <2>11 DEF LogInv
<1> QED
  BY <1>a, <1>1, <1>2, <1>3, <1>4, <1>5, QuietOrWrite

\* registration adds its own slot to the stored ones and changes no other.
LEMMA StoredByRegistration ==
  ASSUME IndInv, NEW c \in Calls, registration(c)
  PROVE  /\ ~Stored(regist_version[c])
         /\ \A v \in Nat : /\ Stored(v)' <=> Stored(v) \/ v = regist_version[c]
                           /\ Stored(v) => nodes'[v] = nodes[v]
<1> DEFINE r == regist_version[c]
<1>1. /\ TypeOK /\ ControlInv /\ LogInv /\ HoldInv /\ NoCall \notin Calls
      /\ size \in Nat
  BY NoCallFresh DEF IndInv, TypeOK
<1>2. /\ size' \in Nat /\ size <= size' /\ r \in 0..(size' - 1)
      /\ nodes'[r].call = c
      /\ \A i \in 0..(size' - 1) : i # r => nodes'[i] = Slot(i)
  BY <1>1, RegistrationWrites
<1>3. ~Stored(r)
  <2>1. pc[c] = "store" /\ r \in 0..(version - 1)
    BY <1>1, <1>2 DEF registration, ControlInv, Control
  <2> QED
    BY <1>1, <2>1 DEF HoldInv, Holds
<1>4. ASSUME NEW v \in Nat, v # r
      PROVE  /\ Stored(v)' <=> Stored(v)
             /\ Stored(v) => nodes'[v] = nodes[v]
  <2>1. CASE v < size'
    <3>a. v \in 0..(size' - 1)
      BY <1>2, <2>1, RangeOf
    <3>1. nodes'[v] = Slot(v)
      BY <1>2, <1>4, <3>a
    <3> QED
      BY <1>1, <1>2, <2>1, <3>1 DEF Stored, Slot, Blank
  <2>2. CASE ~(v < size')
    BY <1>1, <1>2, <2>2 DEF Stored
  <2> QED
    BY <2>1, <2>2
<1>5. r \in Nat /\ r < size' /\ nodes'[r].call # NoCall
  BY <1>1, <1>2
<1>6. ASSUME NEW v \in Nat, v = r
      PROVE  Stored(v)' /\ ~Stored(v)
  BY <1>3, <1>5, <1>6 DEF Stored
<1> QED
  BY <1>3, <1>4, <1>6

\* deregistration adds the slot of the deleting version, and changes no other
\* but for the first of the registration it deletes.
LEMMA StoredByDeregistration ==
  ASSUME IndInv, NEW c \in Calls, deregistration(c)
  PROVE  /\ ~Stored(deleted_version[c])
         /\ regist_version[c] \in Nat /\ deleted_version[c] > regist_version[c]
         /\ nodes[regist_version[c]].first = -1
         /\ nodes[regist_version[c]].code = "ADD"
         /\ nodes'[regist_version[c]].first = deleted_version[c]
         /\ \A v \in Nat :
              /\ Stored(v)' <=> Stored(v) \/ v = deleted_version[c]
              /\ Stored(v) => /\ nodes'[v].call = nodes[v].call
                              /\ nodes'[v].code = nodes[v].code
                              /\ v # regist_version[c] => nodes'[v].first = nodes[v].first
<1> DEFINE r == regist_version[c]
           w == deleted_version[c]
<1>1. /\ TypeOK /\ ControlInv /\ LogInv /\ HoldInv /\ NoCall \notin Calls
      /\ size \in Nat
  BY NoCallFresh DEF IndInv, TypeOK
<1>2. /\ size' \in Nat /\ size <= size' /\ w \in 0..(size' - 1)
      /\ r \in 0..(size - 1) /\ r < w
      /\ nodes'[w].call = c
      /\ nodes'[r].first = w /\ nodes'[r].call = c /\ nodes'[r].code = "ADD"
      /\ \A i \in 0..(size' - 1) : i # w /\ i # r => nodes'[i] = Slot(i)
  BY <1>1, DeregistrationWrites
<1>3. ~Stored(w)
  <2>1. pc[c] = "unstore" /\ w \in 0..(version - 1)
    BY <1>1, <1>2 DEF deregistration, ControlInv, Control
  <2> QED
    BY <1>1, <2>1 DEF HoldInv, Holds
<1>4. /\ nodes[r].first = -1 /\ nodes[r].code = "ADD" /\ nodes[r].call = c
      /\ r \in Nat /\ r < size /\ r < size' /\ w \in Nat /\ w < size' /\ w > r
  BY <1>1, <1>2 DEF LogInv, deregistration, Registered
<1>5. ASSUME NEW v \in Nat, v # r, v # w
      PROVE  /\ Stored(v)' <=> Stored(v)
             /\ Stored(v) => nodes'[v] = nodes[v]
  <2>1. CASE v < size'
    <3>a. v \in 0..(size' - 1)
      BY <1>2, <2>1, RangeOf
    <3>1. nodes'[v] = Slot(v)
      BY <1>2, <1>5, <3>a
    <3> QED
      BY <1>1, <1>2, <2>1, <3>1 DEF Stored, Slot, Blank
  <2>2. CASE ~(v < size')
    BY <1>1, <1>2, <2>2 DEF Stored
  <2> QED
    BY <2>1, <2>2
<1>6. ASSUME NEW v \in Nat, v = w
      PROVE  Stored(v)' /\ ~Stored(v)
  BY <1>1, <1>2, <1>3, <1>4, <1>6 DEF Stored
<1>7. ASSUME NEW v \in Nat, v = r
      PROVE  /\ Stored(v)' /\ Stored(v)
             /\ nodes'[v].call = nodes[v].call /\ nodes'[v].code = nodes[v].code
  BY <1>1, <1>2, <1>4, <1>7 DEF Stored
<1> QED
  BY <1>2, <1>3, <1>4, <1>5, <1>6, <1>7

\* A version stays either in the log or with exactly one handler.
LEMMA HoldInd == IndInv /\ [Next]_vars => HoldInv'
<1> SUFFICES ASSUME IndInv, [Next]_vars PROVE HoldInv'
  OBVIOUS
<1>a. TypeOK /\ ControlInv /\ LogInv /\ HoldInv /\ NoCall \notin Calls /\ version \in Nat
  BY NoCallFresh DEF IndInv, TypeOK
<1>b. ASSUME NEW c \in Calls, NEW v \in Nat, Holds(c, v) PROVE v < version
  BY <1>a, <1>b DEF TypeOK, Holds, ControlInv, Control
<1>c. ASSUME NEW v \in Nat, Stored(v) PROVE v < version
  BY <1>a, <1>c DEF TypeOK, Stored, LogInv
<1>1. CASE Quiet
  BY <1>a, <1>1 DEF HoldInv, Holds, Stored, Quiet
<1>2. ASSUME NEW c \in Calls, ClaimVersion(c)
      PROVE  HoldInv'
  <2>1. /\ UNCHANGED <<nodes, size, deleted_version>> /\ version' = version + 1
        /\ \A d \in Calls : d # c => pc'[d] = pc[d] /\ regist_version'[d] = regist_version[d]
        /\ pc[c] = "claim" /\ pc'[c] = "store" /\ regist_version'[c] = version
    BY <1>a, <1>2 DEF TypeOK, ClaimVersion, Goto
  <2>2. \A d \in Calls, v \in Nat : Holds(d, v)' <=> Holds(d, v) \/ (d = c /\ v = version)
    BY <1>b, <2>1 DEF Holds
  <2>3. \A v \in Nat : Stored(v)' <=> Stored(v)
    BY <2>1 DEF Stored
  <2>4. \A v \in 0..(version' - 1) : v \in Nat /\ (v = version \/ v \in 0..(version - 1))
    BY <1>a, <2>1
  <2> QED
    BY <1>a, <1>b, <1>c, <2>2, <2>3, <2>4 DEF HoldInv
<1>3. ASSUME NEW c \in Calls, ClaimDeletion(c)
      PROVE  HoldInv'
  <2>1. /\ UNCHANGED <<nodes, size, regist_version>> /\ version' = version + 1
        /\ \A d \in Calls : d # c => pc'[d] = pc[d] /\ deleted_version'[d] = deleted_version[d]
        /\ pc[c] = "unclaim" /\ pc'[c] = "unstore" /\ deleted_version'[c] = version
    BY <1>a, <1>3 DEF TypeOK, ClaimDeletion, Goto
  <2>2. \A d \in Calls, v \in Nat : Holds(d, v)' <=> Holds(d, v) \/ (d = c /\ v = version)
    BY <1>b, <2>1 DEF Holds
  <2>3. \A v \in Nat : Stored(v)' <=> Stored(v)
    BY <2>1 DEF Stored
  <2>4. \A v \in 0..(version' - 1) : v \in Nat /\ (v = version \/ v \in 0..(version - 1))
    BY <1>a, <2>1
  <2> QED
    BY <1>a, <1>b, <1>c, <2>2, <2>3, <2>4 DEF HoldInv
<1>4. ASSUME NEW c \in Calls, registration(c)
      PROVE  HoldInv'
  <2>1. /\ UNCHANGED <<version, regist_version, deleted_version>>
        /\ \A d \in Calls : d # c => pc'[d] = pc[d]
        /\ pc[c] = "store" /\ pc'[c] = "snapshot"
    BY <1>a, <1>4 DEF TypeOK, registration, Goto, localVars
  <2>2. \A d \in Calls, v \in Nat : /\ Holds(d, v)' <=> Holds(d, v) /\ d # c
                                    /\ Holds(c, v) <=> v = regist_version[c]
    BY <2>1 DEF Holds
  <2>3. \A v \in Nat : Stored(v)' <=> Stored(v) \/ v = regist_version[c]
    BY <1>4, StoredByRegistration
  <2>4. \A v \in 0..(version' - 1) : v \in Nat /\ v \in 0..(version - 1)
    BY <2>1
  <2> QED
    BY <1>a, <2>2, <2>3, <2>4 DEF HoldInv
<1>5. ASSUME NEW c \in Calls, deregistration(c)
      PROVE  HoldInv'
  <2>1. /\ UNCHANGED <<version, regist_version, deleted_version>>
        /\ \A d \in Calls : d # c => /\ pc'[d] = "store" <=> pc[d] = "store"
                                     /\ pc'[d] = "unstore" <=> pc[d] = "unstore"
        /\ pc[c] = "unstore" /\ pc'[c] = "done"
    BY <1>a, <1>5 DEF TypeOK, deregistration, GotoAndNotify, localVars
  <2>2. \A d \in Calls, v \in Nat : /\ Holds(d, v)' <=> Holds(d, v) /\ d # c
                                    /\ Holds(c, v) <=> v = deleted_version[c]
    BY <2>1 DEF Holds
  <2>3. \A v \in Nat : Stored(v)' <=> Stored(v) \/ v = deleted_version[c]
    BY <1>5, StoredByDeregistration
  <2>4. \A v \in 0..(version' - 1) : v \in Nat /\ v \in 0..(version - 1)
    BY <2>1
  <2> QED
    BY <1>a, <2>2, <2>3, <2>4 DEF HoldInv
<1> QED
  BY <1>a, <1>1, <1>2, <1>3, <1>4, <1>5, QuietOrWrite
---------------------------------------------------------------------------
(* The streams.                                                            *)

\* What list may leave out of a window: a deleted registration, and a
\* deletion whose registration is left out of the same window.
LEMMA SkippedEntry ==
  ASSUME TypeOK, LogInv, NEW from \in Nat, NEW i \in Nat, from <= i, Skipped(from, i)
  PROVE  /\ Stored(i)
         /\ nodes[i].code = "ADD" => nodes[i].first > 0
         /\ nodes[i].code = "DELETE" =>
              /\ regist_version[nodes[i].call] \in from..(i - 1)
              /\ Skipped(from, regist_version[nodes[i].call])
<1>a. size \in Nat /\ \A v \in 0..(size - 1) : nodes[v] \in Entry
  BY DEF TypeOK
<1>1. ASSUME NEW j \in Nat, Slot(j).first > 0
      PROVE  /\ j < size /\ nodes[j].call # NoCall /\ nodes[j].call \in Calls
             /\ Slot(j) = nodes[j] /\ nodes[j].code = "ADD" /\ AddEntry(j)
  <2>1. j < size /\ Slot(j) = nodes[j]
    BY <1>1 DEF Slot, Blank
  <2>2. j \in 0..(size - 1)
    BY <1>a, <2>1
  <2>3. nodes[j].call # NoCall
    BY <1>1, <2>1, <2>2 DEF LogInv
  <2>4. nodes[j].code = "ADD"
    BY <1>a, <1>1, <2>1, <2>2, <2>3 DEF LogInv, DeleteEntry, Entry, Codes
  <2> QED
    BY <1>a, <2>1, <2>2, <2>3, <2>4 DEF LogInv, Entry
<1>2. CASE Slot(i).first > 0
  BY <1>1, <1>2 DEF Stored
<1>3. CASE ~(Slot(i).first > 0)
  <2>1. PICK j \in from..(i - 1) : Slot(j).first > 0 /\ Slot(j).first = i
    BY <1>3 DEF Skipped
  <2>2. /\ j \in Nat /\ AddEntry(j) /\ nodes[j].first = i /\ i # -1
        /\ nodes[j].call \in Calls
    BY <1>1, <2>1
  <2>3. /\ i = deleted_version[nodes[j].call] /\ Stored(i)
        /\ nodes[i].call = nodes[j].call /\ nodes[i].code = "DELETE"
        /\ regist_version[nodes[j].call] = j
    BY <2>2 DEF AddEntry
  <2>4. Skipped(from, j)
    BY <2>1 DEF Skipped
  <2> QED
    BY <2>1, <2>3, <2>4
<1> QED
  BY <1>2, <1>3

\* Steps that write to no stream keep StreamInv, whatever they do to the log,
\* provided that stored entries are kept.
LEMMA StreamFrame ==
  ASSUME TypeOK, StreamInv, UNCHANGED <<sent, kept_version>>,
         \A d \in Calls :
           /\ pc'[d] \in Streaming => pc[d] \in Streaming
           /\ pc'[d] \in Early \cup {"store", "snapshot"} =>
                pc[d] \in Early \cup {"store", "snapshot"}
           /\ sent[d] = {} \/ regist_version'[d] = regist_version[d]
           /\ pc[d] \in Streaming => regist_version'[d] = regist_version[d],
         \A v \in Nat : Stored(v) =>
           /\ Stored(v)' /\ nodes'[v].call = nodes[v].call
           /\ nodes'[v].code = nodes[v].code
           /\ nodes[v].first > 0 => nodes'[v].first > 0
           /\ nodes[v].code = "DELETE" =>
                regist_version'[nodes[v].call] = regist_version[nodes[v].call]
  PROVE  StreamInv'
<1>1. \A c \in Calls : \A m \in sent[c] : m.v \in Nat
  BY DEF TypeOK, Command
<1>2. \A c \in Calls, v \in Int : SentAt(c, v)' <=> SentAt(c, v)
  BY DEF SentAt
<1>3. CommandsFaithful'
  BY <1>1 DEF StreamInv, CommandsFaithful
<1>4. ASSUME NEW c \in Calls, NEW v \in Nat, Suppressed(c, v)
      PROVE  Suppressed(c, v)'
  BY <1>4 DEF Suppressed, SentAt
<1>5. ASSUME NEW c \in Calls, pc'[c] \in Streaming, NEW v \in 0..kept_version'[c],
             v # regist_version'[c]
      PROVE  SentAt(c, v)' \/ Suppressed(c, v)'
  <2>1. /\ pc[c] \in Streaming /\ v \in 0..kept_version[c] /\ v # regist_version[c]
        /\ v \in Nat /\ v \in Int
    BY <1>5
  <2> QED
    BY <1>2, <1>4, <2>1 DEF StreamInv
<1> QED
  BY <1>3, <1>5 DEF StreamInv

\* A reply that carries the window from..to tells the stream of c of every
\* entry of the window that is not rightly suppressed, and it is faithful.
LEMMA WindowWritten ==
  ASSUME TypeOK, LogInv, NEW c \in Calls, NEW from \in Nat, NEW to \in Int,
         \A m \in sent[c] : m.v < from,
         sent'[c] = sent[c] \cup list(from, to),
         UNCHANGED <<nodes, size, regist_version>>
  PROVE  /\ \A i \in from..to : SentAt(c, i)' \/ Suppressed(c, i)'
         /\ \A m \in list(from, to) :
              /\ m.v \in from..to
              /\ m.call # NoCall => /\ Stored(m.v) /\ m.call = nodes[m.v].call
                                    /\ m.code = nodes[m.v].code
<1>1. /\ \A i \in from..to : ~Skipped(from, i) => \E m \in list(from, to) : m.v = i
      /\ \A m \in list(from, to) :
           /\ m.v \in from..to /\ ~Skipped(from, m.v)
           /\ m.call = Slot(m.v).call /\ m.code = Slot(m.v).code
  BY ListMember
<1>2. ASSUME NEW i \in from..to
      PROVE  SentAt(c, i)' \/ Suppressed(c, i)'
  <2>1. CASE ~Skipped(from, i)
    BY <1>1, <2>1 DEF SentAt
  <2>2. CASE Skipped(from, i)
    <3>1. /\ Stored(i)
          /\ nodes[i].code = "ADD" => nodes[i].first > 0
          /\ nodes[i].code = "DELETE" =>
               /\ regist_version[nodes[i].call] \in from..(i - 1)
               /\ Skipped(from, regist_version[nodes[i].call])
      BY <2>2, SkippedEntry
    <3>2. ASSUME nodes[i].code = "DELETE"
          PROVE  \A m \in sent'[c] : m.v # regist_version[nodes[i].call]
      <4>1. /\ regist_version[nodes[i].call] >= from
            /\ Skipped(from, regist_version[nodes[i].call])
        BY <3>1, <3>2
      <4>2. \A m \in sent[c] : m.v \in Nat
        BY DEF TypeOK, Command
      <4>3. regist_version[nodes[i].call] \in Int
        BY <3>1, <3>2
      <4>4. \A m \in sent[c] : m.v # regist_version[nodes[i].call]
        BY <4>1, <4>2, <4>3
      <4> QED
        BY <1>1, <4>1, <4>4
    <3> QED
      BY <3>1, <3>2 DEF Suppressed, SentAt, Stored
  <2> QED
    BY <2>1, <2>2
<1>3. ASSUME NEW m \in list(from, to), m.call # NoCall
      PROVE  Stored(m.v) /\ m.call = nodes[m.v].call /\ m.code = nodes[m.v].code
  BY <1>1, <1>3 DEF Slot, Blank, Stored
<1> QED
  BY <1>1, <1>2, <1>3

\* A Write keeps StreamInv when its window goes on where the stream stands.
LEMMA WriteKeepsStreams ==
  ASSUME TypeOK, LogInv, StreamInv, NEW c \in Calls,
         NEW from \in Nat, NEW to \in Int, NEW kept \in Int,
         sent' = [sent EXCEPT ![c] = sent[c] \cup list(from, to)],
         kept_version' = [kept_version EXCEPT ![c] = kept],
         UNCHANGED <<nodes, size, regist_version>>,
         pc'[c] = "top",
         \A d \in Calls \ {c} :
           /\ pc'[d] \in Streaming => pc[d] \in Streaming
           /\ pc'[d] \in Early \cup {"store", "snapshot"} =>
                pc[d] \in Early \cup {"store", "snapshot"},
         regist_version[c] \notin from..to, to <= kept,
         \A m \in sent[c] : m.v < from /\ m.v <= kept,
         \A v \in 0..kept : v # regist_version[c] =>
           \/ v \in from..to
           \/ pc[c] \in Streaming /\ v \in 0..kept_version[c] /\ v < from
  PROVE  StreamInv'
<1>a. /\ sent'[c] = sent[c] \cup list(from, to) /\ kept_version'[c] = kept
      /\ \A d \in Calls \ {c} : sent'[d] = sent[d] /\ kept_version'[d] = kept_version[d]
  BY DEF TypeOK
<1>b. /\ \A i \in from..to : SentAt(c, i)' \/ Suppressed(c, i)'
      /\ \A m \in list(from, to) :
           /\ m.v \in from..to
           /\ m.call # NoCall => /\ Stored(m.v) /\ m.call = nodes[m.v].call
                                 /\ m.code = nodes[m.v].code
  BY <1>a, WindowWritten
<1>1. ASSUME NEW d \in Calls, pc'[d] \in Early \cup {"store", "snapshot"}
      PROVE  sent'[d] = {}
  <2>1. d # c
    BY <1>1 DEF Early, Waiting
  <2> QED
    BY <1>a, <1>1, <2>1 DEF StreamInv
<1>2. ASSUME NEW d \in Calls, NEW m \in sent'[d]
      PROVE  /\ m.v # regist_version[d] /\ m.v <= kept_version'[d]
             /\ m.call # NoCall => /\ Stored(m.v) /\ m.call = nodes[m.v].call
                                   /\ m.code = nodes[m.v].code
  <2>1. CASE m \in sent[d]
    BY <1>a, <2>1 DEF StreamInv, CommandsFaithful
  <2>2. CASE m \notin sent[d]
    <3>1. d = c /\ m \in list(from, to)
      BY <1>a, <1>2, <2>2
    <3>2. m.v # regist_version[c] /\ m.v <= kept
      BY <1>b, <3>1
    <3> QED
      BY <1>a, <1>b, <3>1, <3>2
  <2> QED
    BY <2>1, <2>2
<1>3. CommandsFaithful'
  BY <1>2 DEF CommandsFaithful, Stored
<1>4. ASSUME NEW v \in Nat, v < from, SentAt(c, v) \/ Suppressed(c, v)
      PROVE  SentAt(c, v)' \/ Suppressed(c, v)'
  <2>1. CASE SentAt(c, v)
    BY <1>a, <2>1 DEF SentAt
  <2>2. CASE Suppressed(c, v)
    <3>1. ASSUME nodes[v].code = "DELETE"
          PROVE  ~SentAt(c, regist_version[nodes[v].call])'
      <4>1. v \in 0..(size - 1) /\ nodes[v].call # NoCall /\ nodes[v].call \in Calls
        BY <2>2 DEF TypeOK, Entry, Suppressed, Stored
      <4>2. regist_version[nodes[v].call] < v /\ regist_version[nodes[v].call] \in Int
        BY <3>1, <4>1 DEF TypeOK, LogInv, DeleteEntry
      <4>3. \A m \in list(from, to) : m.v # regist_version[nodes[v].call]
        BY <1>b, <1>4, <4>2
      <4> QED
        BY <1>a, <2>2, <3>1, <4>3 DEF Suppressed, SentAt
    <3> QED
      BY <2>2, <3>1 DEF Suppressed, Stored
  <2> QED
    BY <1>4, <2>1, <2>2
<1>5. ASSUME NEW d \in Calls, pc'[d] \in Streaming, NEW v \in 0..kept_version'[d],
             v # regist_version[d]
      PROVE  SentAt(d, v)' \/ Suppressed(d, v)'
  <2>1. CASE d = c
    BY <1>a, <1>b, <1>4, <1>5, <2>1 DEF StreamInv
  <2>2. CASE d # c
    <3>1. SentAt(d, v) \/ Suppressed(d, v)
      BY <1>a, <1>5, <2>2 DEF StreamInv
    <3>2. \A w : SentAt(d, w)' <=> \E m \in sent[d] : m.v = w
      BY <1>a, <2>2 DEF SentAt
    <3> QED
      BY <1>a, <2>2, <3>1 DEF Suppressed, SentAt, Stored
  <2> QED
    BY <2>1, <2>2
<1> QED
  BY <1>1, <1>3, <1>5 DEF StreamInv

\* Every step keeps what the streams have been sent faithful and complete.
LEMMA StreamInd == IndInv /\ [Next]_vars => StreamInv'
<1> SUFFICES ASSUME IndInv, [Next]_vars PROVE StreamInv'
  OBVIOUS
<1>a. TypeOK /\ ControlInv /\ LogInv /\ HoldInv /\ StreamInv
  BY DEF IndInv
<1>b. \A v \in Nat : Stored(v) /\ nodes[v].code = "DELETE" =>
        nodes[v].call \in Calls /\ pc[nodes[v].call] = "done"
  BY <1>a DEF TypeOK, Entry, Stored, LogInv, DeleteEntry
<1> USE DEF registrarVars, localVars, Goto, Streaming, Waiting, Early
<1>1. ASSUME NEW c \in Calls, CallRegist(c) \/ Disconnect(c) \/ find_exist_node(c)
                              \/ NameFree(c) \/ NameTaken(c) \/ NameSleep(c)
      PROVE  StreamInv'
  <2>1. UNCHANGED <<nodes, size, regist_version, sent, kept_version>>
    BY <1>1 DEF CallRegist, Disconnect, find_exist_node, NameFree, NameTaken, NameSleep
  <2>2. \A d \in Calls : /\ pc'[d] \in Streaming => pc[d] \in Streaming
                         /\ pc'[d] \in Early \cup {"store", "snapshot"} =>
                              pc[d] \in Early \cup {"store", "snapshot"}
    BY <1>a, <1>1 DEF TypeOK, CallRegist, Disconnect, find_exist_node, NameFree,
                      NameTaken, NameSleep
  <2> QED
    BY <1>a, <2>1, <2>2, StreamFrame DEF Stored
<1>2. ASSUME NEW c \in Calls, LoopCancelled(c) \/ LoopWait(c) \/ WakeBehind(c)
                              \/ WakeCurrent(c) \/ WriteFails(c) \/ ReadPastEnd(c)
                              \/ ClaimDeletion(c)
      PROVE  StreamInv'
  <2>1. UNCHANGED <<nodes, size, regist_version, sent, kept_version>>
    BY <1>2 DEF LoopCancelled, LoopWait, WakeBehind, WakeCurrent, WriteFails,
                ReadPastEnd, ClaimDeletion
  <2>2. \A d \in Calls : /\ pc'[d] \in Streaming => pc[d] \in Streaming
                         /\ pc'[d] \in Early \cup {"store", "snapshot"} =>
                              pc[d] \in Early \cup {"store", "snapshot"}
    BY <1>a, <1>2 DEF TypeOK, LoopCancelled, LoopWait, WakeBehind, WakeCurrent,
                      WriteFails, ReadPastEnd, ClaimDeletion
  <2> QED
    BY <1>a, <2>1, <2>2, StreamFrame DEF Stored
<1>3. CASE Healthy_Check \/ UNCHANGED vars
  <2>1. UNCHANGED <<nodes, size, regist_version, sent, kept_version>>
    BY <1>3 DEF Healthy_Check, vars
  <2>2. \A d \in Calls : /\ pc'[d] \in Streaming => pc[d] \in Streaming
                         /\ pc'[d] \in Early \cup {"store", "snapshot"} =>
                              pc[d] \in Early \cup {"store", "snapshot"}
    BY <1>a, <1>3 DEF TypeOK, Healthy_Check, vars
  <2> QED
    BY <1>a, <2>1, <2>2, StreamFrame DEF Stored
<1>4. ASSUME NEW c \in Calls, ClaimVersion(c)
      PROVE  StreamInv'
  <2>1. /\ UNCHANGED <<nodes, size, sent, kept_version>>
        /\ \A d \in Calls : d # c => pc'[d] = pc[d] /\ regist_version'[d] = regist_version[d]
        /\ pc[c] = "claim" /\ pc'[c] = "store"
    BY <1>a, <1>4 DEF TypeOK, ClaimVersion
  <2>2. sent[c] = {}
    BY <1>a, <2>1 DEF StreamInv
  <2> QED
    BY <1>a, <1>b, <2>1, <2>2, StreamFrame DEF Stored
<1>5. ASSUME NEW c \in Calls, registration(c)
      PROVE  StreamInv'
  <2>1. /\ UNCHANGED <<regist_version, sent, kept_version>>
        /\ \A d \in Calls : d # c => pc'[d] = pc[d]
        /\ pc[c] = "store" /\ pc'[c] = "snapshot"
    BY <1>a, <1>5 DEF TypeOK, registration
  <2>2. \A v \in Nat : Stored(v) => Stored(v)' /\ nodes'[v] = nodes[v]
    BY <1>5, StoredByRegistration
  <2> QED
    BY <1>a, <2>1, <2>2, StreamFrame
<1>6. ASSUME NEW c \in Calls, deregistration(c)
      PROVE  StreamInv'
  <2>1. UNCHANGED <<regist_version, sent, kept_version>>
    BY <1>6 DEF deregistration
  <2>2. \A d \in Calls : /\ pc'[d] \in Streaming => pc[d] \in Streaming
                         /\ pc'[d] \in Early \cup {"store", "snapshot"} =>
                              pc[d] \in Early \cup {"store", "snapshot"}
    BY <1>a, <1>6 DEF TypeOK, deregistration, GotoAndNotify
  <2>3. \A v \in Nat : Stored(v) =>
          /\ Stored(v)' /\ nodes'[v].call = nodes[v].call
          /\ nodes'[v].code = nodes[v].code
          /\ nodes[v].first > 0 => nodes'[v].first > 0
    BY <1>6, StoredByDeregistration
  <2> QED
    BY <1>a, <2>1, <2>2, <2>3, StreamFrame
<1>7. ASSUME NEW c \in Calls, WriteSnapshot(c)
      PROVE  StreamInv'
  <2> DEFINE r == regist_version[c]
  <2>1. /\ r \in Nat /\ r - 1 \in Int /\ pc[c] = "snapshot" /\ sent[c] = {}
        /\ UNCHANGED <<nodes, size, regist_version>>
    BY <1>a, <1>7 DEF TypeOK, ControlInv, Control, StreamInv, WriteSnapshot, Registered
  <2>2. /\ pc'[c] = "top"
        /\ \A d \in Calls \ {c} :
             /\ pc'[d] \in Streaming => pc[d] \in Streaming
             /\ pc'[d] \in Early \cup {"store", "snapshot"} =>
                  pc[d] \in Early \cup {"store", "snapshot"}
    BY <1>a, <1>7 DEF TypeOK, WriteSnapshot, GotoAndNotify
  <2>3. /\ sent' = [sent EXCEPT ![c] = sent[c] \cup list(0, r - 1)]
        /\ kept_version' = [kept_version EXCEPT ![c] = r]
    BY <1>7, <2>1 DEF WriteSnapshot
  <2>4. r \notin 0..(r - 1) /\ r - 1 <= r /\ \A v \in 0..r : v # r => v \in 0..(r - 1)
    BY <2>1
  <2>5. \A m \in sent[c] : m.v < 0 /\ m.v <= r
    BY <2>1
  <2>6. 0 \in Nat /\ r \in Int
    BY <2>1
  <2> QED
    BY <1>a, <2>1, <2>2, <2>3, <2>4, <2>5, <2>6, WriteKeepsStreams
<1>8. ASSUME NEW c \in Calls, WriteDelta(c)
      PROVE  StreamInv'
  <2> DEFINE k == kept_version[c]
             t == cversion[c]
  <2>1. /\ k \in Int /\ k + 1 \in Nat /\ t \in Int /\ k < t /\ regist_version[c] \in Nat
        /\ regist_version[c] <= k /\ pc[c] = "list"
        /\ UNCHANGED <<nodes, size, regist_version>>
    BY <1>a, <1>8 DEF TypeOK, ControlInv, Control, WriteDelta, Registered
  <2>2. /\ pc'[c] = "top"
        /\ \A d \in Calls \ {c} :
             /\ pc'[d] \in Streaming => pc[d] \in Streaming
             /\ pc'[d] \in Early \cup {"store", "snapshot"} =>
                  pc[d] \in Early \cup {"store", "snapshot"}
    BY <1>a, <1>8 DEF TypeOK, WriteDelta
  <2>3. /\ sent' = [sent EXCEPT ![c] = sent[c] \cup list(k + 1, t)]
        /\ kept_version' = [kept_version EXCEPT ![c] = t]
    BY <1>8 DEF WriteDelta
  <2>4. \A m \in sent[c] : m.v < k + 1 /\ m.v <= t
    <3>1. \A m \in sent[c] : m.v \in Nat /\ m.v <= k
      BY <1>a DEF TypeOK, Command, StreamInv, CommandsFaithful
    <3> QED
      BY <2>1, <3>1
  <2>5. /\ regist_version[c] \notin (k + 1)..t /\ t <= t
        /\ \A v \in 0..t : v \in (k + 1)..t \/ (v \in 0..k /\ v < k + 1)
    BY <2>1
  <2> QED
    BY <1>a, <2>1, <2>2, <2>3, <2>4, <2>5, WriteKeepsStreams
<1> QED
  BY <1>1, <1>2, <1>3, <1>4, <1>5, <1>6, <1>7, <1>8
     DEF Next, Handler, Lockless, Locking
---------------------------------------------------------------------------
(* Names, and the theorems.                                                *)

\* A name stays in alive_nodes only while some handler will take it out.
LEMMA AliveInd == IndInv /\ [Next]_vars => AliveHasHolder'
<1> SUFFICES ASSUME IndInv, [Next]_vars, NEW n \in alive_nodes'
             PROVE  \E c \in Calls : NameOf[c] = n /\ pc'[c] \in Registered
  BY DEF AliveHasHolder
<1>a. TypeOK /\ ControlInv /\ LogInv /\ AliveHasHolder
  BY DEF IndInv
<1>1. ASSUME alive_nodes' = alive_nodes,
             \A d \in Calls : pc[d] \in Registered => pc'[d] \in Registered
      PROVE  \E c \in Calls : NameOf[c] = n /\ pc'[c] \in Registered
  BY <1>a, <1>1 DEF AliveHasHolder
<1>2. CASE Quiet /\ alive_nodes' = alive_nodes
  BY <1>1, <1>2 DEF Quiet
<1>3. ASSUME NEW c \in Calls, ClaimVersion(c) \/ ClaimDeletion(c)
      PROVE  \E d \in Calls : NameOf[d] = n /\ pc'[d] \in Registered
  BY <1>a, <1>1, <1>3
     DEF TypeOK, ClaimVersion, ClaimDeletion, Goto, Registered, Streaming
<1>4. ASSUME NEW c \in Calls, registration(c)
      PROVE  \E d \in Calls : NameOf[d] = n /\ pc'[d] \in Registered
  <2>1. /\ alive_nodes' = alive_nodes \cup {NameOf[c]}
        /\ pc[c] = "store" /\ pc'[c] \in Registered
        /\ \A d \in Calls : d # c => pc'[d] = pc[d]
    BY <1>a, <1>4 DEF TypeOK, registration, Goto, Registered
  <2> QED
    BY <1>a, <2>1 DEF AliveHasHolder, Registered
<1>5. ASSUME NEW c \in Calls, deregistration(c)
      PROVE  \E d \in Calls : NameOf[d] = n /\ pc'[d] \in Registered
  <2>1. nodes[regist_version[c]].call = c
    BY <1>a, <1>5 DEF LogInv, deregistration, Registered
  <2>2. alive_nodes' = alive_nodes \ {NameOf[c]}
    BY <1>5, <2>1 DEF deregistration
  <2>3. \A d \in Calls : d # c /\ pc[d] \in Registered => pc'[d] \in Registered
    BY <1>a, <1>5 DEF TypeOK, deregistration, GotoAndNotify, Registered, Streaming
  <2> QED
    BY <1>a, <2>2, <2>3 DEF AliveHasHolder
<1>6. \/ alive_nodes' = alive_nodes
      \/ \E c \in Calls : registration(c) \/ deregistration(c)
  BY DEF Next, Handler, Lockless, Locking, CallRegist, Disconnect, find_exist_node,
         NameFree, NameTaken, NameSleep, ClaimVersion, WriteSnapshot, LoopCancelled,
         LoopWait, WakeBehind, WakeCurrent, WriteDelta, WriteFails, ReadPastEnd,
         ClaimDeletion, Healthy_Check, vars, registrarVars
<1> QED
  BY <1>a, <1>2, <1>3, <1>4, <1>5, <1>6, QuietOrWrite

\* IndInv is an invariant of the registrar.
THEOREM Invariance == Spec => []IndInv
<1>1. IndInv /\ [Next]_vars => IndInv'
  BY TypeInd, ControlInd, LogInd, HoldInd, StreamInd, AliveInd DEF IndInv
<1> QED
  BY InitInd, <1>1, PTL DEF Spec

\* Every variable of the registrar keeps its type.
THEOREM TypeCorrect == Spec => []TypeOK
<1>1. IndInv => TypeOK
  BY DEF IndInv
<1> QED
  BY Invariance, <1>1, PTL

\* Versions are handed out before the log's mutex is taken, yet each one is
\* in the log or will be written by exactly one handler.
THEOREM VersionsAreAccounted == Spec => []VersionsAccounted
<1>1. IndInv => VersionsAccounted
  BY DEF IndInv, HoldInv, VersionsAccounted
<1> QED
  BY Invariance, <1>1, PTL

\* A stream has told its node of every live registration it has passed, but
\* for slots that were unwritten when they were read.
THEOREM LiveNodesAreSent == Spec => []LiveNodesSent
<1>1. IndInv => LiveNodesSent
  <2> SUFFICES ASSUME IndInv, NEW c \in Calls, pc[c] \in Streaming,
                      NEW v \in 0..kept_version[c], Stored(v), v # regist_version[c],
                      nodes[v].code = "ADD", nodes[v].first = -1
               PROVE  \E m \in sent[c] : m.v = v /\ m.call \in {nodes[v].call, NoCall}
    BY DEF LiveNodesSent
  <2>1. SentAt(c, v)
    BY DEF IndInv, StreamInv, Suppressed
  <2> QED
    BY <2>1 DEF SentAt, IndInv, StreamInv, CommandsFaithful
<1> QED
  BY Invariance, <1>1, PTL

\* A stream that has sent a registration sends the deletion when it passes it,
\* wherever the windows it lists begin and end, but for a deletion whose slot
\* was unwritten when it was read.
THEOREM DeletionsAreSent == Spec => []DeletionsSent
<1>1. IndInv => DeletionsSent
  <2> SUFFICES ASSUME IndInv, NEW c \in Calls, pc[c] \in Streaming,
                      NEW v \in 0..kept_version[c], Stored(v), nodes[v].code = "DELETE",
                      SentAt(c, regist_version[nodes[v].call])
               PROVE  \E m \in sent[c] : m.v = v /\ m.call \in {nodes[v].call, NoCall}
    BY DEF DeletionsSent
  <2>1. v # regist_version[c]
    BY DEF IndInv, LogInv, Registered
  <2>2. SentAt(c, v)
    BY <2>1 DEF IndInv, StreamInv, Suppressed
  <2> QED
    BY <2>2 DEF SentAt, IndInv, StreamInv, CommandsFaithful
<1> QED
  BY Invariance, <1>1, PTL

\* A command is the log entry of its version or a copy of an unwritten slot.
THEOREM CommandsAreFaithful == Spec => []CommandsFaithful
<1>1. IndInv => CommandsFaithful
  BY DEF IndInv, StreamInv
<1> QED
  BY Invariance, <1>1, PTL

\* A name is blocked only while a handler that will free it is running.
THEOREM NamesAreFreed == Spec => []AliveHasHolder
<1>1. IndInv => AliveHasHolder
  BY DEF IndInv
<1> QED
  BY Invariance, <1>1, PTL

\* The log is append-only, and a registration is deleted at most once.
THEOREM LogIsAppendOnly == Spec => LogAppendOnly
<1> DEFINE Kept(v) ==
      /\ Stored(v)'
      /\ nodes'[v].call = nodes[v].call /\ nodes'[v].code = nodes[v].code
      /\ \/ nodes'[v].first = nodes[v].first
         \/ nodes[v].first = -1 /\ nodes[v].code = "ADD" /\ nodes'[v].first > v
<1>1. ASSUME IndInv, [Next]_vars, NEW v \in 0..(size - 1), Stored(v)
      PROVE  Kept(v)
  <2>1. v \in Nat /\ TypeOK
    BY <1>1 DEF IndInv
  <2>2. CASE UNCHANGED <<nodes, size>>
    BY <1>1, <2>2 DEF Stored
  <2>3. ASSUME NEW c \in Calls, registration(c) PROVE Kept(v)
    BY <1>1, <2>1, <2>3, StoredByRegistration
  <2>4. ASSUME NEW c \in Calls, deregistration(c) PROVE Kept(v)
    <3>1. CASE v = regist_version[c]
      BY <1>1, <2>1, <2>4, <3>1, StoredByDeregistration
    <3>2. CASE v # regist_version[c]
      BY <1>1, <2>1, <2>4, <3>2, StoredByDeregistration
    <3> QED
      BY <3>1, <3>2
  <2>5. \/ UNCHANGED <<nodes, size>>
        \/ \E c \in Calls : registration(c) \/ deregistration(c)
    BY <1>1, <2>1, QuietOrWrite DEF Quiet, ClaimVersion, ClaimDeletion
  <2> QED
    BY <2>2, <2>3, <2>4, <2>5
<1>2. IndInv /\ [Next]_vars =>
        [\A v \in 0..(size - 1) : Stored(v) => Kept(v)]_vars
  BY <1>1
<1> QED
  BY Invariance, <1>2, PTL DEF Spec, LogAppendOnly
---------------------------------------------------------------------------
(***************************************************************************)
(* The registrar implements Discovery, for any number of nodes.  The proof *)
(* rests on IndInv: a reply of list names a process as added only where    *)
(* the log's entry is live (AddEntry), names it as deleted only where its  *)
(* handler is done (DeleteEntry), and an entry below the window that the   *)
(* stream has been sent belongs to another process (CommandsFaithful).     *)
(* The stores of an ADD and of a DELETE are Join and Leave, the two writes *)
(* of a reply are Tell, and every other step is a stutter.                 *)
(***************************************************************************)

\* The processes a set of commands names under a code, as in Told.
Named(commands, code) ==
  {m.call : m \in {k \in commands : k.code = code}} \ {NoCall}

\* A process is live while its handler is registered and gone after that.
LEMMA LifeCases ==
  ASSUME NEW c \in Calls
  PROVE  /\ pc[c] \in Registered => Life(c) = "live" /\ pc[c] # "done"
         /\ pc[c] = "done" /\ deleted_version[c] >= 0 => Life(c) = "gone"
         /\ pc[c] \notin Registered /\ ~(pc[c] = "done" /\ deleted_version[c] >= 0) =>
              Life(c) = "new"
  BY DEF Life, Registered, Streaming

\* An entry listed for c is about another process, and is true of it.
LEMMA ListedIsTrue ==
  ASSUME IndInv, NEW c \in Calls, pc[c] \in Registered,
         NEW from \in Nat, NEW to \in Int, regist_version[c] \notin from..to,
         NEW m \in list(from, to), m.call # NoCall
  PROVE  /\ m.call \in Calls /\ m.call # c /\ m.v \in 0..(size - 1)
         /\ m.call = nodes[m.v].call /\ m.code = nodes[m.v].code
         /\ m.code = "ADD" => Life(m.call) = "live"
         /\ m.code = "DELETE" => Life(m.call) = "gone"
<1>a. TypeOK /\ LogInv
  BY DEF IndInv
<1>1. /\ m.v \in from..to /\ ~Skipped(from, m.v)
      /\ m.call = Slot(m.v).call /\ m.code = Slot(m.v).code
  BY ListMember
<1>2. /\ m.v \in 0..(size - 1) /\ m.v \in Nat /\ Slot(m.v) = nodes[m.v]
      /\ ~(nodes[m.v].first > 0)
  BY <1>a, <1>1 DEF TypeOK, Slot, Blank, Skipped
<1>3. m.call \in Calls
  BY <1>a, <1>1, <1>2 DEF TypeOK, Entry
<1>4. ASSUME m.code = "ADD"
      PROVE  m.call # c /\ Life(m.call) = "live"
  <2>1. AddEntry(m.v)
    BY <1>a, <1>1, <1>2, <1>4 DEF LogInv
  <2>2. regist_version[m.call] = m.v
    BY <1>1, <1>2, <2>1 DEF AddEntry
  <2>3. pc[m.call] \in Registered
    <3>1. deleted_version[m.call] \in Int
      BY <1>a, <1>3 DEF TypeOK
    <3> QED
      BY <1>1, <1>2, <2>1, <3>1 DEF AddEntry
  <2> QED
    BY <1>1, <1>3, <2>2, <2>3, LifeCases
<1>5. ASSUME m.code = "DELETE"
      PROVE  m.call # c /\ Life(m.call) = "gone"
  <2>1. DeleteEntry(m.v)
    BY <1>a, <1>1, <1>2, <1>5 DEF LogInv
  <2>2. deleted_version[m.call] = m.v /\ pc[m.call] = "done"
    BY <1>1, <1>2, <2>1 DEF DeleteEntry
  <2> QED
    BY <1>2, <1>3, <2>2, LifeCases
<1>6. m.code \in {"ADD", "DELETE"}
  BY <1>a, <1>1, <1>2 DEF TypeOK, Entry, Codes
<1> QED
  BY <1>1, <1>2, <1>3, <1>4, <1>5, <1>6

\* A process has one entry of each code in the log.
LEMMA OneEntryEach ==
  ASSUME IndInv, NEW v \in 0..(size - 1), NEW w \in 0..(size - 1),
         nodes[v].call # NoCall, nodes[v].call = nodes[w].call,
         nodes[v].code = nodes[w].code
  PROVE  v = w
<1>1. nodes[v].code \in {"ADD", "DELETE"}
  BY DEF IndInv, TypeOK, Entry, Codes
<1>2. CASE nodes[v].code = "ADD"
  <2>1. AddEntry(v) /\ AddEntry(w)
    BY <1>2 DEF IndInv, LogInv
  <2> QED
    BY <2>1 DEF AddEntry
<1>3. CASE nodes[v].code = "DELETE"
  <2>1. DeleteEntry(v) /\ DeleteEntry(w)
    BY <1>3 DEF IndInv, LogInv
  <2> QED
    BY <2>1 DEF DeleteEntry
<1> QED
  BY <1>1, <1>2, <1>3

\* A window above everything a stream has been sent names no process again.
LEMMA ListedIsNew ==
  ASSUME IndInv, NEW c \in Calls, pc[c] \in Registered,
         NEW from \in Nat, NEW to \in Int, regist_version[c] \notin from..to,
         \A k \in sent[c] : k.v < from,
         NEW m \in list(from, to), m.call # NoCall
  PROVE  m.call \notin Told(c, m.code)
<1> SUFFICES ASSUME NEW k \in sent[c], k.code = m.code, k.call = m.call
             PROVE  FALSE
  BY DEF Told
<1>1. k.v \in 0..(size - 1) /\ k.call = nodes[k.v].call /\ k.code = nodes[k.v].code
  BY DEF IndInv, TypeOK, Command, StreamInv, CommandsFaithful, Stored
<1>2. /\ m.v \in 0..(size - 1)
      /\ m.call = nodes[m.v].call /\ m.code = nodes[m.v].code
  BY ListedIsTrue
<1>3. k.v = m.v
  BY <1>1, <1>2, OneEntryEach
<1>4. m.v \in from..to /\ k.v < from
  BY ListMember
<1> QED
  BY <1>3, <1>4

\* A reply written to a stream is one Tell.
LEMMA ReplyTells ==
  ASSUME IndInv, NEW c \in Calls, pc[c] \in Registered,
         NEW from \in Nat, NEW to \in Int, regist_version[c] \notin from..to,
         \A k \in sent[c] : k.v < from,
         sent' = [sent EXCEPT ![c] = sent[c] \cup list(from, to)],
         UNCHANGED [d \in Calls |-> Life(d)]
  PROVE  D!Next
<1> DEFINE news == Named(list(from, to), "ADD")
           olds == Named(list(from, to), "DELETE")
<1>1. \A m \in list(from, to) : m.call # NoCall =>
        /\ m.call \in Calls /\ m.call # c /\ m.call \notin Told(c, m.code)
        /\ m.code = "ADD" => Life(m.call) = "live"
        /\ m.code = "DELETE" => Life(m.call) = "gone"
  BY ListedIsTrue, ListedIsNew
<1>2. \A d \in news : d \in Calls /\ d # c /\ Life(d) = "live" /\ d \notin Told(c, "ADD")
  BY <1>1 DEF Named
<1>3. \A d \in olds : d \in Calls /\ d # c /\ Life(d) = "gone" /\ d \notin Told(c, "DELETE")
  BY <1>1 DEF Named
<1>4. ASSUME NEW code
      PROVE  [d \in Calls |-> Told(d, code)]' =
               [[d \in Calls |-> Told(d, code)] EXCEPT
                  ![c] = @ \cup Named(list(from, to), code)]
  <2>1. sent'[c] = sent[c] \cup list(from, to) /\ \A d \in Calls \ {c} : sent'[d] = sent[d]
    BY DEF IndInv, TypeOK
  <2>2. Told(c, code)' = Told(c, code) \cup Named(list(from, to), code)
    BY <2>1 DEF Told, Named
  <2>3. \A d \in Calls \ {c} : Told(d, code)' = Told(d, code)
    BY <2>1 DEF Told
  <2> QED
    BY <2>2, <2>3
<1>5. Life(c) = "live"
  BY LifeCases
<1>6. news \in SUBSET Calls /\ olds \in SUBSET Calls
  BY <1>2, <1>3
<1> HIDE DEF news, olds
<1>7. D!Tell(c, news, olds)
  BY <1>2, <1>3, <1>4, <1>5 DEF D!Tell, news, olds
<1> QED
  BY <1>6, <1>7 DEF D!Next

\* Nothing is told by a step that writes to no stream.
LEMMA SilentTells ==
  ASSUME sent' = sent
  PROVE  /\ UNCHANGED [d \in Calls |-> Told(d, "ADD")]
         /\ UNCHANGED [d \in Calls |-> Told(d, "DELETE")]
  BY DEF Told

\* Life follows pc from Registered to done, through the primed state too.
LEMMA LifeCasesPrime ==
  ASSUME NEW c \in Calls
  PROVE  /\ pc'[c] \in Registered => Life(c)' = "live"
         /\ pc'[c] = "done" /\ deleted_version'[c] >= 0 => Life(c)' = "gone"
         /\ pc'[c] \notin Registered /\ ~(pc'[c] = "done" /\ deleted_version'[c] >= 0) =>
              Life(c)' = "new"
  BY DEF Life, Registered, Streaming

\* A quiet step changes no life: a handler that gives up its wait for a name
\* is done without ever having been registered.
LEMMA QuietLife ==
  ASSUME IndInv, Quiet
  PROVE  UNCHANGED [d \in Calls |-> Life(d)]
<1> SUFFICES ASSUME NEW d \in Calls PROVE Life(d)' = Life(d)
  OBVIOUS
<1>1. /\ pc'[d] \in Registered <=> pc[d] \in Registered
      /\ pc'[d] = "unstore" <=> pc[d] = "unstore"
      /\ pc[d] = "done" => pc'[d] = "done"
      /\ deleted_version'[d] = deleted_version[d]
  BY DEF Quiet
<1>2. /\ pc[d] \notin {"unstore", "done"} => deleted_version[d] = -1
      /\ deleted_version[d] \in Int
  BY DEF IndInv, TypeOK, ControlInv, Control
<1>3. (pc'[d] = "done" /\ deleted_version[d] >= 0) <=>
        (pc[d] = "done" /\ deleted_version[d] >= 0)
  BY <1>1, <1>2
<1> QED
  BY <1>1, <1>3, LifeCases, LifeCasesPrime

\* Taking a version changes no life.
LEMMA ClaimLife ==
  ASSUME IndInv, NEW c \in Calls, ClaimVersion(c) \/ ClaimDeletion(c)
  PROVE  UNCHANGED [d \in Calls |-> Life(d)]
<1> SUFFICES ASSUME NEW d \in Calls PROVE Life(d)' = Life(d)
  OBVIOUS
<1>1. CASE ClaimVersion(c)
  <2>1. /\ deleted_version'[d] = deleted_version[d]
        /\ d # c => pc'[d] = pc[d]
        /\ d = c => pc[d] = "claim" /\ pc'[d] = "store"
    BY <1>1 DEF IndInv, TypeOK, ClaimVersion, Goto
  <2> QED
    BY <2>1, LifeCases, LifeCasesPrime DEF Registered, Streaming
<1>2. CASE ClaimDeletion(c)
  <2>1. /\ d # c => pc'[d] = pc[d] /\ deleted_version'[d] = deleted_version[d]
        /\ d = c => pc[d] = "unclaim" /\ pc'[d] = "unstore"
    BY <1>2 DEF IndInv, TypeOK, ClaimDeletion, Goto
  <2> QED
    BY <2>1, LifeCases, LifeCasesPrime DEF Registered, Streaming
<1> QED
  BY <1>1, <1>2

\* The store of an ADD is Join.
LEMMA RegistrationJoins ==
  ASSUME IndInv, NEW c \in Calls, registration(c)
  PROVE  D!Next
<1>1. /\ sent' = sent /\ pc[c] = "store" /\ pc'[c] = "snapshot"
      /\ deleted_version' = deleted_version
      /\ \A d \in Calls \ {c} : pc'[d] = pc[d]
  BY DEF IndInv, TypeOK, registration, Goto, localVars
<1>2. Life(c) = "new" /\ Life(c)' = "live"
  BY <1>1, LifeCases, LifeCasesPrime DEF Registered, Streaming
<1>3. \A d \in Calls \ {c} : Life(d)' = Life(d)
  BY <1>1, LifeCases, LifeCasesPrime
<1>4. [d \in Calls |-> Life(d)]' = [[d \in Calls |-> Life(d)] EXCEPT ![c] = "live"]
  BY <1>2, <1>3
<1>5. D!Join(c)
  BY <1>1, <1>2, <1>4, SilentTells DEF D!Join
<1> QED
  BY <1>5 DEF D!Next

\* The store of a DELETE is Leave.
LEMMA DeregistrationLeaves ==
  ASSUME IndInv, NEW c \in Calls, deregistration(c)
  PROVE  D!Next
<1>1. /\ sent' = sent /\ pc[c] = "unstore" /\ pc'[c] = "done"
      /\ deleted_version' = deleted_version
      /\ \A d \in Calls \ {c} : /\ pc'[d] \in Registered <=> pc[d] \in Registered
                                /\ pc'[d] = "done" <=> pc[d] = "done"
  BY DEF IndInv, TypeOK, deregistration, GotoAndNotify, localVars, Registered, Streaming
<1>2. deleted_version[c] >= 0
  BY <1>1 DEF IndInv, TypeOK, ControlInv, Control, Registered
<1>3. Life(c) = "live" /\ Life(c)' = "gone"
  BY <1>1, <1>2, LifeCases, LifeCasesPrime DEF Registered
<1>4. \A d \in Calls \ {c} : Life(d)' = Life(d)
  BY <1>1, LifeCases, LifeCasesPrime
<1>5. [d \in Calls |-> Life(d)]' = [[d \in Calls |-> Life(d)] EXCEPT ![c] = "gone"]
  BY <1>3, <1>4
<1>6. D!Leave(c)
  BY <1>1, <1>3, <1>5, SilentTells DEF D!Leave
<1> QED
  BY <1>6 DEF D!Next

\* The initial states of the registrar are initial states of Discovery.
LEMMA InitRefines == Init => D!Init
<1> SUFFICES ASSUME Init PROVE D!Init
  OBVIOUS
<1>1. \A c \in Calls : Life(c) = "new"
  BY LifeCases DEF Init, Registered, Streaming
<1>2. \A c \in Calls, code \in Codes : Told(c, code) = {}
  BY DEF Init, Told
<1> QED
  BY <1>1, <1>2 DEF D!Init, Codes

\* Every step of the registrar is a step of Discovery or a stutter.
LEMMA StepRefines == IndInv /\ [Next]_vars => [D!Next]_(D!vars)
<1> SUFFICES ASSUME IndInv, [Next]_vars PROVE D!Next \/ UNCHANGED D!vars
  OBVIOUS
<1>a. TypeOK /\ ControlInv /\ StreamInv
  BY DEF IndInv
<1>1. ASSUME sent' = sent, UNCHANGED [d \in Calls |-> Life(d)]
      PROVE  UNCHANGED D!vars
  BY <1>1, SilentTells DEF D!vars
<1>2. ASSUME NEW c \in Calls, WriteSnapshot(c), Quiet
      PROVE  D!Next
  <2> DEFINE r == regist_version[c]
  <2>1. /\ r \in Nat /\ r - 1 \in Int /\ r \notin 0..(r - 1)
        /\ pc[c] \in Registered /\ sent[c] = {}
    BY <1>a, <1>2 DEF TypeOK, ControlInv, Control, StreamInv, WriteSnapshot, Registered
  <2>2. sent' = [sent EXCEPT ![c] = sent[c] \cup list(0, r - 1)]
    BY <1>2, <2>1 DEF WriteSnapshot
  <2>3. \A k \in sent[c] : k.v < 0
    BY <2>1
  <2> QED
    BY <1>2, <2>1, <2>2, <2>3, QuietLife, ReplyTells
<1>3. ASSUME NEW c \in Calls, WriteDelta(c), Quiet
      PROVE  D!Next
  <2> DEFINE k == kept_version[c]
             t == cversion[c]
  <2>1. /\ k \in Int /\ k + 1 \in Nat /\ t \in Int
        /\ regist_version[c] \in Int /\ regist_version[c] <= k /\ pc[c] \in Registered
    BY <1>a, <1>3 DEF TypeOK, ControlInv, Control, WriteDelta, Registered, Streaming
  <2>2. sent' = [sent EXCEPT ![c] = sent[c] \cup list(k + 1, t)]
    BY <1>3 DEF WriteDelta
  <2>3. regist_version[c] \notin (k + 1)..t
    BY <2>1
  <2>4. \A m \in sent[c] : m.v < k + 1
    <3>1. \A m \in sent[c] : m.v \in Nat /\ m.v <= k
      BY <1>a DEF TypeOK, Command, StreamInv, CommandsFaithful
    <3> QED
      BY <2>1, <3>1
  <2> QED
    BY <1>3, <2>1, <2>2, <2>3, <2>4, QuietLife, ReplyTells
<1>4. \/ sent' = sent
      \/ \E c \in Calls : WriteSnapshot(c) \/ WriteDelta(c)
  BY DEF Next, Handler, Lockless, Locking, CallRegist, Disconnect, find_exist_node,
         NameFree, NameTaken, NameSleep, ClaimVersion, registration, LoopCancelled,
         LoopWait, WakeBehind, WakeCurrent, WriteFails, ReadPastEnd, ClaimDeletion,
         deregistration, Healthy_Check, vars
<1>5. ASSUME NEW c \in Calls, ClaimVersion(c) \/ ClaimDeletion(c)
      PROVE  UNCHANGED D!vars
  <2>1. sent' = sent
    BY <1>5 DEF ClaimVersion, ClaimDeletion
  <2> QED
    BY <1>1, <1>5, <2>1, ClaimLife
<1>6. CASE Quiet
  BY <1>1, <1>2, <1>3, <1>4, <1>6, QuietLife
<1> QED
  BY <1>a, <1>5, <1>6, QuietOrWrite, RegistrationJoins, DeregistrationLeaves

\* The registrar implements Discovery: however versions are taken, stored
\* and listed, a node is told once of a join or a departure, and only while
\* what it is told is true.
THEOREM ImplementsAbstract == Spec => ImplementsDiscovery
<1>1. Spec => [][D!Next]_(D!vars)
  BY Invariance, StepRefines, PTL DEF Spec
<1> QED
  BY <1>1, InitRefines, PTL DEF Spec, ImplementsDiscovery, D!Spec
=============================================================================
