---------------------------- MODULE ParamServer ----------------------------
(***************************************************************************)
(* One parameter of a node's ParamRPCServerImpl (cpp/include/ParamRPC.hpp, *)
(* cpp/src/ParamRPC.cpp): the threads that declare and set it, the remote  *)
(* setters, and the two kinds of watcher, which differ in the order in     *)
(* which they read the value and its version.                              *)
(*                                                                         *)
(* Each writer is one call, made by a thread of its own.  A call is split  *)
(* at every acquisition of params_mtx and is_const_params_mtx.  declare    *)
(* inserts into is_const_params with params_mtx held, so is_const() cannot *)
(* tell the two halves of it apart.  The mutex mtx of the condition        *)
(* variable is taken by watchers only, which share no other state they     *)
(* write; it is left out, and what it fails to do, namely to keep a        *)
(* notify_all out of the moment between the test of the predicate and the  *)
(* wait, is the control point "sleep".                                     *)
(***************************************************************************)
EXTENDS Integers, FiniteSets

CONSTANTS
  Declarers,       \* calls of declare
  Setters,         \* calls of set by threads of the node
  RemoteSetters,   \* calls of setRemoteParam by other nodes
  LocalWatchers,   \* threads started by get with a callback
  RemoteWatchers,  \* handlers of getRemoteParam
  Values,          \* parameter values
  ValueOf,         \* the value each writer stores
  ConstArgs,       \* the values of declare's argument is_const
  NoValue,         \* the parameter is not in params
  NotAvailable     \* a reply with status TMEP_NOT_AVALIABLE

Writers == Declarers \cup Setters \cup RemoteSetters
Watchers == LocalWatchers \cup RemoteWatchers

ASSUME ValueOfType == ValueOf \in [Writers -> Values]
ASSUME ThreadsDistinct ==
  /\ Declarers \cap Setters = {} /\ Declarers \cap RemoteSetters = {}
  /\ Setters \cap RemoteSetters = {} /\ Writers \cap Watchers = {}
  /\ LocalWatchers \cap RemoteWatchers = {}
ASSUME ConstArgsType == ConstArgs \subseteq BOOLEAN
ASSUME NoValueFresh == NoValue \notin Values /\ NotAvailable \notin Values

VARIABLES
  params,           \* params[name], or NoValue
  params_version,   \* params_version[name], 0 before the first declare
  is_const_params,  \* whether name is in is_const_params
  pc,               \* control point of each thread
  seen,             \* the local version of each watcher
  held,             \* the local value of each local watcher
  told,             \* argument of the last callback, or the last reply
  cancelled,        \* context->IsCancelled() of each remote watcher
  status            \* the reply of each remote setter

serverVars == <<params, params_version, is_const_params>>
watcherVars == <<seen, held, told, cancelled>>
vars == <<params, params_version, is_const_params, pc, seen, held, told,
          cancelled, status>>

Statuses == {"none", "NORMAL", "TMEP_NOT_AVALIABLE", "NOT_CHANGEABLE"}
WriterPCs == {"idle", "find", "const", "store", "done"}
WatcherPCs == {"top", "get", "load", "test", "sleep", "blocked", "done"}
\* Control points inside cv.wait.
Waiting == {"test", "sleep", "blocked"}
---------------------------------------------------------------------------
Init ==
  /\ params = NoValue
  /\ params_version = 0
  /\ is_const_params = FALSE
  /\ pc = [t \in Writers \cup Watchers |-> IF t \in Writers THEN "idle" ELSE "top"]
  /\ seen = [w \in Watchers |-> 0]
  /\ held = [w \in LocalWatchers |-> NoValue]
  /\ told = [w \in Watchers |-> NoValue]
  /\ cancelled = [w \in RemoteWatchers |-> FALSE]
  /\ status = [r \in RemoteSetters |-> "none"]

find_param == params # NoValue
is_const == is_const_params

Goto(t, label) == pc' = [pc EXCEPT ![t] = label]
Return(r, answer) == /\ status' = [status EXCEPT ![r] = answer]
                     /\ Goto(r, "done")

\* pc after t moves to label and cv.notify_all wakes the blocked watchers.
GotoAndNotify(t, label) ==
  pc' = [u \in DOMAIN pc |-> CASE u = t -> label
                               [] u # t /\ pc[u] = "blocked" -> "test"
                               [] OTHER -> pc[u]]

\* Mutants of Assign: the version is not counted; nobody is notified.
AssignUncounted(t) ==
  /\ params' = ValueOf[t]
  /\ GotoAndNotify(t, "done")
  /\ UNCHANGED <<params_version, is_const_params, watcherVars>>
AssignSilently(t) ==
  /\ params' = ValueOf[t]
  /\ params_version' = params_version + 1
  /\ Goto(t, "done")
  /\ UNCHANGED <<is_const_params, watcherVars>>

\* The locked part of set and setRemoteParam: value, version, notify_all.
Assign(t) ==
  /\ params' = ValueOf[t]
  /\ params_version' = params_version + 1
  /\ GotoAndNotify(t, "done")
  /\ UNCHANGED <<is_const_params, watcherVars>>
---------------------------------------------------------------------------
(* declare: the test and, later, the store.                                *)
DeclareFind(d) ==
  /\ pc[d] = "idle"
  /\ Goto(d, IF find_param THEN "done" ELSE "store")
  /\ UNCHANGED <<serverVars, watcherVars, status>>

declare(d) ==
  /\ pc[d] = "store"
  /\ params' = ValueOf[d]
  /\ params_version' = 1
  /\ \E arg \in ConstArgs : is_const_params' = (is_const_params \/ arg)
  /\ GotoAndNotify(d, "done")
  /\ UNCHANGED <<watcherVars, status>>

(* set: declared, then not constant, then the store.                       *)
SetFind(s) ==
  /\ pc[s] = "idle"
  /\ Goto(s, IF find_param THEN "const" ELSE "done")
  /\ UNCHANGED <<serverVars, watcherVars, status>>

\* Mutant: the test of is_const is missing.
SetConstUnchecked(s) ==
  /\ pc[s] = "const"
  /\ Goto(s, "store")
  /\ UNCHANGED <<serverVars, watcherVars, status>>

SetConst(s) ==
  /\ pc[s] = "const"
  /\ Goto(s, IF is_const THEN "done" ELSE "store")
  /\ UNCHANGED <<serverVars, watcherVars, status>>

set(s) ==
  /\ pc[s] = "store"
  /\ Assign(s)
  /\ UNCHANGED status

(* setRemoteParam: not constant, then declared, then the store.            *)
RemoteConst(r) ==
  /\ pc[r] = "idle"
  /\ IF is_const THEN Return(r, "NOT_CHANGEABLE")
                 ELSE Goto(r, "find") /\ UNCHANGED status
  /\ UNCHANGED <<serverVars, watcherVars>>

RemoteFind(r) ==
  /\ pc[r] = "find"
  /\ IF find_param THEN Goto(r, "store") /\ UNCHANGED status
                   ELSE Return(r, "TMEP_NOT_AVALIABLE")
  /\ UNCHANGED <<serverVars, watcherVars>>

setRemoteParam(r) ==
  /\ pc[r] = "store"
  /\ Assign(r)
  /\ status' = [status EXCEPT ![r] = "NORMAL"]
---------------------------------------------------------------------------
(* The thread of get(name, val, cb): value first, version after it.        *)
get(w) ==
  /\ pc[w] = "top"
  /\ IF find_param
       THEN /\ held' = [held EXCEPT ![w] = params]
            /\ Goto(w, "load")
       ELSE /\ Goto(w, "test")
            /\ UNCHANGED held
  /\ UNCHANGED <<serverVars, seen, told, cancelled, status>>

\* version = params_version[name].load(); cb(param).
CallBack(w) ==
  /\ pc[w] = "load"
  /\ seen' = [seen EXCEPT ![w] = params_version]
  /\ told' = [told EXCEPT ![w] = held[w]]
  /\ Goto(w, "test")
  /\ UNCHANGED <<serverVars, held, cancelled, status>>

(* The handler getRemoteParam: version first, value after it.              *)
StreamEnds(w) ==
  /\ pc[w] = "top"
  /\ cancelled[w]
  /\ Goto(w, "done")
  /\ UNCHANGED <<serverVars, watcherVars, status>>

LoadVersion(w) ==
  /\ pc[w] = "top"
  /\ ~cancelled[w] /\ find_param
  /\ seen' = [seen EXCEPT ![w] = params_version]
  /\ Goto(w, "get")
  /\ UNCHANGED <<serverVars, held, told, cancelled, status>>

WriteValue(w) ==
  /\ pc[w] = "get"
  /\ told' = [told EXCEPT ![w] = params]
  /\ Goto(w, "test")
  /\ UNCHANGED <<serverVars, seen, held, cancelled, status>>

WriteNotAvailable(w) ==
  /\ pc[w] = "top"
  /\ ~cancelled[w] /\ ~find_param
  /\ told' = [told EXCEPT ![w] = NotAvailable]
  /\ Goto(w, "test")
  /\ UNCHANGED <<serverVars, seen, held, cancelled, status>>

\* The remote node goes away or its client is destroyed.
Cancel(w) ==
  /\ pc[w] # "done"
  /\ ~cancelled[w]
  /\ cancelled' = [cancelled EXCEPT ![w] = TRUE]
  /\ UNCHANGED <<serverVars, pc, seen, held, told, status>>

(* cv.wait(lock, pred), the same in both; pred does not test IsCancelled.  *)
Test(w) ==
  /\ pc[w] = "test"
  /\ Goto(w, IF find_param /\ seen[w] # params_version THEN "top" ELSE "sleep")
  /\ UNCHANGED <<serverVars, watcherVars, status>>

Sleep(w) ==
  /\ pc[w] = "sleep"
  /\ Goto(w, "blocked")
  /\ UNCHANGED <<serverVars, watcherVars, status>>
---------------------------------------------------------------------------
WriterStep(t) ==
  \/ t \in Declarers /\ (DeclareFind(t) \/ declare(t))
  \/ t \in Setters /\ (SetFind(t) \/ SetConst(t) \/ set(t))
  \/ t \in RemoteSetters /\ (RemoteConst(t) \/ RemoteFind(t) \/ setRemoteParam(t))

WatcherStep(w) ==
  \/ w \in LocalWatchers /\ (get(w) \/ CallBack(w))
  \/ w \in RemoteWatchers /\ (StreamEnds(w) \/ LoadVersion(w) \/ WriteValue(w)
                                \/ WriteNotAvailable(w))
  \/ Test(w) \/ Sleep(w)

Next == \/ \E t \in Writers : WriterStep(t)
        \/ \E w \in Watchers : WatcherStep(w)
        \/ \E w \in RemoteWatchers : Cancel(w)

Spec == Init /\ [][Next]_vars

\* Threads that can run do run; nobody is obliged to call or to cancel.
FairSpec == /\ Spec
            /\ \A t \in Writers : WF_vars(pc[t] # "idle" /\ WriterStep(t))
            /\ \A w \in Watchers : WF_vars(WatcherStep(w))
---------------------------------------------------------------------------
(* Properties.                                                             *)

\* Every variable keeps its type, and the version is 0 exactly while the
\* parameter is undeclared.
TypeOK ==
  /\ params \in Values \cup {NoValue}
  /\ params_version \in Nat
  /\ params_version = 0 <=> params = NoValue
  /\ is_const_params \in BOOLEAN
  /\ pc \in [Writers \cup Watchers -> WriterPCs \cup WatcherPCs]
  /\ seen \in [Watchers -> Nat]
  /\ held \in [LocalWatchers -> Values \cup {NoValue}]
  /\ told \in [Watchers -> Values \cup {NoValue, NotAvailable}]
  /\ cancelled \in [RemoteWatchers -> BOOLEAN]
  /\ status \in [RemoteSetters -> Statuses]

(***************************************************************************)
(* A remote watcher that takes itself to be up to date is: it reads the    *)
(* version before the value, so a store between the two makes it read      *)
(* again, and the last reply it wrote carries the current value.           *)
(***************************************************************************)
StreamCurrent ==
  /\ TypeOK
  /\ \A w \in RemoteWatchers :
       (pc[w] \in Waiting /\ find_param /\ seen[w] = params_version) => told[w] = params

(***************************************************************************)
(* set never changes a constant, although it tests is_const long before it *)
(* stores: it asks find_param first, and declare marks the constant with   *)
(* params_mtx held.  Only a remote setter can have changed it.             *)
(***************************************************************************)
SetRespectsConst ==
  [][(is_const_params /\ params' # params) =>
       \E r \in RemoteSetters : pc[r] = "store" /\ pc'[r] = "done"]_vars

(***************************************************************************)
(* A watcher that is blocked when a value is stored delivers a value at    *)
(* least as new, whatever wake-ups it missed before it blocked.            *)
(***************************************************************************)
BlockedWatcherServed ==
  \A w \in Watchers : \A v \in 0..Cardinality(Writers) :
    (pc[w] = "blocked" /\ params_version = v)
      ~> (seen[w] > v \/ pc[w] = "done" \/ [](params_version = v))

=============================================================================
