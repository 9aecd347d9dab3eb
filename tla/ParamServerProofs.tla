------------------------- MODULE ParamServerProofs -------------------------
(***************************************************************************)
(* Proofs about ParamServer, for any number of threads, watchers and       *)
(* values.  declare tests and stores under two acquisitions of params_mtx, *)
(* and sets the version back to 1: two calls that pass the test together   *)
(* would store twice under one version.  The theorems are for behaviours   *)
(* in which that does not happen (DeclaresApart); declare, set,            *)
(* setRemoteParam and the watchers race freely in them otherwise.          *)
(***************************************************************************)
EXTENDS ParamServer, TLAPS

\* No two calls of declare are between their test and their store.
DeclaresApart ==
  \A d, e \in Declarers : (pc[d] = "store" /\ pc[e] = "store") => d = e

(***************************************************************************)
(* What the tests of the writers are still worth when they store: nothing  *)
(* has been declared since the test of declare; what set and               *)
(* setRemoteParam have found stays declared, and what set has found        *)
(* changeable stays so.                                                    *)
(***************************************************************************)
WriterInv ==
  /\ \A d \in Declarers : pc[d] = "store" => ~find_param
  /\ \A s \in Setters : /\ pc[s] \in {"const", "store"} => find_param
                        /\ pc[s] = "store" => ~is_const
  /\ \A r \in RemoteSetters : pc[r] = "store" => find_param
  /\ is_const => find_param

\* No watcher has seen a version that is still to come.
SeenInv == \A w \in RemoteWatchers : seen[w] <= params_version

IndInv == StreamCurrent /\ WriterInv /\ SeenInv

\* What the kinds of threads have to do with each other, and their values.
LEMMA Threads ==
  /\ \A t \in Writers : t \notin Watchers /\ ValueOf[t] \in Values /\ ValueOf[t] # NoValue
  /\ \A d \in Declarers : d \in Writers /\ d \notin Setters /\ d \notin RemoteSetters
  /\ \A s \in Setters : s \in Writers /\ s \notin Declarers /\ s \notin RemoteSetters
  /\ \A r \in RemoteSetters : r \in Writers /\ r \notin Declarers /\ r \notin Setters
  /\ \A w \in LocalWatchers : w \in Watchers /\ w \notin Writers /\ w \notin RemoteWatchers
  /\ \A w \in RemoteWatchers : w \in Watchers /\ w \notin Writers /\ w \notin LocalWatchers
  BY ThreadsDistinct, ValueOfType, NoValueFresh DEF Writers, Watchers

\* Before anything is declared.
LEMMA InitInd == Init => IndInv
<1> SUFFICES ASSUME Init PROVE IndInv
  OBVIOUS
<1>1. TypeOK
  BY DEF Init, TypeOK, WriterPCs, WatcherPCs, Statuses
<1>2. WriterInv /\ SeenInv
  BY Threads DEF Init, WriterInv, SeenInv, find_param, is_const
<1> QED
  BY <1>1, <1>2 DEF Init, IndInv, StreamCurrent, find_param
---------------------------------------------------------------------------
(* Steps that store nothing: a writer that tests, a watcher, a cancel.     *)

Quiet == UNCHANGED serverVars

\* The steps of WriterStep that store.
Stores(t) == \/ t \in Declarers /\ declare(t)
             \/ t \in Setters /\ set(t)
             \/ t \in RemoteSetters /\ setRemoteParam(t)

\* The others.
Tests(t) == \/ t \in Declarers /\ DeclareFind(t)
            \/ t \in Setters /\ (SetFind(t) \/ SetConst(t))
            \/ t \in RemoteSetters /\ (RemoteConst(t) \/ RemoteFind(t))

\* A test of a writer moves that writer only, to where its test allows.
LEMMA TestsInd ==
  ASSUME IndInv, NEW t \in Writers, Tests(t)
  PROVE  IndInv'
<1> USE Threads DEF IndInv, StreamCurrent
<1>1. Quiet /\ UNCHANGED watcherVars
  BY DEF Tests, DeclareFind, SetFind, SetConst, RemoteConst, RemoteFind, Quiet
<1>2. \E l \in WriterPCs : pc' = [pc EXCEPT ![t] = l]
  BY DEF Tests, DeclareFind, SetFind, SetConst, RemoteConst, RemoteFind, Goto, Return,
         WriterPCs
<1>3. status' \in [RemoteSetters -> Statuses]
  BY DEF Tests, DeclareFind, SetFind, SetConst, RemoteConst, RemoteFind, Goto, Return,
         TypeOK, Statuses
<1>4. TypeOK'
  BY <1>1, <1>2, <1>3 DEF TypeOK, Quiet, serverVars, watcherVars
<1>5. WriterInv'
  BY <1>1 DEF Tests, DeclareFind, SetFind, SetConst, RemoteConst, RemoteFind, Goto, Return,
         TypeOK, WriterInv, find_param, is_const, Quiet, serverVars
<1>6. \A w \in RemoteWatchers : pc'[w] = pc[w]
  BY <1>2 DEF TypeOK
<1> QED
  BY <1>1, <1>4, <1>5, <1>6 DEF SeenInv, find_param, Quiet, serverVars, watcherVars

\* A store: the value is one the thread brings, and its version is new.
LEMMA StoresInd ==
  ASSUME IndInv, DeclaresApart, NEW t \in Writers, Stores(t)
  PROVE  IndInv'
<1> USE Threads DEF IndInv, StreamCurrent
<1>1. /\ pc[t] = "store" /\ params' = ValueOf[t]
      /\ params_version' > params_version /\ params_version' \in Nat
      /\ UNCHANGED watcherVars
  BY DEF Stores, declare, set, setRemoteParam, Assign, TypeOK, WriterInv, find_param
<1>2. GotoAndNotify(t, "done")
  BY DEF Stores, declare, set, setRemoteParam, Assign
<1>3. /\ pc' \in [Writers \cup Watchers -> WriterPCs \cup WatcherPCs]
      /\ \A u \in Writers : pc'[u] = pc[u] \/ pc'[u] = "done" \/ pc'[u] = "test"
  BY <1>2 DEF GotoAndNotify, TypeOK, WriterPCs, WatcherPCs
<1>4. /\ is_const_params' \in BOOLEAN
      /\ t \notin Declarers => UNCHANGED is_const_params
  BY ConstArgsType DEF Stores, declare, set, setRemoteParam, Assign, TypeOK
<1>5. status' \in [RemoteSetters -> Statuses]
  BY DEF Stores, declare, set, setRemoteParam, Assign, TypeOK, Statuses
<1>6. TypeOK'
  BY <1>1, <1>3, <1>4, <1>5 DEF TypeOK, watcherVars
<1>7. WriterInv'
  <2>1. find_param'
    BY <1>1 DEF find_param
  <2>2. \A d \in Declarers : pc'[d] # "store"
    <3>1. CASE t \in Declarers
      BY <1>1, <1>2, <3>1 DEF DeclaresApart, GotoAndNotify, TypeOK
    <3>2. CASE t \notin Declarers
      <4>1. find_param
        BY <1>1, <3>2 DEF WriterInv, Stores
      <4> QED
        BY <1>3, <4>1 DEF WriterInv
    <3> QED
      BY <3>1, <3>2
  <2>3. \A s \in Setters : pc'[s] = "store" => ~is_const'
    <3> SUFFICES ASSUME NEW s \in Setters, pc'[s] = "store" PROVE ~is_const'
      OBVIOUS
    <3>1. pc[s] = "store"
      BY <1>3
    <3>2. find_param /\ ~is_const
      BY <3>1 DEF WriterInv
    <3>3. t \notin Declarers
      BY <1>1, <3>2 DEF WriterInv
    <3> QED
      BY <1>4, <3>2, <3>3 DEF is_const
  <2> QED
    BY <2>1, <2>2, <2>3 DEF WriterInv
<1>8. SeenInv' /\ \A w \in RemoteWatchers : seen'[w] # params_version'
  BY <1>1 DEF SeenInv, TypeOK, watcherVars
<1> QED
  BY <1>6, <1>7, <1>8

\* A watcher that takes the version before the value has the current value
\* with a current version.
LEMMA WatchersInd ==
  ASSUME IndInv, NEW w \in Watchers, WatcherStep(w)
  PROVE  IndInv'
<1> USE Threads DEF IndInv, StreamCurrent
<1>1. Quiet /\ UNCHANGED status
  BY DEF WatcherStep, get, CallBack, StreamEnds, LoadVersion, WriteValue,
         WriteNotAvailable, Test, Sleep, Quiet
<1>2. \E l \in WatcherPCs : pc' = [pc EXCEPT ![w] = l]
  BY DEF WatcherStep, get, CallBack, StreamEnds, LoadVersion, WriteValue,
         WriteNotAvailable, Test, Sleep, Goto, WatcherPCs
<1>3. /\ seen' = seen \/ seen' = [seen EXCEPT ![w] = params_version]
      /\ held' \in [LocalWatchers -> Values \cup {NoValue}]
      /\ told' \in [Watchers -> Values \cup {NoValue, NotAvailable}]
      /\ UNCHANGED cancelled
  BY DEF WatcherStep, get, CallBack, StreamEnds, LoadVersion, WriteValue,
         WriteNotAvailable, Test, Sleep, TypeOK, watcherVars
<1>4. TypeOK'
  BY <1>1, <1>2, <1>3 DEF TypeOK, Quiet, serverVars
<1>5. WriterInv'
  BY <1>1, <1>2 DEF WriterInv, TypeOK, find_param, is_const, Quiet, serverVars
<1>6. SeenInv'
  BY <1>1, <1>3 DEF SeenInv, TypeOK, Quiet, serverVars
<1>7. ASSUME NEW v \in RemoteWatchers,
             pc'[v] \in Waiting, find_param', seen'[v] = params_version'
      PROVE  told'[v] = params'
  BY <1>1, <1>7 DEF WatcherStep, get, CallBack, StreamEnds, LoadVersion, WriteValue,
     WriteNotAvailable, Test, Sleep, Goto, TypeOK, Waiting, find_param, Quiet, serverVars,
     watcherVars
<1> QED
  BY <1>4, <1>5, <1>6, <1>7

\* A client that goes away changes nothing but its own flag.
LEMMA CancelInd ==
  ASSUME IndInv, NEW w \in RemoteWatchers, Cancel(w)
  PROVE  IndInv'
  BY DEF Cancel, IndInv, StreamCurrent, WriterInv, SeenInv, TypeOK, find_param, is_const,
         serverVars

\* The invariant is inductive as long as declarations are apart.
LEMMA StepInd == IndInv /\ DeclaresApart /\ [Next]_vars => IndInv'
<1> SUFFICES ASSUME IndInv, DeclaresApart, [Next]_vars PROVE IndInv'
  OBVIOUS
<1>1. ASSUME NEW t \in Writers, WriterStep(t) PROVE IndInv'
  BY <1>1, TestsInd, StoresInd DEF WriterStep, Tests, Stores
<1>2. CASE UNCHANGED vars
  BY <1>2 DEF vars, IndInv, StreamCurrent, WriterInv, SeenInv, TypeOK, find_param, is_const
<1> QED
  BY <1>1, <1>2, WatchersInd, CancelInd DEF Next
---------------------------------------------------------------------------
(* The theorems.                                                           *)

(***************************************************************************)
(* A stream of getRemoteParam that waits with the current version has      *)
(* written the current value, however many local and remote sets there     *)
(* are and wherever they fall, unless two declarations race.               *)
(***************************************************************************)
THEOREM StreamIsCurrent == Spec /\ []DeclaresApart => []StreamCurrent
<1>1. IndInv => StreamCurrent
  BY DEF IndInv
<1> QED
  BY <1>1, InitInd, StepInd, PTL DEF Spec

(***************************************************************************)
(* set never changes a constant, although it stores long after its tests;  *)
(* the store of setRemoteParam is the only step that can.                  *)
(***************************************************************************)
THEOREM ConstantsRespected == Spec /\ []DeclaresApart => SetRespectsConst
<1> DEFINE Respects == (is_const_params /\ params' # params) =>
                         \E r \in RemoteSetters : pc[r] = "store" /\ pc'[r] = "done"
<1>1. IndInv /\ DeclaresApart /\ [Next]_vars => [Respects]_vars
  <2> SUFFICES ASSUME IndInv, Next, is_const_params, params' # params
               PROVE  \E r \in RemoteSetters : pc[r] = "store" /\ pc'[r] = "done"
    BY DEF vars
  <2>1. PICK t \in Writers : Stores(t)
    BY DEF Next, WriterStep, WatcherStep, Stores, DeclareFind, SetFind, SetConst,
       RemoteConst, RemoteFind, get, CallBack, StreamEnds, LoadVersion, WriteValue,
       WriteNotAvailable, Test, Sleep, Cancel, serverVars
  <2>2. t \notin Declarers
    BY <2>1 DEF Stores, declare, set, setRemoteParam, IndInv, WriterInv, is_const
  <2>3. t \notin Setters
    BY <2>1 DEF Stores, declare, set, setRemoteParam, IndInv, WriterInv, is_const
  <2>4. t \in RemoteSetters /\ pc[t] = "store" /\ GotoAndNotify(t, "done")
    BY <2>1, <2>2, <2>3 DEF Stores, setRemoteParam, Assign
  <2> QED
    BY <2>4, Threads DEF GotoAndNotify, IndInv, StreamCurrent, TypeOK
<1> QED
  BY <1>1, InitInd, StepInd, PTL DEF Spec, SetRespectsConst
=============================================================================
