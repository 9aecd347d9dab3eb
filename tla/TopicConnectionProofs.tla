----------------------- MODULE TopicConnectionProofs -----------------------
(***************************************************************************)
(* Proofs about the connection club, for any number of peers, names,       *)
(* restarts and subscriptions.                                             *)
(*                                                                         *)
(* The club lags behind the registrar by the commands that are still to be *)
(* handled.  What it will hold in the end is decided, for each name, by    *)
(* the last command about that name, or by the club if there is none.  The *)
(* registrar may change that only by commands it sends, unless it confuses *)
(* the name; so what list drops must decide nothing: before anything else  *)
(* about the name of a peer, in the club or in an ADD, comes its DELETE.   *)
(***************************************************************************)
EXTENDS TopicConnection, TLAPS

About(i, n) == i \in 1..Len(commands) /\ NameOf[commands[i].peer] = n /\ ~Skipped(commands[i])
Adds(i, p) == i \in 1..Len(commands) /\ commands[i].code = "ADD" /\ commands[i].peer = p
Deletes(i, p) == /\ i \in 1..Len(commands) /\ commands[i].code = "DELETE"
                 /\ commands[i].peer = p /\ p \notin skip_version
Pending(p) == \E i \in Int : Adds(i, p)

\* p is what the club holds under its name when all commands are handled.
Decided(p) ==
  \/ \E i \in Int : Adds(i, p) /\ \A j \in Int : i < j => ~About(j, NameOf[p])
  \/ clients[NameOf[p]] = p /\ \A j \in Int : ~About(j, NameOf[p])

\* Under the name n the peer that is registered is the one that is decided,
\* and every other client and every other ADD is followed by its DELETE.
Follows(n) == \A p \in Peers : NameOf[p] = n => (registered[p] = "live" <=> Decided(p))
Alone(n) == \A p, q \in Peers :
  (registered[p] = "live" /\ registered[q] = "live" /\ NameOf[p] = n /\ NameOf[q] = n) => p = q
AddsEnd(n) == \A p \in Peers : \A i, j \in Int :
  (NameOf[p] = n /\ Adds(i, p) /\ About(j, n) /\ i < j) => \E k \in Int : i < k /\ k <= j /\ Deletes(k, p)
ClientEnds(n) == \A j \in Int :
  (clients[n] # NoPeer /\ About(j, n)) => \E k \in Int : k <= j /\ Deletes(k, clients[n])
NameInv(n) == Follows(n) /\ Alone(n) /\ AddsEnd(n) /\ ClientEnds(n)

RegistrarInv ==
  /\ \A n \in Names \ confused : NameInv(n)
  /\ \A n \in Names : clients[n] # NoPeer => NameOf[clients[n]] = n

\* Nobody has been asked for anything by p's client.
Unasked(p) == \A r \in Requests : worker[<<p, r>>] = "none"
Unknown(p) == Unasked(p) /\ \A n \in Names : clients[n] # p

(***************************************************************************)
(* A peer is added once: before its ADD is handled it has no client and no *)
(* workers, and the workers of a client the register thread is adding are  *)
(* started at the end of add_client, for all requests there are then.      *)
(***************************************************************************)
FreshInv ==
  /\ \A p \in Peers : process[p] = "new" => registered[p] = "none"
  /\ \A p \in skip_version : registered[p] = "gone"
  /\ \A p \in Peers : registered[p] \in {"none", "claim"} => Unknown(p) /\ ~Pending(p)
  /\ \A p \in Peers : Pending(p) => Unknown(p)
  /\ \A p \in Peers : \A i, j \in Int : (Adds(i, p) /\ Adds(j, p)) => i = j
  /\ register.pc = "ADD" => /\ register.peer \in Peers
                            /\ clients[NameOf[register.peer]] = register.peer
                            /\ Unasked(register.peer)

\* Clients other than the one that is being added have been asked for all.
AskedInv ==
  \A n \in Names :
    (clients[n] # NoPeer /\ ~(register.pc = "ADD" /\ register.peer = clients[n])) =>
      \A r \in Requests : r <= topic_requests <=> worker[<<clients[n], r>>] # "none"

IndInv == TypeOK /\ RegistrarInv /\ FreshInv /\ AskedInv

\* A pair of a peer and a request is a call.
LEMMA PairIsCall ==
  /\ \A p \in Peers, r \in Requests : <<p, r>> \in Calls
  /\ \A c \in Calls : c[1] \in Peers /\ c[2] \in Requests /\ c = <<c[1], c[2]>>
  /\ Requests \subseteq Nat
  BY SubscribesAssumption DEF Calls, Requests

\* The first element of a sequence and the rest.
LEMMA HeadAndTail ==
  ASSUME NEW S, NEW s \in Seq(S), s # <<>>
  PROVE  /\ Head(s) \in S /\ Head(s) = s[1] /\ Tail(s) \in Seq(S)
         /\ Len(s) \in Nat \ {0} /\ Len(Tail(s)) = Len(s) - 1
         /\ \A i \in 1..Len(Tail(s)) : Tail(s)[i] = s[i + 1]
  OBVIOUS

\* The elements of a sequence.
LEMMA ElementOfSeq ==
  ASSUME NEW S, NEW s \in Seq(S) PROVE \A i \in 1..Len(s) : s[i] \in S
  OBVIOUS

\* A sequence with one more element.
LEMMA AppendType ==
  ASSUME NEW S, NEW s \in Seq(S), NEW e \in S PROVE Append(s, e) \in Seq(S)
  OBVIOUS

\* No peer is known and no command sent at first.
LEMMA InitInd == Init => IndInv
<1> SUFFICES ASSUME Init PROVE IndInv
  OBVIOUS
<1> USE DEF Init, StreamInit
<1>1. TypeOK
  BY SubscribesAssumption DEF TypeOK, StreamTypeOK, WorkerPCs, HandlerPCs, SockStates, Idle
<1>2. commands = <<>> /\ Len(commands) = 0
  OBVIOUS
<1>3. \A i \in Int : \A x : ~About(i, x) /\ ~Adds(i, x) /\ ~Deletes(i, x)
  BY <1>2 DEF About, Adds, Deletes
<1>4. RegistrarInv
  BY <1>3, PeerNames DEF RegistrarInv, NameInv, Follows, Alone, AddsEnd, ClientEnds, Decided
<1>5. FreshInv
  BY <1>3, PairIsCall, PeerNames DEF FreshInv, Unknown, Unasked, Pending, Idle
<1> QED
  BY <1>1, <1>4, <1>5 DEF IndInv, AskedInv
---------------------------------------------------------------------------
(* What a step of the stream does to the invariant of a name.              *)

\* A name of which no command comes or goes, and d commands of others go.
LEMMA KeptName ==
  ASSUME NEW n \in Names, NEW d \in Int, NameInv(n), clients'[n] = clients[n],
         \A p \in Peers : NameOf[p] = n => (registered'[p] = "live" <=> registered[p] = "live"),
         clients[n] # NoPeer => clients[n] \in Peers /\ NameOf[clients[n]] = n,
         \A i \in Int : About(i, n)' <=> About(i + d, n),
         \A p \in Peers, i \in Int : NameOf[p] = n => (Adds(i, p)' <=> Adds(i + d, p)),
         \A p \in Peers, i \in Int : NameOf[p] = n => (Deletes(i, p)' <=> Deletes(i + d, p))
  PROVE  NameInv(n)'
<1>1. ASSUME NEW p \in Peers, NameOf[p] = n PROVE Decided(p)' <=> Decided(p)
  <2>1. (\A j \in Int : ~About(j, n)') <=> (\A j \in Int : ~About(j, n))
    <3>1. \A j \in Int : j - d \in Int /\ (j - d) + d = j /\ j + d \in Int
      OBVIOUS
    <3> QED
      BY <3>1
  <2>2. ASSUME NEW i \in Int
        PROVE  (\A j \in Int : i < j => ~About(j, n)')
                 <=> (\A j \in Int : i + d < j => ~About(j, n))
    <3>1. \A j \in Int : /\ j - d \in Int /\ (j - d) + d = j /\ j + d \in Int
                         /\ (i + d < j <=> i < j - d) /\ (i < j <=> i + d < j + d)
      OBVIOUS
    <3> QED
      BY <3>1
  <2>3. \A i \in Int : i - d \in Int /\ (i - d) + d = i /\ i + d \in Int
    OBVIOUS
  <2> DEFINE Last(i) == Adds(i, p) /\ \A j \in Int : i < j => ~About(j, n)
             LastNext(i) == Adds(i, p)' /\ \A j \in Int : i < j => ~About(j, n)'
  <2>4. ASSUME NEW i \in Int PROVE LastNext(i) <=> Last(i + d)
    <3>1. Adds(i, p)' <=> Adds(i + d, p)
      BY <1>1
    <3> QED
      BY <2>2, <3>1
  <2>5. (\E i \in Int : LastNext(i)) <=> (\E i \in Int : Last(i))
    <3> HIDE DEF Last, LastNext
    <3> QED
      BY <2>3, <2>4
  <2>6. Decided(p) <=> (\E i \in Int : Last(i)) \/ (clients[n] = p /\ \A j \in Int : ~About(j, n))
    BY <1>1 DEF Decided
  <2>7. Decided(p)' <=> \/ \E i \in Int : LastNext(i)
                        \/ clients'[n] = p /\ \A j \in Int : ~About(j, n)'
    BY <1>1 DEF Decided
  <2> QED
    BY <2>1, <2>5, <2>6, <2>7
<1>2. Follows(n)' /\ Alone(n)'
  BY <1>1 DEF NameInv, Follows, Alone
<1>3. AddsEnd(n)'
  <2> SUFFICES ASSUME NEW p \in Peers, NEW i \in Int, NEW j \in Int,
                      NameOf[p] = n, Adds(i, p)', About(j, n)', i < j
               PROVE  \E k \in Int : i < k /\ k <= j /\ Deletes(k, p)'
    BY DEF AddsEnd
  <2>1. /\ i + d \in Int /\ j + d \in Int /\ i + d < j + d
        /\ Adds(i + d, p) /\ About(j + d, n)
    OBVIOUS
  <2>2. PICK k \in Int : i + d < k /\ k <= j + d /\ Deletes(k, p)
    BY <2>1 DEF NameInv, AddsEnd
  <2>3. k - d \in Int /\ (k - d) + d = k /\ i < k - d /\ k - d <= j
    BY <2>2
  <2> QED
    BY <2>2, <2>3
<1>4. ClientEnds(n)'
  <2> SUFFICES ASSUME NEW j \in Int, clients[n] # NoPeer, About(j, n)'
               PROVE  \E k \in Int : k <= j /\ Deletes(k, clients[n])'
    BY DEF ClientEnds
  <2>1. j + d \in Int /\ About(j + d, n)
    OBVIOUS
  <2>2. PICK k \in Int : k <= j + d /\ Deletes(k, clients[n])
    BY <2>1 DEF NameInv, ClientEnds
  <2>3. k - d \in Int /\ (k - d) + d = k /\ k - d <= j
    BY <2>2
  <2>4. Deletes(k - d, clients[n])'
    BY <2>2, <2>3
  <2> QED
    BY <2>3, <2>4
<1> QED
  BY <1>2, <1>3, <1>4 DEF NameInv

\* Commands after one more was sent.
LEMMA AppendShape ==
  ASSUME TypeOK, NEW code \in Codes, NEW q \in Peers, UNCHANGED skip_version,
         q \notin skip_version, commands' = Append(commands, [code |-> code, peer |-> q])
  PROVE  /\ commands' \in Seq([code : Codes, peer : Peers])
         /\ Len(commands') = Len(commands) + 1 /\ Len(commands) \in Nat
         /\ \A p \in Peers, i \in Int : Adds(i, p)' <=>
              (Adds(i, p) \/ (i = Len(commands) + 1 /\ code = "ADD" /\ p = q))
         /\ \A p \in Peers, i \in Int : Deletes(i, p)' <=>
              (Deletes(i, p) \/ (i = Len(commands) + 1 /\ code = "DELETE" /\ p = q))
         /\ \A n \in Names, i \in Int : About(i, n)' <=>
              (About(i, n) \/ (i = Len(commands) + 1 /\ NameOf[q] = n))
         /\ \A n \in Names, i \in Int : About(i, n) => i <= Len(commands)
<1>1. /\ commands' \in Seq([code : Codes, peer : Peers])
      /\ Len(commands') = Len(commands) + 1 /\ Len(commands) \in Nat
      /\ \A i \in 1..Len(commands) : commands'[i] = commands[i]
      /\ commands'[Len(commands) + 1].code = code /\ commands'[Len(commands) + 1].peer = q
  BY DEF TypeOK, StreamTypeOK, Codes
<1> QED
  BY <1>1 DEF Adds, Deletes, About, Skipped, Codes

\* The name of q when a command of q is sent: who was not decided before is
\* followed by a DELETE already.
LEMMA AppendName ==
  ASSUME TypeOK, NEW code \in Codes, NEW q \in Peers, UNCHANGED <<skip_version, clients>>,
         q \notin skip_version, commands' = Append(commands, [code |-> code, peer |-> q]),
         NameInv(NameOf[q]),
         clients[NameOf[q]] # NoPeer => /\ clients[NameOf[q]] \in Peers
                                        /\ NameOf[clients[NameOf[q]]] = NameOf[q],
         \A p \in Peers : (p # q /\ NameOf[p] = NameOf[q]) =>
                            registered[p] # "live" /\ registered'[p] # "live",
         \/ code = "ADD" /\ registered[q] # "live" /\ registered'[q] = "live"
         \/ code = "DELETE" /\ registered'[q] # "live"
  PROVE  NameInv(NameOf[q])'
<1> DEFINE m == NameOf[q]
<1>0. PICK e \in Int : e = Len(commands) + 1
  BY DEF TypeOK, StreamTypeOK
<1>1. m \in Names
  BY PeerNames
<1>2. /\ e \in Int
      /\ \A p \in Peers, i \in Int : Adds(i, p)' <=>
              (Adds(i, p) \/ (i = e /\ code = "ADD" /\ p = q))
      /\ \A p \in Peers, i \in Int : Deletes(i, p)' <=>
              (Deletes(i, p) \/ (i = e /\ code = "DELETE" /\ p = q))
      /\ \A i \in Int : About(i, m)' <=> (About(i, m) \/ i = e)
      /\ \A i \in Int : About(i, m) => i < e
      /\ \A p \in Peers, i \in Int : Adds(i, p) => i < e
  <2>1. /\ Len(commands) \in Nat
        /\ \A p \in Peers, i \in Int : Adds(i, p)' <=>
              (Adds(i, p) \/ (i = Len(commands) + 1 /\ code = "ADD" /\ p = q))
        /\ \A p \in Peers, i \in Int : Deletes(i, p)' <=>
              (Deletes(i, p) \/ (i = Len(commands) + 1 /\ code = "DELETE" /\ p = q))
        /\ \A n \in Names, i \in Int : About(i, n)' <=>
              (About(i, n) \/ (i = Len(commands) + 1 /\ NameOf[q] = n))
        /\ \A n \in Names, i \in Int : About(i, n) => i <= Len(commands)
    BY AppendShape
  <2>2. \A i \in Int : About(i, m) => i < e
    BY <1>0, <1>1, <2>1
  <2>3. \A p \in Peers, i \in Int : Adds(i, p) => i < e
    BY <1>0, <2>1 DEF Adds
  <2> HIDE DEF m
  <2>4. \A i \in Int : About(i, m)' <=> (About(i, m) \/ (i = e /\ NameOf[q] = m))
    BY <1>0, <1>1, <2>1
  <2> QED
    BY <1>0, <2>1, <2>2, <2>3, <2>4 DEF m
<1> HIDE DEF m
<1>3. ASSUME NEW p \in Peers, NameOf[p] = m PROVE Decided(p)' <=> (code = "ADD" /\ p = q)
  <2>1. About(e, m)' /\ \A j \in Int : e < j => ~About(j, m)'
    BY <1>2
  <2>2. ~\A j \in Int : ~About(j, m)'
    BY <1>2, <2>1
  <2>3. \A i \in Int : (Adds(i, p)' /\ \A j \in Int : i < j => ~About(j, m)') => i = e
    BY <1>2, <2>1
  <2>4. Decided(p)' <=> \E i \in Int : Adds(i, p)' /\ \A j \in Int : i < j => ~About(j, m)'
    BY <1>3, <2>2 DEF Decided
  <2>5. Decided(p)' <=> Adds(e, p)'
    BY <1>2, <2>1, <2>3, <2>4
  <2>6. ~Adds(e, p)
    BY <1>2
  <2> QED
    BY <1>2, <2>5, <2>6
<1>4. Follows(m)' /\ Alone(m)'
  BY <1>3 DEF Follows, Alone, Codes, m
<1>5. \A p \in Peers : (NameOf[p] = m /\ ~(code = "DELETE" /\ p = q)) => ~Decided(p)
  BY DEF NameInv, Follows, m
<1>6. AddsEnd(m)'
  <2> SUFFICES ASSUME NEW p \in Peers, NEW i \in Int, NEW j \in Int,
                      NameOf[p] = m, Adds(i, p)', About(j, m)', i < j
               PROVE  \E k \in Int : i < k /\ k <= j /\ Deletes(k, p)'
    BY DEF AddsEnd
  <2>1. Adds(i, p) /\ j <= e /\ i < e
    BY <1>2
  <2>2. CASE About(j, m)
    BY <1>2, <2>1, <2>2 DEF NameInv, AddsEnd, m
  <2>3. CASE j = e /\ code = "DELETE" /\ p = q
    BY <1>2, <2>1, <2>3
  <2>4. CASE j = e /\ ~(code = "DELETE" /\ p = q)
    <3>1. PICK h \in Int : i < h /\ About(h, m)
      BY <1>5, <2>1, <2>4 DEF Decided
    <3>2. PICK k \in Int : i < k /\ k <= h /\ Deletes(k, p)
      BY <2>1, <3>1 DEF NameInv, AddsEnd, m
    <3>3. k <= j
      BY <1>2, <2>4, <3>1, <3>2
    <3> QED
      BY <1>2, <3>2, <3>3
  <2> QED
    BY <1>2, <2>2, <2>3, <2>4
<1>7. ClientEnds(m)'
  <2> SUFFICES ASSUME NEW j \in Int, clients[m] # NoPeer, About(j, m)'
               PROVE  \E k \in Int : k <= j /\ Deletes(k, clients[m])'
    BY DEF ClientEnds
  <2>1. clients[m] \in Peers /\ NameOf[clients[m]] = m
    BY DEF m
  <2>0. \A k \in Int : Deletes(k, clients[m]) => Deletes(k, clients[m])'
    BY <1>2, <2>1
  <2>2. CASE About(j, m)
    BY <2>0, <2>2 DEF NameInv, ClientEnds, m
  <2>3. CASE j = e /\ code = "DELETE" /\ clients[m] = q
    <3>1. Deletes(e, clients[m])'
      BY <1>2, <2>1, <2>3
    <3> QED
      BY <1>2, <2>3, <3>1
  <2>4. CASE j = e /\ ~(code = "DELETE" /\ clients[m] = q)
    <3>1. PICK h \in Int : About(h, m)
      BY <1>5, <2>1, <2>4 DEF Decided
    <3>2. PICK k \in Int : k <= h /\ Deletes(k, clients[m])
      BY <3>1 DEF NameInv, ClientEnds, m
    <3>3. k <= j
      BY <1>2, <2>4, <3>1, <3>2
    <3> QED
      BY <2>0, <3>2, <3>3
  <2> QED
    BY <1>2, <2>2, <2>3, <2>4
<1> QED
  BY <1>4, <1>6, <1>7 DEF NameInv, m

\* Commands after the first is taken off.
LEMMA TailShape ==
  ASSUME TypeOK, commands # <<>>, commands' = Tail(commands)
  PROVE  /\ Head(commands) = commands[1] /\ commands[1] \in [code : Codes, peer : Peers]
         /\ commands' \in Seq([code : Codes, peer : Peers])
         /\ Len(commands) \in Nat \ {0}
         /\ Len(commands') = Len(commands) - 1
         /\ \A i \in 1..Len(commands') : commands'[i] = commands[i + 1]
         /\ \A p \in Peers, i \in Int : Adds(i, p)' <=> (1 <= i /\ Adds(i + 1, p))
         /\ UNCHANGED skip_version =>
              /\ \A p \in Peers, i \in Int : Deletes(i, p)' <=> (1 <= i /\ Deletes(i + 1, p))
              /\ \A n \in Names, i \in Int : About(i, n)' <=> (1 <= i /\ About(i + 1, n))
<1>1. /\ Head(commands) = commands[1] /\ commands[1] \in [code : Codes, peer : Peers]
      /\ commands' \in Seq([code : Codes, peer : Peers])
      /\ Len(commands) \in Nat \ {0} /\ Len(commands') = Len(commands) - 1
      /\ \A i \in 1..Len(commands') : commands'[i] = commands[i + 1]
  <2>1. commands \in Seq([code : Codes, peer : Peers])
    BY DEF TypeOK, StreamTypeOK
  <2> QED
    BY <2>1, HeadAndTail
<1> QED
  BY <1>1 DEF Adds, Deletes, About, Skipped

\* A name that the first command is not about.
LEMMA TailOther ==
  ASSUME IndInv, commands # <<>>, commands' = Tail(commands), NEW n \in Names, NameInv(n),
         ~About(1, n), clients'[n] = clients[n], UNCHANGED registered,
         \A p \in Peers : NameOf[p] = n => (p \in skip_version' <=> p \in skip_version)
  PROVE  NameInv(n)'
<1>1. /\ commands[1] \in [code : Codes, peer : Peers]
      /\ commands' \in Seq([code : Codes, peer : Peers])
      /\ Len(commands) \in Nat \ {0} /\ Len(commands') = Len(commands) - 1
      /\ \A i \in 1..Len(commands') : commands'[i] = commands[i + 1]
      /\ \A p \in Peers, i \in Int : Adds(i, p)' <=> (1 <= i /\ Adds(i + 1, p))
  BY TailShape DEF IndInv
<1>2. \A i \in 1..Len(commands') : commands'[i] \in [code : Codes, peer : Peers]
  <2>1. commands' \in Seq([code : Codes, peer : Peers])
    BY <1>1
  <2> QED
    BY <2>1, ElementOfSeq
<1>3. \A i \in Int : About(i, n)' <=> About(i + 1, n)
  BY <1>1, <1>2 DEF About, Skipped
<1>4. \A p \in Peers, i \in Int : NameOf[p] = n => (Adds(i, p)' <=> Adds(i + 1, p))
  BY <1>1 DEF Adds, About, Skipped
<1>5. \A p \in Peers, i \in Int : NameOf[p] = n => (Deletes(i, p)' <=> Deletes(i + 1, p))
  BY <1>1 DEF Deletes, About, Skipped
<1>6. clients[n] # NoPeer => clients[n] \in Peers /\ NameOf[clients[n]] = n
  BY DEF IndInv, TypeOK, RegistrarInv
<1>7. \A p \in Peers : NameOf[p] = n => (registered'[p] = "live" <=> registered[p] = "live")
  OBVIOUS
<1>8. 1 \in Int
  OBVIOUS
<1> QED
  BY <1>3, <1>4, <1>5, <1>6, <1>7, <1>8, KeptName

\* The name of a command that is handled: the club takes the place of it.
LEMMA ReadName ==
  ASSUME IndInv, ReadCommand, NEW m \in Names, m = NameOf[commands[1].peer], NameInv(m)
  PROVE  NameInv(m)'
<1> DEFINE h == commands[1]
<1>1. /\ h = Head(commands) /\ h \in [code : Codes, peer : Peers] /\ ~Skipped(h)
      /\ Len(commands) \in Nat \ {0} /\ UNCHANGED <<registered, skip_version>>
      /\ \A p \in Peers, i \in Int : Adds(i, p)' <=> (1 <= i /\ Adds(i + 1, p))
      /\ \A p \in Peers, i \in Int : Deletes(i, p)' <=> (1 <= i /\ Deletes(i + 1, p))
      /\ \A i \in Int : About(i, m)' <=> (1 <= i /\ About(i + 1, m))
  BY TailShape DEF IndInv, ReadCommand, Receive
<1>2. clients' = [clients EXCEPT ![m] = IF h.code = "ADD" THEN h.peer ELSE NoPeer]
  BY <1>1 DEF ReadCommand
<1>3. clients'[m] = (IF h.code = "ADD" THEN h.peer ELSE NoPeer) /\ NoPeer \notin Peers
  BY <1>2, PeerNames DEF IndInv, TypeOK
<1>4. /\ About(1, m) /\ \A i \in Int : About(i, m) => 1 <= i
      /\ \A p \in Peers : Adds(1, p) <=> (h.code = "ADD" /\ h.peer = p)
      /\ \A p \in Peers, i \in Int : Adds(i, p) \/ Deletes(i, p) => 1 <= i
  BY <1>1 DEF About, Adds, Deletes
<1> HIDE DEF h
<1>5. ASSUME NEW p \in Peers, NameOf[p] = m PROVE Decided(p)' <=> Decided(p)
  <2>1. Decided(p) <=> \E i \in Int : Adds(i, p) /\ \A j \in Int : i < j => ~About(j, m)
    BY <1>4, <1>5 DEF Decided
  <2>2. (\A j \in Int : ~About(j, m)') <=> (\A j \in Int : 1 < j => ~About(j, m))
    <3>1. ASSUME NEW j \in Int, 1 < j, About(j, m) PROVE \E i \in Int : About(i, m)'
      <4>1. j - 1 \in Int /\ (j - 1) + 1 = j /\ 1 <= j - 1
        BY <3>1
      <4>2. About(j - 1, m)'
        BY <1>1, <3>1, <4>1
      <4> QED
        BY <4>1, <4>2
    <3>2. ASSUME NEW i \in Int, About(i, m)' PROVE \E j \in Int : 1 < j /\ About(j, m)
      <4>1. i + 1 \in Int /\ 1 < i + 1 /\ About(i + 1, m)
        BY <1>1, <3>2
      <4> QED
        BY <4>1
    <3> QED
      BY <3>1, <3>2
  <2>3. ASSUME NEW i \in Int, 1 <= i
        PROVE  (\A j \in Int : i < j => ~About(j, m)')
                 <=> (\A j \in Int : i + 1 < j => ~About(j, m))
    <3>1. ASSUME NEW j \in Int, i + 1 < j, About(j, m)
          PROVE  \E k \in Int : i < k /\ About(k, m)'
      <4>1. j - 1 \in Int /\ (j - 1) + 1 = j /\ 1 <= j - 1 /\ i < j - 1
        BY <2>3, <3>1
      <4>2. About(j - 1, m)'
        BY <1>1, <3>1, <4>1
      <4> QED
        BY <4>1, <4>2
    <3>2. ASSUME NEW k \in Int, i < k, About(k, m)'
          PROVE  \E j \in Int : i + 1 < j /\ About(j, m)
      <4>1. k + 1 \in Int /\ i + 1 < k + 1 /\ About(k + 1, m)
        BY <1>1, <3>2
      <4> QED
        BY <4>1
    <3> QED
      BY <3>1, <3>2
  <2>4. ASSUME Decided(p) PROVE Decided(p)'
    <3>1. PICK i \in Int : Adds(i, p) /\ \A j \in Int : i < j => ~About(j, m)
      BY <2>1, <2>4
    <3>2. CASE i = 1
      BY <1>3, <1>4, <1>5, <2>2, <3>1, <3>2 DEF Decided
    <3>3. CASE i # 1
      <4>1. i - 1 \in Int /\ (i - 1) + 1 = i /\ 1 <= i - 1
        BY <1>4, <3>1, <3>3
      <4>2. Adds(i - 1, p)' /\ \A j \in Int : i - 1 < j => ~About(j, m)'
        BY <1>1, <2>3, <3>1, <4>1
      <4> QED
        BY <1>5, <4>1, <4>2 DEF Decided
    <3> QED
      BY <3>2, <3>3
  <2>5. ASSUME Decided(p)' PROVE Decided(p)
    <3>1. CASE clients'[m] = p /\ \A j \in Int : ~About(j, m)'
      BY <1>3, <1>4, <2>1, <2>2, <3>1
    <3>2. CASE \E i \in Int : Adds(i, p)' /\ \A j \in Int : i < j => ~About(j, m)'
      <4>1. PICK i \in Int : Adds(i, p)' /\ \A j \in Int : i < j => ~About(j, m)'
        BY <3>2
      <4>2. 1 <= i /\ Adds(i + 1, p) /\ i + 1 \in Int
        BY <1>1, <4>1
      <4> QED
        BY <2>1, <2>3, <4>1, <4>2
    <3> QED
      BY <1>5, <2>5, <3>1, <3>2 DEF Decided
  <2> QED
    BY <2>4, <2>5
<1>6. Follows(m)' /\ Alone(m)'
  BY <1>1, <1>5 DEF NameInv, Follows, Alone
<1>7. AddsEnd(m)'
  <2> SUFFICES ASSUME NEW p \in Peers, NEW i \in Int, NEW j \in Int,
                      NameOf[p] = m, Adds(i, p)', About(j, m)', i < j
               PROVE  \E k \in Int : i < k /\ k <= j /\ Deletes(k, p)'
    BY DEF AddsEnd
  <2>0. i + 1 \in Int /\ j + 1 \in Int /\ i + 1 < j + 1
    OBVIOUS
  <2>1. 1 <= i /\ i + 1 \in Int /\ j + 1 \in Int /\ i + 1 < j + 1 /\ Adds(i + 1, p) /\ About(j + 1, m)
    <3>1. 1 <= i /\ Adds(i + 1, p)
      BY <1>1
    <3>2. About(j + 1, m)
      BY <1>1
    <3> QED
      BY <2>0, <3>1, <3>2
  <2>2. PICK k \in Int : i + 1 < k /\ k <= j + 1 /\ Deletes(k, p)
    BY <2>1 DEF NameInv, AddsEnd
  <2>3. k - 1 \in Int /\ (k - 1) + 1 = k /\ 1 <= k - 1 /\ i < k - 1 /\ k - 1 <= j
    BY <2>1, <2>2
  <2> QED
    BY <1>1, <2>2, <2>3
<1>8. ClientEnds(m)'
  <2>1. PICK x \in Peers : x = h.peer
    BY <1>1
  <2> SUFFICES ASSUME NEW j \in Int, h.code = "ADD", About(j, m)'
               PROVE  \E k \in Int : k <= j /\ Deletes(k, x)'
    BY <1>3, <2>1 DEF ClientEnds
  <2>2. Adds(1, x) /\ j + 1 \in Int /\ 1 < j + 1 /\ About(j + 1, m) /\ NameOf[x] = m
    BY <1>1, <1>4, <2>1 DEF h
  <2>3. PICK k \in Int : 1 < k /\ k <= j + 1 /\ Deletes(k, x)
    BY <2>2 DEF NameInv, AddsEnd
  <2>4. k - 1 \in Int /\ (k - 1) + 1 = k /\ 1 <= k - 1 /\ k - 1 <= j
    BY <2>3
  <2>5. Deletes(k - 1, x)'
    BY <1>1, <2>3, <2>4
  <2> QED
    BY <2>4, <2>5
<1> QED
  BY <1>6, <1>7, <1>8 DEF NameInv

\* The name of an ADD that list drops, and perhaps of its DELETE too: the
\* club holds nobody under it, and what was decided comes later.
LEMMA DropName ==
  ASSUME IndInv, commands # <<>>, commands' = Tail(commands), UNCHANGED <<clients, registered>>,
         commands[1].code = "ADD", registered[commands[1].peer] = "gone",
         skip_version' \in {skip_version, skip_version \cup {commands[1].peer}},
         NEW m \in Names, m = NameOf[commands[1].peer], NameInv(m)
  PROVE  NameInv(m)'
<1>0. PICK x \in Peers : x = commands[1].peer
  BY TailShape DEF IndInv
<1>1. /\ commands' \in Seq([code : Codes, peer : Peers])
      /\ Len(commands) \in Nat \ {0} /\ Len(commands') = Len(commands) - 1
      /\ \A i \in 1..Len(commands') : commands'[i] = commands[i + 1]
      /\ \A p \in Peers, i \in Int : Adds(i, p)' <=> (1 <= i /\ Adds(i + 1, p))
      /\ m = NameOf[x] /\ registered[x] = "gone"
  BY <1>0, TailShape DEF IndInv
<1>2. Adds(1, x) /\ About(1, m) /\ ~\E p \in Peers : Deletes(1, p)
  BY <1>0, <1>1 DEF Adds, About, Deletes, Skipped
<1>3. /\ \A p \in Peers, i \in Int : (p # x /\ 1 <= i) => (Deletes(i, p)' <=> Deletes(i + 1, p))
      /\ \A p \in Peers, i \in Int : Deletes(i, p)' => 1 <= i /\ Deletes(i + 1, p)
      /\ x \in skip_version' \/ \A i \in Int : 1 <= i => (Deletes(i, x)' <=> Deletes(i + 1, x))
  BY <1>0, <1>1 DEF Deletes
<1>4. \A i \in Int : About(i, m)' => 1 <= i /\ About(i + 1, m)
  BY <1>0, <1>1 DEF About, Skipped
<1>5. \A i \in Int : 1 <= i /\ About(i + 1, m) /\ ~Deletes(i + 1, x) => About(i, m)'
  BY <1>0, <1>1 DEF About, Skipped, Deletes
<1>6. \A p \in Peers, i \in Int : (NameOf[p] = m /\ Deletes(i, p)) => About(i, m)
  BY DEF About, Skipped, Deletes
<1>7. \A i \in Int : About(i, m) => 1 <= i
  BY DEF About
<1>8. clients[m] = NoPeer
  <2> SUFFICES ASSUME clients[m] # NoPeer PROVE FALSE
    OBVIOUS
  <2>1. PICK k \in Int : k <= 1 /\ Deletes(k, clients[m])
    BY <1>2 DEF NameInv, ClientEnds
  <2>2. clients[m] \in Peers /\ NameOf[clients[m]] = m
    BY DEF IndInv, TypeOK, RegistrarInv
  <2>3. k = 1
    BY <1>6, <1>7, <2>1, <2>2
  <2> QED
    BY <1>2, <2>1, <2>2, <2>3
<1>9. \A p \in Peers, i \in Int : Adds(i, p) => (i = 1 <=> p = x) /\ 1 <= i
  BY <1>2 DEF IndInv, FreshInv, Adds
<1>10. ASSUME NEW p \in Peers, NameOf[p] = m PROVE Decided(p)' <=> Decided(p)
  <2>1. p # NoPeer /\ p # clients[m]
    BY <1>8, PeerNames
  <2>2. ASSUME Decided(p) PROVE Decided(p)'
    <3>1. PICK i \in Int : Adds(i, p) /\ \A j \in Int : i < j => ~About(j, m)
      BY <1>10, <2>1, <2>2 DEF Decided
    <3>2. p # x
      BY <1>1, <1>10, <2>2 DEF NameInv, Follows
    <3>3. i - 1 \in Int /\ (i - 1) + 1 = i /\ 1 <= i - 1
      BY <1>9, <3>1, <3>2
    <3>4. Adds(i - 1, p)'
      BY <1>1, <3>1, <3>3
    <3>5. ASSUME NEW j \in Int, i - 1 < j PROVE ~About(j, m)'
      <4>1. j + 1 \in Int /\ i < j + 1
        BY <3>5
      <4> QED
        BY <1>4, <3>1, <4>1
    <3> QED
      BY <1>10, <3>3, <3>4, <3>5 DEF Decided
  <2>3. ASSUME Decided(p)' PROVE Decided(p)
    <3>1. PICK i \in Int : Adds(i, p)' /\ \A j \in Int : i < j => ~About(j, m)'
      BY <1>10, <2>1, <2>3 DEF Decided
    <3>2. 1 <= i /\ i + 1 \in Int /\ Adds(i + 1, p) /\ p # x
      BY <1>1, <1>9, <3>1
    <3>3. ASSUME NEW j \in Int, i + 1 < j, About(j, m) PROVE FALSE
      <4>1. PICK k \in Int : i + 1 < k /\ k <= j /\ Deletes(k, p)
        BY <1>10, <3>2, <3>3 DEF NameInv, AddsEnd
      <4>2. k - 1 \in Int /\ (k - 1) + 1 = k /\ 1 <= k - 1 /\ i < k - 1
        BY <3>2, <4>1
      <4>3. About(k, m) /\ ~Deletes(k, x)
        BY <1>6, <1>10, <3>2, <4>1 DEF Deletes
      <4>4. About(k - 1, m)'
        BY <1>5, <4>2, <4>3
      <4> QED
        BY <3>1, <4>2, <4>4
    <3> QED
      BY <1>10, <3>2, <3>3 DEF Decided
  <2> QED
    BY <2>2, <2>3
<1>11. Follows(m)' /\ Alone(m)'
  BY <1>10 DEF NameInv, Follows, Alone
<1>12. AddsEnd(m)'
  <2> SUFFICES ASSUME NEW p \in Peers, NEW i \in Int, NEW j \in Int,
                      NameOf[p] = m, Adds(i, p)', About(j, m)', i < j
               PROVE  \E k \in Int : i < k /\ k <= j /\ Deletes(k, p)'
    BY DEF AddsEnd
  <2>1. /\ 1 <= i /\ i + 1 \in Int /\ j + 1 \in Int /\ i + 1 < j + 1
        /\ Adds(i + 1, p) /\ About(j + 1, m) /\ p # x
    BY <1>1, <1>4, <1>9
  <2>2. PICK k \in Int : i + 1 < k /\ k <= j + 1 /\ Deletes(k, p)
    BY <2>1 DEF NameInv, AddsEnd
  <2>3. k - 1 \in Int /\ (k - 1) + 1 = k /\ 1 <= k - 1 /\ i < k - 1 /\ k - 1 <= j
    BY <2>1, <2>2
  <2> QED
    BY <1>3, <2>1, <2>2, <2>3
<1>13. ClientEnds(m)'
  BY <1>8 DEF ClientEnds
<1> QED
  BY <1>11, <1>12, <1>13 DEF NameInv
---------------------------------------------------------------------------
(* The steps of the stream.                                                *)

\* Every step of the stream keeps its variables in their types.
LEMMA StreamTypes ==
  ASSUME StreamTypeOK, StreamNext \/ Receive \/ UNCHANGED streamVars
  PROVE  StreamTypeOK'
<1> USE DEF StreamTypeOK
<1>1. commands \in Seq([code : Codes, peer : Peers])
  OBVIOUS
<1>2. \A p \in Peers : NameOf[p] \in Names
  BY PeerNames
<1>3. ASSUME NEW p \in Peers, find_exist_node(p) PROVE StreamTypeOK'
  BY <1>3 DEF find_exist_node
<1>4. ASSUME NEW p \in Peers, registration(p) PROVE StreamTypeOK'
  <2>1. [code |-> "ADD", peer |-> p] \in [code : Codes, peer : Peers]
    BY DEF Codes
  <2>2. commands' \in Seq([code : Codes, peer : Peers])
    BY <1>1, <1>4, <2>1, AppendType DEF registration
  <2> QED
    BY <1>2, <1>4, <2>2 DEF registration
<1>5. ASSUME NEW p \in Peers, deregistration(p) PROVE StreamTypeOK'
  <2>1. [code |-> "DELETE", peer |-> p] \in [code : Codes, peer : Peers]
    BY DEF Codes
  <2>2. commands' \in Seq([code : Codes, peer : Peers])
    BY <1>1, <1>5, <2>1, AppendType DEF deregistration
  <2> QED
    BY <1>2, <1>5, <2>2 DEF deregistration
<1>6. CASE list
  <2>1. /\ Head(commands) \in [code : Codes, peer : Peers]
        /\ commands' \in Seq([code : Codes, peer : Peers])
    BY <1>1, <1>6, HeadAndTail DEF list
  <2>2. Head(commands).peer \in Peers /\ NameOf[Head(commands).peer] \in Names
    BY <1>2, <2>1
  <2>3. confused' \subseteq Names /\ skip_version' \subseteq Peers
    BY <1>6, <2>2 DEF list
  <2> QED
    BY <1>6, <2>1, <2>3 DEF list
<1>7. CASE Receive
  <2>1. commands' \in Seq([code : Codes, peer : Peers])
    BY <1>1, <1>7, HeadAndTail DEF Receive
  <2> QED
    BY <1>7, <2>1 DEF Receive
<1>8. CASE UNCHANGED streamVars
  BY <1>8 DEF streamVars
<1> QED
  BY <1>3, <1>4, <1>5, <1>6, <1>7, <1>8 DEF StreamNext

\* Every step keeps every variable in its type.
LEMMA TypeInd == TypeOK /\ [Next]_vars => TypeOK'
<1> SUFFICES ASSUME TypeOK, [Next]_vars PROVE TypeOK'
  OBVIOUS
<1> USE DEF TypeOK
<1>0. (StreamNext \/ Receive \/ UNCHANGED streamVars) => StreamTypeOK'
  BY StreamTypes
<1>1. CASE StreamNext /\ UNCHANGED nodeVars
  BY <1>0, <1>1 DEF nodeVars, callVars
<1>2. ASSUME NEW p \in Peers, Die(p) PROVE TypeOK'
  <2>1. StreamTypeOK'
    BY <1>2 DEF Die, StreamTypeOK
  <2>2. handler' \in [Calls -> HandlerPCs]
    BY <1>2 DEF Die, HandlerPCs, Replies
  <2> QED
    BY <1>2, <2>1, <2>2 DEF Die
<1>3. ASSUME NEW p \in Peers, add_published_topic(p) \/ Notify(p) PROVE TypeOK'
  <2>1. handler' \in [Calls -> HandlerPCs]
    BY <1>3 DEF add_published_topic, Notify, callVars, HandlerPCs
  <2> QED
    BY <1>0, <1>3, <2>1 DEF add_published_topic, Notify, callVars
<1>4. CASE pull_subscribe_request
  <2>1. worker' \in [Calls -> WorkerPCs]
    BY <1>4 DEF pull_subscribe_request, Spawn, WorkerPCs
  <2>2. topic_requests' \in 0..MaxSubscribes
    BY <1>4, SubscribesAssumption DEF pull_subscribe_request
  <2> QED
    BY <1>0, <1>4, <2>1, <2>2 DEF pull_subscribe_request
<1>5. CASE ReadCommand
  <2>1. commands \in Seq([code : Codes, peer : Peers]) /\ commands # <<>>
    BY <1>5 DEF ReadCommand, Receive, StreamTypeOK
  <2>2. Head(commands) \in [code : Codes, peer : Peers]
    BY <2>1, HeadAndTail
  <2>3. NameOf[Head(commands).peer] \in Names
    BY <2>2, PeerNames
  <2> QED
    BY <1>0, <1>5, <2>2, <2>3 DEF ReadCommand, callVars
<1>6. CASE add_client \/ delete_client
  BY <1>0, <1>6 DEF add_client, delete_client, Spawn, Idle, WorkerPCs, callVars
<1>7. ASSUME NEW c \in Calls, Handler(c) PROVE TypeOK'
  <2>1. HandlerOnly
    BY <1>7 DEF Handler, CallTopicConnection, TopicConnection, Sleep, ConnectSocket, SelectSocket
  <2>2. handler' \in [Calls -> HandlerPCs]
    BY <1>7 DEF Handler, CallTopicConnection, TopicConnection, Sleep, ConnectSocket,
       SelectSocket, GotoHandler, HandlerPCs, Replies
  <2>3. sock' \in [Calls -> SockStates]
    BY <1>7 DEF Handler, CallTopicConnection, TopicConnection, Sleep, ConnectSocket,
       SelectSocket, SockStates
  <2> QED
    BY <1>0, <2>1, <2>2, <2>3 DEF HandlerOnly
<1>8. ASSUME NEW c \in Calls, Worker(c) \/ spinOnce(c) PROVE TypeOK'
  <2>1. WorkerOnly
    BY <1>8 DEF Worker, spinOnce, Reply, accept_client, accept_new_client, handle_client_event
  <2>2. worker' \in [Calls -> WorkerPCs]
    BY <1>8 DEF Worker, spinOnce, Reply, accept_client, accept_new_client,
       handle_client_event, WorkerPCs
  <2>3. sock' \in [Calls -> SockStates]
    BY <1>8 DEF Worker, spinOnce, Reply, accept_client, accept_new_client,
       handle_client_event, SockStates
  <2> QED
    BY <1>0, <2>1, <2>2, <2>3 DEF WorkerOnly
<1>9. CASE UNCHANGED vars
  BY <1>0, <1>9 DEF vars, nodeVars, callVars
<1> QED
  BY <1>1, <1>2, <1>3, <1>4, <1>5, <1>6, <1>7, <1>8, <1>9 DEF Next, Register

\* A command of q is sent.
LEMMA CommandInd ==
  ASSUME IndInv, TypeOK', NEW q \in Peers, NEW code \in Codes,
         (registration(q) /\ code = "ADD") \/ (deregistration(q) /\ code = "DELETE"),
         UNCHANGED <<clients, topic_requests, register, worker>>
  PROVE  IndInv'
<1> USE DEF IndInv
<1>0. /\ commands' = Append(commands, [code |-> code, peer |-> q])
      /\ UNCHANGED <<process, skip_version>> /\ q \notin skip_version
      /\ registered' = [registered EXCEPT ![q] = IF code = "ADD" THEN "live" ELSE "gone"]
      /\ code = "ADD" => registered[q] = "claim"
      /\ code = "DELETE" => registered[q] = "live"
      /\ confused \subseteq confused'
      /\ (code = "ADD" /\ NameOf[q] \notin confused') =>
           \A p \in Peers : NameOf[p] = NameOf[q] => registered[p] # "live"
  BY DEF registration, deregistration, FreshInv, Namesakes, Codes
<1>1. /\ Len(commands') = Len(commands) + 1 /\ Len(commands) \in Nat
      /\ \A p \in Peers, i \in Int : Adds(i, p)' <=>
              (Adds(i, p) \/ (i = Len(commands) + 1 /\ code = "ADD" /\ p = q))
      /\ \A p \in Peers, i \in Int : Deletes(i, p)' <=>
              (Deletes(i, p) \/ (i = Len(commands) + 1 /\ code = "DELETE" /\ p = q))
      /\ \A n \in Names, i \in Int : About(i, n)' <=>
              (About(i, n) \/ (i = Len(commands) + 1 /\ NameOf[q] = n))
  BY <1>0, AppendShape
<1>2. \A p \in Peers : registered'[p] = IF p = q THEN (IF code = "ADD" THEN "live" ELSE "gone")
                                                ELSE registered[p]
  BY <1>0 DEF TypeOK, StreamTypeOK
<1>3. \A n \in Names : clients[n] # NoPeer => clients[n] \in Peers /\ NameOf[clients[n]] = n
  BY DEF TypeOK, RegistrarInv
<1>4. ASSUME NEW n \in Names, n \notin confused' PROVE NameInv(n)'
  <2>1. NameInv(n)
    BY <1>0, <1>4 DEF RegistrarInv
  <2>2. CASE n # NameOf[q]
    <3>1. 0 \in Int /\ \A i \in Int : i + 0 = i
      OBVIOUS
    <3>2. \A p \in Peers : NameOf[p] = n => (registered'[p] = "live" <=> registered[p] = "live")
      BY <1>2, <2>2
    <3>3. \A i \in Int : About(i, n)' <=> About(i + 0, n)
      BY <1>1, <2>2
    <3>4. \A p \in Peers, i \in Int : NameOf[p] = n => (Adds(i, p)' <=> Adds(i + 0, p))
      BY <1>1, <2>2
    <3>5. \A p \in Peers, i \in Int : NameOf[p] = n => (Deletes(i, p)' <=> Deletes(i + 0, p))
      BY <1>1, <2>2
    <3> QED
      BY <1>3, <2>1, <3>1, <3>2, <3>3, <3>4, <3>5, KeptName
  <2>3. CASE n = NameOf[q]
    <3>1. \A p \in Peers : (p # q /\ NameOf[p] = NameOf[q]) =>
                             registered[p] # "live" /\ registered'[p] # "live"
      BY <1>0, <1>2, <1>4, <2>1, <2>3 DEF NameInv, Alone, Codes
    <3>2. \/ code = "ADD" /\ registered[q] # "live" /\ registered'[q] = "live"
          \/ code = "DELETE" /\ registered'[q] # "live"
      BY <1>0, <1>2 DEF Codes
    <3> QED
      BY <1>0, <1>3, <2>1, <2>3, <3>1, <3>2, AppendName
  <2> QED
    BY <2>2, <2>3
<1>5. RegistrarInv'
  BY <1>4 DEF RegistrarInv
<1>6. \A p \in Peers : Pending(p)' <=> (Pending(p) \/ (code = "ADD" /\ p = q))
  BY <1>1 DEF Pending
<1>7. \A p \in Peers : (Unknown(p)' <=> Unknown(p)) /\ (Unasked(p)' <=> Unasked(p))
  BY DEF Unknown, Unasked
<1>8. FreshInv'
  <2>1. \A p \in Peers : process'[p] = "new" => registered'[p] = "none"
    BY <1>0, <1>2 DEF FreshInv, Codes
  <2>2. \A p \in skip_version' : registered'[p] = "gone"
    BY <1>0, <1>2 DEF FreshInv, TypeOK, StreamTypeOK
  <2>3. \A p \in Peers : registered'[p] \in {"none", "claim"} => Unknown(p)' /\ ~Pending(p)'
    BY <1>2, <1>6, <1>7 DEF FreshInv
  <2>4. \A p \in Peers : Pending(p)' => Unknown(p)'
    BY <1>0, <1>6, <1>7 DEF FreshInv
  <2>5. ASSUME NEW p \in Peers, NEW i \in Int, NEW j \in Int, Adds(i, p)', Adds(j, p)'
        PROVE  i = j
    <3>1. code = "ADD" => ~Pending(q)
      BY <1>0 DEF FreshInv
    <3> QED
      BY <1>1, <2>5, <3>1 DEF FreshInv, Pending
  <2>6. register'.pc = "ADD" => /\ register'.peer \in Peers
                                /\ clients'[NameOf[register'.peer]] = register'.peer
                                /\ Unasked(register.peer)'
    BY <1>7 DEF FreshInv, Unasked
  <2> QED
    BY <2>1, <2>2, <2>3, <2>4, <2>5, <2>6 DEF FreshInv
<1> QED
  BY <1>5, <1>8 DEF AskedInv

\* What becomes of the peers to add when the first command is taken off.
LEMMA TailFresh ==
  ASSUME IndInv, commands # <<>>, commands' = Tail(commands)
  PROVE  /\ \A p \in Peers : Pending(p)' => Pending(p) /\ ~Adds(1, p)
         /\ \A p \in Peers : \A i, j \in Int : (Adds(i, p)' /\ Adds(j, p)') => i = j
<1>1. \A p \in Peers, i \in Int : Adds(i, p)' <=> (1 <= i /\ Adds(i + 1, p))
  BY TailShape DEF IndInv
<1>2. ASSUME NEW p \in Peers, NEW i \in Int, Adds(i, p)' PROVE Pending(p) /\ ~Adds(1, p)
  <2>1. i + 1 \in Int /\ 1 \in Int /\ i + 1 # 1 /\ Adds(i + 1, p)
    BY <1>1, <1>2
  <2> QED
    BY <2>1 DEF IndInv, FreshInv, Pending
<1>3. ASSUME NEW p \in Peers, NEW i \in Int, NEW j \in Int, Adds(i, p)', Adds(j, p)'
      PROVE  i = j
  <2>1. i + 1 \in Int /\ j + 1 \in Int /\ Adds(i + 1, p) /\ Adds(j + 1, p)
    BY <1>1, <1>3
  <2>2. i + 1 = j + 1
    BY <2>1 DEF IndInv, FreshInv
  <2> QED
    BY <2>2
<1>4. ASSUME NEW p \in Peers, Pending(p)' PROVE \E i \in Int : Adds(i, p)'
  BY <1>4 DEF Pending
<1> QED
  BY <1>2, <1>3, <1>4

\* A slot is lost or dropped.
LEMMA ListInd ==
  ASSUME IndInv, TypeOK', list, UNCHANGED nodeVars
  PROVE  IndInv'
<1> USE DEF IndInv
<1> DEFINE h == commands[1]
<1>1. /\ commands # <<>> /\ commands' = Tail(commands)
      /\ UNCHANGED <<process, registered, clients, topic_requests, register, worker>>
  BY DEF list, nodeVars, callVars
<1>2. h = Head(commands) /\ h \in [code : Codes, peer : Peers] /\ Len(commands) \in Nat \ {0}
  BY <1>1, TailShape
<1>3. PICK x \in Peers : x = h.peer
  BY <1>2
<1>4. /\ confused \subseteq confused'
      /\ \/ Skipped(h) /\ UNCHANGED skip_version
         \/ h.code = "ADD" /\ registered[h.peer] = "gone"
            /\ skip_version' \in {skip_version, skip_version \cup {h.peer}}
         \/ NameOf[x] \in confused' /\ UNCHANGED skip_version
  BY <1>2, <1>3 DEF list
<1>5. ASSUME NEW n \in Names, n \notin confused' PROVE NameInv(n)'
  <2>1. NameInv(n) /\ clients'[n] = clients[n] /\ UNCHANGED registered
    BY <1>1, <1>4, <1>5 DEF RegistrarInv
  <2>2. CASE n = NameOf[x] /\ h.code = "ADD" /\ registered[h.peer] = "gone"
               /\ skip_version' \in {skip_version, skip_version \cup {h.peer}}
    BY <1>1, <1>3, <2>1, <2>2, DropName
  <2>3. CASE Skipped(h) \/ n # NameOf[x]
    <3>1. ~About(1, n)
      BY <1>3, <2>3 DEF About
    <3>2. \A p \in Peers : NameOf[p] = n => (p \in skip_version' <=> p \in skip_version)
      BY <1>3, <1>4, <2>3 DEF Skipped
    <3> QED
      BY <1>1, <2>1, <3>1, <3>2, TailOther
  <2> QED
    BY <1>4, <1>5, <2>2, <2>3
<1>6. RegistrarInv'
  BY <1>1, <1>5 DEF RegistrarInv
<1>7. \A p \in Peers : (Unknown(p)' <=> Unknown(p)) /\ (Unasked(p)' <=> Unasked(p))
  BY <1>1 DEF Unknown, Unasked
<1>8. FreshInv'
  <2>1. /\ \A p \in Peers : Pending(p)' => Pending(p)
        /\ \A p \in Peers : \A i, j \in Int : (Adds(i, p)' /\ Adds(j, p)') => i = j
    BY <1>1, TailFresh
  <2>2. \A p \in skip_version' : registered'[p] = "gone"
    BY <1>1, <1>4 DEF FreshInv
  <2>3. register'.pc = "ADD" => /\ register'.peer \in Peers
                                /\ clients'[NameOf[register'.peer]] = register'.peer
                                /\ Unasked(register.peer)'
    BY <1>1, <1>7 DEF FreshInv, Unasked
  <2>4. /\ \A p \in Peers : process'[p] = "new" => registered'[p] = "none"
        /\ \A p \in Peers : registered'[p] \in {"none", "claim"} => Unknown(p)' /\ ~Pending(p)'
        /\ \A p \in Peers : Pending(p)' => Unknown(p)'
    BY <1>1, <1>7, <2>1 DEF FreshInv
  <2> QED
    BY <2>1, <2>2, <2>3, <2>4 DEF FreshInv
<1> QED
  BY <1>1, <1>6, <1>8 DEF AskedInv

\* The register thread takes a command; a peer that is added was unknown.
LEMMA ReadInd ==
  ASSUME IndInv, TypeOK', ReadCommand
  PROVE  IndInv'
<1> DEFINE h == commands[1]
           m == NameOf[h.peer]
<1> USE DEF IndInv
<1>1. /\ commands # <<>> /\ commands' = Tail(commands)
      /\ UNCHANGED <<process, registered, skip_version, confused>>
      /\ register.pc = "read" /\ UNCHANGED <<topic_requests, worker>>
  BY DEF ReadCommand, Receive, callVars
<1>2. h = Head(commands) /\ h \in [code : Codes, peer : Peers] /\ Len(commands) \in Nat \ {0}
  BY <1>1, TailShape
<1>3. /\ clients' = [clients EXCEPT ![m] = IF h.code = "ADD" THEN h.peer ELSE NoPeer]
      /\ register' = [pc |-> h.code, peer |-> h.peer, old |-> clients[m]]
  BY <1>2 DEF ReadCommand
<1>4. m \in Names /\ NoPeer \notin Peers /\ DOMAIN clients = Names
  BY <1>2, PeerNames DEF TypeOK
<1>5. ASSUME NEW n \in Names, n \notin confused' PROVE NameInv(n)'
  <2>1. NameInv(n)
    BY <1>1, <1>5 DEF RegistrarInv
  <2>2. CASE n = m
    BY <2>1, <2>2, ReadName
  <2>3. CASE n # m
    <3>1. ~About(1, n) /\ clients'[n] = clients[n]
      BY <1>3, <1>4, <1>5, <2>3 DEF About
    <3>2. \A p \in Peers : NameOf[p] = n => (p \in skip_version' <=> p \in skip_version)
      BY <1>1
    <3> QED
      BY <1>1, <2>1, <3>1, <3>2, TailOther
  <2> QED
    BY <2>2, <2>3
<1>6. RegistrarInv'
  BY <1>2, <1>3, <1>4, <1>5 DEF RegistrarInv
<1>7. h.code = "ADD" => Adds(1, h.peer) /\ Unknown(h.peer) /\ registered[h.peer] \notin {"none", "claim"}
  <2>1. h.code = "ADD" => Adds(1, h.peer) /\ Pending(h.peer)
    BY <1>2 DEF Pending, Adds
  <2> QED
    BY <1>2, <2>1 DEF FreshInv
<1>8. \A p \in Peers : (Unknown(p) /\ ~(h.code = "ADD" /\ h.peer = p)) => Unknown(p)'
  BY <1>1, <1>3, <1>4 DEF Unknown, Unasked
<1>9. FreshInv'
  <2>1. /\ \A p \in Peers : Pending(p)' => Pending(p) /\ ~Adds(1, p)
        /\ \A p \in Peers : \A i, j \in Int : (Adds(i, p)' /\ Adds(j, p)') => i = j
    BY <1>1, TailFresh
  <2>2. /\ \A p \in Peers : process'[p] = "new" => registered'[p] = "none"
        /\ \A p \in skip_version' : registered'[p] = "gone"
    BY <1>1 DEF FreshInv
  <2>3. \A p \in Peers : registered'[p] \in {"none", "claim"} => Unknown(p)' /\ ~Pending(p)'
    BY <1>1, <1>7, <1>8, <2>1 DEF FreshInv
  <2>4. \A p \in Peers : Pending(p)' => Unknown(p)'
    BY <1>7, <1>8, <2>1 DEF FreshInv
  <2>5. register'.pc = "ADD" => /\ register'.peer \in Peers
                                /\ clients'[NameOf[register'.peer]] = register'.peer
                                /\ \A r \in Requests : worker'[<<register'.peer, r>>] = "none"
    BY <1>1, <1>2, <1>3, <1>4, <1>7 DEF Unknown, Unasked
  <2> QED
    BY <2>1, <2>2, <2>3, <2>4, <2>5 DEF FreshInv, Unasked
<1>10. AskedInv'
  BY <1>1, <1>2, <1>3, <1>4 DEF AskedInv, Codes
<1> QED
  BY <1>6, <1>9, <1>10
---------------------------------------------------------------------------
(* The other steps.                                                        *)

\* Steps that touch neither the club nor the commands.
SameClub ==
  /\ UNCHANGED <<commands, skip_version, confused, clients>>
  /\ \A p \in Peers : \/ registered'[p] = registered[p]
                      \/ registered[p] = "none" /\ registered'[p] = "claim"
  /\ \A p \in Peers : process'[p] = "new" => process[p] = "new" /\ registered'[p] = registered[p]

\* A step that leaves the stream and the club alone is one of them.
LEMMA StillStream ==
  ASSUME UNCHANGED streamVars, UNCHANGED clients
  PROVE  SameClub
<1>1. UNCHANGED process /\ UNCHANGED registered
  BY DEF streamVars
<1>2. UNCHANGED commands /\ UNCHANGED skip_version /\ UNCHANGED confused
  BY DEF streamVars
<1> QED
  BY <1>1, <1>2 DEF SameClub

\* Such a step leaves the registrar's part of the invariant as it is.
LEMMA SameRegistrar ==
  ASSUME IndInv, TypeOK', SameClub
  PROVE  /\ RegistrarInv'
         /\ \A p \in Peers, i \in Int : Adds(i, p)' <=> Adds(i, p)
         /\ \A p \in Peers : Pending(p)' <=> Pending(p)
<1>1. /\ \A n \in Names, i \in Int : About(i, n)' <=> About(i, n)
      /\ \A p \in Peers, i \in Int : Adds(i, p)' <=> Adds(i, p)
      /\ \A p \in Peers, i \in Int : Deletes(i, p)' <=> Deletes(i, p)
  BY DEF SameClub, About, Adds, Deletes, Skipped
<1>2. \A n \in Names : clients[n] # NoPeer => clients[n] \in Peers /\ NameOf[clients[n]] = n
  BY DEF IndInv, TypeOK, RegistrarInv
<1>3. ASSUME NEW n \in Names, NameInv(n) PROVE NameInv(n)'
  <2>1. 0 \in Int /\ \A i \in Int : i + 0 = i
    OBVIOUS
  <2>2. \A p \in Peers : NameOf[p] = n => (registered'[p] = "live" <=> registered[p] = "live")
    BY DEF SameClub
  <2>3. clients'[n] = clients[n]
    BY DEF SameClub
  <2>4. \A i \in Int : About(i, n)' <=> About(i + 0, n)
    BY <1>1, <2>1
  <2>5. \A p \in Peers, i \in Int : NameOf[p] = n => (Adds(i, p)' <=> Adds(i + 0, p))
    BY <1>1, <2>1
  <2>6. \A p \in Peers, i \in Int : NameOf[p] = n => (Deletes(i, p)' <=> Deletes(i + 0, p))
    BY <1>1, <2>1
  <2> QED
    BY <1>2, <1>3, <2>1, <2>2, <2>3, <2>4, <2>5, <2>6, KeptName
<1>4. RegistrarInv'
  BY <1>3 DEF SameClub, IndInv, RegistrarInv
<1> QED
  BY <1>1, <1>4 DEF Pending

\* It keeps the peers to add if no unknown peer becomes known.
LEMMA SameFresh ==
  ASSUME IndInv, TypeOK', SameClub, \A p \in Peers : Unknown(p) => Unknown(p)',
         register'.pc = "ADD" => UNCHANGED register /\ Unasked(register.peer)'
  PROVE  FreshInv'
<1>1. /\ \A p \in Peers : process'[p] = "new" => registered'[p] = "none"
      /\ \A p \in skip_version' : registered'[p] = "gone"
  BY DEF SameClub, IndInv, FreshInv, TypeOK, StreamTypeOK
<1>2. /\ \A p \in Peers : registered'[p] \in {"none", "claim"} => Unknown(p)' /\ ~Pending(p)'
      /\ \A p \in Peers : Pending(p)' => Unknown(p)'
      /\ \A p \in Peers : \A i, j \in Int : (Adds(i, p)' /\ Adds(j, p)') => i = j
  BY SameRegistrar DEF SameClub, IndInv, FreshInv
<1>3. register'.pc = "ADD" => /\ register'.peer \in Peers
                              /\ clients'[NameOf[register'.peer]] = register'.peer
                              /\ \A r \in Requests : worker'[<<register'.peer, r>>] = "none"
  BY DEF SameClub, IndInv, FreshInv, Unasked
<1> QED
  BY <1>1, <1>2, <1>3 DEF FreshInv, Unasked

\* Steps that in addition start no worker leave all of it as it is.
Calm == /\ SameClub /\ UNCHANGED <<topic_requests, register>>
        /\ \A c \in Calls : worker'[c] = "none" <=> worker[c] = "none"

LEMMA CalmInd ==
  ASSUME IndInv, TypeOK', Calm
  PROVE  IndInv'
<1>1. \A p \in Peers : (Unasked(p)' <=> Unasked(p)) /\ (Unknown(p)' <=> Unknown(p))
  BY PairIsCall DEF Calm, SameClub, Unknown, Unasked
<1>2. register'.pc = "ADD" => UNCHANGED register /\ Unasked(register.peer)'
  BY <1>1, PairIsCall DEF Calm, IndInv, FreshInv, Unasked
<1>3. RegistrarInv' /\ FreshInv'
  BY <1>1, <1>2, SameRegistrar, SameFresh DEF Calm
<1>4. AskedInv'
  BY PairIsCall DEF Calm, SameClub, IndInv, TypeOK, AskedInv
<1> QED
  BY <1>3, <1>4 DEF IndInv

\* subscribe: the new request is sent to all clients; nobody is being added.
LEMMA SubscribeInd ==
  ASSUME IndInv, TypeOK', pull_subscribe_request
  PROVE  IndInv'
<1> USE DEF IndInv
<1>1. /\ SameClub /\ UNCHANGED <<clients, register>> /\ register.pc = "read"
      /\ topic_requests \in Nat /\ topic_requests' = topic_requests + 1
  BY StillStream DEF pull_subscribe_request, TypeOK
<1>2. ASSUME NEW p \in Peers, NEW r \in Requests
      PROVE  worker'[<<p, r>>] = IF (\E n \in Names : clients[n] = p) /\ r = topic_requests'
                                   THEN "rpc" ELSE worker[<<p, r>>]
  BY PairIsCall, PeerNames DEF pull_subscribe_request, Spawn
<1>3. RegistrarInv'
  BY <1>1, SameRegistrar
<1>4. FreshInv'
  <2>1. \A p \in Peers : Unknown(p) => Unknown(p)'
    BY <1>1, <1>2 DEF Unknown, Unasked
  <2> QED
    BY <1>1, <2>1, SameFresh
<1>5. AskedInv'
  <2> SUFFICES ASSUME NEW n \in Names, clients[n] # NoPeer, NEW r \in Requests
               PROVE  r <= topic_requests' <=> worker'[<<clients[n], r>>] # "none"
    BY <1>1 DEF AskedInv
  <2>1. clients[n] \in Peers
    BY DEF TypeOK
  <2>2. worker'[<<clients[n], r>>] = IF r = topic_requests' THEN "rpc"
                                                            ELSE worker[<<clients[n], r>>]
    BY <1>2, <2>1
  <2>3. r <= topic_requests <=> worker[<<clients[n], r>>] # "none"
    BY <1>1 DEF AskedInv
  <2> QED
    BY <1>1, <2>2, <2>3, PairIsCall
<1> QED
  BY <1>3, <1>4, <1>5

\* add_client: the client that was added is asked for everything at last.
LEMMA AddInd ==
  ASSUME IndInv, TypeOK', add_client
  PROVE  IndInv'
<1> USE DEF IndInv
<1>1. /\ SameClub /\ UNCHANGED <<clients, topic_requests>>
      /\ register.pc = "ADD" /\ register' = Idle /\ topic_requests \in Nat
  BY StillStream DEF add_client, TypeOK
<1>2. /\ register.peer \in Peers /\ clients[NameOf[register.peer]] = register.peer
      /\ Unasked(register.peer)
  BY <1>1 DEF FreshInv
<1>3. ASSUME NEW p \in Peers, NEW r \in Requests
      PROVE  worker'[<<p, r>>] = IF p = register.peer /\ r <= topic_requests
                                   THEN "rpc" ELSE worker[<<p, r>>]
  BY <1>1, <1>2, PairIsCall, SubscribesAssumption DEF add_client, Spawn, Requests
<1>4. RegistrarInv'
  BY <1>1, SameRegistrar
<1>5. FreshInv'
  <2>1. \A p \in Peers : Unknown(p) => Unknown(p)'
    BY <1>1, <1>2, <1>3, PeerNames DEF Unknown, Unasked
  <2>2. register'.pc # "ADD"
    BY <1>1 DEF Idle
  <2> QED
    BY <1>1, <2>1, <2>2, SameFresh
<1>6. AskedInv'
  <2> SUFFICES ASSUME NEW n \in Names, clients[n] # NoPeer, NEW r \in Requests
               PROVE  r <= topic_requests <=> worker'[<<clients[n], r>>] # "none"
    BY <1>1 DEF AskedInv
  <2>1. clients[n] \in Peers
    BY DEF TypeOK
  <2>2. CASE clients[n] = register.peer
    BY <1>2, <1>3, <2>1, <2>2 DEF Unasked
  <2>3. CASE clients[n] # register.peer
    BY <1>3, <2>1, <2>3 DEF AskedInv
  <2> QED
    BY <2>2, <2>3
<1> QED
  BY <1>4, <1>5, <1>6

\* delete_client: the old client is gone, the club is as it was.
LEMMA DeleteInd ==
  ASSUME IndInv, TypeOK', delete_client
  PROVE  IndInv'
<1>1. /\ SameClub /\ UNCHANGED <<clients, topic_requests, worker>>
      /\ register.pc = "DELETE" /\ register'.pc # "ADD"
  BY StillStream DEF delete_client, callVars, Idle
<1>2. \A p \in Peers : Unknown(p) => Unknown(p)'
  BY <1>1 DEF Unknown, Unasked
<1>3. AskedInv'
  BY <1>1 DEF IndInv, AskedInv
<1> QED
  BY <1>1, <1>2, <1>3, SameRegistrar, SameFresh DEF IndInv

\* The invariant is inductive.
LEMMA StepInd == IndInv /\ [Next]_vars => IndInv'
<1> SUFFICES ASSUME IndInv, [Next]_vars PROVE IndInv'
  OBVIOUS
<1>1. TypeOK'
  BY TypeInd DEF IndInv
<1>2. CASE StreamNext /\ UNCHANGED nodeVars
  <2>1. UNCHANGED <<clients, topic_requests, register, worker>>
    BY <1>2 DEF nodeVars, callVars
  <2>2. ASSUME NEW p \in Peers, find_exist_node(p) PROVE IndInv'
    <3>0. /\ process[p] = "new" /\ registered[p] = "none"
          /\ \A q \in Peers : process'[q] = IF q = p THEN "up" ELSE process[q]
          /\ \A q \in Peers : registered'[q] = IF q = p THEN "claim" ELSE registered[q]
      BY <2>2 DEF find_exist_node, IndInv, FreshInv, TypeOK, StreamTypeOK
    <3>1. /\ \A q \in Peers : \/ registered'[q] = registered[q]
                              \/ registered[q] = "none" /\ registered'[q] = "claim"
          /\ \A q \in Peers : process'[q] = "new" =>
                                process[q] = "new" /\ registered'[q] = registered[q]
      BY <3>0
    <3>2. Calm
      BY <2>1, <2>2, <3>1 DEF find_exist_node, Calm, SameClub
    <3> QED
      BY <1>1, <3>2, CalmInd
  <2>3. ASSUME NEW p \in Peers, registration(p) \/ deregistration(p) PROVE IndInv'
    <3>1. "ADD" \in Codes /\ "DELETE" \in Codes
      BY DEF Codes
    <3>2. CASE registration(p)
      BY <1>1, <2>1, <3>1, <3>2, CommandInd
    <3>3. CASE deregistration(p)
      BY <1>1, <2>1, <3>1, <3>3, CommandInd
    <3> QED
      BY <2>3, <3>2, <3>3
  <2> QED
    BY <1>1, <1>2, <2>2, <2>3, ListInd DEF StreamNext
<1>3. ASSUME NEW p \in Peers, Die(p) PROVE Calm
  <2>1. \A q \in Peers : process'[q] = IF q = p THEN "dead" ELSE process[q]
    BY <1>3 DEF Die, IndInv, TypeOK, StreamTypeOK
  <2> QED
    BY <1>3, <2>1 DEF Die, Calm, SameClub
<1>4. ASSUME NEW p \in Peers, add_published_topic(p) \/ Notify(p) PROVE Calm
  BY <1>4, StillStream DEF add_published_topic, Notify, Calm, callVars
<1>5. ASSUME NEW c \in Calls, Handler(c) PROVE Calm
  <2>1. HandlerOnly
    BY <1>5 DEF Handler, CallTopicConnection, TopicConnection, Sleep, ConnectSocket, SelectSocket
  <2> QED
    BY <2>1, StillStream DEF HandlerOnly, Calm
<1>6. ASSUME NEW c \in Calls, Worker(c) \/ spinOnce(c) PROVE Calm
  <2>1. WorkerOnly
    BY <1>6 DEF Worker, spinOnce, Reply, accept_client, accept_new_client, handle_client_event
  <2>2. \A d \in Calls : worker'[d] = "none" <=> worker[d] = "none"
    BY <1>6 DEF Worker, spinOnce, Reply, accept_client, accept_new_client,
       handle_client_event, IndInv, TypeOK
  <2> QED
    BY <2>1, <2>2, StillStream DEF WorkerOnly, Calm
<1>7. CASE UNCHANGED vars
  BY <1>1, <1>7, CalmInd, StillStream DEF vars, nodeVars, callVars, Calm
<1> QED
  BY <1>1, <1>2, <1>3, <1>4, <1>5, <1>6, <1>7, SubscribeInd, ReadInd, AddInd, DeleteInd,
     CalmInd DEF Next, Register
---------------------------------------------------------------------------
(* The theorems.                                                           *)

(***************************************************************************)
(* Whenever the register thread is not at work, every client of the club   *)
(* has been asked for exactly the topics subscribed to: subscribe and      *)
(* add_client may come in any order and peers may restart, and no call is  *)
(* forgotten and none made twice.                                          *)
(***************************************************************************)
THEOREM EveryPeerIsAsked == Spec => []EveryPeerAsked
<1>1. IndInv => EveryPeerAsked
  BY DEF IndInv, AskedInv, EveryPeerAsked
<1> QED
  BY <1>1, InitInd, StepInd, PTL DEF Spec

(***************************************************************************)
(* When all commands are handled the club is, under every name of which no *)
(* slot was lost and that no two peers have shared, exactly what the       *)
(* registrar has registered, although a DELETE carries only a name and may *)
(* come when the node of that name has already been started again, and     *)
(* list drops what a peer sent that has gone.                              *)
(***************************************************************************)
THEOREM ClubFollowsRegistrar == Spec => []ClubMatchesRegistrar
<1>1. IndInv => ClubMatchesRegistrar
  <2> SUFFICES ASSUME IndInv, commands = <<>>, NEW n \in Names \ confused
               PROVE  {clients[n]} \ {NoPeer}
                        = {p \in Peers : NameOf[p] = n /\ registered[p] = "live"}
    BY DEF ClubMatchesRegistrar
  <2>1. \A i \in Int : \A x : ~About(i, x) /\ ~Adds(i, x)
    <3>1. Len(commands) = 0
      OBVIOUS
    <3> QED
      BY <3>1 DEF About, Adds
  <2>2. \A p \in Peers : NameOf[p] = n => (registered[p] = "live" <=> clients[n] = p)
    BY <2>1 DEF IndInv, RegistrarInv, NameInv, Follows, Decided
  <2>3. clients[n] # NoPeer => clients[n] \in Peers /\ NameOf[clients[n]] = n
    BY DEF IndInv, RegistrarInv, TypeOK
  <2> QED
    BY <2>2, <2>3, PeerNames
<1> QED
  BY <1>1, InitInd, StepInd, PTL DEF Spec
=============================================================================
