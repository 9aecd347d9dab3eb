------------------------- MODULE TopicStreamProofs -------------------------
(***************************************************************************)
(* Proofs about the stream of a topic, for any messages, any limit of the  *)
(* write buffer and any window of the socket.                              *)
(*                                                                         *)
(* What decode finds in a buffer is shown by induction from its end: a set *)
(* of numbers that had a member without a property would have a least one. *)
(***************************************************************************)
EXTENDS TopicStream, FiniteSetTheorems, SequenceTheorems, WellFoundedInduction, TLAPS

\* The last unit of a frame, and which unit may come after another.
Closes(u) == u.pos = Sizes[u.msg]
Follows(u, v) == IF Closes(u) THEN v.pos = 1 ELSE v.msg = u.msg /\ v.pos = u.pos + 1

\* Frames one after the other, the last of which may be cut.
Linked(s) == /\ \A i \in 1..(Len(s) - 1) : Follows(s[i], s[i + 1])
             /\ Len(s) > 0 => s[1].pos = 1
\* The last one is whole too.
Closed(s) == Len(s) > 0 => Closes(s[Len(s)])
---------------------------------------------------------------------------
(* Induction.                                                              *)

\* A set that has 0, and n + 1 if it has n, has every number up to N.
LEMMA UpTo ==
  ASSUME NEW N \in Nat, NEW S, 0 \in S, \A n \in 0..(N - 1) : n \in S => n + 1 \in S
  PROVE  0..N \subseteq S
<1> DEFINE Bad == {n \in 0..N : n \notin S}
<1> SUFFICES ASSUME Bad # {} PROVE FALSE
  OBVIOUS
<1>1. PICK n \in Bad : \A m \in Bad : ~(m < n)
  <2>1. Bad \subseteq Nat
    OBVIOUS
  <2> HIDE DEF Bad
  <2>2. PICK n \in Bad : \A m \in Bad : ~(<<m, n>> \in OpToRel(<, Nat))
    BY <2>1, WFMin, NatLessThanWellFounded
  <2> QED
    BY <2>1, <2>2 DEF OpToRel
<1>2. n # 0 /\ n - 1 \in 0..(N - 1) /\ n - 1 \notin Bad
  BY <1>1
<1> QED
  BY <1>1, <1>2
---------------------------------------------------------------------------
(* Units and frames.                                                       *)

\* A unit is of a message, and its position is within it.
LEMMA UnitIs ==
  ASSUME NEW u \in Units
  PROVE  /\ u.msg \in Messages /\ Sizes[u.msg] \in Nat \ {0}
         /\ u.pos \in 1..Sizes[u.msg] /\ u.pos \in Nat
<1>1. PICK m \in Messages : u \in {[msg |-> m, pos |-> i] : i \in 1..Sizes[m]}
  BY DEF Units
<1>2. Sizes[m] \in Nat \ {0}
  BY SizesAssumption DEF Messages
<1>3. PICK i \in 1..Sizes[m] : u = [msg |-> m, pos |-> i]
  BY <1>1
<1> QED
  BY <1>2, <1>3

\* From its first unit a frame runs on as far as the buffer goes.
LEMMA FrameRuns ==
  ASSUME NEW buf \in Seq(Units), Linked(buf), NEW p \in 1..Len(buf), buf[p].pos = 1,
         NEW k \in Nat, k < Sizes[buf[p].msg], p + k <= Len(buf)
  PROVE  buf[p + k].msg = buf[p].msg /\ buf[p + k].pos = k + 1
<1> DEFINE m == buf[p].msg
           S == {i \in Nat : (i < Sizes[m] /\ p + i <= Len(buf)) =>
                               buf[p + i].msg = m /\ buf[p + i].pos = i + 1}
<1>0. Sizes[m] \in Nat /\ p \in Nat /\ Len(buf) \in Nat
  BY UnitIs
<1>1. 0 \in S
  BY <1>0
<1>2. ASSUME NEW i \in Nat, i \in S PROVE i + 1 \in S
  <2> SUFFICES ASSUME i + 1 < Sizes[m], p + (i + 1) <= Len(buf)
               PROVE  buf[p + (i + 1)].msg = m /\ buf[p + (i + 1)].pos = (i + 1) + 1
    OBVIOUS
  <2>1. /\ p + i \in 1..(Len(buf) - 1) /\ (p + i) + 1 = p + (i + 1)
        /\ i < Sizes[m] /\ p + i <= Len(buf) /\ i + 1 # Sizes[m]
    BY <1>0
  <2>2. buf[p + i].msg = m /\ buf[p + i].pos = i + 1
    BY <1>2, <2>1
  <2>3. Follows(buf[p + i], buf[p + (i + 1)])
    BY <2>1 DEF Linked
  <2> HIDE DEF m
  <2> QED
    BY <2>1, <2>2, <2>3 DEF Follows, Closes
<1> HIDE DEF S
<1>3. \A i \in 0..(k - 1) : i \in S => i + 1 \in S
  BY <1>2
<1>4. 0..k \subseteq S
  BY <1>1, <1>3, UpTo
<1> QED
  BY <1>4 DEF S

\* The frame of a message is one.
LEMMA FrameIs ==
  ASSUME NEW m \in Messages
  PROVE  /\ serialize(m) \in Seq(Units) /\ Linked(serialize(m)) /\ Closed(serialize(m))
         /\ Len(serialize(m)) = Sizes[m] /\ Sizes[m] \in Nat \ {0}
         /\ \A i \in 1..Sizes[m] : serialize(m)[i] = [msg |-> m, pos |-> i]
<1> DEFINE s == serialize(m)
<1>1. Sizes[m] \in Nat \ {0}
  BY SizesAssumption DEF Messages
<1>2. s = [i \in 1..Sizes[m] |-> [msg |-> m, pos |-> i]]
  BY DEF serialize
<1>3. \A i \in 1..Sizes[m] : [msg |-> m, pos |-> i] \in Units
  BY DEF Units
<1>4. s \in Seq(Units) /\ Len(s) = Sizes[m] /\ \A i \in 1..Sizes[m] : s[i] = [msg |-> m, pos |-> i]
  BY <1>1, <1>2, <1>3
<1> HIDE DEF s
<1>5. ASSUME NEW i \in 1..Sizes[m] PROVE s[i].msg = m /\ s[i].pos = i
  <2>1. s[i] = [msg |-> m, pos |-> i]
    BY <1>4
  <2> QED
    BY <2>1
<1>6. \A i \in 1..(Sizes[m] - 1) : i \in 1..Sizes[m] /\ i + 1 \in 1..Sizes[m] /\ i # Sizes[m]
  BY <1>1
<1>7. Linked(s)
  BY <1>1, <1>4, <1>5, <1>6 DEF Linked, Follows, Closes
<1>8. Closed(s)
  BY <1>1, <1>4, <1>5 DEF Closed, Closes
<1> QED
  BY <1>1, <1>4, <1>7, <1>8 DEF s

\* Frames after whole frames.
LEMMA LinkedConcat ==
  ASSUME NEW a \in Seq(Units), NEW b \in Seq(Units), Linked(a), Closed(a), Linked(b)
  PROVE  Linked(a \o b) /\ (Closed(b) => Closed(a \o b))
<1> DEFINE s == a \o b
<1>1. /\ s \in Seq(Units) /\ Len(s) = Len(a) + Len(b) /\ Len(a) \in Nat /\ Len(b) \in Nat
      /\ \A i \in 1..(Len(a) + Len(b)) : s[i] = IF i <= Len(a) THEN a[i] ELSE b[i - Len(a)]
  BY ConcatProperties
<1> HIDE DEF s
<1>2. ASSUME NEW i \in 1..(Len(s) - 1) PROVE Follows(s[i], s[i + 1])
  <2>1. i \in 1..(Len(a) + Len(b)) /\ i + 1 \in 1..(Len(a) + Len(b))
    BY <1>1
  <2>2. CASE i < Len(a)
    <3>1. s[i] = a[i] /\ s[i + 1] = a[i + 1] /\ i \in 1..(Len(a) - 1)
      BY <1>1, <2>1, <2>2
    <3> QED
      BY <3>1 DEF Linked
  <2>3. CASE i = Len(a)
    <3>1. s[i] = a[Len(a)] /\ s[i + 1] = b[1] /\ Len(a) > 0 /\ Len(b) > 0
      BY <1>1, <2>1, <2>3
    <3>2. Closes(s[i]) /\ s[i + 1].pos = 1
      BY <3>1 DEF Linked, Closed
    <3> QED
      BY <3>2 DEF Follows
  <2>4. CASE i > Len(a)
    <3>1. /\ s[i] = b[i - Len(a)] /\ s[i + 1] = b[(i - Len(a)) + 1]
          /\ i - Len(a) \in 1..(Len(b) - 1)
      BY <1>1, <2>1, <2>4
    <3> QED
      BY <3>1 DEF Linked
  <2> QED
    BY <1>1, <2>2, <2>3, <2>4
<1>3. Len(s) > 0 => s[1].pos = 1
  <2>1. CASE Len(a) > 0
    <3>1. s[1] = a[1]
      BY <1>1, <2>1
    <3> QED
      BY <2>1, <3>1 DEF Linked
  <2>2. CASE Len(a) = 0
    <3>1. Len(s) > 0 => s[1] = b[1] /\ Len(b) > 0
      BY <1>1, <2>2
    <3> QED
      BY <3>1 DEF Linked
  <2> QED
    BY <1>1, <2>1, <2>2
<1>4. Closed(b) => Closed(s)
  <2>1. CASE Len(b) > 0
    <3>1. s[Len(s)] = b[Len(b)]
      BY <1>1, <2>1
    <3> QED
      BY <2>1, <3>1 DEF Closed
  <2>2. CASE Len(b) = 0
    <3>1. Len(s) = Len(a) /\ (Len(a) > 0 => s[Len(s)] = a[Len(a)])
      BY <1>1, <2>2
    <3> QED
      BY <3>1 DEF Closed
  <2> QED
    BY <1>1, <2>1, <2>2
<1> QED
  BY <1>2, <1>3, <1>4 DEF s, Linked

\* A part of a stream from a boundary of frames on.
LEMMA LinkedSuffix ==
  ASSUME NEW s \in Seq(Units), Linked(s), NEW c \in 0..Len(s), c = 0 \/ Closes(s[c])
  PROVE  LET rest == SubSeq(s, c + 1, Len(s))
         IN  /\ rest \in Seq(Units) /\ Len(rest) = Len(s) - c
             /\ \A i \in 1..Len(rest) : i + c \in 1..Len(s) /\ rest[i] = s[i + c]
             /\ Linked(rest) /\ (Closed(s) => Closed(rest))
<1> DEFINE rest == SubSeq(s, c + 1, Len(s))
<1>1. /\ rest \in Seq(Units) /\ Len(rest) = Len(s) - c /\ Len(s) \in Nat
      /\ \A i \in 1..Len(rest) : i + c \in 1..Len(s) /\ rest[i] = s[i + c]
  OBVIOUS
<1> HIDE DEF rest
<1>2. ASSUME NEW i \in 1..(Len(rest) - 1) PROVE Follows(rest[i], rest[i + 1])
  <2>1. /\ i \in 1..Len(rest) /\ i + 1 \in 1..Len(rest)
        /\ (i + 1) + c = (i + c) + 1 /\ i + c \in 1..(Len(s) - 1)
    BY <1>1
  <2>2. rest[i] = s[i + c] /\ rest[i + 1] = s[(i + c) + 1]
    BY <1>1, <2>1
  <2> QED
    BY <2>1, <2>2 DEF Linked
<1>3. Len(rest) > 0 => rest[1].pos = 1
  <2> SUFFICES ASSUME Len(rest) > 0 PROVE rest[1].pos = 1
    OBVIOUS
  <2>1. rest[1] = s[c + 1] /\ Len(s) > 0 /\ (c # 0 => c \in 1..(Len(s) - 1))
    BY <1>1
  <2>2. CASE c = 0
    BY <2>1, <2>2 DEF Linked
  <2>3. CASE c # 0
    BY <2>1, <2>3 DEF Linked, Follows
  <2> QED
    BY <2>2, <2>3
<1>4. Closed(s) => Closed(rest)
  <2>1. Len(rest) > 0 => Len(s) > 0 /\ rest[Len(rest)] = s[Len(s)]
    BY <1>1
  <2> QED
    BY <2>1 DEF Closed
<1> QED
  BY <1>1, <1>2, <1>3, <1>4 DEF rest, Linked

\* A part of a stream from its beginning.
LEMMA LinkedPrefix ==
  ASSUME NEW a \in Seq(Units), NEW b \in Seq(Units), Linked(a \o b)
  PROVE  Linked(a)
<1> DEFINE s == a \o b
<1>1. /\ s \in Seq(Units) /\ Len(s) = Len(a) + Len(b) /\ Len(a) \in Nat /\ Len(b) \in Nat
      /\ \A i \in 1..(Len(a) + Len(b)) : s[i] = IF i <= Len(a) THEN a[i] ELSE b[i - Len(a)]
  BY ConcatProperties
<1>0. Linked(s)
  OBVIOUS
<1> HIDE DEF s
<1>2. \A i \in 1..Len(a) : s[i] = a[i] /\ i \in 1..Len(s)
  BY <1>1
<1>3. \A i \in 1..(Len(a) - 1) : i \in 1..Len(a) /\ i + 1 \in 1..Len(a) /\ i \in 1..(Len(s) - 1)
  BY <1>1
<1>4. Len(a) > 0 => Len(s) > 0 /\ 1 \in 1..Len(a)
  BY <1>1
<1> QED
  BY <1>0, <1>2, <1>3, <1>4 DEF Linked
---------------------------------------------------------------------------
(* decode.                                                                 *)

Size(buf, o) == Sizes[buf[o + 1].msg]
Frame(buf, f, o) ==
  IF Whole(buf, o)
    THEN LET rest == f[o + Size(buf, o)]
         IN  [consumed |-> rest.consumed, msgs |-> <<buf[o + 1].msg>> \o rest.msgs]
    ELSE [consumed |-> o, msgs |-> <<>>]
IsScan(buf, f, a) == f = [o \in a..Len(buf) |-> Frame(buf, f, o)]
Scan(buf) == CHOOSE f : IsScan(buf, f, 0)

\* A whole frame ends further on, and in the buffer.
LEMMA WholeIs ==
  ASSUME NEW buf \in Seq(Units), NEW o \in 0..Len(buf), Whole(buf, o)
  PROVE  /\ o + 1 \in 1..Len(buf) /\ buf[o + 1] \in Units /\ buf[o + 1].pos = 1
         /\ buf[o + 1].msg \in Messages /\ Size(buf, o) \in Nat \ {0}
         /\ o + Size(buf, o) \in (o + 1)..Len(buf) /\ o + Size(buf, o) \in 0..Len(buf)
<1>1. o + 1 \in 1..Len(buf) /\ buf[o + 1].pos = 1 /\ o + Size(buf, o) <= Len(buf)
  BY DEF Whole, Size
<1>2. buf[o + 1] \in Units
  BY <1>1
<1>3. buf[o + 1].msg \in Messages /\ Size(buf, o) \in Nat \ {0}
  BY <1>2, UnitIs DEF Size
<1> QED
  BY <1>1, <1>2, <1>3

\* There is a function such as decode defines.
LEMMA ScanExists ==
  ASSUME NEW buf \in Seq(Units)
  PROVE  \E f : IsScan(buf, f, 0)
<1> DEFINE N == Len(buf)
           S == {k \in Nat : k <= N => \E f : IsScan(buf, f, N - k)}
<1>0. N \in Nat
  OBVIOUS
<1>1. 0 \in S
  <2> DEFINE f == [o \in N..N |-> [consumed |-> o, msgs |-> <<>>]]
  <2>1. ~Whole(buf, N)
    BY DEF Whole
  <2>2. \A o \in N..N : o = N
    BY <1>0
  <2>3. \A g : \A o \in N..N : Frame(buf, g, o) = [consumed |-> o, msgs |-> <<>>]
    BY <2>1, <2>2 DEF Frame
  <2>4. [o \in N..N |-> Frame(buf, f, o)] = f
    BY <2>3
  <2> HIDE DEF f
  <2>5. IsScan(buf, f, N)
    BY <2>4 DEF IsScan
  <2>6. N - 0 = N
    BY <1>0
  <2> QED
    BY <2>5, <2>6
<1>2. ASSUME NEW k \in Nat, k \in S PROVE k + 1 \in S
  <2> SUFFICES ASSUME k + 1 <= N PROVE \E g : IsScan(buf, g, N - (k + 1))
    OBVIOUS
  <2> DEFINE a == N - k
             b == N - (k + 1)
  <2>1. a \in 1..N /\ b \in 0..N /\ b + 1 = a /\ k <= N
    BY <1>0
  <2>2. PICK f : IsScan(buf, f, a)
    BY <1>2, <2>1
  <2> DEFINE g == [o \in b..N |-> IF o = b THEN Frame(buf, f, b) ELSE f[o]]
  <2> HIDE DEF a, b
  <2>a. \A o \in a..N : f[o] = Frame(buf, f, o)
    BY <2>2 DEF IsScan
  <2>b. (\A o \in a..N : o \in b..N /\ o # b) /\ \A o \in b..N : o = b \/ o \in a..N
    BY <1>0, <2>1
  <2>3. \A o \in a..N : f[o] = Frame(buf, f, o) /\ g[o] = f[o]
    BY <2>a, <2>b
  <2>4. ASSUME NEW o \in b..N PROVE Frame(buf, g, o) = Frame(buf, f, o)
    <3>1. o \in 0..N
      BY <1>0, <2>1
    <3>2. CASE Whole(buf, o)
      <4>1. o + Size(buf, o) \in a..N
        BY <1>0, <2>1, <3>1, <3>2, WholeIs
      <4>2. g[o + Size(buf, o)] = f[o + Size(buf, o)]
        BY <2>3, <4>1
      <4> HIDE DEF g
      <4> QED
        BY <3>2, <4>2 DEF Frame
    <3>3. CASE ~Whole(buf, o)
      BY <3>3 DEF Frame
    <3> QED
      BY <3>2, <3>3
  <2>5. \A o \in b..N : g[o] = Frame(buf, f, o)
    BY <2>a, <2>b
  <2>6. g = [o \in b..N |-> g[o]]
    OBVIOUS
  <2> HIDE DEF g
  <2>7. g = [o \in b..N |-> Frame(buf, g, o)]
    BY <2>4, <2>5, <2>6
  <2>8. IsScan(buf, g, b)
    BY <2>7 DEF IsScan
  <2> QED
    BY <2>8 DEF b
<1> HIDE DEF S
<1>3. \A k \in 0..(N - 1) : k \in S => k + 1 \in S
  BY <1>2
<1>4. N \in S
  <2> HIDE DEF N
  <2>1. 0..N \subseteq S
    BY <1>0, <1>1, <1>3, UpTo
  <2> QED
    BY <1>0, <2>1
<1>5. N - N = 0 /\ N <= N
  BY <1>0
<1> QED
  BY <1>4, <1>5 DEF S

\* decode reads frame after frame.
LEMMA ScanIs ==
  ASSUME NEW buf \in Seq(Units)
  PROVE  /\ decode(buf) = Scan(buf)[0]
         /\ \A o \in 0..Len(buf) : Scan(buf)[o] = Frame(buf, Scan(buf), o)
<1>1. decode(buf) = Scan(buf)[0]
  BY Zenon DEF decode, Scan, IsScan, Frame, Size
<1>2. IsScan(buf, Scan(buf), 0)
  BY ScanExists, Zenon DEF Scan
<1>3. PICK f : f = Scan(buf)
  OBVIOUS
<1>4. \A o \in 0..Len(buf) : f[o] = Frame(buf, f, o)
  BY <1>2, <1>3 DEF IsScan
<1> QED
  BY <1>1, <1>3, <1>4

\* What holds of decode from every place at which it stops, and from every
\* place before a frame from the place behind it, holds of it from the start.
LEMMA ScanInduction ==
  ASSUME NEW buf \in Seq(Units), NEW P,
         \A o \in 0..Len(buf) : ~Whole(buf, o) => o \in P,
         \A o \in 0..Len(buf) : (Whole(buf, o) /\ o + Size(buf, o) \in P) => o \in P
  PROVE  0..Len(buf) \subseteq P
<1> DEFINE N == Len(buf)
           S == {k \in Nat : \A o \in 0..N : N - k <= o => o \in P}
<1>0. N \in Nat
  OBVIOUS
<1>1. 0 \in S
  <2>1. \A o \in 0..N : N - 0 <= o => ~Whole(buf, o)
    BY <1>0 DEF Whole
  <2> QED
    BY <2>1
<1>2. ASSUME NEW k \in Nat, k \in S PROVE k + 1 \in S
  <2> SUFFICES ASSUME NEW o \in 0..N, N - (k + 1) <= o PROVE o \in P
    OBVIOUS
  <2>1. CASE ~Whole(buf, o)
    BY <2>1
  <2>2. CASE Whole(buf, o)
    <3>1. o + Size(buf, o) \in 0..N /\ N - k <= o + Size(buf, o)
      BY <1>0, <2>2, WholeIs
    <3>2. o + Size(buf, o) \in P
      BY <1>2, <3>1
    <3> QED
      BY <2>2, <3>2
  <2> QED
    BY <2>1, <2>2
<1> HIDE DEF S
<1>3. \A k \in 0..(N - 1) : k \in S => k + 1 \in S
  BY <1>2
<1>4. N \in S
  <2> HIDE DEF N
  <2>1. 0..N \subseteq S
    BY <1>0, <1>1, <1>3, UpTo
  <2> QED
    BY <1>0, <2>1
<1>5. \A o \in 0..N : N - N <= o
  BY <1>0
<1> QED
  BY <1>4, <1>5 DEF S

\* One step of decode: where it stops, and what a whole frame adds.
LEMMA ScanStep ==
  ASSUME NEW buf \in Seq(Units), NEW o \in 0..Len(buf)
  PROVE  /\ ~Whole(buf, o) => Scan(buf)[o].consumed = o /\ Scan(buf)[o].msgs = <<>>
         /\ Whole(buf, o) =>
              /\ Scan(buf)[o].consumed = Scan(buf)[o + Size(buf, o)].consumed
              /\ Scan(buf)[o].msgs = <<buf[o + 1].msg>> \o Scan(buf)[o + Size(buf, o)].msgs
<1>1. PICK f : f = Scan(buf)
  OBVIOUS
<1>2. f[o] = Frame(buf, f, o)
  BY <1>1, ScanIs
<1>3. CASE Whole(buf, o)
  <2>1. PICK rest : rest = f[o + Size(buf, o)]
    OBVIOUS
  <2>2. f[o] = [consumed |-> rest.consumed, msgs |-> <<buf[o + 1].msg>> \o rest.msgs]
    BY <1>2, <1>3, <2>1 DEF Frame
  <2>3. f[o].consumed = rest.consumed /\ f[o].msgs = <<buf[o + 1].msg>> \o rest.msgs
    BY <2>2
  <2> QED
    BY <1>1, <1>3, <2>1, <2>3
<1>4. CASE ~Whole(buf, o)
  <2>1. f[o] = [consumed |-> o, msgs |-> <<>>]
    BY <1>2, <1>4 DEF Frame
  <2>2. f[o].consumed = o /\ f[o].msgs = <<>>
    BY <2>1
  <2> QED
    BY <1>1, <1>4, <2>2
<1> QED
  BY <1>3, <1>4

\* From any place decode consumes no more than there is, and finds messages.
LEMMA ScanType ==
  ASSUME NEW buf \in Seq(Units)
  PROVE  \A o \in 0..Len(buf) : /\ Scan(buf)[o].consumed \in 0..Len(buf)
                                /\ Scan(buf)[o].msgs \in Seq(Messages)
<1> DEFINE f == Scan(buf)
           P == {o \in 0..Len(buf) : f[o].consumed \in 0..Len(buf) /\ f[o].msgs \in Seq(Messages)}
<1>1. ASSUME NEW o \in 0..Len(buf), ~Whole(buf, o) PROVE o \in P
  <2>1. f[o].consumed = o /\ f[o].msgs = <<>>
    BY <1>1, ScanStep
  <2>2. <<>> \in Seq(Messages)
    OBVIOUS
  <2> HIDE DEF f
  <2> QED
    BY <2>1, <2>2, Zenon
<1>2. ASSUME NEW o \in 0..Len(buf), Whole(buf, o), o + Size(buf, o) \in P PROVE o \in P
  <2>1. PICK ms \in Seq(Messages) : ms = f[o + Size(buf, o)].msgs
    BY <1>2
  <2>2. PICK m \in Messages : m = buf[o + 1].msg
    BY <1>2, WholeIs
  <2>3. f[o].consumed \in 0..Len(buf)
    BY <1>2, ScanStep
  <2>4. f[o].msgs = <<m>> \o ms
    BY <1>2, <2>1, <2>2, ScanStep
  <2> HIDE DEF f
  <2>5. <<m>> \o ms \in Seq(Messages)
    OBVIOUS
  <2> QED
    BY <2>3, <2>4, <2>5, Zenon
<1> HIDE DEF P
<1>3. 0..Len(buf) \subseteq P
  BY <1>1, <1>2, ScanInduction
<1> QED
  BY <1>3 DEF P

\* decode consumes no more than there is, and finds messages.
LEMMA DecodeType ==
  ASSUME NEW buf \in Seq(Units)
  PROVE  decode(buf).consumed \in 0..Len(buf) /\ decode(buf).msgs \in Seq(Messages)
<1>1. 0 \in 0..Len(buf)
  OBVIOUS
<1> QED
  BY <1>1, ScanIs, ScanType

\* The frames of a buffer whose messages are not in C are in the order of their messages.
InOrder(s, C) ==
  \A i, j \in 1..Len(s) :
    (i < j /\ s[i].pos = 1 /\ s[j].pos = 1 /\ s[i].msg \notin C /\ s[j].msg \notin C)
      => s[i].msg < s[j].msg

\* What decode finds from o on, if a frame begins there.
Found(buf, C, o, c, ms) ==
  /\ c \in o..Len(buf) /\ (c = 0 \/ Closes(buf[c])) /\ (Closed(buf) => c = Len(buf))
  /\ ms \in Seq(Messages)
  /\ \A i \in 1..Len(ms) : \E p \in (o + 1)..c : buf[p].pos = 1 /\ buf[p].msg = ms[i]
  /\ \A i, j \in 1..Len(ms) : (i < j /\ ms[i] \notin C /\ ms[j] \notin C) => ms[i] < ms[j]

\* Where decode stops at the beginning of a frame, the frame is cut.
LEMMA StopIsCut ==
  ASSUME NEW buf \in Seq(Units), Linked(buf), NEW o \in 0..Len(buf), o = 0 \/ Closes(buf[o]),
         ~Whole(buf, o), Closed(buf)
  PROVE  o = Len(buf)
<1> SUFFICES ASSUME o < Len(buf) PROVE FALSE
  OBVIOUS
<1>1. buf[o + 1].pos = 1 /\ o + 1 \in 1..Len(buf)
  <2>1. CASE o = 0
    BY <2>1 DEF Linked
  <2>2. CASE o # 0
    <3>1. o \in 1..(Len(buf) - 1) /\ o + 1 \in 1..Len(buf)
      BY <2>2
    <3>2. Follows(buf[o], buf[o + 1]) /\ Closes(buf[o])
      BY <2>2, <3>1 DEF Linked
    <3> QED
      BY <3>1, <3>2 DEF Follows
  <2> QED
    BY <2>1, <2>2
<1>2. PICK m : m = buf[o + 1].msg
  OBVIOUS
<1>3. Sizes[m] \in Nat \ {0}
  <2>1. buf[o + 1] \in Units
    BY <1>1
  <2> QED
    BY <1>2, <2>1, UnitIs
<1>4. PICK k \in Nat : k = Len(buf) - (o + 1)
  BY <1>1
<1>5. o + Sizes[m] > Len(buf)
  BY <1>1, <1>2, <1>3 DEF Whole
<1>6. k < Sizes[m] /\ (o + 1) + k = Len(buf) /\ k + 1 # Sizes[m] /\ Len(buf) > 0
  BY <1>3, <1>4, <1>5
<1>7. buf[Len(buf)].msg = m /\ buf[Len(buf)].pos = k + 1
  <2>1. (o + 1) + k <= Len(buf)
    BY <1>6
  <2>2. buf[(o + 1) + k].msg = m /\ buf[(o + 1) + k].pos = k + 1
    BY <1>1, <1>2, <1>6, <2>1, FrameRuns
  <2> QED
    BY <1>6, <2>2
<1> QED
  BY <1>6, <1>7 DEF Closed, Closes

\* A whole frame ends with its last unit.
LEMMA WholeCloses ==
  ASSUME NEW buf \in Seq(Units), Linked(buf), NEW o \in 0..Len(buf), Whole(buf, o)
  PROVE  Closes(buf[o + Size(buf, o)])
<1>1. PICK n \in Nat \ {0} : n = Size(buf, o)
  BY WholeIs
<1>2. /\ o + 1 \in 1..Len(buf) /\ buf[o + 1].pos = 1 /\ o + n \in 0..Len(buf)
      /\ n = Sizes[buf[o + 1].msg]
  BY <1>1, WholeIs DEF Size
<1>3. PICK k \in Nat : k = n - 1
  OBVIOUS
<1>a. o + n <= Len(buf) /\ o \in Nat /\ Len(buf) \in Nat
  BY <1>2
<1>4. (o + 1) + k = o + n /\ k < n /\ (o + 1) + k <= Len(buf) /\ k + 1 = n
  BY <1>3, <1>a
<1>5. buf[(o + 1) + k].msg = buf[o + 1].msg /\ buf[(o + 1) + k].pos = k + 1
  BY <1>2, <1>4, FrameRuns
<1> QED
  BY <1>1, <1>2, <1>4, <1>5 DEF Closes

(***************************************************************************)
(* decode takes whole frames up to a boundary, all of them if the last one *)
(* is whole, and finds their messages in order.                            *)
(***************************************************************************)
LEMMA DecodeIs ==
  ASSUME NEW buf \in Seq(Units), Linked(buf), NEW C, InOrder(buf, C)
  PROVE  Found(buf, C, 0, decode(buf).consumed, decode(buf).msgs)
<1> DEFINE f == Scan(buf)
           P == {o \in 0..Len(buf) : (o = 0 \/ Closes(buf[o])) =>
                                       Found(buf, C, o, f[o].consumed, f[o].msgs)}
<1>1. \A o \in 0..Len(buf) : f[o] = Frame(buf, f, o)
  BY ScanIs
<1> HIDE DEF f
<1>2. ASSUME NEW o \in 0..Len(buf), ~Whole(buf, o) PROVE o \in P
  <2> SUFFICES ASSUME o = 0 \/ Closes(buf[o])
               PROVE  Found(buf, C, o, f[o].consumed, f[o].msgs)
    OBVIOUS
  <2>1. f[o] = [consumed |-> o, msgs |-> <<>>]
    BY <1>1, <1>2 DEF Frame
  <2>2. Closed(buf) => o = Len(buf)
    BY <1>2, StopIsCut
  <2>3. Found(buf, C, o, o, <<>>)
    BY <2>2 DEF Found
  <2> QED
    BY <2>1, <2>3
<1>3. ASSUME NEW o \in 0..Len(buf), Whole(buf, o), o + Size(buf, o) \in P PROVE o \in P
  <2> SUFFICES ASSUME o = 0 \/ Closes(buf[o])
               PROVE  Found(buf, C, o, f[o].consumed, f[o].msgs)
    OBVIOUS
  <2>1. PICK n : n = o + Size(buf, o)
    OBVIOUS
  <2>2. PICK m : m = buf[o + 1].msg
    OBVIOUS
  <2>3. PICK c : c = f[n].consumed
    OBVIOUS
  <2>4. PICK ms : ms = f[n].msgs
    OBVIOUS
  <2>5. /\ o + 1 \in 1..Len(buf) /\ buf[o + 1].pos = 1 /\ m \in Messages
        /\ n \in (o + 1)..Len(buf)
    BY <1>3, <2>1, <2>2, WholeIs
  <2>6. Found(buf, C, n, c, ms)
    BY <1>3, <2>1, <2>3, <2>4, WholeCloses
  <2>7. f[o] = [consumed |-> c, msgs |-> <<m>> \o ms]
    BY <1>1, <1>3, <2>1, <2>2, <2>3, <2>4 DEF Frame
  <2>8. PICK all : all = <<m>> \o ms
    OBVIOUS
  <2>9. /\ all \in Seq(Messages) /\ Len(all) = Len(ms) + 1 /\ all[1] = m
        /\ \A i \in 2..Len(all) : i - 1 \in 1..Len(ms) /\ all[i] = ms[i - 1]
    BY <2>5, <2>6, <2>8 DEF Found
  <2>10. c \in n..Len(buf) /\ c \in o..Len(buf)
    BY <2>5, <2>6 DEF Found
  <2>11. ASSUME NEW i \in 2..Len(all)
         PROVE  \E p \in (n + 1)..c : buf[p].pos = 1 /\ buf[p].msg = all[i]
    BY <2>6, <2>9 DEF Found
  <2>12. ASSUME NEW i \in 1..Len(all)
         PROVE  \E p \in (o + 1)..c : buf[p].pos = 1 /\ buf[p].msg = all[i]
    <3>1. CASE i = 1
      <4>1. o + 1 \in (o + 1)..c
        BY <2>5, <2>10
      <4> QED
        BY <2>2, <2>5, <2>9, <3>1, <4>1
    <3>2. CASE i # 1
      <4>1. PICK p \in (n + 1)..c : buf[p].pos = 1 /\ buf[p].msg = all[i]
        BY <2>11, <3>2
      <4>2. p \in (o + 1)..c
        BY <2>5, <2>10
      <4> QED
        BY <4>1, <4>2
    <3> QED
      BY <3>1, <3>2
  <2>13. ASSUME NEW i \in 1..Len(all), NEW j \in 1..Len(all), i < j,
                all[i] \notin C, all[j] \notin C
         PROVE  all[i] < all[j]
    <3>1. CASE i = 1
      <4>1. PICK p \in (n + 1)..c : buf[p].pos = 1 /\ buf[p].msg = all[j]
        BY <2>11, <2>13, <3>1
      <4>2. p \in 1..Len(buf) /\ o + 1 < p
        BY <2>5, <2>10
      <4> QED
        BY <2>2, <2>5, <2>9, <2>13, <3>1, <4>1, <4>2 DEF InOrder
    <3>2. CASE i # 1
      <4>1. i \in 2..Len(all) /\ j \in 2..Len(all) /\ i - 1 < j - 1
        BY <2>13, <3>2
      <4>2. /\ i - 1 \in 1..Len(ms) /\ all[i] = ms[i - 1]
            /\ j - 1 \in 1..Len(ms) /\ all[j] = ms[j - 1]
        BY <2>9, <4>1
      <4> QED
        BY <2>6, <2>13, <4>1, <4>2 DEF Found
    <3> QED
      BY <3>1, <3>2
  <2>14. Found(buf, C, o, c, all)
    BY <2>6, <2>9, <2>10, <2>12, <2>13 DEF Found
  <2> QED
    BY <2>7, <2>8, <2>14
<1> HIDE DEF P
<1>4. 0..Len(buf) \subseteq P
  BY <1>2, <1>3, ScanInduction
<1>5. 0 \in 0..Len(buf)
  OBVIOUS
<1>6. 0 \in P
  BY <1>4, <1>5
<1> QED
  BY <1>6, ScanIs DEF P, f

\* What is left of a stream when the first c units of its first part are taken.
LEMMA SuffixConcat ==
  ASSUME NEW a \in Seq(Units), NEW b \in Seq(Units), NEW c \in 0..Len(a)
  PROVE  SubSeq(a, c + 1, Len(a)) \o b = SubSeq(a \o b, c + 1, Len(a \o b))
<1>1. /\ a \o b \in Seq(Units) /\ Len(a \o b) = Len(a) + Len(b)
      /\ \A i \in 1..(Len(a) + Len(b)) : (a \o b)[i] = IF i <= Len(a) THEN a[i] ELSE b[i - Len(a)]
  BY ConcatProperties
<1>2. PICK n \in Nat : n = Len(a)
  OBVIOUS
<1>3. PICK m \in Nat : m = Len(b)
  OBVIOUS
<1>4. PICK s \in Seq(Units) : s = a \o b /\ Len(s) = n + m
  BY <1>1, <1>2, <1>3
<1>5. PICK p : p = SubSeq(a, c + 1, n)
  OBVIOUS
<1>6. PICK q : q = SubSeq(s, c + 1, n + m)
  OBVIOUS
<1>7. /\ p \in Seq(Units) /\ Len(p) = n - c
      /\ \A i \in 1..(n - c) : p[i] = a[i + c]
  <2>1. c \in 0..n
    BY <1>2
  <2> QED
    BY <1>2, <1>5, <2>1
<1>8. /\ q \in Seq(Units) /\ Len(q) = (n + m) - c
      /\ \A i \in 1..((n + m) - c) : q[i] = s[i + c]
  <2>1. c \in 0..(n + m)
    BY <1>2
  <2> QED
    BY <1>4, <1>6, <2>1
<1>9. /\ p \o b \in Seq(Units) /\ Len(p \o b) = (n - c) + m
      /\ \A i \in 1..((n - c) + m) : (p \o b)[i] = IF i <= n - c THEN p[i] ELSE b[i - (n - c)]
  <2>1. /\ p \o b \in Seq(Units) /\ Len(p \o b) = Len(p) + Len(b)
        /\ \A i \in 1..(Len(p) + Len(b)) : (p \o b)[i] = IF i <= Len(p) THEN p[i] ELSE b[i - Len(p)]
    BY <1>7, ConcatProperties, Zenon
  <2> QED
    BY <1>3, <1>7, <2>1, Zenon
<1>10. ASSUME NEW i \in 1..((n - c) + m) PROVE (p \o b)[i] = q[i]
  <2>1. c \in Nat /\ c <= n /\ i \in 1..((n + m) - c) /\ i + c \in 1..(n + m)
    BY <1>2
  <2>2. q[i] = IF i + c <= n THEN a[i + c] ELSE b[(i + c) - n]
    BY <1>1, <1>2, <1>3, <1>4, <1>8, <2>1
  <2>3. CASE i <= n - c
    <3>1. i + c <= n /\ i \in 1..(n - c)
      BY <2>1, <2>3
    <3> QED
      BY <1>7, <1>9, <2>2, <2>3, <3>1
  <2>4. CASE ~(i <= n - c)
    <3>1. ~(i + c <= n) /\ (i + c) - n = i - (n - c)
      BY <2>1, <2>4
    <3> QED
      BY <1>9, <2>2, <2>4, <3>1
  <2> QED
    BY <2>3, <2>4
<1>11. Len(p \o b) = Len(q)
  BY <1>8, <1>9
<1>12. p \o b = q
  BY <1>8, <1>9, <1>10, <1>11, SeqEqual
<1> QED
  BY <1>2, <1>4, <1>5, <1>6, <1>12

Associates(a, b, p) == a \o (b \o p) = (a \o b) \o p

\* Concatenation is associative.
LEMMA Longer ==
  ASSUME NEW S, NEW a \in Seq(S), NEW b \in Seq(S), NEW p \in Seq(S)
  PROVE  Associates(a, b, p)
<1>1. a \o (b \o p) = (a \o b) \o p
  BY SMT
<1> QED
  BY <1>1, Zenon DEF Associates

SameFrame(s, buf, o) == /\ o \in 0..Len(s) /\ Whole(s, o)
                        /\ s[o + 1] = buf[o + 1] /\ Size(s, o) = Size(buf, o)

\* A frame that is whole in a part of a buffer is the same frame in all of it.
LEMMA WholeInConcat ==
  ASSUME NEW buf \in Seq(Units), NEW rest \in Seq(Units), NEW s \in Seq(Units),
         s = buf \o rest, NEW o \in 0..Len(buf), Whole(buf, o)
  PROVE  SameFrame(s, buf, o)
<1>1. /\ s \in Seq(Units) /\ Len(s) = Len(buf) + Len(rest) /\ Len(buf) \in Nat /\ Len(rest) \in Nat
      /\ \A i \in 1..(Len(buf) + Len(rest)) :
           s[i] = IF i <= Len(buf) THEN buf[i] ELSE rest[i - Len(buf)]
  BY ConcatProperties
<1>2. o + 1 \in 1..Len(buf) /\ Size(buf, o) \in Nat /\ o + Size(buf, o) <= Len(buf)
  BY WholeIs DEF Whole, Size
<1>3. s[o + 1] = buf[o + 1]
  BY <1>1, <1>2
<1>4. Size(s, o) = Size(buf, o)
  BY <1>3 DEF Size
<1>5. o \in 0..Len(s) /\ o < Len(s) /\ o + Size(s, o) <= Len(s)
  BY <1>1, <1>2, <1>4
<1> QED
  BY <1>1, <1>3, <1>4, <1>5 DEF SameFrame, Whole, Size

\* From o on, decode finds in s what it finds in buf and then what begins where it stopped.
ScansOn(s, buf, o) ==
  Scan(s)[o].msgs = Scan(buf)[o].msgs \o Scan(s)[Scan(buf)[o].consumed].msgs

(***************************************************************************)
(* Where decode stops in a part of a buffer it would go on in all of it.   *)
(***************************************************************************)
LEMMA ScanConcat ==
  ASSUME NEW buf \in Seq(Units), NEW rest \in Seq(Units), NEW s \in Seq(Units), s = buf \o rest
  PROVE  \A o \in 0..Len(buf) : ScansOn(s, buf, o)
<1> DEFINE f == Scan(buf)
           g == Scan(s)
           P == {o \in 0..Len(buf) : g[o].msgs = f[o].msgs \o g[f[o].consumed].msgs}
<1>0. \A o \in 0..Len(buf) : o \in 0..Len(s)
  <2>1. Len(s) = Len(buf) + Len(rest) /\ Len(buf) \in Nat /\ Len(rest) \in Nat
    BY ConcatProperties
  <2> QED
    BY <2>1
<1>1. ASSUME NEW o \in 0..Len(buf), ~Whole(buf, o) PROVE o \in P
  <2>1. f[o].consumed = o /\ f[o].msgs = <<>>
    BY <1>1, ScanStep
  <2>2. PICK ms \in Seq(Messages) : ms = g[o].msgs
    BY <1>0, ScanType
  <2>3. <<>> \o ms = ms
    OBVIOUS
  <2> HIDE DEF f, g
  <2> QED
    BY <2>1, <2>2, <2>3, Zenon
<1>2. ASSUME NEW o \in 0..Len(buf), Whole(buf, o), o + Size(buf, o) \in P PROVE o \in P
  <2>1. PICK n \in 0..Len(buf) : n = o + Size(buf, o)
    BY <1>2, WholeIs
  <2>2. PICK m \in Messages : m = buf[o + 1].msg
    BY <1>2, WholeIs
  <2>3. PICK ms \in Seq(Messages) : ms = f[n].msgs
    BY ScanType
  <2>4. PICK c \in 0..Len(buf) : c = f[n].consumed
    BY ScanType
  <2>5. PICK tail \in Seq(Messages) : tail = g[c].msgs
    BY <1>0, ScanType
  <2>6. f[o].consumed = c /\ f[o].msgs = <<m>> \o ms
    BY <1>2, <2>1, <2>2, <2>3, <2>4, ScanStep
  <2>7. g[o].msgs = <<m>> \o g[n].msgs
    <3>0. SameFrame(s, buf, o)
      BY <1>2, WholeInConcat, Zenon
    <3>1. Whole(s, o) /\ s[o + 1] = buf[o + 1] /\ Size(s, o) = Size(buf, o) /\ o \in 0..Len(s)
      BY <3>0, Zenon DEF SameFrame
    <3>2. g[o].msgs = <<s[o + 1].msg>> \o g[o + Size(s, o)].msgs
      BY <3>1, ScanStep, Zenon
    <3> QED
      BY <2>1, <2>2, <3>1, <3>2, Zenon
  <2>8. g[n].msgs = ms \o tail
    BY <1>2, <2>1, <2>3, <2>4, <2>5
  <2>9. <<m>> \in Seq(Messages)
    OBVIOUS
  <2>10. Associates(<<m>>, ms, tail)
    BY <2>9, Longer
  <2> HIDE DEF f, g
  <2> QED
    BY <2>5, <2>6, <2>7, <2>8, <2>10, Zenon DEF Associates
<1> HIDE DEF P
<1>3. 0..Len(buf) \subseteq P
  BY <1>1, <1>2, ScanInduction
<1> QED
  BY <1>3, Zenon DEF P, ScansOn

\* What decode finds from a place on it finds in what begins there.
LEMMA ScanSuffix ==
  ASSUME NEW s \in Seq(Units), NEW c \in 0..Len(s), NEW t \in Seq(Units),
         t = SubSeq(s, c + 1, Len(s))
  PROVE  Scan(s)[c].msgs = decode(t).msgs
<1> DEFINE f == Scan(t)
           g == Scan(s)
           P == {o \in 0..Len(t) : f[o].msgs = g[o + c].msgs}
<1>0. Len(t) = Len(s) - c /\ Len(s) \in Nat /\ \A i \in 1..Len(t) : t[i] = s[i + c]
  OBVIOUS
<1>1. ASSUME NEW o \in 0..Len(t)
      PROVE  /\ o + c \in 0..Len(s) /\ (Whole(t, o) <=> Whole(s, o + c))
             /\ o < Len(t) => t[o + 1] = s[(o + c) + 1]
  <2>1. o + c \in 0..Len(s) /\ (o < Len(t) <=> o + c < Len(s))
    BY <1>0
  <2>2. CASE o < Len(t)
    <3>1. o + 1 \in 1..Len(t) /\ (o + 1) + c = (o + c) + 1
      BY <1>0, <2>2
    <3>2. t[o + 1] = s[(o + c) + 1]
      BY <1>0, <3>1
    <3>3. PICK n \in Nat : n = Sizes[t[o + 1].msg]
      <4>1. t[o + 1] \in Units
        BY <3>1
      <4> QED
        BY <4>1, UnitIs
    <3>4. o + n <= Len(t) <=> (o + c) + n <= Len(s)
      BY <1>0
    <3> QED
      BY <2>1, <2>2, <3>2, <3>3, <3>4 DEF Whole
  <2>3. CASE ~(o < Len(t))
    BY <2>1, <2>3 DEF Whole
  <2> QED
    BY <2>2, <2>3
<1>2. ASSUME NEW o \in 0..Len(t), ~Whole(t, o) PROVE o \in P
  <2>1. f[o].msgs = <<>>
    BY <1>2, ScanStep
  <2>2. g[o + c].msgs = <<>>
    BY <1>1, <1>2, ScanStep
  <2> QED
    BY <2>1, <2>2
<1>3. ASSUME NEW o \in 0..Len(t), Whole(t, o), o + Size(t, o) \in P PROVE o \in P
  <2>1. PICK p \in 0..Len(s) : p = o + c
    BY <1>1
  <2>2. PICK m \in Messages : m = t[o + 1].msg
    BY <1>3, WholeIs
  <2>3. PICK n \in Nat : n = Size(t, o)
    BY <1>3, WholeIs
  <2>4. Whole(s, p) /\ s[p + 1] = t[o + 1] /\ Size(s, p) = n
    <3>1. o < Len(t)
      BY <1>3 DEF Whole
    <3> QED
      BY <1>1, <1>3, <2>1, <2>3, <3>1 DEF Size
  <2>5. f[o].msgs = <<m>> \o f[o + n].msgs
    BY <1>3, <2>2, <2>3, ScanStep
  <2>6. g[p].msgs = <<m>> \o g[p + n].msgs
    <3>1. g[p].msgs = <<s[p + 1].msg>> \o g[p + Size(s, p)].msgs
      BY <2>4, ScanStep, Zenon
    <3> QED
      BY <2>2, <2>4, <3>1, Zenon
  <2>7. (o + n) + c = p + n
    BY <2>1
  <2>8. f[o + n].msgs = g[p + n].msgs
    BY <1>3, <2>3, <2>7
  <2> HIDE DEF f, g
  <2> QED
    BY <2>1, <2>5, <2>6, <2>8
<1> HIDE DEF P
<1>4. 0..Len(t) \subseteq P
  BY <1>2, <1>3, ScanInduction
<1>5. 0 \in 0..Len(t) /\ 0 + c = c
  OBVIOUS
<1>6. f[0].msgs = g[0 + c].msgs
  BY <1>4, <1>5 DEF P
<1> QED
  BY <1>5, <1>6, ScanIs

\* buf is the start of s, and t all that is left of s when decode is done with buf.
Splits(s, buf, rest, t) ==
  s = buf \o rest /\ t = SubSeq(s, decode(buf).consumed + 1, Len(s))

\* decode finds in s what it finds in buf and then in t.
Decodes(s, buf, t) == decode(s).msgs = decode(buf).msgs \o decode(t).msgs

(***************************************************************************)
(* A buffer decodes to what a part from its start decodes to, followed by  *)
(* what is found when decode is called again with all that was left.       *)
(***************************************************************************)
LEMMA DecodeConcat ==
  ASSUME NEW buf \in Seq(Units), NEW rest \in Seq(Units), NEW s \in Seq(Units),
         NEW t \in Seq(Units), Splits(s, buf, rest, t)
  PROVE  Decodes(s, buf, t)
<1>a. s = buf \o rest
  BY DEF Splits
<1>b. t = SubSeq(s, decode(buf).consumed + 1, Len(s))
  BY DEF Splits
<1>1. PICK c \in 0..Len(buf) : c = decode(buf).consumed
  BY DecodeType
<1>2. 0 \in 0..Len(buf) /\ c \in 0..Len(s)
  <2>1. Len(s) = Len(buf) + Len(rest) /\ Len(buf) \in Nat /\ Len(rest) \in Nat
    BY <1>a, ConcatProperties
  <2> QED
    BY <2>1
<1>3. Scan(s)[0].msgs = Scan(buf)[0].msgs \o Scan(s)[Scan(buf)[0].consumed].msgs
  <2>1. ScansOn(s, buf, 0)
    BY <1>a, <1>2, ScanConcat
  <2> QED
    BY <2>1, Zenon DEF ScansOn
<1>4. decode(s) = Scan(s)[0] /\ decode(buf) = Scan(buf)[0]
  BY ScanIs
<1>5. Scan(s)[c].msgs = decode(t).msgs
  BY <1>1, <1>2, <1>b, ScanSuffix
<1> QED
  BY <1>1, <1>3, <1>4, <1>5, Zenon DEF Decodes

\* Nothing decodes to nothing, a frame to its message.
LEMMA DecodeFrame ==
  /\ decode(<<>>).msgs = <<>>
  /\ \A m \in Messages : decode(serialize(m)).msgs = <<m>>
<1>1. ASSUME NEW s \in Seq(Units), NEW o \in 0..Len(s), o = Len(s)
      PROVE  Scan(s)[o].msgs = <<>>
  <2>1. ~Whole(s, o)
    BY <1>1 DEF Whole
  <2> QED
    BY <2>1, ScanStep
<1>2. decode(<<>>).msgs = <<>>
  <2>1. <<>> \in Seq(Units) /\ 0 \in 0..Len(<<>>) /\ 0 = Len(<<>>)
    OBVIOUS
  <2> QED
    BY <1>1, <2>1, ScanIs
<1>3. ASSUME NEW m \in Messages PROVE decode(serialize(m)).msgs = <<m>>
  <2>1. PICK s \in Seq(Units) : s = serialize(m)
    BY FrameIs
  <2>2. PICK n \in Nat \ {0} : n = Sizes[m]
    BY FrameIs
  <2>3. Len(s) = n /\ s[1] = [msg |-> m, pos |-> 1]
    BY <2>1, <2>2, FrameIs
  <2>4. s[0 + 1].msg = m /\ s[0 + 1].pos = 1
    BY <2>3
  <2>5. 0 \in 0..Len(s) /\ n \in 0..Len(s) /\ 0 < Len(s) /\ 0 + n = n /\ n <= Len(s)
    BY <2>3
  <2>6. Whole(s, 0) /\ Size(s, 0) = n
    BY <2>2, <2>4, <2>5 DEF Whole, Size
  <2>7. Scan(s)[0].msgs = <<m>> \o Scan(s)[n].msgs
    BY <2>4, <2>5, <2>6, ScanStep
  <2>8. Scan(s)[n].msgs = <<>>
    BY <1>1, <2>3, <2>5
  <2>9. <<m>> \o <<>> = <<m>>
    OBVIOUS
  <2> QED
    BY <2>1, <2>7, <2>8, <2>9, ScanIs, Zenon
<1> QED
  BY <1>2, <1>3

\* decode finds something in whole frames, and consumes them.
LEMMA DecodeWhole ==
  ASSUME NEW s \in Seq(Units), Linked(s), Closed(s)
  PROVE  decode(s).consumed = Len(s) /\ (Len(s) > 0 => decode(s).msgs # <<>>)
<1>1. decode(s).consumed = Len(s)
  <2>1. InOrder(s, Messages)
    BY UnitIs DEF InOrder
  <2> QED
    BY <2>1, DecodeIs DEF Found
<1>2. ASSUME Len(s) > 0 PROVE decode(s).msgs # <<>>
  <2>1. 0 \in 0..Len(s)
    OBVIOUS
  <2>2. Whole(s, 0)
    BY <1>2, <2>1, StopIsCut
  <2>3. PICK m \in Messages : m = s[0 + 1].msg
    BY <2>1, <2>2, WholeIs
  <2>4. PICK ms \in Seq(Messages) : ms = Scan(s)[0 + Size(s, 0)].msgs
    BY <2>1, <2>2, WholeIs, ScanType
  <2>5. decode(s).msgs = <<m>> \o ms
    BY <2>1, <2>2, <2>3, <2>4, ScanStep, ScanIs
  <2>6. <<m>> \o ms # <<>>
    OBVIOUS
  <2> QED
    BY <2>5, <2>6
<1> QED
  BY <1>1, <1>2

\* A frame behind whole frames is decoded after them.
LEMMA DecodeAppend ==
  ASSUME NEW s \in Seq(Units), Linked(s), Closed(s), NEW m \in Messages
  PROVE  decode(s \o serialize(m)).msgs = Append(decode(s).msgs, m)
<1>1. PICK f \in Seq(Units) : f = serialize(m)
  BY FrameIs
<1>2. PICK t \in Seq(Units) : t = s \o f
  BY ConcatProperties
<1>3. SubSeq(t, Len(s) + 1, Len(t)) = f
  <2>1. Len(s) \in 0..Len(s) /\ SubSeq(s, Len(s) + 1, Len(s)) = <<>> /\ <<>> \o f = f
    OBVIOUS
  <2>2. SubSeq(s, Len(s) + 1, Len(s)) \o f = SubSeq(t, Len(s) + 1, Len(t))
    BY <1>2, <2>1, SuffixConcat, Zenon
  <2> QED
    BY <2>1, <2>2, Zenon
<1>4. decode(t).msgs = decode(s).msgs \o decode(f).msgs
  <2>1. Splits(t, s, f, f)
    BY <1>2, <1>3, DecodeWhole DEF Splits
  <2>2. s \in Seq(Units) /\ f \in Seq(Units) /\ t \in Seq(Units)
    BY <1>1, <1>2
  <2>3. Decodes(t, s, f)
    BY <2>1, <2>2, DecodeConcat
  <2> QED
    BY <2>3, Zenon DEF Decodes
<1>5. decode(f).msgs = <<m>>
  BY <1>1, DecodeFrame
<1>6. PICK ms \in Seq(Messages) : ms = decode(s).msgs
  BY DecodeType
<1>7. ms \o <<m>> = Append(ms, m)
  OBVIOUS
<1> QED
  BY <1>1, <1>2, <1>4, <1>5, <1>6, <1>7, Zenon

\* f accumulates the first k of seqs, as FlattenSeq does.
IsFlat(seqs, f, k) == f = [i \in 1..k |-> IF i = 1 THEN seqs[i] ELSE f[i - 1] \o seqs[i]]

\* data is whole frames of messages in C, which decode finds in the given order.
FramesOf(data, C, order) ==
  /\ data \in Seq(Units) /\ Linked(data) /\ Closed(data)
  /\ \A i \in 1..Len(data) : data[i].msg \in C
  /\ decode(data).msgs = order

\* The frames of the messages of C, in any order, as add_client puts them together.
LEMMA FlattenIs ==
  ASSUME NEW C \in SUBSET Messages, NEW n \in Nat, NEW order \in [1..n -> C]
  PROVE  FramesOf(FlattenSeq([i \in DOMAIN order |-> serialize(order[i])]), C, order)
<1> DEFINE seqs == [i \in DOMAIN order |-> serialize(order[i])]
           Good(data) == /\ data \in Seq(Units) /\ Linked(data) /\ Closed(data)
                         /\ \A i \in 1..Len(data) : data[i].msg \in C
<1>1. \A i \in 1..n : Good(seqs[i])
  <2> SUFFICES ASSUME NEW i \in 1..n PROVE Good(seqs[i])
    OBVIOUS
  <2>1. PICK m \in C : m = order[i]
    OBVIOUS
  <2>2. seqs[i] = serialize(m) /\ m \in Messages
    BY <2>1
  <2>3. /\ serialize(m) \in Seq(Units) /\ Linked(serialize(m)) /\ Closed(serialize(m))
        /\ Len(serialize(m)) = Sizes[m]
        /\ \A j \in 1..Sizes[m] : serialize(m)[j] = [msg |-> m, pos |-> j]
    BY <2>2, FrameIs
  <2>4. ASSUME NEW j \in 1..Len(serialize(m)) PROVE serialize(m)[j].msg \in C
    <3>1. serialize(m)[j] = [msg |-> m, pos |-> j]
      BY <2>3
    <3> QED
      BY <3>1
  <2> HIDE DEF seqs
  <2> QED
    BY <2>2, <2>3, <2>4
<1>2. ASSUME NEW a, NEW b, Good(a), Good(b) PROVE Good(a \o b)
  <2>1. a \o b \in Seq(Units) /\ Linked(a \o b) /\ Closed(a \o b)
    BY <1>2, LinkedConcat, ConcatProperties
  <2>2. \A i \in 1..Len(a \o b) : (a \o b)[i].msg \in C
    <3>1. /\ Len(a \o b) = Len(a) + Len(b) /\ Len(a) \in Nat /\ Len(b) \in Nat
          /\ \A i \in 1..(Len(a) + Len(b)) :
               (a \o b)[i] = IF i <= Len(a) THEN a[i] ELSE b[i - Len(a)]
      BY <1>2, ConcatProperties
    <3>2. \A i \in 1..(Len(a) + Len(b)) : IF i <= Len(a) THEN i \in 1..Len(a)
                                                         ELSE i - Len(a) \in 1..Len(b)
      BY <3>1
    <3> QED
      BY <1>2, <3>1, <3>2
  <2> QED
    BY <2>1, <2>2
<1>3. Len(seqs) = n /\ (n = 0 => seqs = <<>>) /\ \A i \in 1..n : seqs[i] = serialize(order[i])
  OBVIOUS
<1>a. order \in Seq(Messages) /\ Len(order) = n /\ \A i \in 1..n : order[i] \in Messages
  OBVIOUS
<1> HIDE DEF seqs
<1>4. CASE n = 0
  <2>1. FlattenSeq(seqs) = <<>>
    BY <1>3, <1>4 DEF FlattenSeq
  <2>2. Good(<<>>)
    BY DEF Linked, Closed
  <2>3. order = <<>>
    BY <1>a, <1>4
  <2>4. decode(FlattenSeq(seqs)).msgs = order
    BY <2>1, <2>3, DecodeFrame
  <2> QED
    BY <2>1, <2>2, <2>4 DEF seqs, FramesOf
<1>5. CASE n # 0
  <2>1. FlattenSeq(seqs) = (CHOOSE f : IsFlat(seqs, f, n))[n]
    BY <1>3, <1>5, Zenon DEF FlattenSeq, IsFlat
  <2>2. \E f : IsFlat(seqs, f, n)
    <3> DEFINE S == {k \in Nat : k <= n => \E f : IsFlat(seqs, f, k)}
    <3>1. 0 \in S
      <4>1. IsFlat(seqs, [i \in 1..0 |-> seqs], 0)
        BY DEF IsFlat
      <4> QED
        BY <4>1
    <3>2. ASSUME NEW k \in Nat, k \in S PROVE k + 1 \in S
      <4> SUFFICES ASSUME k + 1 <= n PROVE \E g : IsFlat(seqs, g, k + 1)
        OBVIOUS
      <4>1. PICK f : IsFlat(seqs, f, k)
        BY <3>2
      <4> DEFINE next(i) == IF i = 1 THEN seqs[i] ELSE f[i - 1] \o seqs[i]
                 g == [i \in 1..(k + 1) |-> next(i)]
      <4>2. \A i \in 1..k : f[i] = next(i)
        BY <4>1 DEF IsFlat
      <4>3. \A i \in 1..(k + 1) : i # 1 => i - 1 \in 1..k /\ i - 1 \in 1..(k + 1)
        OBVIOUS
      <4>4. \A i \in 1..(k + 1) : i # 1 => g[i - 1] = f[i - 1]
        BY <4>2, <4>3
      <4>5. \A i \in 1..(k + 1) : next(i) = IF i = 1 THEN seqs[i] ELSE g[i - 1] \o seqs[i]
        BY <4>4
      <4>6. g = [i \in 1..(k + 1) |-> next(i)]
        OBVIOUS
      <4> HIDE DEF g, next
      <4>7. g = [i \in 1..(k + 1) |-> IF i = 1 THEN seqs[i] ELSE g[i - 1] \o seqs[i]]
        BY <4>5, <4>6
      <4> QED
        BY <4>7 DEF IsFlat
    <3> HIDE DEF S
    <3>3. \A k \in 0..(n - 1) : k \in S => k + 1 \in S
      BY <3>2
    <3>4. n \in S
      <4>1. 0..n \subseteq S
        BY <3>1, <3>3, UpTo
      <4> QED
        BY <4>1
    <3> QED
      BY <3>4 DEF S
  <2>3. PICK f : IsFlat(seqs, f, n) /\ FlattenSeq(seqs) = f[n]
    <3>1. IsFlat(seqs, (CHOOSE f : IsFlat(seqs, f, n)), n)
      BY <2>2, Zenon
    <3> QED
      BY <2>1, <3>1, Zenon
  <2>4. \A i \in 1..n : f[i] = IF i = 1 THEN seqs[i] ELSE f[i - 1] \o seqs[i]
    BY <2>3 DEF IsFlat
  <2> HIDE DEF Good
  <2> DEFINE S == {k \in Nat : k + 1 <= n => /\ Good(f[k + 1])
                                            /\ decode(f[k + 1]).msgs = SubSeq(order, 1, k + 1)}
  <2>5. 0 \in S
    <3>1. 0 + 1 = 1 /\ 1 \in 1..n
      BY <1>5
    <3>2. f[1] = seqs[1] /\ Good(seqs[1]) /\ seqs[1] = serialize(order[1])
      BY <1>1, <1>3, <2>4, <3>1
    <3>3. decode(f[1]).msgs = <<order[1]>>
      BY <1>a, <3>1, <3>2, DecodeFrame
    <3>4. SubSeq(order, 1, 1) = <<order[1]>>
      <4>1. Append(SubSeq(order, 1, 0), order[1]) = SubSeq(order, 1, 1)
        BY <1>a, <3>1
      <4>2. SubSeq(order, 1, 0) = <<>> /\ Append(<<>>, order[1]) = <<order[1]>>
        BY <1>a
      <4> QED
        BY <4>1, <4>2
    <3> QED
      BY <3>1, <3>2, <3>3, <3>4
  <2>6. ASSUME NEW k \in Nat, k \in S PROVE k + 1 \in S
    <3> SUFFICES ASSUME (k + 1) + 1 <= n
                 PROVE  /\ Good(f[(k + 1) + 1])
                        /\ decode(f[(k + 1) + 1]).msgs = SubSeq(order, 1, (k + 1) + 1)
      OBVIOUS
    <3>1. PICK i \in 1..n : i = (k + 1) + 1
      OBVIOUS
    <3>2. i # 1 /\ i - 1 = k + 1 /\ k + 1 <= n
      BY <3>1
    <3>3. Good(f[i - 1]) /\ Good(seqs[i]) /\ f[i] = f[i - 1] \o seqs[i]
      BY <1>1, <2>4, <2>6, <3>2
    <3>4. Good(f[i])
      BY <1>2, <3>3
    <3>5. decode(f[i]).msgs = SubSeq(order, 1, i)
      <4>1. PICK a \in Seq(Units) : a = f[i - 1] /\ Linked(a) /\ Closed(a)
        BY <3>3 DEF Good
      <4>2. PICK m \in Messages : m = order[i]
        BY <1>a
      <4>3. decode(a).msgs = SubSeq(order, 1, i - 1)
        BY <2>6, <3>2, <4>1
      <4>4. f[i] = a \o serialize(m)
        BY <1>3, <3>3, <4>1, <4>2
      <4>5. decode(f[i]).msgs = Append(SubSeq(order, 1, i - 1), m)
        BY <4>1, <4>3, <4>4, DecodeAppend
      <4>6. Append(SubSeq(order, 1, i - 1), order[i]) = SubSeq(order, 1, i)
        BY <1>a, <3>2
      <4> QED
        BY <4>2, <4>5, <4>6
    <3> QED
      BY <3>1, <3>4, <3>5
  <2> HIDE DEF S
  <2>7. \A k \in 0..(n - 1) : k \in S => k + 1 \in S
    BY <2>6
  <2>8. n - 1 \in Nat /\ n - 1 \in 0..n /\ (n - 1) + 1 = n
    BY <1>5
  <2>9. n - 1 \in S
    <3>1. 0..n \subseteq S
      BY <2>5, <2>7, UpTo
    <3> QED
      BY <2>8, <3>1
  <2>10. Good(f[n]) /\ decode(f[n]).msgs = SubSeq(order, 1, n)
    BY <2>8, <2>9 DEF S
  <2>11. SubSeq(order, 1, n) = order
    BY <1>a, SubSeqFull
  <2> QED
    BY <2>3, <2>10, <2>11 DEF Good, seqs, FramesOf
<1> QED
  BY <1>4, <1>5
---------------------------------------------------------------------------
(* The invariant.                                                          *)

\* What write_fd works on, and what is published is a message.
Writers == [thread : Threads \cup {"none"}, to_send : Seq(Units), n : Nat]
WriterInv ==
  /\ writer \in Writers
  /\ writer.thread = "none" => writer = NoWriter
  /\ writer.thread = "pub" => pub = "write"
  /\ pub \in {"cached", "uncached"} => published \in Messages

(***************************************************************************)
(* The rest holds until the stream is torn.  While write_fd has something  *)
(* to write its copy is the buffer; a connection that add_client has not   *)
(* filled carries nothing, and neither does one that is closed.            *)
(***************************************************************************)
BufferInv ==
  /\ Len(writer.to_send) <= Len(clients_data)
  /\ writer.n > 0 => writer.to_send = clients_data
  /\ ~open => clients_data = <<>>
  /\ join \in {"select", "inserted"} =>
       /\ open /\ writer = NoWriter
       /\ Stream = <<>> /\ clients_data = <<>> /\ delivered = <<>>

FrameInv == Linked(Stream) /\ (open => Closed(Stream))

\* Messages that are not cached are before the one that is to be sent.
Sent(m) == m \in cache \/ m < published \/ (m = published /\ pub # "uncached")

OrderInv ==
  /\ InOrder(Stream, cache)
  /\ \A i \in DOMAIN delivered, j \in 1..Len(Stream) :
       (delivered[i] \notin cache /\ Stream[j].pos = 1 /\ Stream[j].msg \notin cache)
         => delivered[i] < Stream[j].msg
  /\ \A i \in DOMAIN delivered : Sent(delivered[i])
  /\ \A j \in 1..Len(Stream) : Sent(Stream[j].msg)
  /\ pub = "cached" => published \in cache

StreamInv == BufferInv /\ FrameInv /\ OrderInv /\ DeliveredInOrder
IndInv == TypeOK /\ WriterInv /\ (~torn => StreamInv)

\* A part of a sequence.
LEMMA PartIs ==
  ASSUME NEW S, NEW s \in Seq(S), NEW a \in Nat, NEW b \in 0..Len(s)
  PROVE  /\ SubSeq(s, a + 1, b) \in Seq(S)
         /\ Len(SubSeq(s, a + 1, b)) = IF a <= b THEN b - a ELSE 0
<1>1. \A i \in (a + 1)..b : s[i] \in S
  OBVIOUS
<1>2. a + 1 \in Int /\ b \in Int
  OBVIOUS
<1>3. /\ SubSeq(s, a + 1, b) \in Seq(S)
      /\ Len(SubSeq(s, a + 1, b)) = IF a + 1 <= b THEN b - (a + 1) + 1 ELSE 0
  BY <1>1, <1>2, SubSeqProperties
<1> QED
  BY <1>2, <1>3

Cut(w, t) == [w EXCEPT !.to_send = t, !.n = 0]
Less(w, n) == [w EXCEPT !.n = n]

\* What a call of write leaves of the locals of write_fd.
LEMMA WriterCut ==
  ASSUME NEW w \in Writers, NEW t \in Seq(Units)
  PROVE  /\ Cut(w, t) \in Writers /\ Cut(w, t).thread = w.thread
         /\ Cut(w, t).to_send = t /\ Cut(w, t).n = 0
  BY DEF Writers, Cut

\* The same, when the loop goes on.
LEMMA WriterLess ==
  ASSUME NEW w \in Writers, NEW n \in Nat
  PROVE  /\ Less(w, n) \in Writers /\ Less(w, n).thread = w.thread
         /\ Less(w, n).to_send = w.to_send /\ Less(w, n).n = n
  BY DEF Writers, Less

\* A part of the data from the start.
LEMMA CutIs ==
  ASSUME NEW t \in Seq(Units), NEW o \in 0..Len(t)
  PROVE  \E cut \in Seq(Units) : cut = SubSeq(t, 1, o) /\ Len(cut) = o
<1>1. SubSeq(t, 0 + 1, o) \in Seq(Units) /\ Len(SubSeq(t, 0 + 1, o)) = o
  BY PartIs
<1>2. 0 + 1 = 1
  OBVIOUS
<1>3. SubSeq(t, 0 + 1, o) = SubSeq(t, 1, o)
  BY <1>2, Zenon
<1> QED
  BY <1>1, <1>3, Zenon

\* Init has the invariant.
LEMMA InitInd == Init => IndInv
<1> SUFFICES ASSUME Init PROVE IndInv
  OBVIOUS
<1>1. <<>> \in Seq(Units) /\ <<>> \in Seq(Messages) /\ Len(<<>>) = 0 /\ Len(Sizes) \in Nat
  BY SizesAssumption
<1>2. NoWriter.thread = "none" /\ NoWriter.to_send = <<>> /\ NoWriter.n = 0
  BY DEF NoWriter
<1>3. TypeOK /\ WriterInv
  <2>1. NoWriter \in Writers
    BY <1>1 DEF NoWriter, Writers
  <2>2. 0 \in 0..0 /\ 0 \in 0..Len(Sizes) /\ 0 <= Window
    BY <1>1, LimitsAssumption
  <2> QED
    BY <1>1, <1>2, <2>1, <2>2 DEF Init, TypeOK, WriterInv
<1>4. Unsent = <<>> /\ Stream = <<>>
  BY <1>1, <1>2 DEF Init, Unsent, Stream
<1>5. BufferInv
  BY <1>1, <1>2, <1>4 DEF Init, BufferInv
<1>6. FrameInv
  BY <1>1, <1>4 DEF FrameInv, Linked, Closed
<1>7. OrderInv /\ DeliveredInOrder
  BY <1>1, <1>4 DEF Init, OrderInv, DeliveredInOrder, InOrder
<1> QED
  BY <1>3, <1>5, <1>6, <1>7 DEF IndInv, StreamInv

\* What add_client puts into the buffer is whole frames of cached messages.
LEMMA InitialData ==
  ASSUME cache \subseteq Messages, NEW data,
         \E order \in SetToSeqs(cache) :
           data = FlattenSeq([i \in DOMAIN order |-> serialize(order[i])])
  PROVE  /\ data \in Seq(Units) /\ Linked(data) /\ Closed(data)
         /\ \A i \in 1..Len(data) : data[i].msg \in cache
         /\ decode(data).msgs \in SetToSeqs(cache)
<1>1. PICK order \in SetToSeqs(cache) :
        data = FlattenSeq([i \in DOMAIN order |-> serialize(order[i])])
  OBVIOUS
<1>2. Cardinality(cache) \in Nat
  <2>1. IsFiniteSet(Messages)
    BY SizesAssumption, FS_Interval DEF Messages
  <2> QED
    BY <2>1, FS_Subset, FS_CardinalityType
<1>3. order \in [1..Cardinality(cache) -> cache]
  BY DEF SetToSeqs
<1>4. FramesOf(data, cache, order)
  BY <1>1, <1>2, <1>3, FlattenIs
<1> QED
  BY <1>4 DEF FramesOf

\* Types are kept, torn or not.
LEMMA TypeInd ==
  ASSUME TypeOK, WriterInv, [Next]_vars
  PROVE  TypeOK' /\ WriterInv'
<1>0. /\ clients_data \in Seq(Units) /\ socket \in Seq(Units) /\ fd_receive_data \in Seq(Units)
      /\ writer.to_send \in Seq(Units) /\ writer.n \in Nat /\ writer.n \in 0..Len(writer.to_send)
      /\ writer # NoWriter => writer.thread \in Threads
      /\ Len(Sizes) \in Nat /\ Window \in Nat /\ published \in 0..Len(Sizes)
      /\ Len(socket) \in Nat /\ Len(clients_data) \in Nat /\ Len(writer.to_send) \in Nat
  BY SizesAssumption, LimitsAssumption DEF TypeOK, WriterInv, Writers
<1>n. /\ NoWriter \in Writers
      /\ NoWriter.thread = "none" /\ NoWriter.n \in 0..Len(NoWriter.to_send)
  BY DEF NoWriter, Writers
<1>1. CASE Publisher
  <2>1. CASE write_to_cache
    <3>1. published' \in 0..Len(Sizes) /\ published + 1 \in Messages /\ published' = published + 1
      BY <1>0, <2>1 DEF write_to_cache, Messages
    <3> QED
      BY <1>n, <2>1, <3>1 DEF write_to_cache, TypeOK, WriterInv, subscriberVars
  <2>2. CASE PublishUncached
    BY <1>0, <1>n, <2>2 DEF PublishUncached, TypeOK, WriterInv, subscriberVars, Messages
  <2>3. CASE PublisherSpins
    BY <1>0, <2>3 DEF PublisherSpins, TypeOK, WriterInv, subscriberVars, Threads
  <2> QED
    BY <1>1, <2>1, <2>2, <2>3 DEF Publisher
<1>2. CASE write_to_socket
  <2>0. torn' \in BOOLEAN
    BY <1>2 DEF write_to_socket
  <2>1. CASE UNCHANGED <<clients_data, writer>> /\ pub' = "idle"
    BY <1>0, <1>n, <1>2, <2>0, <2>1 DEF write_to_socket, TypeOK, WriterInv, subscriberVars
  <2>2. CASE Send(clients_data \o serialize(published)) /\ pub' = "write"
    <3>1. PICK data \in Seq(Units) : data = clients_data \o serialize(published)
      <4>1. published \in Messages
        BY <1>2 DEF write_to_socket, WriterInv
      <4> QED
        BY <1>0, <4>1, FrameIs, ConcatProperties
    <3>2. clients_data' = data /\ writer' = [thread |-> "pub", to_send |-> data, n |-> Len(data)]
      BY <2>2, <3>1 DEF Send
    <3>3. Len(data) \in Nat /\ Len(data) \in 0..Len(data)
      BY <3>1
    <3>4. WriterInv'
      BY <2>2, <3>2, <3>3 DEF WriterInv, Writers, Threads
    <3> QED
      BY <1>0, <1>2, <2>0, <2>2, <3>2, <3>3, <3>4
         DEF write_to_socket, TypeOK, subscriberVars, Threads
  <2> QED
    BY <1>2, <2>1, <2>2 DEF write_to_socket
<1>3. CASE write_fd \/ WriteError
  <2>a. CASE \E k \in 1..Window : WritePart(k)
    <3>1. PICK k \in 1..Window : WritePart(k)
      BY <2>a
    <3> DEFINE o == Len(writer.to_send) - writer.n
    <3>2. o \in Nat /\ o + k \in 0..Len(writer.to_send) /\ o \in 0..Len(writer.to_send)
          /\ writer.n - k \in Nat /\ writer.n - k \in 0..Len(writer.to_send)
          /\ Len(socket) + ((o + k) - o) <= Window /\ o <= o + k
      <4>1. 0 < k /\ k < writer.n /\ k <= Window - Len(socket) /\ k \in Nat
        BY <1>0, <3>1 DEF WritePart
      <4>2. PICK L \in Nat : L = Len(writer.to_send)
        BY <1>0
      <4>3. PICK n \in Nat : n = writer.n
        BY <1>0
      <4>4. PICK l \in Nat : l = Len(socket)
        BY <1>0
      <4>5. n <= L /\ 0 < k /\ k < n /\ k <= Window - l /\ Window \in Nat
        BY <1>0, <4>1, <4>2, <4>3, <4>4
      <4>6. /\ L - n \in Nat /\ (L - n) + k \in 0..L /\ L - n \in 0..L /\ n - k \in Nat
            /\ n - k \in 0..L /\ l + (((L - n) + k) - (L - n)) <= Window /\ L - n <= (L - n) + k
        BY <4>1, <4>5
      <4> QED
        BY <4>2, <4>3, <4>4, <4>6, Zenon
    <3> HIDE DEF o
    <3>3. /\ SubSeq(writer.to_send, o + 1, o + k) \in Seq(Units)
          /\ Len(SubSeq(writer.to_send, o + 1, o + k)) = (o + k) - o
      BY <1>0, <3>2, PartIs
    <3>4. socket' = socket \o SubSeq(writer.to_send, o + 1, o + k)
      BY <3>1 DEF WritePart, o
    <3>5. socket' \in Seq(Units) /\ Len(socket') <= Window
      BY <1>0, <3>2, <3>3, <3>4, ConcatProperties
    <3>6. PICK cut \in Seq(Units) : cut = SubSeq(writer.to_send, 1, o) /\ Len(cut) = o
      BY <1>0, <3>2, CutIs
    <3>7. /\ writer' \in Writers
          /\ writer'.n \in 0..Len(writer'.to_send)
          /\ writer'.thread = writer.thread /\ writer.thread \in Threads
      <4>1. writer' = Cut(writer, cut)
            \/ writer' = Less(writer, writer.n - k)
        BY <3>1, <3>6 DEF WritePart, o, Cut, Less
      <4>2. writer # NoWriter
        BY <3>1 DEF WritePart
      <4>3. writer \in Writers /\ 0 \in Nat /\ 0 \in 0..o
        BY <3>2 DEF WriterInv
      <4>4. CASE writer' = Cut(writer, cut)
        <5>1. /\ writer' \in Writers /\ writer'.thread = writer.thread
              /\ writer'.to_send = cut /\ writer'.n = 0
          BY <3>6, <4>3, <4>4, WriterCut, Zenon
        <5> QED
          BY <1>0, <3>6, <4>2, <4>3, <5>1
      <4>5. CASE writer' = Less(writer, writer.n - k)
        <5>1. /\ writer' \in Writers /\ writer'.thread = writer.thread
              /\ writer'.to_send = writer.to_send /\ writer'.n = writer.n - k
          BY <3>2, <4>3, <4>5, WriterLess, Zenon
        <5> QED
          BY <1>0, <3>2, <4>2, <5>1
      <4> QED
        BY <4>1, <4>4, <4>5
    <3>8. WriterInv'
      BY <3>1, <3>7 DEF WriterInv, WritePart, Threads
    <3> QED
      BY <1>0, <3>1, <3>5, <3>7, <3>8 DEF WritePart, TypeOK, subscriberVars
  <2>b. CASE WriteAll
    <3> DEFINE o == Len(writer.to_send) - writer.n
               part == SubSeq(writer.to_send, o + 1, Len(writer.to_send))
    <3>1. o \in Nat /\ o <= Len(writer.to_send) /\ Len(socket) + (Len(writer.to_send) - o) <= Window
          /\ Len(writer.to_send) \in 0..Len(writer.to_send)
      <4>1. writer.n <= Window - Len(socket)
        BY <2>b DEF WriteAll
      <4> QED
        BY <1>0, <4>1
    <3>2. socket' = socket \o part
      BY <2>b DEF WriteAll
    <3> HIDE DEF o
    <3>3. part \in Seq(Units) /\ Len(part) = Len(writer.to_send) - o
      BY <1>0, <3>1, PartIs
    <3> HIDE DEF part
    <3>4. socket' \in Seq(Units) /\ Len(socket') <= Window
      BY <1>0, <3>1, <3>2, <3>3, ConcatProperties
    <3>5. /\ writer' \in Writers
          /\ writer'.n \in 0..Len(writer'.to_send)
          /\ writer'.thread = writer.thread /\ writer.thread \in Threads
      <4>1. writer' = Less(writer, 0) /\ writer # NoWriter
        BY <2>b DEF WriteAll, Less
      <4>2. writer \in Writers /\ 0 \in Nat /\ 0 \in 0..Len(writer.to_send)
        BY <1>0 DEF WriterInv
      <4>3. /\ writer' \in Writers /\ writer'.thread = writer.thread
            /\ writer'.to_send = writer.to_send /\ writer'.n = 0
        BY <4>1, <4>2, WriterLess, Zenon
      <4> QED
        BY <1>0, <4>1, <4>2, <4>3
    <3>6. WriterInv'
      BY <2>b, <3>5 DEF WriterInv, WriteAll, Threads
    <3> QED
      BY <1>0, <2>b, <3>4, <3>5, <3>6 DEF WriteAll, TypeOK, subscriberVars
  <2>c. CASE WriteAgain
    <3> DEFINE o == Len(writer.to_send) - writer.n
    <3>1. o \in 0..Len(writer.to_send) /\ writer.thread \in Threads
      BY <1>0, <2>c DEF WriteAgain
    <3>2. PICK cut \in Seq(Units) : cut = SubSeq(writer.to_send, 1, o) /\ Len(cut) = o
      BY <1>0, <3>1, CutIs
    <3>3. writer' = Cut(writer, cut)
      BY <2>c, <3>2 DEF WriteAgain, Cut
    <3>4. /\ writer' \in Writers
          /\ writer'.n \in 0..Len(writer'.to_send)
          /\ writer'.thread = writer.thread
      <4>1. writer \in Writers /\ 0 \in Nat /\ 0 \in 0..o
        BY <3>1 DEF WriterInv
      <4>2. /\ writer' \in Writers /\ writer'.thread = writer.thread
            /\ writer'.to_send = cut /\ writer'.n = 0
        BY <3>2, <3>3, <4>1, WriterCut, Zenon
      <4> QED
        BY <3>2, <4>1, <4>2
    <3>5. WriterInv'
      BY <2>c, <3>1, <3>4 DEF WriterInv, WriteAgain, Threads
    <3> QED
      BY <1>0, <2>c, <3>1, <3>4, <3>5 DEF WriteAgain, TypeOK, subscriberVars
  <2>d. CASE EraseWritten
    <3>1. clients_data' \in Seq(Units)
      <4>1. Len(clients_data) \in 0..Len(clients_data)
        BY <1>0
      <4> QED
        BY <1>0, <2>d, <4>1, PartIs DEF EraseWritten
    <3>2. WriterInv'
      BY <1>n, <2>d DEF WriterInv, EraseWritten, WriterDone
    <3> QED
      BY <1>0, <1>n, <2>d, <3>1, <3>2 DEF EraseWritten, WriterDone, TypeOK, subscriberVars
  <2>e. CASE WriteError
    <3>1. WriterInv'
      BY <1>n, <2>e DEF WriterInv, WriteError, WriterDone
    <3>2. <<>> \in Seq(Units)
      OBVIOUS
    <3> QED
      BY <1>0, <1>n, <2>e, <3>1, <3>2 DEF WriteError, WriterDone, TypeOK, subscriberVars
  <2> QED
    BY <1>3, <2>a, <2>b, <2>c, <2>d, <2>e DEF write_fd
<1>4. CASE Joiner
  <2>1. CASE InsertFd
    BY <1>0, <2>1 DEF InsertFd, TypeOK, WriterInv, subscriberVars
  <2>2. CASE InitData
    <3>1. clients_data' \in Seq(Units)
      BY <2>2, InitialData DEF TypeOK, InitData
    <3> QED
      BY <1>0, <2>2, <3>1 DEF InitData, TypeOK, WriterInv, subscriberVars
  <2>3. CASE JoinWrites
    <3>1. /\ writer' = [thread |-> "join", to_send |-> clients_data, n |-> Len(clients_data)]
          /\ Len(clients_data) \in 0..Len(clients_data)
      BY <1>0, <2>3 DEF JoinWrites
    <3>2. WriterInv'
      BY <1>0, <2>3, <3>1 DEF WriterInv, Writers, JoinWrites, Threads
    <3> QED
      BY <1>0, <2>3, <3>1, <3>2 DEF JoinWrites, TypeOK, subscriberVars, Threads
  <2> QED
    BY <1>4, <2>1, <2>2, <2>3 DEF Joiner
<1>5. CASE Subscriber
  <2>1. PICK k \in 1..Window : handle_client_event(k)
    BY <1>5 DEF Subscriber
  <2>2. k \in 0..Len(socket) /\ k \in Nat /\ Len(socket) \in 0..Len(socket)
    BY <1>0, <2>1 DEF handle_client_event
  <2>3. PICK buf \in Seq(Units) : buf = fd_receive_data \o SubSeq(socket, 1, k)
    <3>1. SubSeq(socket, 1, k) \in Seq(Units)
      BY <1>0, <2>2
    <3> QED
      BY <1>0, <3>1, ConcatProperties
  <2>4. socket' \in Seq(Units) /\ Len(socket') <= Len(socket)
    <3>1. socket' = SubSeq(socket, k + 1, Len(socket))
      BY <2>1 DEF handle_client_event
    <3>2. socket' \in Seq(Units) /\ Len(socket') = IF k <= Len(socket) THEN Len(socket) - k ELSE 0
      BY <1>0, <2>2, <3>1, PartIs
    <3> QED
      BY <1>0, <2>2, <3>2
  <2>5. decode(buf).consumed \in 0..Len(buf) /\ decode(buf).msgs \in Seq(Messages)
    BY DecodeType
  <2>6. delivered' \in Seq(Messages)
    <3>1. delivered' = delivered \o decode(buf).msgs /\ delivered \in Seq(Messages)
      BY <2>1, <2>3 DEF handle_client_event, TypeOK
    <3> QED
      BY <2>5, <3>1, ConcatProperties
  <2>7. fd_receive_data' \in Seq(Units)
    <3>1. fd_receive_data' = SubSeq(buf, decode(buf).consumed + 1, Len(buf))
      BY <2>1, <2>3 DEF handle_client_event
    <3>2. Len(buf) \in 0..Len(buf) /\ decode(buf).consumed \in Nat
      BY <2>5
    <3> QED
      BY <3>1, <3>2, PartIs
  <2>8. Len(socket') <= Window
    <3>1. Len(socket') \in Nat /\ Len(socket) <= Window
      BY <2>4 DEF TypeOK
    <3> QED
      BY <1>0, <2>4, <3>1
  <2> QED
    BY <1>0, <2>1, <2>4, <2>6, <2>7, <2>8 DEF handle_client_event, TypeOK, WriterInv
<1>6. CASE UNCHANGED vars
  BY <1>6 DEF vars, TypeOK, WriterInv
<1>7. CASE close_and_delete_event
  <2>1. <<>> \in Seq(Units) /\ Len(<<>>) = 0 /\ 0 <= Window
    BY LimitsAssumption
  <2> QED
    BY <1>0, <1>7, <2>1 DEF close_and_delete_event, TypeOK, WriterInv
<1> QED
  BY <1>1, <1>2, <1>3, <1>4, <1>5, <1>6, <1>7 DEF Next
---------------------------------------------------------------------------
(* The stream, as long as it is not torn.                                  *)

\* Everything in it is a unit.
LEMMA StreamType ==
  ASSUME TypeOK, WriterInv, BufferInv
  PROVE  /\ fd_receive_data \in Seq(Units) /\ socket \in Seq(Units)
         /\ clients_data \in Seq(Units) /\ writer.to_send \in Seq(Units)
         /\ Len(writer.to_send) - writer.n \in 0..Len(clients_data)
         /\ Unsent \in Seq(Units) /\ fd_receive_data \o socket \in Seq(Units)
         /\ Stream \in Seq(Units)
<1>1. /\ clients_data \in Seq(Units) /\ socket \in Seq(Units) /\ fd_receive_data \in Seq(Units)
      /\ writer.to_send \in Seq(Units) /\ writer.n \in 0..Len(writer.to_send)
  BY DEF TypeOK, WriterInv, Writers
<1>2. Len(writer.to_send) <= Len(clients_data) /\ Len(writer.to_send) \in Nat /\ Len(clients_data) \in Nat
  BY <1>1 DEF BufferInv
<1>3. PICK o \in 0..Len(clients_data) : o = Len(writer.to_send) - writer.n
  BY <1>1, <1>2
<1>4. Unsent = SubSeq(clients_data, o + 1, Len(clients_data))
  BY <1>3 DEF Unsent
<1>5. Unsent \in Seq(Units)
  <2>1. Len(clients_data) \in 0..Len(clients_data) /\ o \in Nat
    BY <1>2
  <2> QED
    BY <1>1, <1>4, <2>1, PartIs
<1>6. fd_receive_data \o socket \in Seq(Units)
  BY <1>1, ConcatProperties
<1>7. Stream \in Seq(Units)
  BY <1>5, <1>6, ConcatProperties DEF Stream
<1> QED
  BY <1>1, <1>3, <1>5, <1>6, <1>7

\* A thread that writes nothing has everything to write.
LEMMA NothingWritten ==
  ASSUME TypeOK, WriterInv, writer = NoWriter
  PROVE  Unsent = clients_data
<1>1. clients_data \in Seq(Units) /\ NoWriter.to_send = <<>> /\ NoWriter.n = 0
  BY DEF TypeOK, NoWriter
<1>2. (Len(<<>>) - 0) + 1 = 1
  OBVIOUS
<1>3. Unsent = SubSeq(clients_data, 1, Len(clients_data))
  BY <1>1, <1>2 DEF Unsent
<1> QED
  BY <1>1, <1>3, SubSeqFull

Regroups(a, b, p, q) == (a \o (b \o p)) \o q = (a \o b) \o (p \o q)

\* Concatenation is associative.
LEMMA Regroup ==
  ASSUME NEW S, NEW a \in Seq(S), NEW b \in Seq(S), NEW p \in Seq(S), NEW q \in Seq(S)
  PROVE  Regroups(a, b, p, q)
<1>1. a \o (b \o p) = (a \o b) \o p
  BY SMT
<1>2. PICK c \in Seq(S) : c = a \o b
  BY ConcatProperties
<1>3. (c \o p) \o q = c \o (p \o q)
  BY SMT
<1> QED
  BY <1>1, <1>2, <1>3, Zenon DEF Regroups

Moves(a, b, d, x, y) == (a \o (b \o SubSeq(d, x + 1, y))) \o SubSeq(d, y + 1, Len(d))
                          = (a \o b) \o SubSeq(d, x + 1, Len(d))

\* What write takes from the buffer it adds to the socket.
LEMMA Moved ==
  ASSUME NEW a \in Seq(Units), NEW b \in Seq(Units), NEW d \in Seq(Units),
         NEW x \in 0..Len(d), NEW y \in x..Len(d)
  PROVE  Moves(a, b, d, x, y)
<1>0. Len(d) \in Nat /\ x \in Nat /\ y \in Nat /\ y \in 0..Len(d) /\ Len(d) \in 0..Len(d)
  OBVIOUS
<1>1. PICK p \in Seq(Units) : p = SubSeq(d, x + 1, y)
  BY <1>0, PartIs
<1>2. PICK q \in Seq(Units) : q = SubSeq(d, y + 1, Len(d))
  BY <1>0, PartIs
<1>3. p \o q = SubSeq(d, x + 1, Len(d))
  <2>1. x + 1 \in 1..(Len(d) + 1) /\ y \in ((x + 1) - 1)..Len(d) /\ Len(d) \in y..Len(d)
    BY <1>0
  <2> QED
    BY <1>1, <1>2, <2>1, ConcatAdjacentSubSeq
<1>4. Regroups(a, b, p, q)
  BY <1>1, <1>2, Regroup
<1> QED
  BY <1>1, <1>2, <1>3, <1>4, Zenon DEF Regroups, Moves

\* Facts about the units and messages of the stream.
LEMMA StreamMessages ==
  ASSUME TypeOK, WriterInv, BufferInv
  PROVE  /\ \A j \in 1..Len(Stream) : Stream[j] \in Units /\ Stream[j].msg \in Messages
         /\ \A i \in DOMAIN delivered : delivered[i] \in Messages
<1>1. Stream \in Seq(Units) /\ delivered \in Seq(Messages)
  BY StreamType DEF TypeOK
<1>2. PICK s \in Seq(Units) : s = Stream
  BY <1>1
<1>3. \A j \in 1..Len(s) : s[j] \in Units
  OBVIOUS
<1>4. \A j \in 1..Len(s) : s[j] \in Units /\ s[j].msg \in Messages
  BY <1>3, UnitIs
<1> QED
  BY <1>1, <1>2, <1>4

\* A step that leaves the stream as it is.
LEMMA StreamKept ==
  ASSUME TypeOK, WriterInv, StreamInv, ~torn, Stream' = Stream, delivered' = delivered,
         cache \subseteq cache', open' => open, \A m \in Messages : Sent(m) => Sent(m)',
         pub' = "cached" => published' \in cache'
  PROVE  FrameInv' /\ OrderInv' /\ DeliveredInOrder'
<1>0. BufferInv /\ FrameInv /\ OrderInv /\ DeliveredInOrder
  BY DEF StreamInv
<1>1. FrameInv'
  BY <1>0 DEF FrameInv
<1>2. \A x : x \notin cache' => x \notin cache
  OBVIOUS
<1>3. DeliveredInOrder'
  <2>1. \A i, j \in DOMAIN delivered : {delivered[i], delivered[j]} \cap cache' = {} =>
                                         {delivered[i], delivered[j]} \cap cache = {}
    OBVIOUS
  <2> QED
    BY <1>0, <2>1 DEF DeliveredInOrder
<1>4. OrderInv'
  <2>1. InOrder(Stream, cache)'
    BY <1>0, <1>2 DEF OrderInv, InOrder
  <2>2. \A i \in DOMAIN delivered, j \in 1..Len(Stream) :
          (delivered[i] \notin cache' /\ Stream[j].pos = 1 /\ Stream[j].msg \notin cache')
            => delivered[i] < Stream[j].msg
    BY <1>0, <1>2 DEF OrderInv
  <2>3. \A i \in DOMAIN delivered : Sent(delivered[i])'
    <3>1. \A i \in DOMAIN delivered : delivered[i] \in Messages /\ Sent(delivered[i])
      BY <1>0, StreamMessages DEF OrderInv
    <3> QED
      BY <3>1 DEF Sent
  <2>4. \A j \in 1..Len(Stream) : Sent(Stream[j].msg)'
    <3>1. \A j \in 1..Len(Stream) : Stream[j].msg \in Messages /\ Sent(Stream[j].msg)
      BY <1>0, StreamMessages DEF OrderInv
    <3> QED
      BY <3>1 DEF Sent
  <2> QED
    BY <2>1, <2>2, <2>3, <2>4 DEF OrderInv
<1> QED
  BY <1>1, <1>3, <1>4

\* The publisher's own steps, and steps that change nothing the stream depends on.
LEMMA QuietKeeps ==
  ASSUME IndInv, ~torn, Publisher \/ InsertFd \/ UNCHANGED vars
  PROVE  StreamInv' /\ Stream' = Stream
<1>0. /\ TypeOK /\ WriterInv /\ StreamInv /\ BufferInv /\ OrderInv
      /\ published \in Nat /\ Messages \subseteq Nat
  BY SizesAssumption DEF IndInv, StreamInv, TypeOK, Messages
<1>1. /\ UNCHANGED <<clients_data, writer, socket, open, fd_receive_data, delivered, torn>>
      /\ cache \subseteq cache'
  BY DEF Publisher, write_to_cache, PublishUncached, PublisherSpins, InsertFd, vars, subscriberVars
<1>2. Stream' = Stream
  BY <1>1 DEF Stream, Unsent
<1>3. (join' = join) \/ (join = "select" /\ join' = "inserted")
  BY DEF Publisher, write_to_cache, PublishUncached, PublisherSpins, InsertFd, vars
<1>4. BufferInv'
  BY <1>0, <1>1, <1>2, <1>3 DEF BufferInv
<1>5. /\ pub' = "cached" => published' \in cache'
      /\ \A m \in Messages : Sent(m) => Sent(m)'
  <2>1. CASE published' = published + 1 /\ (pub' = "cached" => published + 1 \in cache')
    BY <1>0, <1>1, <2>1 DEF Sent
  <2>2. CASE published' = published /\ pub' = pub
    BY <1>0, <1>1, <2>2 DEF Sent, OrderInv
  <2> QED
    BY <2>1, <2>2 DEF Publisher, write_to_cache, PublishUncached, PublisherSpins, InsertFd, vars
<1>6. FrameInv' /\ OrderInv' /\ DeliveredInOrder'
  BY <1>0, <1>1, <1>2, <1>5, StreamKept
<1> QED
  BY <1>2, <1>4, <1>6 DEF StreamInv

\* A call of write moves units from the buffer to the socket, or none.
LEMMA WriteKeeps ==
  ASSUME IndInv, TypeOK', WriterInv', ~torn',
         (\E k \in 1..Window : WritePart(k)) \/ WriteAll \/ WriteAgain
  PROVE  StreamInv' /\ Stream' = Stream
<1>1. /\ writer # NoWriter /\ 0 < writer.n /\ join' = join /\ pub' = pub
      /\ UNCHANGED <<published, cache, clients_data, open, fd_receive_data, delivered>>
  BY DEF WritePart, WriteAll, WriteAgain, subscriberVars, IndInv, TypeOK
<1>2. ~torn
  BY DEF WritePart, WriteAll, WriteAgain
<1>3. TypeOK /\ WriterInv /\ StreamInv /\ BufferInv /\ OrderInv
  BY <1>2 DEF IndInv, StreamInv
<1>4. PICK d \in Seq(Units) : d = clients_data
  BY <1>3, StreamType
<1>5. writer.to_send = d /\ writer \in Writers /\ writer.n \in 1..Len(d)
  BY <1>1, <1>3, <1>4 DEF BufferInv, WriterInv, TypeOK
<1>6. PICK o \in 0..Len(d) : o = Len(d) - writer.n
  BY <1>5
<1>7. Unsent = SubSeq(d, o + 1, Len(d)) /\ Stream = (fd_receive_data \o socket) \o SubSeq(d, o + 1, Len(d))
  BY <1>4, <1>5, <1>6 DEF Unsent, Stream
<1>8. PICK a \in Seq(Units) : a = fd_receive_data
  BY <1>3, StreamType
<1>9. PICK b \in Seq(Units) : b = socket
  BY <1>3, StreamType
<1>10. ASSUME NEW y \in o..Len(d), writer' = Less(writer, Len(d) - y),
              socket' = socket \o SubSeq(d, o + 1, y)
       PROVE  Stream' = Stream /\ writer'.to_send = d
  <2>1. Len(d) - y \in Nat /\ Len(d) - (Len(d) - y) = y
    OBVIOUS
  <2>2. writer'.to_send = d /\ writer'.n = Len(d) - y
    BY <1>5, <1>10, <2>1, WriterLess, Zenon
  <2>3. Unsent' = SubSeq(d, y + 1, Len(d))
    BY <1>1, <1>4, <2>1, <2>2 DEF Unsent
  <2>4. Stream' = (a \o (b \o SubSeq(d, o + 1, y))) \o SubSeq(d, y + 1, Len(d))
    BY <1>1, <1>8, <1>9, <1>10, <2>3 DEF Stream
  <2>5. Stream = (a \o b) \o SubSeq(d, o + 1, Len(d))
    BY <1>7, <1>8, <1>9
  <2>6. Moves(a, b, d, o, y)
    BY Moved
  <2> QED
    BY <2>2, <2>4, <2>5, <2>6, Zenon DEF Moves
<1>a. Len(d) <= Len(d)
  OBVIOUS
<1>11. Stream' = Stream /\ Len(writer'.to_send) <= Len(d) /\ (writer'.n > 0 => writer'.to_send = d)
  <2>1. CASE \E k \in 1..Window : WritePart(k)
    <3>1. PICK k \in 1..Window : WritePart(k)
      BY <2>1
    <3>2. k < writer.n /\ errno[writer.thread] # "EAGAIN" /\ writer' = [writer EXCEPT !.n = @ - k]
      BY <3>1 DEF WritePart
    <3>a. PICK n \in Nat : n = writer.n
      BY <1>5
    <3>b. k \in Nat /\ k < n /\ Len(d) \in Nat /\ o = Len(d) - n /\ n <= Len(d)
      BY <1>5, <1>6, <3>2, <3>a, LimitsAssumption
    <3>c. o + k \in o..Len(d) /\ n - k = Len(d) - (o + k)
      BY <3>b
    <3>3. PICK y \in o..Len(d) : y = o + k /\ writer.n - k = Len(d) - y
      BY <3>a, <3>c
    <3>4. writer' = Less(writer, Len(d) - y)
      BY <3>2, <3>3 DEF Less
    <3>5. socket' = socket \o SubSeq(d, o + 1, y)
      BY <1>5, <1>6, <3>1, <3>3 DEF WritePart
    <3> QED
      BY <1>10, <1>a, <3>4, <3>5
  <2>2. CASE WriteAll
    <3>1. Len(d) \in o..Len(d) /\ Len(d) - Len(d) = 0
      OBVIOUS
    <3>2. writer' = Less(writer, Len(d) - Len(d))
      BY <2>2, <3>1 DEF WriteAll, Less
    <3>3. socket' = socket \o SubSeq(d, o + 1, Len(d))
      BY <1>5, <1>6, <2>2 DEF WriteAll
    <3> QED
      BY <1>10, <1>a, <3>1, <3>2, <3>3
  <2>3. CASE WriteAgain
    <3>1. PICK cut \in Seq(Units) : cut = SubSeq(d, 1, o) /\ Len(cut) = o
      BY CutIs
    <3>2. writer' = Cut(writer, cut)
      BY <1>5, <1>6, <2>3, <3>1 DEF WriteAgain, Cut
    <3>3. writer'.to_send = cut /\ writer'.n = 0
      BY <1>5, <3>1, <3>2, WriterCut, Zenon
    <3>4. o - 0 = o /\ o <= Len(d)
      OBVIOUS
    <3>5. Unsent' = SubSeq(d, o + 1, Len(d))
      BY <1>1, <1>4, <3>1, <3>3, <3>4 DEF Unsent
    <3>6. socket' = socket
      BY <2>3 DEF WriteAgain
    <3> QED
      BY <1>1, <1>7, <3>1, <3>3, <3>4, <3>5, <3>6 DEF Stream
  <2> QED
    BY <2>1, <2>2, <2>3
<1>12. BufferInv'
  BY <1>1, <1>3, <1>4, <1>11 DEF BufferInv
<1>13. FrameInv' /\ OrderInv' /\ DeliveredInOrder'
  <2>1. pub' = "cached" => published' \in cache'
    BY <1>1, <1>3 DEF OrderInv
  <2>2. \A m \in Messages : Sent(m) => Sent(m)'
    BY <1>1 DEF Sent
  <2> QED
    BY <1>1, <1>2, <1>3, <1>11, <2>1, <2>2, StreamKept
<1> QED
  BY <1>11, <1>12, <1>13 DEF StreamInv

\* Erasing what was written leaves what is still to be written.
LEMMA EraseKeeps ==
  ASSUME IndInv, TypeOK', WriterInv', ~torn', EraseWritten
  PROVE  StreamInv' /\ Stream' = Stream
<1>1. /\ writer # NoWriter /\ writer.n = 0 /\ writer' = NoWriter /\ ~torn
      /\ UNCHANGED <<published, cache, open, socket, fd_receive_data, delivered>>
      /\ clients_data' = SubSeq(clients_data, Len(writer.to_send) + 1, Len(clients_data))
      /\ pub' \in {pub, "idle"} /\ join' \in {join, "done"}
  BY DEF EraseWritten, WriterDone, subscriberVars
<1>2. TypeOK /\ WriterInv /\ StreamInv /\ BufferInv /\ OrderInv
  BY <1>1 DEF IndInv, StreamInv
<1>3. /\ clients_data \in Seq(Units) /\ Len(writer.to_send) \in Nat
      /\ Len(writer.to_send) <= Len(clients_data)
  BY <1>2, StreamType DEF BufferInv
<1>4. Unsent = clients_data'
  <2>1. (Len(writer.to_send) - 0) + 1 = Len(writer.to_send) + 1
    BY <1>3
  <2> QED
    BY <1>1, <2>1 DEF Unsent
<1>5. Unsent' = clients_data'
  <2>1. clients_data' \in Seq(Units) /\ writer'.to_send = <<>> /\ writer'.n = 0
    BY <1>1 DEF TypeOK, NoWriter
  <2>2. (Len(<<>>) - 0) + 1 = 1
    OBVIOUS
  <2>3. Unsent' = SubSeq(clients_data', 1, Len(clients_data'))
    BY <2>1, <2>2 DEF Unsent
  <2> QED
    BY <2>1, <2>3, SubSeqFull
<1>6. Stream' = Stream
  BY <1>1, <1>4, <1>5 DEF Stream
<1>7. ~open => clients_data' = <<>>
  <2> SUFFICES ASSUME ~open PROVE clients_data' = <<>>
    OBVIOUS
  <2>1. clients_data = <<>> /\ Len(writer.to_send) = 0
    BY <1>2, <1>3 DEF BufferInv
  <2>2. clients_data' = SubSeq(<<>>, 0 + 1, 0)
    BY <1>1, <2>1
  <2> QED
    BY <2>2
<1>8. BufferInv'
  <2>1. writer'.to_send = <<>> /\ writer'.n = 0
    BY <1>1 DEF NoWriter
  <2>2. clients_data' \in Seq(Units)
    BY DEF TypeOK
  <2>3. Len(writer'.to_send) <= Len(clients_data')
    BY <2>1, <2>2
  <2>4. join' \notin {"select", "inserted"}
    BY <1>1, <1>2 DEF BufferInv
  <2>5. ~(writer'.n > 0)
    BY <2>1
  <2>6. open' = open
    BY <1>1
  <2> QED
    BY <1>7, <2>3, <2>4, <2>5, <2>6, Zenon DEF BufferInv
<1>9. FrameInv' /\ OrderInv' /\ DeliveredInOrder'
  <2>1. pub' = "cached" => published' \in cache'
    BY <1>1, <1>2 DEF OrderInv
  <2>2. \A m \in Messages : Sent(m) => Sent(m)'
    BY <1>1 DEF Sent
  <2> QED
    BY <1>1, <1>2, <1>6, <2>1, <2>2, StreamKept
<1> QED
  BY <1>6, <1>8, <1>9 DEF StreamInv

\* The thread of add_client starts to write with a copy of the buffer.
LEMMA JoinKeeps ==
  ASSUME IndInv, TypeOK', WriterInv', ~torn', JoinWrites
  PROVE  StreamInv' /\ Stream' = Stream
<1>1. /\ writer = NoWriter /\ ~torn /\ join' = "write" /\ writer'.to_send = clients_data
      /\ writer'.n = Len(clients_data)
      /\ UNCHANGED <<published, cache, pub, clients_data, open, socket, fd_receive_data, delivered>>
  BY DEF JoinWrites, subscriberVars
<1>2. TypeOK /\ WriterInv /\ StreamInv /\ BufferInv /\ OrderInv
  BY <1>1 DEF IndInv, StreamInv
<1>3. clients_data \in Seq(Units) /\ Len(clients_data) \in Nat
  BY <1>2, StreamType
<1>4. Unsent = clients_data
  BY <1>1, <1>2, NothingWritten
<1>5. Unsent' = clients_data
  <2>1. Len(clients_data) - Len(clients_data) + 1 = 1
    BY <1>3
  <2>2. Unsent' = SubSeq(clients_data, 1, Len(clients_data))
    BY <1>1, <2>1 DEF Unsent
  <2> QED
    BY <1>3, <2>2, SubSeqFull
<1>6. Stream' = Stream
  BY <1>1, <1>4, <1>5 DEF Stream
<1>7. BufferInv'
  BY <1>1, <1>2, <1>3 DEF BufferInv
<1>8. FrameInv' /\ OrderInv' /\ DeliveredInOrder'
  <2>1. pub' = "cached" => published' \in cache'
    BY <1>1, <1>2 DEF OrderInv
  <2>2. \A m \in Messages : Sent(m) => Sent(m)'
    BY <1>1 DEF Sent
  <2> QED
    BY <1>1, <1>2, <1>6, <2>1, <2>2, StreamKept
<1> QED
  BY <1>6, <1>7, <1>8 DEF StreamInv

\* A part of a stream is in order if the stream is.
LEMMA PartInOrder ==
  ASSUME NEW s, NEW t, NEW C, NEW c \in Nat, Len(t) \in Nat, InOrder(s, C),
         \A i \in 1..Len(t) : i + c \in 1..Len(s) /\ t[i] = s[i + c]
  PROVE  InOrder(t, C)
<1> SUFFICES ASSUME NEW i \in 1..Len(t), NEW j \in 1..Len(t), i < j, t[i].pos = 1, t[j].pos = 1,
                    t[i].msg \notin C, t[j].msg \notin C
             PROVE  t[i].msg < t[j].msg
  BY DEF InOrder
<1>1. i + c \in 1..Len(s) /\ j + c \in 1..Len(s) /\ t[i] = s[i + c] /\ t[j] = s[j + c]
  OBVIOUS
<1>2. i + c < j + c
  OBVIOUS
<1> QED
  BY <1>1, <1>2 DEF InOrder

\* A write that fails leaves what the socket has.
LEMMA ErrorKeeps ==
  ASSUME IndInv, TypeOK', WriterInv', ~torn', WriteError
  PROVE  StreamInv' /\ Stream' = fd_receive_data \o socket
<1>1. /\ writer # NoWriter /\ writer' = NoWriter /\ ~torn /\ ~open' /\ clients_data' = <<>>
      /\ UNCHANGED <<published, cache, socket, fd_receive_data, delivered>>
      /\ pub' \in {pub, "idle"} /\ join' \in {join, "done"}
  BY DEF WriteError, WriterDone, subscriberVars
<1>2. TypeOK /\ WriterInv /\ BufferInv /\ FrameInv /\ OrderInv /\ DeliveredInOrder
  BY <1>1 DEF IndInv, StreamInv
<1>3. PICK g \in Seq(Units) : g = fd_receive_data \o socket
  BY <1>2, StreamType
<1>4. PICK u \in Seq(Units) : u = Unsent
  BY <1>2, StreamType
<1>5. PICK s \in Seq(Units) : s = Stream /\ s = g \o u
  BY <1>2, <1>3, <1>4, StreamType DEF Stream
<1>6. Stream' = g
  <2>1. writer'.to_send = <<>> /\ writer'.n = 0 /\ Len(<<>>) = 0
    BY <1>1 DEF NoWriter
  <2>2. SubSeq(<<>>, (0 - 0) + 1, 0) = <<>>
    OBVIOUS
  <2>3. Unsent' = <<>>
    BY <1>1, <2>1, <2>2 DEF Unsent
  <2>4. g \o <<>> = g
    OBVIOUS
  <2> QED
    BY <1>1, <1>3, <2>3, <2>4 DEF Stream
<1>7. Len(g) \in Nat /\ 0 \in Nat /\ \A i \in 1..Len(g) : i + 0 \in 1..Len(s) /\ g[i] = s[i + 0] /\ i + 0 = i
  <2>1. /\ Len(s) = Len(g) + Len(u) /\ Len(g) \in Nat /\ Len(u) \in Nat
        /\ \A i \in 1..(Len(g) + Len(u)) : s[i] = IF i <= Len(g) THEN g[i] ELSE u[i - Len(g)]
    BY <1>5, ConcatProperties
  <2> QED
    BY <2>1
<1>8. BufferInv'
  <2>1. writer'.to_send = <<>> /\ writer'.n = 0
    BY <1>1 DEF NoWriter
  <2>2. Len(writer'.to_send) <= Len(clients_data') /\ ~(writer'.n > 0)
    BY <1>1, <2>1
  <2>3. join' \notin {"select", "inserted"}
    BY <1>1, <1>2 DEF BufferInv
  <2> QED
    BY <1>1, <2>2, <2>3, Zenon DEF BufferInv
<1>9. FrameInv'
  <2>1. Linked(g)
    BY <1>2, <1>5, LinkedPrefix DEF FrameInv
  <2> QED
    BY <1>1, <1>6, <2>1 DEF FrameInv
<1>10. OrderInv'
  <2>1. InOrder(g, cache)
    BY <1>2, <1>5, <1>7, PartInOrder DEF OrderInv
  <2>2. \A i \in DOMAIN delivered, j \in 1..Len(g) :
          (delivered[i] \notin cache /\ g[j].pos = 1 /\ g[j].msg \notin cache)
            => delivered[i] < g[j].msg
    BY <1>2, <1>5, <1>7 DEF OrderInv
  <2>3. \A m : Sent(m) => Sent(m)'
    BY <1>1 DEF Sent
  <2>4. \A j \in 1..Len(g) : Sent(g[j].msg)
    BY <1>2, <1>5, <1>7 DEF OrderInv
  <2>5. \A j \in 1..Len(g) : Sent(g[j].msg)'
    BY <2>4, <1>1 DEF Sent
  <2>6. \A i \in DOMAIN delivered : Sent(delivered[i])'
    BY <1>1, <1>2 DEF Sent, OrderInv
  <2>7. pub' = "cached" => published' \in cache'
    BY <1>1, <1>2 DEF OrderInv
  <2> QED
    BY <1>1, <1>6, <2>1, <2>2, <2>5, <2>6, <2>7 DEF OrderInv, Sent
<1>11. DeliveredInOrder'
  BY <1>1, <1>2 DEF DeliveredInOrder
<1> QED
  BY <1>3, <1>6, <1>8, <1>9, <1>10, <1>11 DEF StreamInv

\* The initial data of a connection is all that it carries.
LEMMA InitDataKeeps ==
  ASSUME IndInv, TypeOK', WriterInv', ~torn', InitData
  PROVE  StreamInv' /\ Stream' = clients_data'
<1>1. /\ join = "inserted" /\ join' = "init" /\ ~torn
      /\ UNCHANGED <<published, cache, pub, writer, open, socket, fd_receive_data, delivered>>
  BY DEF InitData, subscriberVars
<1>2. TypeOK /\ WriterInv /\ BufferInv /\ FrameInv /\ OrderInv /\ DeliveredInOrder
  BY <1>1 DEF IndInv, StreamInv
<1>3. PICK data \in Seq(Units) : /\ data = clients_data' /\ Linked(data) /\ Closed(data)
                                 /\ \A i \in 1..Len(data) : data[i].msg \in cache
  <2>1. cache \subseteq Messages
    BY <1>2 DEF TypeOK
  <2>2. \E order \in SetToSeqs(cache) :
          clients_data' = FlattenSeq([i \in DOMAIN order |-> serialize(order[i])])
    BY DEF InitData
  <2> HIDE DEF InitData
  <2> QED
    BY <2>1, <2>2, InitialData
<1>4. open /\ writer = NoWriter /\ Stream = <<>> /\ clients_data = <<>>
  BY <1>1, <1>2 DEF BufferInv
<1>5. fd_receive_data \o socket = <<>>
  <2>1. PICK g \in Seq(Units) : g = fd_receive_data \o socket
    BY <1>2, StreamType
  <2>2. Unsent = <<>>
    BY <1>2, <1>4, NothingWritten
  <2>3. g \o <<>> = g
    OBVIOUS
  <2> QED
    BY <1>4, <2>1, <2>2, <2>3 DEF Stream
<1>6. writer'.to_send = <<>> /\ writer'.n = 0 /\ Len(<<>>) = 0
  BY <1>1, <1>4 DEF NoWriter
<1>7. Stream' = data
  <2>1. (0 - 0) + 1 = 1
    OBVIOUS
  <2>2. Unsent' = SubSeq(data, 1, Len(data))
    BY <1>3, <1>6, <2>1 DEF Unsent
  <2>3. Unsent' = data
    BY <1>3, <2>2, SubSeqFull
  <2>4. <<>> \o data = data
    BY <1>3
  <2> QED
    BY <1>1, <1>5, <2>3, <2>4 DEF Stream
<1>8. BufferInv'
  <2>1. Len(writer'.to_send) <= Len(clients_data') /\ ~(writer'.n > 0)
    BY <1>3, <1>6
  <2>2. open' /\ join' \notin {"select", "inserted"}
    BY <1>1, <1>4
  <2> QED
    BY <2>1, <2>2, Zenon DEF BufferInv
<1>9. FrameInv'
  BY <1>3, <1>7 DEF FrameInv
<1>10. OrderInv'
  <2>1. InOrder(data, cache)
    BY <1>3 DEF InOrder
  <2>2. \A j \in 1..Len(data) : Sent(data[j].msg)'
    BY <1>1, <1>3 DEF Sent
  <2>3. \A i \in DOMAIN delivered : Sent(delivered[i])'
    BY <1>1, <1>2 DEF Sent, OrderInv
  <2>4. pub' = "cached" => published' \in cache'
    BY <1>1, <1>2 DEF OrderInv
  <2> QED
    BY <1>1, <1>3, <1>7, <2>1, <2>2, <2>3, <2>4 DEF OrderInv, Sent
<1>11. DeliveredInOrder'
  BY <1>1, <1>2 DEF DeliveredInOrder
<1> QED
  BY <1>3, <1>7, <1>8, <1>9, <1>10, <1>11 DEF StreamInv

\* The frame of a message behind a stream whose uncached messages are before it.
LEMMA FrameBehind ==
  ASSUME NEW s \in Seq(Units), NEW C, InOrder(s, C), NEW m \in Messages,
         \A i \in 1..Len(s) : (s[i].msg \notin C /\ m \notin C) => s[i].msg < m
  PROVE  LET t == s \o serialize(m)
         IN  /\ t \in Seq(Units) /\ InOrder(t, C)
             /\ \A i \in 1..Len(t) : IF i <= Len(s) THEN t[i] = s[i] ELSE t[i].msg = m
<1>1. PICK f \in Seq(Units) : f = serialize(m)
  BY FrameIs
<1>2. ASSUME NEW i \in 1..Len(f) PROVE f[i].msg = m /\ f[i].pos = i
  <2>1. f[i] = [msg |-> m, pos |-> i]
    BY <1>1, FrameIs
  <2> QED
    BY <2>1
<1>3. PICK t \in Seq(Units) :
        /\ t = s \o f /\ Len(t) = Len(s) + Len(f)
        /\ \A i \in 1..(Len(s) + Len(f)) : t[i] = IF i <= Len(s) THEN s[i] ELSE f[i - Len(s)]
  <2>1. /\ s \o f \in Seq(Units) /\ Len(s \o f) = Len(s) + Len(f)
        /\ \A i \in 1..(Len(s) + Len(f)) :
             (s \o f)[i] = IF i <= Len(s) THEN s[i] ELSE f[i - Len(s)]
    BY ConcatProperties
  <2> QED
    BY <2>1, Zenon
<1>4. ASSUME NEW i \in 1..Len(t)
      PROVE  IF i <= Len(s) THEN i \in 1..Len(s) /\ t[i] = s[i]
                            ELSE t[i].msg = m /\ t[i].pos = i - Len(s)
  <2>0. Len(s) \in Nat /\ Len(f) \in Nat /\ i \in 1..(Len(s) + Len(f))
    BY <1>3
  <2>1. CASE i <= Len(s)
    BY <1>3, <2>0, <2>1
  <2>2. CASE ~(i <= Len(s))
    <3>1. i - Len(s) \in 1..Len(f)
      BY <2>0, <2>2
    <3>2. t[i] = f[i - Len(s)]
      BY <1>3, <2>0, <2>2
    <3> QED
      BY <1>2, <2>2, <3>1, <3>2
  <2> QED
    BY <2>1, <2>2
<1>5. InOrder(t, C)
  <2> SUFFICES ASSUME NEW i \in 1..Len(t), NEW j \in 1..Len(t), i < j, t[i].pos = 1, t[j].pos = 1,
                      t[i].msg \notin C, t[j].msg \notin C
               PROVE  t[i].msg < t[j].msg
    BY DEF InOrder
  <2>0. Len(s) \in Nat
    OBVIOUS
  <2>1. CASE j <= Len(s)
    <3>1. i <= Len(s)
      BY <2>0, <2>1
    <3> QED
      BY <1>4, <2>1, <3>1 DEF InOrder
  <2>2. CASE i <= Len(s) /\ ~(j <= Len(s))
    <3>1. t[j].msg = m /\ i \in 1..Len(s) /\ t[i] = s[i]
      BY <1>4, <2>2
    <3> QED
      BY <3>1
  <2>3. CASE ~(i <= Len(s))
    <3>1. t[i].pos = i - Len(s) /\ ~(j <= Len(s))
      BY <1>4, <2>0, <2>3
    <3>2. t[j].pos = j - Len(s)
      BY <1>4, <3>1
    <3> QED
      BY <2>0, <3>1, <3>2
  <2> QED
    BY <2>1, <2>2, <2>3
<1> QED
  BY <1>1, <1>3, <1>4, <1>5

\* A message is dropped, or its frame goes behind the stream.
LEMMA SendKeeps ==
  ASSUME IndInv, TypeOK', WriterInv', ~torn', write_to_socket
  PROVE  /\ StreamInv'
         /\ \/ pub' = "idle" /\ Stream' = Stream
            \/ pub' = "write" /\ Stream' = Stream \o serialize(published)
<1>1. /\ pub \in {"cached", "uncached"} /\ writer = NoWriter /\ ~torn
      /\ ~(Registered /\ join = "inserted")
      /\ UNCHANGED <<published, cache, join, open, socket, fd_receive_data, delivered>>
  BY DEF write_to_socket, subscriberVars
<1>2. /\ TypeOK /\ WriterInv /\ StreamInv /\ BufferInv /\ FrameInv /\ OrderInv
      /\ DeliveredInOrder
  BY <1>1 DEF IndInv, StreamInv
<1>3. CASE UNCHANGED <<clients_data, writer>> /\ pub' = "idle"
  <2>1. Stream' = Stream
    BY <1>1, <1>3 DEF Stream, Unsent
  <2>2. BufferInv'
    BY <1>1, <1>2, <1>3, <2>1 DEF BufferInv
  <2>3. \A m \in Messages : Sent(m) => Sent(m)'
    BY <1>1, <1>3 DEF Sent
  <2>4. FrameInv' /\ OrderInv' /\ DeliveredInOrder'
    BY <1>1, <1>2, <1>3, <2>1, <2>3, StreamKept
  <2> QED
    BY <1>3, <2>1, <2>2, <2>4 DEF StreamInv
<1>4. CASE Registered /\ Send(clients_data \o serialize(published)) /\ pub' = "write"
  <2>1. open /\ join \notin {"select", "inserted"}
    BY <1>1, <1>4 DEF Registered
  <2>2. PICK m \in Messages : m = published
    BY <1>1, <1>2 DEF WriterInv
  <2>3. PICK f \in Seq(Units) : f = serialize(m) /\ Linked(f) /\ Closed(f)
    BY FrameIs
  <2>4. PICK d \in Seq(Units) : d = clients_data
    BY <1>2, StreamType
  <2>5. PICK g \in Seq(Units) : g = fd_receive_data \o socket
    BY <1>2, StreamType
  <2>6. PICK s \in Seq(Units) : s = Stream /\ s = g \o d
    <3>1. Unsent = d
      BY <1>1, <1>2, <2>4, NothingWritten
    <3> QED
      BY <1>2, <2>5, <3>1, StreamType DEF Stream
  <2>7. PICK data \in Seq(Units) : data = d \o f
    BY ConcatProperties
  <2>8. clients_data' = data /\ writer'.to_send = data /\ writer'.n = Len(data)
    BY <1>4, <2>2, <2>3, <2>4, <2>7 DEF Send
  <2>9. Stream' = s \o f
    <3>1. Len(data) - Len(data) + 1 = 1
      OBVIOUS
    <3>2. Unsent' = SubSeq(data, 1, Len(data))
      BY <2>8, <3>1 DEF Unsent
    <3>3. Unsent' = data
      BY <3>2, SubSeqFull
    <3>4. Stream' = g \o data
      BY <1>1, <2>5, <3>3 DEF Stream
    <3>5. Associates(g, d, f)
      BY Longer
    <3> QED
      BY <2>6, <2>7, <3>4, <3>5, Zenon DEF Associates
  <2>10. BufferInv'
    <3>1. Len(writer'.to_send) <= Len(clients_data') /\ writer'.to_send = clients_data'
      BY <2>8
    <3>2. open' /\ join' \notin {"select", "inserted"}
      BY <1>1, <2>1
    <3> QED
      BY <3>1, <3>2, Zenon DEF BufferInv
  <2>11. FrameInv'
    <3>1. Linked(s) /\ Closed(s)
      BY <1>2, <2>1, <2>6 DEF FrameInv
    <3>2. Linked(s \o f) /\ Closed(s \o f)
      BY <2>3, <3>1, LinkedConcat
    <3> QED
      BY <2>9, <3>2 DEF FrameInv
  <2>12. OrderInv'
    <3>1. \A x : (Sent(x) /\ x \notin cache /\ m \notin cache) => x < m
      BY <1>1, <1>2, <2>2 DEF Sent, OrderInv
    <3>2. \A i \in 1..Len(s) : Sent(s[i].msg)
      BY <1>2, <2>6 DEF OrderInv
    <3>3. \A i \in 1..Len(s) : (s[i].msg \notin cache /\ m \notin cache) => s[i].msg < m
      BY <3>1, <3>2
    <3>4. InOrder(s, cache)
      BY <1>2, <2>6 DEF OrderInv
    <3>5. PICK t \in Seq(Units) :
            /\ t = s \o f /\ InOrder(t, cache)
            /\ \A i \in 1..Len(t) : IF i <= Len(s) THEN t[i] = s[i] ELSE t[i].msg = m
      <4>1. LET q == s \o serialize(m)
            IN  /\ q \in Seq(Units) /\ InOrder(q, cache)
                /\ \A i \in 1..Len(q) : IF i <= Len(s) THEN q[i] = s[i] ELSE q[i].msg = m
        BY <3>3, <3>4, FrameBehind
      <4> QED
        BY <2>3, <4>1, Zenon
    <3>6. Len(t) \in Nat /\ Len(s) \in Nat
      OBVIOUS
    <3>7. ASSUME NEW i \in DOMAIN delivered, NEW j \in 1..Len(t),
                 delivered[i] \notin cache, t[j].pos = 1, t[j].msg \notin cache
          PROVE  delivered[i] < t[j].msg
      <4>1. CASE j <= Len(s)
        <5>1. j \in 1..Len(s) /\ t[j] = s[j]
          BY <3>5, <3>6, <4>1
        <5> QED
          BY <1>2, <2>6, <3>7, <5>1 DEF OrderInv
      <4>2. CASE ~(j <= Len(s))
        <5>1. t[j].msg = m /\ Sent(delivered[i])
          BY <1>2, <3>5, <4>2 DEF OrderInv
        <5> QED
          BY <3>1, <3>7, <5>1
      <4> QED
        BY <4>1, <4>2
    <3>8. ASSUME NEW j \in 1..Len(t) PROVE Sent(t[j].msg)'
      <4>1. \A x : (Sent(x) \/ x = m) => Sent(x)'
        BY <1>1, <1>4, <2>2 DEF Sent
      <4>2. Sent(t[j].msg) \/ t[j].msg = m
        <5>1. j <= Len(s) => j \in 1..Len(s)
          BY <3>6
        <5> QED
          BY <3>2, <3>5, <5>1
      <4> QED
        BY <1>1, <1>4, <2>2, <4>2 DEF Sent
    <3>9. \A i \in DOMAIN delivered : Sent(delivered[i])'
      BY <1>1, <1>2, <1>4 DEF Sent, OrderInv
    <3>10. Stream' = t
      BY <2>9, <3>5
    <3> QED
      BY <1>1, <1>4, <3>5, <3>7, <3>8, <3>9, <3>10 DEF OrderInv, Sent
  <2>13. DeliveredInOrder'
    BY <1>1, <1>2 DEF DeliveredInOrder
  <2> QED
    BY <1>4, <2>2, <2>3, <2>6, <2>9, <2>10, <2>11, <2>12, <2>13 DEF StreamInv
<1> QED
  BY <1>3, <1>4 DEF write_to_socket

(***************************************************************************)
(* c units and the messages ms are taken from the part buf of the stream   *)
(* s = buf \o rest, and t is left of it.                                   *)
(***************************************************************************)
Takes(buf, rest, s, C, c, ms, t) ==
  /\ c \in 0..Len(s) /\ ms \in Seq(Messages)
  /\ t = SubSeq(buf, c + 1, Len(buf)) \o rest
  /\ Linked(t) /\ (Closed(s) => Closed(t)) /\ Len(t) \in Nat
  /\ \A i \in 1..Len(t) : i + c \in 1..Len(s) /\ t[i] = s[i + c]
  /\ \A i \in 1..Len(ms) : \E p \in 1..Len(s) : p <= c /\ s[p].pos = 1 /\ s[p].msg = ms[i]
  /\ \A i, j \in 1..Len(ms) : (i < j /\ ms[i] \notin C /\ ms[j] \notin C) => ms[i] < ms[j]

\* What decode takes from a prefix of a stream, and what it leaves.
LEMMA Decoded ==
  ASSUME NEW buf \in Seq(Units), NEW rest \in Seq(Units), NEW s \in Seq(Units), s = buf \o rest,
         Linked(s), NEW C, InOrder(s, C)
  PROVE  LET c == decode(buf).consumed
         IN  Takes(buf, rest, s, C, c, decode(buf).msgs, SubSeq(s, c + 1, Len(s)))
<1>1. PICK c : c = decode(buf).consumed
  OBVIOUS
<1>2. PICK ms : ms = decode(buf).msgs
  OBVIOUS
<1>3. /\ Len(s) = Len(buf) + Len(rest) /\ Len(buf) \in Nat /\ Len(rest) \in Nat
      /\ \A i \in 1..Len(buf) : i \in 1..Len(s) /\ s[i] = buf[i]
  <2>1. /\ Len(s) = Len(buf) + Len(rest) /\ Len(buf) \in Nat /\ Len(rest) \in Nat
        /\ \A i \in 1..(Len(buf) + Len(rest)) :
             s[i] = IF i <= Len(buf) THEN buf[i] ELSE rest[i - Len(buf)]
    BY ConcatProperties
  <2> QED
    BY <2>1
<1>4. Linked(buf)
  BY LinkedPrefix
<1>5. InOrder(buf, C)
  <2>1. 0 \in Nat /\ \A i \in 1..Len(buf) : i + 0 \in 1..Len(s) /\ buf[i] = s[i + 0]
    BY <1>3
  <2> QED
    BY <1>3, <2>1, PartInOrder
<1>6. Found(buf, C, 0, c, ms)
  BY <1>1, <1>2, <1>4, <1>5, DecodeIs
<1>7. c \in 0..Len(buf) /\ (c = 0 \/ Closes(buf[c])) /\ ms \in Seq(Messages)
  BY <1>6 DEF Found
<1>8. c \in 0..Len(s) /\ (c = 0 \/ Closes(s[c]))
  <2>1. c # 0 => c \in 1..Len(buf)
    BY <1>7
  <2> QED
    BY <1>3, <1>7, <2>1
<1>9. PICK t : t = SubSeq(s, c + 1, Len(s))
  OBVIOUS
<1>10. /\ t \in Seq(Units) /\ Linked(t) /\ (Closed(s) => Closed(t))
       /\ \A i \in 1..Len(t) : i + c \in 1..Len(s) /\ t[i] = s[i + c]
  BY <1>8, <1>9, LinkedSuffix
<1>11. t = SubSeq(buf, c + 1, Len(buf)) \o rest
  BY <1>7, <1>9, SuffixConcat
<1>12. ASSUME NEW i \in 1..Len(ms)
       PROVE  \E p \in 1..Len(s) : p <= c /\ s[p].pos = 1 /\ s[p].msg = ms[i]
  <2>1. PICK p \in (0 + 1)..c : buf[p].pos = 1 /\ buf[p].msg = ms[i]
    BY <1>6 DEF Found
  <2>2. p \in 1..Len(buf) /\ p <= c
    BY <1>3, <1>7
  <2> QED
    BY <1>3, <2>1, <2>2
<1>13. \A i, j \in 1..Len(ms) : (i < j /\ ms[i] \notin C /\ ms[j] \notin C) => ms[i] < ms[j]
  BY <1>6 DEF Found
<1>14. Len(t) \in Nat
  BY <1>10
<1>15. Takes(buf, rest, s, C, c, ms, t)
  BY <1>7, <1>8, <1>10, <1>11, <1>12, <1>13, <1>14, Zenon DEF Takes
<1> QED
  BY <1>1, <1>2, <1>9, <1>15, Zenon

\* What recv and decode do to the stream s and to the messages d delivered.
Received(s, t, d, e) ==
  \E buf \in Seq(Units), rest \in Seq(Units) :
    /\ s = buf \o rest
    /\ e = d \o decode(buf).msgs
    /\ t = SubSeq(s, decode(buf).consumed + 1, Len(s))

\* The subscriber takes whole frames from the front of the stream.
LEMMA ReceiveKeeps ==
  ASSUME IndInv, TypeOK', WriterInv', ~torn', NEW k \in 1..Window, handle_client_event(k)
  PROVE  StreamInv' /\ Received(Stream, Stream', delivered, delivered')
<1>1. /\ k \in 1..Len(socket) /\ ~torn
      /\ UNCHANGED <<published, cache, pub, join, clients_data, writer, open>>
  <2>1. k \in Nat /\ 0 < k /\ k <= Len(socket) /\ socket \in Seq(Units)
    BY LimitsAssumption DEF handle_client_event, IndInv, TypeOK
  <2> QED
    BY <2>1 DEF handle_client_event
<1>2. TypeOK /\ WriterInv /\ BufferInv /\ FrameInv /\ OrderInv /\ DeliveredInOrder
  BY <1>1 DEF IndInv, StreamInv
<1>3. PICK a \in Seq(Units) : a = fd_receive_data
  BY <1>2, StreamType
<1>4. PICK b \in Seq(Units) : b = socket
  BY <1>2, StreamType
<1>5. PICK u \in Seq(Units) : u = Unsent
  BY <1>2, StreamType
<1>6. PICK x \in Seq(Units) : x = SubSeq(b, 1, k)
  <2>1. k \in 0..Len(b)
    BY <1>1, <1>4
  <2> QED
    BY <2>1, CutIs
<1>7. PICK y \in Seq(Units) : y = SubSeq(b, k + 1, Len(b))
  <2>1. k \in Nat /\ Len(b) \in 0..Len(b)
    BY <1>1, <1>4
  <2> QED
    BY <2>1, PartIs
<1>8. b = x \o y
  <2>1. 1 \in 1..(Len(b) + 1) /\ k \in (1 - 1)..Len(b) /\ Len(b) \in k..Len(b)
    BY <1>1, <1>4
  <2>2. x \o y = SubSeq(b, 1, Len(b))
    BY <1>6, <1>7, <2>1, ConcatAdjacentSubSeq
  <2> QED
    BY <2>2, SubSeqFull
<1>9. PICK buf \in Seq(Units) : buf = a \o x
  BY ConcatProperties
<1>10. PICK rest \in Seq(Units) : rest = y \o u
  BY ConcatProperties
<1>11. PICK s \in Seq(Units) : s = Stream /\ s = buf \o rest
  <2>1. Stream = (a \o (x \o y)) \o u
    BY <1>3, <1>4, <1>5, <1>8 DEF Stream
  <2>2. Regroups(a, x, y, u)
    BY Regroup
  <2>3. Stream = buf \o rest
    BY <1>9, <1>10, <2>1, <2>2, Zenon DEF Regroups
  <2> QED
    BY <1>2, <2>3, StreamType
<1>12. PICK c : c = decode(buf).consumed
  OBVIOUS
<1>13. PICK ms : ms = decode(buf).msgs
  OBVIOUS
<1>14. PICK t : t = SubSeq(s, c + 1, Len(s))
  OBVIOUS
<1>15. Linked(s) /\ (open => Closed(s)) /\ InOrder(s, cache)
  BY <1>2, <1>11 DEF FrameInv, OrderInv
<1>16. /\ c \in 0..Len(s) /\ ms \in Seq(Messages)
       /\ t = SubSeq(buf, c + 1, Len(buf)) \o rest
       /\ Linked(t) /\ (Closed(s) => Closed(t)) /\ Len(t) \in Nat
       /\ \A i \in 1..Len(t) : i + c \in 1..Len(s) /\ t[i] = s[i + c]
       /\ \A i \in 1..Len(ms) :
            \E p \in 1..Len(s) : p <= c /\ s[p].pos = 1 /\ s[p].msg = ms[i]
       /\ \A i, j \in 1..Len(ms) : (i < j /\ ms[i] \notin cache /\ ms[j] \notin cache) => ms[i] < ms[j]
  <2>1. Linked(s) /\ InOrder(s, cache) /\ s = buf \o rest
    BY <1>11, <1>15
  <2>2. Takes(buf, rest, s, cache, c, ms, t)
    BY <1>12, <1>13, <1>14, <2>1, Decoded, Zenon
  <2> QED
    BY <2>2, Zenon DEF Takes
<1>a. c \in Nat /\ ms \in Seq(Messages) /\ Len(ms) \in Nat
  BY <1>16
<1>17. socket' = y /\ delivered' = delivered \o ms /\ fd_receive_data' = SubSeq(buf, c + 1, Len(buf))
  BY <1>3, <1>4, <1>6, <1>7, <1>9, <1>12, <1>13 DEF handle_client_event
<1>18. Stream' = t
  <2>1. PICK q \in Seq(Units) : q = SubSeq(buf, c + 1, Len(buf))
    BY <1>17 DEF TypeOK
  <2>2. Unsent' = u
    BY <1>1, <1>5 DEF Unsent
  <2>3. Stream' = (q \o y) \o u
    BY <1>17, <2>1, <2>2 DEF Stream
  <2>4. Associates(q, y, u)
    BY <1>5, <1>7, <2>1, Longer
  <2> QED
    BY <1>10, <1>16, <2>1, <2>3, <2>4, Zenon DEF Associates
<1>19. BufferInv'
  <2>1. Len(s) > 0
    <3>1. Len(s) = Len(buf) + Len(rest) /\ Len(buf) = Len(a) + Len(x)
      BY <1>9, <1>11, ConcatProperties
    <3>2. Len(x) = k
      <4>1. k \in 0..Len(b)
        BY <1>1, <1>4
      <4> QED
        BY <1>6, <4>1, CutIs
    <3>3. Len(a) \in Nat /\ Len(rest) \in Nat /\ k \in Nat /\ 0 < k
      BY <1>1
    <3> QED
      BY <3>1, <3>2, <3>3
  <2>2. join \notin {"select", "inserted"}
    BY <1>2, <1>11, <2>1 DEF BufferInv
  <2> QED
    BY <1>1, <1>2, <2>2 DEF BufferInv
<1>20. FrameInv'
  BY <1>1, <1>15, <1>16, <1>18 DEF FrameInv
<1>21. PICK dl \in Seq(Messages) : dl = delivered
  BY <1>2 DEF TypeOK
<1>22. PICK dn \in Seq(Messages) :
         /\ dn = delivered' /\ Len(dn) = Len(dl) + Len(ms)
         /\ \A i \in 1..(Len(dl) + Len(ms)) : dn[i] = IF i <= Len(dl) THEN dl[i] ELSE ms[i - Len(dl)]
  <2>1. /\ dl \o ms \in Seq(Messages) /\ Len(dl \o ms) = Len(dl) + Len(ms)
        /\ \A i \in 1..(Len(dl) + Len(ms)) :
             (dl \o ms)[i] = IF i <= Len(dl) THEN dl[i] ELSE ms[i - Len(dl)]
    BY <1>16, ConcatProperties
  <2> QED
    BY <1>17, <1>21, <2>1, Zenon
<1>23. ASSUME NEW i \in 1..Len(dn)
       PROVE  IF i <= Len(dl) THEN i \in 1..Len(dl) /\ dn[i] = dl[i]
                              ELSE i - Len(dl) \in 1..Len(ms) /\ dn[i] = ms[i - Len(dl)]
  <2>1. Len(dl) \in Nat /\ Len(ms) \in Nat /\ i \in 1..(Len(dl) + Len(ms))
    BY <1>a, <1>21, <1>22
  <2>2. dn[i] = IF i <= Len(dl) THEN dl[i] ELSE ms[i - Len(dl)]
    BY <1>22, <2>1, Zenon
  <2>3. IF i <= Len(dl) THEN i \in 1..Len(dl) ELSE i - Len(dl) \in 1..Len(ms)
    BY <2>1
  <2> QED
    BY <2>2, <2>3
<1>24. /\ \A i \in 1..Len(dl), j \in 1..Len(s) :
            (dl[i] \notin cache /\ s[j].pos = 1 /\ s[j].msg \notin cache) => dl[i] < s[j].msg
       /\ \A i \in 1..Len(dl) : Sent(dl[i])
       /\ \A j \in 1..Len(s) : Sent(s[j].msg)
       /\ \A i, j \in 1..Len(dl) : (i < j /\ dl[i] \notin cache /\ dl[j] \notin cache) => dl[i] < dl[j]
  <2>1. DOMAIN dl = 1..Len(dl)
    OBVIOUS
  <2> QED
    BY <1>1, <1>2, <1>11, <1>21, <2>1 DEF OrderInv, DeliveredInOrder
<1>25. OrderInv'
  <2>1. InOrder(t, cache)
    <3>1. Len(t) \in Nat /\ \A i \in 1..Len(t) : i + c \in 1..Len(s) /\ t[i] = s[i + c]
      BY <1>16, Zenon
    <3> QED
      BY <1>a, <1>15, <3>1, PartInOrder, Zenon
  <2>2. ASSUME NEW i \in 1..Len(dn), NEW j \in 1..Len(t),
               dn[i] \notin cache, t[j].pos = 1, t[j].msg \notin cache
        PROVE  dn[i] < t[j].msg
    <3>1. j + c \in 1..Len(s) /\ t[j] = s[j + c]
      BY <1>16
    <3>2. CASE i <= Len(dl)
      BY <1>23, <1>24, <2>2, <3>1, <3>2
    <3>3. CASE ~(i <= Len(dl))
      <4>1. i - Len(dl) \in 1..Len(ms) /\ dn[i] = ms[i - Len(dl)]
        BY <1>23, <3>3
      <4>2. PICK p \in 1..Len(s) : p <= c /\ s[p].pos = 1 /\ s[p].msg = dn[i]
        BY <1>16, <4>1
      <4>3. p < j + c
        BY <1>16, <4>2
      <4> QED
        BY <1>15, <2>2, <3>1, <4>2, <4>3 DEF InOrder
    <3> QED
      BY <3>2, <3>3
  <2>3. ASSUME NEW i \in 1..Len(dn) PROVE Sent(dn[i])
    <3>1. CASE i <= Len(dl)
      BY <1>23, <1>24, <3>1
    <3>2. CASE ~(i <= Len(dl))
      BY <1>16, <1>23, <1>24, <3>2
    <3> QED
      BY <3>1, <3>2
  <2>4. \A j \in 1..Len(t) : Sent(t[j].msg)
    BY <1>16, <1>24
  <2>5. DOMAIN dn = 1..Len(dn)
    OBVIOUS
  <2>6. pub = "cached" => published \in cache
    BY <1>2 DEF OrderInv
  <2> QED
    BY <1>1, <1>18, <1>22, <2>1, <2>2, <2>3, <2>4, <2>5, <2>6 DEF OrderInv, Sent
<1>26. DeliveredInOrder'
  <2>1. ASSUME NEW i \in 1..Len(dn), NEW j \in 1..Len(dn), i < j, dn[i] \notin cache, dn[j] \notin cache
        PROVE  dn[i] < dn[j]
    <3>0. Len(dl) \in Nat
      OBVIOUS
    <3>1. CASE j <= Len(dl)
      <4>1. i <= Len(dl)
        BY <2>1, <3>0, <3>1
      <4> QED
        BY <1>23, <1>24, <2>1, <3>1, <4>1
    <3>2. CASE i <= Len(dl) /\ ~(j <= Len(dl))
      <4>1. i \in 1..Len(dl) /\ dn[i] = dl[i] /\ j - Len(dl) \in 1..Len(ms) /\ dn[j] = ms[j - Len(dl)]
        BY <1>23, <3>2
      <4>2. PICK p \in 1..Len(s) : s[p].pos = 1 /\ s[p].msg = dn[j]
        BY <1>16, <4>1
      <4> QED
        BY <1>24, <2>1, <4>1, <4>2
    <3>3. CASE ~(i <= Len(dl))
      <4>1. ~(j <= Len(dl)) /\ i - Len(dl) < j - Len(dl)
        BY <2>1, <3>0, <3>3
      <4>2. /\ i - Len(dl) \in 1..Len(ms) /\ dn[i] = ms[i - Len(dl)]
            /\ j - Len(dl) \in 1..Len(ms) /\ dn[j] = ms[j - Len(dl)]
        BY <1>23, <3>3, <4>1
      <4> QED
        BY <1>16, <2>1, <4>1, <4>2
    <3> QED
      BY <3>1, <3>2, <3>3
  <2>2. DOMAIN dn = 1..Len(dn)
    OBVIOUS
  <2> QED
    BY <1>1, <1>22, <2>1, <2>2 DEF DeliveredInOrder
<1>27. Received(Stream, Stream', delivered, delivered')
  BY <1>11, <1>12, <1>13, <1>14, <1>17, <1>18, Zenon DEF Received
<1> QED
  BY <1>19, <1>20, <1>25, <1>26, <1>27 DEF StreamInv

\* A subscriber that closes leaves nothing on its way.
LEMMA CloseKeeps ==
  ASSUME IndInv, ~torn', close_and_delete_event
  PROVE  StreamInv' /\ Stream' = <<>>
<1>1. /\ ~open /\ ~open' /\ ~torn /\ socket' = <<>> /\ fd_receive_data' = <<>>
      /\ UNCHANGED <<published, cache, pub, join, clients_data, writer, delivered>>
  BY DEF close_and_delete_event
<1>2. TypeOK /\ WriterInv /\ BufferInv /\ FrameInv /\ OrderInv /\ DeliveredInOrder
  BY <1>1 DEF IndInv, StreamInv
<1>3. clients_data = <<>> /\ join \notin {"select", "inserted"}
  BY <1>1, <1>2 DEF BufferInv
<1>4. Stream' = <<>>
  <2>1. Len(writer.to_send) - writer.n \in 0..0
    BY <1>2, <1>3, StreamType
  <2>2. SubSeq(<<>>, 0 + 1, 0) = <<>> /\ <<>> \o <<>> \o <<>> = <<>> /\ Len(<<>>) = 0
    OBVIOUS
  <2>3. Len(writer.to_send) - writer.n = 0
    BY <2>1
  <2>4. Unsent' = <<>>
    BY <1>1, <1>3, <2>2, <2>3 DEF Unsent
  <2> QED
    BY <1>1, <2>2, <2>4 DEF Stream
<1>5. Len(Stream') = 0
  BY <1>4
<1>6. BufferInv'
  BY <1>1, <1>2, <1>3 DEF BufferInv
<1>7. FrameInv'
  BY <1>1, <1>5 DEF FrameInv, Linked
<1>8. OrderInv'
  BY <1>1, <1>2, <1>5 DEF OrderInv, InOrder, Sent
<1>9. DeliveredInOrder'
  BY <1>1, <1>2 DEF DeliveredInOrder
<1> QED
  BY <1>4, <1>6, <1>7, <1>8, <1>9 DEF StreamInv
---------------------------------------------------------------------------
(* The theorems.                                                           *)

\* Every step keeps the invariant.
LEMMA NextInd == IndInv /\ [Next]_vars => IndInv'
<1> SUFFICES ASSUME IndInv, [Next]_vars PROVE IndInv'
  OBVIOUS
<1>1. TypeOK /\ WriterInv
  BY DEF IndInv
<1>2. TypeOK' /\ WriterInv'
  BY <1>1, TypeInd
<1>3. ASSUME ~torn' PROVE StreamInv'
  <2>1. CASE write_to_socket
    BY <1>2, <1>3, <2>1, SendKeeps
  <2>2. CASE (\E k \in 1..Window : WritePart(k)) \/ WriteAll \/ WriteAgain
    BY <1>2, <1>3, <2>2, WriteKeeps
  <2>3. CASE EraseWritten
    BY <1>2, <1>3, <2>3, EraseKeeps
  <2>4. CASE WriteError
    BY <1>2, <1>3, <2>4, ErrorKeeps
  <2>5. CASE InitData
    BY <1>2, <1>3, <2>5, InitDataKeeps
  <2>6. CASE JoinWrites
    BY <1>2, <1>3, <2>6, JoinKeeps
  <2>7. CASE Subscriber
    BY <1>2, <1>3, <2>7, ReceiveKeeps DEF Subscriber
  <2>8. CASE Publisher \/ InsertFd \/ UNCHANGED vars
    <3>1. ~torn
      BY <1>3, <2>8 DEF Publisher, write_to_cache, PublishUncached, PublisherSpins, InsertFd, vars
    <3> QED
      BY <2>8, <3>1, QuietKeeps
  <2>9. CASE close_and_delete_event
    BY <1>3, <2>9, CloseKeeps
  <2> QED
    BY <2>1, <2>2, <2>3, <2>4, <2>5, <2>6, <2>7, <2>8, <2>9 DEF Next, write_fd, Joiner
<1> QED
  BY <1>2, <1>3 DEF IndInv

\* So it holds in every state that can be reached.
LEMMA SpecInd == Spec => []IndInv
  BY InitInd, NextInd, PTL DEF Spec

(***************************************************************************)
(* However write and recv cut the stream (write_fd, handle_client_event),  *)
(* whatever is dropped over MAX_WRITE_BUFFER_SIZE and whenever the         *)
(* connection joins, the receive buffer, the socket and the write buffer   *)
(* together are whole frames, until one of the two ways of tearing them.   *)
(***************************************************************************)
THEOREM FramesStayIntact == Spec => []FramesIntact
<1>1. IndInv => FramesIntact
  <2> SUFFICES ASSUME IndInv PROVE FramesIntact
    OBVIOUS
  <2>1. TypeOK
    BY DEF IndInv
  <2>2. ASSUME open, ~torn PROVE decode(Stream).consumed = Len(Stream)
    <3>1. /\ TypeOK /\ WriterInv /\ BufferInv
          /\ Linked(Stream) /\ Closed(Stream) /\ InOrder(Stream, cache)
      BY <2>2 DEF IndInv, StreamInv, FrameInv, OrderInv
    <3>2. PICK s \in Seq(Units) : s = Stream
      BY <3>1, StreamType
    <3>3. Found(s, cache, 0, decode(s).consumed, decode(s).msgs)
      BY <3>1, <3>2, DecodeIs
    <3> QED
      BY <3>1, <3>2, <3>3 DEF Found
  <2> QED
    BY <2>1, <2>2 DEF FramesIntact, Stream
<1> QED
  BY <1>1, SpecInd, PTL

(***************************************************************************)
(* Until then the callbacks of handle_client_event see the messages that   *)
(* are not cached in the order of their publication, each at most once.    *)
(***************************************************************************)
THEOREM DeliveredStaysInOrder == Spec => []DeliveredInOrder
<1>1. IndInv => DeliveredInOrder
  BY DEF IndInv, StreamInv, DeliveredInOrder
<1> QED
  BY <1>1, SpecInd, PTL

(***************************************************************************)
(* The refinement of Channel.  Each action is a step of Channel under the  *)
(* mapping of Ch, or leaves Channel's variables as they are: the writer    *)
(* moves bytes inside Stream, so that only a publication, a join, a chunk  *)
(* and an error are seen there.                                            *)
(***************************************************************************)

\* The two parts of a concatenation.
LEMMA SplitIs ==
  ASSUME NEW a \in Seq(Messages), NEW b \in Seq(Messages)
  PROVE  \E c \in Seq(Messages) :
           /\ c = a \o b /\ Len(a) \in 0..Len(c)
           /\ SubSeq(c, 1, Len(a)) = a /\ SubSeq(c, Len(a) + 1, Len(c)) = b
<1>1. PICK c \in Seq(Messages) :
        /\ c = a \o b /\ Len(c) = Len(a) + Len(b)
        /\ \A i \in 1..(Len(a) + Len(b)) : c[i] = IF i <= Len(a) THEN a[i] ELSE b[i - Len(a)]
  <2>1. /\ a \o b \in Seq(Messages) /\ Len(a \o b) = Len(a) + Len(b)
        /\ \A i \in 1..(Len(a) + Len(b)) :
             (a \o b)[i] = IF i <= Len(a) THEN a[i] ELSE b[i - Len(a)]
    BY ConcatProperties
  <2> QED
    BY <2>1, Zenon
<1>2. Len(a) \in Nat /\ Len(b) \in Nat /\ Len(a) \in 0..Len(c)
  BY <1>1
<1>3. SubSeq(c, 1, Len(a)) = a
  BY <1>1, <1>2
<1>4. SubSeq(c, Len(a) + 1, Len(c)) = b
  BY <1>1, <1>2
<1> QED
  BY <1>1, <1>2, <1>3, <1>4, Zenon

\* What is delivered stays delivered.
LEMMA PrefixOfConcat ==
  ASSUME NEW a \in Seq(Messages), NEW b \in Seq(Messages)
  PROVE  IsPrefix(a, a \o b)
<1>1. PICK c \in Seq(Messages) :
        /\ c = a \o b /\ Len(a) \in 0..Len(c)
        /\ SubSeq(c, 1, Len(a)) = a /\ SubSeq(c, Len(a) + 1, Len(c)) = b
  BY SplitIs, Zenon
<1>2. SubSeq(a, 1, Len(a)) = SubSeq(c, 1, Len(a))
  BY <1>1
<1>3. Len(a) <= Len(c)
  BY <1>1
<1> QED
  BY <1>1, <1>2, <1>3 DEF IsPrefix

\* The abstract state, torn or not.
LEMMA Abstract ==
  ASSUME IndInv
  PROVE  /\ published \in Nat /\ Handed \in Int
         /\ pub \in {"cached", "uncached"} => Handed = published - 1 /\ Handed < published
         /\ pub \notin {"cached", "uncached"} => Handed = published
         /\ torn => Link = "torn" /\ InFlight = <<>>
         /\ ~torn => /\ Link \in {"new", "open", "closed"}
                     /\ (Link = "new" <=> join \in {"select", "inserted"})
                     /\ (Link = "open" <=> join \notin {"select", "inserted"} /\ open)
                     /\ InFlight = decode(Stream).msgs
                     /\ Stream \in Seq(Units) /\ InFlight \in Seq(Messages)
<1>1. published \in Nat
  BY SizesAssumption DEF IndInv, TypeOK
<1>2. ASSUME ~torn PROVE Stream \in Seq(Units) /\ decode(Stream).msgs \in Seq(Messages)
  <2>1. Stream \in Seq(Units)
    BY <1>2, StreamType DEF IndInv, StreamInv
  <2> QED
    BY <2>1, DecodeType
<1> QED
  BY <1>1, <1>2 DEF Handed, Link, InFlight

\* The initial state is one of Channel.
LEMMA InitRefines == Init => Ch!Init
<1> SUFFICES ASSUME Init PROVE Ch!Init
  OBVIOUS
<1>1. Len(<<>>) = 0 /\ NoWriter.to_send = <<>> /\ NoWriter.n = 0
  BY DEF NoWriter
<1>2. Stream = <<>>
  BY <1>1 DEF Init, Unsent, Stream
<1>3. InFlight = <<>>
  BY <1>2, DecodeFrame DEF Init, InFlight
<1>4. Handed = 0 /\ Link = "new"
  BY DEF Init, Handed, Link
<1> QED
  BY <1>3, <1>4 DEF Init, Ch!Init

\* Publications, and steps that leave the stream alone.
LEMMA PublisherRefines ==
  ASSUME IndInv, IndInv', Publisher \/ InsertFd \/ UNCHANGED vars
  PROVE  [Ch!Next]_(Ch!vars)
<1>1. /\ torn' = torn /\ open' = open /\ delivered' = delivered
      /\ join \in {"select", "inserted"} <=> join' \in {"select", "inserted"}
  BY DEF Publisher, write_to_cache, PublishUncached, PublisherSpins, InsertFd, vars, subscriberVars
<1>2. Link' = Link /\ InFlight' = InFlight
  <2>1. CASE torn
    BY <1>1, <2>1 DEF Link, InFlight
  <2>2. CASE ~torn
    <3>1. Stream' = Stream
      BY <2>2, QuietKeeps
    <3> QED
      BY <1>1, <3>1 DEF Link, InFlight
  <2> QED
    BY <2>1, <2>2
<1>3. CASE write_to_cache \/ PublishUncached
  <2>1. /\ published' = published + 1 /\ cache' \in {cache, cache \cup {published + 1}}
        /\ pub = "idle" /\ pub' \in {"cached", "uncached"}
    BY <1>3 DEF write_to_cache, PublishUncached
  <2>2. published \in Nat /\ Handed = published /\ Handed' = published
    BY <2>1, Abstract DEF Handed
  <2>3. Ch!Publish
    BY <1>1, <1>2, <2>1, <2>2 DEF Ch!Publish
  <2> QED
    BY <2>3 DEF Ch!Next
<1>4. CASE PublisherSpins \/ InsertFd \/ UNCHANGED vars
  <2>1. UNCHANGED <<published, cache, pub>>
    BY <1>4 DEF PublisherSpins, InsertFd, vars
  <2>2. Handed' = Handed
    BY <2>1 DEF Handed
  <2> QED
    BY <1>1, <1>2, <2>1, <2>2 DEF Ch!vars
<1> QED
  BY <1>3, <1>4 DEF Publisher

\* A call of write is not seen, or it tears the stream.
LEMMA WriteRefines ==
  ASSUME IndInv, IndInv', (\E k \in 1..Window : WritePart(k)) \/ WriteAll \/ WriteAgain
  PROVE  [Ch!Next]_(Ch!vars)
<1>0. torn => torn'
  BY Zenon DEF WritePart, WriteAll, WriteAgain
<1>1. UNCHANGED <<published, cache, pub, join, open, delivered>>
  BY DEF WritePart, WriteAll, WriteAgain, subscriberVars
<1>2. Handed' = Handed
  BY <1>1 DEF Handed
<1>3. CASE ~torn'
  <2>1. Stream' = Stream
    BY <1>3, WriteKeeps DEF IndInv
  <2>2. Link' = Link /\ InFlight' = InFlight
    BY <1>0, <1>1, <1>3, <2>1 DEF Link, InFlight
  <2> QED
    BY <1>1, <1>2, <2>2 DEF Ch!vars
<1>4. CASE torn' /\ ~torn
  <2>1. Link' = "torn" /\ InFlight' = <<>> /\ Link # "torn"
    BY <1>4, Abstract DEF Link, InFlight
  <2>2. Ch!Tear
    BY <1>1, <1>2, <2>1 DEF Ch!Tear
  <2> QED
    BY <2>2 DEF Ch!Next
<1>5. CASE torn
  BY <1>0, <1>1, <1>2, <1>5 DEF Ch!vars, Link, InFlight
<1> QED
  BY <1>3, <1>4, <1>5

\* Neither is the end of write_fd, or its beginning in add_client's thread.
LEMMA EraseRefines ==
  ASSUME IndInv, IndInv', EraseWritten \/ JoinWrites
  PROVE  [Ch!Next]_(Ch!vars)
<1>1. UNCHANGED <<published, cache, open, delivered, torn>>
  BY DEF EraseWritten, JoinWrites, WriterDone, subscriberVars
<1>2. Handed' = Handed
  <2>1. pub' = pub \/ (pub = "write" /\ pub' = "idle")
    BY DEF EraseWritten, JoinWrites, WriterDone, IndInv, WriterInv
  <2> QED
    BY <1>1, <2>1 DEF Handed
<1>3. CASE torn
  BY <1>1, <1>2, <1>3 DEF Ch!vars, Link, InFlight
<1>4. CASE ~torn
  <2>1. Stream' = Stream
    BY <1>1, <1>4, EraseKeeps, JoinKeeps DEF IndInv
  <2>2. join \notin {"select", "inserted"} /\ join' \notin {"select", "inserted"}
    BY <1>4 DEF EraseWritten, JoinWrites, WriterDone, IndInv, StreamInv, BufferInv
  <2>3. Link' = Link /\ InFlight' = InFlight
    BY <1>1, <2>1, <2>2 DEF Link, InFlight
  <2> QED
    BY <1>1, <1>2, <2>3 DEF Ch!vars
<1> QED
  BY <1>3, <1>4

\* A write that fails breaks the connection: what the socket has is a prefix.
LEMMA ErrorRefines ==
  ASSUME IndInv, IndInv', WriteError
  PROVE  [Ch!Next]_(Ch!vars)
<1>1. UNCHANGED <<published, cache, delivered, torn>> /\ ~open'
  BY DEF WriteError, WriterDone, subscriberVars
<1>2. Handed' = Handed
  <2>1. pub' = pub \/ (pub = "write" /\ pub' = "idle")
    BY DEF WriteError, WriterDone, IndInv, WriterInv
  <2> QED
    BY <1>1, <2>1 DEF Handed
<1>3. CASE torn
  BY <1>1, <1>2, <1>3 DEF Ch!vars, Link, InFlight
<1>4. CASE ~torn
  <2>1. PICK g \in Seq(Units) : g = fd_receive_data \o socket
    BY <1>4, StreamType DEF IndInv, StreamInv
  <2>2. PICK u \in Seq(Units) : u = Unsent
    BY <1>4, StreamType DEF IndInv, StreamInv
  <2>3. PICK s \in Seq(Units) : s = Stream /\ s = g \o u
    BY <1>4, <2>1, <2>2, Abstract DEF Stream
  <2>4. Stream' = g
    BY <1>1, <1>4, <2>1, ErrorKeeps DEF IndInv
  <2>5. PICK t \in Seq(Units) : t = SubSeq(s, decode(g).consumed + 1, Len(s))
    <3>1. decode(g).consumed \in Nat /\ Len(s) \in 0..Len(s)
      BY DecodeType
    <3> QED
      BY <3>1, PartIs
  <2>6. PICK p \in Seq(Messages) : p = decode(g).msgs
    BY DecodeType
  <2>7. PICK q \in Seq(Messages) : q = decode(t).msgs
    BY DecodeType
  <2>8. InFlight = p \o q /\ InFlight' = p
    <3>1. decode(s).msgs = p \o q
      <4>1. Splits(s, g, u, t)
        BY <2>3, <2>5 DEF Splits
      <4>2. s \in Seq(Units) /\ g \in Seq(Units) /\ u \in Seq(Units) /\ t \in Seq(Units)
        BY <2>1, <2>2, <2>3, <2>5
      <4>3. Decodes(s, g, t)
        BY <4>1, <4>2, DecodeConcat
      <4> QED
        BY <2>6, <2>7, <4>3, Zenon DEF Decodes
    <3> QED
      BY <1>1, <1>4, <2>3, <2>4, <2>6, <3>1 DEF InFlight
  <2>9. \E n \in 0..Len(InFlight) : InFlight' = SubSeq(InFlight, 1, n)
    <3>1. PICK c \in Seq(Messages) :
            /\ c = p \o q /\ Len(p) \in 0..Len(c)
            /\ SubSeq(c, 1, Len(p)) = p /\ SubSeq(c, Len(p) + 1, Len(c)) = q
      BY SplitIs, Zenon
    <3> QED
      BY <2>8, <3>1, Zenon
  <2>10. /\ open /\ join \notin {"select", "inserted"} /\ join' \notin {"select", "inserted"}
    <3>1. writer.n > 0 /\ join' \in {"done", join}
      BY DEF WriteError, WriterDone
    <3>2. writer \in Writers /\ BufferInv
      BY <1>4 DEF IndInv, StreamInv, WriterInv
    <3>3. PICK ts \in Seq(Units) : ts = writer.to_send /\ writer.n <= Len(ts)
      BY <1>4, <3>2 DEF Writers, IndInv, TypeOK
    <3>4. ts = clients_data /\ Len(ts) > 0
      BY <3>1, <3>2, <3>3 DEF BufferInv, Writers
    <3>5. open /\ join \notin {"select", "inserted"}
      BY <3>2, <3>4 DEF BufferInv
    <3> QED
      BY <3>1, <3>5
  <2>11. Link = "open" /\ Link' = "closed"
    BY <1>1, <1>4, <2>10 DEF Link
  <2>12. Ch!Break
    BY <1>1, <1>2, <2>9, <2>11 DEF Ch!Break
  <2> QED
    BY <2>12 DEF Ch!Next
<1> QED
  BY <1>3, <1>4

\* add_client's initial data is every cached message once.
LEMMA InitDataRefines ==
  ASSUME IndInv, IndInv', InitData
  PROVE  [Ch!Next]_(Ch!vars)
<1>1. /\ UNCHANGED <<published, cache, pub, open, delivered, torn, socket, fd_receive_data, writer>>
      /\ join = "inserted" /\ join' = "init"
  BY DEF InitData, subscriberVars
<1>2. Handed' = Handed
  BY <1>1 DEF Handed
<1>3. CASE torn
  BY <1>1, <1>2, <1>3 DEF Ch!vars, Link, InFlight
<1>4. CASE ~torn
  <2>1. cache \subseteq Messages /\ IsFiniteSet(cache)
    <3>1. IsFiniteSet(Messages)
      BY SizesAssumption, FS_Interval DEF Messages
    <3> QED
      BY <3>1, FS_Subset DEF IndInv, TypeOK
  <2>2. PICK order \in SetToSeqs(cache) : order = decode(clients_data').msgs
    <3>1. \E o \in SetToSeqs(cache) :
            clients_data' = FlattenSeq([i \in DOMAIN o |-> serialize(o[i])])
      BY DEF InitData
    <3> HIDE DEF InitData
    <3> QED
      BY <2>1, <3>1, InitialData
  <2>3. InFlight' = order
    <3>1. Stream' = clients_data'
      BY <1>1, <1>4, InitDataKeeps DEF IndInv
    <3> QED
      BY <1>1, <1>4, <2>2, <3>1 DEF InFlight
  <2>4. ToSet(order) = cache /\ IsInjective(order)
    <3>1. Cardinality(cache) \in Nat
      BY <2>1, FS_CardinalityType
    <3> DEFINE N == 1..Cardinality(cache)
    <3>2. order \in [N -> cache] /\ \A i, j \in N : i # j => order[i] # order[j]
      BY <2>2 DEF SetToSeqs
    <3>3. IsFiniteSet(N) /\ Cardinality(N) = Cardinality(cache)
      BY <3>1, FS_Interval
    <3> HIDE DEF N
    <3>4. IsInjective(order) /\ order \in Injection(N, cache)
      BY <3>2 DEF IsInjective, Injection
    <3>5. order \in Surjection(N, cache)
      BY <2>1, <3>3, <3>4, FS_Injection
    <3>6. \A m \in cache : \E i \in N : order[i] = m
      BY <3>5 DEF Surjection
    <3> QED
      BY <3>2, <3>4, <3>6 DEF ToSet
  <2>5. InFlight = <<>> /\ delivered = <<>>
    <3>1. Stream = <<>>
      BY <1>1, <1>4 DEF IndInv, StreamInv, BufferInv
    <3>2. delivered = <<>>
      BY <1>1, <1>4 DEF IndInv, StreamInv, BufferInv
    <3> QED
      BY <1>4, <3>1, <3>2, DecodeFrame DEF InFlight
  <2>6. Link = "new" /\ Link' = "open"
    <3>1. open
      BY <1>1, <1>4 DEF IndInv, StreamInv, BufferInv
    <3> QED
      BY <1>1, <1>4, <3>1 DEF Link
  <2>7. Ch!Join
    BY <1>1, <1>2, <2>3, <2>4, <2>5, <2>6
       DEF Ch!Join, Ch!ToSet, Ch!IsInjective, ToSet, IsInjective
  <2> QED
    BY <2>7 DEF Ch!Next
<1> QED
  BY <1>3, <1>4

\* A message is sent whole behind the others, dropped, or torn by add_client.
LEMMA SendRefines ==
  ASSUME IndInv, IndInv', write_to_socket
  PROVE  [Ch!Next]_(Ch!vars)
<1>0. torn => torn'
  BY Zenon DEF write_to_socket
<1>1. /\ UNCHANGED <<published, cache, join, open, delivered>>
      /\ pub \in {"cached", "uncached"} /\ pub' \in {"idle", "write"}
  BY DEF write_to_socket, subscriberVars
<1>2. Ch!HandOver
  <2>1. Handed < published
    BY <1>1, Abstract
  <2>2. Handed' = published
    BY <1>1 DEF Handed
  <2> QED
    BY <2>1, <2>2 DEF Ch!HandOver
<1>3. CASE torn
  <2>1. Link = "torn" /\ Link' = "torn" /\ InFlight = <<>> /\ InFlight' = <<>>
    BY <1>0, <1>3 DEF Link, InFlight
  <2>2. Ch!Drop
    BY <1>1, <1>2, <2>1 DEF Ch!Drop
  <2> QED
    BY <2>2 DEF Ch!Next
<1>4. CASE ~torn /\ torn'
  <2>1. Link # "torn" /\ Link' = "torn" /\ InFlight' = <<>>
    BY <1>4 DEF Link, InFlight
  <2>2. Ch!Tear
    BY <1>1, <1>2, <2>1 DEF Ch!Tear
  <2> QED
    BY <2>2 DEF Ch!Next
<1>5. CASE ~torn /\ ~torn'
  <2>1. Link' = Link
    BY <1>1, <1>5 DEF Link
  <2>2. PICK s \in Seq(Units) : s = Stream
    BY <1>5, Abstract
  <2>3. Linked(s) /\ (open => Closed(s))
    BY <1>5, <2>2 DEF IndInv, StreamInv, FrameInv
  <2>4. InFlight = decode(s).msgs /\ InFlight' = decode(Stream').msgs
    BY <1>5, <2>2 DEF InFlight
  <2>5. \/ pub' = "idle" /\ Stream' = s
        \/ pub' = "write" /\ Stream' = s \o serialize(published)
    BY <1>5, <2>2, SendKeeps DEF IndInv
  <2>6. CASE pub' = "write"
    <3>1. PICK m \in Messages : m = published
      BY <1>1 DEF IndInv, WriterInv
    <3>2. Registered /\ join # "inserted"
      BY <1>5, <2>6 DEF write_to_socket
    <3>3. Link = "open"
      BY <1>5, <3>2 DEF Link, Registered
    <3>4. decode(s \o serialize(m)).msgs = Append(decode(s).msgs, m)
      BY <2>3, <3>2, DecodeAppend DEF Registered
    <3>5. InFlight' = Append(InFlight, published)
      BY <2>4, <2>5, <2>6, <3>1, <3>4
    <3>6. Ch!Send
      BY <1>1, <1>2, <2>1, <3>3, <3>5 DEF Ch!Send
    <3> QED
      BY <3>6 DEF Ch!Next
  <2>7. CASE pub' = "idle"
    <3>1. InFlight' = InFlight
      BY <2>4, <2>5, <2>7
    <3>2. ASSUME Link = "open" PROVE InFlight # <<>>
      <4>1. Registered /\ open
        BY <1>5, <3>2 DEF Link, Registered
      <4>2. ~(Len(clients_data) <= MAX_WRITE_BUFFER_SIZE) /\ writer = NoWriter
        BY <2>7, <4>1 DEF write_to_socket
      <4>3. PICK d \in Seq(Units) : d = clients_data
        BY DEF IndInv, TypeOK
      <4>4. PICK g \in Seq(Units) : g = fd_receive_data \o socket
        BY <1>5, StreamType DEF IndInv, StreamInv
      <4>5. s = g \o d
        <5>1. Unsent = d
          BY <4>2, <4>3, NothingWritten DEF IndInv
        <5> QED
          BY <2>2, <4>4, <5>1 DEF Stream
      <4>6. Len(d) > 0
        BY <4>2, <4>3, LimitsAssumption
      <4>7. Len(s) = Len(g) + Len(d) /\ Len(g) \in Nat /\ Len(d) \in Nat
        BY <4>5, ConcatProperties
      <4>8. Len(s) > 0
        BY <4>6, <4>7
      <4> QED
        BY <2>3, <2>4, <4>1, <4>8, DecodeWhole
    <3>3. Ch!Drop
      BY <1>1, <1>2, <2>1, <3>1, <3>2 DEF Ch!Drop
    <3> QED
      BY <3>3 DEF Ch!Next
  <2> QED
    BY <2>5, <2>6, <2>7
<1> QED
  BY <1>3, <1>4, <1>5

\* The subscriber gets the first messages on their way.
LEMMA ReceiveRefines ==
  ASSUME IndInv, IndInv', NEW k \in 1..Window, handle_client_event(k)
  PROVE  [Ch!Next]_(Ch!vars)
<1>1. UNCHANGED <<published, cache, pub, join, open, torn>>
  BY DEF handle_client_event
<1>2. Handed' = Handed /\ Link' = Link
  BY <1>1 DEF Handed, Link
<1>3. CASE torn
  <2>1. PICK buf \in Seq(Units) : buf = fd_receive_data \o SubSeq(socket, 1, k)
    <3>1. PICK a \in Seq(Units) : a = fd_receive_data
      BY DEF IndInv, TypeOK
    <3>2. PICK b \in Seq(Units) : b = socket
      BY DEF IndInv, TypeOK
    <3>3. k \in 0..Len(b)
      BY <3>2, LimitsAssumption DEF handle_client_event
    <3>4. PICK x \in Seq(Units) : x = SubSeq(b, 1, k)
      BY <3>3, CutIs
    <3> QED
      BY <3>1, <3>2, <3>4, ConcatProperties
  <2>2. delivered' = delivered \o decode(buf).msgs
    BY <2>1 DEF handle_client_event
  <2>3. IsPrefix(delivered, delivered')
    <3>1. delivered \in Seq(Messages) /\ decode(buf).msgs \in Seq(Messages)
      BY DecodeType DEF IndInv, TypeOK
    <3> QED
      BY <2>2, <3>1, PrefixOfConcat
  <2>4. Link = "torn" /\ InFlight' = InFlight
    BY <1>1, <1>3 DEF Link, InFlight
  <2>5. Ch!Garble
    BY <1>1, <1>2, <2>3, <2>4 DEF Ch!Garble, Ch!IsPrefix, IsPrefix
  <2> QED
    BY <2>5 DEF Ch!Next
<1>4. CASE ~torn
  <2>1. PICK s \in Seq(Units) : s = Stream
    BY <1>4, Abstract
  <2>2. Received(Stream, Stream', delivered, delivered')
    BY <1>1, <1>4, ReceiveKeeps DEF IndInv
  <2>3. PICK buf \in Seq(Units), rest \in Seq(Units) :
          /\ s = buf \o rest
          /\ delivered' = delivered \o decode(buf).msgs
          /\ Stream' = SubSeq(s, decode(buf).consumed + 1, Len(s))
    BY <2>1, <2>2, Zenon DEF Received
  <2>4. PICK t \in Seq(Units) : t = SubSeq(s, decode(buf).consumed + 1, Len(s))
    <3>1. decode(buf).consumed \in Nat /\ Len(s) \in 0..Len(s)
      BY DecodeType
    <3> QED
      BY <3>1, PartIs
  <2>5. PICK p \in Seq(Messages) : p = decode(buf).msgs
    BY DecodeType
  <2>6. PICK q \in Seq(Messages) : q = decode(t).msgs
    BY DecodeType
  <2>7. InFlight = p \o q /\ InFlight' = q
    <3>1. decode(s).msgs = p \o q
      <4>1. Splits(s, buf, rest, t)
        BY <2>3, <2>4 DEF Splits
      <4>2. s \in Seq(Units) /\ buf \in Seq(Units) /\ rest \in Seq(Units) /\ t \in Seq(Units)
        BY <2>1, <2>3, <2>4
      <4>3. Decodes(s, buf, t)
        BY <4>1, <4>2, DecodeConcat
      <4> QED
        BY <2>5, <2>6, <4>3, Zenon DEF Decodes
    <3>2. Stream' = t
      BY <2>3, <2>4, Zenon
    <3> QED
      BY <1>1, <1>4, <2>1, <2>6, <3>1, <3>2 DEF InFlight
  <2>8. delivered' = delivered \o p
    BY <2>3, <2>5, Zenon
  <2>9. CASE p = <<>>
    <3>1. delivered \in Seq(Messages) /\ delivered \o <<>> = delivered /\ <<>> \o q = q
      BY DEF IndInv, TypeOK
    <3>2. delivered' = delivered /\ InFlight' = InFlight
      BY <2>7, <2>8, <2>9, <3>1, Zenon
    <3> QED
      BY <1>1, <1>2, <3>2 DEF Ch!vars
  <2>10. CASE p # <<>>
    <3>1. PICK c \in Seq(Messages) :
            /\ c = p \o q /\ Len(p) \in 0..Len(c)
            /\ SubSeq(c, 1, Len(p)) = p /\ SubSeq(c, Len(p) + 1, Len(c)) = q
      BY SplitIs, Zenon
    <3>2. Len(p) \in 1..Len(c)
      BY <2>10, <3>1
    <3>3. \E n \in 1..Len(InFlight) :
            /\ delivered' = delivered \o SubSeq(InFlight, 1, n)
            /\ InFlight' = SubSeq(InFlight, n + 1, Len(InFlight))
      BY <2>7, <2>8, <3>1, <3>2, Zenon
    <3>4. Ch!Deliver
      BY <1>1, <1>2, <3>3, Zenon DEF Ch!Deliver
    <3> QED
      BY <3>4 DEF Ch!Next
  <2> QED
    BY <2>9, <2>10
<1> QED
  BY <1>3, <1>4

\* A subscriber that closes drops what has not been delivered.
LEMMA CloseRefines ==
  ASSUME IndInv, close_and_delete_event
  PROVE  [Ch!Next]_(Ch!vars)
<1>1. UNCHANGED <<published, cache, pub, join, open, delivered, torn>> /\ ~open
  BY DEF close_and_delete_event
<1>2. Handed' = Handed /\ Link' = Link
  BY <1>1 DEF Handed, Link
<1>3. CASE torn
  BY <1>1, <1>2, <1>3 DEF Ch!vars, InFlight
<1>4. CASE ~torn
  <2>1. Stream' = <<>> /\ <<>> \in Seq(Units)
    BY <1>1, <1>4, CloseKeeps
  <2>2. InFlight \in Seq(Messages) /\ InFlight' = <<>>
    <3>1. Stream \in Seq(Units)
      BY <1>4, StreamType DEF IndInv, StreamInv
    <3>2. decode(Stream).msgs \in Seq(Messages) /\ decode(<<>>).msgs = <<>>
      BY <2>1, <3>1, DecodeType, DecodeFrame
    <3> QED
      BY <1>1, <1>4, <2>1, <3>2 DEF InFlight
  <2>3. Link = "closed"
    BY <1>1, <1>4 DEF Link, IndInv, StreamInv, BufferInv
  <2>4. \E n \in 0..Len(InFlight) : InFlight' = SubSeq(InFlight, 1, n)
    <3>1. PICK q \in Seq(Messages) : q = InFlight
      BY <2>2
    <3>2. SubSeq(q, 1, 0) = <<>> /\ 0 \in 0..Len(q)
      OBVIOUS
    <3> QED
      BY <2>2, <3>1, <3>2
  <2>5. Ch!Break
    BY <1>1, <1>2, <2>3, <2>4 DEF Ch!Break
  <2> QED
    BY <2>5 DEF Ch!Next
<1> QED
  BY <1>3, <1>4

\* Every step is a step of Channel or is not seen there.
LEMMA StepRefines == IndInv /\ IndInv' /\ [Next]_vars => [Ch!Next]_(Ch!vars)
<1> SUFFICES ASSUME IndInv, IndInv', [Next]_vars PROVE [Ch!Next]_(Ch!vars)
  OBVIOUS
<1>1. CASE Publisher \/ InsertFd \/ UNCHANGED vars
  BY <1>1, PublisherRefines
<1>2. CASE write_to_socket
  BY <1>2, SendRefines
<1>3. CASE (\E k \in 1..Window : WritePart(k)) \/ WriteAll \/ WriteAgain
  BY <1>3, WriteRefines
<1>4. CASE EraseWritten \/ JoinWrites
  BY <1>4, EraseRefines
<1>5. CASE WriteError
  BY <1>5, ErrorRefines
<1>6. CASE InitData
  BY <1>6, InitDataRefines
<1>7. CASE Subscriber
  BY <1>7, ReceiveRefines DEF Subscriber
<1>8. CASE close_and_delete_event
  BY <1>8, CloseRefines
<1> QED
  BY <1>1, <1>2, <1>3, <1>4, <1>5, <1>6, <1>7, <1>8 DEF Next, write_fd, Joiner

(***************************************************************************)
(* The stream of TCPClient and TCPServer keeps the promise of Channel: a   *)
(* message that write_to_socket takes is on its way until                  *)
(* handle_client_event delivers it, after the earlier ones and once,       *)
(* whatever part of a frame write took and wherever recv cut the stream;   *)
(* only a broken connection loses it, until the stream is torn.            *)
(***************************************************************************)
THEOREM StreamImplementsChannel == Spec => ImplementsChannel
<1>1. Spec => [][Ch!Next]_(Ch!vars)
  BY SpecInd, StepRefines, PTL DEF Spec
<1> QED
  BY <1>1, InitRefines, PTL DEF Spec, ImplementsChannel, Ch!Spec
=============================================================================
