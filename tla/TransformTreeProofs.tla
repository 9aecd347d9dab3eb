------------------------ MODULE TransformTreeProofs ------------------------
(***************************************************************************)
(* Proofs about the transform tree, for any number of frames, transforms   *)
(* and lookups.                                                            *)
(*                                                                         *)
(* Climb is a recursive function.  That it is one at all, and what it      *)
(* computes, is shown by induction: a set of numbers that had a member     *)
(* without the property would have a least one.                            *)
(***************************************************************************)
EXTENDS TransformTree, FiniteSetTheorems, WellFoundedInduction, TLAPS

Height == Cardinality(Frames)

\* A series has at most one transform of each time.
OneOfEachTime(series) == \A d, e \in series : d.stamp = e.stamp => d = e

\* Frames with a parent have a transform, and no series is infinite.
SeriesInv ==
  \A f \in Frames : /\ IsFiniteSet(value_time_series[f]) /\ OneOfEachTime(value_time_series[f])
                    /\ parent[f] # NoFrame => value_time_series[f] # {}

\* Ancestors are cached for pairs of known frames.
CacheInv == \A t \in DOMAIN shared_ancestor : t \subseteq nodes

IndInv == CachedAncestorLowest /\ SeriesInv /\ CacheInv
---------------------------------------------------------------------------
(* Induction.                                                              *)

\* A set of numbers has a least member.
LEMMA LeastNumber ==
  ASSUME NEW S, S \subseteq Nat, S # {}
  PROVE  \E n \in S : \A m \in S : n <= m
<1>1. PICK n \in S : \A m \in S : ~(<<m, n>> \in OpToRel(<, Nat))
  BY WFMin, NatLessThanWellFounded
<1>2. \A m \in S : ~(m < n)
  BY <1>1 DEF OpToRel
<1> QED
  BY <1>2

\* A set that has 0, and n + 1 if it has n, has every number up to N.
LEMMA UpTo ==
  ASSUME NEW N \in Nat, NEW S, 0 \in S, \A n \in 0..(N - 1) : n \in S => n + 1 \in S
  PROVE  0..N \subseteq S
<1> DEFINE Bad == {n \in 0..N : n \notin S}
<1> SUFFICES ASSUME Bad # {} PROVE FALSE
  OBVIOUS
<1>1. PICK n \in Bad : \A m \in Bad : n <= m
  <2>1. Bad \subseteq Nat
    OBVIOUS
  <2> HIDE DEF Bad
  <2> QED
    BY <2>1, LeastNumber
<1>2. n # 0 /\ n - 1 \in 0..(N - 1) /\ n - 1 \notin Bad
  BY <1>1
<1> QED
  BY <1>1, <1>2

\* There are finitely many frames.
LEMMA HeightType == Height \in Nat
  BY FramesAssumption, FS_CardinalityType DEF Height
---------------------------------------------------------------------------
(* Climb, for any function of parents.                                     *)

Above(p, f) == IF f = NoFrame THEN NoFrame ELSE p[f]
IsWalk(p, f, at, n) == at = [k \in 0..n |-> IF k = 0 THEN f ELSE Above(p, at[k - 1])]
Walk(p, f) == CHOOSE at : IsWalk(p, f, at, Height)

\* There is such a function.
LEMMA WalkExists == ASSUME NEW p, NEW f PROVE \E at : IsWalk(p, f, at, Height)
<1> DEFINE S == {n \in Nat : \E at : IsWalk(p, f, at, n)}
<1>1. 0 \in S
  <2>1. IsWalk(p, f, [k \in 0..0 |-> f], 0)
    BY DEF IsWalk
  <2> QED
    BY <2>1
<1>2. ASSUME NEW n \in Nat, n \in S PROVE n + 1 \in S
  <2>1. PICK at : IsWalk(p, f, at, n)
    BY <1>2
  <2> DEFINE further == [k \in 0..(n + 1) |-> IF k = n + 1 THEN Above(p, at[n]) ELSE at[k]]
  <2>2. \A k \in 0..(n + 1) : k # 0 => k - 1 \in 0..n /\ further[k - 1] = at[k - 1]
    OBVIOUS
  <2>3. \A k \in 0..n : at[k] = IF k = 0 THEN f ELSE Above(p, at[k - 1])
    BY <2>1 DEF IsWalk
  <2>4. \A k \in 0..(n + 1) : further[k] = IF k = 0 THEN f ELSE Above(p, further[k - 1])
    BY <2>2, <2>3
  <2>5. further = [k \in 0..(n + 1) |-> further[k]]
    OBVIOUS
  <2> HIDE DEF further
  <2>6. IsWalk(p, f, further, n + 1)
    BY <2>4, <2>5 DEF IsWalk
  <2> QED
    BY <2>6
<1> HIDE DEF S
<1>3. Height \in S
  BY <1>1, <1>2, UpTo, HeightType
<1> QED
  BY <1>3 DEF S

\* Its values.
LEMMA WalkIs ==
  ASSUME NEW p, NEW f
  PROVE  /\ DOMAIN Walk(p, f) = 0..Height /\ 0 \in 0..Height
         /\ Walk(p, f)[0] = f
         /\ \A k \in 0..(Height - 1) : /\ k + 1 \in 0..Height /\ k \in 0..Height
                                       /\ Walk(p, f)[k + 1] = Above(p, Walk(p, f)[k])
<1> DEFINE at == Walk(p, f)
<1>1. IsWalk(p, f, at, Height)
  BY WalkExists, Zenon DEF Walk
<1> HIDE DEF at
<1>2. DOMAIN at = 0..Height /\ \A k \in 0..Height : at[k] = IF k = 0 THEN f ELSE Above(p, at[k - 1])
  BY <1>1 DEF IsWalk
<1>3. 0 \in 0..Height
  BY HeightType
<1>4. \A k \in 0..(Height - 1) : /\ k + 1 \in 0..Height /\ k + 1 # 0 /\ k \in 0..Height
                                 /\ (k + 1) - 1 = k
  BY HeightType
<1> QED
  BY <1>2, <1>3, <1>4 DEF at

\* Climb is the walk along parent, in this state and in the next.
LEMMA ClimbIsWalk ==
  \A f : Climb(f) = Walk(parent, f) /\ (Climb(f))' = Walk(parent', f)
<1> SUFFICES ASSUME NEW f PROVE Climb(f) = Walk(parent, f) /\ (Climb(f))' = Walk(parent', f)
  OBVIOUS
<1>1. Climb(f) = Walk(parent, f)
  BY Zenon DEF Climb, Walk, IsWalk, Above, Height
<1>2. (Climb(f))' = Walk(parent', f)
  BY Zenon DEF Climb, Walk, IsWalk, Above, Height
<1> QED
  BY <1>1, <1>2

\* A walk that has left the tree does not come back.
LEMMA WalkEnds ==
  ASSUME NEW p, NEW f, NEW j \in 0..Height, NEW k \in 0..Height, j <= k,
         Walk(p, f)[j] = NoFrame
  PROVE  Walk(p, f)[k] = NoFrame
<1> DEFINE at == Walk(p, f)
           S == {i \in Nat : j + i <= Height => at[j + i] = NoFrame}
<1>1. 0 \in S
  BY HeightType
<1>2. ASSUME NEW i \in Nat, i \in S PROVE i + 1 \in S
  <2> SUFFICES ASSUME j + (i + 1) <= Height PROVE at[j + (i + 1)] = NoFrame
    OBVIOUS
  <2>1. j + i \in 0..(Height - 1) /\ (j + i) + 1 = j + (i + 1) /\ j + i <= Height
    BY HeightType
  <2>2. at[j + i] = NoFrame
    BY <1>2, <2>1
  <2>3. at[(j + i) + 1] = Above(p, at[j + i])
    BY <2>1, WalkIs
  <2> QED
    BY <2>1, <2>2, <2>3 DEF Above
<1> HIDE DEF S, at
<1>3. k - j \in S
  BY <1>1, <1>2, UpTo, HeightType
<1> QED
  BY <1>3, HeightType DEF S, at

\* The rest of a walk is the walk from where it is.
LEMMA WalkShift ==
  ASSUME NEW p, NEW f, NEW m \in 0..Height, NEW k \in 0..Height, m <= k,
         NEW g, Walk(p, f)[m] = g
  PROVE  /\ k - m \in 0..Height
         /\ Walk(p, f)[k] = Walk(p, g)[k - m]
<1> DEFINE at == Walk(p, f)
           rest == Walk(p, g)
           S == {i \in Nat : m + i <= Height => at[m + i] = rest[i]}
<1>1. 0 \in S
  <2>1. rest[0] = at[m] /\ m + 0 = m
    BY WalkIs
  <2> QED
    BY <2>1
<1>2. ASSUME NEW i \in Nat, i \in S PROVE i + 1 \in S
  <2> SUFFICES ASSUME m + (i + 1) <= Height PROVE at[m + (i + 1)] = rest[i + 1]
    OBVIOUS
  <2>1. /\ m + i \in 0..(Height - 1) /\ (m + i) + 1 = m + (i + 1) /\ m + i <= Height
        /\ i \in 0..(Height - 1)
    BY HeightType
  <2>2. at[m + i] = rest[i]
    BY <1>2, <2>1
  <2>3. at[(m + i) + 1] = Above(p, at[m + i])
    BY <2>1, WalkIs
  <2>4. rest[i + 1] = Above(p, rest[i])
    BY <2>1, WalkIs
  <2> QED
    BY <2>1, <2>2, <2>3, <2>4
<1> HIDE DEF S
<1>3. k - m \in 0..Height /\ k - m \in Nat
  BY HeightType
<1>4. k - m \in S
  BY <1>1, <1>2, <1>3, UpTo
<1>5. m + (k - m) = k /\ k <= Height
  BY HeightType
<1> QED
  BY <1>3, <1>4, <1>5 DEF S

\* A walk stays among the frames it starts from and their parents.
LEMMA WalkType ==
  ASSUME NEW M, M \subseteq Frames, NEW p \in [Frames -> M \cup {NoFrame}], NEW f \in M,
         NEW k \in 0..Height
  PROVE  Walk(p, f)[k] \in M \cup {NoFrame}
<1> DEFINE at == Walk(p, f)
           S == {i \in Nat : i <= Height => at[i] \in M \cup {NoFrame}}
<1>1. 0 \in S
  BY WalkIs
<1>2. ASSUME NEW i \in Nat, i \in S PROVE i + 1 \in S
  <2> SUFFICES ASSUME i + 1 <= Height PROVE at[i + 1] \in M \cup {NoFrame}
    OBVIOUS
  <2>1. i \in 0..(Height - 1) /\ i <= Height
    BY HeightType
  <2>2. at[i] \in M \cup {NoFrame}
    BY <1>2, <2>1
  <2>3. at[i + 1] = Above(p, at[i])
    BY <2>1, WalkIs
  <2> HIDE DEF at
  <2> QED
    BY <2>2, <2>3 DEF Above
<1> HIDE DEF S, at
<1>3. k \in S
  BY <1>1, <1>2, UpTo, HeightType
<1> QED
  BY <1>3, HeightType DEF S, at

\* A frame that gets its first parent leaves every walk as it was, up to its end.
LEMMA WalkGrows ==
  ASSUME NEW p \in [Frames -> Frames \cup {NoFrame}], NEW q, NEW f \in Frames,
         \A g \in Frames : p[g] # NoFrame => q[g] = p[g],
         NEW k \in 0..Height, Walk(p, f)[k] # NoFrame
  PROVE  Walk(q, f)[k] = Walk(p, f)[k]
<1> DEFINE at == Walk(p, f)
           new == Walk(q, f)
           S == {i \in Nat : (i <= Height /\ at[i] # NoFrame) => new[i] = at[i]}
<1>1. 0 \in S
  BY WalkIs
<1>2. ASSUME NEW i \in Nat, i \in S PROVE i + 1 \in S
  <2> SUFFICES ASSUME i + 1 <= Height, at[i + 1] # NoFrame PROVE new[i + 1] = at[i + 1]
    OBVIOUS
  <2>1. i \in 0..(Height - 1) /\ i <= Height /\ i \in 0..Height
    BY HeightType
  <2>2. at[i + 1] = Above(p, at[i]) /\ new[i + 1] = Above(q, new[i])
    BY <2>1, WalkIs
  <2>3. at[i] \in Frames \cup {NoFrame}
    BY <2>1, WalkType
  <2> HIDE DEF at, new
  <2>4. at[i] # NoFrame /\ at[i] \in Frames
    BY <2>2, <2>3 DEF Above
  <2>5. new[i] = at[i]
    BY <1>2, <2>1, <2>4
  <2> QED
    BY <2>2, <2>4, <2>5 DEF Above
<1> HIDE DEF S, at, new
<1>3. k \in S
  BY <1>1, <1>2, UpTo, HeightType
<1> QED
  BY <1>3, HeightType DEF S, at, new

\* The frames on the walk from f.
LEMMA TraversedIs ==
  \A f, g : /\ g \in Traversed(f) <=> /\ g # NoFrame
                                      /\ \E k \in 0..Height : Walk(parent, f)[k] = g
            /\ g \in Traversed(f)' <=> /\ g # NoFrame
                                       /\ \E k \in 0..Height : Walk(parent', f)[k] = g
<1> SUFFICES ASSUME NEW f, NEW g
             PROVE  /\ g \in Traversed(f) <=> /\ g # NoFrame
                                              /\ \E k \in 0..Height : Walk(parent, f)[k] = g
                    /\ g \in Traversed(f)' <=> /\ g # NoFrame
                                               /\ \E k \in 0..Height : Walk(parent', f)[k] = g
  OBVIOUS
<1>1. Traversed(f) = Range(Walk(parent, f)) \ {NoFrame}
  BY ClimbIsWalk, Zenon DEF Traversed
<1>2. Traversed(f)' = Range(Walk(parent', f)) \ {NoFrame}
  BY ClimbIsWalk, Zenon DEF Traversed
<1>3. DOMAIN Walk(parent, f) = 0..Height /\ DOMAIN Walk(parent', f) = 0..Height
  BY WalkIs
<1> QED
  BY <1>1, <1>2, <1>3 DEF Range

\* Min is the least member.
LEMMA MinIs ==
  ASSUME NEW S, S \subseteq Nat, S # {}
  PROVE  Min(S) \in S /\ \A m \in S : Min(S) <= m
<1>1. \E n \in S : \A m \in S : n <= m
  BY LeastNumber
<1> QED
  BY <1>1 DEF Min
---------------------------------------------------------------------------
(* The series of a frame.                                                  *)

\* Times are ordered.
LEMMA TimesOrdered ==
  ASSUME NEW s \in Stamps, NEW t \in Stamps, NEW u \in Stamps
  PROVE  /\ ~Before(s, s)
         /\ (Before(s, t) /\ ~Before(s, u)) => ~Before(t, u)
         /\ s.seconds \in Nat /\ s.nanos \in Nat
         /\ (~Before(s, t) /\ ~Before(t, s)) => s = t
<1>1. /\ s.seconds \in Nat /\ s.nanos \in Nat /\ t.seconds \in Nat /\ t.nanos \in Nat
      /\ u.seconds \in Nat /\ u.nanos \in Nat
  BY StampsAssumption
<1>2. (s.seconds = t.seconds /\ s.nanos = t.nanos) => s = t
  BY StampsAssumption
<1> QED
  BY <1>1, <1>2 DEF Before

\* A finite series that is not empty has a latest transform.
LEMMA LatestExists ==
  ASSUME NEW series, series \subseteq Entries, IsFiniteSet(series), series # {}
  PROVE  \E e \in series : \A d \in series : ~Before(e.stamp, d.stamp)
<1> DEFINE HasLatest(T) == \E e \in T : \A d \in T : ~Before(e.stamp, d.stamp)
           S == {n \in Nat : \A T \in SUBSET Entries :
                               (IsFiniteSet(T) /\ Cardinality(T) = n /\ T # {}) => HasLatest(T)}
<1>1. 0 \in S
  BY FS_EmptySet
<1>2. ASSUME NEW n \in Nat, n \in S PROVE n + 1 \in S
  <2> SUFFICES ASSUME NEW T \in SUBSET Entries, IsFiniteSet(T), Cardinality(T) = n + 1, T # {}
               PROVE  HasLatest(T)
    OBVIOUS
  <2>1. PICK x : x \in T
    OBVIOUS
  <2>2. IsFiniteSet(T \ {x}) /\ Cardinality(T \ {x}) = n /\ T \ {x} \in SUBSET Entries
    <3>1. IsFiniteSet(T \ {x}) /\ Cardinality(T \ {x}) = Cardinality(T) - 1
      BY <2>1, FS_RemoveElement
    <3> QED
      BY <3>1
  <2>3. \A d \in T : d.stamp \in Stamps
    BY DEF Entries
  <2>4. CASE T \ {x} = {}
    BY <2>1, <2>3, <2>4, TimesOrdered
  <2>5. CASE T \ {x} # {}
    <3>1. PICK e \in T \ {x} : \A d \in T \ {x} : ~Before(e.stamp, d.stamp)
      BY <1>2, <2>2, <2>5
    <3>2. CASE Before(e.stamp, x.stamp)
      <4>1. \A d \in T : ~Before(x.stamp, d.stamp)
        BY <2>1, <2>3, <3>1, <3>2, TimesOrdered
      <4> QED
        BY <2>1, <4>1
    <3>3. CASE ~Before(e.stamp, x.stamp)
      BY <3>1, <3>3
    <3> QED
      BY <3>2, <3>3
  <2> QED
    BY <2>4, <2>5
<1>3. Cardinality(series) \in Nat
  BY FS_CardinalityType
<1> HIDE DEF S
<1>4. Cardinality(series) \in S
  BY <1>1, <1>2, <1>3, UpTo
<1> QED
  BY <1>4 DEF S

\* Latest is one of the series.
LEMMA LatestIs ==
  ASSUME NEW series, series \subseteq Entries, IsFiniteSet(series), series # {}
  PROVE  /\ Latest(series) \in series /\ Latest(series).stamp \in Stamps
         /\ \A d \in series : ~Before(Latest(series).stamp, d.stamp)
<1>1. \E e \in series : \A d \in series : ~Before(e.stamp, d.stamp)
  BY LatestExists
<1>2. Latest(series) \in series /\ \A d \in series : ~Before(Latest(series).stamp, d.stamp)
  BY <1>1 DEF Latest
<1> QED
  BY <1>2 DEF Entries

\* A series to which a transform is pushed has a latest one, the one it had or a later one.
LEMMA PushKeeps ==
  ASSUME NEW series, series \subseteq Entries, IsFiniteSet(series), OneOfEachTime(series),
         NEW entry \in Entries, NEW static
  PROVE  LET new == push(series, entry, static)
         IN  /\ new \subseteq Entries /\ IsFiniteSet(new) /\ OneOfEachTime(new) /\ new # {}
             /\ series # {} => \/ Latest(new) = Latest(series)
                               \/ Before(Latest(series).stamp, Latest(new).stamp)
<1> DEFINE inserted == IF \E e \in series : e.stamp = entry.stamp THEN series
                                                                  ELSE series \cup {entry}
           now == Latest(inserted).stamp
           new == push(series, entry, static)
<1>1. /\ inserted \subseteq Entries /\ IsFiniteSet(inserted) /\ inserted # {}
      /\ OneOfEachTime(inserted) /\ series \subseteq inserted
  BY FS_AddElement DEF OneOfEachTime
<1> HIDE DEF inserted
<1>2. /\ Latest(inserted) \in inserted /\ now \in Stamps
      /\ \A d \in inserted : ~Before(Latest(inserted).stamp, d.stamp)
  BY <1>1, LatestIs
<1>3. time_diff_ms(now, now) = 0
  <2>1. now.seconds \in Nat /\ now.nanos \in Nat
    BY <1>2, TimesOrdered
  <2> HIDE DEF now
  <2>2. now.seconds - now.seconds = 0 /\ now.nanos - now.nanos = 0 /\ 0 \div 1000 = 0
    BY <2>1, SMT
  <2> QED
    BY <2>2, SMT DEF time_diff_ms, Thousandth
<1>4. memory_duration \in Nat
  BY LimitsAssumption
<1>5. Latest(inserted) \in cleanup(inserted, now) /\ cleanup(inserted, now) \subseteq inserted
  BY <1>2, <1>3, <1>4 DEF cleanup
<1>6. new = IF static THEN inserted ELSE cleanup(inserted, now)
  BY DEF push, inserted
<1> HIDE DEF now, new
<1>7. Latest(inserted) \in new /\ new \subseteq inserted /\ IsFiniteSet(new) /\ new \subseteq Entries
  BY <1>1, <1>2, <1>5, <1>6, FS_Subset
<1>8. OneOfEachTime(new)
  BY <1>1, <1>7 DEF OneOfEachTime
<1>9. Latest(new) = Latest(inserted)
  <2>1. /\ Latest(new) \in new /\ Latest(new).stamp \in Stamps
        /\ \A d \in new : ~Before(Latest(new).stamp, d.stamp)
    BY <1>7, LatestIs
  <2>2. Latest(inserted).stamp \in Stamps
    BY <1>1, <1>7 DEF Entries
  <2>3. Latest(new).stamp = Latest(inserted).stamp
    BY <1>2, <1>7, <2>1, <2>2, TimesOrdered
  <2> QED
    BY <1>7, <1>8, <2>1, <2>3 DEF OneOfEachTime
<1>10. ASSUME series # {}
       PROVE  Latest(new) = Latest(series) \/ Before(Latest(series).stamp, Latest(new).stamp)
  <2>1. Latest(series) \in series /\ Latest(series).stamp \in Stamps
    BY <1>10, LatestIs
  <2>2. Latest(inserted).stamp \in Stamps /\ ~Before(Latest(inserted).stamp, Latest(series).stamp)
    BY <1>1, <1>2, <2>1 DEF Entries
  <2>3. \/ Before(Latest(series).stamp, Latest(inserted).stamp)
        \/ Latest(series).stamp = Latest(inserted).stamp
    BY <2>1, <2>2, TimesOrdered
  <2> QED
    BY <1>1, <1>2, <1>9, <2>1, <2>3 DEF OneOfEachTime
<1> QED
  BY <1>7, <1>8, <1>10 DEF new
---------------------------------------------------------------------------
(* The invariant.                                                          *)

\* What CachedAncestorLowest says of one pair of frames.
Lowest(t, root) ==
  /\ root \in nodes /\ \A f \in t : root \in Traversed(f)
  /\ \A g \in nodes : (\A f \in t : g \in Traversed(f)) => g \in Traversed(root)

\* CachedAncestorLowest, pair by pair.
LEMMA LowestIs ==
  CachedAncestorLowest <=>
    TypeOK /\ \A t \in DOMAIN shared_ancestor : Lowest(t, shared_ancestor[t])
  BY DEF CachedAncestorLowest, Lowest

\* Nothing is known at first.
LEMMA InitInd == Init => IndInv
<1> SUFFICES ASSUME Init PROVE IndInv
  OBVIOUS
<1>1. DOMAIN shared_ancestor = {}
  BY DEF Init
<1>2. TypeOK
  BY <1>1, LimitsAssumption DEF Init, TypeOK
<1>3. SeriesInv
  BY FS_EmptySet DEF Init, SeriesInv, OneOfEachTime
<1> QED
  BY <1>1, <1>2, <1>3 DEF IndInv, CacheInv, CachedAncestorLowest

\* A transform that is received keeps types and series.
LEMMA ReceivedInd ==
  ASSUME TypeOK, SeriesInv, NEW child \in Frames, NEW entry \in Entries, NEW static \in BOOLEAN,
         addTransformNode(child, entry, static)
  PROVE  TypeOK' /\ SeriesInv'
<1>1. entry.frame_id \in Frames
  BY DEF Entries
<1>2. PICK s : s = is_static'[child]
  OBVIOUS
<1>3. PICK new : new = push(value_time_series[child], entry, s)
  OBVIOUS
<1>4. new \subseteq Entries /\ IsFiniteSet(new) /\ OneOfEachTime(new) /\ new # {}
  BY <1>3, PushKeeps DEF TypeOK, SeriesInv
<1>5. value_time_series' = [value_time_series EXCEPT ![child] = new]
  BY <1>2, <1>3 DEF addTransformNode, Receive
<1>6. value_time_series' \in [Frames -> SUBSET Entries]
  BY <1>4, <1>5 DEF TypeOK
<1>7. /\ parent' \in [Frames -> nodes' \cup {NoFrame}] /\ nodes' \subseteq Frames
      /\ \A f \in Frames : f # child => parent'[f] = parent[f]
  BY <1>1 DEF TypeOK, addTransformNode
<1>8. is_static' \in [Frames -> BOOLEAN] /\ received' \in 0..MaxTransforms
  BY LimitsAssumption DEF TypeOK, addTransformNode, Receive
<1>9. TypeOK'
  BY <1>6, <1>7, <1>8 DEF TypeOK, addTransformNode, Receive
<1>10. SeriesInv'
  BY <1>4, <1>5, <1>7 DEF TypeOK, SeriesInv
<1> QED
  BY <1>9, <1>10

(***************************************************************************)
(* A cached ancestor stays the lowest one.  The walks are longer at most,  *)
(* so a frame that is now on the walks from both frames of the pair was    *)
(* below the ancestor on both, and then above it already, or it is at or   *)
(* above it on one of them.                                                *)
(***************************************************************************)
LEMMA LowestKept ==
  ASSUME TypeOK, TypeOK', NEW child \in Frames, NEW entry \in Entries, NEW static \in BOOLEAN,
         addTransformNode(child, entry, static),
         NEW t, t \subseteq nodes, t # {}, NEW root, Lowest(t, root)
  PROVE  Lowest(t, root)'
<1>1. /\ parent \in [Frames -> nodes \cup {NoFrame}] /\ nodes \subseteq Frames
      /\ parent \in [Frames -> Frames \cup {NoFrame}]
      /\ NoFrame \notin nodes /\ nodes \subseteq nodes'
  BY FramesAssumption DEF TypeOK, addTransformNode
<1>2. \A g \in Frames : parent[g] # NoFrame => parent'[g] = parent[g]
  BY <1>1 DEF addTransformNode
<1>3. \A f \in Frames : \A k \in 0..Height :
        Walk(parent, f)[k] # NoFrame => Walk(parent', f)[k] = Walk(parent, f)[k]
  BY <1>1, <1>2, WalkGrows
<1>4. \A f \in Frames : Traversed(f) \subseteq Traversed(f)'
  BY <1>3, TraversedIs
<1>5. t \subseteq Frames /\ root \in nodes /\ root \in Frames /\ root # NoFrame
  BY <1>1 DEF Lowest
<1>6. \A f \in t : root \in Traversed(f)'
  BY <1>4, <1>5 DEF Lowest
<1>7. ASSUME NEW g \in nodes', \A f \in t : g \in Traversed(f)' PROVE g \in Traversed(root)'
  <2>1. CASE \E f \in t : ~(g \in nodes /\ g \in Traversed(f))
    <3>1. PICK f \in t : ~(g \in nodes /\ g \in Traversed(f))
      BY <2>1
    <3>2. PICK k \in 0..Height : Walk(parent', f)[k] = g
      BY <1>7, TraversedIs
    <3>3. PICK m \in 0..Height : Walk(parent, f)[m] = root
      BY TraversedIs DEF Lowest
    <3>4. Walk(parent', f)[m] = root
      BY <1>3, <1>5, <3>3
    <3>5. CASE m <= k
      <4>1. k - m \in 0..Height /\ Walk(parent', root)[k - m] = g
        BY <3>2, <3>4, <3>5, WalkShift
      <4> QED
        BY <1>7, <4>1, TraversedIs
    <3>6. CASE k <= m
      <4>1. Walk(parent, f)[k] # NoFrame
        BY <1>5, <3>3, <3>6, WalkEnds
      <4>2. Walk(parent, f)[k] = g
        BY <1>3, <1>5, <3>2, <4>1
      <4>3. g \in nodes
        BY <1>1, <4>1, <4>2, WalkType
      <4> QED
        BY <3>1, <4>1, <4>2, <4>3, TraversedIs
    <3> QED
      BY <3>5, <3>6, HeightType
  <2>2. CASE \A f \in t : g \in nodes /\ g \in Traversed(f)
    BY <1>4, <1>5, <2>2 DEF Lowest
  <2> QED
    BY <2>1, <2>2
<1>8. root \in nodes'
  BY <1>1, <1>5
<1> QED
  BY <1>6, <1>7, <1>8 DEF Lowest

\* The ancestor that find_shared_ancestor finds is the lowest one.
LEMMA LowestFound ==
  ASSUME TypeOK, NEW from \in nodes, NEW to \in nodes, Meets(from, to) # {}
  PROVE  Lowest({from, to}, Climb(to)[Min(Meets(from, to))])
<1> DEFINE met == Meets(from, to)
           n == Min(met)
           at == Walk(parent, to)
           root == at[n]
<1>1. met = {k \in 0..Height : at[k] \in Traversed(from)} /\ Climb(to) = at
  <2>1. Climb(to) = at
    BY ClimbIsWalk
  <2>2. DOMAIN at = 0..Height
    BY WalkIs
  <2> HIDE DEF at
  <2> QED
    BY <2>1, <2>2 DEF Meets
<1> HIDE DEF met
<1>2. met \subseteq Nat /\ met # {}
  BY <1>1, HeightType DEF met
<1>3. n \in met /\ \A m \in met : n <= m
  BY <1>2, MinIs
<1> HIDE DEF n
<1>4. n \in 0..Height /\ root \in Traversed(from) /\ root \in Traversed(to) /\ root # NoFrame
  BY <1>1, <1>3, TraversedIs
<1>5. root \in nodes
  <2>1. parent \in [Frames -> nodes \cup {NoFrame}] /\ nodes \subseteq Frames
    BY DEF TypeOK
  <2>2. root \in nodes \cup {NoFrame}
    BY <1>4, <2>1, WalkType
  <2> QED
    BY <1>4, <2>2
<1>6. ASSUME NEW g \in nodes, g \in Traversed(from), g \in Traversed(to) PROVE g \in Traversed(root)
  <2>1. PICK k \in 0..Height : at[k] = g
    BY <1>6, TraversedIs
  <2>2. n <= k
    BY <1>1, <1>3, <1>6, <2>1
  <2>3. k - n \in 0..Height /\ Walk(parent, root)[k - n] = g
    BY <1>4, <2>1, <2>2, WalkShift
  <2> QED
    BY <1>6, <2>3, TraversedIs
<1>7. Climb(to)[Min(Meets(from, to))] = root
  BY <1>1 DEF n, met
<1> HIDE DEF at
<1> QED
  BY <1>4, <1>5, <1>6, <1>7 DEF Lowest

\* Every step keeps the invariant.
LEMMA NextInd ==
  ASSUME IndInv, [Next]_vars
  PROVE  IndInv'
<1>0. /\ TypeOK /\ SeriesInv /\ CacheInv
      /\ \A t \in DOMAIN shared_ancestor : Lowest(t, shared_ancestor[t])
  BY LowestIs DEF IndInv
<1>1. ASSUME NEW child \in Frames, NEW entry \in Entries, NEW static \in BOOLEAN,
             addTransformNode(child, entry, static)
      PROVE  IndInv'
  <2>1. TypeOK' /\ SeriesInv'
    BY <1>0, <1>1, ReceivedInd
  <2>2. shared_ancestor' = shared_ancestor /\ nodes \subseteq nodes'
    BY <1>1 DEF addTransformNode, Receive
  <2>3. \A t \in DOMAIN shared_ancestor : t # {} /\ t \subseteq nodes
    BY <1>0 DEF TypeOK, Tokens, CacheInv
  <2>4. ASSUME NEW t \in DOMAIN shared_ancestor PROVE Lowest(t, shared_ancestor[t])'
    <3>1. PICK root : root = shared_ancestor[t]
      OBVIOUS
    <3>2. Lowest(t, root)'
      BY <1>0, <1>1, <2>1, <2>3, <3>1, LowestKept
    <3> QED
      BY <2>2, <3>1, <3>2 DEF Lowest
  <2>5. CachedAncestorLowest'
    BY <2>1, <2>2, <2>4 DEF CachedAncestorLowest, Lowest
  <2> QED
    BY <2>1, <2>2, <2>3, <2>5 DEF IndInv, CacheInv
<1>2. ASSUME NEW from \in Frames, NEW to \in Frames, find_shared_ancestor(from, to)
      PROVE  IndInv'
  <2>1. PICK root : root = Climb(to)[Min(Meets(from, to))]
    OBVIOUS
  <2>2. /\ from \in nodes /\ to \in nodes /\ Meets(from, to) # {}
        /\ UNCHANGED <<nodes, parent, is_static, value_time_series, received, up>>
        /\ shared_ancestor' = [t \in DOMAIN shared_ancestor \cup {{from, to}} |->
                                 IF t = {from, to} THEN root ELSE shared_ancestor[t]]
    BY <1>2, <2>1 DEF find_shared_ancestor, Searches
  <2>3. Lowest({from, to}, root)
    BY <1>0, <2>1, <2>2, LowestFound
  <2>4. \A t \in DOMAIN shared_ancestor' : Lowest(t, shared_ancestor'[t])
    BY <1>0, <2>2, <2>3
  <2>5. \A f : Traversed(f)' = Traversed(f)
    BY <2>2, TraversedIs
  <2>6. TypeOK'
    BY <1>0, <2>2, <2>3 DEF TypeOK, Tokens, Lowest
  <2>7. CachedAncestorLowest'
    BY <2>2, <2>4, <2>5, <2>6 DEF CachedAncestorLowest, Lowest
  <2>8. SeriesInv' /\ CacheInv'
    BY <1>0, <2>2 DEF SeriesInv, CacheInv
  <2> QED
    BY <2>7, <2>8 DEF IndInv
<1>3. CASE \/ \E from, to \in Frames : NoSharedAncestor(from, to)
           \/ UNCHANGED vars
  <2>1. /\ UNCHANGED <<nodes, parent, is_static, value_time_series, shared_ancestor, received>>
        /\ up' \in BOOLEAN
    BY <1>0, <1>3 DEF NoSharedAncestor, vars, TypeOK
  <2>2. \A f : Traversed(f)' = Traversed(f)
    BY <2>1, TraversedIs
  <2> QED
    BY <2>1, <2>2 DEF IndInv, CachedAncestorLowest, TypeOK, SeriesInv, CacheInv
<1> QED
  BY <1>1, <1>2, <1>3 DEF Next

\* The invariant of the proofs holds of every behaviour.
LEMMA SpecInd == Spec => []IndInv
<1>1. Init => IndInv
  BY InitInd
<1>2. IndInv /\ [Next]_vars => IndInv'
  BY NextInd
<1> QED
  BY <1>1, <1>2, PTL DEF Spec

(***************************************************************************)
(* find_shared_ancestor caches the ancestor it finds for ever.  However    *)
(* the tree grows it stays an ancestor of both frames, with every other    *)
(* one above it, even when a loop closes above it.                         *)
(***************************************************************************)
THEOREM CachedAncestorStays == Spec => []CachedAncestorLowest
<1>1. IndInv => CachedAncestorLowest
  BY DEF IndInv
<1> QED
  BY <1>1, SpecInd, PTL
---------------------------------------------------------------------------
(* Lookups.                                                                *)

\* The frames from f up to root, without root: each is the parent of the one before it.
IsWay(path, f, root) ==
  /\ path \in Seq(Frames) /\ \A i \in 1..Len(path) : parent[path[i]] # NoFrame
  /\ IF f = root THEN path = <<>>
     ELSE Len(path) > 0 /\ path[1] = f /\ parent[path[Len(path)]] = root
  /\ \A i \in 1..(Len(path) - 1) : path[i + 1] = parent[path[i]]

\* The walk from a frame to the cached ancestor.
LEMMA PathIs ==
  ASSUME IndInv, NEW t \in DOMAIN shared_ancestor, NEW f \in t
  PROVE  IsWay(Path(f, shared_ancestor[t]), f, shared_ancestor[t])
<1> DEFINE root == shared_ancestor[t]
           at == Walk(parent, f)
           ends == {n \in 0..Height : at[n] \in {root, NoFrame}}
           last == Min(ends)
           path == [i \in 1..last |-> at[i - 1]]
<1>0. /\ TypeOK /\ f \in nodes /\ Lowest(t, root)
      /\ parent \in [Frames -> nodes \cup {NoFrame}] /\ nodes \subseteq Frames
  BY LowestIs DEF IndInv, CacheInv, TypeOK
<1>1. root \in nodes /\ root # NoFrame
  BY <1>0, FramesAssumption DEF Lowest
<1>2. PICK m \in 0..Height : at[m] = root
  BY <1>0, TraversedIs DEF Lowest
<1>3. /\ \A k \in 0..Height : at[k] \in nodes \cup {NoFrame}
      /\ DOMAIN at = 0..Height
      /\ \A k \in 0..(Height - 1) : k \in 0..Height /\ k + 1 \in 0..Height
                                    /\ at[k + 1] = Above(parent, at[k])
      /\ \A j, k \in 0..Height : (j <= k /\ at[j] = NoFrame) => at[k] = NoFrame
  <2>1. \A k \in 0..Height : at[k] \in nodes \cup {NoFrame}
    BY <1>0, WalkType
  <2>2. /\ DOMAIN at = 0..Height
        /\ \A k \in 0..(Height - 1) : k \in 0..Height /\ k + 1 \in 0..Height
                                      /\ at[k + 1] = Above(parent, at[k])
    BY WalkIs
  <2>3. \A j, k \in 0..Height : (j <= k /\ at[j] = NoFrame) => at[k] = NoFrame
    BY WalkEnds
  <2> QED
    BY <2>1, <2>2, <2>3
<1>4. Path(f, root) = path
  <2>1. Climb(f) = at
    BY ClimbIsWalk
  <2> HIDE DEF root, at
  <2> QED
    BY <1>2, <1>3, <2>1 DEF Path, Height
<1> HIDE DEF at, root
<1>5. last \in ends /\ \A n \in ends : last <= n
  BY <1>2, MinIs, HeightType
<1> HIDE DEF last
<1>6. last \in 0..Height /\ last <= m /\ at[last] = root
  BY <1>1, <1>2, <1>3, <1>5
<1>7. \A i \in 1..last : /\ i - 1 \in 0..(Height - 1) /\ (i - 1) + 1 = i /\ i \in 0..Height
                         /\ i - 1 \notin ends /\ i - 1 \in 0..Height
                         /\ (i = last \/ i \notin ends)
  BY <1>5, <1>6, HeightType
<1>8. \A i \in 1..last : at[i - 1] \in nodes /\ parent[at[i - 1]] # NoFrame
  <2> SUFFICES ASSUME NEW i \in 1..last PROVE at[i - 1] \in nodes /\ parent[at[i - 1]] # NoFrame
    OBVIOUS
  <2>1. at[i - 1] # NoFrame /\ at[i - 1] \in nodes
    BY <1>3, <1>7
  <2>2. at[i] # NoFrame
    BY <1>1, <1>6, <1>7
  <2>3. at[i] = Above(parent, at[i - 1])
    BY <1>3, <1>7
  <2> QED
    BY <2>1, <2>2, <2>3 DEF Above
<1>9. path \in Seq(Frames) /\ DOMAIN path = 1..last
  <2>1. last \in Nat /\ \A i \in 1..last : at[i - 1] \in Frames
    BY <1>0, <1>6, <1>8, HeightType
  <2> QED
    BY <2>1
<1>10. Len(path) = last /\ last \in Nat /\ \A i \in 1..last : path[i] = at[i - 1]
  BY <1>6, <1>9, HeightType
<1>11. at[0] = f
  BY WalkIs DEF at
<1>12. f = root => path = <<>>
  <2>1. f = root => last = 0
    BY <1>5, <1>11, HeightType, <1>10
  <2> QED
    BY <2>1, <1>9, <1>10
<1>13. f # root => Len(path) > 0 /\ path[1] = f /\ parent[path[Len(path)]] = root
  <2> SUFFICES ASSUME f # root PROVE last > 0 /\ path[1] = f /\ parent[path[last]] = root
    BY <1>10
  <2>1. last > 0
    BY <1>6, <1>10, <1>11
  <2>2. path[1] = f
    BY <1>10, <1>11, <2>1
  <2>3. path[last] = at[last - 1] /\ at[last] = Above(parent, at[last - 1]) /\ at[last - 1] # NoFrame
    <3>1. last \in 1..last
      BY <1>10, <2>1
    <3> QED
      BY <1>0, <1>3, <1>7, <1>8, <1>10, <3>1, FramesAssumption
  <2> QED
    BY <1>6, <2>1, <2>2, <2>3 DEF Above
<1>14. \A i \in 1..(Len(path) - 1) : path[i + 1] = parent[path[i]]
  <2> SUFFICES ASSUME NEW i \in 1..(last - 1) PROVE path[i + 1] = parent[path[i]]
    BY <1>10
  <2>1. i \in 1..last /\ i + 1 \in 1..last /\ (i + 1) - 1 = i
    BY <1>10
  <2>2. path[i] = at[i - 1] /\ path[i + 1] = at[i]
    BY <1>10, <2>1
  <2>3. at[i] = Above(parent, at[i - 1]) /\ at[i - 1] # NoFrame
    BY <1>0, <1>3, <1>7, <1>8, <2>1, FramesAssumption
  <2> QED
    BY <2>2, <2>3 DEF Above
<1>15. path \in Seq(Frames) /\ \A i \in 1..Len(path) : parent[path[i]] # NoFrame
  BY <1>8, <1>9, <1>10
<1> HIDE DEF path
<1> QED
  BY <1>4, <1>12, <1>13, <1>14, <1>15 DEF root, IsWay

\* The frames on the way of a lookup have parents.
LEMMA WayHasParents ==
  ASSUME IndInv, NEW from, NEW to, {from, to} \in DOMAIN shared_ancestor
  PROVE  \A f \in OnTheWay(from, to) : f \in Frames /\ parent[f] # NoFrame
<1> DEFINE root == shared_ancestor[{from, to}]
           a == Path(from, root)
           b == Path(to, root)
<1>1. IsWay(a, from, root) /\ IsWay(b, to, root)
  BY PathIs
<1>2. OnTheWay(from, to) = ToSet(a) \cup ToSet(b)
  BY DEF OnTheWay
<1> HIDE DEF a, b, root
<1> QED
  BY <1>1, <1>2 DEF IsWay, ToSet

(***************************************************************************)
(* What every step leaves: cached ancestors, parents, static frames, and   *)
(* the latest transform of a frame unless there is a later one.            *)
(***************************************************************************)
LEMMA StepKeeps ==
  ASSUME IndInv, [Next]_vars
  PROVE  /\ \A t \in DOMAIN shared_ancestor : shared_ancestor'[t] = shared_ancestor[t]
         /\ \A f \in Frames : parent[f] # NoFrame =>
              /\ parent'[f] = parent[f]
              /\ value_time_series[f] # {} /\ value_time_series'[f] # {}
              /\ is_static[f] => is_static'[f]
              /\ LET old == Latest(value_time_series[f])
                     new == Latest(value_time_series'[f])
                 IN  new = old \/ Before(old.stamp, new.stamp)
<1>1. /\ TypeOK /\ SeriesInv /\ SeriesInv'
  BY NextInd DEF IndInv, CachedAncestorLowest
<1>2. ASSUME NEW child \in Frames, NEW entry \in Entries, NEW static \in BOOLEAN,
             addTransformNode(child, entry, static)
      PROVE  /\ shared_ancestor' = shared_ancestor
             /\ \A f \in Frames : parent[f] # NoFrame =>
                  /\ parent'[f] = parent[f] /\ value_time_series'[f] # {}
                  /\ is_static[f] => is_static'[f]
                  /\ LET old == Latest(value_time_series[f])
                         new == Latest(value_time_series'[f])
                     IN  new = old \/ Before(old.stamp, new.stamp)
  <2>1. shared_ancestor' = shared_ancestor
    BY <1>2 DEF addTransformNode, Receive
  <2> SUFFICES ASSUME NEW f \in Frames, parent[f] # NoFrame
               PROVE  /\ parent'[f] = parent[f] /\ value_time_series'[f] # {}
                      /\ is_static[f] => is_static'[f]
                      /\ LET old == Latest(value_time_series[f])
                             new == Latest(value_time_series'[f])
                         IN  new = old \/ Before(old.stamp, new.stamp)
    BY <2>1
  <2>2. parent'[f] = parent[f] /\ (is_static[f] => is_static'[f])
    BY <1>1, <1>2 DEF addTransformNode, Receive, TypeOK
  <2>3. CASE f = child
    <3>1. PICK s : s = is_static'[child]
      OBVIOUS
    <3>2. value_time_series'[f] = push(value_time_series[f], entry, s)
      BY <1>1, <1>2, <2>3, <3>1 DEF addTransformNode, Receive, TypeOK
    <3>3. /\ value_time_series[f] \subseteq Entries /\ IsFiniteSet(value_time_series[f])
          /\ OneOfEachTime(value_time_series[f]) /\ value_time_series[f] # {}
      BY <1>1 DEF TypeOK, SeriesInv
    <3> QED
      BY <2>2, <3>2, <3>3, PushKeeps
  <2>4. CASE f # child
    <3>1. value_time_series'[f] = value_time_series[f]
      BY <1>1, <1>2, <2>4 DEF addTransformNode, Receive, TypeOK
    <3> QED
      BY <1>1, <2>2, <3>1 DEF SeriesInv
  <2> QED
    BY <2>3, <2>4
<1>3. ASSUME NEW from \in Frames, NEW to \in Frames, find_shared_ancestor(from, to)
      PROVE  /\ UNCHANGED <<parent, is_static, value_time_series>>
             /\ \A t \in DOMAIN shared_ancestor : shared_ancestor'[t] = shared_ancestor[t]
  BY <1>3 DEF find_shared_ancestor, Searches
<1>4. CASE \/ \E from, to \in Frames : NoSharedAncestor(from, to)
           \/ UNCHANGED vars
  <2>1. UNCHANGED <<parent, is_static, value_time_series, shared_ancestor>>
    BY <1>4 DEF NoSharedAncestor, vars
  <2> QED
    BY <1>1, <2>1 DEF SeriesInv
<1>5. \A f \in Frames : parent[f] # NoFrame => value_time_series[f] # {}
  BY <1>1 DEF SeriesInv
<1>6. CASE \E from, to \in Frames : find_shared_ancestor(from, to)
  BY <1>3, <1>5, <1>6
<1>7. CASE \E child \in Frames, entry \in Entries, static \in BOOLEAN :
             addTransformNode(child, entry, static)
  BY <1>2, <1>5, <1>7
<1> QED
  BY <1>4, <1>6, <1>7 DEF Next

(***************************************************************************)
(* Static frames answer for ever: when every frame between two is static,  *)
(* no step takes the way between them or a transform on it away.           *)
(***************************************************************************)
THEOREM StaticStaysReachable == Spec => StaticReachable
<1> DEFINE Reachable ==
      \A from, to \in nodes :
        ({from, to} \in DOMAIN shared_ancestor /\ \A f \in OnTheWay(from, to) : is_static[f]) =>
          /\ shared_ancestor'[{from, to}] = shared_ancestor[{from, to}]
          /\ \A f \in OnTheWay(from, to) :
               /\ parent'[f] = parent[f]
               /\ \A s \in Stamps, tol \in Tolerances \cup {-1} :
                    NodeTransform(f, s, tol)' # None
<1>1. IndInv /\ [Next]_vars => Reachable
  <2> SUFFICES ASSUME IndInv, [Next]_vars, NEW from \in nodes, NEW to \in nodes,
                      {from, to} \in DOMAIN shared_ancestor,
                      \A f \in OnTheWay(from, to) : is_static[f]
               PROVE  /\ shared_ancestor'[{from, to}] = shared_ancestor[{from, to}]
                      /\ \A f \in OnTheWay(from, to) :
                           /\ parent'[f] = parent[f]
                           /\ \A s \in Stamps, tol \in Tolerances \cup {-1} :
                                NodeTransform(f, s, tol)' # None
    BY DEF Reachable
  <2>1. shared_ancestor'[{from, to}] = shared_ancestor[{from, to}]
    BY StepKeeps
  <2>2. ASSUME NEW f \in OnTheWay(from, to)
        PROVE  /\ parent'[f] = parent[f]
               /\ \A s, tol : NodeTransform(f, s, tol)' # None
    <3>1. f \in Frames /\ parent[f] # NoFrame /\ is_static[f]
      BY WayHasParents
    <3>2. parent'[f] = parent[f] /\ is_static'[f] /\ value_time_series'[f] # {}
      BY <3>1, StepKeeps
    <3>3. Latest(value_time_series'[f]) # None
      <4>1. value_time_series'[f] \subseteq Entries /\ IsFiniteSet(value_time_series'[f])
        BY <3>1, NextInd DEF IndInv, CachedAncestorLowest, TypeOK, SeriesInv
      <4> QED
        BY <3>2, <4>1, LatestIs, NoneAssumption
    <3>4. \A s, tol : NodeTransform(f, s, tol)' = Latest(value_time_series'[f])
      BY <3>2 DEF NodeTransform
    <3> QED
      BY <3>2, <3>3, <3>4
  <2> QED
    BY <2>1, <2>2
<1> QED
  BY <1>1, SpecInd, PTL DEF Spec, StaticReachable

(***************************************************************************)
(* A lookup without tolerance never gives an older transform than before:  *)
(* push and cleanup keep the latest transform of every frame on the way,   *)
(* and the way never changes.                                              *)
(***************************************************************************)
THEOREM LookupNeverGoesBack == Spec => LookupAdvances
<1> DEFINE Forward ==
      \A from, to \in nodes : {from, to} \in DOMAIN shared_ancestor =>
        /\ shared_ancestor'[{from, to}] = shared_ancestor[{from, to}]
        /\ \A f \in OnTheWay(from, to) :
             /\ parent'[f] = parent[f]
             /\ \A s \in Stamps : Advances(NodeTransform(f, s, -1), NodeTransform(f, s, -1)')
<1>1. IndInv /\ [Next]_vars => Forward
  <2> SUFFICES ASSUME IndInv, [Next]_vars, NEW from \in nodes, NEW to \in nodes,
                      {from, to} \in DOMAIN shared_ancestor
               PROVE  /\ shared_ancestor'[{from, to}] = shared_ancestor[{from, to}]
                      /\ \A f \in OnTheWay(from, to) :
                           /\ parent'[f] = parent[f]
                           /\ \A s \in Stamps :
                                Advances(NodeTransform(f, s, -1), NodeTransform(f, s, -1)')
    BY DEF Forward
  <2>1. shared_ancestor'[{from, to}] = shared_ancestor[{from, to}]
    BY StepKeeps
  <2>2. ASSUME NEW f \in OnTheWay(from, to)
        PROVE  /\ parent'[f] = parent[f]
               /\ \A s : Advances(NodeTransform(f, s, -1), NodeTransform(f, s, -1)')
    <3>1. f \in Frames /\ parent[f] # NoFrame
      BY WayHasParents
    <3>2. -1 < 0 /\ ~(-1 >= 0)
      OBVIOUS
    <3>3. \A s : /\ NodeTransform(f, s, -1) = Latest(value_time_series[f])
                 /\ NodeTransform(f, s, -1)' = Latest(value_time_series'[f])
      BY <3>1, <3>2, StepKeeps, Zenon DEF NodeTransform
    <3> QED
      BY <3>1, <3>3, StepKeeps DEF Advances
  <2> QED
    BY <2>1, <2>2
<1> QED
  BY <1>1, SpecInd, PTL DEF Spec, LookupAdvances

\* The factors of a product of transforms, whatever transforms the frames give.
Factors(X) == [of : Frames, entry : X, inverse : BOOLEAN]
Flip(r) == [r EXCEPT !.inverse = ~@]
Product(path, s, tol) ==
  Reverse([i \in DOMAIN path |->
             [of |-> path[i], entry |-> NodeTransform(path[i], s, tol), inverse |-> FALSE]])

\* The inverse of an inverse is the factor.
LEMMA FlipIs ==
  ASSUME NEW X, NEW r \in Factors(X)
  PROVE  Flip(r) \in Factors(X) /\ Flip(Flip(r)) = r
<1>1. Flip(r) \in Factors(X)
  BY DEF Factors, Flip
<1>2. Flip(Flip(r)).of = r.of /\ Flip(Flip(r)).entry = r.entry /\ Flip(Flip(r)).inverse = r.inverse
  BY DEF Factors, Flip
<1>3. Flip(Flip(r)) \in Factors(X)
  BY DEF Factors, Flip
<1> QED
  BY <1>1, <1>2, <1>3 DEF Factors

\* Inverted takes the factors in the opposite order, each inverted.
LEMMA InvertedIs ==
  ASSUME NEW X, NEW a \in Seq(Factors(X))
  PROVE  /\ Inverted(a) \in Seq(Factors(X)) /\ Len(Inverted(a)) = Len(a)
         /\ \A i \in 1..Len(a) : /\ (Len(a) - i) + 1 \in 1..Len(a)
                                 /\ Inverted(a)[i] = Flip(a[(Len(a) - i) + 1])
<1> DEFINE b == [i \in DOMAIN a |-> Flip(a[i])]
<1>1. b \in Seq(Factors(X)) /\ Len(b) = Len(a) /\ \A i \in 1..Len(a) : b[i] = Flip(a[i])
  BY FlipIs
<1>2. Inverted(a) = Reverse(b)
  BY DEF Inverted, Flip
<1> HIDE DEF b
<1>3. \A i \in 1..Len(a) : (Len(a) - i) + 1 \in 1..Len(a)
  OBVIOUS
<1>4. Reverse(b) = [i \in 1..Len(a) |-> b[(Len(a) - i) + 1]]
  BY <1>1 DEF Reverse
<1> QED
  BY <1>1, <1>2, <1>3, <1>4

\* The product along a path.
LEMMA ProductIs ==
  ASSUME NEW path \in Seq(Frames), NEW s, NEW tol, NEW X,
         \A f \in Frames : NodeTransform(f, s, tol) \in X
  PROVE  /\ Product(path, s, tol) \in Seq(Factors(X))
         /\ Product(path, s, tol) \o <<>> = Product(path, s, tol)
         /\ \A frame : Apply(frame, path, s, tol) = Product(path, s, tol) \o frame
<1> DEFINE factor(i) == [of |-> path[i], entry |-> NodeTransform(path[i], s, tol), inverse |-> FALSE]
           a == [i \in DOMAIN path |-> factor(i)]
<1>1. \A i \in DOMAIN path : factor(i) \in Factors(X)
  BY DEF Factors
<1> HIDE DEF factor
<1>2. a \in Seq(Factors(X))
  BY <1>1
<1> HIDE DEF a
<1>3. Reverse(a) \in Seq(Factors(X))
  <2>1. \A i \in 1..Len(a) : (Len(a) - i) + 1 \in 1..Len(a) /\ Len(a) \in Nat
    BY <1>2
  <2>2. \A i \in 1..Len(a) : a[(Len(a) - i) + 1] \in Factors(X)
    BY <1>2, <2>1
  <2> QED
    BY <1>2, <2>2 DEF Reverse
<1>4. Product(path, s, tol) = Reverse(a)
  BY DEF Product, a, factor
<1>5. \A frame : Apply(frame, path, s, tol) = Reverse(a) \o frame
  BY DEF Apply, a, factor
<1>6. PICK r \in Seq(Factors(X)) : r = Reverse(a)
  BY <1>3
<1>7. r \o <<>> = r
  OBVIOUS
<1> QED
  BY <1>4, <1>5, <1>6, <1>7, Zenon

\* The factors of a product are the frames of the path from the root's side.
Downwards(product, path) ==
  /\ Len(product) = Len(path) /\ (path = <<>> => product = <<>>)
  /\ \A i \in 1..Len(path) : /\ (Len(path) - i) + 1 \in 1..Len(path)
                             /\ product[i].of = path[(Len(path) - i) + 1]
                             /\ product[i].inverse = FALSE

\* So are those of the product along a path.
LEMMA ProductFactors ==
  ASSUME NEW path \in Seq(Frames), NEW s, NEW tol
  PROVE  Downwards(Product(path, s, tol), path)
<1> DEFINE X == {NodeTransform(f, s, tol) : f \in Frames}
           factor(i) == [of |-> path[i], entry |-> NodeTransform(path[i], s, tol), inverse |-> FALSE]
           a == [i \in DOMAIN path |-> factor(i)]
<1>1. /\ \A i \in DOMAIN path : factor(i) \in Factors(X)
      /\ \A i \in DOMAIN path : factor(i).of = path[i] /\ factor(i).inverse = FALSE
  BY DEF Factors
<1> HIDE DEF factor
<1>2. /\ a \in Seq(Factors(X)) /\ Len(a) = Len(path)
      /\ \A i \in 1..Len(path) : a[i].of = path[i] /\ a[i].inverse = FALSE
  BY <1>1
<1> HIDE DEF a
<1>6. Product(path, s, tol) = Reverse(a)
  BY DEF Product, a, factor
<1>3. \A i \in 1..Len(path) : (Len(path) - i) + 1 \in 1..Len(path)
  OBVIOUS
<1>4. Reverse(a) = [i \in 1..Len(path) |-> a[(Len(path) - i) + 1]]
  BY <1>2 DEF Reverse
<1>5. Len(Reverse(a)) = Len(path) /\ (path = <<>> => Reverse(a) = <<>>)
  BY <1>2, <1>3, <1>4
<1> QED
  BY <1>2, <1>3, <1>4, <1>5, <1>6 DEF Downwards

\* Down a branch: every factor goes on below the frame where the one before it ends.
LEMMA DownComposes ==
  ASSUME NEW path, NEW f, NEW root, IsWay(path, f, root), NEW frame, Len(frame) = Len(path),
         path = <<>> => frame = <<>>,
         \A i \in 1..Len(path) : /\ (Len(path) - i) + 1 \in 1..Len(path)
                                 /\ frame[i].of = path[(Len(path) - i) + 1]
                                 /\ frame[i].inverse = FALSE
                                 /\ frame[i].entry.frame_id = parent[frame[i].of]
  PROVE  Composes(frame, root, f)
<1>1. Len(path) \in Nat /\ (Len(path) = 0 <=> path = <<>>) /\ (path = <<>> => f = root)
  BY DEF IsWay
<1>2. CASE path = <<>>
  BY <1>1, <1>2 DEF Composes
<1>3. CASE path # <<>>
  <2>1. Len(path) > 0 /\ path[1] = f /\ parent[path[Len(path)]] = root
    BY <1>1, <1>3 DEF IsWay
  <2>2. Source(frame[1]) = root /\ Target(frame[Len(frame)]) = f
    <3>1. /\ 1 \in 1..Len(path) /\ Len(path) \in 1..Len(path)
          /\ (Len(path) - 1) + 1 = Len(path) /\ (Len(path) - Len(path)) + 1 = 1
      BY <1>1, <2>1
    <3> QED
      BY <2>1, <3>1 DEF Source, Target
  <2>3. ASSUME NEW i \in 1..(Len(frame) - 1) PROVE Target(frame[i]) = Source(frame[i + 1])
    <3>1. /\ i \in 1..Len(path) /\ i + 1 \in 1..Len(path)
          /\ (Len(path) - (i + 1)) + 1 = Len(path) - i
          /\ Len(path) - i \in 1..(Len(path) - 1)
      BY <1>1
    <3>2. path[(Len(path) - i) + 1] = parent[path[Len(path) - i]]
      BY <3>1 DEF IsWay
    <3> QED
      BY <3>1, <3>2 DEF Source, Target
  <2>4. frame # <<>>
    BY <2>1
  <2> QED
    BY <2>2, <2>3, <2>4 DEF Composes
<1> QED
  BY <1>2, <1>3

\* Up a branch, with every factor inverted.
LEMMA UpComposes ==
  ASSUME NEW path, NEW f, NEW root, IsWay(path, f, root), NEW frame, Len(frame) = Len(path),
         path = <<>> => frame = <<>>,
         \A i \in 1..Len(path) : /\ frame[i].of = path[i] /\ frame[i].inverse
                                 /\ frame[i].entry.frame_id = parent[frame[i].of]
  PROVE  Composes(frame, f, root)
<1>1. Len(path) \in Nat /\ (Len(path) = 0 <=> path = <<>>) /\ (path = <<>> => f = root)
  BY DEF IsWay
<1>2. CASE path = <<>>
  BY <1>1, <1>2 DEF Composes
<1>3. CASE path # <<>>
  <2>1. Len(path) > 0 /\ path[1] = f /\ parent[path[Len(path)]] = root
    BY <1>1, <1>3 DEF IsWay
  <2>2. Source(frame[1]) = f /\ Target(frame[Len(frame)]) = root
    <3>1. 1 \in 1..Len(path) /\ Len(path) \in 1..Len(path)
      BY <1>1, <2>1
    <3> QED
      BY <2>1, <3>1 DEF Source, Target
  <2>3. ASSUME NEW i \in 1..(Len(frame) - 1) PROVE Target(frame[i]) = Source(frame[i + 1])
    <3>1. i \in 1..Len(path) /\ i + 1 \in 1..Len(path) /\ i \in 1..(Len(path) - 1)
      BY <1>1
    <3>2. path[i + 1] = parent[path[i]]
      BY <3>1 DEF IsWay
    <3> QED
      BY <3>1, <3>2 DEF Source, Target
  <2>4. frame # <<>>
    BY <2>1
  <2> QED
    BY <2>2, <2>3, <2>4 DEF Composes
<1> QED
  BY <1>2, <1>3

(***************************************************************************)
(* When one of two frames is above the other, lookupTransform gives the    *)
(* transform of `to' in `from', in every tree: upwards the product is      *)
(* inverted, downwards it is not.                                          *)
(***************************************************************************)
THEOREM BranchIsDocumented == Spec => []BranchLookup
<1>1. IndInv => BranchLookup
  <2> SUFFICES ASSUME IndInv, NEW from \in nodes, NEW to \in nodes,
                      {from, to} \in DOMAIN shared_ancestor,
                      shared_ancestor[{from, to}] \in {from, to},
                      NEW s \in Stamps, NEW tol \in Tolerances \cup {-1},
                      FromParents(get_transform(from, to, s, tol).frame)
               PROVE  Composes(get_transform(from, to, s, tol).frame, from, to)
    BY DEF BranchLookup
  <2> DEFINE root == shared_ancestor[{from, to}]
             a == Path(from, root)
             b == Path(to, root)
             X == {NodeTransform(f, s, tol) : f \in Frames}
             A == Product(a, s, tol)
             B == Product(b, s, tol)
             frame == get_transform(from, to, s, tol).frame
  <2>1. IsWay(a, from, root) /\ IsWay(b, to, root)
    BY PathIs
  <2>2. frame = Apply(Inverted(Apply(<<>>, a, s, tol)), b, s, tol)
    BY DEF get_transform
  <2>3. FromParents(frame) /\ root \in {from, to} /\ \A f \in Frames : NodeTransform(f, s, tol) \in X
    OBVIOUS
  <2> HIDE DEF a, b, X, frame, root
  <2>4. a \in Seq(Frames) /\ b \in Seq(Frames)
    BY <2>1 DEF IsWay
  <2>5. /\ A \in Seq(Factors(X)) /\ A \o <<>> = A
        /\ Apply(<<>>, a, s, tol) = A \o <<>>
        /\ B \in Seq(Factors(X)) /\ B \o <<>> = B
        /\ Apply(Inverted(A), b, s, tol) = B \o Inverted(A)
    <3> HIDE DEF A, B
    <3>1. \A path \in Seq(Frames) :
            /\ Product(path, s, tol) \in Seq(Factors(X))
            /\ Product(path, s, tol) \o <<>> = Product(path, s, tol)
            /\ \A g : Apply(g, path, s, tol) = Product(path, s, tol) \o g
      BY <2>3, ProductIs
    <3> QED
      BY <2>4, <3>1, Zenon DEF A, B
  <2>6. /\ Len(A) = Len(a) /\ (a = <<>> => A = <<>>)
        /\ \A i \in 1..Len(a) : /\ (Len(a) - i) + 1 \in 1..Len(a)
                                /\ A[i].of = a[(Len(a) - i) + 1] /\ A[i].inverse = FALSE
        /\ Len(B) = Len(b) /\ (b = <<>> => B = <<>>)
        /\ \A i \in 1..Len(b) : /\ (Len(b) - i) + 1 \in 1..Len(b)
                                /\ B[i].of = b[(Len(b) - i) + 1] /\ B[i].inverse = FALSE
    <3> HIDE DEF A, B
    <3>1. Downwards(Product(a, s, tol), a) /\ Downwards(Product(b, s, tol), b)
      BY <2>4, ProductFactors
    <3>2. Downwards(A, a) /\ Downwards(B, b)
      BY <3>1 DEF A, B
    <3> QED
      BY <3>2 DEF Downwards
  <2> HIDE DEF A, B
  <2>7. /\ Inverted(A) \in Seq(Factors(X)) /\ Len(Inverted(A)) = Len(A)
        /\ \A i \in 1..Len(A) : Inverted(A)[i] = Flip(A[(Len(A) - i) + 1])
    BY <2>5, InvertedIs
  <2>8. frame = B \o Inverted(A)
    BY <2>2, <2>5
  <2>9. CASE from = root
    <3>1. a = <<>>
      BY <2>1, <2>9 DEF IsWay
    <3>2. Inverted(A) = <<>>
      BY <2>6, <2>7, <3>1
    <3>3. frame = B
      BY <2>5, <2>8, <3>2
    <3>4. \A i \in 1..Len(b) : B[i].entry.frame_id = parent[B[i].of]
      BY <2>3, <2>5, <2>6, <3>3 DEF FromParents
    <3>5. Composes(B, root, to)
      BY <2>1, <2>6, <3>4, DownComposes
    <3> QED
      BY <2>9, <3>3, <3>5 DEF frame
  <2>10. CASE from # root /\ to = root
    <3>1. b = <<>>
      BY <2>1, <2>10 DEF IsWay
    <3>2. B = <<>>
      BY <2>6, <3>1
    <3>3. frame = Inverted(A)
      BY <2>7, <2>8, <3>2
    <3>4. ASSUME NEW i \in 1..Len(a)
          PROVE  /\ frame[i].of = a[i] /\ frame[i].inverse
                 /\ frame[i].entry.frame_id = parent[frame[i].of]
      <4>1. /\ (Len(a) - i) + 1 \in 1..Len(a) /\ (Len(a) - ((Len(a) - i) + 1)) + 1 = i
            /\ Len(a) \in Nat
        BY <2>4
      <4>2. PICK r \in Factors(X) : r = A[(Len(a) - i) + 1]
        BY <2>5, <2>6, <4>1
      <4>3. r.of = a[i] /\ r.inverse = FALSE
        BY <2>6, <4>1, <4>2
      <4>4. frame[i] = Flip(r)
        BY <2>6, <2>7, <3>3, <4>2
      <4>5. frame[i].of = a[i] /\ frame[i].inverse
        BY <4>3, <4>4 DEF Flip, Factors
      <4>6. i \in DOMAIN frame
        BY <2>6, <2>7, <3>3
      <4> QED
        BY <2>3, <4>5, <4>6 DEF FromParents
    <3>5. Len(frame) = Len(a) /\ (a = <<>> => frame = <<>>)
      BY <2>6, <2>7, <3>3
    <3>6. Composes(frame, from, root)
      BY <2>1, <3>4, <3>5, UpComposes
    <3> QED
      BY <2>10, <3>6 DEF frame
  <2> QED
    BY <2>3, <2>9, <2>10
<1> QED
  BY <1>1, SpecInd, PTL
=============================================================================
