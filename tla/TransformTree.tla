--------------------------- MODULE TransformTree ---------------------------
(***************************************************************************)
(* The tree of coordinate frames a node builds from /tf and /tf_static and *)
(* looks transforms up in (cpp/src/TransformTree.cpp).                     *)
(*                                                                         *)
(* The callbacks and the lookups run in one thread.  What matters is the   *)
(* order in which transforms arrive and lookups are made: the ancestor of  *)
(* two frames is cached, and the tree goes on growing.  A transform is its *)
(* parent frame and its time; the product of transforms is the sequence of *)
(* its factors, with their sign.                                           *)
(***************************************************************************)
EXTENDS Integers, FiniteSets, SequencesExt

CONSTANTS
  Frames,           \* names of coordinate frames
  NoFrame,          \* the null parent
  Stamps,           \* times, with seconds and nanos
  Tolerances,       \* tolerances of lookups, in milliseconds
  memory_duration,  \* how long a transform is kept, in milliseconds
  MaxTransforms,    \* bound: transforms received
  MaxAncestors      \* bound: pairs of frames whose ancestor is cached

NanosPerSecond == 1000000000

ASSUME FramesAssumption == IsFiniteSet(Frames) /\ NoFrame \notin Frames
ASSUME StampsAssumption == Stamps \subseteq [seconds : Nat, nanos : 0..(NanosPerSecond - 1)]
ASSUME LimitsAssumption == /\ Tolerances \subseteq Nat /\ memory_duration \in Nat
                           /\ {MaxTransforms, MaxAncestors} \subseteq Nat

VARIABLES
  nodes,              \* frames that have a TransformTreeNode
  parent,             \* the parent of each
  is_static,          \* whether a static transform of it was received
  value_time_series,  \* its transforms, at most one for each time
  shared_ancestor,    \* the ancestor found for each pair of frames
  received,           \* transforms received so far
  up                  \* FALSE once a null node has been dereferenced

vars == <<nodes, parent, is_static, value_time_series, shared_ancestor, received, up>>

Entries == [frame_id : Frames, stamp : Stamps]
Tokens == {{f, g} : f, g \in Frames}
None == NoFrame  \* no transform either

ASSUME NoneAssumption == None \notin Entries
---------------------------------------------------------------------------
(* Times and the series of one frame.                                      *)

Before(s, t) == s.seconds < t.seconds \/ (s.seconds = t.seconds /\ s.nanos < t.nanos)

\* Division by 1000 that rounds towards zero, as in C++.
Thousandth(n) == IF n < 0 THEN -((-n) \div 1000) ELSE n \div 1000

\* r - l as the code computes it: the nanoseconds count as microseconds.
time_diff_ms(l, r) == (r.seconds - l.seconds) * 1000 + Thousandth(r.nanos - l.nanos)

\* Mutant: begin() for rbegin().
LatestBegin(series) == CHOOSE e \in series : \A d \in series : ~Before(d.stamp, e.stamp)

Latest(series) == CHOOSE e \in series : \A d \in series : ~Before(e.stamp, d.stamp)

cleanup(series, current_time) ==
  {e \in series : ~(time_diff_ms(current_time, e.stamp) > memory_duration)}

\* The series is a set ordered by time: a second transform of a time is dropped.
push(series, entry, static) ==
  LET inserted == IF \E e \in series : e.stamp = entry.stamp THEN series
                                                             ELSE series \cup {entry}
  IN  IF static THEN inserted ELSE cleanup(inserted, Latest(inserted).stamp)

Abs(n) == IF n < 0 THEN -n ELSE n

InTolerance(e, least_stamp, tolerance_ms) ==
  Abs(time_diff_ms(least_stamp, e.stamp)) <= tolerance_ms

(***************************************************************************)
(* TransformTreeNode::transform: the latest transform, or with a tolerance *)
(* the first one not before least_stamp, else the last one, if it is near  *)
(* enough.                                                                 *)
(***************************************************************************)
NodeTransform(f, least_stamp, tolerance_ms) ==
  LET series == value_time_series[f]
      later == {e \in series : ~Before(e.stamp, least_stamp)}
      found == IF later = {} THEN Latest(series)
               ELSE CHOOSE e \in later : \A d \in later : ~Before(d.stamp, e.stamp)
  IN  CASE series = {} -> None
        [] series # {} /\ (is_static[f] \/ tolerance_ms < 0) -> Latest(series)
        [] series # {} /\ ~is_static[f] /\ tolerance_ms >= 0 ->
             IF InTolerance(found, least_stamp, tolerance_ms) THEN found ELSE None
---------------------------------------------------------------------------
(* Walks towards the root.                                                 *)

\* The node reached from f after each number of steps.
Climb(f) ==
  LET at[n \in 0..Cardinality(Frames)] ==
        IF n = 0 THEN f
        ELSE IF at[n - 1] = NoFrame THEN NoFrame ELSE parent[at[n - 1]]
  IN  at
Traversed(f) == Range(Climb(f)) \ {NoFrame}
ClosedLoop(f) == Climb(f)[Cardinality(Frames)] # NoFrame

\* The frames from f up to root, without root.
Path(f, root) ==
  LET at == Climb(f)
      ends == {n \in DOMAIN at : at[n] \in {root, NoFrame}}
  IN  IF ends = {} THEN [i \in 1..Cardinality(Frames) |-> at[i - 1]]
                   ELSE [i \in 1..Min(ends) |-> at[i - 1]]

\* frame = current_transform * frame for each frame of the path.
Apply(frame, path, least_stamp, tolerance_ms) ==
  Reverse([i \in DOMAIN path |->
             [of |-> path[i], entry |-> NodeTransform(path[i], least_stamp, tolerance_ms),
              inverse |-> FALSE]]) \o frame
Inverted(frame) ==
  Reverse([i \in DOMAIN frame |-> [frame[i] EXCEPT !.inverse = ~@]])

\* Mutant: the way up is not inverted.
get_transformUpOnly(from, to, least_stamp, tolerance_ms) ==
  LET root == shared_ancestor[{from, to}]
      path == Path(from, root) \o Path(to, root)
  IN  [ok |-> \A f \in ToSet(path) : NodeTransform(f, least_stamp, tolerance_ms) # None,
       frame |-> Apply(Apply(<<>>, Path(from, root), least_stamp, tolerance_ms),
                       Path(to, root), least_stamp, tolerance_ms)]

get_transform(from, to, least_stamp, tolerance_ms) ==
  LET root == shared_ancestor[{from, to}]
      path == Path(from, root) \o Path(to, root)
      way_up == Apply(<<>>, Path(from, root), least_stamp, tolerance_ms)
  IN  [ok |-> \A f \in ToSet(path) : NodeTransform(f, least_stamp, tolerance_ms) # None,
       frame |-> Apply(Inverted(way_up), Path(to, root), least_stamp, tolerance_ms)]
---------------------------------------------------------------------------
Init ==
  /\ nodes = {} /\ shared_ancestor = <<>>
  /\ parent = [f \in Frames |-> NoFrame]
  /\ is_static = [f \in Frames |-> FALSE]
  /\ value_time_series = [f \in Frames |-> {}]
  /\ received = 0 /\ up = TRUE

\* Mutant: a transform on /tf makes the frame dynamic again.
ReceiveDynamic(child, entry, static) ==
  /\ up /\ received < MaxTransforms
  /\ received' = received + 1
  /\ is_static' = [is_static EXCEPT ![child] = static]
  /\ value_time_series' = [value_time_series EXCEPT ![child] = push(@, entry, is_static'[child])]
  /\ UNCHANGED <<shared_ancestor, up>>

\* What every transform does but for the parent.
Receive(child, entry, static) ==
  /\ up /\ received < MaxTransforms
  /\ received' = received + 1
  /\ is_static' = [is_static EXCEPT ![child] = @ \/ static]
  /\ value_time_series' = [value_time_series EXCEPT ![child] = push(@, entry, is_static'[child])]
  /\ UNCHANGED <<shared_ancestor, up>>

\* Mutant: a frame moves below the parent of its last transform.
addTransformNodeMoves(child, entry, static) ==
  /\ Receive(child, entry, static)
  /\ nodes' = nodes \cup {child, entry.frame_id}
  /\ parent' = [parent EXCEPT ![child] = entry.frame_id]

(***************************************************************************)
(* addTransformNode, from a message on /tf or /tf_static.  The first       *)
(* parent is kept; a transform from another parent is complained about     *)
(* after it was pushed.  (A static one is then published again, which      *)
(* leaves the tree alone.)                                                 *)
(***************************************************************************)
addTransformNode(child, entry, static) ==
  /\ Receive(child, entry, static)
  /\ nodes' = nodes \cup {child, entry.frame_id}
  /\ parent' = [parent EXCEPT ![child] = IF @ = NoFrame THEN entry.frame_id ELSE @]

\* The steps of the walk from to at which it is on the walk from from.
Meets(from, to) ==
  LET at == Climb(to)
      met == Traversed(from)
  IN  {n \in DOMAIN at : at[n] \in met}

\* A lookup of frames that are cached, missing or in a loop changes nothing.
Searches(from, to) ==
  /\ up /\ {from, to} \subseteq nodes
  /\ {from, to} \notin DOMAIN shared_ancestor
  /\ Cardinality(DOMAIN shared_ancestor) < MaxAncestors
  /\ ~ClosedLoop(from)

find_shared_ancestor(from, to) ==
  /\ Searches(from, to) /\ Meets(from, to) # {}
  /\ shared_ancestor' = [t \in DOMAIN shared_ancestor \cup {{from, to}} |->
                           IF t = {from, to} THEN Climb(to)[Min(Meets(from, to))]
                                             ELSE shared_ancestor[t]]
  /\ UNCHANGED <<nodes, parent, is_static, value_time_series, received, up>>

\* Two roots: the walk ends at the null node, whose name is then logged.
NoSharedAncestor(from, to) ==
  /\ Searches(from, to) /\ Meets(from, to) = {} /\ ~ClosedLoop(to)
  /\ up' = FALSE
  /\ UNCHANGED <<nodes, parent, is_static, value_time_series, shared_ancestor, received>>

Next ==
  \/ \E child \in Frames, entry \in Entries, static \in BOOLEAN :
       addTransformNode(child, entry, static)
  \/ \E from, to \in Frames : find_shared_ancestor(from, to) \/ NoSharedAncestor(from, to)

Spec == Init /\ [][Next]_vars
---------------------------------------------------------------------------
(* Properties.                                                             *)

\* Every variable keeps its type, and parents have nodes.
TypeOK ==
  /\ nodes \subseteq Frames
  /\ parent \in [Frames -> nodes \cup {NoFrame}]
  /\ is_static \in [Frames -> BOOLEAN]
  /\ value_time_series \in [Frames -> SUBSET Entries]
  /\ DOMAIN shared_ancestor \subseteq Tokens
  /\ \A t \in DOMAIN shared_ancestor : shared_ancestor[t] \in nodes
  /\ received \in 0..MaxTransforms /\ up \in BOOLEAN

(***************************************************************************)
(* A cached ancestor is right for ever: whatever was received since, it is *)
(* an ancestor of both frames, and every other one is above it.  So the    *)
(* walks of get_transform end, even when a loop has closed above it.       *)
(***************************************************************************)
CachedAncestorLowest ==
  /\ TypeOK
  /\ \A t \in DOMAIN shared_ancestor :
       LET root == shared_ancestor[t]
           common == {g \in nodes : \A f \in t : g \in Traversed(f)}
       IN  root \in common /\ common \subseteq Traversed(root)

(***************************************************************************)
(* What a product of factors transforms.  A transform of f is that of f in *)
(* the frame it was sent for, its inverse that of this frame in f, and the *)
(* product of a sequence of factors is that of `to' in `from' when each    *)
(* factor goes on where the one before it ends.                            *)
(***************************************************************************)
Source(factor) == IF factor.inverse THEN factor.of ELSE factor.entry.frame_id
Target(factor) == IF factor.inverse THEN factor.entry.frame_id ELSE factor.of
Composes(frame, from, to) ==
  IF frame = <<>> THEN from = to
  ELSE /\ Source(frame[1]) = from /\ Target(frame[Len(frame)]) = to
       /\ \A i \in 1..(Len(frame) - 1) : Target(frame[i]) = Source(frame[i + 1])

\* Every factor was sent for the parent its frame has in the tree.
FromParents(frame) == \A i \in DOMAIN frame : frame[i].entry.frame_id = parent[frame[i].of]

(***************************************************************************)
(* cpp/test/transform_listen_test.cpp looks up "frame_dynamic" and         *)
(* "frame_static2", which are on two branches below "root", and says it    *)
(* gets ^{frame_dynamic}_{frame_static2}T: the transform of `to' in the    *)
(* frame `from'.  The code multiplies in the other order.                  *)
(***************************************************************************)
LookupDirection ==
  \A from, to \in nodes : {from, to} \in DOMAIN shared_ancestor =>
    \A s \in Stamps, tol \in Tolerances \cup {-1} :
      LET found == get_transform(from, to, s, tol)
      IN  (found.ok /\ FromParents(found.frame)) => Composes(found.frame, from, to)

(***************************************************************************)
(* The same where the test's "root" and "frame_static2" are looked up: on  *)
(* one branch, upwards and downwards, the product does go from one frame   *)
(* to the other.  Not when a transform was sent for a second parent, which *)
(* addTransformNode complains of and keeps.                                *)
(***************************************************************************)
BranchLookup ==
  \A from, to \in nodes :
    ({from, to} \in DOMAIN shared_ancestor /\ shared_ancestor[{from, to}] \in {from, to}) =>
      \A s \in Stamps, tol \in Tolerances \cup {-1} :
        LET found == get_transform(from, to, s, tol)
        IN  (found.ok /\ FromParents(found.frame)) => Composes(found.frame, from, to)

\* The frames whose transforms get_transform multiplies.
OnTheWay(from, to) ==
  LET root == shared_ancestor[{from, to}] IN ToSet(Path(from, root)) \cup ToSet(Path(to, root))

(***************************************************************************)
(* transform_listen_test.cpp, "the static transform can be reached once a  *)
(* node is alive, even the original broadcaster has close": when every     *)
(* frame between two is static, then whatever is received next, also on    *)
(* /tf for one of them, the way stays as it is and every frame on it gives *)
(* a transform, for every time and every tolerance.                        *)
(***************************************************************************)
StaticReachable ==
  [][\A from, to \in nodes :
       ({from, to} \in DOMAIN shared_ancestor /\ \A f \in OnTheWay(from, to) : is_static[f]) =>
         /\ shared_ancestor'[{from, to}] = shared_ancestor[{from, to}]
         /\ \A f \in OnTheWay(from, to) :
              /\ parent'[f] = parent[f]
              /\ \A s \in Stamps, tol \in Tolerances \cup {-1} :
                   NodeTransform(f, s, tol)' # None]_vars

(***************************************************************************)
(* TransformTree.hpp, "case 1: no tolerance set (-1), would get the latest *)
(* timestamp".  A pair of frames is always looked up along the same way,   *)
(* and each frame on it gives the transform it gave before or a later one: *)
(* late messages, cleanup, second parents and loops above never take a     *)
(* lookup back in time.                                                    *)
(***************************************************************************)
Advances(old, new) ==
  (old # None /\ new # None) => (new = old \/ Before(old.stamp, new.stamp))
LookupAdvances ==
  [][\A from, to \in nodes : {from, to} \in DOMAIN shared_ancestor =>
       /\ shared_ancestor'[{from, to}] = shared_ancestor[{from, to}]
       /\ \A f \in OnTheWay(from, to) :
            /\ parent'[f] = parent[f]
            /\ \A s \in Stamps : Advances(NodeTransform(f, s, -1), NodeTransform(f, s, -1)')]_vars

\* The time between two stamps in nanoseconds.
Distance(s, t) == Abs((s.seconds - t.seconds) * NanosPerSecond + (s.nanos - t.nanos))

(***************************************************************************)
(* TransformTree.hpp, "case 2: tolerance set, would get the timestamp whom *)
(* been in tolerance": the transform a dynamic frame gives is no further   *)
(* from the time asked for than the tolerance.  In time_diff_ms a          *)
(* millisecond of nanos makes up for a whole second.                       *)
(***************************************************************************)
WithinTolerance ==
  \A f \in nodes, s \in Stamps, tol \in Tolerances :
    LET e == NodeTransform(f, s, tol)
    IN  (~is_static[f] /\ e # None) => Distance(e.stamp, s) <= tol * 1000000

=============================================================================
