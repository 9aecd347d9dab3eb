----------------------------- MODULE Discovery -----------------------------
(***************************************************************************)
(* What a node may rely on the registrar for, without versions, locks or   *)
(* notifications: node processes join and leave once each, and a node that *)
(* takes part is told of others that have joined and of others that have   *)
(* left, each at most once, and only of what is true when it is told.      *)
(* Registrar implements this specification.                                *)
(***************************************************************************)
CONSTANT Nodes   \* node processes

VARIABLES
  life,      \* each process: "new", "live", "gone"
  added,     \* the processes each one has been told of as added
  deleted    \* the processes each one has been told of as deleted

vars == <<life, added, deleted>>

Init ==
  /\ life = [c \in Nodes |-> "new"]
  /\ added = [c \in Nodes |-> {}]
  /\ deleted = [c \in Nodes |-> {}]

Join(c) ==
  /\ life[c] = "new"
  /\ life' = [life EXCEPT ![c] = "live"]
  /\ UNCHANGED <<added, deleted>>

Leave(c) ==
  /\ life[c] = "live"
  /\ life' = [life EXCEPT ![c] = "gone"]
  /\ UNCHANGED <<added, deleted>>

\* One reply: nobody is told of itself, of a process that is not there, or
\* of the same thing twice.
Tell(c, news, olds) ==
  /\ life[c] = "live"
  /\ \A d \in news : d # c /\ life[d] = "live" /\ d \notin added[c]
  /\ \A d \in olds : d # c /\ life[d] = "gone" /\ d \notin deleted[c]
  /\ added' = [added EXCEPT ![c] = @ \cup news]
  /\ deleted' = [deleted EXCEPT ![c] = @ \cup olds]
  /\ UNCHANGED life

Next ==
  \E c \in Nodes :
    \/ Join(c) \/ Leave(c)
    \/ \E news \in SUBSET Nodes, olds \in SUBSET Nodes : Tell(c, news, olds)

Spec == Init /\ [][Next]_vars
=============================================================================
