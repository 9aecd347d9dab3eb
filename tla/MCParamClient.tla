--------------------------- MODULE MCParamClient ---------------------------
(* One remote node that restarts, a1 and then a2, and two callbacks.       *)
EXTENDS ParamClient, TLC

CONSTANTS a1, a2, c1, c2

MCNames == {"a"}
MCNameOf == [p \in Peers |-> "a"]

(***************************************************************************)
(* Bound: a2 is the second process of the node, which may start before a1  *)
(* has registered, and is not deregistered; where a slot is lost or the    *)
(* two overlap, it neither declares the parameter nor dies.                *)
(* Only steps without fairness lead out of it.                             *)
(***************************************************************************)
Bound == /\ process[a1] = "new" => process[a2] = "new"
         /\ registered[a2] # "gone"
         /\ confused # {} => process[a2] # "dead" /\ value[a2] = 0
=============================================================================
