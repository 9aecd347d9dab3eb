------------------------- MODULE MCTopicConnection -------------------------
(* One peer that restarts, a1 and then a2, and two subscriptions.          *)
EXTENDS TopicConnection, TLC

CONSTANTS a1, a2

MCNames == {"a"}
MCNameOf == [p \in Peers |-> "a"]

(***************************************************************************)
(* Bound: a2 is the second process of the node, which may start before a1  *)
(* has registered, and is not deregistered; a second subscription is made  *)
(* only where no slot is lost, the two do not overlap, and one of them     *)
(* does not advertise.  Only steps without fairness lead out of it.        *)
(***************************************************************************)
Bound == /\ process[a1] = "new" => process[a2] = "new"
         /\ registered[a2] # "gone"
         /\ topic_requests = 2 => /\ confused = {}
                                  /\ \/ process[a2] = "new"
                                     \/ \E p \in Peers : advertised[p] = "no"
=============================================================================
