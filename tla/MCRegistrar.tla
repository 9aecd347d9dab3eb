---------------------------- MODULE MCRegistrar ----------------------------
(* Three node processes: two incarnations of node "a" and one of node "b". *)
EXTENDS Registrar

CONSTANTS a1, a2, b1

MCNames == {"a", "b"}
MCNameOf == [c \in Calls |-> IF c = b1 THEN "b" ELSE "a"]

(***************************************************************************)
(* Bound: b1 is an observer that registers first and stays, a1 comes and   *)
(* goes, and a2 comes some time after a1 has called and stays.  Only steps *)
(* without fairness lead out of it.                                        *)
(***************************************************************************)
ObserverFirst ==
  /\ ~cancelled[b1] /\ ~cancelled[a2]
  /\ pc[a1] # "idle" => pc[b1] \in Streaming
  /\ pc[a2] # "idle" => pc[a1] # "idle"
=============================================================================
