-------------------------- MODULE MCServiceServer --------------------------
(***************************************************************************)
(* Both parts of a service server for TLC: how clients learn its address   *)
(* and how it serves their streams.  They share no state, so each runs     *)
(* while the other rests in its first state, in which nothing has to       *)
(* happen: neither a client has dialled nor a server been created.         *)
(***************************************************************************)
EXTENDS ServiceStreams, ServiceConnection

ServerInit == Init /\ ConnectionInit
ServerNext ==
  \/ Next /\ ConnectionInit /\ UNCHANGED ConnectionVars
  \/ ConnectionNext /\ dialled = 0 /\ UNCHANGED vars

ServerSpec ==
  /\ ServerInit /\ [][ServerNext]_<<vars, ConnectionVars>>
  /\ Fairness /\ ConnectionFairness
=============================================================================
