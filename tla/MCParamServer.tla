--------------------------- MODULE MCParamServer ---------------------------
(* One declarer, a local and a remote setter, one watcher of each kind.    *)
EXTENDS ParamServer, TLC

CONSTANTS d1, s1, r1, v0, v1, v2

\* Every writer stores a value of its own.
MCValueOf == [t \in Writers |-> CASE t = d1 -> v0 [] t = s1 -> v1 [] t = r1 -> v2]
=============================================================================
