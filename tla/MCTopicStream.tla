--------------------------- MODULE MCTopicStream ---------------------------
(* Three messages of two, three and two units.                             *)
EXTENDS TopicStream

MCSizes == <<2, 3, 2>>
=============================================================================
