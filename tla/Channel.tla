------------------------------ MODULE Channel ------------------------------
(***************************************************************************)
(* What the connection of a topic promises, without bytes: a publisher     *)
(* hands over numbered messages one at a time, a subscriber that joins     *)
(* gets the static ones first, and from then on messages arrive in the     *)
(* order in which they were handed over, each whole.  Nothing is dropped   *)
(* while the connection is idle, a connection that breaks loses the last   *)
(* messages on their way and no others, and nothing is promised of a torn  *)
(* one but that what was delivered stays delivered.                        *)
(***************************************************************************)
EXTENDS Integers, Sequences, SequencesExt

VARIABLES
  published,  \* messages published so far
  handed,     \* the last of them that was handed to the connection, or dropped
  static,     \* messages that a subscriber gets when it joins
  link,       \* the connection: "new", "open", "closed" or "torn"
  queue,      \* messages on their way
  delivered   \* messages the subscriber has got

vars == <<published, handed, static, link, queue, delivered>>

Init ==
  /\ published = 0 /\ handed = 0 /\ static = {}
  /\ link = "new" /\ queue = <<>> /\ delivered = <<>>

Publish ==
  /\ handed = published
  /\ published' = published + 1
  /\ static' \in {static, static \cup {published + 1}}
  /\ UNCHANGED <<handed, link, queue, delivered>>

HandOver == handed < published /\ handed' = published

Send ==
  /\ HandOver /\ link = "open"
  /\ queue' = Append(queue, published)
  /\ UNCHANGED <<published, static, link, delivered>>

\* Without a connection, or behind messages that are still on their way.
Drop ==
  /\ HandOver /\ (link = "open" => queue # <<>>)
  /\ UNCHANGED <<published, static, link, queue, delivered>>

\* The static messages, each of them once.
Join ==
  /\ link = "new" /\ link' = "open"
  /\ queue = <<>> /\ delivered = <<>>
  /\ ToSet(queue') = static /\ IsInjective(queue')
  /\ UNCHANGED <<published, handed, static, delivered>>

Deliver ==
  /\ \E n \in 1..Len(queue) :
       /\ delivered' = delivered \o SubSeq(queue, 1, n)
       /\ queue' = SubSeq(queue, n + 1, Len(queue))
  /\ UNCHANGED <<published, handed, static, link>>

\* The publisher's end breaks, and later the subscriber's.
Break ==
  /\ link \in {"open", "closed"} /\ link' = "closed"
  /\ \E n \in 0..Len(queue) : queue' = SubSeq(queue, 1, n)
  /\ UNCHANGED <<published, handed, static, delivered>>

Tear ==
  /\ link # "torn" /\ link' = "torn"
  /\ queue' = <<>> /\ (handed' = handed \/ HandOver)
  /\ UNCHANGED <<published, static, delivered>>

Garble ==
  /\ link = "torn" /\ IsPrefix(delivered, delivered')
  /\ UNCHANGED <<published, handed, static, link, queue>>

Next == Publish \/ Send \/ Drop \/ Join \/ Deliver \/ Break \/ Tear \/ Garble

Spec == Init /\ [][Next]_vars
=============================================================================
