---------------------------- MODULE PushChannel -----------------------------
(***************************************************************************)
(* What the push task promises the application about the messages that     *)
(* are published to the thing (QoS 0): messages may be lost, while there   *)
(* is no connection for instance, but none is delivered twice, out of      *)
(* order, in part or before it was published.                              *)
(***************************************************************************)
EXTENDS Naturals, Sequences

CONSTANT Publications  \* How many messages are published.

VARIABLES
  published,  \* Messages 1..published have been published.
  delivered   \* The messages delivered, one for each call of the application.

channelVars == <<published, delivered>>

Latest == IF delivered = <<>> THEN 0 ELSE delivered[Len(delivered)]

Init == published = 0 /\ delivered = <<>>

Publish ==
  /\ published < Publications
  /\ published' = published + 1
  /\ UNCHANGED delivered

Deliver ==
  /\ \E id \in Latest + 1..published : delivered' = Append(delivered, id)
  /\ UNCHANGED published

Next == Publish \/ Deliver

Spec == Init /\ [][Next]_channelVars

=============================================================================
