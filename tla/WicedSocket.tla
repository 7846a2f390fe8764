---------------------------- MODULE WicedSocket -----------------------------
(***************************************************************************)
(* The socket callbacks over the WICED platform                            *)
(* (ebisu_environment_impl.c).  WICED hands the bytes of a connection over *)
(* in packets that the application has to delete; the context of a socket  *)
(* keeps the packet that has not been read to its end.  There are two      *)
(* receive callbacks, one for HTTP and one for MQTT, over the same         *)
(* connect, send and close.  One step is one call of a callback, in the    *)
(* order that khc and the push task call them: receive and close only on a *)
(* connection.  Sending keeps no state and is left out.                    *)
(*                                                                         *)
(* A byte is its place on the connection.  How many bytes a receive gets   *)
(* depends on the fragments of the packet and on the length that the       *)
(* caller asks for; here it is any part of what is left of the packet.     *)
(***************************************************************************)
EXTENDS Integers, Sequences

CONSTANTS
  Variants,    \* The receive callbacks there are, of "http" and "mqtt".
  MaxPackets,  \* Bound on the packets that the server sends.
  MaxSize      \* Bound on the bytes of a packet.

ASSUME WicedAssumption ==
  /\ Variants \subseteq {"http", "mqtt"}
  /\ MaxPackets \in Nat /\ MaxSize \in Nat

VARIABLES
  variant,                    \* The receive callback of this socket.
  conn,                       \* Is the WICED socket "open"?
  packet, offset, receivedAll,\* The fields of app_socket_context_t.
  live,                       \* The packets that WICED handed over, not yet deleted.
  packets,                    \* Every packet the server has sent.
  handed,                     \* The number of packets that WICED no longer holds.
  sent, ended,                \* The bytes sent on this connection; has the server closed it?
  got,                        \* The bytes that the callbacks received on this connection.
  answer                      \* What the last receive answered.

contextVars == <<packet, offset, receivedAll>>
networkVars == <<packets, sent, ended>>
vars == <<variant, conn, contextVars, live, networkVars, handed, got, answer>>

\* A packet is its place in packets.
NULL == 0
Uninitialized == -1

Init ==
  /\ variant \in Variants
  /\ conn = "closed"
  /\ packet = Uninitialized /\ offset = 0 /\ receivedAll \in {0, 1}
  /\ live = {} /\ packets = <<>> /\ handed = 0
  /\ sent = 0 /\ ended = FALSE /\ got = <<>> /\ answer = "none"

-----------------------------------------------------------------------------
(* Connecting.                                                             *)

Connect ==
  /\ conn = "closed"
  /\ conn' = "open"
  /\ packet' = NULL /\ offset' = 0
  /\ sent' = 0 /\ ended' = FALSE /\ handed' = Len(packets)
  /\ got' = <<>> /\ answer' = "none"
  /\ UNCHANGED <<variant, receivedAll, live, packets>>

\* The host name is not found or there is no socket, before the context is set;
\* or the server cannot be reached, after it.
ConnectFails ==
  /\ conn = "closed"
  /\ UNCHANGED <<packet, offset>> \/ (packet' = NULL /\ offset' = 0)
  /\ UNCHANGED <<variant, conn, receivedAll, live, networkVars, handed, got, answer>>

-----------------------------------------------------------------------------
(* Receiving.                                                              *)

\* The packet the callback works on: the one it kept or the next of WICED,
\* which is read from its start.
KeptPacket == packet # NULL
Waiting == handed < Len(packets)
Current == IF KeptPacket THEN packet ELSE handed + 1
From == IF KeptPacket THEN offset ELSE 0
Left == packets[Current].size - From

\* Mutant: each call takes a packet from WICED, also if one is kept.
CopyReceives(n) ==
  /\ got' = got \o [i \in 1..n |-> packets[Current].start + From + i]
  /\ answer' = "bytes"
  /\ handed' = handed + 1

\* The bytes given to the caller.
Copy(n) ==
  /\ got' = got \o [i \in 1..n |-> packets[Current].start + From + i]
  /\ answer' = "bytes"
  /\ handed' = IF KeptPacket THEN handed ELSE handed + 1

\* Mutant: the offset counts from the piece before.
KeepPiece(n) == packet' = Current /\ offset' = n

Keep(n) == packet' = Current /\ offset' = From + n

\* wiced_tcp_receive times out or the connection is closed.
ReceiveFails ==
  /\ conn = "open" /\ ~KeptPacket /\ ~Waiting
  /\ receivedAll' = 0
  /\ answer' = "fail"
  /\ UNCHANGED <<variant, conn, packet, offset, live, networkVars, handed, got>>

\* Part of a packet: it is kept.
ReceivePart ==
  /\ conn = "open"
  /\ \/ KeptPacket /\ (variant = "http" => receivedAll = 0) /\ UNCHANGED receivedAll
     \/ ~KeptPacket /\ Waiting /\ receivedAll' = 0
  /\ \E n \in 1..Left - 1 : Copy(n) /\ Keep(n)
  /\ live' = live \cup {Current}
  /\ UNCHANGED <<variant, conn, networkVars>>

\* The rest of a packet, by socket_recv_cb_impl: it is noted that all of it was
\* read, and that is all.
ReceiveRestHttp ==
  /\ conn = "open" /\ variant = "http"
  /\ IF KeptPacket THEN receivedAll = 0 ELSE Waiting
  /\ Copy(Left)
  /\ receivedAll' = 1
  /\ live' = live \cup {Current}
  /\ UNCHANGED <<variant, conn, packet, offset, networkVars>>

\* Mutant: the packet is still kept.
ReceiveNothingKeeps ==
  /\ conn = "open" /\ variant = "http"
  /\ KeptPacket /\ receivedAll = 1
  /\ answer' = "nothing"
  /\ UNCHANGED <<variant, conn, contextVars, live, networkVars, handed, got>>

\* A packet that was kept and has been read: it is deleted, and no bytes are
\* the answer.
ReceiveNothing ==
  /\ conn = "open" /\ variant = "http"
  /\ KeptPacket /\ receivedAll = 1
  /\ live' = live \ {packet} /\ packet' = NULL /\ offset' = 0
  /\ answer' = "nothing"
  /\ UNCHANGED <<variant, conn, receivedAll, networkVars, handed, got>>

\* Mutant: the pointer stays.
ReceiveRestMqttDangling ==
  /\ conn = "open" /\ variant = "mqtt"
  /\ KeptPacket \/ Waiting
  /\ Copy(Left)
  /\ live' = live \ {Current}
  /\ offset' = 0
  /\ receivedAll' = IF KeptPacket THEN receivedAll ELSE 0
  /\ UNCHANGED <<variant, conn, packet, networkVars>>

\* Mutant: only a packet that was kept is deleted.
ReceiveRestMqttLeaks ==
  /\ conn = "open" /\ variant = "mqtt"
  /\ KeptPacket \/ Waiting
  /\ Copy(Left)
  /\ live' = IF KeptPacket THEN live \ {packet} ELSE live \cup {Current}
  /\ packet' = NULL /\ offset' = 0
  /\ receivedAll' = IF KeptPacket THEN receivedAll ELSE 0
  /\ UNCHANGED <<variant, conn, networkVars>>

\* The rest of a packet, by mqtt_socket_recv_cb_impl: it is deleted.
ReceiveRestMqtt ==
  /\ conn = "open" /\ variant = "mqtt"
  /\ KeptPacket \/ Waiting
  /\ Copy(Left)
  /\ live' = live \ {Current}
  /\ packet' = NULL /\ offset' = 0
  /\ receivedAll' = IF KeptPacket THEN receivedAll ELSE 0
  /\ UNCHANGED <<variant, conn, networkVars>>

Receive == ReceiveFails \/ ReceivePart \/ ReceiveRestHttp \/ ReceiveNothing \/ ReceiveRestMqtt

-----------------------------------------------------------------------------
(* Closing, and the network.                                               *)

\* The pointer is not reset: Connect does it.
Close ==
  /\ conn = "open"
  /\ conn' = "closed"
  /\ live' = IF packet # NULL THEN live \ {packet} ELSE live
  /\ UNCHANGED <<variant, contextVars, networkVars, handed, got, answer>>

PacketArrives ==
  /\ conn = "open" /\ ~ended
  /\ Len(packets) < MaxPackets
  /\ \E n \in 1..MaxSize :
       packets' = Append(packets, [start |-> sent, size |-> n]) /\ sent' = sent + n
  /\ UNCHANGED <<variant, conn, contextVars, live, ended, handed, got, answer>>

ServerCloses ==
  /\ conn = "open" /\ ended' = TRUE
  /\ UNCHANGED <<variant, conn, contextVars, live, packets, sent, handed, got, answer>>

Next ==
  \/ Connect \/ ConnectFails \/ Receive \/ Close
  \/ PacketArrives \/ ServerCloses

Spec == Init /\ [][Next]_vars

\* khc and the push task go on receiving until they close the connection.
FairSpec == Spec /\ WF_vars(Receive)

-----------------------------------------------------------------------------
(* Properties.                                                             *)

Packet == 1..Len(packets)
PacketRecord == [start : Nat, size : Nat \ {0}]

TypeOK ==
  /\ variant \in Variants
  /\ conn \in {"open", "closed"}
  /\ packet \in Packet \cup {NULL, Uninitialized}
  /\ offset \in Nat /\ receivedAll \in {0, 1}
  /\ live \subseteq Packet
  /\ packets \in Seq(PacketRecord)
  /\ handed \in 0..Len(packets)
  /\ sent \in Nat /\ ended \in BOOLEAN
  /\ got \in Seq(Nat \ {0})
  /\ answer \in {"none", "bytes", "nothing", "fail"}

(***************************************************************************)
(* On a connection the context keeps a packet that has not been deleted,   *)
(* or none: no packet is read after it was deleted, none is deleted twice, *)
(* and the uninitialized pointer of a new context is never used, although  *)
(* close and a look-up that fails leave the pointer as it is.              *)
(***************************************************************************)
PacketOwned == conn = "open" => packet \in live \cup {NULL}

(***************************************************************************)
(* The MQTT callback deletes every packet: at most the one being read is   *)
(* left, and none after the connection is closed, over any number of       *)
(* connections.                                                            *)
(***************************************************************************)
MqttDeletes ==
  variant = "mqtt" => live \subseteq (IF conn = "open" THEN {packet} ELSE {})

(***************************************************************************)
(* The bytes received on a connection are its first bytes, in order.       *)
(***************************************************************************)
BytesInOrder == \A i \in DOMAIN got : got[i] = i

(***************************************************************************)
(* Either callback gives a stream of bytes: whatever the packets and the   *)
(* pieces they are read in, no byte is lost, repeated or moved.            *)
(***************************************************************************)
Received == IF BytesInOrder THEN Len(got) ELSE -1
Stream == INSTANCE ByteStream WITH got <- Received
ImplementsStream == Stream!Spec

(***************************************************************************)
(* Every byte that is sent is received in the end, unless the connection   *)
(* is closed before.                                                       *)
(***************************************************************************)
Delivers ==
  \A n \in 1..MaxPackets * MaxSize : sent >= n ~> (Len(got) >= n \/ conn = "closed")

(***************************************************************************)
(* A receive that succeeds with no bytes tells the end of the response:    *)
(* the server has closed the connection and every byte was received        *)
(* (khc_socket_callback.h:62 "This callback is called repeatedly in the    *)
(* HTTP session untill out_actual_length value is set to 0").              *)
(***************************************************************************)
NothingAtEnd == answer = "nothing" => ended /\ Len(got) = sent

=============================================================================
