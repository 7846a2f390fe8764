----------------------------- MODULE WicedProofs ----------------------------
(***************************************************************************)
(* What is proved of the WICED sockets, for packets of every size and      *)
(* number, any pieces they are read in and any number of connections.      *)
(***************************************************************************)
EXTENDS WicedSocket, SequenceTheorems, TLAPS

\* The place after which the packets that WICED still holds go on.
NextStart == IF Waiting THEN packets[handed + 1].start ELSE sent

\* The packets that WICED holds follow one another up to what has been sent.
Chained ==
  \A i \in handed + 1..Len(packets) :
    /\ packets[i].start + packets[i].size = (IF i < Len(packets) THEN packets[i + 1].start ELSE sent)
    /\ packets[i].start <= sent

\* Is there more to read in the packet that was kept?
Unread == KeptPacket /\ ~(variant = "http" /\ receivedAll = 1)

\* What was received ends where the packet that was kept, or else the next
\* one, goes on.
Position ==
  IF Unread
    THEN /\ packets[packet].start + offset = Len(got)
         /\ offset < packets[packet].size
         /\ packets[packet].start + packets[packet].size = NextStart
    ELSE NextStart = Len(got)

Progress == conn = "open" => packet # Uninitialized /\ Chained /\ Position

IInv == TypeOK /\ PacketOwned /\ MqttDeletes /\ BytesInOrder /\ Progress

---------------------------------------------------------------------------
LEMMA InitInvariant == Init => IInv
<1> SUFFICES ASSUME Init PROVE IInv
  OBVIOUS
<1> USE DEF Init, Uninitialized, NULL
<1>1. packets \in Seq(PacketRecord) /\ Len(packets) = 0 /\ got \in Seq(Nat \ {0})
  BY EmptySeq
<1>2. TypeOK
  <2>1. /\ variant \in Variants /\ conn \in {"open", "closed"}
        /\ packet \in Packet \cup {NULL, Uninitialized} /\ offset \in Nat /\ receivedAll \in {0, 1}
    OBVIOUS
  <2>2. live \subseteq Packet /\ handed \in 0..Len(packets)
    BY <1>1
  <2>3. sent \in Nat /\ ended \in BOOLEAN /\ answer \in {"none", "bytes", "nothing", "fail"}
    OBVIOUS
  <2> QED BY <1>1, <2>1, <2>2, <2>3 DEF TypeOK
<1>3. PacketOwned /\ MqttDeletes /\ BytesInOrder /\ Progress
  BY DEF PacketOwned, MqttDeletes, BytesInOrder, Progress
<1> QED BY <1>2, <1>3 DEF IInv

LEMMA ConnectInvariant ==
  ASSUME IInv, Connect \/ ConnectFails
  PROVE  IInv'
<1> USE DEF IInv, NULL, Uninitialized, networkVars, contextVars
<1>1. CASE Connect
  <2> USE <1>1 DEF Connect
  <2>1. TypeOK'
    <3>1. got' \in Seq(Nat \ {0}) /\ Len(packets) \in Nat /\ packets' \in Seq(PacketRecord)
      BY EmptySeq, LenProperties DEF TypeOK
    <3>2. /\ packet' \in Packet' \cup {NULL, Uninitialized}
          /\ offset' \in Nat /\ receivedAll' \in {0, 1} /\ conn' \in {"open", "closed"}
      BY DEF TypeOK
    <3>3. variant' \in Variants /\ live' \subseteq Packet' /\ handed' \in 0..Len(packets')
      BY <3>1 DEF TypeOK, Packet
    <3>4. sent' \in Nat /\ ended' \in BOOLEAN /\ answer' \in {"none", "bytes", "nothing", "fail"}
      OBVIOUS
    <3> QED BY <3>1, <3>2, <3>3, <3>4 DEF TypeOK
  <2>2. PacketOwned' /\ MqttDeletes' /\ BytesInOrder'
    BY DEF PacketOwned, MqttDeletes, BytesInOrder, TypeOK
  <2>3. Progress'
    BY DEF Progress, Chained, Position, Unread, KeptPacket, NextStart, Waiting, TypeOK
  <2> QED BY <2>1, <2>2, <2>3
<1>2. CASE ConnectFails
  <2> USE <1>2 DEF ConnectFails
  <2>1. TypeOK'
    BY DEF TypeOK, Packet
  <2>2. PacketOwned' /\ MqttDeletes' /\ BytesInOrder' /\ Progress'
    BY DEF PacketOwned, MqttDeletes, BytesInOrder, Progress
  <2> QED BY <2>1, <2>2
<1> QED BY <1>1, <1>2

LEMMA PacketNumbers ==
  ASSUME TypeOK, NEW i \in Packet
  PROVE  packets[i].start \in Nat /\ packets[i].size \in Nat \ {0}
<1>1. packets[i] \in PacketRecord
  BY ElementOfSeq DEF TypeOK, Packet
<1> QED BY <1>1 DEF PacketRecord

\* The packet a receive works on, and what it copies of it.
LEMMA CurrentPacket ==
  ASSUME IInv, conn = "open", KeptPacket \/ Waiting, Unread \/ ~KeptPacket
  PROVE  /\ Current \in Packet /\ From \in Nat /\ Left \in Nat \ {0}
         /\ packets[Current].start \in Nat /\ packets[Current].size \in Nat \ {0}
         /\ packets[Current].start + From = Len(got) /\ Len(got) \in Nat
         /\ From + Left = packets[Current].size
<1> USE DEF IInv, NULL, Uninitialized
<1>1. Current \in Packet
  BY DEF TypeOK, Progress, Current, Packet, Waiting, KeptPacket
<1>2. packets[Current] \in PacketRecord
  BY <1>1, ElementOfSeq DEF TypeOK, Packet
<1>3. packets[Current].start \in Nat /\ packets[Current].size \in Nat \ {0}
  BY <1>2 DEF PacketRecord
<1>4. From \in Nat /\ packets[Current].start + From = Len(got) /\ From < packets[Current].size
  <2>1. CASE KeptPacket
    BY <1>3, <2>1 DEF Progress, Position, Current, From, TypeOK
  <2>2. CASE ~KeptPacket
    BY <1>3, <2>2 DEF Progress, Position, Unread, NextStart, Current, From
  <2> QED BY <2>1, <2>2
<1>5. Len(got) \in Nat
  BY LenProperties DEF TypeOK
<1> QED BY <1>1, <1>3, <1>4, <1>5 DEF Left

LEMMA CopyInOrder ==
  ASSUME IInv, conn = "open", KeptPacket \/ Waiting, Unread \/ ~KeptPacket,
         NEW n \in 1..Left, Copy(n)
  PROVE  /\ got' \in Seq(Nat \ {0}) /\ Len(got') = Len(got) + n
         /\ BytesInOrder'
         /\ handed' \in 0..Len(packets)
<1> DEFINE piece == [i \in 1..n |-> packets[Current].start + From + i]
<1>1. /\ Left \in Nat \ {0} /\ packets[Current].start + From = Len(got)
      /\ packets[Current].start \in Nat /\ From \in Nat
  BY CurrentPacket
<1>2. got \in Seq(Nat \ {0}) /\ Len(got) \in Nat
  BY LenProperties DEF IInv, TypeOK
<1>3. n \in Nat /\ \A i \in 1..n : piece[i] = Len(got) + i
  BY <1>1
<1>4. piece \in Seq(Nat \ {0}) /\ Len(piece) = n
  BY <1>2, <1>3
<1>5. got' = got \o piece
  BY DEF Copy
<1>6. /\ got' \in Seq(Nat \ {0}) /\ Len(got') = Len(got) + n
      /\ \A i \in 1..Len(got) + n : got'[i] = IF i <= Len(got) THEN got[i] ELSE piece[i - Len(got)]
  BY <1>2, <1>4, <1>5, ConcatProperties
<1>7. BytesInOrder'
  <2>1. ASSUME NEW i \in DOMAIN got' PROVE got'[i] = i
    <3>1. i \in 1..Len(got) + n
      BY <1>6, <2>1, LenProperties
    <3>2. CASE i <= Len(got)
      <4>1. i \in DOMAIN got
        BY <1>2, <3>1, <3>2, LenProperties
      <4> QED BY <1>6, <3>1, <3>2, <4>1 DEF IInv, BytesInOrder
    <3>3. CASE ~(i <= Len(got))
      <4>1. i - Len(got) \in 1..n
        BY <1>2, <1>3, <3>1, <3>3
      <4>2. got'[i] = piece[i - Len(got)]
        BY <1>6, <3>1, <3>3
      <4>3. piece[i - Len(got)] = Len(got) + (i - Len(got))
        BY <1>3, <4>1
      <4> HIDE DEF piece
      <4> QED BY <1>2, <3>1, <4>2, <4>3
    <3> QED BY <3>2, <3>3
  <2> QED BY <2>1 DEF BytesInOrder
<1>8. handed' \in 0..Len(packets)
  BY DEF Copy, IInv, TypeOK, KeptPacket, Waiting
<1> QED BY <1>6, <1>7, <1>8

\* The packets that WICED holds after a receive.
LEMMA HandedOver ==
  ASSUME IInv, conn = "open", KeptPacket \/ Waiting, Unread \/ ~KeptPacket,
         handed' = IF KeptPacket THEN handed ELSE handed + 1,
         UNCHANGED <<packets, sent>>
  PROVE  /\ Chained'
         /\ packets[Current].start + packets[Current].size = NextStart'
<1> USE DEF IInv, NULL, Uninitialized
<1>1. handed \in 0..Len(packets) /\ Len(packets) \in Nat
  BY LenProperties DEF TypeOK
<1>2. Chained'
  BY <1>1 DEF Progress, Chained, Waiting
<1>3. CASE KeptPacket
  <2>1. Current = packet /\ NextStart' = NextStart
    BY <1>3 DEF NextStart, Waiting, Current
  <2>2. packets[packet].start + packets[packet].size = NextStart
    BY <1>3 DEF Progress, Position
  <2> QED BY <1>2, <2>1, <2>2
<1>4. CASE ~KeptPacket
  BY <1>1, <1>4 DEF Progress, Chained, NextStart, Waiting, Current
<1> QED BY <1>2, <1>3, <1>4

LEMMA ReceiveFailsInvariant ==
  ASSUME IInv, ReceiveFails
  PROVE  IInv'
<1> USE DEF IInv, ReceiveFails, networkVars
<1>1. TypeOK' /\ PacketOwned' /\ MqttDeletes' /\ BytesInOrder'
  BY DEF TypeOK, Packet, PacketOwned, MqttDeletes, BytesInOrder
<1>2. Progress'
  BY DEF Progress, Chained, Position, Unread, KeptPacket, NextStart, Waiting
<1> QED BY <1>1, <1>2

LEMMA ReceivePartInvariant ==
  ASSUME IInv, ReceivePart
  PROVE  IInv'
<1> USE DEF IInv, NULL, Uninitialized, networkVars
<1>1. /\ conn = "open" /\ (KeptPacket \/ Waiting) /\ (Unread \/ ~KeptPacket)
      /\ UNCHANGED <<variant, conn, packets, sent, ended>>
      /\ live' = live \cup {Current}
  BY DEF ReceivePart, Unread
<1>2. PICK n \in 1..Left - 1 : Copy(n) /\ Keep(n)
  BY DEF ReceivePart
<1>3. /\ Current \in Packet /\ From \in Nat /\ Left \in Nat \ {0}
      /\ packets[Current].start \in Nat /\ packets[Current].size \in Nat \ {0}
      /\ packets[Current].start + From = Len(got) /\ Len(got) \in Nat
      /\ From + Left = packets[Current].size
  BY <1>1, CurrentPacket
<1>4. n \in 1..Left
  BY <1>3
<1>5. /\ got' \in Seq(Nat \ {0}) /\ Len(got') = Len(got) + n
      /\ BytesInOrder' /\ handed' \in 0..Len(packets)
  BY <1>1, <1>2, <1>4, CopyInOrder
<1>6. /\ packet' = Current /\ offset' = From + n /\ answer' = "bytes"
      /\ handed' = IF KeptPacket THEN handed ELSE handed + 1
  BY <1>2 DEF Keep, Copy
<1>7. /\ receivedAll' \in {0, 1}
      /\ variant = "http" => receivedAll' = 0
  BY DEF ReceivePart, TypeOK
<1>8. TypeOK'
  <2>1. /\ variant' \in Variants /\ conn' \in {"open", "closed"}
        /\ packets' \in Seq(PacketRecord) /\ sent' \in Nat /\ ended' \in BOOLEAN
    BY <1>1 DEF TypeOK
  <2>2. live' \subseteq Packet' /\ packet' \in Packet' /\ handed' \in 0..Len(packets')
    BY <1>1, <1>3, <1>5, <1>6 DEF TypeOK, Packet
  <2>3. offset' \in Nat
    BY <1>3, <1>6
  <2> QED BY <1>5, <1>6, <1>7, <2>1, <2>2, <2>3 DEF TypeOK
<1>9. PacketOwned'
  BY <1>1, <1>6 DEF PacketOwned
<1>10. MqttDeletes'
  BY <1>1, <1>6 DEF MqttDeletes, Current, KeptPacket, TypeOK, Packet
<1>11. Chained' /\ packets[Current].start + packets[Current].size = NextStart'
  BY <1>1, <1>6, HandedOver
<1>12. Unread' /\ packet' # Uninitialized
  BY <1>1, <1>3, <1>6, <1>7 DEF Unread, KeptPacket, Packet
<1>13. Position'
  <2>1. packets' = packets /\ offset' < packets[Current].size
    BY <1>1, <1>2, <1>3, <1>6
  <2>2. packets[Current].start + offset' = Len(got')
    <3>1. Len(got') = Len(got) + n /\ offset' = From + n
      BY <1>5, <1>6
    <3>2. /\ packets[Current].start \in Nat /\ From \in Nat /\ Len(got) \in Nat /\ n \in Nat
          /\ packets[Current].start + From = Len(got)
      BY <1>3, <1>4
    <3> QED BY ONLY <3>1, <3>2
  <2> QED BY <1>6, <1>11, <1>12, <2>1, <2>2 DEF Position
<1> QED BY <1>5, <1>8, <1>9, <1>10, <1>11, <1>12, <1>13 DEF Progress

LEMMA ReceiveRestInvariant ==
  ASSUME IInv, ReceiveRestHttp \/ ReceiveRestMqtt
  PROVE  IInv'
<1> USE DEF IInv, NULL, Uninitialized, networkVars
<1>1. /\ conn = "open" /\ (KeptPacket \/ Waiting) /\ (Unread \/ ~KeptPacket)
      /\ UNCHANGED <<variant, conn, packets, sent, ended>>
      /\ Copy(Left)
  BY DEF ReceiveRestHttp, ReceiveRestMqtt, Unread
<1>2. /\ Current \in Packet /\ From \in Nat /\ Left \in Nat \ {0}
      /\ packets[Current].start \in Nat /\ packets[Current].size \in Nat \ {0}
      /\ packets[Current].start + From = Len(got) /\ Len(got) \in Nat
      /\ From + Left = packets[Current].size
  BY <1>1, CurrentPacket
<1>3. /\ got' \in Seq(Nat \ {0}) /\ Len(got') = Len(got) + Left
      /\ BytesInOrder' /\ handed' \in 0..Len(packets)
  BY <1>1, <1>2, CopyInOrder
<1>4. answer' = "bytes" /\ handed' = IF KeptPacket THEN handed ELSE handed + 1
  BY <1>1 DEF Copy
<1>5. TypeOK'
  <2>1. /\ variant' \in Variants /\ conn' \in {"open", "closed"}
        /\ packets' \in Seq(PacketRecord) /\ sent' \in Nat /\ ended' \in BOOLEAN
    BY <1>1 DEF TypeOK
  <2>2. live' \subseteq Packet' /\ handed' \in 0..Len(packets')
    BY <1>1, <1>2, <1>3 DEF ReceiveRestHttp, ReceiveRestMqtt, TypeOK, Packet
  <2>3. packet' \in Packet' \cup {NULL, Uninitialized} /\ offset' \in Nat /\ receivedAll' \in {0, 1}
    BY <1>1 DEF ReceiveRestHttp, ReceiveRestMqtt, TypeOK, Packet
  <2> QED BY <1>3, <1>4, <2>1, <2>2, <2>3 DEF TypeOK
<1>6. PacketOwned' /\ MqttDeletes'
  BY <1>1, <1>2
  DEF ReceiveRestHttp, ReceiveRestMqtt, PacketOwned, MqttDeletes, Current, KeptPacket, TypeOK, Packet
<1>7. Chained' /\ packets[Current].start + packets[Current].size = NextStart'
  BY <1>1, <1>4, HandedOver
<1>8. ~Unread' /\ packet' # Uninitialized
  BY <1>1 DEF ReceiveRestHttp, ReceiveRestMqtt, Unread, KeptPacket, Progress
<1>9. NextStart' = Len(got')
  <2>1. /\ packets[Current].start \in Nat /\ From \in Nat /\ Left \in Nat /\ Len(got) \in Nat
        /\ packets[Current].start + From = Len(got) /\ From + Left = packets[Current].size
    BY <1>2
  <2>2. Len(got') = Len(got) + Left /\ packets[Current].start + packets[Current].size = NextStart'
    BY <1>3, <1>7
  <2> QED BY ONLY <2>1, <2>2
<1> QED BY <1>3, <1>5, <1>6, <1>7, <1>8, <1>9 DEF Progress, Position

LEMMA ReceiveNothingInvariant ==
  ASSUME IInv, ReceiveNothing
  PROVE  IInv'
<1> USE DEF IInv, ReceiveNothing, NULL, Uninitialized, networkVars
<1>1. TypeOK' /\ PacketOwned' /\ MqttDeletes' /\ BytesInOrder'
  BY DEF TypeOK, Packet, PacketOwned, MqttDeletes, BytesInOrder
<1>2. Progress'
  BY DEF Progress, Chained, Position, Unread, KeptPacket, NextStart, Waiting
<1> QED BY <1>1, <1>2

LEMMA CloseInvariant ==
  ASSUME IInv, Close
  PROVE  IInv'
<1> USE DEF IInv, Close, NULL, Uninitialized, networkVars, contextVars
<1>1. TypeOK' /\ PacketOwned' /\ BytesInOrder' /\ Progress'
  BY DEF TypeOK, Packet, PacketOwned, BytesInOrder, Progress
<1>2. MqttDeletes'
  BY DEF MqttDeletes, TypeOK, Packet
<1> QED BY <1>1, <1>2

LEMMA ArrivesInvariant ==
  ASSUME IInv, PacketArrives
  PROVE  IInv'
<1> USE DEF IInv, contextVars
<1>1. PICK n \in 1..MaxSize :
        packets' = Append(packets, [start |-> sent, size |-> n]) /\ sent' = sent + n
  BY DEF PacketArrives
<1>2. n \in Nat \ {0} /\ sent \in Nat
  BY <1>1, WicedAssumption DEF WicedAssumption, TypeOK
<1>3. /\ packets' \in Seq(PacketRecord) /\ Len(packets') = Len(packets) + 1
      /\ \A i \in Packet : packets'[i] = packets[i]
      /\ packets'[Len(packets) + 1] = [start |-> sent, size |-> n]
      /\ Len(packets) \in Nat
  <2>1. [start |-> sent, size |-> n] \in PacketRecord
    BY <1>2 DEF PacketRecord
  <2>2. packets \in Seq(PacketRecord)
    BY DEF TypeOK
  <2> QED BY <1>1, <2>1, <2>2 DEF Packet
<1>4. /\ conn = "open"
      /\ UNCHANGED <<variant, conn, packet, offset, receivedAll, live, ended, handed, got, answer>>
  BY DEF PacketArrives
<1>5. TypeOK'
  BY <1>1, <1>2, <1>3, <1>4 DEF TypeOK, Packet, NULL, Uninitialized
<1>6. PacketOwned' /\ MqttDeletes' /\ BytesInOrder'
  BY <1>4 DEF PacketOwned, MqttDeletes, BytesInOrder
<1>7. handed \in 0..Len(packets)
  BY DEF TypeOK
<1>8. Chained'
  <2>1. ASSUME NEW i \in handed + 1..Len(packets) + 1
        PROVE  /\ packets'[i].start + packets'[i].size =
                    (IF i < Len(packets) + 1 THEN packets'[i + 1].start ELSE sent')
               /\ packets'[i].start <= sent'
    <3>1. CASE i = Len(packets) + 1
      BY <1>1, <1>2, <1>3, <3>1
    <3>2. CASE i = Len(packets)
      <4>1. i \in handed + 1..Len(packets) /\ i \in Packet
        BY <1>3, <1>7, <2>1, <3>2 DEF Packet
      <4>2. packets[i].start + packets[i].size = sent /\ packets[i].start <= sent
        BY <1>4, <3>2, <4>1 DEF Progress, Chained
      <4>3. packets'[i] = packets[i] /\ packets'[i + 1] = [start |-> sent, size |-> n]
        BY <1>3, <3>2, <4>1
      <4>4. sent' = sent + n /\ packets[i].start \in Nat /\ i < Len(packets) + 1
        BY <1>1, <1>3, <3>2, <4>1, PacketNumbers
      <4> QED BY ONLY <1>2, <4>2, <4>3, <4>4
    <3>3. CASE i < Len(packets)
      <4>1. i \in handed + 1..Len(packets) /\ i \in Packet /\ i + 1 \in Packet
        BY <1>3, <1>7, <2>1, <3>3 DEF Packet
      <4>2. packets[i].start + packets[i].size = packets[i + 1].start /\ packets[i].start <= sent
        BY <1>4, <3>3, <4>1 DEF Progress, Chained
      <4>3. packets'[i] = packets[i] /\ packets'[i + 1] = packets[i + 1]
        BY <1>3, <4>1
      <4>4. sent' = sent + n /\ packets[i].start \in Nat /\ i < Len(packets) + 1
        BY <1>1, <1>3, <3>3, <4>1, PacketNumbers
      <4> QED BY ONLY <1>2, <4>2, <4>3, <4>4
    <3> QED BY <1>3, <1>7, <2>1, <3>1, <3>2, <3>3
  <2> QED BY <1>3, <1>4, <2>1 DEF Chained
<1>9. NextStart' = NextStart
  BY <1>2, <1>3, <1>4, <1>7 DEF NextStart, Waiting, Packet
<1>10. KeptPacket => packets'[packet] = packets[packet]
  BY <1>3, <1>4 DEF KeptPacket, TypeOK, Progress
<1>11. Position'
  BY <1>4, <1>9, <1>10 DEF Progress, Position, Unread, KeptPacket
<1> QED BY <1>4, <1>5, <1>6, <1>8, <1>11 DEF Progress

LEMMA IdleInvariant ==
  ASSUME IInv, ServerCloses \/ UNCHANGED vars
  PROVE  IInv'
<1> USE DEF IInv, ServerCloses, vars, contextVars, networkVars
<1>1. TypeOK' /\ PacketOwned' /\ MqttDeletes' /\ BytesInOrder'
  BY DEF TypeOK, Packet, PacketOwned, MqttDeletes, BytesInOrder
<1>2. Progress'
  BY DEF Progress, Chained, Position, Unread, KeptPacket, NextStart, Waiting
<1> QED BY <1>1, <1>2

\* Every reachable state of a socket satisfies the inductive invariant.
THEOREM Inductive == Spec => []IInv
<1>1. Init => IInv
  BY InitInvariant
<1>2. IInv /\ [Next]_vars => IInv'
  BY ConnectInvariant, ReceiveFailsInvariant, ReceivePartInvariant, ReceiveRestInvariant,
    ReceiveNothingInvariant, CloseInvariant, ArrivesInvariant, IdleInvariant DEF Next, Receive
<1> QED BY <1>1, <1>2, PTL DEF Spec

\* Every field of app_socket_context_t and what WICED holds keep their types.
THEOREM TypeCorrect == Spec => []TypeOK
<1>1. IInv => TypeOK
  BY DEF IInv
<1> QED BY <1>1, Inductive, PTL

(***************************************************************************)
(* No packet is read after it was deleted or deleted twice, by either      *)
(* receive callback (ebisu_environment_impl.c:60-161).                     *)
(***************************************************************************)
THEOREM PacketAlwaysOwned == Spec => []PacketOwned
<1>1. IInv => PacketOwned
  BY DEF IInv
<1> QED BY <1>1, Inductive, PTL

(***************************************************************************)
(* The MQTT callback and close together delete every packet, over any      *)
(* number of connections (ebisu_environment_impl.c:105-161).               *)
(***************************************************************************)
THEOREM MqttAlwaysDeletes == Spec => []MqttDeletes
<1>1. IInv => MqttDeletes
  BY DEF IInv
<1> QED BY <1>1, Inductive, PTL

---------------------------------------------------------------------------
(* The stream of bytes.                                                    *)

\* No more is received than was sent.
LEMMA ReceivedWasSent == IInv /\ conn = "open" => Len(got) \in Nat /\ Len(got) <= sent
<1> SUFFICES ASSUME IInv, conn = "open" PROVE Len(got) \in Nat /\ Len(got) <= sent
  OBVIOUS
<1> USE DEF IInv, NULL, Uninitialized
<1>1. Len(got) \in Nat /\ sent \in Nat /\ handed \in 0..Len(packets) /\ Len(packets) \in Nat
  BY LenProperties DEF TypeOK
<1>2. NextStart <= sent
  BY <1>1 DEF NextStart, Waiting, Progress, Chained
<1>3. CASE Unread
  <2>1. packet \in Packet
    BY <1>3 DEF Unread, KeptPacket, TypeOK, Progress
  <2>2. packets[packet].start \in Nat /\ packets[packet].size \in Nat \ {0} /\ offset \in Nat
    BY <2>1, PacketNumbers DEF TypeOK
  <2>3. /\ packets[packet].start + offset = Len(got) /\ offset < packets[packet].size
        /\ packets[packet].start + packets[packet].size = NextStart
    BY <1>3 DEF Progress, Position
  <2>4. Len(got) < NextStart /\ NextStart \in Nat
    BY <2>2, <2>3
  <2> QED BY <1>1, <1>2, <2>4
<1>4. CASE ~Unread
  BY <1>1, <1>2, <1>4 DEF Progress, Position
<1> QED BY <1>1, <1>3, <1>4

\* What is received is a part of the stream, or the place in it stays.
LEMMA StreamInit == Init => Stream!Init
BY DEF Init, Stream!Init, Received, BytesInOrder

LEMMA StreamStep ==
  ASSUME IInv, IInv', [Next]_vars, (conn = "open" => Len(got) <= sent)'
  PROVE  [Stream!Next]_(Stream!vars)
<1> DEFINE streamVars == <<conn, sent, Received>>
<1>1. Received = Len(got) /\ Received' = Len(got')
  BY DEF IInv, Received
<1>2. CASE Connect
  <2>1. Received' = 0
    BY <1>1, <1>2 DEF Connect
  <2> QED BY <1>2, <2>1 DEF Connect, Stream!Next, Stream!Open
<1>3. CASE \/ ConnectFails \/ ReceiveFails \/ ReceiveNothing \/ ServerCloses \/ UNCHANGED vars
  BY <1>1, <1>3
  DEF ConnectFails, ReceiveFails, ReceiveNothing, ServerCloses, vars, networkVars, contextVars, Stream!vars
<1>4. CASE ReceivePart \/ ReceiveRestHttp \/ ReceiveRestMqtt
  <2>1. conn = "open" /\ UNCHANGED <<conn, sent>>
    BY <1>4 DEF ReceivePart, ReceiveRestHttp, ReceiveRestMqtt, networkVars
  <2>2. (KeptPacket \/ Waiting) /\ (Unread \/ ~KeptPacket)
    BY <1>4 DEF ReceivePart, ReceiveRestHttp, ReceiveRestMqtt, Unread
  <2>3. Left \in Nat \ {0}
    BY <2>1, <2>2, CurrentPacket
  <2>4. PICK n \in 1..Left : Copy(n)
    BY <1>4, <2>3 DEF ReceivePart, ReceiveRestHttp, ReceiveRestMqtt
  <2>5. Len(got') = Len(got) + n
    BY <2>1, <2>2, <2>4, CopyInOrder
  <2>6. /\ Len(got) \in Nat /\ sent \in Nat
        /\ Len(got') <= sent
    <3>1. conn' = "open" /\ sent' = sent
      BY <2>1
    <3>2. Len(got)' <= sent'
      BY <3>1
    <3> QED BY <2>1, <3>1, <3>2, ReceivedWasSent DEF IInv, TypeOK
  <2>7. Received' \in Received + 1..sent
    BY <1>1, <2>3, <2>5, <2>6
  <2> QED BY <2>1, <2>7 DEF Stream!Next, Stream!Read
<1>5. CASE Close
  BY <1>1, <1>5 DEF Close, networkVars, Stream!Next, Stream!Close
<1>6. CASE PacketArrives
  <2>1. PICK n \in 1..MaxSize : sent' = sent + n
    BY <1>6 DEF PacketArrives
  <2>2. sent' \in Nat /\ sent' > sent
    BY <2>1, WicedAssumption DEF WicedAssumption, IInv, TypeOK
  <2> QED BY <1>1, <1>6, <2>2 DEF PacketArrives, Stream!Next, Stream!Arrive
<1> QED BY <1>2, <1>3, <1>4, <1>5, <1>6 DEF Next, Receive

(***************************************************************************)
(* The context of a socket and its packets implement the stream of bytes   *)
(* that khc and the push task read, with either receive callback.          *)
(***************************************************************************)
THEOREM SocketIsStream == Spec => ImplementsStream
<1> DEFINE WasSent == conn = "open" => Len(got) <= sent
<1>1. IInv => WasSent
  BY ReceivedWasSent
<1>2. IInv /\ IInv' /\ WasSent' /\ [Next]_vars => [Stream!Next]_(Stream!vars)
  BY StreamStep
<1> HIDE DEF WasSent
<1> QED BY <1>1, <1>2, StreamInit, Inductive, PTL DEF Spec, ImplementsStream, Stream!Spec

=============================================================================
