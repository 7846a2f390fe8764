----------------------------- MODULE MqttProofs -----------------------------
(***************************************************************************)
(* What is proved of the push task, for every buffer, timeout, keep-alive  *)
(* interval and sequence of messages, and for sockets that deliver bytes   *)
(* late and in any pieces: its types, that the socket is paired with the   *)
(* states, that the counted time stays in bounds, and that no piece is     *)
(* stored past the end of the buffer.  And where the messages fit the      *)
(* buffer and come in time and in at most two pieces (Fits), still for     *)
(* every buffer and sequence of messages and for either answer of the      *)
(* socket at its end: the task reads what it expects, is subscribed when   *)
(* it waits, and delivers the messages as PushChannel promises.            *)
(***************************************************************************)
EXTENDS MqttPush, SequenceTheorems, TLAPS

\* Which handler makes which call, and what it has been promised to read.
Place ==
  /\ doing \in {"type", "length", "header"} =>
       taskState \in {"RECV_CONNACK", "RECV_SUBACK", "RECV_READY"}
  /\ doing = "remaining" =>
       /\ taskState \in {"RECV_CONNACK", "RECV_SUBACK", "RECV_MSG"}
       /\ received <= remaining /\ remaining <= MqttBufferSize
  /\ doing = "trash" => taskState \in {"RECV_READY", "RECV_MSG"}
  /\ doing \in {"ask", "run", "type"} => total = 0

\* The premise of ElapsedBounded, and the threshold it is about.
InRange == KeepAlive > RecvTimeout /\ KeepAlive * 1000 + MaxRound < UIntRange
Limit == (KeepAlive - RecvTimeout) * 1000

\* Waiting for a message starts below the threshold, and only what is left of
\* the round is added after that.
Timed ==
  InRange =>
    /\ elapsed <= Limit + MaxRound
    /\ taskState = "RECV_READY" /\ doing \in {"type", "length", "header", "trash"} =>
         elapsed <= Limit
    /\ taskState = "RECV_MSG" => elapsed <= Limit + RecvTimeout * 1000

TaskIInv == TypeOK /\ Place /\ SocketPaired /\ Timed

(***************************************************************************)
(* No piece of a message is stored past the end of the buffer, although    *)
(* pieces after the second are stored in the wrong place                   *)
(* (_mqtt_recv_remaining).                                                 *)
(***************************************************************************)
StoredInside == [][ReadRemaining => received + received' <= MqttBufferSize]_vars

-----------------------------------------------------------------------------
(* Bytes and numbers.                                                      *)

Messages ==
  {Published(id) : id \in DOMAIN Lengths}
  \cup {Message("CONNACK", ok, 2) : ok \in {0, 1}}
  \cup {Message("SUBACK", ok, 3) : ok \in {0, 1}}
  \cup {Message("PINGRESP", 0, 0)}

LEMMA MessageFields ==
  ASSUME NEW m \in Messages
  PROVE  m.type \in MTypes /\ m.length \in Nat
BY LengthsAssumption DEF Messages, Published, Message, MTypes

LEMMA MessageBytes ==
  ASSUME NEW m \in Messages
  PROVE  Bytes(m) \in Seq(ByteSet)
<1>1. m.length + 2 \in Nat
  BY MessageFields
<1>2. \A i \in 1..m.length + 2 : Bytes(m)[i] \in Range(Bytes(m))
  BY DEF Bytes, Range
<1>3. Range(Bytes(m)) \subseteq ByteSet
  BY DEF ByteSet, Messages
<1>4. Bytes(m) \in [1..m.length + 2 -> ByteSet]
  BY <1>1, <1>2, <1>3 DEF Bytes
<1> QED BY <1>1, <1>4

LEMMA ByteFields ==
  ASSUME NEW b \in ByteSet \cup {Zero}
  PROVE  TypeOf(b) \subseteq MTypes /\ LengthOf(b) \subseteq Nat
<1>1. CASE b = Zero
  BY <1>1, SizesAssumption DEF Zero, TypeOf, LengthOf, MaxLength
<1>2. CASE b \in ByteSet
  <2>1. PICK m \in Messages : b \in Range(Bytes(m))
    BY <1>2 DEF ByteSet, Messages
  <2>2. PICK i \in DOMAIN Bytes(m) : b = Bytes(m)[i]
    BY <2>1 DEF Range
  <2>3. b.msg = m
    BY <2>2 DEF Bytes
  <2> QED BY <2>3, MessageFields, SizesAssumption DEF TypeOf, LengthOf, MaxLength
<1> QED BY <1>1, <1>2

\* What cb_recv delivers is a beginning of what there is, as long as asked at most.
LEMMA OneDelivered ==
  ASSUME stream \in Seq(ByteSet),
         NEW data \in Delivered(1, FALSE)
  PROVE  /\ data \in Seq(ByteSet)
         /\ Len(data) = 0 \/ Len(data) <= 1
         /\ Len(data) <= Len(stream)
<1>1. CASE data = <<>>
  BY <1>1
<1>2. CASE data # <<>>
  <2>1. PICK k \in Nat : data = SubSeq(stream, 1, k) /\ k <= 1 /\ k <= Len(stream)
    BY <1>2 DEF Delivered
  <2> QED BY <2>1
<1> QED BY <1>1, <1>2

LEMMA RestDelivered ==
  ASSUME NEW n \in Int, stream \in Seq(ByteSet),
         NEW data \in Delivered(n, total > 0)
  PROVE  /\ data \in Seq(ByteSet)
         /\ Len(data) = 0 \/ Len(data) <= n
         /\ Len(data) <= Len(stream)
<1>1. CASE data = <<>>
  BY <1>1
<1>2. CASE data # <<>>
  <2>1. PICK k \in Nat : data = SubSeq(stream, 1, k) /\ k <= n /\ k <= Len(stream)
    BY <1>2 DEF Delivered
  <2> QED BY <2>1
<1> QED BY <1>1, <1>2

LEMMA ConsumedBytes ==
  ASSUME stream \in Seq(ByteSet), NEW data \in Seq(ByteSet), Len(data) <= Len(stream),
         Consume(data)
  PROVE  stream' \in Seq(ByteSet)
BY DEF Consume

LEMMA Prefix ==
  ASSUME NEW S, NEW n \in Nat, NEW f \in [1..n -> S], NEW k \in 1..n
  PROVE  SubSeq(f, 1, k) \in Seq(S)
<1>1. f \in Seq(S) /\ Len(f) = n
  OBVIOUS
<1>2. SubSeq(f, 1, k) = [i \in 1..k |-> f[i]]
  BY <1>1
<1> QED BY <1>2

LEMMA Wrapped ==
  ASSUME NEW n \in Int
  PROVE  /\ UInt(n) \in 0..UIntRange - 1
         /\ 0 <= n /\ n < UIntRange => UInt(n) = n
BY TimesAssumption DEF UInt, MSG_SEND_TIME

LEMMA ClearedType == Cleared \in [1..MqttBufferSize -> ByteSet \cup {Zero}]
BY DEF Cleared

LEMMA Elapses ==
  ASSUME TypeOK, NEW ms \in Nat, ElapsedBy(ms)
  PROVE  elapsed' \in 0..UIntRange - 1
<1>1. elapsed + ms \in Int
  BY TimesAssumption DEF TypeOK
<1> QED BY <1>1, Wrapped DEF ElapsedBy

LEMMA NoBytes == <<>> \in Seq(ByteSet) /\ <<>> \in Seq({"CONNECT", "SUBSCRIBE", "PINGREQ"})
OBVIOUS

\* After a return the locals are what they are initialised to.
LEMMA Returned ==
  ASSUME TypeOK, NEW s \in TaskStates, Return(s)
  PROVE  /\ taskState' = s /\ doing' = "ask"
         /\ mtype' \in MTypes /\ received' \in Nat /\ total' \in Nat /\ remaining' \in Nat
         /\ buff' \in [1..MqttBufferSize -> ByteSet \cup {Zero}]
BY ClearedType DEF TypeOK, Return, MTypes

-----------------------------------------------------------------------------
(* Types.                                                                  *)

LEMMA LoopTyped ==
  ASSUME TypeOK, AskContinue \/ TaskExit \/ RecvAck
  PROVE  TypeOK'
BY DEF TypeOK, AskContinue, TaskExit, RecvAck, Call, EnvUnchanged, readVars, brokerVars,
   TaskStates, Connected

LEMMA SentTyped ==
  ASSUME TypeOK, NEW packet \in {"CONNECT", "SUBSCRIBE", "PINGREQ"}, Sent(packet)
  PROVE  owed' \in Seq({"CONNECT", "SUBSCRIBE", "PINGREQ"})
BY DEF TypeOK, Sent

LEMMA HandshakeTyped ==
  ASSUME TypeOK,
         \/ InstallPush \/ GetEndpoint \/ SockConnected \/ SockConnectFails
         \/ SendConnect \/ ConnectTooLong \/ SendSubscribe \/ HandshakeSendFails \/ Reconnect
  PROVE  TypeOK'
<1> USE DEF TypeOK, TaskStates, Connected, EnvUnchanged, brokerVars, Continue, Fail
<1>1. CASE InstallPush \/ GetEndpoint \/ ConnectTooLong
  BY <1>1, Returned DEF InstallPush, GetEndpoint, ConnectTooLong
<1>2. CASE SockConnected \/ Reconnect
  BY <1>2, Returned, NoBytes DEF SockConnected, Reconnect
<1>3. CASE SockConnectFails \/ HandshakeSendFails
  BY <1>3, Returned DEF SockConnectFails, HandshakeSendFails, SendFails
<1>4. CASE SendConnect \/ SendSubscribe
  <2>1. PICK packet \in {"CONNECT", "SUBSCRIBE"}, next \in {"RECV_CONNACK", "RECV_SUBACK"} :
          Continue(next) /\ Sent(packet) /\ UNCHANGED elapsed
    BY <1>4 DEF SendConnect, SendSubscribe, SendPacket
  <2> QED BY <2>1, Returned, SentTyped DEF Sent
<1> QED BY <1>1, <1>2, <1>3, <1>4

LEMMA ReceivingTyped ==
  ASSUME TypeOK, ReadType \/ ReadLength \/ ReadRemaining \/ ReadTrash
  PROVE  TypeOK'
<1> USE DEF EnvUnchanged, brokerVars, Call, taskVars
<1>1. CASE ReadType
  <2>1. PICK data \in Delivered(1, FALSE) :
          /\ Consume(data)
          /\ mtype' \in (IF data = <<>> THEN {"other"} ELSE TypeOf(data[1]))
    BY <1>1 DEF ReadType
  <2>0. data \in Seq(ByteSet) /\ Len(data) <= Len(stream)
    BY <2>1, OneDelivered DEF TypeOK
  <2>2. data \in Seq(ByteSet) /\ stream' \in Seq(ByteSet)
    BY <2>0, <2>1, ConsumedBytes DEF TypeOK
  <2>3. data # <<>> => data[1] \in ByteSet
    BY <2>2
  <2>4. mtype' \in MTypes
    BY <2>1, <2>3, ByteFields DEF MTypes
  <2> QED BY <1>1, <2>2, <2>4 DEF ReadType, TypeOK
<1>2. CASE ReadLength
  <2>1. PICK data \in Delivered(1, FALSE) :
          /\ Consume(data)
          /\ \/ doing' = "header" /\ remaining' \in DecodedLength(data) /\ UNCHANGED total
             \/ doing' = "length" /\ remaining' = remaining /\ total' = total + 1
          /\ taskState' = taskState /\ error' = error
    BY <1>2 DEF ReadLength
  <2>0. data \in Seq(ByteSet) /\ Len(data) <= Len(stream)
    BY <2>1, OneDelivered DEF TypeOK
  <2>2. data \in Seq(ByteSet) /\ stream' \in Seq(ByteSet)
    BY <2>0, <2>1, ConsumedBytes DEF TypeOK
  <2>3. data # <<>> => data[1] \in ByteSet
    BY <2>2
  <2>4. DecodedLength(data) \subseteq Nat
    BY <2>3, ByteFields, SizesAssumption DEF DecodedLength, MaxLength
  <2>5. remaining' \in Nat /\ total' \in Nat /\ doing' \in {"header", "length"}
    BY <2>1, <2>4 DEF TypeOK
  <2> QED BY <1>2, <2>1, <2>2, <2>5 DEF ReadLength, TypeOK
<1>3. CASE ReadRemaining
  <2>1. PICK data \in Delivered(remaining - received, total > 0) :
          /\ Consume(data)
          /\ buff' = [i \in DOMAIN buff |->
               IF i \in received + 1..received + Len(data) THEN data[i - received] ELSE buff[i]]
          /\ received' = Len(data)
          /\ total' = total + Len(data)
    BY <1>3 DEF ReadRemaining
  <2>0. data \in Seq(ByteSet) /\ Len(data) <= Len(stream)
    BY <2>1, RestDelivered DEF TypeOK
  <2>2. data \in Seq(ByteSet) /\ stream' \in Seq(ByteSet)
    BY <2>0, <2>1, ConsumedBytes DEF TypeOK
  <2>3. \A i \in received + 1..received + Len(data) : data[i - received] \in ByteSet
    BY <2>2 DEF TypeOK
  <2>4. buff' \in [1..MqttBufferSize -> ByteSet \cup {Zero}]
    BY <2>1, <2>3 DEF TypeOK
  <2> QED BY <1>3, <2>1, <2>2, <2>4 DEF ReadRemaining, TypeOK
<1>4. CASE ReadTrash
  <2>1. PICK data \in Delivered(TrashSize, total > 0) :
          Consume(data) /\ received' = Len(data) /\ total' = total + Len(data)
    BY <1>4 DEF ReadTrash
  <2>0. data \in Seq(ByteSet) /\ Len(data) <= Len(stream)
    BY <2>1, SizesAssumption, RestDelivered DEF TypeOK
  <2>2. stream' \in Seq(ByteSet)
    BY <2>0, <2>1, ConsumedBytes DEF TypeOK
  <2> QED BY <1>4, <2>1, <2>2 DEF ReadTrash, TypeOK
<1> QED BY <1>1, <1>2, <1>3, <1>4

LEMMA HandlersTyped ==
  ASSUME TypeOK,
         \/ RecvReady \/ HeaderFails \/ AckHeader \/ ReadyHeader \/ RecvMsg \/ ReadFails
         \/ AckRead \/ TrashRead
  PROVE  TypeOK'
<1> USE DEF TypeOK, TaskStates, Connected, EnvUnchanged, brokerVars, Continue, ReconnectNow
<1>1. CASE RecvReady
  BY <1>1, Returned DEF RecvReady, Call, readVars
<1>2. CASE HeaderFails
  <2>1. RecvTimeout * 1000 + WAIT_MS \in Nat
    BY TimesAssumption DEF WAIT_MS
  <2> QED BY <1>2, <2>1, Returned, Elapses DEF HeaderFails
<1>3. CASE AckHeader
  BY <1>3, Returned, ClearedType DEF AckHeader, Call
<1>4. CASE ReadyHeader
  <2>1. RecvTimeout * 1000 \in Nat /\ ARRIVED_MSG_READ_TIME \in Nat
    BY TimesAssumption DEF ARRIVED_MSG_READ_TIME
  <2> QED BY <1>4, <2>1, Returned, Elapses DEF ReadyHeader, Call
<1>5. CASE RecvMsg
  BY <1>5, ClearedType DEF RecvMsg, Call
<1>6. CASE ReadFails
  BY <1>6, Returned, TimesAssumption DEF ReadFails
<1>7. CASE AckRead
  BY <1>7, Returned DEF AckRead
<1>8. CASE TrashRead
  <2>1. ARRIVED_MSG_READ_TIME + WAIT_MS \in Nat
    BY DEF ARRIVED_MSG_READ_TIME, WAIT_MS
  <2> QED BY <1>8, <2>1, Returned, Elapses DEF TrashRead
<1> QED BY <1>1, <1>2, <1>3, <1>4, <1>5, <1>6, <1>7, <1>8

LEMMA MessageTyped ==
  ASSUME TypeOK, Place, MsgRead
  PROVE  TypeOK'
<1> USE DEF TypeOK, TaskStates, Connected, EnvUnchanged, brokerVars, Continue
<1>1. remaining \in 1..MqttBufferSize
  BY SizesAssumption DEF Place, MsgRead, ReadComplete
<1>2. SubSeq(buff, 1, remaining) \in Seq(ByteSet \cup {Zero})
  BY <1>1, Prefix, SizesAssumption
<1>3. ARRIVED_MSG_READ_TIME \in Nat
  BY DEF ARRIVED_MSG_READ_TIME
<1> QED BY <1>2, <1>3, Returned, Elapses DEF MsgRead

LEMMA KeepAliveTyped ==
  ASSUME TypeOK, SendPingreq \/ PingreqFails
  PROVE  TypeOK'
<1> USE DEF TypeOK, TaskStates, Connected, EnvUnchanged, brokerVars, Continue, ReconnectNow
<1>1. CASE SendPingreq
  BY <1>1, Returned, SentTyped, TimesAssumption DEF SendPingreq, Sent, MSG_SEND_TIME
<1>2. CASE PingreqFails
  BY <1>2, Returned, TimesAssumption DEF PingreqFails
<1> QED BY <1>1, <1>2

LEMMA BrokerTyped ==
  ASSUME TypeOK, Environment
  PROVE  TypeOK'
<1> USE DEF TypeOK, taskVars, readVars, brokerVars, TaskUnchanged
<1>1. CASE AppStops
  BY <1>1 DEF AppStops
<1>2. CASE ConnectionLost
  BY <1>2 DEF ConnectionLost
<1>3. ASSUME NEW m \in Messages, Answer(m)
      PROVE  stream' \in Seq(ByteSet)
  BY <1>3, MessageBytes DEF Answer
<1>4. CASE BrokerAnswers
  <2>1. stream' \in Seq(ByteSet)
    BY <1>3, <1>4 DEF BrokerAnswers, Messages
  <2>2. owed' \in Seq({"CONNECT", "SUBSCRIBE", "PINGREQ"}) /\ subscribed' \in BOOLEAN
    BY <1>4, HeadTailProperties DEF BrokerAnswers
  <2> QED BY <1>4, <2>1, <2>2 DEF BrokerAnswers
<1>5. CASE BrokerPublishes
  <2>1. published' \in 1..Len(Lengths)
    BY <1>5, LengthsAssumption DEF BrokerPublishes
  <2>2. Published(published') \in Messages
    BY <2>1, LengthsAssumption DEF Messages
  <2>3. stream' \in Seq(ByteSet)
    BY <1>3, <1>5, <2>2 DEF BrokerPublishes
  <2> QED BY <1>5, <2>1, <2>3, LengthsAssumption DEF BrokerPublishes
<1> QED BY <1>1, <1>2, <1>4, <1>5 DEF Environment

LEMMA TypesKept ==
  ASSUME TypeOK, Place, Next
  PROVE  TypeOK'
BY LoopTyped, HandshakeTyped, ReceivingTyped, HandlersTyped, MessageTyped, KeepAliveTyped,
   BrokerTyped DEF Next, Task

-----------------------------------------------------------------------------
(* Places and the socket.                                                  *)

LEMMA PlaceKept ==
  ASSUME TypeOK, Place, SocketPaired, Next
  PROVE  Place' /\ SocketPaired'
<1> USE DEF Place, SocketPaired, Ended, Connected, EnvUnchanged, Continue, Fail, Return, Call, Runs
<1>1. CASE AskContinue \/ TaskExit \/ RecvAck
  BY <1>1 DEF AskContinue, TaskExit, RecvAck, readVars
<1>2. CASE \/ InstallPush \/ GetEndpoint \/ SockConnected \/ SockConnectFails
           \/ ConnectTooLong \/ HandshakeSendFails \/ Reconnect
  BY <1>2 DEF InstallPush, GetEndpoint, SockConnected, SockConnectFails, ConnectTooLong,
     HandshakeSendFails, SendFails, Reconnect
<1>3. CASE SendConnect \/ SendSubscribe \/ SendPingreq
  BY <1>3 DEF SendConnect, SendSubscribe, SendPacket, SendPingreq, Sent
<1>4. CASE RecvReady \/ HeaderFails \/ PingreqFails
  BY <1>4 DEF RecvReady, HeaderFails, PingreqFails, ReconnectNow, readVars
<1>5. CASE AckHeader
  BY <1>5, SizesAssumption DEF AckHeader
<1>6. CASE ReadyHeader \/ RecvMsg \/ ReadFails
  BY <1>6, SizesAssumption DEF ReadyHeader, RecvMsg, ReadFails, ReconnectNow, TypeOK
<1>7. CASE ReadType \/ ReadLength \/ ReadTrash
  BY <1>7 DEF ReadType, ReadLength, ReadTrash, taskVars
<1>8. CASE ReadRemaining
  <2>1. PICK data \in Delivered(remaining - received, total > 0) : received' = Len(data)
    BY <1>8 DEF ReadRemaining
  <2>2. remaining - received \in Nat
    BY <1>8 DEF ReadRemaining, TypeOK
  <2>3. received' <= remaining
    BY <2>1, <2>2, RestDelivered DEF TypeOK
  <2> QED BY <1>8, <2>3 DEF ReadRemaining, taskVars
<1>9. CASE AckRead
  BY <1>9 DEF AckRead, ReadComplete
<1>10. CASE MsgRead \/ TrashRead
  BY <1>10 DEF MsgRead, TrashRead, ReadComplete
<1>11. CASE Environment
  BY <1>11 DEF Environment, AppStops, BrokerAnswers, BrokerPublishes, ConnectionLost,
     TaskUnchanged, taskVars, readVars
<1> QED BY <1>1, <1>2, <1>3, <1>4, <1>5, <1>6, <1>7, <1>8, <1>9, <1>10, <1>11 DEF Next, Task

-----------------------------------------------------------------------------
(* Time.                                                                   *)

LEMMA NoWrap ==
  ASSUME InRange, TypeOK, NEW ms \in Nat, ElapsedBy(ms), elapsed + ms <= Limit + MaxRound
  PROVE  elapsed' = elapsed + ms
<1>1. elapsed + ms \in Int /\ 0 <= elapsed + ms /\ elapsed + ms < UIntRange
  BY TimesAssumption DEF InRange, TypeOK, Limit, MaxRound, ARRIVED_MSG_READ_TIME, WAIT_MS
<1> QED BY <1>1, Wrapped DEF ElapsedBy

LEMMA ThresholdIsLimit ==
  ASSUME InRange
  PROVE  Threshold = Limit
<1>1. Limit \in Int /\ 0 <= Limit /\ Limit < UIntRange
  BY TimesAssumption DEF InRange, Limit, MaxRound, ARRIVED_MSG_READ_TIME, WAIT_MS
<1> QED BY <1>1, Wrapped DEF Threshold, Limit

LEMMA TimedKept ==
  ASSUME TypeOK, Place, Timed, Next
  PROVE  Timed'
<1> SUFFICES ASSUME InRange PROVE Timed'
  BY DEF Timed, InRange
<1>0. /\ RecvTimeout \in Nat /\ Limit \in Nat /\ MaxRound \in Nat /\ elapsed \in Nat
      /\ MaxRound = RecvTimeout * 1000 + 1500
  BY TimesAssumption DEF InRange, Limit, MaxRound, ARRIVED_MSG_READ_TIME, WAIT_MS, TypeOK
<1>t. /\ elapsed <= Limit + MaxRound
      /\ taskState = "RECV_READY" /\ doing \in {"type", "length", "header", "trash"} =>
           elapsed <= Limit
      /\ taskState = "RECV_MSG" => elapsed <= Limit + RecvTimeout * 1000
  BY DEF Timed
<1> USE <1>0, <1>t DEF Continue, Fail, Return, Call, EnvUnchanged
<1>1. CASE AskContinue \/ TaskExit \/ RecvAck
  BY <1>1 DEF AskContinue, TaskExit, RecvAck, Runs, Timed
<1>2. CASE \/ InstallPush \/ GetEndpoint \/ SockConnected \/ SockConnectFails
           \/ ConnectTooLong \/ HandshakeSendFails \/ Reconnect \/ SendConnect \/ SendSubscribe
  BY <1>2 DEF InstallPush, GetEndpoint, SockConnected, SockConnectFails, ConnectTooLong,
     HandshakeSendFails, SendFails, Reconnect, SendConnect, SendSubscribe, SendPacket, Timed
<1>3. CASE SendPingreq \/ PingreqFails
  BY <1>3 DEF SendPingreq, PingreqFails, ReconnectNow, MSG_SEND_TIME, Timed
<1>4. CASE RecvReady
  BY <1>4, ThresholdIsLimit DEF RecvReady, Timed
<1>5. CASE HeaderFails
  <2>1. CASE taskState = "RECV_READY"
    <3>1. ElapsedBy(RecvTimeout * 1000 + WAIT_MS) /\ elapsed <= Limit
      BY <1>5, <2>1 DEF HeaderFails
    <3>2. elapsed' = elapsed + RecvTimeout * 1000 + WAIT_MS
      BY <3>1, NoWrap DEF WAIT_MS
    <3> QED BY <1>5, <2>1, <3>1, <3>2 DEF HeaderFails, Timed, WAIT_MS
  <2>2. CASE taskState # "RECV_READY"
    BY <1>5, <2>2 DEF HeaderFails, Timed
  <2> QED BY <2>1, <2>2
<1>6. CASE AckHeader \/ AckRead
  BY <1>6 DEF AckHeader, AckRead, Timed
<1>7. CASE ReadyHeader
  <2>1. elapsed <= Limit
    BY <1>7 DEF ReadyHeader
  <2>2. CASE mtype = "PUBLISH"
    <3>1. elapsed' = elapsed + RecvTimeout * 1000
      BY <1>7, <2>1, <2>2, NoWrap DEF ReadyHeader
    <3> QED BY <1>7, <2>1, <2>2, <3>1 DEF ReadyHeader, Timed
  <2>3. CASE mtype = "PINGRESP"
    <3>1. elapsed' = elapsed + ARRIVED_MSG_READ_TIME
      BY <1>7, <2>1, <2>3, NoWrap DEF ReadyHeader, ARRIVED_MSG_READ_TIME
    <3> QED BY <1>7, <2>1, <2>3, <3>1 DEF ReadyHeader, Timed, ARRIVED_MSG_READ_TIME
  <2>4. CASE mtype \notin {"PUBLISH", "PINGRESP"}
    BY <1>7, <2>1, <2>4 DEF ReadyHeader, Timed
  <2> QED BY <2>2, <2>3, <2>4
<1>8. CASE RecvMsg \/ ReadType \/ ReadLength \/ ReadRemaining \/ ReadTrash
  <2>1. CASE RecvMsg
    BY <2>1 DEF RecvMsg, Runs, Timed
  <2>2. CASE ReadType \/ ReadLength
    <3>1. /\ taskState' = taskState /\ elapsed' = elapsed
          /\ doing \in {"type", "length"} /\ doing' \in {"length", "header"}
      <4>1. CASE ReadType
        BY <4>1 DEF ReadType
      <4>2. CASE ReadLength
        <5>1. doing = "length" /\ elapsed' = elapsed
          BY <4>2 DEF ReadLength
        <5>2. \/ doing' = "header" /\ taskState' = taskState
              \/ doing' = doing /\ taskState' = taskState
          BY <4>2 DEF ReadLength, taskVars
        <5> QED BY <5>1, <5>2
      <4> QED BY <2>2, <4>1, <4>2
    <3> QED BY <3>1 DEF Timed
  <2>3. CASE ReadRemaining \/ ReadTrash
    BY <2>3 DEF ReadRemaining, ReadTrash, taskVars, Timed
  <2> QED BY <1>8, <2>1, <2>2, <2>3
<1>9. CASE ReadFails
  BY <1>9 DEF ReadFails, ReconnectNow, Timed
<1>10. CASE MsgRead
  <2>1. elapsed <= Limit + RecvTimeout * 1000 /\ ElapsedBy(ARRIVED_MSG_READ_TIME)
    BY <1>10 DEF MsgRead
  <2>2. elapsed' = elapsed + ARRIVED_MSG_READ_TIME
    BY <2>1, NoWrap DEF ARRIVED_MSG_READ_TIME
  <2> QED BY <1>10, <2>1, <2>2 DEF MsgRead, Timed, ARRIVED_MSG_READ_TIME
<1>11. CASE TrashRead
  <2>1. CASE taskState = "RECV_MSG"
    <3>1. elapsed <= Limit + RecvTimeout * 1000 /\ ElapsedBy(ARRIVED_MSG_READ_TIME + WAIT_MS)
      BY <1>11, <2>1 DEF TrashRead
    <3>2. elapsed' = elapsed + ARRIVED_MSG_READ_TIME + WAIT_MS
      BY <3>1, NoWrap DEF ARRIVED_MSG_READ_TIME, WAIT_MS
    <3> QED BY <1>11, <3>1, <3>2 DEF TrashRead, Timed, ARRIVED_MSG_READ_TIME, WAIT_MS
  <2>2. CASE taskState # "RECV_MSG"
    BY <1>11, <2>2 DEF TrashRead, Timed
  <2> QED BY <2>1, <2>2
<1>12. CASE Environment
  BY <1>12 DEF Environment, AppStops, BrokerAnswers, BrokerPublishes, ConnectionLost,
     TaskUnchanged, taskVars, readVars, Timed
<1> QED BY <1>1, <1>2, <1>3, <1>4, <1>5, <1>6, <1>7, <1>8, <1>9, <1>10, <1>11, <1>12
        DEF Next, Task

-----------------------------------------------------------------------------

LEMMA TaskInitially == Init => TaskIInv
<1> SUFFICES ASSUME Init PROVE TaskIInv
  OBVIOUS
<1>1. TypeOK
  <2>1. <<>> \in Seq(ByteSet \cup {Zero}) /\ 0 \in 0..UIntRange - 1 /\ 0 \in 0..Len(Lengths)
    BY TimesAssumption, LengthsAssumption DEF MSG_SEND_TIME
  <2> QED BY <2>1, NoBytes, ClearedType DEF Init, TypeOK, TaskStates, Connected, MTypes
<1>2. Place /\ SocketPaired
  BY DEF Init, Place, SocketPaired, Ended, Connected
<1>3. Timed
  BY TimesAssumption DEF Init, Timed, InRange, Limit, MaxRound, ARRIVED_MSG_READ_TIME, WAIT_MS
<1> QED BY <1>1, <1>2, <1>3 DEF TaskIInv

LEMMA TaskStutters ==
  ASSUME TaskIInv, UNCHANGED vars
  PROVE  TaskIInv'
BY DEF TaskIInv, TypeOK, Place, SocketPaired, Ended, Timed, vars, taskVars, readVars, brokerVars

\* What everything below follows from.
THEOREM TaskInductive == Spec => []TaskIInv
<1>1. TaskIInv /\ [Next]_vars => TaskIInv'
  BY TypesKept, PlaceKept, TimedKept, TaskStutters DEF TaskIInv
<1> QED BY <1>1, TaskInitially, PTL DEF Spec

\* The types of the task's state (kii_mqtt_task.c), elapsed_time_ms in the
\* range of an unsigned int and the bytes pushed among those sent.
THEOREM TaskTypeCorrect == Spec => []TypeOK
BY TaskInductive, PTL DEF TaskIInv

\* Whatever fails, a connection is used only while there is one, and none is
\* made while another is open (mqtt_start_task and its handlers).
THEOREM SocketAlwaysPaired == Spec => []SocketPaired
BY TaskInductive, PTL DEF TaskIInv

\* For every keep-alive interval above the timeout and in range, the time
\* counted never wraps around (_mqtt_state_recv_ready, _mqtt_state_recv_msg).
THEOREM ElapsedAlwaysBounded == Spec => []ElapsedBounded
<1>1. TaskIInv => ElapsedBounded
  BY DEF TaskIInv, Timed, InRange, Limit, ElapsedBounded
<1> QED BY <1>1, TaskInductive, PTL

\* Pieces stored in the wrong place still end inside the buffer
\* (_mqtt_recv_remaining stores at buff + received).
THEOREM PiecesStoredInside == Spec => StoredInside
<1>1. TaskIInv /\ ReadRemaining => received + received' <= MqttBufferSize
  <2> SUFFICES ASSUME TaskIInv, ReadRemaining PROVE received + received' <= MqttBufferSize
    OBVIOUS
  <2>1. PICK data \in Delivered(remaining - received, total > 0) : received' = Len(data)
    BY DEF ReadRemaining
  <2>2. remaining - received \in Nat /\ remaining <= MqttBufferSize /\ stream \in Seq(ByteSet)
    BY DEF ReadRemaining, TaskIInv, TypeOK, Place
  <2>3. data \in Seq(ByteSet) /\ (Len(data) = 0 \/ Len(data) <= remaining - received)
    BY <2>2, RestDelivered
  <2> QED BY <2>1, <2>2, <2>3, SizesAssumption DEF TaskIInv, TypeOK
<1> QED BY <1>1, TaskInductive, PTL DEF Spec, StoredInside

-----------------------------------------------------------------------------
(* What the task reads when messages fit.                                  *)

\* The premise of what is proved below: a receive does not time out in the middle
\* of a message, no message comes in more than two pieces, and each message fits.
\* The runs MqttPieces and MqttTrash show what happens without the last two.
Fits ==
  /\ ~LateBytes /\ ~ManyPieces
  /\ \A id \in 1..Len(Lengths) : Lengths[id] <= MqttBufferSize

\* The bytes of its message that come after a byte.
Rest(b) == b.msg.length + 2 - b.at
ByteOf(m, i) == [msg |-> m, at |-> i]
Publication(b) == b.msg.type = "PUBLISH"

\* Every byte has its message around it, but for what has been read already.
Whole(s) ==
  \A i \in 1..Len(s) :
    /\ i + Rest(s[i]) <= Len(s)
    /\ \A j \in 1..Len(s) :
         s[i].at + (j - i) \in 1..s[i].msg.length + 2 =>
           s[j] = ByteOf(s[i].msg, s[i].at + (j - i))

\* What is still to be read was published, after what has been delivered and in
\* the order in which it is read.
InOrder ==
  \A i \in 1..Len(stream) : Publication(stream[i]) =>
    /\ stream[i].msg.id <= published
    /\ pushed # <<>> => pushed[1].msg.id < stream[i].msg.id
    /\ \A j \in 1..Len(stream) :
         Publication(stream[j]) /\ j > i + Rest(stream[i]) =>
           stream[i].msg.id < stream[j].msg.id

\* The handlers that have not read anything of the next message.
Early == doing \in {"ask", "run", "type"}

Acks == {"RECV_CONNACK", "RECV_SUBACK"}
Receiving == {"RECV_READY", "RECV_MSG", "SEND_PINGREQ"}
Wanted == IF taskState = "RECV_MSG" THEN "PUBLISH" ELSE Expected

\* What the broker can have sent, and be about to send, in each state.
Expecting ==
  /\ taskState \in {"SEND_CONNECT", "SEND_SUBSCRIBE"} =>
       stream = <<>> /\ owed = <<>> /\ ~subscribed
  /\ taskState \in Acks =>
       /\ owed # <<>> =>
            /\ owed = <<IF taskState = "RECV_CONNACK" THEN "CONNECT" ELSE "SUBSCRIBE">>
            /\ stream = <<>> /\ ~subscribed
            /\ Early \/ (lost /\ mtype = "other" /\ doing \in {"length", "header"})
       /\ taskState = "RECV_CONNACK" => ~subscribed
       /\ \A i \in 1..Len(stream) :
            \/ /\ stream[i].msg.type = Expected
               /\ IF Early THEN i <= stream[i].at ELSE i < stream[i].at
               /\ Expected = "SUBACK" /\ stream[i].msg.id = 1 => subscribed
            \/ taskState = "RECV_SUBACK" /\ Publication(stream[i])
  /\ taskState \in Receiving =>
       /\ subscribed
       /\ \A i \in 1..Len(owed) : owed[i] = "PINGREQ"
       /\ \A i \in 1..Len(stream) : stream[i].msg.type \in {"PUBLISH", "PINGRESP"}

AtStart == stream = <<>> \/ stream[1].at = 1
NextIs(i) == stream # <<>> /\ stream[1].at = i
NoMore == stream = <<>> /\ lost /\ mtype = "other"

\* Where in a message each handler reads.
Reading ==
  /\ Early /\ taskState \in Acks \cup {"RECV_READY", "SEND_PINGREQ"} => AtStart
  /\ doing = "length" => total = 0 /\ (NoMore \/ (NextIs(2) /\ mtype = stream[1].msg.type))
  /\ doing = "header" =>
       \/ NoMore /\ remaining = 0
       \/ AtStart /\ mtype = "PINGRESP"
       \/ NextIs(3) /\ mtype = stream[1].msg.type /\ remaining = stream[1].msg.length
  /\ taskState = "RECV_MSG" /\ Early =>
       NextIs(3) /\ Publication(stream[1]) /\ remaining = stream[1].msg.length
  /\ doing = "trash" => remaining = 0

\* What is in the buffer when total bytes of a message have been read.
Buffered(m) ==
  /\ m.type = Wanted /\ m.length = remaining
  /\ total <= remaining
  /\ total < remaining => received = total /\ stream # <<>> /\ stream[1] = ByteOf(m, total + 3)
  /\ total = remaining => AtStart
  /\ \A i \in 1..total : buff[i] = ByteOf(m, i + 2)
  /\ m.type = "SUBACK" /\ m.id = 1 => subscribed
  /\ m.type = "PUBLISH" =>
       /\ m.id <= published
       /\ pushed # <<>> => pushed[1].msg.id < m.id
       /\ \A i \in 1..Len(stream) :
            Publication(stream[i]) /\ i > remaining - total => m.id < stream[i].msg.id

Buffering == doing = "remaining" => \E m \in Messages : Buffered(m)

PushIInv ==
  Whole(stream) /\ InOrder /\ Expecting /\ Reading /\ Buffering /\ PushFaithful
-----------------------------------------------------------------------------

LEMMA MessageKinds ==
  ASSUME NEW m \in Messages
  PROVE  /\ m.length \in Nat /\ m.id \in Nat
         /\ \/ m.type = "PUBLISH" /\ m.id \in 1..Len(Lengths) /\ m = Published(m.id)
               /\ m.length = Lengths[m.id] /\ m.length > 0
            \/ m.type = "CONNACK" /\ m.length = 2 /\ m.id \in {0, 1}
            \/ m.type = "SUBACK" /\ m.length = 3 /\ m.id \in {0, 1}
            \/ m.type = "PINGRESP" /\ m.length = 0 /\ m.id = 0
<1>1. CASE \E id \in DOMAIN Lengths : m = Published(id)
  <2>1. PICK id \in 1..Len(Lengths) : m = Published(id)
    BY <1>1, LengthsAssumption
  <2>2. Lengths[id] \in Nat \ {0} /\ id \in Nat
    BY LengthsAssumption
  <2> QED BY <2>1, <2>2 DEF Published, Message
<1>2. CASE ~\E id \in DOMAIN Lengths : m = Published(id)
  BY <1>2 DEF Messages, Message
<1> QED BY <1>1, <1>2

LEMMA ByteShape ==
  ASSUME NEW b \in ByteSet
  PROVE  /\ b.msg \in Messages /\ b.at \in 1..b.msg.length + 2
         /\ b = ByteOf(b.msg, b.at)
         /\ b.msg.length \in Nat /\ Rest(b) \in Nat
<1>1. PICK m \in Messages : b \in Range(Bytes(m))
  BY DEF ByteSet, Messages
<1>2. PICK i \in 1..m.length + 2 : b = Bytes(m)[i]
  BY <1>1 DEF Range, Bytes
<1>3. b = [msg |-> m, at |-> i]
  BY <1>2 DEF Bytes
<1>4. m.length \in Nat
  BY MessageKinds
<1> QED BY <1>3, <1>4 DEF ByteOf, Rest

LEMMA WholeDropped ==
  ASSUME NEW s \in Seq(ByteSet), Whole(s), NEW k \in 0..Len(s)
  PROVE  Whole(SubSeq(s, k + 1, Len(s)))
<1> DEFINE t == SubSeq(s, k + 1, Len(s))
<1>1. t \in Seq(ByteSet) /\ Len(t) = Len(s) - k /\ \A i \in 1..Len(t) : t[i] = s[i + k]
  OBVIOUS
<1> HIDE DEF t
<1>2. \A i \in 1..Len(t) : i + k \in 1..Len(s)
  BY <1>1
<1>3. ASSUME NEW i \in 1..Len(t) PROVE i + Rest(t[i]) <= Len(t)
  <2>1. i + k + Rest(s[i + k]) <= Len(s)
    BY <1>2 DEF Whole
  <2>2. s[i + k] \in ByteSet
    BY <1>2
  <2>3. Rest(s[i + k]) \in Nat
    BY <2>2, ByteShape
  <2> QED BY <1>1, <2>1, <2>3
<1>4. ASSUME NEW i \in 1..Len(t), NEW j \in 1..Len(t),
             t[i].at + (j - i) \in 1..t[i].msg.length + 2
      PROVE  t[j] = ByteOf(t[i].msg, t[i].at + (j - i))
  <2>1. /\ t[i] = s[i + k] /\ t[j] = s[j + k] /\ (j + k) - (i + k) = j - i
        /\ i + k \in 1..Len(s) /\ j + k \in 1..Len(s)
    BY <1>1, <1>2
  <2> QED BY <1>4, <2>1 DEF Whole
<1> QED BY <1>3, <1>4 DEF Whole, t

LEMMA PastTheEnd ==
  ASSUME NEW length \in Int, NEW at \in Int, NEW i \in Int, NEW j \in Int, NEW n \in Int,
         i + (length + 2 - at) <= n, j > n
  PROVE  at + (j - i) > length + 2
OBVIOUS

LEMMA WholeAppended ==
  ASSUME NEW s \in Seq(ByteSet), Whole(s), NEW m \in Messages
  PROVE  Whole(s \o Bytes(m))
<1> DEFINE t == s \o Bytes(m)
           n == Len(s)
<1>0. m.length \in Nat /\ n \in Nat
  BY MessageKinds
<1>1. Bytes(m) \in Seq(ByteSet) /\ Len(Bytes(m)) = m.length + 2
  BY <1>0, MessageBytes DEF Bytes
<1>2. /\ Len(t) = n + m.length + 2
      /\ \A i \in 1..n : t[i] = s[i]
      /\ \A i \in n + 1..Len(t) : t[i] = ByteOf(m, i - n)
  <2>1. \A k \in 1..m.length + 2 : Bytes(m)[k] = ByteOf(m, k)
    BY DEF Bytes, ByteOf
  <2>2. Len(t) = n + m.length + 2 /\ \A i \in 1..n : t[i] = s[i]
    BY <1>0, <1>1
  <2>3. \A i \in n + 1..n + m.length + 2 : t[i] = Bytes(m)[i - n] /\ i - n \in 1..m.length + 2
    BY <1>0, <1>1
  <2> QED BY <2>1, <2>2, <2>3
<1>3. \A i \in 1..n : s[i].msg.length \in Nat /\ s[i].at \in 1..s[i].msg.length + 2
  BY ByteShape
<1> HIDE DEF t
<1>4. ASSUME NEW i \in 1..n
      PROVE  /\ i + Rest(t[i]) <= Len(t)
             /\ \A j \in 1..Len(t) : t[i].at + (j - i) \in 1..t[i].msg.length + 2 =>
                  t[j] = ByteOf(t[i].msg, t[i].at + (j - i))
  <2>1. i + Rest(s[i]) <= n
    BY DEF Whole
  <2>2. \A j \in 1..n : s[i].at + (j - i) \in 1..s[i].msg.length + 2 =>
          s[j] = ByteOf(s[i].msg, s[i].at + (j - i))
    BY DEF Whole
  <2>3. \A j \in n + 1..Len(t) : s[i].at + (j - i) > s[i].msg.length + 2
    <3> TAKE j \in n + 1..Len(t)
    <3>1. s[i].msg.length \in Int /\ s[i].at \in Int /\ i \in Int
      BY <1>0, <1>3
    <3>2. j \in Int /\ j > n
      BY <1>0, <1>2
    <3>3. i + (s[i].msg.length + 2 - s[i].at) <= n
      BY <2>1 DEF Rest
    <3>4. n \in Int
      BY <1>0
    <3> QED BY <3>1, <3>2, <3>3, <3>4, PastTheEnd
  <2>4. Rest(s[i]) \in Nat
    BY <1>3 DEF Rest
  <2>5. \A j \in 1..Len(t) : j \in 1..n \/ j \in n + 1..Len(t)
    BY <1>0, <1>2
  <2>6. i + Rest(t[i]) <= Len(t)
    BY <1>0, <1>2, <2>1, <2>4
  <2>7. ASSUME NEW j \in 1..Len(t), t[i].at + (j - i) \in 1..t[i].msg.length + 2
        PROVE  t[j] = ByteOf(t[i].msg, t[i].at + (j - i))
    <3>1. t[i] = s[i]
      BY <1>2
    <3>2. CASE j \in 1..n
      BY <1>2, <2>2, <2>7, <3>1, <3>2
    <3>3. CASE j \in n + 1..Len(t)
      <4>1. s[i].at + (j - i) > s[i].msg.length + 2 /\ s[i].at + (j - i) <= s[i].msg.length + 2
        BY <2>3, <2>7, <3>1, <3>3
      <4> QED BY <1>0, <1>2, <1>3, <4>1
    <3> QED BY <2>5, <3>2, <3>3
  <2> QED BY <2>6, <2>7
<1>5. ASSUME NEW i \in n + 1..Len(t)
      PROVE  /\ i + Rest(t[i]) <= Len(t)
             /\ \A j \in 1..Len(t) : t[i].at + (j - i) \in 1..t[i].msg.length + 2 =>
                  t[j] = ByteOf(t[i].msg, t[i].at + (j - i))
  <2>0. t[i] = ByteOf(m, i - n) /\ i \in Int
    BY <1>0, <1>2
  <2>1. t[i].msg = m /\ t[i].at = i - n /\ i \in Int
    BY <2>0 DEF ByteOf
  <2>2. Rest(t[i]) = m.length + 2 - (i - n)
    BY <2>1 DEF Rest
  <2>3. ASSUME NEW j \in 1..Len(t), (i - n) + (j - i) \in 1..m.length + 2
        PROVE  t[j] = ByteOf(m, (i - n) + (j - i))
    <3>1. j \in n + 1..Len(t) /\ (i - n) + (j - i) = j - n
      BY <1>0, <1>2, <2>1, <2>3
    <3> QED BY <1>2, <3>1
  <2> QED BY <1>0, <1>2, <2>1, <2>2, <2>3
<1>6. \A i \in 1..Len(t) : i \in 1..n \/ i \in n + 1..Len(t)
  BY <1>0, <1>2
<1> QED BY <1>4, <1>5, <1>6 DEF Whole, t

\* The rest of the message at the beginning of the stream, and what follows.
LEMMA RestFollows ==
  ASSUME NEW s \in Seq(ByteSet), Whole(s), s # <<>>
  PROVE  /\ s[1] \in ByteSet
         /\ Rest(s[1]) + 1 <= Len(s)
         /\ \A k \in 0..Rest(s[1]) : s[k + 1] = ByteOf(s[1].msg, s[1].at + k)
         /\ Len(s) > Rest(s[1]) + 1 => s[Rest(s[1]) + 2].at = 1
<1> DEFINE b == s[1]
           n == Rest(b)
<1>1. b \in ByteSet /\ Len(s) \in Nat /\ Len(s) >= 1
  BY EmptySeq, ElementOfSeq
<1>2. /\ b.msg.length \in Nat /\ b.at \in 1..b.msg.length + 2 /\ n \in Nat
      /\ n = b.msg.length + 2 - b.at
  BY <1>1, ByteShape DEF Rest
<1>3. n + 1 <= Len(s)
  BY <1>1, <1>2 DEF Whole
<1>4. ASSUME NEW k \in 0..n PROVE s[k + 1] = ByteOf(b.msg, b.at + k)
  <2>0. k \in Nat /\ k <= n /\ b.at \in Nat /\ b.at >= 1
    BY <1>2, <1>4
  <2>1. k + 1 \in 1..Len(s) /\ (k + 1) - 1 = k /\ b.at + k \in 1..b.msg.length + 2
    <3> HIDE DEF b, n
    <3>1. k + 1 \in 1..Len(s) /\ (k + 1) - 1 = k
      BY <1>1, <1>2, <1>3, <2>0
    <3>2. b.at + k \in 1..b.msg.length + 2
      BY <1>2, <2>0
    <3> QED BY <3>1, <3>2
  <2>2. 1 \in 1..Len(s)
    BY <1>1
  <2>3. b.at + ((k + 1) - 1) \in 1..b.msg.length + 2 =>
          s[k + 1] = ByteOf(b.msg, b.at + ((k + 1) - 1))
    BY <2>1, <2>2 DEF Whole
  <2> QED BY <2>1, <2>3
<1>5. ASSUME Len(s) > n + 1 PROVE s[n + 2].at = 1
  <2>1. n + 2 \in 1..Len(s) /\ n + 1 \in 1..Len(s) /\ (n + 1) - (n + 2) = -1
    BY <1>1, <1>2, <1>5
  <2> DEFINE c == s[n + 2]
  <2>2. c \in ByteSet
    BY <2>1
  <2>3. c.msg.length \in Nat /\ c.at \in 1..c.msg.length + 2
    BY <2>2, ByteShape
  <2> SUFFICES ASSUME c.at # 1 PROVE FALSE
    OBVIOUS
  <2>4. c.at + ((n + 1) - (n + 2)) \in 1..c.msg.length + 2
    BY <2>1, <2>3
  <2>5. s[n + 1] = ByteOf(c.msg, c.at + ((n + 1) - (n + 2)))
    BY <2>1, <2>4 DEF Whole
  <2>6. s[n + 1] = ByteOf(b.msg, b.at + n)
    <3>1. n \in 0..n
      BY <1>2
    <3> HIDE DEF b, n, c
    <3> QED BY <3>1, <1>4
  <2>7. c.msg = b.msg /\ c.at - 1 = b.at + n
    BY <2>1, <2>3, <2>5, <2>6 DEF ByteOf
  <2> HIDE DEF b, c, n
  <2>8. c.msg.length = b.msg.length
    BY <2>7
  <2> QED BY <1>2, <2>3, <2>7, <2>8
<1> QED BY <1>1, <1>3, <1>4, <1>5
-----------------------------------------------------------------------------
(* What a step does to the stream.                                         *)

\* After k bytes have been read.
LEMMA BytesDropped ==
  ASSUME stream \in Seq(ByteSet), NEW k \in 0..Len(stream),
         stream' = SubSeq(stream, k + 1, Len(stream))
  PROVE  /\ stream' \in Seq(ByteSet) /\ Len(stream') = Len(stream) - k
         /\ \A i \in 1..Len(stream') : i + k \in 1..Len(stream) /\ stream'[i] = stream[i + k]
         /\ stream' = <<>> <=> Len(stream) = k
<1>1. Len(stream') = Len(stream) - k /\ stream' \in Seq(ByteSet)
  OBVIOUS
<1>2. \A i \in 1..Len(stream') : i + k \in 1..Len(stream) /\ stream'[i] = stream[i + k]
  OBVIOUS
<1>3. stream' = <<>> <=> Len(stream') = 0
  BY <1>1, EmptySeq
<1> QED BY <1>1, <1>2, <1>3

\* After a message has been sent.
LEMMA BytesAdded ==
  ASSUME stream \in Seq(ByteSet), NEW m \in Messages, stream' = stream \o Bytes(m)
  PROVE  /\ stream' \in Seq(ByteSet) /\ Len(stream') = Len(stream) + m.length + 2
         /\ Len(stream') > 0
         /\ \A i \in 1..Len(stream) : i \in 1..Len(stream') /\ stream'[i] = stream[i]
         /\ \A i \in 1..Len(stream') :
              \/ i \in 1..Len(stream) /\ stream'[i] = stream[i]
              \/ i > Len(stream) /\ stream'[i] = ByteOf(m, i - Len(stream))
         /\ stream # <<>> => stream' # <<>> /\ stream'[1] = stream[1]
         /\ stream = <<>> => stream' # <<>> /\ stream'[1].at = 1
<1> DEFINE n == Len(stream)
<1>0. m.length \in Nat /\ n \in Nat
  BY MessageKinds
<1>1. Bytes(m) \in Seq(ByteSet) /\ Len(Bytes(m)) = m.length + 2
  BY <1>0, MessageBytes DEF Bytes
<1>2. /\ stream' \in Seq(ByteSet) /\ Len(stream') = n + m.length + 2
      /\ \A i \in 1..n : stream'[i] = stream[i]
      /\ \A i \in n + 1..Len(stream') : stream'[i] = ByteOf(m, i - n)
  BY <1>0, <1>1 DEF Bytes, ByteOf
<1>3. stream # <<>> => n >= 1
  BY <1>0, EmptySeq
<1>4. stream = <<>> => n = 0
  OBVIOUS
<1>5. stream' # <<>>
  BY <1>0, <1>2
<1> HIDE DEF n
<1>6. stream = <<>> => stream'[1].at = 1
  <2> SUFFICES ASSUME stream = <<>> PROVE stream'[1].at = 1
    OBVIOUS
  <2>1. 1 \in n + 1..Len(stream') /\ 1 - n = 1
    BY <1>0, <1>2, <1>4
  <2>2. stream'[1] = ByteOf(m, 1)
    BY <1>2, <2>1
  <2> QED BY <2>2 DEF ByteOf
<1>7. stream # <<>> => stream'[1] = stream[1]
  BY <1>0, <1>2, <1>3
<1>8. \A i \in 1..Len(stream') : i \in 1..n \/ (i > n /\ i \in n + 1..Len(stream'))
  BY <1>0, <1>2
<1>9. \A i \in 1..n : i \in 1..Len(stream')
  BY <1>0, <1>2
<1> QED BY <1>0, <1>2, <1>5, <1>6, <1>7, <1>8, <1>9 DEF n

LEMMA NothingWhole == Whole(<<>>)
BY DEF Whole

LEMMA OrderDropped ==
  ASSUME stream \in Seq(ByteSet), InOrder, NEW k \in 0..Len(stream),
         stream' = SubSeq(stream, k + 1, Len(stream)), UNCHANGED <<pushed, published>>
  PROVE  InOrder'
<1>1. /\ Len(stream') = Len(stream) - k
      /\ \A i \in 1..Len(stream') : i + k \in 1..Len(stream) /\ stream'[i] = stream[i + k]
  BY BytesDropped
<1>2. ASSUME NEW i \in 1..Len(stream'), Publication(stream'[i]),
             NEW j \in 1..Len(stream'), Publication(stream'[j]), j > i + Rest(stream'[i])
      PROVE  stream'[i].msg.id < stream'[j].msg.id
  <2>1. i + k \in 1..Len(stream) /\ j + k \in 1..Len(stream)
    BY <1>1
  <2>2. stream[i + k] \in ByteSet
    BY <2>1
  <2>3. Rest(stream[i + k]) \in Nat
    BY <2>2, ByteShape
  <2>4. j + k > i + k + Rest(stream[i + k])
    BY <1>1, <1>2, <2>3
  <2> QED BY <1>1, <1>2, <2>1, <2>4 DEF InOrder
<1>3. \A i \in 1..Len(stream') : Publication(stream'[i]) =>
        /\ stream'[i].msg.id <= published
        /\ pushed # <<>> => pushed[1].msg.id < stream'[i].msg.id
  BY <1>1 DEF InOrder
<1> QED BY <1>2, <1>3 DEF InOrder, Publication, Rest

LEMMA BodyBytes ==
  ASSUME NEW m \in Messages
  PROVE  /\ Body(m) \in Seq(ByteSet) /\ Len(Body(m)) = m.length
         /\ \A i \in 1..m.length : Body(m)[i] = ByteOf(m, i + 2)
         /\ Body(m) # <<>> => m.length > 0 /\ Body(m)[1].msg = m
<1>1. m.length \in Nat /\ Bytes(m) \in Seq(ByteSet) /\ Len(Bytes(m)) = m.length + 2
  BY MessageKinds, MessageBytes DEF Bytes
<1>2. /\ Body(m) \in Seq(ByteSet) /\ Len(Body(m)) = m.length
      /\ \A i \in 1..m.length : Body(m)[i] = Bytes(m)[i + 2]
  BY <1>1 DEF Body
<1>3. \A i \in 1..m.length : Body(m)[i] = ByteOf(m, i + 2)
  BY <1>1, <1>2 DEF Bytes, ByteOf
<1>4. Body(m) # <<>> => m.length > 0
  BY <1>1, <1>2, EmptySeq
<1>5. m.length > 0 => Body(m)[1].msg = m
  <2> SUFFICES ASSUME m.length > 0 PROVE Body(m)[1].msg = m
    OBVIOUS
  <2>1. Body(m)[1] = ByteOf(m, 3)
    BY <1>1, <1>3
  <2> QED BY <2>1 DEF ByteOf
<1> QED BY <1>2, <1>3, <1>4, <1>5

\* What has been delivered is known by its first byte.
LEMMA PushedIsPublished ==
  ASSUME PushFaithful, published \in 0..Len(Lengths), pushed # <<>>
  PROVE  /\ pushed[1].msg.id \in 1..published
         /\ pushed = Body(Published(pushed[1].msg.id))
         /\ pushed[1].msg = Published(pushed[1].msg.id)
<1>1. PICK id \in 1..published : pushed = Body(Published(id))
  BY DEF PushFaithful
<1>2. id \in 1..Len(Lengths) /\ Published(id) \in Messages
  <2>1. id \in 1..Len(Lengths) /\ DOMAIN Lengths = 1..Len(Lengths)
    BY LengthsAssumption
  <2> QED BY <2>1 DEF Messages
<1>3. pushed[1].msg = Published(id)
  BY <1>1, <1>2, BodyBytes
<1>4. pushed[1].msg.id = id
  BY <1>3 DEF Published, Message
<1> QED BY <1>1, <1>3, <1>4

LEMMA OrderAdded ==
  ASSUME stream \in Seq(ByteSet), Whole(stream), InOrder, PushFaithful,
         published \in 0..Len(Lengths),
         NEW m \in Messages, stream' = stream \o Bytes(m), UNCHANGED pushed,
         IF m.type = "PUBLISH" THEN published' = published + 1 /\ m.id = published'
           ELSE UNCHANGED published
  PROVE  InOrder'
<1> DEFINE n == Len(stream)
<1>0. m.length \in Nat /\ m.id \in Nat /\ n \in Nat /\ published \in Nat
  BY MessageKinds, LengthsAssumption
<1>1. /\ Len(stream') = n + m.length + 2
      /\ \A i \in 1..Len(stream') :
              \/ i \in 1..n /\ stream'[i] = stream[i]
              \/ i > n /\ stream'[i] = ByteOf(m, i - n)
  BY BytesAdded
<1>2. pushed # <<>> => pushed[1].msg.id \in Nat /\ pushed[1].msg.id <= published
  BY <1>0, PushedIsPublished
<1>3. \A b \in ByteSet : Rest(b) \in Nat /\ b.msg \in Messages /\ b.msg.id \in Nat
  BY ByteShape, MessageKinds
<1>4. \A i \in 1..n : stream[i] \in ByteSet
  OBVIOUS
<1>5. \A k : ByteOf(m, k).msg = m /\ Rest(ByteOf(m, k)) = m.length + 2 - k
  BY DEF ByteOf, Rest
<1>8. /\ published <= published' /\ published' \in Nat
      /\ m.type = "PUBLISH" => published < m.id /\ m.id <= published'
  BY <1>0
<1> HIDE DEF n
<1>6. ASSUME NEW i \in 1..Len(stream'), Publication(stream'[i])
      PROVE  /\ stream'[i].msg.id <= published'
             /\ pushed # <<>> => pushed[1].msg.id < stream'[i].msg.id
  <2>1. CASE i \in 1..n /\ stream'[i] = stream[i]
    <3>1. stream[i].msg.id \in Nat /\ stream[i].msg.id <= published
      BY <1>3, <1>4, <1>6, <2>1 DEF InOrder, n
    <3>2. pushed # <<>> => pushed[1].msg.id < stream[i].msg.id
      BY <1>6, <2>1 DEF InOrder, n
    <3> QED BY <1>0, <1>8, <2>1, <3>1, <3>2
  <2>2. CASE i > n /\ stream'[i] = ByteOf(m, i - n)
    <3>1. stream'[i].msg = m /\ m.type = "PUBLISH"
      BY <1>5, <1>6, <2>2 DEF Publication
    <3> QED BY <1>0, <1>2, <1>8, <3>1
  <2> QED BY <1>1, <2>1, <2>2
<1>7. ASSUME NEW i \in 1..Len(stream'), Publication(stream'[i]),
             NEW j \in 1..Len(stream'), Publication(stream'[j]), j > i + Rest(stream'[i])
      PROVE  stream'[i].msg.id < stream'[j].msg.id
  <2>0. i \in Nat /\ j \in Nat /\ j <= n + m.length + 2
    BY <1>0, <1>1
  <2>1. CASE i \in 1..n /\ stream'[i] = stream[i] /\ j \in 1..n /\ stream'[j] = stream[j]
    BY <1>7, <2>1 DEF InOrder, n
  <2>2. CASE /\ i \in 1..n /\ stream'[i] = stream[i]
             /\ j > n /\ stream'[j] = ByteOf(m, j - n)
    <3>1. stream'[j].msg = m /\ m.type = "PUBLISH"
      BY <1>5, <1>7, <2>2 DEF Publication
    <3>2. stream[i].msg.id \in Nat /\ stream[i].msg.id <= published
      BY <1>3, <1>4, <1>7, <2>2 DEF InOrder, n
    <3> QED BY <1>0, <1>8, <2>2, <3>1, <3>2
  <2>3. CASE i > n /\ stream'[i] = ByteOf(m, i - n)
    <3>1. j > i + (m.length + 2 - (i - n))
      BY <1>5, <1>7, <2>3
    <3> QED BY <1>0, <2>0, <3>1
  <2> QED BY <1>1, <2>1, <2>2, <2>3
<1> QED BY <1>6, <1>7 DEF InOrder, Publication, Rest
-----------------------------------------------------------------------------
(* Steps that move no byte.                                                *)

Quiet == UNCHANGED <<stream, lost, owed, subscribed, pushed, published>>

\* The states in which nothing is promised of the connection.
Elsewhere == {"INSTALL_PUSH", "GET_ENDPOINT", "SOCK_CONNECT", "RECONNECT", "ERR_EXIT", "DISCONTINUED"}

LEMMA QuietFrame ==
  ASSUME PushIInv, Quiet
  PROVE  Whole(stream)' /\ InOrder' /\ PushFaithful'
BY DEF PushIInv, Quiet, Whole, InOrder, PushFaithful, Publication, Rest, ByteOf, Body, Bytes,
   Published, Message

LEMMA ElsewhereKept ==
  ASSUME PushIInv, Quiet, taskState' \in Elsewhere, doing' \in {"ask", "run", "exit", "done"}
  PROVE  PushIInv'
<1>1. Expecting' /\ Reading' /\ Buffering'
  BY DEF Elsewhere, Expecting, Reading, Buffering, Acks, Receiving, Early
<1> QED BY <1>1, QuietFrame DEF PushIInv

\* The loop, and the handlers that start to receive.
LEMMA LoopKept ==
  ASSUME TypeOK, PushIInv, AskContinue \/ TaskExit \/ RecvAck \/ RecvReady
  PROVE  PushIInv'
<1> USE DEF Call, EnvUnchanged, brokerVars, readVars
<1>0. Quiet
  BY DEF AskContinue, TaskExit, RecvAck, RecvReady, Quiet
<1>1. CASE taskState' = "DISCONTINUED" /\ doing' = "exit"
  BY <1>0, <1>1, ElsewhereKept DEF Elsewhere
<1>2. CASE AskContinue /\ taskState' = taskState /\ doing' = "run"
  <2>1. UNCHANGED <<taskState, readVars>> /\ doing = "ask" /\ doing' = "run"
    BY <1>2 DEF AskContinue
  <2>2. Expecting' /\ Reading' /\ Buffering'
    BY <1>0, <2>1 DEF PushIInv, Quiet, Expecting, Reading, Buffering, Early, Acks, Receiving,
       Expected, AtStart, NextIs, Publication
  <2> QED BY <1>0, <2>2, QuietFrame DEF PushIInv
<1>3. CASE TaskExit \/ (AskContinue /\ taskState = "ERR_EXIT")
  <2>1. UNCHANGED taskState /\ doing' \in {"exit", "done"}
    BY <1>3 DEF TaskExit, AskContinue
  <2>2. CASE taskState \in Elsewhere
    BY <1>0, <2>1, <2>2, ElsewhereKept
  <2>3. CASE taskState \notin Elsewhere
    <3>1. doing = "exit" /\ doing' = "done" /\ UNCHANGED readVars
      BY <1>3, <2>3 DEF TaskExit, Elsewhere
    <3>2. ~Early /\ ~Early' /\ doing \notin {"length", "header", "remaining", "trash"}
          /\ doing' \notin {"length", "header", "remaining", "trash"}
      BY <3>1 DEF Early
    <3>3. Expecting'
      BY <1>0, <2>1, <3>2 DEF PushIInv, Quiet, Expecting, Acks, Receiving, Expected, Publication
    <3>4. Reading' /\ Buffering'
      BY <3>2 DEF Reading, Buffering
    <3> QED BY <1>0, <3>3, <3>4, QuietFrame DEF PushIInv
  <2> QED BY <2>2, <2>3
<1>4. CASE RecvAck \/ (RecvReady /\ doing' = "type")
  <2>1. /\ UNCHANGED <<taskState, readVars>> /\ doing = "run" /\ doing' = "type"
        /\ taskState \in Acks \cup {"RECV_READY"}
    BY <1>4 DEF RecvAck, RecvReady, Runs, Acks, Continue, Return
  <2>2. Expecting' /\ Reading' /\ Buffering'
    BY <1>0, <2>1 DEF PushIInv, Quiet, Expecting, Reading, Buffering, Early, Acks, Receiving,
       Expected, AtStart, NextIs, Publication
  <2> QED BY <1>0, <2>2, QuietFrame DEF PushIInv
<1>5. CASE RecvReady /\ doing' # "type"
  <2>1. taskState = "RECV_READY" /\ doing = "run" /\ taskState' = "SEND_PINGREQ" /\ doing' = "ask"
    BY <1>5 DEF RecvReady, Runs, Continue, Return
  <2>2. Expecting' /\ Reading' /\ Buffering'
    BY <1>0, <2>1 DEF PushIInv, Quiet, Expecting, Reading, Buffering, Early, Acks, Receiving,
       AtStart, NextIs
  <2> QED BY <1>0, <2>2, QuietFrame DEF PushIInv
<1> QED BY <1>1, <1>2, <1>3, <1>4, <1>5 DEF AskContinue

\* Whatever leaves the connection, or has not got one.
LEMMA LeavesKept ==
  ASSUME PushIInv,
         \/ InstallPush \/ GetEndpoint \/ SockConnectFails \/ ConnectTooLong
         \/ HandshakeSendFails \/ PingreqFails \/ ReadFails
  PROVE  PushIInv'
<1>1. Quiet
  BY DEF InstallPush, GetEndpoint, SockConnectFails, ConnectTooLong, HandshakeSendFails, SendFails,
     PingreqFails, ReadFails, EnvUnchanged, brokerVars, Quiet
<1>2. taskState' \in Elsewhere /\ doing' = "ask"
  BY DEF InstallPush, GetEndpoint, SockConnectFails, ConnectTooLong, HandshakeSendFails, SendFails,
     PingreqFails, ReadFails, ReconnectNow, Continue, Fail, Return, Elsewhere
<1> QED BY <1>1, <1>2, ElsewhereKept

LEMMA HeaderFailsKept ==
  ASSUME Fits, TaskIInv, PushIInv, HeaderFails
  PROVE  PushIInv'
<1>1. Quiet
  BY DEF HeaderFails, EnvUnchanged, brokerVars, Quiet
<1>2. CASE taskState # "RECV_READY"
  BY <1>1, <1>2, ElsewhereKept DEF HeaderFails, Continue, Return, Elsewhere
<1>3. CASE taskState = "RECV_READY"
  <2>1. taskState' = "RECV_READY" /\ doing' = "ask" /\ stream = <<>>
    BY <1>3 DEF HeaderFails, Continue, Return, RecvFails, Fits
  <2>2. Expecting' /\ Reading' /\ Buffering'
    BY <1>1, <1>3, <2>1 DEF PushIInv, Quiet, Expecting, Reading, Buffering, Early, Acks, Receiving,
       AtStart, NextIs
  <2> QED BY <1>1, <2>2, QuietFrame DEF PushIInv
<1> QED BY <1>2, <1>3

\* What can be said of the message of which the third byte comes next.
LEMMA ThirdByte ==
  ASSUME stream \in Seq(ByteSet), NextIs(3)
  PROVE  /\ stream[1].msg \in Messages /\ stream[1] = ByteOf(stream[1].msg, 3)
         /\ stream[1].msg.length > 0 /\ Len(stream) >= 1 /\ 1 \in 1..Len(stream)
         /\ Rest(stream[1]) = stream[1].msg.length - 1
<1>1. Len(stream) >= 1 /\ Len(stream) \in Nat /\ stream[1] \in ByteSet /\ 1 \in 1..Len(stream)
  BY EmptySeq, ElementOfSeq DEF NextIs
<1>2. stream[1].at = 3
  BY DEF NextIs
<1>3. stream[1].msg.length \in Nat /\ 3 \in 1..stream[1].msg.length + 2
  BY <1>1, <1>2, ByteShape
<1> QED BY <1>1, <1>2, <1>3, ByteShape DEF Rest

\* The header of an acknowledgement leads to reading the rest of it.
LEMMA AckHeaderKept ==
  ASSUME TaskIInv, PushIInv, AckHeader
  PROVE  PushIInv'
<1>0. stream \in Seq(ByteSet) /\ Quiet
  BY DEF AckHeader, EnvUnchanged, brokerVars, Quiet, TaskIInv, TypeOK
<1>1. CASE mtype # Expected
  BY <1>0, <1>1, ElsewhereKept DEF AckHeader, Continue, Return, Elsewhere
<1>2. CASE mtype = Expected
  <2>1. /\ doing = "header" /\ taskState \in Acks /\ taskState' = taskState
        /\ doing' = "remaining" /\ remaining' = (IF mtype = "CONNACK" THEN 2 ELSE 3)
        /\ received' = 0 /\ total' = 0
    BY <1>2 DEF AckHeader, Call, Acks
  <2>2. Expected \in {"CONNACK", "SUBACK"} /\ Expected' = Expected
    BY <2>1 DEF Expected
  <2>3. NextIs(3) /\ mtype = stream[1].msg.type
    BY <1>2, <2>1, <2>2 DEF PushIInv, Reading, NoMore
  <2> DEFINE m == stream[1].msg
  <2>4. /\ m \in Messages /\ stream[1] = ByteOf(m, 3) /\ 1 \in 1..Len(stream)
        /\ m.type = Expected
    BY <1>0, <1>2, <2>3, ThirdByte
  <2>5. m.length = remaining'
    BY <1>2, <2>1, <2>2, <2>4, MessageKinds
  <2>6. m.type = "SUBACK" /\ m.id = 1 => subscribed
    BY <2>1, <2>4 DEF PushIInv, Expecting, Publication
  <2>7. Buffered(m)'
    <3>1. stream' = stream /\ subscribed' = subscribed
      BY <1>0 DEF Quiet
    <3>2. remaining' > 0 /\ total' = 0
      BY <2>1
    <3>3. m.type = Wanted' /\ m.type # "PUBLISH"
      BY <2>1, <2>2, <2>4 DEF Wanted, Acks
    <3>4. stream # <<>>
      BY <2>3 DEF NextIs
    <3> HIDE DEF m
    <3>5. m' = m
      BY <3>1 DEF m
    <3> QED BY <2>1, <2>4, <2>5, <2>6, <3>1, <3>2, <3>3, <3>4, <3>5 DEF Buffered, AtStart
  <2>8. Buffering'
    BY <2>4, <2>7, <1>0 DEF Buffering, Quiet, Messages
  <2>9. Reading'
    BY <2>1 DEF Reading, Early, Acks
  <2>10. Expecting'
    BY <1>0, <2>1, <2>2, <2>3 DEF Quiet, PushIInv, Expecting, Early, Acks, Receiving, NextIs, Publication
  <2> QED BY <1>0, <2>8, <2>9, <2>10, QuietFrame DEF PushIInv
<1> QED BY <1>1, <1>2

LEMMA ReadyHeaderKept ==
  ASSUME TaskIInv, PushIInv, ReadyHeader
  PROVE  PushIInv'
<1>0. /\ stream \in Seq(ByteSet) /\ Quiet
      /\ doing = "header" /\ taskState = "RECV_READY"
  BY DEF ReadyHeader, EnvUnchanged, brokerVars, Quiet, TaskIInv, TypeOK
<1>1. \/ NoMore /\ remaining = 0
      \/ AtStart /\ mtype = "PINGRESP"
      \/ NextIs(3) /\ mtype = stream[1].msg.type /\ remaining = stream[1].msg.length
  BY <1>0 DEF PushIInv, Reading
<1>2. NextIs(3) => stream[1].msg.type \in {"PUBLISH", "PINGRESP"} /\ stream[1].msg.type # "PINGRESP"
  <2> SUFFICES ASSUME NextIs(3)
               PROVE  stream[1].msg.type \in {"PUBLISH", "PINGRESP"} /\ stream[1].msg.type # "PINGRESP"
    OBVIOUS
  <2>1. 1 \in 1..Len(stream) /\ stream[1].msg \in Messages /\ stream[1].msg.length > 0
    BY <1>0, ThirdByte
  <2>2. stream[1].msg.type \in {"PUBLISH", "PINGRESP"}
    BY <1>0, <2>1 DEF PushIInv, Expecting, Receiving
  <2> QED BY <2>1, <2>2, MessageKinds
<1>3. Expecting' /\ Reading' /\ Buffering'
  <2>1. CASE mtype = "PUBLISH"
    <3>1. NextIs(3) /\ mtype = stream[1].msg.type /\ remaining = stream[1].msg.length
      BY <1>1, <2>1 DEF NoMore
    <3>2. taskState' = "RECV_MSG" /\ doing' = "ask" /\ remaining' = remaining
      BY <2>1 DEF ReadyHeader, Continue, Return
    <3> QED BY <1>0, <2>1, <3>1, <3>2 DEF PushIInv, Quiet, Expecting, Reading, Buffering, Early, Acks,
        Receiving, NextIs, Publication
  <2>2. CASE mtype = "PINGRESP"
    <3>1. AtStart
      BY <1>1, <1>2, <2>2 DEF NoMore
    <3>2. taskState' = "RECV_READY" /\ doing' = "ask"
      BY <2>2 DEF ReadyHeader, Continue, Return
    <3> QED BY <1>0, <3>1, <3>2 DEF PushIInv, Quiet, Expecting, Reading, Buffering, Early, Acks,
        Receiving, AtStart, NextIs
  <2>3. CASE mtype \notin {"PUBLISH", "PINGRESP"}
    <3>1. remaining = 0
      BY <1>1, <1>2, <2>3
    <3>2. taskState' = "RECV_READY" /\ doing' = "trash" /\ remaining' = remaining
      BY <1>0, <2>3 DEF ReadyHeader, Call
    <3> QED BY <1>0, <3>1, <3>2 DEF PushIInv, Quiet, Expecting, Reading, Buffering, Early, Acks,
        Receiving
  <2> QED BY <2>1, <2>2, <2>3
<1> QED BY <1>0, <1>3, QuietFrame DEF PushIInv

\* A message that fits is never read as trash.
LEMMA RecvMsgKept ==
  ASSUME Fits, TaskIInv, PushIInv, RecvMsg
  PROVE  PushIInv'
<1>0. /\ stream \in Seq(ByteSet) /\ Quiet
      /\ doing = "run" /\ taskState = "RECV_MSG" /\ taskState' = taskState
      /\ UNCHANGED remaining /\ received' = 0 /\ total' = 0
  BY DEF RecvMsg, Runs, Call, EnvUnchanged, brokerVars, Quiet, TaskIInv, TypeOK
<1>1. NextIs(3) /\ Publication(stream[1]) /\ remaining = stream[1].msg.length
  BY <1>0 DEF PushIInv, Reading, Early
<1> DEFINE m == stream[1].msg
<1>2. /\ m \in Messages /\ stream[1] = ByteOf(m, 3) /\ m.length > 0 /\ 1 \in 1..Len(stream)
      /\ Rest(stream[1]) = m.length - 1
  BY <1>0, <1>1, ThirdByte
<1>3. m.type = "PUBLISH"
  BY <1>1 DEF Publication
<1>4. m.length \in Nat /\ m.length <= MqttBufferSize
  BY <1>2, <1>3, MessageKinds DEF Fits
<1>5. doing' = "remaining"
  BY <1>1, <1>4, SizesAssumption DEF RecvMsg, Call
<1>6. m.id <= published /\ (pushed # <<>> => pushed[1].msg.id < m.id)
  BY <1>1, <1>2 DEF PushIInv, InOrder
<1>7. \A i \in 1..Len(stream) : Publication(stream[i]) /\ i > remaining => m.id < stream[i].msg.id
  <2> SUFFICES ASSUME NEW i \in 1..Len(stream), Publication(stream[i]), i > remaining
               PROVE  m.id < stream[i].msg.id
    OBVIOUS
  <2>1. i > 1 + Rest(stream[1])
    BY <1>1, <1>2, <1>4
  <2> QED BY <1>1, <1>2, <2>1 DEF PushIInv, InOrder
<1>8. Buffered(m)'
  <2>1. m' = m
    BY <1>0 DEF Quiet
  <2>2. Wanted' = "PUBLISH"
    BY <1>0 DEF Wanted
  <2>3. stream # <<>>
    BY <1>1 DEF NextIs
  <2>4. UNCHANGED <<stream, pushed, published>>
    BY <1>0 DEF Quiet
  <2>5. remaining = m.length
    BY <1>1
  <2> HIDE DEF m
  <2> QED BY <1>0, <1>2, <1>3, <1>4, <1>6, <1>7, <2>1, <2>2, <2>3, <2>4, <2>5
          DEF Buffered, AtStart, Publication
<1>9. Buffering'
  BY <1>2, <1>8, <1>0 DEF Buffering, Quiet, Messages
<1>10. Reading' /\ Expecting'
  BY <1>0, <1>5 DEF PushIInv, Quiet, Reading, Expecting, Early, Acks, Receiving
<1> QED BY <1>0, <1>9, <1>10, QuietFrame DEF PushIInv

\* An acknowledgement that has been read is the one that was expected.
LEMMA AckReadKept ==
  ASSUME TaskIInv, PushIInv, AckRead
  PROVE  PushIInv'
<1>0. /\ stream \in Seq(ByteSet) /\ Quiet
      /\ doing = "remaining" /\ taskState \in Acks /\ remaining > 0 /\ total >= remaining
      /\ total \in Nat /\ remaining \in Nat
  BY DEF AckRead, ReadComplete, Acks, EnvUnchanged, brokerVars, Quiet, TaskIInv, TypeOK
<1>1. PICK m \in Messages : Buffered(m)
  BY <1>0 DEF PushIInv, Buffering
<1>2. total = remaining /\ m.length = remaining /\ AtStart /\ m.type = Expected
  BY <1>0, <1>1 DEF Buffered, Wanted, Acks
<1>3. PICK ok \in Accepted(Expected, remaining) :
        Continue(IF ~ok THEN "RECONNECT"
                 ELSE IF taskState = "RECV_CONNACK" THEN "SEND_SUBSCRIBE" ELSE "RECV_READY")
  BY DEF AckRead
<1>4. ok = (m.id = 1)
  <2>1. \A i \in 1..remaining : buff[i].msg = m /\ buff[i].at = i + 2
    <3>1. \A i \in 1..remaining : buff[i] = ByteOf(m, i + 2)
      BY <1>1, <1>2 DEF Buffered
    <3>2. \A k : ByteOf(m, k).msg = m /\ ByteOf(m, k).at = k
      BY DEF ByteOf
    <3> QED BY <3>1, <3>2
  <2>2. Accepted(Expected, remaining) = {buff[remaining].msg.id = 1}
    BY <1>2, <2>1 DEF Accepted
  <2>3. remaining \in 1..remaining
    BY <1>0
  <2> QED BY <2>1, <2>2, <2>3
<1>5. owed = <<>>
  BY <1>0 DEF PushIInv, Expecting, Early
<1>6. CASE ~ok
  BY <1>0, <1>3, <1>6, ElsewhereKept DEF Continue, Return, Elsewhere
<1>7. CASE ok /\ taskState = "RECV_CONNACK"
  <2>1. taskState' = "SEND_SUBSCRIBE" /\ doing' = "ask"
    BY <1>3, <1>7 DEF Continue, Return
  <2>2. stream = <<>> /\ ~subscribed
    <3>1. ~subscribed
      BY <1>0, <1>7 DEF PushIInv, Expecting
    <3>2. ASSUME stream # <<>> PROVE FALSE
      <4>1. 1 \in 1..Len(stream) /\ stream[1].at = 1
        BY <1>0, <1>2, <3>2, EmptySeq DEF AtStart
      <4>2. 1 < stream[1].at
        BY <1>0, <1>7, <4>1 DEF PushIInv, Expecting, Early
      <4> QED BY <4>1, <4>2
    <3> QED BY <3>1, <3>2
  <2>3. Expecting' /\ Reading' /\ Buffering'
    BY <1>0, <1>5, <2>1, <2>2 DEF Quiet, Expecting, Reading, Buffering, Early, Acks, Receiving
  <2> QED BY <1>0, <2>3, QuietFrame DEF PushIInv
<1>8. CASE ok /\ taskState = "RECV_SUBACK"
  <2>1. taskState' = "RECV_READY" /\ doing' = "ask"
    BY <1>3, <1>8 DEF Continue, Return
  <2>2. Expected = "SUBACK"
    BY <1>8 DEF Expected
  <2>3. subscribed
    BY <1>1, <1>2, <1>4, <1>8, <2>2 DEF Buffered
  <2>4. \A i \in 1..Len(stream) : Publication(stream[i])
    <3> SUFFICES ASSUME NEW i \in 1..Len(stream), ~Publication(stream[i]) PROVE FALSE
      OBVIOUS
    <3>1. i < stream[i].at
      BY <1>0, <1>8 DEF PushIInv, Expecting, Early
    <3>2. stream[i] \in ByteSet /\ i \in Int /\ i >= 1 /\ 1 \in 1..Len(stream)
      BY <1>0
    <3>3. stream[i].at \in 1..stream[i].msg.length + 2 /\ stream[i].msg.length \in Nat
      BY <3>2, ByteShape
    <3>4. stream[i].at + (1 - i) \in 1..stream[i].msg.length + 2
      BY <3>1, <3>2, <3>3
    <3>5. stream[1] = ByteOf(stream[i].msg, stream[i].at + (1 - i))
      BY <3>2, <3>4 DEF PushIInv, Whole
    <3>6. stream[1].at = stream[i].at + (1 - i)
      BY <3>5 DEF ByteOf
    <3>7. stream[1].at = 1
      BY <1>2, <3>2 DEF AtStart
    <3> QED BY <3>1, <3>2, <3>3, <3>6, <3>7
  <2>5. Expecting' /\ Reading' /\ Buffering'
    BY <1>0, <1>2, <1>5, <2>1, <2>3, <2>4 DEF Quiet, Expecting, Reading, Buffering, Early, Acks,
       Receiving, Publication, AtStart, NextIs
  <2> QED BY <1>0, <2>5, QuietFrame DEF PushIInv
<1> QED BY <1>0, <1>6, <1>7, <1>8 DEF Acks

LEMMA TrashNotRead ==
  ASSUME TaskIInv, PushIInv
  PROVE  ~ReadTrash /\ ~TrashRead
BY DEF TaskIInv, TypeOK, PushIInv, Reading, ReadTrash, TrashRead, ReadComplete

LEMMA StopKept ==
  ASSUME PushIInv, AppStops \/ UNCHANGED vars
  PROVE  PushIInv'
<1>1. Quiet /\ UNCHANGED <<taskVars, readVars>>
  BY DEF AppStops, vars, brokerVars, Quiet
<1>2. Expecting' /\ Reading' /\ Buffering'
  BY <1>1 DEF PushIInv, Quiet, taskVars, readVars, Expecting, Reading, Buffering, Buffered, Early,
     Acks, Receiving, Expected, Wanted, AtStart, NextIs, NoMore, Publication, Messages
<1> QED BY <1>1, <1>2, QuietFrame DEF PushIInv

-----------------------------------------------------------------------------
(* Steps that read.                                                        *)

\* One byte of a header, or none at the end of the connection.
LEMMA OneRead ==
  ASSUME stream \in Seq(ByteSet), NEW data \in Delivered(1, FALSE), Consume(data)
  PROVE  \/ data = <<>> /\ stream = <<>> /\ lost /\ stream' = stream
         \/ /\ stream # <<>> /\ data # <<>> /\ data[1] = stream[1]
            /\ 1 \in 0..Len(stream) /\ stream' = SubSeq(stream, 1 + 1, Len(stream))
<1>1. CASE data = <<>>
  <2>1. ~(\E k \in Nat \ {0} : k <= Len(stream) /\ data = SubSeq(stream, 1, k))
    <3> SUFFICES ASSUME NEW k \in Nat \ {0}, k <= Len(stream), data = SubSeq(stream, 1, k)
                 PROVE  FALSE
      OBVIOUS
    <3>1. Len(data) = k
      BY SubSeqProperties
    <3> QED BY <1>1, <3>1
  <2>2. stream = <<>> /\ lost
    BY <1>1, <2>1 DEF Delivered
  <2> QED BY <1>1, <2>2 DEF Consume
<1>2. CASE data # <<>>
  <2>1. PICK k \in Nat \ {0} : data = SubSeq(stream, 1, k) /\ k <= 1 /\ k <= Len(stream)
    BY <1>2 DEF Delivered
  <2>2. k = 1 /\ Len(data) = 1 /\ data[1] = stream[1]
    BY <2>1
  <2>3. stream # <<>>
    BY <2>1, <2>2
  <2> QED BY <1>2, <2>1, <2>2, <2>3 DEF Consume
<1> QED BY <1>1, <1>2

\* After the bytes at the beginning of the stream, up to what is left of a
\* message.
LEMMA NextByte ==
  ASSUME stream \in Seq(ByteSet), Whole(stream), stream # <<>>,
         NEW k \in 1..Rest(stream[1]) + 1, stream' = SubSeq(stream, k + 1, Len(stream))
  PROVE  /\ k \in 0..Len(stream) /\ Rest(stream[1]) \in Nat
         /\ k <= Rest(stream[1]) =>
              stream' # <<>> /\ stream'[1] = ByteOf(stream[1].msg, stream[1].at + k)
         /\ k = Rest(stream[1]) + 1 => stream' = <<>> \/ stream'[1].at = 1
<1> DEFINE n == Rest(stream[1])
<1>1. stream[1] \in ByteSet /\ n + 1 <= Len(stream) /\ Len(stream) \in Nat
  BY RestFollows
<1>2. n \in Nat
  BY <1>1, ByteShape
<1>3. k \in 0..Len(stream)
  BY <1>1, <1>2
<1>4. /\ Len(stream') = Len(stream) - k
      /\ \A i \in 1..Len(stream') : stream'[i] = stream[i + k]
      /\ stream' = <<>> <=> Len(stream) = k
  BY <1>3, BytesDropped
<1>5. ASSUME k <= n PROVE stream' # <<>> /\ stream'[1] = ByteOf(stream[1].msg, stream[1].at + k)
  <2>1. k \in 0..Rest(stream[1]) /\ 1 \in 1..Len(stream') /\ Len(stream) # k
    BY <1>1, <1>2, <1>3, <1>4, <1>5
  <2>2. stream[k + 1] = ByteOf(stream[1].msg, stream[1].at + k)
    BY <2>1, RestFollows
  <2> QED BY <1>4, <2>1, <2>2
<1>6. ASSUME k = n + 1, stream' # <<>> PROVE stream'[1].at = 1
  <2> HIDE DEF n
  <2>0. Len(stream) # k
    BY <1>4, <1>6
  <2>1. Len(stream) > n + 1 /\ 1 \in 1..Len(stream') /\ 1 + k = n + 2
    BY <1>1, <1>2, <1>3, <1>4, <1>6, <2>0
  <2>2. stream[n + 2].at = 1
    BY <2>1, RestFollows DEF n
  <2> QED BY <1>4, <2>1, <2>2
<1> QED BY <1>2, <1>3, <1>5, <1>6

\* What is promised of the stream before is promised of what is left of it.
LEMMA ReadFrame ==
  ASSUME TypeOK, PushIInv, NEW k \in 1..Len(stream), stream' = SubSeq(stream, k + 1, Len(stream)),
         UNCHANGED <<taskState, lost, owed, subscribed, pushed, published>>,
         ~Early', taskState \in Acks \cup {"RECV_READY", "RECV_MSG"}
  PROVE  Whole(stream)' /\ InOrder' /\ PushFaithful' /\ Expecting' /\ owed' = owed
<1>0. stream \in Seq(ByteSet) /\ k \in 0..Len(stream) /\ k \in Int /\ k >= 1 /\ stream # <<>>
  BY DEF TypeOK
<1>1. Whole(stream)'
  BY <1>0, WholeDropped DEF PushIInv, Whole, Rest, ByteOf
<1>2. InOrder' /\ PushFaithful'
  BY <1>0, OrderDropped DEF PushIInv, PushFaithful, Body, Bytes, Published, Message
<1>3. /\ \A i \in 1..Len(stream') : i + k \in 1..Len(stream) /\ stream'[i] = stream[i + k]
      /\ Len(stream') = Len(stream) - k
  BY <1>0, BytesDropped
<1>4. CASE taskState \in Acks
  <2>1. owed = <<>>
    BY <1>0, <1>4 DEF PushIInv, Expecting
  <2>2. Expected' = Expected
    BY DEF Expected
  <2>3. ASSUME NEW i \in 1..Len(stream')
        PROVE  \/ /\ stream'[i].msg.type = Expected
                  /\ i < stream'[i].at
                  /\ Expected = "SUBACK" /\ stream'[i].msg.id = 1 => subscribed
               \/ taskState = "RECV_SUBACK" /\ Publication(stream'[i])
    <3>1. i + k \in 1..Len(stream) /\ stream'[i] = stream[i + k] /\ i \in Int
      BY <1>3
    <3>2. stream[i + k] \in ByteSet
      BY <1>0, <3>1
    <3>3. stream[i + k].at \in Int
      BY <3>2, ByteShape
    <3>4. (IF Early THEN i + k <= stream[i + k].at ELSE i + k < stream[i + k].at) => i < stream[i + k].at
      BY <1>0, <3>1, <3>3
    <3>5. \/ /\ stream[i + k].msg.type = Expected
             /\ IF Early THEN i + k <= stream[i + k].at ELSE i + k < stream[i + k].at
             /\ Expected = "SUBACK" /\ stream[i + k].msg.id = 1 => subscribed
          \/ taskState = "RECV_SUBACK" /\ Publication(stream[i + k])
      BY <1>4, <3>1 DEF PushIInv, Expecting
    <3> QED BY <3>1, <3>4, <3>5
  <2>4. taskState = "RECV_CONNACK" => ~subscribed
    BY <1>4 DEF PushIInv, Expecting
  <2>5. Early' = FALSE
    BY DEF Early
  <2> QED BY <1>1, <1>2, <1>4, <2>1, <2>2, <2>3, <2>4, <2>5 DEF Expecting, Acks, Receiving, Publication
<1>5. CASE taskState \in {"RECV_READY", "RECV_MSG"}
  <2>1. /\ subscribed
        /\ \A i \in 1..Len(owed) : owed[i] = "PINGREQ"
        /\ \A i \in 1..Len(stream) : stream[i].msg.type \in {"PUBLISH", "PINGRESP"}
    BY <1>5 DEF PushIInv, Expecting, Receiving
  <2>2. \A i \in 1..Len(stream') : stream'[i].msg.type \in {"PUBLISH", "PINGRESP"}
    BY <1>3, <2>1
  <2>3. Expecting'
    BY <1>5, <2>1, <2>2 DEF Expecting, Acks, Receiving
  <2> QED BY <1>1, <1>2, <2>3
<1> QED BY <1>4, <1>5

LEMMA ReadTypeKept ==
  ASSUME TaskIInv, PushIInv, ReadType
  PROVE  PushIInv'
<1>0. /\ TypeOK /\ stream \in Seq(ByteSet) /\ doing = "type" /\ doing' = "length"
      /\ taskState \in Acks \cup {"RECV_READY"} /\ taskState' = taskState
      /\ UNCHANGED <<lost, owed, subscribed, pushed, published>> /\ total' = 0
  BY DEF ReadType, Call, EnvUnchanged, brokerVars, TaskIInv, TypeOK, Place, Acks
<1>1. AtStart
  BY <1>0 DEF PushIInv, Reading, Early
<1>2. PICK data \in Delivered(1, FALSE) :
        /\ Consume(data)
        /\ mtype' \in (IF data = <<>> THEN {"other"} ELSE TypeOf(data[1]))
  BY DEF ReadType
<1>3. CASE data = <<>> /\ stream = <<>> /\ lost /\ stream' = stream
  <2>1. Quiet /\ NoMore'
    BY <1>0, <1>2, <1>3 DEF Quiet, NoMore
  <2>2. Reading' /\ Buffering'
    BY <1>0, <2>1 DEF Reading, Buffering, Early, Acks
  <2>3. Expecting'
    BY <1>0, <1>3, <2>1 DEF PushIInv, Quiet, NoMore, Expecting, Early, Acks, Receiving
  <2> QED BY <2>1, <2>2, <2>3, QuietFrame DEF PushIInv
<1>4. CASE /\ stream # <<>> /\ data # <<>> /\ data[1] = stream[1]
           /\ 1 \in 0..Len(stream) /\ stream' = SubSeq(stream, 1 + 1, Len(stream))
  <2> DEFINE m == stream[1].msg
  <2>1. stream[1] \in ByteSet /\ stream[1].at = 1 /\ 1 \in 1..Len(stream)
    BY <1>0, <1>1, <1>4 DEF AtStart
  <2>2. m \in Messages /\ m.length \in Nat /\ Rest(stream[1]) = m.length + 1
    BY <2>1, ByteShape DEF Rest
  <2>3. 1 \in 1..Rest(stream[1]) + 1 /\ 1 <= Rest(stream[1])
    BY <2>2
  <2>4. stream' # <<>> /\ stream'[1] = ByteOf(m, 1 + 1)
    BY <1>0, <1>4, <2>1, <2>3, NextByte DEF PushIInv
  <2>5. mtype' = m.type
    BY <1>2, <1>4, <2>1 DEF TypeOf
  <2>6. NextIs(2)' /\ mtype' = stream'[1].msg.type
    BY <2>4, <2>5 DEF NextIs, ByteOf
  <2>7. Whole(stream)' /\ InOrder' /\ PushFaithful' /\ Expecting'
    BY <1>0, <1>4, <2>1, ReadFrame DEF Early
  <2>8. Reading' /\ Buffering'
    BY <1>0, <2>6 DEF Reading, Buffering, Early, Acks
  <2> QED BY <2>7, <2>8 DEF PushIInv
<1> QED BY <1>0, <1>2, <1>3, <1>4, OneRead

LEMMA ReadLengthKept ==
  ASSUME TaskIInv, PushIInv, ReadLength
  PROVE  PushIInv'
<1>0. /\ TypeOK /\ stream \in Seq(ByteSet) /\ doing = "length"
      /\ taskState \in Acks \cup {"RECV_READY"} /\ taskState' = taskState
      /\ UNCHANGED <<lost, owed, subscribed, pushed, published, mtype>>
  BY DEF ReadLength, Call, taskVars, EnvUnchanged, brokerVars, TaskIInv, TypeOK, Place, Acks
<1>1. /\ total = 0
      /\ NoMore \/ (NextIs(2) /\ mtype = stream[1].msg.type)
  BY <1>0 DEF PushIInv, Reading
<1>2. PICK data \in Delivered(1, FALSE) :
        /\ Consume(data)
        /\ \/ doing' = "header" /\ remaining' \in (IF data = <<>> THEN {0} ELSE LengthOf(data[1]))
           \/ data # <<>> /\ data[1].at # 2
  <2>1. PICK data \in Delivered(1, FALSE) :
          /\ Consume(data)
          /\ \/ doing' = "header" /\ remaining' \in DecodedLength(data)
             \/ data # <<>> /\ data[1].at # 2
    BY DEF ReadLength, Call
  <2>2. DecodedLength(data) = IF data = <<>> THEN {0} ELSE LengthOf(data[1])
    BY <1>1 DEF DecodedLength
  <2> QED BY <2>1, <2>2
<1>3. CASE data = <<>> /\ stream = <<>> /\ lost /\ stream' = stream
  <2>1. Quiet /\ NoMore' /\ doing' = "header" /\ remaining' = 0 /\ mtype = "other"
    BY <1>0, <1>1, <1>2, <1>3 DEF Quiet, NoMore, NextIs
  <2>2. Reading' /\ Buffering'
    BY <1>0, <2>1 DEF Reading, Buffering, Early, Acks
  <2>3. Expecting'
    BY <1>0, <1>3, <2>1 DEF PushIInv, Quiet, NoMore, Expecting, Early, Acks, Receiving
  <2> QED BY <2>1, <2>2, <2>3, QuietFrame DEF PushIInv
<1>4. CASE /\ stream # <<>> /\ data # <<>> /\ data[1] = stream[1]
           /\ 1 \in 0..Len(stream) /\ stream' = SubSeq(stream, 1 + 1, Len(stream))
  <2> DEFINE m == stream[1].msg
  <2>0. NextIs(2) /\ mtype = m.type
    BY <1>1, <1>4 DEF NoMore
  <2>1. stream[1] \in ByteSet /\ stream[1].at = 2 /\ 1 \in 1..Len(stream)
    BY <1>0, <1>4, <2>0 DEF NextIs
  <2>2. m \in Messages /\ m.length \in Nat /\ Rest(stream[1]) = m.length
    BY <2>1, ByteShape DEF Rest
  <2>3. remaining' = m.length /\ doing' = "header"
    BY <1>2, <1>4, <2>1 DEF LengthOf
  <2>4. \/ AtStart' /\ mtype' = "PINGRESP"
        \/ NextIs(3)' /\ mtype' = stream'[1].msg.type /\ remaining' = stream'[1].msg.length
    <3>1. CASE m.length = 0
      <4>1. 1 \in 1..Rest(stream[1]) + 1 /\ 1 = Rest(stream[1]) + 1
        BY <2>2, <3>1
      <4>2. stream' = <<>> \/ stream'[1].at = 1
        BY <1>0, <1>4, <4>1, NextByte DEF PushIInv
      <4>3. m.type = "PINGRESP"
        BY <2>2, <3>1, MessageKinds
      <4> QED BY <1>0, <2>0, <4>2, <4>3 DEF AtStart
    <3>2. CASE m.length > 0
      <4>1. 1 \in 1..Rest(stream[1]) + 1 /\ 1 <= Rest(stream[1])
        BY <2>2, <3>2
      <4>2. stream' # <<>> /\ stream'[1] = ByteOf(m, 2 + 1)
        BY <1>0, <1>4, <2>1, <4>1, NextByte DEF PushIInv
      <4> QED BY <1>0, <2>0, <2>3, <4>2 DEF NextIs, ByteOf
    <3> QED BY <2>2, <3>1, <3>2
  <2>6. Whole(stream)' /\ InOrder' /\ PushFaithful' /\ Expecting'
    BY <1>0, <1>4, <2>1, <2>3, ReadFrame DEF Early
  <2>8. Reading' /\ Buffering'
    BY <1>0, <2>3, <2>4 DEF Reading, Buffering, Early, Acks
  <2> QED BY <2>6, <2>8 DEF PushIInv
<1> QED BY <1>0, <1>2, <1>3, <1>4, OneRead

\* How much a receive delivers of a message that has begun: any part of it at
\* first, and then all the rest.
LEMMA RestRead ==
  ASSUME ~ManyPieces, stream \in Seq(ByteSet), NEW n \in Nat \ {0}, n <= Len(stream),
         NEW data \in Delivered(n, total > 0), Consume(data), total \in Nat
  PROVE  /\ Len(data) \in 1..n /\ (total > 0 => Len(data) = n)
         /\ \A i \in 1..Len(data) : data[i] = stream[i]
         /\ stream' = SubSeq(stream, Len(data) + 1, Len(stream))
<1>1. stream # <<>>
  OBVIOUS
<1>2. PICK k \in (IF total > 0 /\ ~ManyPieces THEN {n} ELSE 1..n) \ {0} :
        data = SubSeq(stream, 1, k)
  <2>1. (IF n < Len(stream) THEN n ELSE Len(stream)) = n
    OBVIOUS
  <2> QED BY <1>1, <2>1 DEF Delivered
<1>3. k \in 1..n /\ (total > 0 => k = n)
  BY <1>2
<1>4. Len(data) = k /\ \A i \in 1..k : data[i] = stream[i]
  BY <1>2, <1>3
<1> QED BY <1>3, <1>4 DEF Consume

LEMMA ReadRemainingKept ==
  ASSUME Fits, TaskIInv, PushIInv, ReadRemaining
  PROVE  PushIInv'
<1>0. /\ TypeOK /\ stream \in Seq(ByteSet) /\ doing = "remaining" /\ doing' = doing
      /\ taskState \in Acks \cup {"RECV_MSG"} /\ taskState' = taskState
      /\ UNCHANGED <<lost, owed, subscribed, pushed, published, remaining>>
      /\ total \in Nat /\ remaining \in Nat /\ total < remaining /\ remaining <= MqttBufferSize
  BY DEF ReadRemaining, taskVars, EnvUnchanged, brokerVars, TaskIInv, TypeOK, Place, Acks
<1>1. PICK m \in Messages : Buffered(m)
  BY <1>0 DEF PushIInv, Buffering
<1>2. /\ received = total /\ stream # <<>> /\ stream[1] = ByteOf(m, total + 3)
      /\ m.length = remaining
  BY <1>0, <1>1 DEF Buffered
<1>3. PICK data \in Delivered(remaining - received, total > 0) :
        /\ Consume(data)
        /\ buff' = [i \in DOMAIN buff |->
             IF i \in received + 1..received + Len(data) THEN data[i - received] ELSE buff[i]]
        /\ received' = Len(data)
        /\ total' = total + Len(data)
  BY DEF ReadRemaining
<1> DEFINE n == remaining - total
           k == Len(data)
<1>4. /\ n \in Nat \ {0} /\ n = Rest(stream[1]) + 1 /\ n <= Len(stream)
      /\ stream[1].msg = m /\ stream[1].at = total + 3
      /\ Rest(stream[1]) = n - 1 /\ Rest(stream[1]) \in Nat
  <2>1. stream[1].msg = m /\ stream[1].at = total + 3
    BY <1>2 DEF ByteOf
  <2>2. Rest(stream[1]) = n - 1
    BY <1>0, <1>2, <2>1 DEF Rest
  <2>3. Rest(stream[1]) + 1 <= Len(stream)
    BY <1>0, <1>2, RestFollows DEF PushIInv
  <2> QED BY <1>0, <2>1, <2>2, <2>3
<1>5. /\ k \in 1..n /\ (total > 0 => k = n)
      /\ \A i \in 1..k : data[i] = stream[i]
      /\ stream' = SubSeq(stream, k + 1, Len(stream))
  BY <1>0, <1>2, <1>3, <1>4, RestRead DEF Fits
<1>6. k \in 1..Len(stream)
  BY <1>4, <1>5
<1>7. /\ received' = k /\ total' = total + k
      /\ buff' = [i \in DOMAIN buff |-> IF i \in total + 1..total + k THEN data[i - total] ELSE buff[i]]
  BY <1>2, <1>3
<1> HIDE DEF n, k
<1>8. Whole(stream)' /\ InOrder' /\ PushFaithful' /\ Expecting'
  <2>1. ~Early'
    BY <1>0 DEF Early
  <2> QED BY <1>0, <1>5, <1>6, <2>1, ReadFrame
<1>9. k \in 1..Rest(stream[1]) + 1
  BY <1>4, <1>5
<1>10. total' <= remaining /\ (total' < remaining => received' = total' /\ k <= Rest(stream[1]))
       /\ (total' = remaining => k = Rest(stream[1]) + 1)
  <2>1. n = remaining - total /\ n = Rest(stream[1]) + 1 /\ n \in Nat /\ k \in Nat /\ k <= n /\ k >= 1
    BY <1>4, <1>5 DEF n
  <2>2. Rest(stream[1]) = n - 1
    BY <1>4, <2>1 DEF n
  <2>3. total > 0 => k = n
    BY <1>5
  <2>4. k < n => total = 0
    BY <1>0, <2>1, <2>3
  <2>5. total' = total + k /\ received' = k
    BY <1>7
  <2> QED BY <1>0, <2>1, <2>2, <2>4, <2>5
<1>11. total' < remaining => stream' # <<>> /\ stream'[1] = ByteOf(m, total' + 3)
  <2>1. k <= Rest(stream[1]) => stream' # <<>> /\ stream'[1] = ByteOf(m, total + 3 + k)
    BY <1>0, <1>2, <1>4, <1>5, <1>9, NextByte DEF PushIInv
  <2>2. total + 3 + k = total' + 3
    BY <1>0, <1>5, <1>6, <1>7
  <2> QED BY <1>10, <2>1, <2>2
<1>12. total' = remaining => AtStart'
  BY <1>0, <1>2, <1>5, <1>9, <1>10, NextByte DEF PushIInv, AtStart
<1>13. \A i \in 1..total' : buff'[i] = ByteOf(m, i + 2)
  <2> SUFFICES ASSUME NEW i \in 1..total' PROVE buff'[i] = ByteOf(m, i + 2)
    OBVIOUS
  <2>1. i \in DOMAIN buff /\ i \in Int
    BY <1>0, <1>10, <1>7, <1>6, SizesAssumption DEF TypeOK
  <2>2. CASE i <= total
    <3>1. buff'[i] = buff[i] /\ i \in 1..total
      BY <1>0, <1>7, <2>1, <2>2
    <3> QED BY <1>1, <3>1 DEF Buffered
  <2>3. CASE i > total
    <3>0. k \in Nat /\ i <= total + k /\ Rest(stream[1]) \in Int /\ k <= Rest(stream[1]) + 1
      BY <1>0, <1>4, <1>5, <1>6, <1>7, <1>9
    <3>1. i \in total + 1..total + k /\ i - total \in 1..k /\ i - total - 1 \in 0..Rest(stream[1])
          /\ (i - total - 1) + 1 = i - total /\ total + 3 + (i - total - 1) = i + 2
      BY <1>0, <2>1, <2>3, <3>0
    <3>2. buff'[i] = stream[i - total]
      BY <1>5, <1>7, <2>1, <3>1
    <3>3. stream[(i - total - 1) + 1] = ByteOf(m, total + 3 + (i - total - 1))
      BY <1>0, <1>2, <1>4, <3>1, RestFollows DEF PushIInv
    <3> QED BY <3>1, <3>2, <3>3
  <2> QED BY <1>0, <2>1, <2>2, <2>3
<1>14. \A i \in 1..Len(stream') :
         m.type = "PUBLISH" /\ Publication(stream'[i]) /\ i > remaining - total' =>
           m.id < stream'[i].msg.id
  <2> SUFFICES ASSUME NEW i \in 1..Len(stream'), m.type = "PUBLISH", Publication(stream'[i]),
                      i > remaining - total'
               PROVE  m.id < stream'[i].msg.id
    OBVIOUS
  <2>0. k \in 0..Len(stream) /\ k \in Int /\ i \in Int
    BY <1>6
  <2>1. i + k \in 1..Len(stream) /\ stream'[i] = stream[i + k]
    BY <1>0, <1>5, <2>0, BytesDropped
  <2>2. i + k > remaining - total
    BY <1>0, <1>7, <2>0
  <2>3. Publication(stream[i + k])
    BY <2>1
  <2> QED BY <1>1, <2>1, <2>2, <2>3 DEF Buffered
<1>15. Buffered(m)'
  <2>1. Wanted' = Wanted
    BY <1>0 DEF Wanted, Expected
  <2> QED BY <1>0, <1>1, <1>10, <1>11, <1>12, <1>13, <1>14, <2>1 DEF Buffered, Publication, ByteOf
<1>16. Buffering'
  BY <1>15 DEF Buffering, Messages, Published, Message
<1>17. Reading'
  BY <1>0 DEF Reading, Early, Acks
<1> QED BY <1>8, <1>16, <1>17 DEF PushIInv

\* The body of the message that was read is pushed; it is a later one than the
\* last.
LEMMA MessagePushed ==
  ASSUME TaskIInv, PushIInv, MsgRead
  PROVE  \E m \in Messages :
           /\ m.id \in 1..published /\ m = Published(m.id)
           /\ pushed' = Body(m) /\ pushed' # <<>> /\ pushed'[1].msg.id = m.id
           /\ pushed # <<>> => pushed[1].msg.id < m.id
           /\ \A i \in 1..Len(stream) : Publication(stream[i]) => m.id < stream[i].msg.id
           /\ AtStart
<1>0. /\ TypeOK /\ stream \in Seq(ByteSet) /\ doing = "remaining" /\ taskState = "RECV_MSG"
      /\ total >= remaining /\ remaining > 0 /\ total \in Nat /\ remaining \in Nat
      /\ remaining <= MqttBufferSize /\ pushed' = SubSeq(buff, 1, remaining)
  BY DEF MsgRead, ReadComplete, TaskIInv, TypeOK, Place
<1>1. PICK m \in Messages : Buffered(m)
  BY <1>0 DEF PushIInv, Buffering
<1>2. /\ total = remaining /\ m.length = remaining /\ AtStart /\ m.type = "PUBLISH"
      /\ \A i \in 1..remaining : buff[i] = ByteOf(m, i + 2)
      /\ m.id <= published /\ (pushed # <<>> => pushed[1].msg.id < m.id)
      /\ \A i \in 1..Len(stream) : Publication(stream[i]) /\ i > 0 => m.id < stream[i].msg.id
  <2>1. total = remaining /\ m.type = "PUBLISH"
    BY <1>0, <1>1 DEF Buffered, Wanted
  <2>2. remaining - total = 0
    BY <1>0, <2>1
  <2> QED BY <1>1, <2>1, <2>2 DEF Buffered
<1>3. pushed' = Body(m)
  <2>1. /\ Body(m) \in Seq(ByteSet) /\ Len(Body(m)) = remaining
        /\ \A i \in 1..remaining : Body(m)[i] = ByteOf(m, i + 2)
    BY <1>2, BodyBytes
  <2>2. /\ buff \in Seq(ByteSet \cup {Zero}) /\ Len(buff) = MqttBufferSize
    BY <1>0, SizesAssumption DEF TypeOK
  <2>3. /\ pushed' \in Seq(ByteSet \cup {Zero}) /\ Len(pushed') = remaining
        /\ \A i \in 1..remaining : pushed'[i] = buff[i]
    BY <1>0, <2>2
  <2>4. \A i \in 1..remaining : pushed'[i] = Body(m)[i]
    BY <1>2, <2>1, <2>3
  <2>5. Body(m) \in Seq(ByteSet \cup {Zero})
    BY <2>1
  <2> QED BY <2>1, <2>3, <2>4, <2>5, SeqEqual
<1>4. m.id \in 1..published /\ m = Published(m.id)
  <2>1. m.id \in 1..Len(Lengths) /\ m = Published(m.id)
    BY <1>2, MessageKinds
  <2>2. published \in Int
    BY <1>0, LengthsAssumption DEF TypeOK
  <2> QED BY <1>2, <2>1, <2>2
<1>5. pushed' # <<>> /\ pushed'[1].msg.id = m.id
  <2>1. Body(m) # <<>>
    BY <1>0, <1>2, BodyBytes
  <2> QED BY <1>3, <2>1, BodyBytes
<1>6. \A i \in 1..Len(stream) : Publication(stream[i]) => m.id < stream[i].msg.id
  BY <1>2
<1> QED BY <1>2, <1>3, <1>4, <1>5, <1>6

LEMMA MsgReadKept ==
  ASSUME TaskIInv, PushIInv, MsgRead
  PROVE  PushIInv'
<1>0. /\ taskState = "RECV_MSG" /\ taskState' = "RECV_READY" /\ doing' = "ask"
      /\ UNCHANGED <<stream, lost, owed, subscribed, published>>
  BY DEF MsgRead, Continue, Return, EnvUnchanged, brokerVars
<1>1. PICK m \in Messages :
        /\ m.id \in 1..published /\ m = Published(m.id)
        /\ pushed' = Body(m) /\ pushed' # <<>> /\ pushed'[1].msg.id = m.id
        /\ \A i \in 1..Len(stream) : Publication(stream[i]) => m.id < stream[i].msg.id
        /\ AtStart
  BY MessagePushed
<1>2. PushFaithful'
  BY <1>0, <1>1 DEF PushFaithful, Body, Bytes, Published, Message
<1>3. InOrder'
  BY <1>0, <1>1 DEF PushIInv, InOrder, Publication, Rest
<1>4. Whole(stream)'
  BY <1>0 DEF PushIInv, Whole, Rest, ByteOf
<1>5. Expecting' /\ Reading' /\ Buffering'
  BY <1>0, <1>1 DEF PushIInv, Expecting, Reading, Buffering, Early, Acks, Receiving, AtStart, NextIs
<1> QED BY <1>2, <1>3, <1>4, <1>5 DEF PushIInv

-----------------------------------------------------------------------------
(* Steps that connect or send, and the broker.                             *)

LEMMA ConnectKept ==
  ASSUME PushIInv, SockConnected \/ Reconnect
  PROVE  PushIInv'
<1>1. /\ stream' = <<>> /\ owed' = <<>> /\ ~subscribed' /\ UNCHANGED <<pushed, published>>
      /\ taskState' \in {"SEND_CONNECT", "SOCK_CONNECT"} /\ doing' = "ask"
  BY DEF SockConnected, Reconnect, Continue, Return
<1>2. Whole(stream)' /\ InOrder'
  BY <1>1, NothingWhole DEF InOrder, Whole, Rest, ByteOf
<1>3. PushFaithful'
  BY <1>1 DEF PushIInv, PushFaithful, Body, Bytes, Published, Message
<1>4. Expecting' /\ Reading' /\ Buffering'
  BY <1>1 DEF Expecting, Reading, Buffering, Early, Acks, Receiving
<1> QED BY <1>2, <1>3, <1>4 DEF PushIInv

LEMMA SendKept ==
  ASSUME TypeOK, PushIInv, SendConnect \/ SendSubscribe \/ SendPingreq
  PROVE  PushIInv'
<1>0. UNCHANGED <<stream, lost, subscribed, pushed, published>>
  BY DEF SendConnect, SendSubscribe, SendPacket, SendPingreq, Sent
<1>1. Whole(stream)' /\ InOrder' /\ PushFaithful'
  BY <1>0 DEF PushIInv, Whole, InOrder, PushFaithful, Publication, Rest, ByteOf, Body, Bytes,
     Published, Message
<1>2. CASE SendConnect \/ SendSubscribe
  <2>1. PICK packet \in {"CONNECT", "SUBSCRIBE"} :
          /\ taskState \in {"SEND_CONNECT", "SEND_SUBSCRIBE"} /\ doing' = "ask"
          /\ taskState' = (IF packet = "CONNECT" THEN "RECV_CONNACK" ELSE "RECV_SUBACK")
          /\ Sent(packet)
    BY <1>2 DEF SendConnect, SendSubscribe, SendPacket, Runs, Continue, Return
  <2>2. stream = <<>> /\ owed = <<>> /\ ~subscribed
    BY <2>1 DEF PushIInv, Expecting
  <2>3. owed' = <<>> \/ owed' = <<packet>>
    BY <2>1, <2>2 DEF Sent
  <2>4. Expecting' /\ Reading' /\ Buffering'
    BY <1>0, <2>1, <2>2, <2>3 DEF Expecting, Reading, Buffering, Early, Acks, Receiving, AtStart
  <2> QED BY <1>1, <2>4 DEF PushIInv
<1>3. CASE SendPingreq
  <2>1. taskState = "SEND_PINGREQ" /\ doing = "run" /\ taskState' = "RECV_READY" /\ doing' = "ask"
    BY <1>3 DEF SendPingreq, Runs, Continue, Return
  <2>2. \A i \in 1..Len(owed') : owed'[i] = "PINGREQ"
    <3>1. \A i \in 1..Len(owed) : owed[i] = "PINGREQ"
      BY <2>1 DEF PushIInv, Expecting, Receiving
    <3>2. owed' = owed \/ owed' = Append(owed, "PINGREQ")
      BY <1>3 DEF SendPingreq, Sent
    <3>3. owed \in Seq({"CONNECT", "SUBSCRIBE", "PINGREQ"})
      BY DEF TypeOK
    <3> QED BY <3>1, <3>2, <3>3
  <2>3. Expecting' /\ Reading' /\ Buffering'
    BY <1>0, <2>1, <2>2 DEF PushIInv, Expecting, Reading, Buffering, Early, Acks, Receiving,
       AtStart, NextIs
  <2> QED BY <1>1, <2>3 DEF PushIInv
<1> QED BY <1>2, <1>3

\* A message put behind what is in the stream changes nothing for the handlers.
LEMMA AddedFrame ==
  ASSUME TypeOK, PushIInv, ~lost, NEW m \in Messages, stream' = stream \o Bytes(m),
         UNCHANGED <<taskState, doing, readVars, lost, pushed>>,
         subscribed' = subscribed \/ doing # "remaining",
         IF m.type = "PUBLISH" THEN published' = published + 1 /\ m.id = published'
           ELSE UNCHANGED published
  PROVE  Whole(stream)' /\ InOrder' /\ PushFaithful' /\ Reading' /\ Buffering'
<1>0. stream \in Seq(ByteSet) /\ published \in 0..Len(Lengths) /\ published \in Nat
  BY LengthsAssumption DEF TypeOK
<1>1. /\ \A i \in 1..Len(stream') :
           \/ i \in 1..Len(stream) /\ stream'[i] = stream[i]
           \/ i > Len(stream) /\ stream'[i] = ByteOf(m, i - Len(stream))
      /\ stream # <<>> => stream' # <<>> /\ stream'[1] = stream[1]
      /\ stream = <<>> => stream' # <<>> /\ stream'[1].at = 1
  BY <1>0, BytesAdded
<1>2. Whole(stream)'
  BY <1>0, WholeAppended DEF PushIInv, Whole, Rest, ByteOf
<1>3. InOrder'
  BY <1>0, OrderAdded DEF PushIInv
<1>4. published <= published' /\ published' \in Nat /\ (m.type = "PUBLISH" => published < m.id)
  BY <1>0
<1>5. PushFaithful'
  <2>1. pushed # <<>> => \E id \in 1..published' : pushed = Body(Published(id))
    BY <1>0, <1>4 DEF PushIInv, PushFaithful
  <2> QED BY <2>1 DEF PushFaithful, Body, Bytes, Published, Message
<1>6. AtStart => AtStart'
  BY <1>1 DEF AtStart
<1>7. \A i : NextIs(i) => NextIs(i)' /\ stream'[1] = stream[1]
  BY <1>1 DEF NextIs
<1>8. ~NoMore
  BY DEF NoMore
<1>9. Reading'
  <2>1. Early' = Early /\ UNCHANGED <<mtype, remaining, total>>
    BY DEF Early, readVars
  <2>2. NextIs(2) => NextIs(2)' /\ stream'[1] = stream[1]
    BY <1>7
  <2>3. NextIs(3) => NextIs(3)' /\ stream'[1] = stream[1]
    BY <1>7
  <2>4. Publication(stream[1])' = (stream'[1].msg.type = "PUBLISH")
    BY DEF Publication
  <2> QED BY <1>6, <1>8, <2>1, <2>2, <2>3, <2>4 DEF PushIInv, Reading, Publication
<1>10. Buffering'
  <2> SUFFICES ASSUME doing' = "remaining" PROVE \E b \in Messages : Buffered(b)'
    BY DEF Buffering, Messages, Published, Message
  <2>0. doing = "remaining" /\ subscribed' = subscribed /\ Wanted' = Wanted
        /\ UNCHANGED <<remaining, received, total, buff>>
    BY DEF Wanted, Expected, readVars
  <2>1. PICK b \in Messages : Buffered(b)
    BY <2>0 DEF PushIInv, Buffering
  <2>2. total < remaining => received = total /\ stream' # <<>> /\ stream'[1] = ByteOf(b, total + 3)
    BY <1>1, <2>1 DEF Buffered
  <2>3. total = remaining => AtStart'
    BY <1>6, <2>1 DEF Buffered
  <2>4. ASSUME b.type = "PUBLISH", NEW i \in 1..Len(stream'), Publication(stream'[i]),
               i > remaining - total
        PROVE  b.id < stream'[i].msg.id
    <3>1. CASE i \in 1..Len(stream) /\ stream'[i] = stream[i]
      BY <2>1, <2>4, <3>1 DEF Buffered
    <3>2. CASE i > Len(stream) /\ stream'[i] = ByteOf(m, i - Len(stream))
      <4>1. stream'[i].msg = m
        BY <3>2 DEF ByteOf
      <4>2. m.type = "PUBLISH"
        BY <2>4, <4>1 DEF Publication
      <4>3. b.id <= published /\ b.id \in Nat /\ m.id \in Nat
        BY <2>1, <2>4, MessageKinds DEF Buffered
      <4> QED BY <1>0, <1>4, <4>1, <4>2, <4>3
    <3> QED BY <1>1, <3>1, <3>2
  <2>5. b.type = "PUBLISH" => b.id <= published'
    <3>1. b.type = "PUBLISH" => b.id <= published /\ b.id \in Nat
      BY <2>1, MessageKinds DEF Buffered
    <3> QED BY <1>0, <1>4, <3>1
  <2>6. Buffered(b)'
    BY <2>0, <2>1, <2>2, <2>3, <2>4, <2>5 DEF Buffered, Publication, ByteOf
  <2> QED BY <2>6
<1> QED BY <1>2, <1>3, <1>5, <1>9, <1>10

\* Where the task can be while the broker answers or publishes.
LEMMA ConnectedStates ==
  ASSUME TypeOK, SocketPaired, sock = "open"
  PROVE  taskState \in {"SEND_CONNECT", "SEND_SUBSCRIBE"} \cup Acks \cup Receiving
                         \cup {"RECONNECT", "ERR_EXIT", "DISCONTINUED"}
BY DEF TypeOK, SocketPaired, Ended, TaskStates, Connected, Acks, Receiving

LEMMA AnswersKept ==
  ASSUME TaskIInv, PushIInv, BrokerAnswers
  PROVE  PushIInv'
<1>0. /\ TypeOK /\ SocketPaired /\ sock = "open" /\ ~lost /\ owed # <<>> /\ owed' = Tail(owed)
      /\ UNCHANGED <<taskState, doing, readVars, lost, published, pushed>>
      /\ stream \in Seq(ByteSet) /\ owed \in Seq({"CONNECT", "SUBSCRIBE", "PINGREQ"})
  BY DEF BrokerAnswers, TaskUnchanged, taskVars, TaskIInv, TypeOK
<1>1. Len(owed) >= 1 /\ 1 \in 1..Len(owed) /\ Head(owed) = owed[1]
  BY <1>0, EmptySeq
<1>2. PICK m \in Messages :
        /\ stream' = stream \o Bytes(m) /\ m.type # "PUBLISH"
        /\ \/ Head(owed) = "CONNECT" /\ m.type = "CONNACK" /\ subscribed' = subscribed
           \/ Head(owed) = "SUBSCRIBE" /\ m.type = "SUBACK" /\ subscribed' = (m.id = 1)
           \/ Head(owed) = "PINGREQ" /\ m.type = "PINGRESP" /\ subscribed' = subscribed
  <2>1. CASE Head(owed) = "CONNECT"
    <3>1. PICK ok \in {0, 1} : Answer(Message("CONNACK", ok, 2))
      BY <2>1 DEF BrokerAnswers
    <3>2. Message("CONNACK", ok, 2) \in Messages
      BY DEF Messages
    <3>3. Message("CONNACK", ok, 2).type = "CONNACK" /\ subscribed' = subscribed
      BY <2>1 DEF Message, BrokerAnswers
    <3> QED BY <2>1, <3>1, <3>2, <3>3 DEF Answer
  <2>2. CASE Head(owed) = "SUBSCRIBE"
    <3>1. PICK ok \in {0, 1} : Answer(Message("SUBACK", ok, 3)) /\ subscribed' = (ok = 1)
      BY <2>2 DEF BrokerAnswers
    <3>2. Message("SUBACK", ok, 3) \in Messages
      BY DEF Messages
    <3>3. Message("SUBACK", ok, 3).type = "SUBACK" /\ Message("SUBACK", ok, 3).id = ok
      BY DEF Message
    <3> QED BY <2>2, <3>1, <3>2, <3>3 DEF Answer
  <2>3. CASE Head(owed) = "PINGREQ"
    <3>1. Answer(Message("PINGRESP", 0, 0)) /\ subscribed' = subscribed
      BY <2>3 DEF BrokerAnswers
    <3>2. Message("PINGRESP", 0, 0) \in Messages
      BY DEF Messages
    <3>3. Message("PINGRESP", 0, 0).type = "PINGRESP"
      BY DEF Message
    <3> QED BY <2>3, <3>1, <3>2, <3>3 DEF Answer
  <2> QED BY <2>1, <2>2, <2>3 DEF BrokerAnswers
<1>3. /\ \A i \in 1..Len(stream') :
           \/ i \in 1..Len(stream) /\ stream'[i] = stream[i]
           \/ i > Len(stream) /\ stream'[i] = ByteOf(m, i - Len(stream))
  BY <1>0, <1>2, BytesAdded
<1>4. taskState \in Acks => Early
  BY <1>0 DEF PushIInv, Expecting
<1>5. \A k : ByteOf(m, k).msg = m /\ ByteOf(m, k).at = k
  BY DEF ByteOf
<1>6. Expecting'
  <2>1. CASE taskState \in {"SEND_CONNECT", "SEND_SUBSCRIBE"}
    BY <1>0, <2>1 DEF PushIInv, Expecting
  <2>2. CASE taskState \in Acks
    <3>1. /\ owed = <<IF taskState = "RECV_CONNACK" THEN "CONNECT" ELSE "SUBSCRIBE">>
          /\ stream = <<>> /\ ~subscribed
      BY <1>0, <2>2 DEF PushIInv, Expecting
    <3>2. owed' = <<>> /\ m.type = Expected
      BY <1>0, <1>1, <1>2, <2>2, <3>1 DEF Expected, Acks
    <3>3. Len(stream) = 0
      BY <3>1
    <3>4. \A i \in 1..Len(stream') : stream'[i] = ByteOf(m, i)
      BY <1>3, <3>3
    <3>5. Expected = "SUBACK" /\ m.id = 1 => subscribed'
      BY <1>2, <3>2
    <3>6. Expected = "CONNACK" => ~subscribed'
      BY <1>2, <3>1, <3>2
    <3>7. Early' /\ Expected' = Expected
      BY <1>0, <1>4, <2>2 DEF Early, Expected
    <3>8. \A i \in 1..Len(stream') :
            /\ stream'[i].msg.type = Expected
            /\ i <= stream'[i].at
            /\ Expected = "SUBACK" /\ stream'[i].msg.id = 1 => subscribed'
      <4> TAKE i \in 1..Len(stream')
      <4>1. stream'[i].msg = m /\ stream'[i].at = i /\ i \in Int
        BY <1>5, <3>4
      <4> QED BY <3>2, <3>5, <4>1
    <3> QED BY <1>0, <2>2, <3>2, <3>6, <3>7, <3>8 DEF Expecting, Acks, Receiving, Expected
  <2>3. CASE taskState \in Receiving
    <3>1. /\ subscribed
          /\ \A i \in 1..Len(owed) : owed[i] = "PINGREQ"
          /\ \A i \in 1..Len(stream) : stream[i].msg.type \in {"PUBLISH", "PINGRESP"}
      BY <2>3 DEF PushIInv, Expecting
    <3>2. m.type = "PINGRESP" /\ subscribed' = subscribed
      BY <1>1, <1>2, <3>1
    <3>3. \A i \in 1..Len(owed') : owed'[i] = "PINGREQ"
      BY <1>0, <1>1, <3>1
    <3>4. \A i \in 1..Len(stream') : stream'[i].msg.type \in {"PUBLISH", "PINGRESP"}
      BY <1>3, <1>5, <3>1, <3>2
    <3> QED BY <1>0, <2>3, <3>1, <3>2, <3>3, <3>4 DEF Expecting, Acks, Receiving
  <2>4. CASE taskState \in {"RECONNECT", "ERR_EXIT", "DISCONTINUED"}
    BY <1>0, <2>4 DEF Expecting, Acks, Receiving
  <2> QED BY <1>0, <2>1, <2>2, <2>3, <2>4, ConnectedStates
<1>7. subscribed' = subscribed \/ doing # "remaining"
  <2>1. CASE Head(owed) = "SUBSCRIBE"
    <3>1. taskState \notin Receiving /\ taskState \notin {"SEND_CONNECT", "SEND_SUBSCRIBE"}
      BY <1>0, <1>1, <2>1 DEF PushIInv, Expecting
    <3>2. doing = "remaining" => taskState \in Acks \cup Receiving
      BY DEF TaskIInv, Place, Acks, Receiving
    <3> QED BY <1>4, <3>1, <3>2 DEF Early
  <2> QED BY <1>2, <2>1
<1>8. Whole(stream)' /\ InOrder' /\ PushFaithful' /\ Reading' /\ Buffering'
  BY <1>0, <1>2, <1>7, AddedFrame
<1> QED BY <1>6, <1>8 DEF PushIInv

LEMMA PublishesKept ==
  ASSUME TaskIInv, PushIInv, BrokerPublishes
  PROVE  PushIInv'
<1>0. /\ TypeOK /\ SocketPaired /\ sock = "open" /\ ~lost /\ subscribed
      /\ UNCHANGED <<taskState, doing, readVars, lost, owed, subscribed, pushed>>
      /\ stream \in Seq(ByteSet) /\ published' = published + 1 /\ published < Len(Lengths)
  BY DEF BrokerPublishes, TaskUnchanged, taskVars, TaskIInv, TypeOK
<1> DEFINE m == Published(published')
<1>1. published' \in 1..Len(Lengths)
  BY <1>0, LengthsAssumption DEF TypeOK
<1>2. /\ m \in Messages /\ m.type = "PUBLISH" /\ m.id = published' /\ stream' = stream \o Bytes(m)
  BY <1>1, LengthsAssumption DEF Messages, Published, Message, BrokerPublishes, Answer
<1> HIDE DEF m
<1>3. /\ \A i \in 1..Len(stream') :
           \/ i \in 1..Len(stream) /\ stream'[i] = stream[i]
           \/ i > Len(stream) /\ stream'[i] = ByteOf(m, i - Len(stream))
  BY <1>0, <1>2, BytesAdded
<1>5. \A k : ByteOf(m, k).msg = m
  BY DEF ByteOf
<1>6. Expecting'
  <2>1. CASE taskState \in {"SEND_CONNECT", "SEND_SUBSCRIBE"}
    BY <1>0, <2>1 DEF PushIInv, Expecting
  <2>2. CASE taskState \in Acks
    <3>1. owed = <<>> /\ taskState = "RECV_SUBACK"
      BY <1>0, <2>2 DEF PushIInv, Expecting, Acks
    <3>2. Early' = Early /\ Expected' = Expected
      BY <1>0 DEF Early, Expected
    <3>3. \A i \in 1..Len(stream) :
            \/ /\ stream[i].msg.type = Expected
               /\ IF Early THEN i <= stream[i].at ELSE i < stream[i].at
               /\ Expected = "SUBACK" /\ stream[i].msg.id = 1 => subscribed
            \/ stream[i].msg.type = "PUBLISH"
      BY <2>2 DEF PushIInv, Expecting, Publication
    <3>4. \A i \in 1..Len(stream') :
            \/ /\ stream'[i].msg.type = Expected
               /\ IF Early THEN i <= stream'[i].at ELSE i < stream'[i].at
               /\ Expected = "SUBACK" /\ stream'[i].msg.id = 1 => subscribed
            \/ stream'[i].msg.type = "PUBLISH"
      BY <1>2, <1>3, <1>5, <3>3
    <3> QED BY <1>0, <2>2, <3>1, <3>2, <3>4 DEF Expecting, Acks, Receiving, Publication
  <2>3. CASE taskState \in Receiving
    <3>1. /\ \A i \in 1..Len(owed) : owed[i] = "PINGREQ"
          /\ \A i \in 1..Len(stream) : stream[i].msg.type \in {"PUBLISH", "PINGRESP"}
      BY <2>3 DEF PushIInv, Expecting
    <3>4. \A i \in 1..Len(stream') : stream'[i].msg.type \in {"PUBLISH", "PINGRESP"}
      BY <1>2, <1>3, <1>5, <3>1
    <3> QED BY <1>0, <2>3, <3>1, <3>4 DEF Expecting, Acks, Receiving
  <2>4. CASE taskState \in {"RECONNECT", "ERR_EXIT", "DISCONTINUED"}
    BY <1>0, <2>4 DEF Expecting, Acks, Receiving
  <2> QED BY <1>0, <2>1, <2>2, <2>3, <2>4, ConnectedStates
<1>8. Whole(stream)' /\ InOrder' /\ PushFaithful' /\ Reading' /\ Buffering'
  BY <1>0, <1>2, AddedFrame
<1> QED BY <1>6, <1>8 DEF PushIInv

LEMMA LostKept ==
  ASSUME PushIInv, ConnectionLost
  PROVE  PushIInv'
<1>1. /\ lost' = TRUE /\ ~lost
      /\ UNCHANGED <<taskState, doing, readVars, stream, owed, subscribed, published, pushed>>
  BY DEF ConnectionLost, TaskUnchanged, taskVars, brokerVars
<1>2. Whole(stream)' /\ InOrder' /\ PushFaithful'
  BY <1>1 DEF PushIInv, Whole, InOrder, PushFaithful, Publication, Rest, ByteOf, Body, Bytes,
     Published, Message
<1>3. Expecting'
  <2>1. Early' = Early /\ Expected' = Expected
    BY <1>1 DEF Early, Expected
  <2>2. \A i \in 1..Len(stream) : Publication(stream[i])' = Publication(stream[i])
    BY <1>1 DEF Publication
  <2> QED BY <1>1, <2>1, <2>2 DEF PushIInv, Expecting, Acks, Receiving
<1>4. Reading'
  BY <1>1 DEF PushIInv, readVars, Reading, Early, Acks, AtStart, NextIs, NoMore, Publication
<1>5. Buffering'
  BY <1>1 DEF PushIInv, readVars, Buffering, Buffered, Expected, Wanted, AtStart, Publication,
     Messages, Published, Message, ByteOf
<1> QED BY <1>2, <1>3, <1>4, <1>5 DEF PushIInv

LEMMA PushKept ==
  ASSUME Fits, TaskIInv, PushIInv, [Next]_vars
  PROVE  PushIInv'
<1>1. TypeOK
  BY DEF TaskIInv
<1> QED BY <1>1, LoopKept, LeavesKept, HeaderFailsKept, AckHeaderKept, ReadyHeaderKept, RecvMsgKept,
        AckReadKept, TrashNotRead, StopKept, ReadTypeKept, ReadLengthKept, ReadRemainingKept,
        MsgReadKept, ConnectKept, SendKept, AnswersKept, PublishesKept, LostKept
        DEF Next, Task, Environment

LEMMA PushInitially == Init => PushIInv
<1> SUFFICES ASSUME Init PROVE PushIInv
  OBVIOUS
<1> QED BY NothingWhole DEF Init, PushIInv, InOrder, Expecting, Reading, Buffering, PushFaithful,
        Early, Acks, Receiving

\* While each message fits the buffer and comes in time and in at most two
\* pieces, every handler reads exactly what the broker sent it to read.
THEOREM PushInductive == Fits => (Spec => []PushIInv)
<1>1. Fits /\ TaskIInv /\ PushIInv /\ [Next]_vars => PushIInv'
  BY PushKept
<1>2. CASE Fits
  BY <1>1, <1>2, PushInitially, TaskInductive, PTL DEF Spec
<1> QED BY <1>2

\* _mqtt_state_recv_ready is entered only after an accepted SUBSCRIBE.
THEOREM AlwaysSubscribed == Fits => (Spec => []SubscribedWhenReady)
<1>1. PushIInv => SubscribedWhenReady
  BY DEF PushIInv, Expecting, Receiving, SubscribedWhenReady
<1> QED BY <1>1, PushInductive, PTL

\* The next header read is one (_mqtt_recv_fixed_header).
THEOREM AlwaysInStep == Fits => (Spec => []InStep)
<1>1. PushIInv => InStep
  BY DEF PushIInv, Reading, AtStart, Early, InStep
<1> QED BY <1>1, PushInductive, PTL

\* What cb_push gets is a whole published message, however it was cut in two.
THEOREM AlwaysPushFaithful == Fits => (Spec => []PushFaithful)
<1>1. PushIInv => PushFaithful
  BY DEF PushIInv
<1> QED BY <1>1, PushInductive, PTL

-----------------------------------------------------------------------------
(* The channel.                                                            *)

\* The steps that call cb_push and publish, and all others.
LEMMA PushedOrKept ==
  ASSUME [Next]_vars, ~MsgRead
  PROVE  /\ UNCHANGED pushed
         /\ BrokerPublishes \/ UNCHANGED published
<1>1. CASE BrokerPublishes
  BY <1>1 DEF BrokerPublishes, TaskUnchanged
<1>2. CASE ~BrokerPublishes
  BY <1>2 DEF Next, Task, Environment, vars, brokerVars, EnvUnchanged, TaskUnchanged,
     AskContinue, TaskExit, InstallPush, GetEndpoint, SockConnected, SockConnectFails,
     SendConnect, ConnectTooLong, SendSubscribe, HandshakeSendFails, Reconnect, SendPacket, SendFails,
     Sent, RecvAck, RecvReady, ReadType, ReadLength, HeaderFails, AckHeader, ReadyHeader, RecvMsg,
     ReadRemaining, ReadTrash, ReadFails, AckRead, TrashRead, SendPingreq, PingreqFails,
     AppStops, BrokerAnswers, ConnectionLost
<1> QED BY <1>1, <1>2

\* What cb_push was given last is the message that the task remembers.
HandedInv ==
  /\ handed \in Seq(Seq(ByteSet \cup {Zero}))
  /\ handed = <<>> <=> pushed = <<>>
  /\ handed # <<>> => handed[Len(handed)] = pushed

LEMMA HandedKept ==
  ASSUME TaskIInv, PushIInv, TypeOK', HandedInv, [PushNext]_pushVars
  PROVE  HandedInv'
<1>1. CASE PushNext /\ MsgRead
  <2>1. handed' = Append(handed, pushed') /\ pushed' # <<>>
    BY <1>1, MessagePushed DEF PushNext
  <2>2. handed \in Seq(Seq(ByteSet \cup {Zero})) /\ pushed' \in Seq(ByteSet \cup {Zero})
    BY DEF HandedInv, TypeOK
  <2>3. /\ handed' \in Seq(Seq(ByteSet \cup {Zero})) /\ handed' # <<>>
        /\ handed'[Len(handed')] = pushed'
    BY <2>1, <2>2, AppendProperties
  <2> QED BY <2>1, <2>3 DEF HandedInv
<1>2. CASE PushNext /\ ~MsgRead
  BY <1>2, PushedOrKept DEF PushNext, HandedInv
<1>3. CASE UNCHANGED pushVars
  BY <1>3 DEF pushVars, vars, HandedInv
<1> QED BY <1>1, <1>2, <1>3

\* A body is known by its first byte.
LEMMA DeliveredFirst ==
  ASSUME PushFaithful, published \in 0..Len(Lengths), pushed # <<>>
  PROVE  IdOf(pushed) = pushed[1].msg.id
<1>1. PICK id \in 1..published : pushed = Body(Published(id))
  BY DEF PushFaithful
<1>2. id \in DOMAIN Lengths
  BY LengthsAssumption
<1> QED BY <1>1, <1>2 DEF IdOf

LEMMA ChannelStep ==
  ASSUME TaskIInv, PushIInv, HandedInv, TaskIInv', PushIInv', [PushNext]_pushVars
  PROVE  [Channel!Next]_<<published, Deliveries>>
<1>0. /\ published \in 0..Len(Lengths) /\ published' \in 0..Len(Lengths)
      /\ PushFaithful /\ PushFaithful'
      /\ handed \in Seq(Seq(ByteSet \cup {Zero})) /\ pushed' \in Seq(ByteSet \cup {Zero})
  BY DEF TaskIInv, TypeOK, PushIInv, HandedInv
<1>1. /\ DOMAIN Deliveries = 1..Len(handed) /\ Len(handed) \in Nat
      /\ handed = <<>> <=> Len(handed) = 0
  BY <1>0 DEF Deliveries
<1>2. CASE PushNext /\ MsgRead
  <2>1. PICK m \in Messages :
          /\ m.id \in 1..published
          /\ pushed' # <<>> /\ pushed'[1].msg.id = m.id
          /\ pushed # <<>> => pushed[1].msg.id < m.id
    BY <1>2, MessagePushed
  <2>2. handed' = Append(handed, pushed') /\ UNCHANGED published
    BY <1>2 DEF PushNext, MsgRead, EnvUnchanged, brokerVars
  <2>3. IdOf(pushed') = m.id
    <3>1. (PushFaithful /\ published \in 0..Len(Lengths) /\ pushed # <<>>
             => IdOf(pushed) = pushed[1].msg.id)'
      BY DeliveredFirst, PTL
    <3> QED BY <1>0, <2>1, <3>1, Zenon
  <2>4. Deliveries' = Append(Deliveries, m.id)
    BY <1>0, <2>2, <2>3 DEF Deliveries
  <2>5. m.id \in Channel!Latest + 1..published
    <3>1. CASE handed = <<>>
      <4>1. Deliveries = <<>>
        BY <3>1 DEF Deliveries
      <4> QED BY <2>1, <4>1 DEF Channel!Latest
    <3>2. CASE handed # <<>>
      <4>1. pushed # <<>> /\ handed[Len(handed)] = pushed
        BY <3>2 DEF HandedInv
      <4>2. IdOf(pushed) = pushed[1].msg.id /\ pushed[1].msg.id \in 1..published
        BY <1>0, <4>1, DeliveredFirst, PushedIsPublished
      <4>3. Deliveries # <<>> /\ Len(Deliveries) = Len(handed)
        BY <1>1, <3>2 DEF Deliveries
      <4>4. Channel!Latest = pushed[1].msg.id
        BY <1>1, <3>2, <4>1, <4>2, <4>3 DEF Channel!Latest, Deliveries
      <4> QED BY <1>0, <2>1, <4>1, <4>2, <4>4
    <3> QED BY <3>1, <3>2
  <2>6. Channel!Deliver
    BY <2>2, <2>4, <2>5 DEF Channel!Deliver
  <2> QED BY <2>6 DEF Channel!Next
<1>3. CASE PushNext /\ ~MsgRead
  <2>1. UNCHANGED Deliveries
    BY <1>3 DEF PushNext, Deliveries
  <2>2. BrokerPublishes \/ UNCHANGED published
    BY <1>3, PushedOrKept DEF PushNext
  <2> QED BY <2>1, <2>2 DEF Channel!Next, Channel!Publish, BrokerPublishes
<1>4. CASE UNCHANGED pushVars
  BY <1>4 DEF pushVars, vars, brokerVars, Deliveries
<1> QED BY <1>2, <1>3, <1>4

\* cb_push gets every message at most once, whole, and in the order of their
\* publication, over any number of connections (kii.h:547).
THEOREM PushImplementsChannel == Fits => (PushSpec => ImplementsChannel)
<1>1. PushInit => Init /\ Channel!Init /\ HandedInv
  BY EmptySeq DEF PushInit, Init, Channel!Init, Deliveries, HandedInv
<1>2. [PushNext]_pushVars => [Next]_vars
  BY DEF PushNext, pushVars
<1>3. PushSpec => Spec
  BY <1>1, <1>2, PTL DEF PushSpec, Spec
<1>4. TaskIInv => TypeOK
  BY DEF TaskIInv
<1>5. TaskIInv /\ PushIInv /\ TaskIInv' /\ HandedInv /\ [PushNext]_pushVars => HandedInv'
  BY <1>4, HandedKept DEF TaskIInv
<1>6. TaskIInv /\ PushIInv /\ HandedInv /\ TaskIInv' /\ PushIInv' /\ [PushNext]_pushVars
        => [Channel!Next]_<<published, Deliveries>>
  BY ChannelStep
<1>7. CASE Fits
  BY <1>1, <1>3, <1>5, <1>6, <1>7, PushInductive, TaskInductive, PTL
     DEF PushSpec, ImplementsChannel, Channel!Spec, Channel!channelVars
<1> QED BY <1>7
=============================================================================
