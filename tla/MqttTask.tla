------------------------------ MODULE MqttTask ------------------------------
(***************************************************************************)
(* The push task of kii (kii_mqtt_task.c): it registers the thing for      *)
(* push, connects to the MQTT broker, subscribes, and then receives        *)
(* messages and keeps the connection alive for ever, starting again from   *)
(* the connection when anything fails.  One step is one call of a          *)
(* callback by the handler of the current state, together with all the     *)
(* handler does until the next one.                                        *)
(*                                                                         *)
(* A byte is its place in a message, so that a byte read for what it is    *)
(* not can be told: place 1 is the type, place 2 the remaining length.     *)
(* The messages are shorter than 128 bytes, so that their length is one    *)
(* byte; a byte that is no length may look like the first of several.      *)
(***************************************************************************)
EXTENDS Integers, Sequences, SequencesExt

CONSTANTS
  Lengths,          \* The remaining length of each message to be published.
  MqttBufferSize,   \* _mqtt_buffer_size.
  TrashSize,        \* The size of the array that _mqtt_recv_remaining_trash reads into.
  KeepAlive,        \* _keep_alive_interval, in seconds.
  RecvTimeout,      \* _mqtt_to_recv_sec.
  UIntRange,        \* The number of values of an unsigned int.
  LateBytes,        \* May a receive time out with a message half delivered?
  ManyPieces,       \* May a message be delivered in more than two pieces?
  EofCode,          \* What cb_recv answers at the end of the connection: "OK" or "FAIL".
  MaxUnread         \* Bound on the bytes that the broker has sent and the task not received.

WAIT_MS == 1000
ARRIVED_MSG_READ_TIME == 500
MSG_SEND_TIME == 500

ASSUME LengthsAssumption == Lengths \in Seq(Nat \ {0})
ASSUME SizesAssumption == MqttBufferSize \in Nat /\ MqttBufferSize >= 3 /\ TrashSize \in Nat \ {0}
ASSUME TimesAssumption ==
  /\ KeepAlive \in Nat /\ RecvTimeout \in Nat
  /\ UIntRange \in Nat /\ UIntRange > MSG_SEND_TIME
ASSUME SocketAssumption ==
  /\ LateBytes \in BOOLEAN /\ ManyPieces \in BOOLEAN /\ EofCode \in {"OK", "FAIL"}
  /\ MaxUnread \in Nat

VARIABLES
  stop,             \* Does the application want the task to end?
  taskState, error, \* info.task_state, info.error.
  doing,            \* The call of the loop or of the handler that comes next.
  endpointFits,     \* Is _mqtt_buffer large enough for the CONNECT of the endpoint?
  mtype, remaining, \* The fixed header read last; remaining_message_size.
  received, total,  \* received and total_received of the receiving loops; total is i in
                    \* the loop that reads the length.
  buff,             \* The bytes in the buffer being filled.
  elapsed,          \* elapsed_time_ms.
  pushed,           \* The last message given to cb_push.
  sock,             \* Is the MQTT socket "open"?
  stream, lost,     \* The bytes the task has yet to receive; is it all there will be?
  owed,             \* The requests the broker has to answer.
  subscribed,       \* Has the broker acknowledged the subscription?
  published         \* The messages published so far.

taskVars == <<taskState, error, doing>>
readVars == <<mtype, remaining, received, total, buff>>
brokerVars == <<owed, subscribed, published>>
vars == <<stop, taskVars, endpointFits, readVars, elapsed, pushed, sock, stream, lost, brokerVars>>

\* The states in which there is a connection, and those in which it is used.
Connected == {"SEND_CONNECT", "RECV_CONNACK", "SEND_SUBSCRIBE", "RECV_SUBACK",
  "RECV_READY", "RECV_MSG", "SEND_PINGREQ", "RECONNECT"}
TaskStates == {"INSTALL_PUSH", "GET_ENDPOINT", "SOCK_CONNECT", "ERR_EXIT", "DISCONTINUED"}
  \cup Connected

MTypes == {"CONNACK", "SUBACK", "PUBLISH", "PINGRESP", "other"}

-----------------------------------------------------------------------------
(* Messages.                                                               *)

\* id tells publications apart; an acknowledgement has id 0 if it refuses.
Message(t, id, n) == [type |-> t, id |-> id, length |-> n]
Published(id) == Message("PUBLISH", id, Lengths[id])
Bytes(m) == [i \in 1..m.length + 2 |-> [msg |-> m, at |-> i]]
Zero == [msg |-> Message("other", 0, 0), at |-> 0]  \* After memset.
Body(m) == SubSeq(Bytes(m), 3, m.length + 2)

\* What a byte is taken for: a byte out of place may look like anything.
MaxLength == MqttBufferSize + 1
TypeOf(b) == IF b.at = 1 THEN {b.msg.type} ELSE MTypes
LengthOf(b) == IF b.at = 2 THEN {b.msg.length} ELSE 0..MaxLength

\* The remaining length when data, its last byte or nothing, has been read.
DecodedLength(data) ==
  IF total > 0 THEN 0..MaxLength
  ELSE IF data = <<>> THEN {0} ELSE LengthOf(data[1])

\* The acknowledgement in the buffer: its last byte has the return code.
Accepted(t, n) ==
  IF \A i \in 1..n : buff[i].msg.type = t /\ buff[i].at = i + 2
    THEN {buff[n].msg.id = 1} ELSE BOOLEAN

-----------------------------------------------------------------------------
(* Receiving.                                                              *)

\* cb_recv may deliver any part of what is there; how often is up to the network.
Delivered(n, later) ==
  LET most == IF n < Len(stream) THEN n ELSE Len(stream)
  IN {SubSeq(stream, 1, k) : k \in (IF later /\ ~ManyPieces THEN {most} ELSE 1..most) \ {0}}
     \cup (IF stream = <<>> /\ lost /\ EofCode = "OK" THEN {<<>>} ELSE {})

\* A receive that times out, or fails with the connection.
RecvFails ==
  \/ stream = <<>> /\ ~(lost /\ EofCode = "OK")
  \/ stream # <<>> /\ LateBytes

Consume(data) == stream' = SubSeq(stream, Len(data) + 1, Len(stream))

-----------------------------------------------------------------------------
(* Where the handlers go.                                                  *)

\* The handler returns: its local variables are gone; what is kept of the
\* message is remaining_message_size.
Cleared == [i \in 1..MqttBufferSize |-> Zero]
Return(s) ==
  /\ taskState' = s /\ doing' = "ask"
  /\ mtype' = "other" /\ received' = 0 /\ total' = 0 /\ buff' = Cleared
  /\ remaining' = IF s = "RECV_MSG" THEN remaining ELSE 0

Continue(s) == Return(s) /\ UNCHANGED error
Fail(code) == Return("ERR_EXIT") /\ error' = code

\* The handler goes on to its next call.
Call(call) == doing' = call /\ UNCHANGED <<taskState, error>>

\* Mutant: the counter is a signed int.
SignedInt(n) ==
  IF n % UIntRange < UIntRange \div 2 THEN n % UIntRange ELSE (n % UIntRange) - UIntRange

UInt(n) == n % UIntRange

ElapsedBy(ms) == elapsed' = UInt(elapsed + ms)

\* A failure in the middle of receiving messages starts the clock again.
ReconnectNow == Continue("RECONNECT") /\ elapsed' = 0

EnvUnchanged == UNCHANGED <<stop, sock, lost, brokerVars>>

-----------------------------------------------------------------------------
(* The loop of mqtt_start_task.                                            *)

\* Mutant: the application is asked only while there is a connection.
AskContinueConnected ==
  /\ doing = "ask"
  /\ IF taskState = "ERR_EXIT" THEN Call("exit")
     ELSE IF stop /\ taskState \in Connected
       THEN taskState' = "DISCONTINUED" /\ doing' = "exit" /\ UNCHANGED error
     ELSE Call("run")
  /\ UNCHANGED <<endpointFits, readVars, elapsed, pushed, stream>>
  /\ EnvUnchanged

AskContinue ==
  /\ doing = "ask"
  /\ IF taskState = "ERR_EXIT" THEN Call("exit")
     ELSE IF stop THEN taskState' = "DISCONTINUED" /\ doing' = "exit" /\ UNCHANGED error
     ELSE Call("run")
  /\ UNCHANGED <<endpointFits, readVars, elapsed, pushed, stream>>
  /\ EnvUnchanged

\* cb_task_exit is called and the task returns.
TaskExit ==
  /\ doing = "exit"
  /\ Call("done")
  /\ UNCHANGED <<endpointFits, readVars, elapsed, pushed, stream>>
  /\ EnvUnchanged

Runs(s) == doing = "run" /\ taskState = s

-----------------------------------------------------------------------------
(* Registration and connection.                                            *)

\* A temporal error of the server is tried again, any other ends the task.
InstallPush ==
  /\ Runs("INSTALL_PUSH")
  /\ Continue("GET_ENDPOINT") \/ Continue("INSTALL_PUSH") \/ Fail("INSTALLATION")
  /\ UNCHANGED <<endpointFits, elapsed, pushed, stream>>
  /\ EnvUnchanged

GetEndpoint ==
  /\ Runs("GET_ENDPOINT")
  /\ \/ Continue("SOCK_CONNECT") /\ endpointFits' \in BOOLEAN
     \/ Continue("GET_ENDPOINT") /\ UNCHANGED endpointFits
     \/ Fail("GET_ENDPOINT") /\ UNCHANGED endpointFits
  /\ UNCHANGED <<elapsed, pushed, stream>>
  /\ EnvUnchanged

SockConnected ==
  /\ Runs("SOCK_CONNECT")
  /\ Continue("SEND_CONNECT")
  /\ sock' = "open" /\ stream' = <<>> /\ lost' = FALSE
  /\ owed' = <<>> /\ subscribed' = FALSE
  /\ UNCHANGED <<stop, endpointFits, elapsed, pushed, published>>

SockConnectFails ==
  /\ Runs("SOCK_CONNECT")
  /\ Continue("SOCK_CONNECT")
  /\ UNCHANGED <<endpointFits, elapsed, pushed, stream>>
  /\ EnvUnchanged

\* A packet reaches the broker, unless the connection is lost meanwhile.  The
\* broker answers several PINGREQ at once.  The sends that take a part of it
\* change nothing but total_sent: the broker acts on a whole packet, and one of
\* them that fails is SendFails or PingreqFails.
Sent(packet) ==
  /\ owed' = IF lost \/ packet \in Range(owed) THEN owed ELSE Append(owed, packet)
  /\ UNCHANGED <<stop, sock, lost, subscribed, published, endpointFits, pushed, stream>>

\* The packets of the handshake: what is sent, and where it leads.
SendPacket(s, packet, next) ==
  /\ Runs(s)
  /\ Continue(next) /\ Sent(packet)
  /\ UNCHANGED elapsed

SendFails(s) ==
  /\ Runs(s)
  /\ Continue("RECONNECT")
  /\ UNCHANGED <<endpointFits, elapsed, pushed, stream>>
  /\ EnvUnchanged

SendConnect == endpointFits /\ SendPacket("SEND_CONNECT", "CONNECT", "RECV_CONNACK")

ConnectTooLong ==
  /\ Runs("SEND_CONNECT") /\ ~endpointFits
  /\ Fail("INSUFFICIENT_BUFF")
  /\ UNCHANGED <<endpointFits, elapsed, pushed, stream>>
  /\ EnvUnchanged

SendSubscribe == SendPacket("SEND_SUBSCRIBE", "SUBSCRIBE", "RECV_SUBACK")

HandshakeSendFails ==
  \/ endpointFits /\ SendFails("SEND_CONNECT")
  \/ SendFails("SEND_SUBSCRIBE")

\* Mutant: the socket is not closed.
ReconnectOpen ==
  /\ Runs("RECONNECT")
  /\ Continue("SOCK_CONNECT")
  /\ UNCHANGED <<endpointFits, elapsed, pushed, stream>>
  /\ EnvUnchanged

Reconnect ==
  /\ Runs("RECONNECT")
  /\ Continue("SOCK_CONNECT")
  /\ sock' = "closed" /\ stream' = <<>> /\ lost' = FALSE
  /\ owed' = <<>> /\ subscribed' = FALSE
  /\ UNCHANGED <<stop, endpointFits, elapsed, pushed, published>>

-----------------------------------------------------------------------------
(* The fixed header.                                                       *)

RecvAck ==
  /\ Runs("RECV_CONNACK") \/ Runs("RECV_SUBACK")
  /\ Call("type")
  /\ UNCHANGED <<endpointFits, readVars, elapsed, pushed, stream>>
  /\ EnvUnchanged

\* Mutant: the timeout is added.
LateThreshold == UInt((KeepAlive + RecvTimeout) * 1000)

Threshold == UInt((KeepAlive - RecvTimeout) * 1000)

RecvReady ==
  /\ Runs("RECV_READY")
  /\ IF elapsed > Threshold THEN Continue("SEND_PINGREQ") ELSE Call("type") /\ UNCHANGED readVars
  /\ UNCHANGED <<endpointFits, elapsed, pushed, stream>>
  /\ EnvUnchanged

\* The header reads one byte at a time; the end of the connection reads as zeros.
ReadType ==
  /\ doing = "type"
  /\ \E data \in Delivered(1, FALSE) :
       /\ Consume(data)
       /\ mtype' \in (IF data = <<>> THEN {"other"} ELSE TypeOf(data[1]))
  /\ Call("length")
  /\ UNCHANGED <<endpointFits, remaining, received, total, buff, elapsed, pushed>>
  /\ EnvUnchanged

\* A byte of the remaining length: the last one, or one with the continue bit.
ReadLength ==
  /\ doing = "length"
  /\ \E data \in Delivered(1, FALSE) :
       /\ Consume(data)
       /\ \/ /\ Call("header")
             /\ remaining' \in DecodedLength(data)
             /\ UNCHANGED total
          \/ /\ total < 3 /\ data # <<>> /\ data[1].at # 2
             /\ total' = total + 1
             /\ UNCHANGED <<taskVars, remaining>>
  /\ UNCHANGED <<endpointFits, mtype, received, buff, elapsed, pushed>>
  /\ EnvUnchanged

\* Mutant: a receive that times out takes no time.
HeaderFailsUncounted ==
  /\ doing \in {"type", "length"} /\ RecvFails
  /\ Continue(IF taskState = "RECV_READY" THEN "RECV_READY" ELSE "RECONNECT")
  /\ UNCHANGED <<endpointFits, elapsed, pushed, stream>>
  /\ EnvUnchanged

\* No header in time.  Once subscribed that is no failure: there was no message.
HeaderFails ==
  /\ doing \in {"type", "length"} /\ RecvFails
  /\ IF taskState = "RECV_READY"
       THEN Continue("RECV_READY") /\ ElapsedBy(RecvTimeout * 1000 + WAIT_MS)
       ELSE Continue("RECONNECT") /\ UNCHANGED elapsed
  /\ UNCHANGED <<endpointFits, pushed, stream>>
  /\ EnvUnchanged

\* The message the handler expects, and how many bytes it reads of it,
\* whatever the header says.
Expected == IF taskState = "RECV_CONNACK" THEN "CONNACK" ELSE "SUBACK"

AckHeader ==
  /\ doing = "header" /\ taskState \in {"RECV_CONNACK", "RECV_SUBACK"}
  /\ \/ /\ mtype = Expected
        /\ Call("remaining") /\ UNCHANGED mtype
        /\ remaining' = IF mtype = "CONNACK" THEN 2 ELSE 3
        /\ received' = 0 /\ total' = 0 /\ buff' = Cleared
     \/ /\ mtype # Expected
        /\ Continue("RECONNECT")
  /\ UNCHANGED <<endpointFits, elapsed, pushed, stream>>
  /\ EnvUnchanged

\* PINGRESP has no more bytes; any other message but PUBLISH is read and ignored.
ReadyHeader ==
  /\ doing = "header" /\ taskState = "RECV_READY"
  /\ \/ /\ mtype = "PUBLISH"
        /\ Continue("RECV_MSG")
        /\ ElapsedBy(RecvTimeout * 1000)
     \/ /\ mtype = "PINGRESP"
        /\ Continue("RECV_READY")
        /\ ElapsedBy(ARRIVED_MSG_READ_TIME)
     \/ /\ mtype \notin {"PUBLISH", "PINGRESP"}
        /\ Call("trash")
        /\ received' = 0 /\ total' = 0
        /\ UNCHANGED <<mtype, remaining, buff, elapsed>>
  /\ UNCHANGED <<endpointFits, pushed, stream>>
  /\ EnvUnchanged

RecvMsg ==
  /\ Runs("RECV_MSG")
  /\ received' = 0 /\ total' = 0
  /\ IF remaining > MqttBufferSize
       THEN Call("trash") /\ UNCHANGED buff
       ELSE Call("remaining") /\ buff' = Cleared
  /\ UNCHANGED <<endpointFits, mtype, remaining, elapsed, pushed, stream>>
  /\ EnvUnchanged

-----------------------------------------------------------------------------
(* The rest of a message.                                                  *)

\* Mutant: each receive asks for the whole message.
ReadRemainingWhole ==
  /\ doing = "remaining" /\ total < remaining
  /\ \E data \in Delivered(remaining, total > 0) :
       /\ Consume(data)
       /\ buff' = [i \in DOMAIN buff |->
            IF i \in received + 1..received + Len(data) THEN data[i - received] ELSE buff[i]]
       /\ received' = Len(data)
       /\ total' = total + Len(data)
  /\ UNCHANGED <<taskVars, endpointFits, mtype, remaining, elapsed, pushed>>
  /\ EnvUnchanged

\* Mutant: each piece is stored at the start of the buffer.
ReadRemainingAtStart ==
  /\ doing = "remaining" /\ total < remaining
  /\ \E data \in Delivered(remaining - received, total > 0) :
       /\ Consume(data)
       /\ buff' = [i \in DOMAIN buff |-> IF i \in DOMAIN data THEN data[i] ELSE buff[i]]
       /\ received' = Len(data)
       /\ total' = total + Len(data)
  /\ UNCHANGED <<taskVars, endpointFits, mtype, remaining, elapsed, pushed>>
  /\ EnvUnchanged

\* _mqtt_recv_remaining: each piece is stored after as many bytes as the
\* piece before it had.
ReadRemaining ==
  /\ doing = "remaining" /\ total < remaining
  /\ \E data \in Delivered(remaining - received, total > 0) :
       /\ Consume(data)
       /\ buff' = [i \in DOMAIN buff |->
            IF i \in received + 1..received + Len(data) THEN data[i - received] ELSE buff[i]]
       /\ received' = Len(data)
       /\ total' = total + Len(data)
  /\ UNCHANGED <<taskVars, endpointFits, mtype, remaining, elapsed, pushed>>
  /\ EnvUnchanged

\* _mqtt_recv_remaining_trash: it always asks for as much as its array holds.
ReadTrash ==
  /\ doing = "trash" /\ total < remaining
  /\ \E data \in Delivered(TrashSize, total > 0) :
       /\ Consume(data)
       /\ received' = Len(data)
       /\ total' = total + Len(data)
  /\ UNCHANGED <<taskVars, endpointFits, mtype, remaining, buff, elapsed, pushed>>
  /\ EnvUnchanged

\* Both answer KHC_SOCK_FAIL also if there was nothing to read.
ReadFails ==
  /\ doing \in {"remaining", "trash"}
  /\ remaining = 0 \/ (total < remaining /\ RecvFails)
  /\ IF taskState \in {"RECV_CONNACK", "RECV_SUBACK"}
       THEN Continue("RECONNECT") /\ UNCHANGED elapsed
       ELSE ReconnectNow
  /\ UNCHANGED <<endpointFits, pushed, stream>>
  /\ EnvUnchanged

ReadComplete(call) == doing = call /\ remaining > 0 /\ total >= remaining

\* Mutant: the return code is not looked at.
AckReadUnchecked ==
  /\ ReadComplete("remaining") /\ taskState \in {"RECV_CONNACK", "RECV_SUBACK"}
  /\ Continue(IF taskState = "RECV_CONNACK" THEN "SEND_SUBSCRIBE" ELSE "RECV_READY")
  /\ UNCHANGED <<endpointFits, elapsed, pushed, stream>>
  /\ EnvUnchanged

\* Mutant: every acknowledgement leads to the subscription.
AckReadResubscribes ==
  /\ ReadComplete("remaining") /\ taskState \in {"RECV_CONNACK", "RECV_SUBACK"}
  /\ \E ok \in Accepted(Expected, remaining) :
       Continue(IF ok THEN "SEND_SUBSCRIBE" ELSE "RECONNECT")
  /\ UNCHANGED <<endpointFits, elapsed, pushed, stream>>
  /\ EnvUnchanged

AckRead ==
  /\ ReadComplete("remaining") /\ taskState \in {"RECV_CONNACK", "RECV_SUBACK"}
  /\ \E ok \in Accepted(Expected, remaining) :
       Continue(IF ~ok THEN "RECONNECT"
                ELSE IF taskState = "RECV_CONNACK" THEN "SEND_SUBSCRIBE" ELSE "RECV_READY")
  /\ UNCHANGED <<endpointFits, elapsed, pushed, stream>>
  /\ EnvUnchanged

\* Mutant: the handler does not go back to waiting.
MsgReadAgain ==
  /\ ReadComplete("remaining") /\ taskState = "RECV_MSG"
  /\ UNCHANGED <<taskVars, readVars>>
  /\ ElapsedBy(ARRIVED_MSG_READ_TIME)
  /\ pushed' = SubSeq(buff, 1, remaining)
  /\ UNCHANGED <<endpointFits, stream>>
  /\ EnvUnchanged

\* cb_push_received gets the message.  What it gets is the end of it, after a
\* topic whose length the first two bytes give: that is a part of the message
\* that is right when all of it is right.
MsgRead ==
  /\ ReadComplete("remaining") /\ taskState = "RECV_MSG"
  /\ Continue("RECV_READY")
  /\ ElapsedBy(ARRIVED_MSG_READ_TIME)
  /\ pushed' = SubSeq(buff, 1, remaining)
  /\ UNCHANGED <<endpointFits, stream>>
  /\ EnvUnchanged

TrashRead ==
  /\ ReadComplete("trash")
  /\ Continue("RECV_READY")
  /\ IF taskState = "RECV_MSG" THEN ElapsedBy(ARRIVED_MSG_READ_TIME + WAIT_MS) ELSE UNCHANGED elapsed
  /\ UNCHANGED <<endpointFits, pushed, stream>>
  /\ EnvUnchanged

-----------------------------------------------------------------------------
(* Keep-alive.                                                             *)

SendPingreq ==
  /\ Runs("SEND_PINGREQ")
  /\ Continue("RECV_READY") /\ Sent("PINGREQ")
  /\ elapsed' = MSG_SEND_TIME

PingreqFails ==
  /\ Runs("SEND_PINGREQ")
  /\ ReconnectNow
  /\ UNCHANGED <<endpointFits, pushed, stream>>
  /\ EnvUnchanged

-----------------------------------------------------------------------------
(* The application and the broker.                                         *)

AppStops ==
  /\ ~stop /\ stop' = TRUE
  /\ UNCHANGED <<taskVars, endpointFits, readVars, elapsed, pushed, sock, stream, lost, brokerVars>>

TaskUnchanged == UNCHANGED <<stop, taskVars, endpointFits, readVars, elapsed, pushed, sock>>

Answer(m) ==
  /\ Len(stream) + m.length + 2 <= MaxUnread
  /\ stream' = stream \o Bytes(m)

\* The broker answers the oldest request.
BrokerAnswers ==
  /\ sock = "open" /\ ~lost /\ owed # <<>>
  /\ owed' = Tail(owed)
  /\ \/ /\ Head(owed) = "CONNECT"
        /\ \E ok \in {0, 1} : Answer(Message("CONNACK", ok, 2))
        /\ UNCHANGED subscribed
     \/ /\ Head(owed) = "SUBSCRIBE"
        /\ \E ok \in {0, 1} : Answer(Message("SUBACK", ok, 3)) /\ subscribed' = (ok = 1)
     \/ /\ Head(owed) = "PINGREQ"
        /\ Answer(Message("PINGRESP", 0, 0))
        /\ UNCHANGED subscribed
  /\ UNCHANGED <<lost, published>>
  /\ TaskUnchanged

BrokerPublishes ==
  /\ sock = "open" /\ ~lost /\ subscribed
  /\ published < Len(Lengths)
  /\ published' = published + 1
  /\ Answer(Published(published'))
  /\ UNCHANGED <<lost, owed, subscribed>>
  /\ TaskUnchanged

ConnectionLost ==
  /\ sock = "open" /\ ~lost
  /\ lost' = TRUE
  /\ UNCHANGED <<stream, brokerVars>>
  /\ TaskUnchanged

Init ==
  /\ stop = FALSE
  /\ taskState = "INSTALL_PUSH" /\ error = "OK" /\ doing = "ask"
  /\ endpointFits = FALSE
  /\ mtype = "other" /\ remaining = 0 /\ received = 0 /\ total = 0
  /\ buff = Cleared
  /\ elapsed = 0
  /\ pushed = <<>>
  /\ sock = "closed" /\ stream = <<>> /\ lost = FALSE
  /\ owed = <<>> /\ subscribed = FALSE /\ published = 0

Task ==
  \/ AskContinue \/ TaskExit
  \/ InstallPush \/ GetEndpoint \/ SockConnected \/ SockConnectFails
  \/ SendConnect \/ ConnectTooLong \/ SendSubscribe \/ HandshakeSendFails \/ Reconnect
  \/ RecvAck \/ RecvReady \/ ReadType \/ ReadLength \/ HeaderFails
  \/ AckHeader \/ ReadyHeader \/ RecvMsg
  \/ ReadRemaining \/ ReadTrash \/ ReadFails \/ AckRead \/ MsgRead \/ TrashRead
  \/ SendPingreq \/ PingreqFails

Environment == AppStops \/ BrokerAnswers \/ BrokerPublishes \/ ConnectionLost

Next == Task \/ Environment

Spec == Init /\ [][Next]_vars
(***************************************************************************)
(* The loop of the task goes on as long as callbacks return, and so does   *)
(* the broker that has a request to answer.                                *)
(***************************************************************************)
FairSpec == Spec /\ WF_vars(Task) /\ WF_vars(BrokerAnswers)

-----------------------------------------------------------------------------
(* Safety.                                                                 *)

ByteSet == UNION {Range(Bytes(m)) : m \in
  {Published(id) : id \in DOMAIN Lengths}
  \cup {Message("CONNACK", ok, 2) : ok \in {0, 1}}
  \cup {Message("SUBACK", ok, 3) : ok \in {0, 1}}
  \cup {Message("PINGRESP", 0, 0)}}

TypeOK ==
  /\ stop \in BOOLEAN
  /\ taskState \in TaskStates
  /\ error \in {"OK", "INSTALLATION", "GET_ENDPOINT", "INSUFFICIENT_BUFF"}
  /\ doing \in {"ask", "run", "type", "length", "header", "remaining", "trash", "exit", "done"}
  /\ endpointFits \in BOOLEAN
  /\ mtype \in MTypes
  /\ remaining \in Nat /\ received \in Nat /\ total \in Nat
  /\ buff \in [1..MqttBufferSize -> ByteSet \cup {Zero}]
  /\ elapsed \in 0..UIntRange - 1
  /\ pushed \in Seq(ByteSet \cup {Zero})
  /\ sock \in {"closed", "open"}
  /\ stream \in Seq(ByteSet) /\ lost \in BOOLEAN
  /\ owed \in Seq({"CONNECT", "SUBSCRIBE", "PINGREQ"})
  /\ subscribed \in BOOLEAN
  /\ published \in 0..Len(Lengths)

Ended == taskState \in {"ERR_EXIT", "DISCONTINUED"}

(***************************************************************************)
(* The socket is open in exactly the states that use it: a connection is   *)
(* never made while another is open, and never used or closed when there   *)
(* is none, whichever of the many failures led to the next state.          *)
(***************************************************************************)
SocketPaired == ~Ended => (sock = "open" <=> taskState \in Connected)

(***************************************************************************)
(* The task waits for messages only on a connection on which the broker    *)
(* has accepted the subscription.                                          *)
(***************************************************************************)
SubscribedWhenReady ==
  taskState \in {"RECV_READY", "RECV_MSG", "SEND_PINGREQ"} => subscribed

(***************************************************************************)
(* Whenever the task waits for a message, the next byte is the first byte  *)
(* of one: no handler has read too little or too much before.              *)
(***************************************************************************)
InStep ==
  taskState = "RECV_READY" /\ doing \in {"ask", "run", "type"} =>
    stream = <<>> \/ stream[1].at = 1

(***************************************************************************)
(* What cb_push gets is the body of a message that was published, all of   *)
(* it and nothing else (kii.h:547 "cb_push is called when message is       *)
(* delivered to the thing").                                               *)
(***************************************************************************)
PushFaithful == pushed # <<>> => \E id \in 1..published : pushed = Body(Published(id))

\* The most that one round through RECV_READY and RECV_MSG adds to elapsed_time_ms.
MaxRound == RecvTimeout * 1000 + ARRIVED_MSG_READ_TIME + WAIT_MS

(***************************************************************************)
(* With a keep-alive interval longer than the timeout (tio.h:530) and far  *)
(* from the range of unsigned int, elapsed_time_ms exceeds the threshold   *)
(* by one round at most before PINGREQ resets it: it never wraps around.   *)
(***************************************************************************)
ElapsedBounded ==
  KeepAlive > RecvTimeout /\ KeepAlive * 1000 + MaxRound < UIntRange =>
    elapsed <= (KeepAlive - RecvTimeout) * 1000 + MaxRound

-----------------------------------------------------------------------------
(* Liveness.                                                               *)

(***************************************************************************)
(* Once the application wants it to, the task ends and calls cb_task_exit  *)
(* (tio.h:434 "If continue_cb returns KII_TRUE, task continues. Otherwise  *)
(* the task exits the infinite loop").                                     *)
(***************************************************************************)
StopHonoured == stop ~> doing = "done"

(***************************************************************************)
(* A subscribed task does not stay silent: it sends PINGREQ, unless the    *)
(* connection fails or the task ends.                                      *)
(***************************************************************************)
KeepsAlive ==
  taskState = "RECV_READY" ~> taskState \in {"SEND_PINGREQ", "RECONNECT", "ERR_EXIT", "DISCONTINUED"}

=============================================================================
