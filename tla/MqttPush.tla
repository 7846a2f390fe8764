------------------------------ MODULE MqttPush ------------------------------
(***************************************************************************)
(* MqttTask implements PushChannel as long as the socket delivers each     *)
(* message in at most two pieces and in time, and the messages fit the     *)
(* buffer; and with finitely many faults, a task that is not told to stop  *)
(* gets back to receiving messages.                                        *)
(***************************************************************************)
EXTENDS MqttTask

VARIABLE handed  \* All that cb_push_received has been given, call by call.

pushVars == <<vars, handed>>

PushInit == Init /\ handed = <<>>

PushNext ==
  /\ Next
  /\ handed' = IF MsgRead THEN Append(handed, pushed') ELSE handed

PushSpec == PushInit /\ [][PushNext]_pushVars
PushFairSpec == PushSpec /\ WF_vars(Task) /\ WF_vars(BrokerAnswers)

\* The publication that a body is of, and none there is for anything else.
IdOf(body) ==
  IF \E id \in DOMAIN Lengths : body = Body(Published(id)) THEN body[1].msg.id
  ELSE Len(Lengths) + 1

Deliveries == [i \in DOMAIN handed |-> IdOf(handed[i])]

Channel == INSTANCE PushChannel WITH
  Publications <- Len(Lengths), published <- published, delivered <- Deliveries

(***************************************************************************)
(* Every call of cb_push delivers one whole message, later than all those  *)
(* delivered before: none is delivered a second time, not even the last,   *)
(* whatever connections are lost and made in between (kii.h:547 "cb_push   *)
(* is called when message is delivered to the thing").                     *)
(***************************************************************************)
ImplementsChannel == Channel!Spec

-----------------------------------------------------------------------------
(* Faults.                                                                 *)

\* The broker refuses the connection or the subscription.
Refusal == BrokerAnswers /\ Last(stream').msg.id = 0 /\ Head(owed) # "PINGREQ"

\* The broker does not answer in time during the handshake.
NoAnswer == HeaderFails /\ taskState # "RECV_READY" /\ ~lost
ReadTimeout == ReadFails /\ remaining > 0 /\ ~lost

FaultStep ==
  \/ SockConnectFails \/ HandshakeSendFails \/ PingreqFails
  \/ ConnectionLost \/ Refusal \/ NoAnswer \/ ReadTimeout

(***************************************************************************)
(* Once faults are over, a lost connection is made again: whatever failed  *)
(* on the way, the task subscribes again, unless it is told to stop or the *)
(* endpoint it got does not fit its buffer.                                *)
(***************************************************************************)
Recovers ==
  <>[][~FaultStep]_vars =>
    (taskState = "RECONNECT" ~> taskState \in {"RECV_READY", "ERR_EXIT", "DISCONTINUED"})

=============================================================================
