----------------------------- MODULE MCMqttTask -----------------------------
(***************************************************************************)
(* The messages that the runs of MqttTask publish: messages that a buffer  *)
(* of three bytes holds, and one that it does not.                         *)
(***************************************************************************)
EXTENDS MqttTask

TooLong == <<4>>
ThreeMessages == <<3, 1, 3>>
OneTooLong == <<4, 2>>
=============================================================================
