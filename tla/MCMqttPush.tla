----------------------------- MODULE MCMqttPush -----------------------------
(***************************************************************************)
(* The messages that the run of MqttPush publishes.                        *)
(***************************************************************************)
EXTENDS MqttPush

ThreeMessages == <<3, 1, 3>>
=============================================================================
