--------------------------- MODULE MCMqttListener ---------------------------
(* MqttListener on a few deltas, one of which is not a message. *)
EXTENDS MqttListener

==============================================================================
