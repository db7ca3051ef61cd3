---------------------------- MODULE MCMqttFetch -----------------------------
(***************************************************************************)
(* Values for the constants of MqttFetch: a topic whose callback is set    *)
(* and deleted at any time, and a few calls of send.                       *)
(***************************************************************************)
EXTENDS MqttFetch

CONSTANT bids

MCTopic == {bids}
MCBodies == {"some"}
=============================================================================
