------------------------------ MODULE MCPubSub ------------------------------
(* Model checking of PubSub: two descriptors, two channels and a limit of one *)
(* subscription, so that a SUBSCRIBE meets the limit half way.                *)
EXTENDS PubSub
=============================================================================
