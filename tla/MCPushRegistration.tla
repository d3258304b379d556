------------------------- MODULE MCPushRegistration -------------------------
(* A small instance of PushRegistration.                                   *)
EXTENDS PushRegistration

CONSTANTS c1, c2
=============================================================================
