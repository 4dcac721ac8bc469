---------------------------- MODULE MCLiveBridge ----------------------------
(* Model checking of LiveBridge: the bound is given in the configurations. *)
EXTENDS LiveBridge
=============================================================================
