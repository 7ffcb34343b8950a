------------------------- MODULE MCDispatchControls -------------------------
(* DispatchControls on small instances: the constants come from the cfg.   *)
EXTENDS DispatchControls
=============================================================================
