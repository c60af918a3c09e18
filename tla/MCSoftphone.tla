---------------------------- MODULE MCSoftphone -----------------------------
(* The instance of Softphone for the softphone runs: the constants are in  *)
(* the cfg.                                                                *)
EXTENDS Softphone
=============================================================================
