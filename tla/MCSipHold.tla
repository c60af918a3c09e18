------------------------------ MODULE MCSipHold -----------------------------
(* The instance of SipHold for sip_hold.cfg: the constants are in the cfg. *)
EXTENDS SipHold
=============================================================================
