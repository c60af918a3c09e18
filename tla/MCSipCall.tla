------------------------------ MODULE MCSipCall -----------------------------
(* The instance of SipCall for sip_call.cfg: the constants are in the cfg. *)
EXTENDS SipCall
=============================================================================
