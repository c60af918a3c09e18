--------------------------- MODULE MCRegistration ---------------------------
(* The instance of Registration for the registration runs: the constants   *)
(* are in the cfg.                                                         *)
EXTENDS Registration
=============================================================================
