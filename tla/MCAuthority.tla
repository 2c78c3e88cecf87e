---------------------------- MODULE MCAuthority ----------------------------
(* The instance of Authority that TLC checks; Authority.cfg gives the bounds. *)
EXTENDS Authority
=============================================================================
