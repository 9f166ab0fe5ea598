--------------------------- MODULE MCConnSession ---------------------------
(***************************************************************************)
(* Instances of ConnSession for TLC.                                       *)
(***************************************************************************)
EXTENDS ConnSession, MCUserSession
=============================================================================
