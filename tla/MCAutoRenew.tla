---------------------------- MODULE MCAutoRenew ----------------------------
(***************************************************************************)
(* Instances of AutoRenew for TLC.                                         *)
(***************************************************************************)
EXTENDS AutoRenew, MCUserSession

SpecRenewing == InitLoggedIn /\ [][RenewNext]_vars

FairRenewing == SpecRenewing /\ Goes
=============================================================================
