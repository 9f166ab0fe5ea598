------------------------------ MODULE MCWsApp ------------------------------
(***************************************************************************)
(* Instances of WsApp for TLC: the client starts without a session, or has *)
(* logged in before.                                                       *)
(***************************************************************************)
EXTENDS WsApp, MCUserSession

WsLoggedIn ==
  /\ InitLoggedIn /\ ConnInit
  /\ flow = [r \in Reqs |-> NoFlow] /\ token \in Foreign

(* Servers are alike. *)
WsSymmetry == Symmetry \cup Permutations(Servers)

SpecWs == (WsInit \/ WsLoggedIn) /\ [][WsNext]_allVars
=============================================================================
