---------------------------- MODULE MCSessionApp ---------------------------
(***************************************************************************)
(* Instances of SessionApp for TLC: the client has logged in and holds the *)
(* foreign id.                                                             *)
(***************************************************************************)
EXTENDS SessionApp, MCUserSession

(* Role 0 is the first of the two roles of the application, 1 the second. *)
MCNeeds ==
  [index |-> {}, login |-> {}, profile |-> {0, 1}, modify |-> {0, 1}, user |-> {1}]

AppLoggedIn ==
  /\ InitLoggedIn
  /\ flow = [r \in Reqs |-> NoFlow]
  /\ token \in Foreign /\ used = {token} /\ plain = TRUE

(* Bound: the clock ticks only where nothing fails and the client only asks *)
(* to be served.                                                            *)
Budget == clock = 0 \/ (faults = 0 /\ plain)

SpecAppLoggedIn == AppLoggedIn /\ [][AppNext]_allVars
=============================================================================
