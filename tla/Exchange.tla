------------------------------ MODULE Exchange ------------------------------
(***************************************************************************)
(* What handle() of crates/router promises for one request: at most one    *)
(* answer, which tells what became of the request and no more than the     *)
(* client may know.  The text of a closed error stays in the program.      *)
(***************************************************************************)
CONSTANTS
  Nil,
  Replies    \* what a controller can answer

VARIABLES
  proto,     \* "http", "framed" or "cli"
  phase,     \* "none", "pending", "decided" or "over"
  issued,    \* whether a new session id was issued for the client
  outcome,   \* Nil, "ok", "open" or "closed"
  answer     \* Nil or [body, sid]

vars == <<proto, phase, issued, outcome, answer>>

Init ==
  /\ phase = "none" /\ issued = FALSE /\ outcome = Nil /\ answer = Nil

Begin ==
  /\ phase = "none" /\ phase' = "pending"
  /\ UNCHANGED <<proto, issued, outcome, answer>>

Issue ==
  /\ phase = "pending" /\ issued' = TRUE
  /\ UNCHANGED <<proto, phase, outcome, answer>>

Decide ==
  /\ phase = "pending" /\ phase' = "decided"
  /\ outcome' \in {"ok", "open", "closed"}
  /\ UNCHANGED <<proto, issued, answer>>

(* An openly error is told, a closed one is "unavailable". *)
Bodies ==
  IF outcome = "ok" THEN Replies ELSE IF outcome = "open" THEN {"message"} ELSE {"unavailable"}

(* Over HTTP an id that was issued always reaches the client; over no       *)
(* protocol is there an id that was not issued.                             *)
Answer ==
  /\ phase = "decided" /\ phase' = "over"
  /\ \E body \in Bodies, sid \in BOOLEAN :
       /\ sid => issued
       /\ proto = "http" => sid = issued
       /\ answer' = [body |-> body, sid |-> sid]
  /\ UNCHANGED <<proto, issued, outcome>>

(* Only the other protocols may leave a request without an answer. *)
Silence ==
  /\ phase = "decided" /\ phase' = "over" /\ proto # "http"
  /\ UNCHANGED <<proto, issued, outcome, answer>>

(* The task of the request panics. *)
Crash ==
  /\ phase \in {"none", "pending"} /\ phase' = "over"
  /\ UNCHANGED <<proto, issued, outcome, answer>>

End ==
  /\ phase = "over" /\ phase' = "none"
  /\ issued' = FALSE /\ outcome' = Nil /\ answer' = Nil
  /\ UNCHANGED proto

Next == Begin \/ Issue \/ Decide \/ Answer \/ Silence \/ Crash \/ End

Spec == Init /\ [][Next]_vars
=============================================================================
