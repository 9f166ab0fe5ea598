----------------------------- MODULE LoginLife -----------------------------
(***************************************************************************)
(* What a session id promises to whoever holds it, without Redis, requests *)
(* or cached objects: an id carries at most one login in its life, that    *)
(* login belongs to one user, and once it is over (logged out, destroyed,  *)
(* expired or replaced) the id never carries a login again.                *)
(***************************************************************************)
CONSTANTS Sids, Uids, Nil

VARIABLES
  life,  \* how far the life of each id has come
  who    \* the user whose login the id carries

Stages == {"unborn", "pending", "live", "over"}

LifeTypeOK ==
  /\ life \in [Sids -> Stages]
  /\ who \in [Sids -> Uids \cup {Nil}]

Init ==
  /\ life \in [Sids -> {"unborn", "over"}]
  /\ who = [s \in Sids |-> Nil]

(* An id is generated: for a login about to be stored, or for no login. *)
Generate(s) ==
  /\ life[s] = "unborn"
  /\ \E l \in {"pending", "over"} : life' = [life EXCEPT ![s] = l]
  /\ UNCHANGED who

LogIn(s, u) ==
  /\ life[s] = "pending"
  /\ life' = [life EXCEPT ![s] = "live"]
  /\ who' = [who EXCEPT ![s] = u]

(* Any number of ids end at once: a tick of the clock may expire several. *)
End(S) ==
  /\ \A s \in S : life[s] \in {"pending", "live"}
  /\ life' = [s \in Sids |-> IF s \in S THEN "over" ELSE life[s]]
  /\ who' = [s \in Sids |-> IF s \in S THEN Nil ELSE who[s]]

Next ==
  \/ \E s \in Sids : Generate(s)
  \/ \E s \in Sids, u \in Uids : LogIn(s, u)
  \/ \E S \in SUBSET Sids : End(S)

Spec == Init /\ [][Next]_<<life, who>>
=============================================================================
