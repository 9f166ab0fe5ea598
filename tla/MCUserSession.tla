--------------------------- MODULE MCUserSession ---------------------------
(***************************************************************************)
(* Instances of UserSession for TLC.                                       *)
(***************************************************************************)
EXTENDS UserSession, TLC

(* Ids are opaque and requests alike; foreign ids keep apart. *)
Symmetry == Permutations(Reqs) \cup Permutations(Sids \ Foreign)

(***************************************************************************)
(* A later start: the foreign ids are sessions in which one user logged in *)
(* with FirstRole, a role no call of the instance writes, and whose ids    *)
(* were delivered.                                                         *)
(***************************************************************************)
FirstRole == 0

InitLoggedIn ==
  LET u == CHOOSE v \in Uids : TRUE
      t == CHOOSE v \in Ttls : TRUE
  IN  /\ store = [s \in Sids |-> IF s \in Foreign
                    THEN [Missing EXCEPT !.user = [uid |-> u, role |-> FirstRole], !.ttl = t]
                    ELSE Missing]
      /\ umap = [v \in Uids |-> IF v = u THEN [sids |-> Foreign, ttl |-> MapTtl] ELSE EmptySet]
      /\ issued = [s \in Sids |-> IF s \in Foreign THEN [ttl |-> t, born |-> 0] ELSE Nil]
      /\ known = Foreign
      /\ obj = [r \in Reqs |-> Closed]
      /\ clock = 0 /\ faults = 0
      /\ owner = [s \in Sids |-> IF s \in Foreign THEN u ELSE Nil]

SpecLoggedIn == InitLoggedIn /\ [][Next]_vars
=============================================================================
