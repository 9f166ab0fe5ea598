---------------------------- MODULE ConnSession ----------------------------
(***************************************************************************)
(* The Connection trait of crates/session, as RedisSession implements it   *)
(* with the feature connection.  A connection keeps a root session for its *)
(* whole life; each of its requests works on a clone that points back to   *)
(* the root.  The first renewal stores the server's address in the new     *)
(* session, every renewal moves the root to the new id, and disconnect     *)
(* takes the address out again.                                            *)
(*                                                                         *)
(* A connection serves its messages one at a time, so slot r is both the   *)
(* connection and its request.                                             *)
(***************************************************************************)
EXTENDS AutoRenew

CONSTANT Servers   \* addresses the servers listen on

ASSUME NoServerIsNil == Nil \notin Servers

VARIABLES
  root,   \* connection -> its root session, server_unbound as status
  due     \* request slot -> renew has yet to call update_shadow

connVars == <<root, due>>

(* closed: no root, so that a session's shadow leads nowhere; unbound is   *)
(* Some(Some(server)), bound is Some(None).  History: stored, Redis        *)
(* confirmed the address; judged, try_renew destroyed the session of the   *)
(* connection in favour of a newer one.                                    *)
NoRoot ==
  [status |-> "closed", sid |-> Nil, server |-> Nil, stored |-> FALSE, judged |-> FALSE]

Connected(r) == root[r].status # "closed"

Connect(r, s, a) ==
  /\ ~ Connected(r)
  /\ root' = [root EXCEPT ![r] = [NoRoot EXCEPT !.status = "unbound", !.sid = s, !.server = a]]
  /\ UNCHANGED <<due, store, umap, known, obj, clock, faults, owner>>

(* The root is new_with_id of an id the client sends, or a new session.    *)
ConnectWith(r, s, a) == s \in known /\ Connect(r, s, a) /\ UNCHANGED issued

ConnectNew(r, s, t, a) ==
  /\ s \in Fresh /\ Connect(r, s, a)
  /\ issued' = [issued EXCEPT ![s] = [ttl |-> t, born |-> clock]]

(* The clone takes the id of the message, by default that of the root.     *)
CloneForRequest(r, s) ==
  /\ Connected(r) /\ obj[r].pc = "closed"
  /\ s \in known \cup {root[r].sid}
  /\ obj' = [obj EXCEPT ![r] = Object(s, issued[s].ttl)]
  /\ UNCHANGED <<connVars, store, umap, issued, known, clock, faults, owner>>

-----------------------------------------------------------------------------

(* renew of RedisSession has come back from user::renew without an error.  *)
PastRenew(o) ==
  \/ o.op = "tryRenew" /\ o.pc = "ctouch"
  \/ o.op \in {"login", "autoLogin"} /\ o.pc \in {"csrem", "cdel"}

Work(r) ==
  /\ ~ due[r] /\ (Command(r) \/ TryRenew(r))
  /\ due' = [due EXCEPT ![r] = PastRenew(obj'[r]) /\ ~ PastRenew(obj[r])]
  /\ root' = [root EXCEPT ![r].judged = @ \/ (obj[r].op = "condemn" /\ At(r, "destroydel"))]

(* Mistake: the root keeps the id it was connected with. *)
UpdateShadowKeepsId(r) ==
  LET o == obj[r] IN
  /\ due[r] /\ Connected(r)
  /\ due' = [due EXCEPT ![r] = FALSE]
  /\ Await(r, [store EXCEPT ![o.sid] = HSet(@, "server", root[r].server)], umap, o, o)
  /\ root' = [root EXCEPT ![r].status = "bound", ![r].stored = TRUE]

(***************************************************************************)
(* update_shadow: an unbound root stores its address with the new id, the  *)
(* answer ignored, and counts as bound; the root takes the new id.  Without *)
(* a root renew fails here.                                                *)
(***************************************************************************)
UpdateShadow(r) ==
  LET o == obj[r] IN
  /\ due[r] /\ due' = [due EXCEPT ![r] = FALSE]
  /\ CASE root[r].status = "closed" ->
            /\ obj' = [obj EXCEPT ![r] = Return(o, "err")]
            /\ UNCHANGED <<root, store, umap, issued, known, clock, faults, owner>>
       [] root[r].status = "unbound" ->
            /\ Await(r, [store EXCEPT ![o.sid] = HSet(@, "server", root[r].server)], umap, o, o)
            /\ root' = [root EXCEPT ![r].status = "bound", ![r].sid = o.sid,
                                    ![r].stored = (faults' = faults)]
       [] root[r].status = "bound" ->
            /\ root' = [root EXCEPT ![r].sid = o.sid]
            /\ UNCHANGED vars

(* Mistakes: the address stays in Redis; the root outlives its connection. *)
DisconnectKeepsAddress(r) ==
  /\ Connected(r) /\ obj[r].pc = "closed"
  /\ root' = [root EXCEPT ![r] = NoRoot]
  /\ UNCHANGED <<vars, due>>

DisconnectKeepsRoot(r) ==
  /\ Connected(r) /\ obj[r].pc = "closed"
  /\ Await(r, [store EXCEPT ![root[r].sid] = HDel(@, "server")], umap, obj[r], obj[r])
  /\ UNCHANGED connVars

(* disconnect, bound or not; its answer is ignored. *)
Disconnect(r) ==
  /\ Connected(r) /\ obj[r].pc = "closed"
  /\ Await(r, [store EXCEPT ![root[r].sid] = HDel(@, "server")], umap, obj[r], obj[r])
  /\ root' = [root EXCEPT ![r] = NoRoot]
  /\ UNCHANGED due

(* The process dies: nothing of it is left but what Redis holds. *)
Crash ==
  /\ faults < MaxFaults /\ faults' = faults + 1
  /\ obj' = [r \in Reqs |-> Closed]
  /\ root' = [r \in Reqs |-> NoRoot] /\ due' = [r \in Reqs |-> FALSE]
  /\ UNCHANGED <<store, umap, issued, known, clock, owner>>

ConnInit == root = [r \in Reqs |-> NoRoot] /\ due = [r \in Reqs |-> FALSE]

-----------------------------------------------------------------------------
(* Requests without a root in the same build, those of the HTTP application *)

Rootless(r) ==
  \/ /\ \/ \E s \in Sids, t \in Ttls : OpenNew(r, s, t)
        \/ \E s \in Sids : OpenWith(r, s)
        \/ Close(r) \/ AnyCall(r)
     /\ UNCHANGED connVars
  \/ Work(r) \/ UpdateShadow(r)

RootlessSpec ==
  Init /\ ConnInit /\ [][\E r \in Reqs : Rootless(r)]_<<vars, connVars>>

(***************************************************************************)
(* A login that meets no failure reports success: the user gets the new id *)
(* and the old session is gone (user.rs, log_in).                          *)
(***************************************************************************)
LoginSucceeds ==
  faults = 0 => \A r \in Reqs : obj[r].op \in {"login", "autoLogin"} => obj[r].ret # "err"
=============================================================================
