---------------------------- MODULE SessionApp -----------------------------
(***************************************************************************)
(* The HTTP application of src/apis/session.rs over the session library:   *)
(* before_controller (valid, then auto_login or try_renew), the controller *)
(* of the route, and the response that hands the new session id to the     *)
(* client, composed with one client that holds one session id.             *)
(*                                                                         *)
(* The client sends its id with each request, may have several requests    *)
(* under way, and adopts the id of each response that reaches it.          *)
(***************************************************************************)
EXTENDS AutoRenew

CONSTANTS
  Routes,     \* routes the client asks for, of index, login, profile, modify and user
  AutoLogin,  \* whether it may add ?autologin
  Needs       \* route -> roles = [...] of its api

(* modify() is declared with roles: its unwrap relies on it. *)
ASSUME NeedsOK == Needs["modify"] # {}

VARIABLES
  flow,    \* request slot -> where its handler stands and what it answers
  token,   \* the id the client holds, Nil before its first response
  used,    \* history: ids the client has sent
  plain    \* history: the client has asked for nothing but to be served

appVars == <<flow, token, used, plain>>
allVars == <<vars, appVars>>

NoFlow == [stage |-> "idle", route |-> "index", auto |-> FALSE, sid |-> Nil]

(***************************************************************************)
(* A new request: new_with_id on the id it carries, or a new session.      *)
(***************************************************************************)
Arrive(r, route, auto) ==
  /\ flow[r].stage = "idle"
  /\ IF token = Nil THEN \E s \in Sids, t \in Ttls : OpenNew(r, s, t) ELSE OpenWith(r, token)
  /\ flow' = [flow EXCEPT ![r] = [stage |-> "valid", route |-> route, auto |-> auto, sid |-> Nil]]
  /\ used' = used \cup ({token} \ {Nil})
  /\ plain' = (plain /\ ~ auto /\ route # "login")
  /\ UNCHANGED token

Goto(r, stage) == flow' = [flow EXCEPT ![r].stage = stage] /\ UNCHANGED <<token, used, plain>>

Ready(r, stage) == flow[r].stage = stage /\ obj[r].pc = "ready"

Failed(r) == Goto(r, "reply") /\ UNCHANGED vars

(* is_private *)
Private(route) == Needs[route] # {}

(* valid(): 401 unless a private route finds a user, 403 unless his role is *)
(* one of those it needs.                                                   *)
Valid(r) ==
  /\ Ready(r, "valid")
  /\ IF Private(flow[r].route)
       THEN CallUser(r) /\ Goto(r, "checked")
       ELSE Goto(r, "auth") /\ UNCHANGED vars

Admits(o, route) == o.user # Nil /\ o.user.role \in Needs[route]

Checked(r) ==
  /\ Ready(r, "checked")
  /\ IF obj[r].ret = "true" /\ Admits(obj[r], flow[r].route)
       THEN Goto(r, "auth") /\ UNCHANGED vars ELSE Failed(r)

Auth(r) ==
  /\ Ready(r, "auth")
  /\ \/ flow[r].auto /\ CallAutoLogin(r) /\ Goto(r, "authed")
     \/ ~ flow[r].auto /\ flow[r].route = "login" /\ Goto(r, "controller") /\ UNCHANGED vars
     \/ ~ flow[r].auto /\ flow[r].route # "login" /\ CallTryRenew(r) /\ Goto(r, "authed")

(* set_resp_sid when the call answered true, `?` when it failed. *)
Authed(r) ==
  /\ Ready(r, "authed")
  /\ IF obj[r].ret = "err" THEN Failed(r)
     ELSE /\ flow' = [flow EXCEPT ![r].stage = "controller",
                                  ![r].sid = IF obj[r].ret = "true" THEN obj[r].sid ELSE @]
          /\ UNCHANGED <<vars, token, used, plain>>

(* login() and modify() refuse a body without what they need; profile() and *)
(* user() show the user that valid() has loaded.                            *)
Show(r) ==
  /\ Ready(r, "controller")
  /\ Goto(r, "reply") /\ UNCHANGED vars

LoginAs(r) ==
  /\ Ready(r, "controller") /\ flow[r].route = "login"
  /\ \E p \in Profiles, t \in Ttls : CallLogin(r, p, t)
  /\ Goto(r, "logged")

(* modify() changes the role of its own user and syncs it. *)
Modify(r) ==
  /\ Ready(r, "controller") /\ flow[r].route = "modify"
  /\ \E x \in Roles : CallSync(r, [obj[r].user EXCEPT !.role = x])
  /\ Goto(r, "reply")

Logged(r) ==
  /\ Ready(r, "logged")
  /\ flow' = [flow EXCEPT ![r].stage = "reply",
                          ![r].sid = IF obj[r].ret = "true" THEN obj[r].sid ELSE @]
  /\ UNCHANGED <<vars, token, used, plain>>

(* The response arrives, or the client never sees it.  An error response   *)
(* carries the new id as well.                                             *)
Respond(r) ==
  /\ Ready(r, "reply")
  /\ obj' = [obj EXCEPT ![r] = Closed]
  /\ flow' = [flow EXCEPT ![r] = NoFlow]
  /\ known' = known \cup ({flow[r].sid} \ {Nil})
  /\ token' = IF flow[r].sid = Nil THEN token ELSE flow[r].sid
  /\ UNCHANGED <<store, umap, issued, clock, faults, owner, used, plain>>

Lose(r) ==
  /\ Ready(r, "reply")
  /\ faults < MaxFaults /\ faults' = faults + 1
  /\ obj' = [obj EXCEPT ![r] = Closed]
  /\ flow' = [flow EXCEPT ![r] = NoFlow]
  /\ UNCHANGED <<store, umap, issued, known, clock, owner, token, used, plain>>

AppDrop(r) == Drop(r) /\ flow' = [flow EXCEPT ![r] = NoFlow] /\ UNCHANGED <<token, used, plain>>

Handler(r) ==
  \/ Valid(r) \/ Checked(r) \/ Auth(r) \/ Authed(r)
  \/ Show(r) \/ LoginAs(r) \/ Modify(r) \/ Logged(r)
  \/ (Command(r) \/ TryRenew(r)) /\ UNCHANGED appVars

AppInit ==
  /\ Init
  /\ flow = [r \in Reqs |-> NoFlow]
  /\ token = Nil /\ used = {} /\ plain = TRUE

AppNext ==
  \/ Tick /\ UNCHANGED appVars
  \/ \E r \in Reqs :
       \/ \E route \in Routes, auto \in AutoLogin : Arrive(r, route, auto)
       \/ Handler(r) \/ Respond(r) \/ Lose(r) \/ AppDrop(r)

AppSpec == AppInit /\ [][AppNext]_allVars

-----------------------------------------------------------------------------
(* Properties *)

(***************************************************************************)
(* A client that logged in, and never asked for anything but to be served, *)
(* holds an id that is logged in, whatever overlaps and gets lost.         *)
(***************************************************************************)
KeepsLogin ==
  plain /\ (\A r \in Reqs : flow[r].stage = "idle") /\ token # Nil => Login(token)

(***************************************************************************)
(* The controller of a private route has a user to work with, so that its  *)
(* unwrap does not panic: also when auto_login or try_renew have put the   *)
(* object on a new id since valid(), with calls of theirs that failed or   *)
(* other requests that took the session away (valid, profile, modify).     *)
(***************************************************************************)
HasUser ==
  \A r \in Reqs : Ready(r, "controller") /\ Private(flow[r].route) => obj[r].user # Nil

(***************************************************************************)
(* "destroy current old session if newer is active": the newer id has been *)
(* sent by the client (auto.rs, try_renew).                                *)
(***************************************************************************)
CondemnedReplaced ==
  \A r \in Reqs : obj[r].op = "condemn" /\ ~ Idle(r) => obj[r].csid \in used
=============================================================================
