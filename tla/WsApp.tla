------------------------------- MODULE WsApp -------------------------------
(***************************************************************************)
(* The WebSocket application of src/apis/session_ws.rs over ConnSession:   *)
(* one task per connection, before_controller (valid, then auto_login on   *)
(* the first request of a connection, else try_renew), the controllers     *)
(* login and profile, and the answer; composed with a client that keeps    *)
(* the last session id it was given and opens its connections with it.     *)
(***************************************************************************)
EXTENDS ConnSession

CONSTANTS
  Routes,    \* routes the client asks for, of login and profile
  Explicit   \* when a message may carry the client's session id: status of the root

VARIABLES
  flow,    \* connection -> where its task stands and what it answers
  token    \* the id the client holds, Nil before its first

wsVars == <<flow, token>>
allVars == <<vars, connVars, wsVars>>

NoFlow == [stage |-> "off", route |-> "login", sid |-> Nil]

Goto(r, stage) == flow' = [flow EXCEPT ![r].stage = stage] /\ UNCHANGED token

Stay == UNCHANGED <<vars, connVars>>

Ready(r, stage) == flow[r].stage = stage /\ obj[r].pc = "ready" /\ ~ due[r]

(* An error answer is a raw response, which goes out without resp_heads.   *)
Fail(r) ==
  /\ flow' = [flow EXCEPT ![r].stage = "reply", ![r].sid = Nil]
  /\ UNCHANGED token /\ Stay

SetRespSid(r, stage) ==
  /\ flow' = [flow EXCEPT ![r].stage = stage, ![r].sid = obj[r].sid]
  /\ UNCHANGED token /\ Stay

(* The handshake, with the id in X-Session-Id or none. *)
Accept(r, a) ==
  /\ flow[r].stage = "off"
  /\ IF token = Nil THEN \E s \in Sids, t \in Ttls : ConnectNew(r, s, t, a)
                    ELSE ConnectWith(r, token, a)
  /\ Goto(r, "open")

(* No session can be made: a warning, and the connection is let go. *)
Refuse(r) ==
  /\ flow[r].stage = "off" /\ token = Nil /\ Fresh = {}
  /\ Goto(r, "off") /\ Stay

Message(r, route) ==
  /\ flow[r].stage = "open"
  /\ \E s \in {root[r].sid} \cup (IF root[r].status \in Explicit THEN {token} \ {Nil} ELSE {}) : CloneForRequest(r, s)
  /\ flow' = [flow EXCEPT ![r] = [stage |-> "valid", route |-> route, sid |-> Nil]]
  /\ UNCHANGED token

(* valid(): 401 when a route other than login finds no user. *)
Valid(r) ==
  /\ Ready(r, "valid")
  /\ IF flow[r].route = "login" THEN Goto(r, "auth") /\ Stay
     ELSE CallUser(r) /\ Goto(r, "checked") /\ UNCHANGED connVars

Checked(r) ==
  /\ Ready(r, "checked")
  /\ IF obj[r].ret = "true" THEN Goto(r, "auth") /\ Stay ELSE Fail(r)

Auth(r) ==
  /\ Ready(r, "auth")
  /\ CASE root[r].status = "unbound"  -> CallAutoLogin(r) /\ Goto(r, "authed") /\ UNCHANGED connVars
       [] root[r].status = "bound" /\ flow[r].route = "login" -> Goto(r, "controller") /\ Stay
       [] OTHER                       -> CallTryRenew(r) /\ Goto(r, "authed") /\ UNCHANGED connVars

(* A failed auto_login is passed over, a failed try_renew is not. *)
Authed(r) ==
  /\ Ready(r, "authed")
  /\ CASE obj[r].ret = "err" /\ obj[r].op # "autoLogin" -> Fail(r)
       [] obj[r].ret = "true"                           -> SetRespSid(r, "controller")
       [] OTHER                                         -> Goto(r, "controller") /\ Stay

(* login refuses a missing or wrong name. *)
Controller(r) ==
  /\ Ready(r, "controller")
  /\ \/ flow[r].route = "login" /\ Fail(r)
     \/ /\ flow[r].route = "login"
        /\ \E p \in Profiles, t \in Ttls : CallLogin(r, p, t)
        /\ Goto(r, "logged") /\ UNCHANGED connVars
     \/ flow[r].route = "profile" /\ Goto(r, "reply") /\ Stay

Logged(r) ==
  /\ Ready(r, "logged")
  /\ IF obj[r].ret = "true" THEN SetRespSid(r, "reply") ELSE Fail(r)

(* The answer arrives, or the connection has broken before it. *)
Answer(r) ==
  /\ Ready(r, "reply")
  /\ obj' = [obj EXCEPT ![r] = Closed]
  /\ \/ /\ known' = known \cup ({flow[r].sid} \ {Nil})
        /\ token' = Over(flow[r].sid, token)
        /\ flow' = [flow EXCEPT ![r] = [NoFlow EXCEPT !.stage = "open"]]
        /\ UNCHANGED faults
     \/ /\ faults < MaxFaults /\ faults' = faults + 1
        /\ flow' = [flow EXCEPT ![r] = [NoFlow EXCEPT !.stage = "broken"]]
        /\ UNCHANGED <<known, token>>
  /\ UNCHANGED <<connVars, store, umap, issued, clock, owner>>

(* The message loop ends with the connection. *)
HangUp(r) ==
  /\ flow[r].stage \in {"open", "broken"}
  /\ Disconnect(r)
  /\ flow' = [flow EXCEPT ![r] = NoFlow] /\ UNCHANGED token

Serve(r) ==
  \/ Valid(r) \/ Checked(r) \/ Auth(r) \/ Authed(r) \/ Controller(r) \/ Logged(r)
  \/ (Work(r) \/ UpdateShadow(r)) /\ UNCHANGED wsVars

WsNext ==
  \/ Tick /\ UNCHANGED <<connVars, wsVars>>
  \/ Crash /\ flow' = [r \in Reqs |-> NoFlow] /\ UNCHANGED token
  \/ \E r \in Reqs :
       \/ \E a \in Servers : Accept(r, a)
       \/ \E route \in Routes : Message(r, route)
       \/ Refuse(r) \/ Serve(r) \/ Answer(r) \/ HangUp(r)

WsInit ==
  /\ Init /\ ConnInit
  /\ flow = [r \in Reqs |-> NoFlow] /\ token = Nil

WsSpec == WsInit /\ [][WsNext]_allVars

-----------------------------------------------------------------------------
(* Properties *)

ConnHashes ==
  [user : Profiles \cup {Nil}, data : Datas \cup {Nil}, newid : Sids \cup {Nil},
   server : Servers \cup {Nil}, ttl : Nat]

ConnTypeOK ==
  /\ store \in [Sids -> ConnHashes]
  /\ root \in [Reqs -> [status : {"closed", "unbound", "bound"}, sid : Sids \cup {Nil},
                        server : Servers \cup {Nil}, stored : BOOLEAN, judged : BOOLEAN]]
  /\ \A r \in Reqs : due[r] => PastRenew(obj[r])
  /\ \A r \in Reqs : Connected(r) <=> flow[r].stage # "off"

(* No message of the connection is under way. *)
Calm(r) == flow[r].stage \in {"open", "broken"}

(* No session can have expired yet. *)
Young == \A t \in Ttls : clock < t

(* The session of the root names the server of the connection. *)
Names(r) == store[root[r].sid].server = root[r].server

(***************************************************************************)
(* "Some(None): root and server addr bounded" (connection.rs): once Redis  *)
(* has confirmed the address it moves along with every login and renewal   *)
(* of the connection, whatever fails later; until try_renew destroys the   *)
(* session, which an id that auto_login copied from an older one can make  *)
(* it do: a login after that goes on without the address.                  *)
(***************************************************************************)
StaysBound ==
  \A r \in Reqs : Calm(r) /\ Young /\ root[r].stored /\ ~ root[r].judged => Names(r)

(***************************************************************************)
(* The root never names an id that a renewal has left behind: between      *)
(* messages, a bound root whose id was made for a user is logged in,       *)
(* whatever failed (redis.rs, renew; connection.rs, update_shadow), but    *)
(* for one that try_renew itself has destroyed.                            *)
(***************************************************************************)
RootServes ==
  \A r \in Reqs :
    Calm(r) /\ Young /\ root[r].status = "bound" /\ ~ root[r].judged /\ owner[root[r].sid] # Nil
      => Login(root[r].sid)

(***************************************************************************)
(* Closed connections leave nothing behind that never expires: the address *)
(* disconnect takes out was all that kept a session without a TTL.  Except *)
(* the id that do_clone logs into an old session that has expired.         *)
(***************************************************************************)
NothingLeft ==
  faults = 0 /\ (\A r \in Reqs : flow[r].stage = "off") =>
    \A s \in Sids : store[s].ttl = 0 => HDel(store[s], "newid") = Missing
=============================================================================
