--------------------------- MODULE SessionAppProofs --------------------------
(***************************************************************************)
(* Proofs about SessionApp, for every number of requests, ids, users,      *)
(* failures and ticks, and any renewal thresholds.                         *)
(*                                                                         *)
(* AppTypes    : AppSpec => []TypeOK                                       *)
(* AppIdentity : AppSpec => []OneIdentity                                  *)
(* UserAtHand  : AppSpec => []HasUser                                      *)
(* LoginKept   : AppRuns => []KeepsLogin, while it is Early                *)
(*                                                                         *)
(* The invariant of UserSessionProofs does not carry over: an object whose *)
(* login failed keeps the new user on the old id, and try_renew on such an *)
(* object would list the id for the wrong user.  What excludes it is the   *)
(* order of the calls in a handler, so the invariant relates the object of *)
(* a request with the stage its handler is at.                             *)
(*                                                                         *)
(* LoginKept has an invariant of its own, KInv.  The id of a request is    *)
(* not a login throughout: from the moment try_renew takes a new id to the *)
(* load of its hash it has no key (Aware), and after a failure in between  *)
(* it never gets one (Stuck), which is harmless only because such a        *)
(* request answers with an error and hands no id to the client.            *)
(***************************************************************************)
EXTENDS SessionApp, AutoRenewProofs

-----------------------------------------------------------------------------
(* The handler of a request *)

Stages == {"idle", "valid", "checked", "auth", "authed", "controller", "logged", "reply"}

Flows == [stage : Stages, route : Routes \cup {"index"}, auto : AutoLogin \cup {FALSE},
          sid : Sids \cup {Nil}]

(* No call of a handler logs out; none after login uses the cached user;    *)
(* once valid() has let a private route through, the object has a user.     *)
Orderly(o, f, iss) ==
  /\ o.op # "logout"
  /\ f.stage \in {"valid", "checked", "auth", "authed", "controller"} => o.op # "login"
  /\ f.stage \in {"auth", "authed", "controller"} /\ Private(f.route) => o.user # Nil
  /\ f.sid # Nil => iss[f.sid] # Nil

AppInv ==
  /\ AInv
  /\ flow \in [Reqs -> Flows]
  /\ \A r \in Reqs : Orderly(obj[r], flow[r], issued)

-----------------------------------------------------------------------------
(* The steps of the application *)

(* A step of one handler: its object and its stage, and more ids known.    *)
LEMMA HandlerStep ==
  ASSUME AppInv, AInv', NEW r \in Reqs, NEW f,
         obj' = [obj EXCEPT ![r] = obj'[r]], flow' = [flow EXCEPT ![r] = f],
         f \in Flows, Orderly(obj'[r], f, issued'),
         \A s \in Sids : issued[s] # Nil => issued'[s] # Nil
  PROVE  AppInv'
<1>1. flow' \in [Reqs -> Flows]
  BY DEF AppInv
<1>2. ASSUME NEW q \in Reqs \ {r}  PROVE Orderly(obj'[q], flow'[q], issued')
  <2>1. obj'[q] = obj[q] /\ flow'[q] = flow[q]
    BY DEF AppInv, AInv, TypeOK
  <2>2. flow[q].sid \in Sids \cup {Nil} /\ Orderly(obj[q], flow[q], issued)
    BY DEF AppInv, Flows
  <2>. QED  BY <2>1, <2>2 DEF Orderly
<1>3. flow'[r] = f
  BY DEF AppInv
<1>. QED  BY <1>1, <1>2, <1>3 DEF AppInv

(* Each action moves its handler to a stage, and may hand over an id.      *)
LEMMA FlowMoves ==
  ASSUME NEW f \in Flows
  PROVE  /\ \A st \in Stages : [f EXCEPT !.stage = st] \in Flows
         /\ \A st \in Stages : /\ [f EXCEPT !.stage = st].stage = st
                               /\ [f EXCEPT !.stage = st].route = f.route
                               /\ [f EXCEPT !.stage = st].sid = f.sid
         /\ \A st \in Stages, s \in Sids \cup {Nil} :
              /\ [f EXCEPT !.stage = st, !.sid = s] \in Flows
              /\ [f EXCEPT !.stage = st, !.sid = s].stage = st
              /\ [f EXCEPT !.stage = st, !.sid = s].route = f.route
              /\ [f EXCEPT !.stage = st, !.sid = s].sid = s
         /\ NoFlow \in Flows /\ NoFlow.stage = "idle" /\ NoFlow.sid = Nil
<1>1. \A st \in Stages : [f EXCEPT !.stage = st] \in Flows
  BY DEF Flows
<1>2. \A st \in Stages, s \in Sids \cup {Nil} : [f EXCEPT !.stage = st, !.sid = s] \in Flows
  BY DEF Flows
<1>3. NoFlow \in Flows /\ NoFlow.stage = "idle" /\ NoFlow.sid = Nil
  BY DEF NoFlow, Flows, Stages
<1>. QED  BY <1>1, <1>2, <1>3 DEF Flows

(* The call a step starts: its object, and that no id is generated. *)
LEMMA Called ==
  ASSUME AInv, NEW r \in Reqs, NEW op, NEW o, Call(r, op, o)
  PROVE  /\ obj' = [obj EXCEPT ![r] = obj'[r]] /\ obj'[r] = o
         /\ issued' = issued
BY DEF Call, AInv, TypeOK

LEMMA ArriveStep ==
  ASSUME AppInv, NEW r \in Reqs, NEW route \in Routes, NEW auto \in AutoLogin,
         Arrive(r, route, auto)
  PROVE  AppInv'
<1>. DEFINE f == [stage |-> "valid", route |-> route, auto |-> auto, sid |-> Nil]
<1>1. AInv
  BY DEF AppInv
<1>2. \/ \E s \in Sids, t \in Ttls : OpenNew(r, s, t)
      \/ OpenWith(r, token)
  BY DEF Arrive
<1>3. AInv'
  BY <1>1, <1>2, AOpenNew, AOpenWith
<1>4. /\ \E s, t : obj' = [obj EXCEPT ![r] = Object(s, t)]
      /\ \A s \in Sids : issued[s] # Nil => issued'[s] # Nil
  <2>1. CASE \E s \in Sids, t \in Ttls : OpenNew(r, s, t)
    <3>1. PICK s \in Sids, t \in Ttls : OpenNew(r, s, t)
      BY <2>1
    <3>2. issued[s] = Nil
      BY <3>1 DEF OpenNew, Fresh
    <3>. QED  BY <1>1, <3>1, <3>2 DEF OpenNew, AInv, TypeOK
  <2>2. CASE OpenWith(r, token)
    BY <2>2 DEF OpenWith
  <2>. QED  BY <1>2, <2>1, <2>2
<1>5. obj' = [obj EXCEPT ![r] = obj'[r]] /\ obj'[r].op = "none"
  <2>1. \A s, t : Object(s, t).op = "none"
    BY DEF Object
  <2>. QED  BY <1>1, <1>4, <2>1 DEF AInv, TypeOK
<1>6. f \in Flows /\ flow' = [flow EXCEPT ![r] = f]
  BY DEF Flows, Stages, Arrive
<1>7. Orderly(obj'[r], f, issued')
  BY <1>5 DEF Orderly
<1>. HIDE DEF f
<1>. QED  BY <1>3, <1>4, <1>5, <1>6, <1>7, HandlerStep

(* The steps that only read the object. *)
LEMMA LookStep ==
  ASSUME AppInv, NEW r \in Reqs, NEW f \in Flows, UNCHANGED vars,
         flow' = [flow EXCEPT ![r] = f], Orderly(obj[r], f, issued)
  PROVE  AppInv'
<1>1. AInv'
  BY DEF AppInv, AInv, TypeOK, Fresh, vars
<1>2. obj' = [obj EXCEPT ![r] = obj'[r]] /\ obj'[r] = obj[r] /\ issued' = issued
  BY DEF AppInv, AInv, TypeOK, vars
<1>. QED  BY <1>1, <1>2, HandlerStep

LEMMA GotoMoves ==
  ASSUME AppInv, NEW r \in Reqs, NEW st \in Stages, Goto(r, st)
  PROVE  flow' = [flow EXCEPT ![r] = [flow[r] EXCEPT !.stage = st]]
BY DEF AppInv, Goto

LEMMA ReadSteps ==
  ASSUME AppInv, NEW r \in Reqs,
         \/ Valid(r) /\ ~ Private(flow[r].route)
         \/ Checked(r) \/ Authed(r) \/ Show(r) \/ Logged(r)
         \/ Ready(r, "auth") /\ Goto(r, "controller") /\ UNCHANGED vars
  PROVE  AppInv'
<1>. DEFINE o == obj[r]
            g == flow[r]
            S(st) == [g EXCEPT !.stage = st]
            T(st) == [g EXCEPT !.stage = st, !.sid = IF o.ret = "true" THEN o.sid ELSE g.sid]
<1>1. /\ g \in Flows /\ Orderly(o, g, issued) /\ AInv
      /\ g.sid \in Sids \cup {Nil}
  BY DEF AppInv, Flows
<1>2. \A st \in Stages :
        S(st) \in Flows /\ S(st).stage = st /\ S(st).route = g.route /\ S(st).sid = g.sid
  BY <1>1, FlowMoves
<1>3. \A st \in Stages : Goto(r, st) => flow' = [flow EXCEPT ![r] = S(st)]
  BY GotoMoves
<1>4. "reply" \in Stages /\ "auth" \in Stages /\ "controller" \in Stages
  BY DEF Stages
<1>. HIDE DEF S
<1>5. CASE Valid(r) /\ ~ Private(flow[r].route)
  <2>1. UNCHANGED vars /\ Goto(r, "auth") /\ g.stage = "valid"
    BY <1>5 DEF Valid, Ready
  <2>2. Orderly(o, S("auth"), issued)
    BY <1>1, <1>2, <1>4, <1>5, <2>1 DEF Orderly
  <2>. QED  BY <1>2, <1>3, <1>4, <2>1, <2>2, LookStep
<1>6. ASSUME UNCHANGED vars, Goto(r, "reply")
      PROVE  AppInv'
  <2>1. Orderly(o, S("reply"), issued)
    BY <1>1, <1>2, <1>4 DEF Orderly
  <2>. QED  BY <1>2, <1>3, <1>4, <1>6, <2>1, LookStep
<1>7. CASE Checked(r)
  <2>1. CASE Failed(r)
    BY <1>6, <2>1 DEF Failed
  <2>2. CASE Admits(o, g.route) /\ Goto(r, "auth") /\ UNCHANGED vars
    <3>1. o.user # Nil /\ g.stage = "checked"
      BY <1>7, <2>2 DEF Checked, Admits, Ready
    <3>2. Orderly(o, S("auth"), issued)
      BY <1>1, <1>2, <1>4, <3>1 DEF Orderly
    <3>. QED  BY <1>2, <1>3, <1>4, <2>2, <3>2, LookStep
  <2>. QED  BY <1>7, <2>1, <2>2 DEF Checked
<1>8. CASE Ready(r, "auth") /\ Goto(r, "controller") /\ UNCHANGED vars
  <2>1. g.stage = "auth"
    BY <1>8 DEF Ready
  <2>2. Orderly(o, S("controller"), issued)
    BY <1>1, <1>2, <1>4, <2>1 DEF Orderly
  <2>. QED  BY <1>2, <1>3, <1>4, <1>8, <2>2, LookStep
<1>9. CASE Show(r)
  BY <1>6, <1>9 DEF Show
<1>10. ASSUME o.pc = "ready", NEW st \in {"controller", "reply"},
              st = "controller" => g.stage = "authed", UNCHANGED vars,
              flow' = [flow EXCEPT ![r] = T(st)]
       PROVE  AppInv'
  <2>1. o.sid \in Sids /\ issued[o.sid] # Nil
    BY <1>1, <1>10, Standing DEF Anchored
  <2>2. st \in Stages
    BY <1>4, <1>10
  <2>. DEFINE s == IF o.ret = "true" THEN o.sid ELSE g.sid
  <2>3. s \in Sids \cup {Nil} /\ (s # Nil => issued[s] # Nil)
    BY <1>1, <2>1 DEF Orderly
  <2>. HIDE DEF s
  <2>4. /\ [g EXCEPT !.stage = st, !.sid = s] \in Flows
        /\ [g EXCEPT !.stage = st, !.sid = s].stage = st
        /\ [g EXCEPT !.stage = st, !.sid = s].route = g.route
        /\ [g EXCEPT !.stage = st, !.sid = s].sid = s
    BY <1>1, <2>2, <2>3 DEF Flows
  <2>5. T(st) = [g EXCEPT !.stage = st, !.sid = s]
    BY DEF s
  <2>. HIDE DEF T
  <2>6. Orderly(o, T(st), issued)
    BY <1>1, <1>10, <2>3, <2>4, <2>5 DEF Orderly
  <2>. QED  BY <1>10, <2>4, <2>5, <2>6, LookStep
<1>11. CASE Authed(r)
  <2>1. CASE Failed(r)
    BY <1>6, <2>1 DEF Failed
  <2>2. CASE ~ Failed(r)
    <3>1. /\ o.pc = "ready" /\ g.stage = "authed" /\ UNCHANGED vars
          /\ flow' = [flow EXCEPT ![r].stage = "controller",
                                  ![r].sid = IF o.ret = "true" THEN o.sid ELSE @]
      BY <1>11, <2>2 DEF Authed, Ready
    <3>2. flow' = [flow EXCEPT ![r] = T("controller")]
      BY <3>1 DEF AppInv, Flows
    <3>. QED  BY <1>10, <3>1, <3>2
  <2>. QED  BY <2>1, <2>2
<1>12. CASE Logged(r)
  <2>1. /\ o.pc = "ready" /\ UNCHANGED vars
        /\ flow' = [flow EXCEPT ![r].stage = "reply",
                                ![r].sid = IF o.ret = "true" THEN o.sid ELSE @]
    BY <1>12 DEF Logged, Ready
  <2>2. flow' = [flow EXCEPT ![r] = T("reply")]
    BY <2>1 DEF AppInv, Flows
  <2>. QED  BY <1>10, <2>1, <2>2
<1>. QED  BY <1>5, <1>7, <1>8, <1>9, <1>11, <1>12
(* The steps that start a call. *)
LEMMA StageStep ==
  ASSUME AppInv, AInv', NEW r \in Reqs, NEW st \in Stages, Goto(r, st),
         obj' = [obj EXCEPT ![r] = obj'[r]], issued' = issued,
         \A g \in Flows : g.stage = st /\ g.route = flow[r].route /\ g.sid = flow[r].sid
           => Orderly(obj'[r], g, issued)
  PROVE  AppInv'
<1>. DEFINE g == [flow[r] EXCEPT !.stage = st]
<1>1. flow[r] \in Flows
  BY DEF AppInv
<1>2. g \in Flows /\ g.stage = st /\ g.route = flow[r].route /\ g.sid = flow[r].sid
  BY <1>1, FlowMoves
<1>3. flow' = [flow EXCEPT ![r] = g]
  BY GotoMoves
<1>. HIDE DEF g
<1>. QED  BY <1>2, <1>3, HandlerStep

LEMMA CallSteps ==
  ASSUME AppInv, NEW r \in Reqs,
         \/ Valid(r) /\ Private(flow[r].route)
         \/ Auth(r) \/ LoginAs(r) \/ Modify(r)
  PROVE  AppInv'
<1>. DEFINE o == obj[r]
            f == flow[r]
<1>1. /\ AInv /\ f \in Flows /\ Orderly(o, f, issued) /\ o \in Objects
      /\ f.sid \in Sids \cup {Nil}
  BY DEF AppInv, Flows, AInv, TypeOK
<1>2. f.sid # Nil => issued[f.sid] # Nil
  BY <1>1 DEF Orderly
<1>3. {"checked", "authed", "logged", "reply", "controller"} \subseteq Stages
  BY DEF Stages
<1>4. CASE Valid(r) /\ Private(f.route)
  <2>1. CallUser(r) /\ Goto(r, "checked") /\ f.stage = "valid" /\ o.pc = "ready"
    BY <1>4 DEF Valid, Ready
  <2>. DEFINE b == Begin(o, "user")
  <2>2. b \in Objects /\ b.op = "user"
    BY <1>1, <2>1, BeginBase DEF Calls
  <2>. HIDE DEF b
  <2>3. User(b).op = "user"
    BY <2>2, HelpersKeep DEF Same
  <2>4. obj' = [obj EXCEPT ![r] = obj'[r]] /\ obj'[r] = User(b) /\ issued' = issued
    BY <1>1, <2>1, Called DEF CallUser, b
  <2>5. AInv'
    BY <1>1, <2>1, ACallUser DEF Orderly
  <2>6. \A g \in Flows : g.stage = "checked" /\ g.route = f.route /\ g.sid = f.sid
          => Orderly(obj'[r], g, issued)
    BY <1>2, <2>3, <2>4 DEF Orderly
  <2>. QED  BY <1>3, <2>1, <2>4, <2>5, <2>6, StageStep
<1>5. CASE Auth(r)
  <2>1. CASE Goto(r, "controller") /\ UNCHANGED vars
    BY <1>5, <2>1, ReadSteps DEF Auth
  <2>2. CASE (CallAutoLogin(r) \/ CallTryRenew(r)) /\ Goto(r, "authed")
    <3>1. o.pc = "ready" /\ f.stage = "auth" /\ o.op # "login"
      BY <1>1, <1>5 DEF Auth, Ready, Orderly
    <3>2. AInv'
      BY <1>1, <2>2, <3>1, ACallRenewing
    <3>3. /\ obj' = [obj EXCEPT ![r] = obj'[r]] /\ issued' = issued
          /\ obj'[r].op \in {"autoLogin", "tryRenew"} /\ obj'[r].user = o.user
      <4>1. CASE CallAutoLogin(r)
        <5>. DEFINE b == Begin(o, "autoLogin")
        <5>1. b \in Objects /\ b.op = "autoLogin" /\ b.user = o.user
          BY <1>1, <3>1, BeginBase DEF Calls
        <5>. HIDE DEF b
        <5>2. Same(b, LogIn(b))
          BY <5>1, HelpersKeep
        <5>3. Call(r, "autoLogin", LogIn(b))
          BY <4>1 DEF CallAutoLogin, b
        <5>. QED  BY <1>1, <5>1, <5>2, <5>3, Called DEF Same
      <4>2. CASE CallTryRenew(r)
        <5>. DEFINE b == Begin(o, "tryRenew")
                    since == clock - issued[b.sid].born - Interval
                    n == [b EXCEPT !.pc = "newid",
                                   !.mode = IF since > Judgment THEN "judge" ELSE "young"]
        <5>1. b \in Objects /\ b.op = "tryRenew" /\ b.user = o.user
          BY <1>1, <3>1, BeginBase DEF Calls
        <5>2. Call(r, "tryRenew", IF since < 0 THEN Keep(b) ELSE n)
          BY <4>2 DEF CallTryRenew
        <5>. HIDE DEF b, since
        <5>3. Same(b, Keep(b)) /\ Same(b, n)
          <6>1. Same(b, n)
            BY <5>1 DEF Same, Objects
          <6>. QED  BY <5>1, <6>1, HelpersKeep
        <5>. HIDE DEF n
        <5>4. obj'[r] \in {Keep(b), n} /\ obj' = [obj EXCEPT ![r] = obj'[r]] /\ issued' = issued
          BY <1>1, <5>2, Called
        <5>. QED  BY <5>1, <5>3, <5>4 DEF Same
      <4>. QED  BY <2>2, <4>1, <4>2
    <3>4. \A g \in Flows : g.stage = "authed" /\ g.route = f.route /\ g.sid = f.sid
            => Orderly(obj'[r], g, issued)
      BY <1>1, <1>2, <3>1, <3>3 DEF Orderly
    <3>. QED  BY <1>3, <2>2, <3>2, <3>3, <3>4, StageStep
  <2>. QED  BY <1>5, <2>1, <2>2 DEF Auth
<1>6. CASE LoginAs(r)
  <2>1. PICK p \in Profiles, t \in Ttls : CallLogin(r, p, t)
    BY <1>6 DEF LoginAs
  <2>2. Goto(r, "logged") /\ o.pc = "ready"
    BY <1>6 DEF LoginAs, Ready
  <2>3. AInv'
    BY <1>1, <2>1, ACallLogin
  <2>. DEFINE b == Begin(o, "login")
              c == [LogIn(b) EXCEPT !.user = p, !.ttl = t]
  <2>4. b \in Objects /\ b.op = "login"
    BY <1>1, <2>2, BeginBase DEF Calls
  <2>. HIDE DEF b
  <2>5. c.op = "login"
    BY <2>4 DEF LogIn, Objects
  <2>6. Call(r, "login", c)
    BY <2>1 DEF CallLogin, b
  <2>. HIDE DEF c
  <2>7. obj' = [obj EXCEPT ![r] = obj'[r]] /\ obj'[r] = c /\ issued' = issued
    BY <1>1, <2>6, Called
  <2>8. \A g \in Flows : g.stage = "logged" /\ g.route = f.route /\ g.sid = f.sid
          => Orderly(obj'[r], g, issued)
    BY <1>2, <2>5, <2>7 DEF Orderly
  <2>. QED  BY <1>3, <2>2, <2>3, <2>7, <2>8, StageStep
<1>7. CASE Modify(r)
  <2>1. PICK x \in Roles : CallSync(r, [o.user EXCEPT !.role = x])
    BY <1>7 DEF Modify
  <2>2. Goto(r, "reply") /\ o.pc = "ready" /\ f.stage = "controller" /\ f.route = "modify"
    BY <1>7 DEF Modify, Ready
  <2>3. o.user # Nil /\ o.op # "login"
    BY <1>1, <2>2, NeedsOK DEF Orderly, Private
  <2>. DEFINE p == [o.user EXCEPT !.role = x]
              b == Begin(o, "sync")
              c == [b EXCEPT !.arg = p, !.pc = "smembers"]
  <2>4. p \in Profiles
    BY <1>1, <2>3 DEF Objects, Profiles
  <2>5. AInv'
    BY <1>1, <2>1, <2>3, <2>4, ACallSync
  <2>. HIDE DEF p
  <2>6. b \in Objects /\ b.op = "sync"
    BY <1>1, <2>2, BeginBase DEF Calls
  <2>. HIDE DEF b
  <2>7. c.op = "sync"
    BY <2>6 DEF Objects
  <2>8. Call(r, "sync", c)
    BY <2>1 DEF CallSync, b, p
  <2>. HIDE DEF c
  <2>9. obj' = [obj EXCEPT ![r] = obj'[r]] /\ obj'[r] = c /\ issued' = issued
    BY <1>1, <2>8, Called
  <2>10. \A g \in Flows : g.stage = "reply" /\ g.route = f.route /\ g.sid = f.sid
          => Orderly(obj'[r], g, issued)
    BY <1>2, <2>7, <2>9 DEF Orderly
  <2>. QED  BY <1>3, <2>2, <2>5, <2>9, <2>10, StageStep
<1>. QED  BY <1>4, <1>5, <1>6, <1>7

(* The commands of a call, whatever stage started it. *)
LEMMA CommandStep ==
  ASSUME AppInv, NEW r \in Reqs, Command(r) \/ TryRenew(r), UNCHANGED appVars
  PROVE  AppInv'
<1>1. AInv /\ flow[r] \in Flows /\ Orderly(obj[r], flow[r], issued)
  BY DEF AppInv
<1>2. AInv'
  BY <1>1, ACommand
<1>3. Keeps(obj[r], obj'[r])
  BY <1>1, CommandKeeps DEF Orderly
<1>4. flow' = [flow EXCEPT ![r] = flow[r]]
  BY DEF AppInv, appVars
<1>5. /\ obj' = [obj EXCEPT ![r] = obj'[r]]
      /\ \A s \in Sids : issued[s] # Nil => issued'[s] # Nil
  <2>1. \A x : obj' = [obj EXCEPT ![r] = x] => obj' = [obj EXCEPT ![r] = obj'[r]]
    BY <1>1 DEF AInv, TypeOK
  <2>2. CASE Raw(r)
    <3>1. issued' = issued \/ \E n \in Fresh : \E i : issued' = [issued EXCEPT ![n] = i]
      BY <2>2 DEF Raw
    <3>2. \A s \in Sids : issued[s] # Nil => issued'[s] # Nil
      BY <1>1, <3>1 DEF Fresh, AInv, TypeOK
    <3>3. \E x : obj' = [obj EXCEPT ![r] = x]
      BY <2>2 DEF Raw
    <3>. QED  BY <2>1, <3>2, <3>3
  <2>3. CASE ~ Raw(r)
    <3>1. \E st, um, good, bad : Await(r, st, um, good, bad)
      BY <2>3 DEF Command, TryRenew, LoadUser, SilentSet, SilentGet, SilentDel, Touch, Load,
         MappingAdd, MappingExpire, ClonedUnmapping, ClonedDestroy, Unmapping, LogoutDel,
         DestroyDel, AllSid, FilterRemove, FilterExists, SyncSet, KeepTouch, GetNewId,
         NewTtl, OldTtl, CondemnedDel, DropNewer, CloneTouch, CloneSetNewId, Ask, Write
    <3>2. issued' = issued /\ \E x : obj' = [obj EXCEPT ![r] = x]
      BY <3>1 DEF Await
    <3>. QED  BY <2>1, <3>2
  <2>. QED  BY <2>2, <2>3
<1>6. flow[r].sid \in Sids \cup {Nil}
  BY <1>1 DEF Flows
<1>7. Orderly(obj'[r], flow[r], issued')
  BY <1>1, <1>3, <1>5, <1>6 DEF Orderly, Keeps
<1>. QED  BY <1>1, <1>2, <1>4, <1>5, <1>7, HandlerStep

(* The end of a request. *)
LEMMA EndStep ==
  ASSUME AppInv, NEW r \in Reqs, Respond(r) \/ Lose(r) \/ AppDrop(r)
  PROVE  AppInv'
<1>1. AInv /\ flow[r] \in Flows /\ Orderly(obj[r], flow[r], issued)
  BY DEF AppInv
<1>2. /\ obj' = [obj EXCEPT ![r] = Closed] /\ UNCHANGED <<store, umap, issued, owner>>
      /\ clock' = clock /\ faults' \in Nat /\ flow' = [flow EXCEPT ![r] = NoFlow]
      /\ known' \in {known, known \cup ({flow[r].sid} \ {Nil})}
  BY <1>1 DEF Respond, Lose, AppDrop, Drop, AInv, TypeOK
<1>3. {flow[r].sid} \ {Nil} \subseteq Sids \ Fresh
  BY <1>1 DEF Orderly, Flows, Fresh
<1>4. known' \subseteq Sids \ Fresh
  BY <1>1, <1>2, <1>3 DEF AInv, TypeOK
<1>5. AInv'
  BY <1>1, <1>2, <1>4, AClosedFit, AObjStep
<1>6. obj' = [obj EXCEPT ![r] = obj'[r]] /\ obj'[r].op = "none"
  BY <1>1, <1>2 DEF AInv, TypeOK, Closed, Object
<1>7. NoFlow \in Flows /\ Orderly(obj'[r], NoFlow, issued')
  BY <1>1, <1>6, FlowMoves DEF Orderly
<1>. QED  BY <1>2, <1>5, <1>6, <1>7, HandlerStep

LEMMA AppTick ==
  ASSUME AppInv, Tick, UNCHANGED appVars
  PROVE  AppInv'
<1>1. \A s \in Sids : store'[s] \in Hashes /\ store'[s].user \in {Nil, store[s].user}
  BY HashTypes DEF Tick, AppInv, AInv, TypeOK
<1>2. \A u \in Uids : /\ umap'[u] \in [sids : SUBSET Sids, ttl : Nat]
                      /\ umap'[u].sids \subseteq umap[u].sids
  BY IndexTypes DEF Tick, AppInv, AInv, TypeOK
<1>3. TypeOK'
  BY <1>1, <1>2 DEF Tick, AppInv, AInv, TypeOK, Fresh
<1>4. StoreOwned(store', owner') /\ IndexOwned(umap', owner')
  BY <1>1, <1>2 DEF Tick, AppInv, AInv, StoreOwned, IndexOwned
<1>5. AInv'
  BY <1>3, <1>4 DEF AppInv, AInv, Tick
<1>. QED  BY <1>5 DEF AppInv, appVars, Tick

-----------------------------------------------------------------------------
(* The theorems *)

LEMMA AppInitInv == AppInit => AppInv
<1>. SUFFICES ASSUME AppInit  PROVE AppInv
  OBVIOUS
<1>1. Init
  BY DEF AppInit
<1>2. IInv
  BY <1>1, InitIInv
<1>3. \A r \in Reqs : obj[r] = Closed
  BY <1>1 DEF Init
<1>4. AInv
  BY <1>2, <1>3, AClosedFit DEF IInv, AInv, Fit
<1>5. NoFlow \in Flows /\ NoFlow.stage = "idle" /\ NoFlow.sid = Nil
  BY DEF NoFlow, Flows, Stages
<1>6. flow \in [Reqs -> Flows] /\ \A r \in Reqs : flow[r] = NoFlow
  BY <1>5 DEF AppInit
<1>7. Closed.op = "none"
  BY DEF Closed, Object
<1>. QED  BY <1>3, <1>4, <1>5, <1>6, <1>7 DEF AppInv, Orderly

LEMMA AppNextInv == AppInv /\ [AppNext]_allVars => AppInv'
<1>. SUFFICES ASSUME AppInv, [AppNext]_allVars  PROVE AppInv'
  OBVIOUS
<1>1. CASE UNCHANGED allVars
  BY <1>1 DEF allVars, vars, appVars, AppInv, AInv, TypeOK, Fresh
<1>2. CASE Tick /\ UNCHANGED appVars
  BY <1>2, AppTick
<1>3. ASSUME NEW r \in Reqs, NEW route \in Routes, NEW auto \in AutoLogin, Arrive(r, route, auto)
      PROVE  AppInv'
  BY <1>3, ArriveStep
<1>4. ASSUME NEW r \in Reqs, Handler(r)
      PROVE  AppInv'
  <2>1. CASE Valid(r) \/ Auth(r) \/ LoginAs(r) \/ Modify(r)
    BY <2>1, ReadSteps, CallSteps
  <2>2. CASE Checked(r) \/ Authed(r) \/ Show(r) \/ Logged(r)
    BY <2>2, ReadSteps
  <2>3. CASE (Command(r) \/ TryRenew(r)) /\ UNCHANGED appVars
    BY <2>3, CommandStep
  <2>. QED  BY <1>4, <2>1, <2>2, <2>3 DEF Handler
<1>5. ASSUME NEW r \in Reqs, Respond(r) \/ Lose(r) \/ AppDrop(r)
      PROVE  AppInv'
  BY <1>5, EndStep
<1>. QED  BY <1>1, <1>2, <1>3, <1>4, <1>5 DEF AppNext

(* Every reachable state of the application satisfies the invariant. *)
THEOREM AppInvariance == AppSpec => []AppInv
BY AppInitInv, AppNextInv, PTL DEF AppSpec

(***************************************************************************)
(* The application, with its renewals and lost responses, keeps the values *)
(* in Redis and in the session objects to their types (UserSession, TypeOK *)
(* over auto.rs and session.rs).                                           *)
(***************************************************************************)
THEOREM AppTypes == AppSpec => []TypeOK
<1>1. AppInv => TypeOK
  BY DEF AppInv, AInv
<1>. QED  BY <1>1, AppInvariance, PTL

(***************************************************************************)
(* In the application as well, where try_renew copies a session, the index *)
(* of a user lists no session of another one, so that modify() never       *)
(* writes its user into somebody else's session (session.rs, auto.rs).     *)
(***************************************************************************)
THEOREM AppIdentity == AppSpec => []OneIdentity
<1>1. AppInv => OneIdentity
  BY DEF AppInv, AInv, OneIdentity, StoreOwned, IndexOwned, Owned, Login
<1>. QED  BY <1>1, AppInvariance, PTL

(***************************************************************************)
(* The controller of a private route finds a user in its object, whatever  *)
(* auto_login or try_renew, failures and other requests have done since    *)
(* valid(): the unwraps of profile() and modify() do not panic.            *)
(***************************************************************************)
THEOREM UserAtHand == AppSpec => []HasUser
<1>1. AppInv => HasUser
  BY DEF AppInv, HasUser, Orderly, Ready
<1>. QED  BY <1>1, AppInvariance, PTL

-----------------------------------------------------------------------------
(* A client that is only served keeps its login *)

(* The commands of try_renew that go on with the session it has. *)
Renewing ==
  {"keep", "newid", "raw", "load", "touch", "user", "sadd", "mapexpire", "ctouch", "csetnew"}

(***************************************************************************)
(* The object of a request that is only served, by the stage it is at: its *)
(* calls are user(), try_renew, which is too early to judge the session    *)
(* that has a newer one, and sync.  None of them deletes.                  *)
(***************************************************************************)
Tame(o, f) ==
  /\ o.op \in {"none", "user", "tryRenew", "sync"}
  /\ \/ o.pc \in {"ready", "closed"}
     \/ o.op = "user" /\ o.pc = "user" /\ f.stage = "checked"
     \/ o.op = "tryRenew" /\ o.pc \in Renewing /\ f.stage = "authed"
     \/ o.op = "sync" /\ o.pc \in Listing /\ f.stage = "reply"
  /\ o.pc # "closed" => o.sid \in Sids /\ o.ttl \in Ttls
  /\ o.pc = "newid" => o.mode # "judge"
  /\ f.stage # "idle" => f.route # "login" /\ ~ f.auto
  /\ f.stage # "logged"
  /\ f.stage = "valid" => o.op = "none"
  /\ f.stage = "checked" => o.op = "user"
  /\ f.stage = "auth" => o.op \in {"none", "user"}

(* A renewal that failed may have left the object on an id without a key;  *)
(* only the answer follows, and it hands over no id.                       *)
Stuck(o, f) ==
  o.pc = "ready" /\ o.op = "tryRenew" /\ o.ret = "err" /\ f.stage \in {"authed", "reply"}

(* The id of the object is logged in, or is about to be by its load; so is *)
(* the one that the response carries.                                      *)
Aware(o, f, st) ==
  /\ f.sid # Nil => st[f.sid].user # Nil
  /\ o.pc = "load" => o.raw.user # Nil
  /\ o.pc \notin {"closed", "load"} /\ ~ Stuck(o, f) => st[o.sid].user # Nil

(* No key expires before the last tick. *)
Endures(h, now) == h.ttl = 0 \/ now + h.ttl > MaxClock

Enduring(st, now) == \A s \in Sids : Endures(st[s], now)

Dated(iss) == \A s \in Sids : iss[s] # Nil => iss[s].ttl \in Ttls

KInv ==
  /\ AppInv
  /\ clock <= MaxClock
  /\ plain =>
       /\ token \in Sids /\ Login(token)
       /\ Enduring(store, clock) /\ Dated(issued)
       /\ \A r \in Reqs : Tame(obj[r], flow[r]) /\ Aware(obj[r], flow[r], store)

(* The client has logged in, the keys have the TTLs of sessions, and no    *)
(* request is under way.                                                   *)
AppStart ==
  /\ AppInv /\ clock = 0 /\ plain
  /\ obj = [r \in Reqs |-> Closed] /\ flow = [r \in Reqs |-> NoFlow]
  /\ token \in known /\ Login(token)
  /\ \A s \in Sids : store[s].ttl \in Ttls \cup {0}
  /\ Dated(issued)

AppRuns == AppStart /\ [][AppNext]_allVars

(* No TTL has run out, and no session is old enough to be judged. *)
Early == (\A t \in Ttls : MaxClock < t) /\ MaxClock <= Interval + Judgment

-----------------------------------------------------------------------------
(* What a step of one request leaves to the others *)

(* No command of theirs takes a login away. *)
Grown(st, st2) == \A s \in Sids : st[s].user # Nil => st2[s].user # Nil

LEMMA AwareGrows ==
  ASSUME NEW o, NEW f \in Flows, NEW st, NEW st2, Grown(st, st2), Tame(o, f), Aware(o, f, st)
  PROVE  Aware(o, f, st2)
<1>1. f.sid \in Sids \cup {Nil}
  BY DEF Flows
<1>2. o.pc # "closed" => o.sid \in Sids
  BY DEF Tame
<1>. QED  BY <1>1, <1>2 DEF Aware, Grown

(* The state of a request that is only served. *)
LEMMA Serviced ==
  ASSUME KInv, plain, NEW r \in Reqs
  PROVE  /\ obj[r] \in Objects /\ flow[r] \in Flows
         /\ Tame(obj[r], flow[r]) /\ Aware(obj[r], flow[r], store)
         /\ store \in [Sids -> Hashes] /\ clock \in Nat /\ AInv
         /\ Enduring(store, clock) /\ Dated(issued)
BY DEF KInv, AppInv, AInv, TypeOK

LEMMA ServedStep ==
  ASSUME KInv, plain, AppInv', NEW r \in Reqs, NEW f,
         obj' = [obj EXCEPT ![r] = obj'[r]], flow' = [flow EXCEPT ![r] = f], clock' = clock,
         Grown(store, store'), Enduring(store', clock), Dated(issued'),
         token' \in Sids, store'[token'].user # Nil,
         Tame(obj'[r], f), Aware(obj'[r], f, store')
  PROVE  KInv'
<1>1. ASSUME NEW q \in Reqs  PROVE Tame(obj'[q], flow'[q]) /\ Aware(obj'[q], flow'[q], store')
  <2>1. CASE q = r
    <3>1. flow'[q] = f
      BY <2>1 DEF KInv, AppInv
    <3>. QED  BY <2>1, <3>1
  <2>2. CASE q # r
    <3>1. obj'[q] = obj[q] /\ flow'[q] = flow[q]
      BY <2>2 DEF KInv, AppInv, AInv, TypeOK
    <3>2. flow[q] \in Flows /\ Tame(obj[q], flow[q]) /\ Aware(obj[q], flow[q], store)
      BY Serviced
    <3>. QED  BY <3>1, <3>2, AwareGrows
  <2>. QED  BY <2>1, <2>2
<1>. QED  BY <1>1 DEF KInv, Login

(* One command: it changes no flow, and both its outcomes are served. *)
LEMMA AwaitServed ==
  ASSUME KInv, plain, AppInv', UNCHANGED appVars, NEW r \in Reqs,
         NEW st, NEW um, NEW good, NEW bad, Await(r, st, um, good, bad),
         Grown(store, st), Enduring(st, clock),
         Tame(good, flow[r]), Aware(good, flow[r], st),
         Tame(bad, flow[r]), Aware(bad, flow[r], store)
  PROVE  KInv'
<1>1. flow' = [flow EXCEPT ![r] = flow[r]] /\ token' = token
  BY DEF appVars, KInv, AppInv
<1>2. flow[r] \in Flows /\ Enduring(store, clock) /\ Dated(issued) /\ token \in Sids
      /\ store[token].user # Nil
  BY DEF KInv, AppInv, Login
<1>3. issued' = issued /\ clock' = clock
  BY DEF Await
<1>4. Grown(store, store)
  BY DEF Grown
<1>5. \/ store' = st /\ obj' = [obj EXCEPT ![r] = good]
      \/ store' \in {store, st} /\ obj' = [obj EXCEPT ![r] = bad]
  BY DEF Await
<1>6. obj' = [obj EXCEPT ![r] = obj'[r]]
      /\ \/ store' = st /\ obj'[r] = good
         \/ store' \in {store, st} /\ obj'[r] = bad
  BY <1>5 DEF KInv, AppInv, AInv, TypeOK
<1>7. Aware(bad, flow[r], st)
  BY <1>2, AwareGrows
<1>8. Tame(obj'[r], flow[r]) /\ Aware(obj'[r], flow[r], store')
  BY <1>6, <1>7
<1>9. Grown(store, store') /\ Enduring(store', clock)
  BY <1>2, <1>4, <1>6
<1>10. store'[token'].user # Nil
  BY <1>1, <1>2, <1>9 DEF Grown
<1>. QED  BY <1>1, <1>2, <1>3, <1>6, <1>8, <1>9, <1>10, ServedStep

(* A write to one key; the key of a clone may be none. *)
LEMMA KeyGrown ==
  ASSUME KInv, plain, NEW s, NEW h,
         s \in Sids => Endures(h, clock) /\ (store[s].user # Nil => h.user # Nil)
  PROVE  Grown(store, [store EXCEPT ![s] = h]) /\ Enduring([store EXCEPT ![s] = h], clock)
<1>1. store \in [Sids -> Hashes] /\ Enduring(store, clock)
  BY DEF KInv, AppInv, AInv, TypeOK
<1>. QED  BY <1>1 DEF Grown, Enduring

-----------------------------------------------------------------------------
(* The objects of a renewal *)

(* try_renew under way, or at its end. *)
Renews(o, st) ==
  /\ o.op = "tryRenew" /\ o.pc \in Renewing \cup {"ready"}
  /\ o.sid \in Sids /\ o.ttl \in Ttls
  /\ o.pc = "newid" => o.mode # "judge"
  /\ o.pc = "load" => o.raw.user # Nil
  /\ o.pc # "load" /\ ~ (o.pc = "ready" /\ o.ret = "err") => st[o.sid].user # Nil

(* What its helpers need of an object, wherever it stands. *)
Renewable(o, st) ==
  o \in Objects /\ o.op = "tryRenew" /\ o.sid \in Sids /\ o.ttl \in Ttls /\ st[o.sid].user # Nil

(* The handler that waits for it. *)
Onward(f, st) ==
  /\ f.stage = "authed" /\ f.route # "login" /\ ~ f.auto
  /\ f.sid # Nil => st[f.sid].user # Nil

LEMMA RenewsServed ==
  ASSUME NEW o, NEW f, NEW st, Renews(o, st), Onward(f, st)
  PROVE  Tame(o, f) /\ Aware(o, f, st)
<1>1. Tame(o, f)
  BY DEF Renews, Onward, Tame
<1>2. Aware(o, f, st)
  BY DEF Renews, Onward, Aware, Stuck
<1>. QED  BY <1>1, <1>2

LEMMA ServedRenews ==
  ASSUME NEW o \in Objects, NEW f, NEW st, Tame(o, f), Aware(o, f, st), o.op = "tryRenew",
         o.pc \in Renewing
  PROVE  /\ Renews(o, st) /\ Onward(f, st)
         /\ o.pc # "load" => Renewable(o, st)
<1>1. o.pc \notin {"ready", "closed"}
  BY DEF Renewing
<1>2. Renews(o, st)
  BY <1>1 DEF Renews, Tame, Aware, Stuck
<1>3. Onward(f, st)
  BY <1>1 DEF Onward, Tame, Aware
<1>4. o.pc # "load" => Renewable(o, st)
  BY <1>1, <1>2 DEF Renewable, Renews
<1>. QED  BY <1>2, <1>3, <1>4

LEMMA MoveRenews ==
  ASSUME NEW o, NEW st, Renewable(o, st), NEW pc \in Renewing \ {"load", "newid"}
  PROVE  Renews([o EXCEPT !.pc = pc], st)
<1>. DEFINE p == [o EXCEPT !.pc = pc]
<1>1. p.pc = pc /\ p.op = o.op /\ p.sid = o.sid /\ p.ttl = o.ttl
  BY DEF Renewable, Objects
<1>. HIDE DEF p
<1>2. pc # "ready"
  BY DEF Renewing
<1>3. Renews(p, st)
  BY <1>1, <1>2 DEF Renews, Renewable
<1>. QED  BY <1>3 DEF p

LEMMA ReturnRenews ==
  ASSUME NEW o \in Objects, NEW st, NEW v, o.op = "tryRenew", o.sid \in Sids, o.ttl \in Ttls,
         v # "err" => st[o.sid].user # Nil
  PROVE  Renews(Return(o, v), st)
<1>. DEFINE p == Return(o, v)
<1>1. p.pc = "ready" /\ p.op = o.op /\ p.sid = o.sid /\ p.ttl = o.ttl /\ p.ret = v
  BY DEF Return, Objects
<1>. HIDE DEF p
<1>2. Renews(p, st)
  BY <1>1 DEF Renews
<1>. QED  BY <1>2 DEF p

LEMMA HelpersRenew ==
  ASSUME NEW o, NEW st, Renewable(o, st)
  PROVE  /\ \A v : Renews(Return(o, v), st)
         /\ Renews(AfterRenew(o), st) /\ Renews(AfterUser(o), st) /\ Renews(User(o), st)
         /\ Renews(AfterTouch(o), st) /\ Renews(TryTouch(o), st) /\ Renews(Keep(o), st)
         /\ \A f : Renews(DoClone(o, f), st)
<1>0. o \in Objects /\ o.op = "tryRenew" /\ "tryRenew" \in Renewals /\ "tryRenew" # "user"
  BY DEF Renewable, Renewals
<1>1. \A pc \in {"ctouch", "sadd", "user", "touch", "keep", "raw"} :
        Renews([o EXCEPT !.pc = pc], st)
  <2>. TAKE pc \in {"ctouch", "sadd", "user", "touch", "keep", "raw"}
  <2>1. pc \in Renewing \ {"load", "newid"}
    BY DEF Renewing
  <2>. QED  BY <2>1, MoveRenews
<1>2. \A v : Renews(Return(o, v), st)
  BY ReturnRenews DEF Renewable
<1>3. Renews(AfterRenew(o), st)
  BY <1>0, <1>1 DEF AfterRenew
<1>4. Renews(AfterUser(o), st)
  <2>1. AfterUser(o) = IF o.user = Nil THEN AfterRenew(o) ELSE [o EXCEPT !.pc = "sadd"]
    BY <1>0 DEF AfterUser
  <2>. QED  BY <1>1, <1>3, <2>1
<1>5. Renews(User(o), st)
  BY <1>1, <1>4 DEF User
<1>6. Renews(AfterTouch(o), st)
  <2>. DEFINE a == [o EXCEPT !.loaded = FALSE]
  <2>1. AfterTouch(o) = [a EXCEPT !.pc = "user"]
    BY <1>0 DEF AfterTouch, Objects
  <2>2. a.op = o.op /\ a.sid = o.sid /\ a.ttl = o.ttl
    BY <1>0 DEF Objects
  <2>3. a \in Objects
    BY <1>0, Assigned
  <2>. HIDE DEF a
  <2>4. Renewable(a, st)
    BY <2>2, <2>3 DEF Renewable
  <2>5. "user" \in Renewing \ {"load", "newid"}
    BY DEF Renewing
  <2>. QED  BY <2>1, <2>4, <2>5, MoveRenews
<1>7. Renews(TryTouch(o), st)
  BY <1>1, <1>6 DEF TryTouch
<1>8. Renews(Keep(o), st)
  BY <1>1, <1>2 DEF Keep
<1>9. ASSUME NEW f  PROVE Renews(DoClone(o, f), st)
  <2>. DEFINE p == DoClone(o, f)
  <2>1. p.pc = "raw" /\ p.op = o.op /\ p.sid = o.sid /\ p.ttl = o.ttl
    BY <1>0 DEF DoClone, Objects
  <2>. HIDE DEF p
  <2>2. Renews(p, st)
    BY <2>1 DEF Renews, Renewable, Renewing
  <2>. QED  BY <2>2 DEF p
<1>. QED  BY <1>2, <1>3, <1>4, <1>5, <1>6, <1>7, <1>8, <1>9

(* A command of try_renew, from what its outcomes are. *)
LEMMA AwaitRenews ==
  ASSUME KInv, plain, AppInv', UNCHANGED appVars, NEW r \in Reqs,
         obj[r].op = "tryRenew", obj[r].pc \in Renewing,
         NEW st, NEW um, NEW good, NEW bad, Await(r, st, um, good, bad),
         Grown(store, st), Enduring(st, clock), Renews(good, st), Renews(bad, store)
  PROVE  KInv'
<1>1. Onward(flow[r], store) /\ flow[r] \in Flows
  BY Serviced, ServedRenews
<1>2. Onward(flow[r], st)
  BY <1>1 DEF Onward, Grown, Flows
<1>. QED  BY <1>1, <1>2, RenewsServed, AwaitServed

-----------------------------------------------------------------------------
(* The commands of a renewal *)

LEMMA StillRenewable ==
  ASSUME NEW o, NEW st, Renewable(o, st), NEW p \in Objects,
         p.op = o.op, p.sid = o.sid, p.ttl = o.ttl
  PROVE  Renewable(p, st)
BY DEF Renewable

(* What the writes of a served request leave of a key. *)
LEMMA EndureWrites ==
  ASSUME Early, NEW now \in Nat, NEW h \in Hashes, Endures(h, now)
  PROVE  /\ \A t \in Ttls : Endures(Expire(h, t), now) /\ Expire(h, t).user = h.user
         /\ \A n \in Sids : Endures(HSet(h, "newid", n), now) /\ HSet(h, "newid", n).user = h.user
         /\ \A p \in Profiles : Endures(HSet(h, "user", p), now) /\ HSet(h, "user", p).user # Nil
         /\ \A raw \in Hashes : /\ Endures(HMSet(h, raw), now)
                                /\ h.user # Nil \/ raw.user # Nil => HMSet(h, raw).user # Nil
<1>1. ASSUME NEW t \in Ttls  PROVE Endures(Expire(h, t), now) /\ Expire(h, t).user = h.user
  <2>1. t \in Nat /\ MaxClock < t /\ MaxClock \in Nat
    BY Constants, ConstantsOK DEF Early
  <2>2. now + t > MaxClock
    BY <2>1
  <2>3. [h EXCEPT !.ttl = t].ttl = t /\ [h EXCEPT !.ttl = t].user = h.user
    BY DEF Hashes
  <2>. QED  BY <2>2, <2>3 DEF Expire, Endures
<1>2. ASSUME NEW n \in Sids
      PROVE  Endures(HSet(h, "newid", n), now) /\ HSet(h, "newid", n).user = h.user
  <2>1. HSet(h, "newid", n).ttl = h.ttl /\ HSet(h, "newid", n).user = h.user
    BY DEF HSet, Hashes
  <2>. QED  BY <2>1 DEF Endures
<1>3. ASSUME NEW p \in Profiles
      PROVE  Endures(HSet(h, "user", p), now) /\ HSet(h, "user", p).user # Nil
  <2>1. HSet(h, "user", p).ttl = h.ttl /\ HSet(h, "user", p).user = p
    BY DEF HSet, Hashes
  <2>. QED  BY <2>1, Constants DEF Endures
<1>4. ASSUME NEW raw \in Hashes
      PROVE  /\ Endures(HMSet(h, raw), now)
             /\ h.user # Nil \/ raw.user # Nil => HMSet(h, raw).user # Nil
  <2>1. HMSet(h, raw).ttl = h.ttl /\ HMSet(h, raw).user = Over(raw.user, h.user)
    BY DEF HMSet
  <2>. QED  BY <2>1 DEF Endures, Over
<1>. QED  BY <1>1, <1>2, <1>3, <1>4

(* The commands that only read, and those that write to the index. *)
LEMMA RenewsReads ==
  ASSUME KInv, plain, AppInv', UNCHANGED appVars, NEW r \in Reqs,
         obj[r].op = "tryRenew", obj[r].pc \in Renewing,
         \/ LoadUser(r) \/ GetNewId(r) \/ MappingAdd(r) \/ MappingExpire(r)
  PROVE  KInv'
<1>. DEFINE o == obj[r]
<1>1. /\ o \in Objects /\ store \in [Sids -> Hashes] /\ Enduring(store, clock)
      /\ Renews(o, store) /\ Grown(store, store)
  BY Serviced, ServedRenews DEF Grown
<1>2. o.pc # "load"
  BY DEF LoadUser, GetNewId, MappingAdd, MappingExpire, At
<1>3. Renewable(o, store)
  BY <1>2, Serviced, ServedRenews
<1>4. CASE LoadUser(r)
  <2>. DEFINE a == [o EXCEPT !.loaded = TRUE]
              u == store[o.sid].user
              b == [a EXCEPT !.user = u]
  <2>1. u \in Profiles \cup {Nil}
    BY <1>1, <1>3 DEF Renewable, Hashes
  <2>2. a \in Objects
    BY <1>1, Assigned
  <2>3. a.op = o.op /\ a.sid = o.sid /\ a.ttl = o.ttl
    BY <1>1 DEF Objects
  <2>4. Ask(r, AfterUser(IF u = Nil THEN a ELSE b), AfterUser(a))
    BY <1>4 DEF LoadUser
  <2>. HIDE DEF a, u
  <2>5. b \in Objects
    BY <2>1, <2>2, Assigned
  <2>6. b.op = a.op /\ b.sid = a.sid /\ b.ttl = a.ttl
    BY <2>2 DEF Objects
  <2>. HIDE DEF b
  <2>7. Renewable(a, store) /\ Renewable(b, store)
    BY <1>3, <2>2, <2>3, <2>5, <2>6, StillRenewable
  <2>8. Renews(AfterUser(a), store) /\ Renews(AfterUser(b), store)
    BY <2>7, HelpersRenew
  <2>. QED  BY <1>1, <2>4, <2>8, AwaitRenews DEF Ask
<1>5. CASE GetNewId(r)
  <2>1. o.pc = "newid" /\ o.mode # "judge"
    BY <1>1, <1>5 DEF GetNewId, At, Renews
  <2>2. \E g \in {DoClone(o, "none"), Keep(o)} : Ask(r, g, DoClone(o, "none"))
    BY <1>5, <2>1 DEF GetNewId
  <2>3. Renews(DoClone(o, "none"), store) /\ Renews(Keep(o), store)
    BY <1>3, HelpersRenew
  <2>. QED  BY <1>1, <2>2, <2>3, AwaitRenews DEF Ask
<1>6. CASE MappingAdd(r)
  <2>1. Renews([o EXCEPT !.pc = "mapexpire"], store)
    BY <1>3, MoveRenews DEF Renewing
  <2>2. Renews(AfterRenew(o), store)
    BY <1>3, HelpersRenew
  <2>. QED  BY <1>1, <1>6, <2>1, <2>2, AwaitRenews DEF MappingAdd
<1>7. CASE MappingExpire(r)
  <2>1. Renews(AfterRenew(o), store)
    BY <1>3, HelpersRenew
  <2>. QED  BY <1>1, <1>7, <2>1, AwaitRenews DEF MappingExpire
<1>. QED  BY <1>4, <1>5, <1>6, <1>7

(* The commands that write to the key of the object or of its clone. *)
LEMMA RenewsTouches ==
  ASSUME Early, KInv, plain, AppInv', UNCHANGED appVars, NEW r \in Reqs,
         obj[r].op = "tryRenew", obj[r].pc \in Renewing,
         Touch(r) \/ KeepTouch(r)
  PROVE  KInv'
<1>. DEFINE o == obj[r]
            h == store[o.sid]
            e == Expire(h, o.ttl)
            st == [store EXCEPT ![o.sid] = e]
            a == [o EXCEPT !.touches = Bool(Exists(h))]
<1>1. /\ o \in Objects /\ store \in [Sids -> Hashes] /\ Enduring(store, clock) /\ clock \in Nat
  BY Serviced
<1>2. o.pc # "load"
  BY DEF Touch, KeepTouch, At
<1>3. Renewable(o, store)
  BY <1>2, Serviced, ServedRenews
<1>4. o.sid \in Sids /\ o.ttl \in Ttls /\ h \in Hashes /\ h.user # Nil
  BY <1>1, <1>3 DEF Renewable
<1>5. Endures(e, clock) /\ e.user = h.user
  <2>1. Endures(h, clock)
    BY <1>1, <1>4 DEF Enduring
  <2>. HIDE DEF h
  <2>. QED  BY <1>1, <1>4, <2>1, EndureWrites
<1>6. Grown(store, st) /\ Enduring(st, clock)
  <2>. HIDE DEF e
  <2>. QED  BY <1>4, <1>5, KeyGrown
<1>7. st[o.sid].user # Nil
  BY <1>1, <1>4, <1>5
<1>8. a \in Objects
  <2>1. Bool(Exists(h)) \in {"none", "true", "false"}
    BY BoolType
  <2>. QED  BY <1>1, <2>1, Assigned
<1>9. a.op = o.op /\ a.sid = o.sid /\ a.ttl = o.ttl
  BY <1>1 DEF Objects
<1>10. Touch(r) => Await(r, st, umap, AfterTouch(a), Return(o, "err"))
  BY DEF Touch, Write
<1>11. KeepTouch(r) => Await(r, st, umap, Return(a, "false"), Return(o, "false"))
  BY DEF KeepTouch
<1>. HIDE DEF a, st
<1>12. Renewable(a, st)
  BY <1>3, <1>7, <1>8, <1>9 DEF Renewable
<1>13. Renews(AfterTouch(a), st) /\ Renews(Return(a, "false"), st)
  BY <1>12, HelpersRenew
<1>14. Renews(Return(o, "err"), store) /\ Renews(Return(o, "false"), store)
  BY <1>3, HelpersRenew
<1>. QED  BY <1>6, <1>10, <1>11, <1>13, <1>14, AwaitRenews

LEMMA RenewsClone ==
  ASSUME Early, KInv, plain, AppInv', UNCHANGED appVars, NEW r \in Reqs,
         obj[r].op = "tryRenew", obj[r].pc \in Renewing,
         CloneTouch(r) \/ CloneSetNewId(r)
  PROVE  KInv'
<1>. DEFINE o == obj[r]
            h == store[o.csid]
            e == Expire(h, o.ttl)
            n == HSet(h, "newid", o.sid)
            b == [o EXCEPT !.pc = "csetnew"]
<1>1. /\ o \in Objects /\ store \in [Sids -> Hashes] /\ Enduring(store, clock) /\ clock \in Nat
  BY Serviced
<1>2. o.pc # "load"
  BY DEF CloneTouch, CloneSetNewId, At
<1>3. Renewable(o, store)
  BY <1>2, Serviced, ServedRenews
<1>4. o.sid \in Sids /\ o.ttl \in Ttls
  BY <1>3 DEF Renewable
<1>5. o.csid \in Sids =>
        /\ Endures(e, clock) /\ e.user = h.user
        /\ Endures(n, clock) /\ n.user = h.user
  <2>1. o.csid \in Sids => h \in Hashes /\ Endures(h, clock)
    BY <1>1 DEF Enduring
  <2>. HIDE DEF h
  <2>. QED  BY <1>1, <1>4, <2>1, EndureWrites
<1>6. /\ Grown(store, [store EXCEPT ![o.csid] = e]) /\ Enduring([store EXCEPT ![o.csid] = e], clock)
      /\ Grown(store, [store EXCEPT ![o.csid] = n]) /\ Enduring([store EXCEPT ![o.csid] = n], clock)
  <2>1. o.csid \in Sids => (store[o.csid].user # Nil => e.user # Nil /\ n.user # Nil)
    BY <1>5
  <2>. HIDE DEF e, n
  <2>. QED  BY <1>5, <2>1, KeyGrown
<1>7. CloneTouch(r) => Await(r, [store EXCEPT ![o.csid] = e], umap, b, b)
  BY DEF CloneTouch
<1>8. CloneSetNewId(r) => Await(r, [store EXCEPT ![o.csid] = n], umap, Return(o, "true"), Return(o, "err"))
  BY DEF CloneSetNewId, Write
<1>. HIDE DEF e, n, b
<1>9. \A st : Grown(store, st) => Renewable(o, st)
  BY <1>3 DEF Renewable, Grown
<1>10. Grown(store, store)
  BY DEF Grown
<1>11. \A st : Grown(store, st) => Renews(b, st) /\ Renews(Return(o, "true"), st)
  <2>. TAKE st
  <2>. HAVE Grown(store, st)
  <2>1. Renewable(o, st)
    BY <1>9
  <2>. QED  BY <2>1, MoveRenews, HelpersRenew DEF Renewing, b
<1>12. Renews(Return(o, "err"), store)
  BY <1>3, HelpersRenew
<1>13. CASE CloneTouch(r)
  BY <1>6, <1>7, <1>10, <1>11, <1>13, AwaitRenews
<1>14. CASE CloneSetNewId(r)
  BY <1>6, <1>8, <1>11, <1>12, <1>14, AwaitRenews
<1>. QED  BY <1>13, <1>14

(* The load of the new session makes its id a login. *)
LEMMA RenewsLoad ==
  ASSUME Early, KInv, plain, AppInv', UNCHANGED appVars, NEW r \in Reqs,
         obj[r].op = "tryRenew", obj[r].pc \in Renewing, Load(r)
  PROVE  KInv'
<1>. DEFINE o == obj[r]
            h == store[o.sid]
            g == HMSet(h, o.raw)
            st == [store EXCEPT ![o.sid] = g]
            a == [o EXCEPT !.raw = Missing]
<1>1. /\ o \in Objects /\ store \in [Sids -> Hashes] /\ Enduring(store, clock) /\ clock \in Nat
      /\ Renews(o, store)
  BY Serviced, ServedRenews
<1>2. o.pc = "load" /\ Await(r, st, umap, TryTouch(a), Return(o, "err"))
  BY DEF Load, At, Write
<1>3. o.sid \in Sids /\ o.ttl \in Ttls /\ o.raw.user # Nil /\ o.raw \in Hashes /\ h \in Hashes
  BY <1>1, <1>2 DEF Renews, Objects
<1>4. Endures(g, clock) /\ g.user # Nil
  <2>1. Endures(h, clock)
    BY <1>1, <1>3 DEF Enduring
  <2>. HIDE DEF h
  <2>. QED  BY <1>1, <1>3, <2>1, EndureWrites
<1>5. st[o.sid].user # Nil
  BY <1>1, <1>3, <1>4
<1>6. Grown(store, st) /\ Enduring(st, clock)
  <2>. HIDE DEF g
  <2>. QED  BY <1>4, KeyGrown
<1>7. a \in Objects
  BY <1>1, MissingType, Assigned
<1>8. a.op = o.op /\ a.sid = o.sid /\ a.ttl = o.ttl
  BY <1>1 DEF Objects
<1>. HIDE DEF a, st
<1>9. Renews(TryTouch(a), st)
  <2>1. Renewable(a, st)
    BY <1>3, <1>5, <1>7, <1>8 DEF Renewable
  <2>. QED  BY <2>1, HelpersRenew
<1>10. Renews(Return(o, "err"), store)
  BY <1>1, <1>3, ReturnRenews
<1>. QED  BY <1>2, <1>6, <1>9, <1>10, AwaitRenews

(* renew reads a login and takes a new id, which stays without a key.      *)
LEMMA RenewsRaw ==
  ASSUME KInv, plain, AppInv', UNCHANGED appVars, NEW r \in Reqs,
         obj[r].op = "tryRenew", obj[r].pc \in Renewing, Raw(r)
  PROVE  KInv'
<1>. DEFINE o == obj[r]
            h == store[o.sid]
            raw == Filtered(o, h)
<1>1. /\ o \in Objects /\ store \in [Sids -> Hashes] /\ Enduring(store, clock) /\ Dated(issued)
      /\ Onward(flow[r], store)
  BY Serviced, ServedRenews
<1>2. Renewable(o, store)
  <2>1. o.pc # "load"
    BY DEF Raw, At
  <2>. QED  BY <2>1, Serviced, ServedRenews
<1>3. h \in Hashes /\ h.user # Nil /\ o.sid \in Sids /\ o.ttl \in Ttls
  BY <1>1, <1>2 DEF Renewable
<1>4. raw \in Hashes /\ raw.user # Nil
  <2>1. raw \in {h, [h EXCEPT !.newid = Nil]}
    BY DEF Filtered
  <2>. HIDE DEF h
  <2>2. [h EXCEPT !.newid = Nil] \in Hashes /\ [h EXCEPT !.newid = Nil].user = h.user
    BY <1>3 DEF Hashes
  <2>. QED  BY <1>3, <2>1, <2>2
<1>5. ASSUME NEW n \in Sids  PROVE Renews(Renewed(o, n, raw), store)
  <2>1. Exists(raw)
    BY <1>4, ExistsIs
  <2>. DEFINE p == Renewed(o, n, raw)
  <2>2. p = [[o EXCEPT !.sid = n, !.touches = "none"]
               EXCEPT !.raw = [raw EXCEPT !.ttl = 0], !.pc = "load"]
    BY <2>1 DEF Renewed
  <2>3. p.pc = "load" /\ p.op = o.op /\ p.sid = n /\ p.ttl = o.ttl /\ p.raw = [raw EXCEPT !.ttl = 0]
    <3>. HIDE DEF raw
    <3>. QED  BY <1>1, <2>2 DEF Objects
  <2>4. p.raw.user = raw.user
    <3>. HIDE DEF raw, p
    <3>. QED  BY <1>4, <2>3 DEF Hashes
  <2>. HIDE DEF p, raw
  <2>5. Renews(p, store)
    BY <1>2, <1>4, <2>3, <2>4 DEF Renews, Renewable, Renewing
  <2>. QED  BY <2>5 DEF p
<1>6. /\ Renews(Return(o, "err"), store)
      /\ Renews(Return([o EXCEPT !.touches = "none"], "err"), store)
  <2>. DEFINE a == [o EXCEPT !.touches = "none"]
  <2>1. a \in Objects
    BY <1>1, Assigned
  <2>2. a.op = o.op /\ a.sid = o.sid /\ a.ttl = o.ttl
    BY <1>1 DEF Objects
  <2>. HIDE DEF a
  <2>3. Renewable(a, store)
    BY <1>2, <2>1, <2>2, StillRenewable
  <2>. QED  BY <1>2, <2>3, HelpersRenew DEF a
<1>7. /\ store' = store /\ clock' = clock
      /\ \E p : Renews(p, store) /\ obj' = [obj EXCEPT ![r] = p]
      /\ \/ issued' = issued
         \/ \E n \in Fresh : issued' = [issued EXCEPT ![n] = [ttl |-> o.ttl, born |-> clock]]
  <2>1. CASE \E n \in Fresh :
               /\ issued' = [issued EXCEPT ![n] = [ttl |-> o.ttl, born |-> clock]]
               /\ obj' = [obj EXCEPT ![r] = Renewed(o, n, raw)]
    <3>1. PICK n \in Fresh :
            /\ issued' = [issued EXCEPT ![n] = [ttl |-> o.ttl, born |-> clock]]
            /\ obj' = [obj EXCEPT ![r] = Renewed(o, n, raw)]
      BY <2>1
    <3>2. Renews(Renewed(o, n, raw), store)
      BY <1>5 DEF Fresh
    <3>. QED  BY <3>1, <3>2 DEF Raw
  <2>2. CASE issued' = issued /\ \/ obj' = [obj EXCEPT ![r] = Return(o, "err")]
                                 \/ obj' = [obj EXCEPT ![r] = Return([o EXCEPT !.touches = "none"], "err")]
    <3>. HIDE DEF o
    <3>. QED  BY <1>6, <2>2 DEF Raw
  <2>. QED  BY <2>1, <2>2 DEF Raw
<1>8. Dated(issued')
  <2>1. CASE issued' = issued
    BY <1>1, <2>1
  <2>2. CASE \E n \in Fresh : issued' = [issued EXCEPT ![n] = [ttl |-> o.ttl, born |-> clock]]
    <3>1. issued \in [Sids -> [ttl : Nat, born : Nat] \cup {Nil}]
      BY DEF KInv, AppInv, AInv, TypeOK
    <3>. QED  BY <1>1, <1>3, <2>2, <3>1 DEF Dated, Fresh
  <2>. QED  BY <1>7, <2>1, <2>2
<1>9. obj' = [obj EXCEPT ![r] = obj'[r]] /\ Renews(obj'[r], store)
  BY <1>7 DEF KInv, AppInv, AInv, TypeOK
<1>10. Tame(obj'[r], flow[r]) /\ Aware(obj'[r], flow[r], store)
  BY <1>1, <1>9, RenewsServed
<1>11. /\ flow' = [flow EXCEPT ![r] = flow[r]] /\ token' = token
       /\ token \in Sids /\ store[token].user # Nil
  BY DEF appVars, KInv, AppInv, Login
<1>12. Grown(store, store)
  BY DEF Grown
<1>. QED  BY <1>1, <1>7, <1>8, <1>9, <1>10, <1>11, <1>12, ServedStep

(* What try_renew does once it has been called. *)
LEMMA RenewsOn ==
  ASSUME Early, KInv, plain, AppInv', UNCHANGED appVars, NEW r \in Reqs,
         obj[r].op = "tryRenew", obj[r].pc \in Renewing, Command(r) \/ TryRenew(r)
  PROVE  KInv'
<1>1. \/ LoadUser(r) \/ GetNewId(r) \/ MappingAdd(r) \/ MappingExpire(r)
      \/ Touch(r) \/ KeepTouch(r) \/ CloneTouch(r) \/ CloneSetNewId(r) \/ Load(r) \/ Raw(r)
  BY DEF Command, TryRenew, Renewing, At, SilentSet, SilentGet, SilentDel, ClonedUnmapping,
     ClonedDestroy, Unmapping, LogoutDel, DestroyDel, AllSid, FilterRemove, FilterExists,
     SyncSet, NewTtl, OldTtl, CondemnedDel, DropNewer
<1>. QED  BY <1>1, RenewsReads, RenewsTouches, RenewsClone, RenewsLoad, RenewsRaw

-----------------------------------------------------------------------------
(* The commands of user() and of sync *)

LEMMA UserServed ==
  ASSUME KInv, plain, AppInv', UNCHANGED appVars, NEW r \in Reqs,
         obj[r].op = "user", LoadUser(r)
  PROVE  KInv'
<1>. DEFINE o == obj[r]
            f == flow[r]
            a == [o EXCEPT !.loaded = TRUE]
            u == store[o.sid].user
            b == [a EXCEPT !.user = u]
<1>1. o \in Objects /\ Tame(o, f) /\ Aware(o, f, store) /\ Enduring(store, clock)
  BY Serviced
<1>2. o.pc = "user" /\ Ask(r, AfterUser(IF u = Nil THEN a ELSE b), AfterUser(a))
  BY DEF LoadUser, At
<1>3. ~ Stuck(o, f) /\ f.stage = "checked"
  BY <1>1, <1>2 DEF Stuck, Tame
<1>4. o.sid \in Sids /\ o.ttl \in Ttls /\ store[o.sid].user # Nil
  BY <1>1, <1>2, <1>3 DEF Tame, Aware
<1>5. \A c \in {a, b} : \A v : /\ Return(c, v).pc = "ready" /\ Return(c, v).op = "user"
                               /\ Return(c, v).sid = o.sid /\ Return(c, v).ttl = o.ttl
                               /\ c.op = "user"
  BY <1>1 DEF Objects, Return
<1>6. \A c \in {a, b} : \E v : AfterUser(c) = Return(c, v)
  <2>. TAKE c \in {a, b}
  <2>1. c.op = "user"
    BY <1>5
  <2>. HIDE DEF a, b
  <2>2. AfterUser(c) = Return(c, Bool(c.user # Nil))
    BY <2>1 DEF AfterUser, Renewals
  <2>. QED  BY <2>2
<1>. HIDE DEF a, b, u
<1>7. \A c \in {a, b} : Tame(AfterUser(c), f) /\ Aware(AfterUser(c), f, store)
  <2>. TAKE c \in {a, b}
  <2>. DEFINE p == AfterUser(c)
  <2>1. p.pc = "ready" /\ p.op = "user" /\ p.sid = o.sid /\ p.ttl = o.ttl
    BY <1>5, <1>6
  <2>. HIDE DEF p
  <2>2. Tame(p, f)
    BY <1>1, <1>3, <1>4, <2>1 DEF Tame
  <2>3. Aware(p, f, store)
    BY <1>1, <1>4, <2>1 DEF Aware
  <2>. QED  BY <2>2, <2>3 DEF p
<1>8. \E c \in {a, b} : Ask(r, AfterUser(c), AfterUser(a))
  BY <1>2
<1>9. Grown(store, store)
  BY DEF Grown
<1>. QED  BY <1>1, <1>7, <1>8, <1>9, AwaitServed DEF Ask

(* sync under way, or at its end, and the handler that waits for it. *)
Syncs(o, st) ==
  /\ o.op = "sync" /\ o.pc \in Listing \cup {"ready"}
  /\ o.sid \in Sids /\ o.ttl \in Ttls /\ st[o.sid].user # Nil

Answering(f, st) ==
  /\ f.stage = "reply" /\ f.route # "login" /\ ~ f.auto
  /\ f.sid # Nil => st[f.sid].user # Nil

LEMMA SyncsServed ==
  ASSUME NEW o, NEW f, NEW st, Syncs(o, st), Answering(f, st)
  PROVE  Tame(o, f) /\ Aware(o, f, st)
<1>1. Tame(o, f)
  BY DEF Syncs, Answering, Tame, Listing
<1>2. Aware(o, f, st)
  BY DEF Syncs, Answering, Aware, Listing
<1>. QED  BY <1>1, <1>2

LEMMA SyncingSyncs ==
  ASSUME NEW o \in Objects, NEW st, o.op = "sync", o.sid \in Sids, o.ttl \in Ttls,
         st[o.sid].user # Nil
  PROVE  /\ Syncs(Syncing(o), st) /\ \A v : Syncs(Return(o, v), st)
         /\ Syncs([o EXCEPT !.pc = "filtersrem"], st)
<1>1. \A v : Syncs(Return(o, v), st)
  <2>. TAKE v
  <2>. DEFINE p == Return(o, v)
  <2>1. p.pc = "ready" /\ p.op = o.op /\ p.sid = o.sid /\ p.ttl = o.ttl
    BY DEF Return, Objects
  <2>. HIDE DEF p
  <2>2. Syncs(p, st)
    BY <2>1 DEF Syncs
  <2>. QED  BY <2>2 DEF p
<1>2. \A pc \in {"exists", "hset"} : Syncs([o EXCEPT !.pc = pc, !.cur = Nil], st)
  <2>. TAKE pc \in {"exists", "hset"}
  <2>. DEFINE p == [o EXCEPT !.pc = pc, !.cur = Nil]
  <2>1. p.pc = pc /\ p.op = o.op /\ p.sid = o.sid /\ p.ttl = o.ttl
    BY DEF Objects
  <2>. HIDE DEF p
  <2>2. Syncs(p, st)
    BY <2>1 DEF Syncs, Listing
  <2>. QED  BY <2>2 DEF p
<1>3. Syncs([o EXCEPT !.pc = "filtersrem"], st)
  <2>. DEFINE p == [o EXCEPT !.pc = "filtersrem"]
  <2>1. p.pc = "filtersrem" /\ p.op = o.op /\ p.sid = o.sid /\ p.ttl = o.ttl
    BY DEF Objects
  <2>. HIDE DEF p
  <2>2. Syncs(p, st)
    BY <2>1 DEF Syncs, Listing
  <2>. QED  BY <2>2 DEF p
<1>4. Syncs(Syncing(o), st)
  BY <1>1, <1>2 DEF Syncing
<1>. QED  BY <1>1, <1>3, <1>4

LEMMA AwaitSyncs ==
  ASSUME KInv, plain, AppInv', UNCHANGED appVars, NEW r \in Reqs,
         obj[r].op = "sync", obj[r].pc \in Listing,
         NEW st, NEW um, NEW good, NEW bad, Await(r, st, um, good, bad),
         Grown(store, st), Enduring(st, clock), Syncs(good, st), Syncs(bad, store)
  PROVE  KInv'
<1>1. obj[r].pc \notin {"ready", "closed"}
  BY DEF Listing
<1>2. Answering(flow[r], store) /\ flow[r] \in Flows
  BY <1>1, Serviced DEF Answering, Tame, Aware
<1>3. Answering(flow[r], st)
  BY <1>2 DEF Answering, Grown, Flows
<1>. QED  BY <1>2, <1>3, SyncsServed, AwaitServed

(* sync lists, asks, and writes the profile into the sessions it found. *)
LEMMA SyncOn ==
  ASSUME KInv, plain, Early, AppInv', UNCHANGED appVars, NEW r \in Reqs,
         obj[r].op = "sync", obj[r].pc \in Listing, Command(r) \/ TryRenew(r)
  PROVE  KInv'
<1>. DEFINE o == obj[r]
<1>1. /\ o \in Objects /\ store \in [Sids -> Hashes] /\ Enduring(store, clock) /\ clock \in Nat
      /\ Tame(o, flow[r]) /\ Aware(o, flow[r], store) /\ AInv /\ Grown(store, store)
  BY Serviced DEF Grown
<1>2. o.pc \notin {"ready", "closed", "load"}
  BY DEF Listing
<1>3. o.sid \in Sids /\ o.ttl \in Ttls /\ store[o.sid].user # Nil
  BY <1>1, <1>2 DEF Tame, Aware, Stuck
<1>4. o.arg \in Profiles /\ o.todo \subseteq Sids /\ o.kept \subseteq Sids
  BY <1>1 DEF AInv, Sound, Objects
<1>5. /\ Syncs(Return(o, "err"), store) /\ Syncs(Syncing(o), store)
  BY <1>1, <1>3, SyncingSyncs
<1>6. ASSUME NEW a \in Objects, a.op = o.op, a.sid = o.sid, a.ttl = o.ttl, NEW st, Grown(store, st)
      PROVE  Syncs(Syncing(a), st) /\ Syncs([a EXCEPT !.pc = "filtersrem"], st)
  <2>1. st[a.sid].user # Nil
    BY <1>3, <1>6 DEF Grown
  <2>. QED  BY <1>3, <1>6, <2>1, SyncingSyncs
<1>7. CASE AllSid(r)
  <2>. DEFINE a == [o EXCEPT !.todo = umap[o.arg.uid].sids]
  <2>1. umap[o.arg.uid].sids \subseteq Sids
    BY <1>1, <1>4 DEF AInv, TypeOK, Profiles
  <2>2. a \in Objects
    BY <1>1, <2>1, Assigned
  <2>3. a.op = o.op /\ a.sid = o.sid /\ a.ttl = o.ttl
    BY <1>1 DEF Objects
  <2>4. Ask(r, Syncing(a), Return(o, "err"))
    BY <1>7 DEF AllSid
  <2>. HIDE DEF a
  <2>5. Syncs(Syncing(a), store)
    BY <1>1, <1>6, <2>2, <2>3
  <2>. QED  BY <1>1, <1>5, <2>4, <2>5, AwaitSyncs DEF Ask
<1>8. ASSUME NEW s \in Sids, FilterExists(r, s)
      PROVE  KInv'
  <2>. DEFINE a == [o EXCEPT !.todo = o.todo \ {s}]
              b == [a EXCEPT !.kept = a.kept \cup {s}]
              c == [a EXCEPT !.cur = s]
              d == [a EXCEPT !.cur = s, !.pc = "filtersrem"]
  <2>1. a \in Objects
    BY <1>1, <1>4, Assigned
  <2>2. a.op = o.op /\ a.sid = o.sid /\ a.ttl = o.ttl /\ a.kept \subseteq Sids
    BY <1>1, <1>4 DEF Objects
  <2>3. \E g \in {Syncing(b), d} : Ask(r, g, Return(a, "err"))
    <3>1. Ask(r, IF Exists(store[s]) THEN Syncing(b) ELSE d, Return(a, "err"))
      BY <1>1, <1>8 DEF FilterExists
    <3>. HIDE DEF a, b, d
    <3>. QED  BY <3>1
  <2>. HIDE DEF a
  <2>4. b \in Objects /\ c \in Objects
    BY <2>1, <2>2, Assigned
  <2>5. /\ b.op = a.op /\ b.sid = a.sid /\ b.ttl = a.ttl
        /\ c.op = a.op /\ c.sid = a.sid /\ c.ttl = a.ttl
        /\ d = [c EXCEPT !.pc = "filtersrem"]
    BY <2>1 DEF Objects
  <2>. HIDE DEF b, c, d
  <2>6. Syncs(Syncing(b), store) /\ Syncs(d, store)
    BY <1>1, <1>6, <2>2, <2>4, <2>5
  <2>7. Syncs(Return(a, "err"), store)
    BY <1>3, <2>1, <2>2, SyncingSyncs
  <2>. QED  BY <1>1, <2>3, <2>6, <2>7, AwaitSyncs DEF Ask
<1>9. CASE FilterRemove(r)
  BY <1>1, <1>5, <1>9, AwaitSyncs DEF FilterRemove
<1>10. ASSUME NEW s \in Sids, SyncSet(r, s)
       PROVE  KInv'
  <2>. DEFINE a == [o EXCEPT !.kept = @ \ {s}]
              g == HSet(store[s], "user", o.arg)
              st == [store EXCEPT ![s] = g]
  <2>1. a \in Objects
    BY <1>1, <1>4, Assigned
  <2>2. a.op = o.op /\ a.sid = o.sid /\ a.ttl = o.ttl
    BY <1>1 DEF Objects
  <2>3. Await(r, st, umap, Syncing(a), Return(o, "err"))
    BY <1>10 DEF SyncSet, Write
  <2>4. Endures(g, clock) /\ g.user # Nil
    <3>1. Endures(store[s], clock) /\ store[s] \in Hashes
      BY <1>1 DEF Enduring
    <3>. QED  BY <1>1, <1>4, <3>1, EndureWrites
  <2>. HIDE DEF a, g
  <2>5. Grown(store, st) /\ Enduring(st, clock)
    BY <2>4, KeyGrown
  <2>. HIDE DEF st
  <2>6. Syncs(Syncing(a), st)
    BY <1>6, <2>1, <2>2, <2>5
  <2>. QED  BY <1>5, <2>3, <2>5, <2>6, AwaitSyncs
<1>11. \/ AllSid(r) \/ FilterRemove(r) \/ \E s \in Sids : FilterExists(r, s) \/ SyncSet(r, s)
  BY DEF Command, TryRenew, Listing, At, LoadUser, SilentSet, SilentGet, SilentDel, Touch, Raw, Load,
     MappingAdd, MappingExpire, ClonedUnmapping, ClonedDestroy, Unmapping, LogoutDel, DestroyDel,
     KeepTouch, GetNewId, NewTtl, OldTtl, CondemnedDel, DropNewer, CloneTouch, CloneSetNewId
<1>. QED  BY <1>7, <1>8, <1>9, <1>10, <1>11

(* Whatever command a served request sends. *)
LEMMA CommandServed ==
  ASSUME KInv, plain, Early, AppInv', UNCHANGED appVars, NEW r \in Reqs, Command(r) \/ TryRenew(r)
  PROVE  KInv'
<1>. DEFINE o == obj[r]
<1>1. Tame(o, flow[r])
  BY Serviced
<1>2. o.pc \notin {"ready", "closed"}
  BY DEF Command, TryRenew, At, LoadUser, SilentSet, SilentGet, SilentDel, Touch, Raw, Load,
     MappingAdd, MappingExpire, ClonedUnmapping, ClonedDestroy, Unmapping, LogoutDel, DestroyDel,
     AllSid, FilterRemove, FilterExists, SyncSet,
     KeepTouch, GetNewId, NewTtl, OldTtl, CondemnedDel, DropNewer, CloneTouch, CloneSetNewId
<1>3. \/ o.op = "user" /\ o.pc = "user"
      \/ o.op = "tryRenew" /\ o.pc \in Renewing
      \/ o.op = "sync" /\ o.pc \in Listing
  BY <1>1, <1>2 DEF Tame
<1>4. CASE o.op = "user" /\ o.pc = "user"
  <2>1. LoadUser(r)
    BY <1>4 DEF Command, TryRenew, At, SilentSet, SilentGet, SilentDel, Touch, Raw, Load,
     MappingAdd, MappingExpire, ClonedUnmapping, ClonedDestroy, Unmapping, LogoutDel, DestroyDel,
     AllSid, FilterRemove, FilterExists, SyncSet,
     KeepTouch, GetNewId, NewTtl, OldTtl, CondemnedDel, DropNewer, CloneTouch, CloneSetNewId
  <2>. QED  BY <1>4, <2>1, UserServed
<1>. QED  BY <1>3, <1>4, RenewsOn, SyncOn

-----------------------------------------------------------------------------
(* The handler of a request that is only served *)

(* A step that moves the handler, and reads or starts a call of its object. *)
LEMMA StageServed ==
  ASSUME KInv, plain, AppInv', NEW r \in Reqs, NEW stage \in Stages, Goto(r, stage),
         store' = store, issued' = issued, clock' = clock,
         obj' = [obj EXCEPT ![r] = obj'[r]],
         \A g \in Flows : /\ g.stage = stage /\ g.route = flow[r].route
                          /\ g.auto = flow[r].auto /\ g.sid = flow[r].sid
           => Tame(obj'[r], g) /\ Aware(obj'[r], g, store)
  PROVE  KInv'
<1>. DEFINE g == [flow[r] EXCEPT !.stage = stage]
<1>1. flow[r] \in Flows
  BY Serviced
<1>2. g \in Flows /\ g.stage = stage /\ g.route = flow[r].route
      /\ g.auto = flow[r].auto /\ g.sid = flow[r].sid
  BY <1>1 DEF Flows
<1>3. flow' = [flow EXCEPT ![r] = g] /\ token' = token
  BY GotoMoves DEF Goto, KInv
<1>. HIDE DEF g
<1>4. Tame(obj'[r], g) /\ Aware(obj'[r], g, store)
  BY <1>2
<1>5. /\ Grown(store, store) /\ Enduring(store, clock) /\ Dated(issued)
      /\ token \in Sids /\ store[token].user # Nil
  BY DEF Grown, KInv, Login
<1>. QED  BY <1>3, <1>4, <1>5, ServedStep

(* Between two calls of its handler, a request that is not about to fail   *)
(* holds an id that is logged in.                                          *)
LEMMA AtRest ==
  ASSUME KInv, plain, NEW r \in Reqs, obj[r].pc = "ready"
  PROVE  /\ obj[r].sid \in Sids /\ obj[r].ttl \in Ttls
         /\ flow[r].stage # "idle" => flow[r].route # "login" /\ ~ flow[r].auto
         /\ flow[r].sid # Nil => store[flow[r].sid].user # Nil
         /\ ~ Stuck(obj[r], flow[r]) => store[obj[r].sid].user # Nil
BY Serviced DEF Tame, Aware

(* A new request comes with the id the client holds. *)
LEMMA ArriveServed ==
  ASSUME KInv, plain, plain', AppInv', NEW r \in Reqs, NEW route, NEW auto, Arrive(r, route, auto)
  PROVE  KInv'
<1>. DEFINE f == [stage |-> "valid", route |-> route, auto |-> auto, sid |-> Nil]
            p == Object(token, issued[token].ttl)
<1>1. /\ token \in Sids /\ store[token].user # Nil /\ Enduring(store, clock) /\ Dated(issued)
      /\ Grown(store, store)
  BY DEF KInv, Login, Grown
<1>2. token # Nil
  BY <1>1, Constants
<1>3. OpenWith(r, token) /\ route # "login" /\ ~ auto /\ token' = token
      /\ flow' = [flow EXCEPT ![r] = f]
  BY <1>2 DEF Arrive
<1>4. issued[token] # Nil
  BY <1>3 DEF OpenWith, KInv, AppInv, AInv, TypeOK, Fresh
<1>5. issued[token].ttl \in Ttls
  BY <1>1, <1>4 DEF Dated
<1>6. /\ store' = store /\ issued' = issued /\ clock' = clock
      /\ obj' = [obj EXCEPT ![r] = obj'[r]] /\ obj'[r] = p
  BY <1>3 DEF OpenWith, KInv, AppInv, AInv, TypeOK
<1>7. p.pc = "ready" /\ p.op = "none" /\ p.sid = token /\ p.ttl = issued[token].ttl
  BY DEF Object
<1>8. f.stage = "valid" /\ f.route = route /\ f.auto = auto /\ f.sid = Nil
  OBVIOUS
<1>. HIDE DEF p, f
<1>9. Tame(p, f)
  BY <1>1, <1>3, <1>5, <1>7, <1>8 DEF Tame
<1>10. Aware(p, f, store)
  BY <1>1, <1>7, <1>8 DEF Aware
<1>. QED  BY <1>1, <1>3, <1>6, <1>9, <1>10, ServedStep

(* The stages that call nothing. *)
LEMMA LookServed ==
  ASSUME KInv, plain, AppInv', NEW r \in Reqs,
         \/ Valid(r) /\ ~ Private(flow[r].route)
         \/ Checked(r) \/ Show(r)
         \/ Authed(r) /\ obj[r].ret = "err"
  PROVE  KInv'
<1>. DEFINE o == obj[r]
            f == flow[r]
<1>1. /\ o.pc = "ready" /\ UNCHANGED vars
      /\ \/ f.stage = "valid" /\ Goto(r, "auth")
         \/ f.stage = "checked" /\ Goto(r, "auth")
         \/ f.stage \in {"checked", "authed", "controller"} /\ Goto(r, "reply")
  BY DEF Valid, Checked, Authed, Show, Ready, Failed
<1>2. Tame(o, f) /\ Aware(o, f, store)
  BY Serviced
<1>3. /\ store' = store /\ issued' = issued /\ clock' = clock
      /\ obj' = [obj EXCEPT ![r] = obj'[r]] /\ obj'[r] = o
  BY <1>1 DEF vars, KInv, AppInv, AInv, TypeOK
<1>4. {"auth", "reply"} \subseteq Stages
  BY DEF Stages
<1>5. CASE f.stage \in {"valid", "checked"} /\ Goto(r, "auth")
  <2>1. o.op \in {"none", "user"}
    BY <1>2, <1>5 DEF Tame
  <2>2. \A g \in Flows : g.stage = "auth" /\ g.route = f.route /\ g.auto = f.auto /\ g.sid = f.sid
          => Tame(o, g) /\ Aware(o, g, store)
    BY <1>1, <1>2, <1>5, <2>1 DEF Tame, Aware, Stuck
  <2>. QED  BY <1>3, <1>4, <1>5, <2>2, StageServed
<1>6. CASE f.stage \in {"checked", "authed", "controller"} /\ Goto(r, "reply")
  <2>1. \A g \in Flows : g.stage = "reply" /\ g.route = f.route /\ g.auto = f.auto /\ g.sid = f.sid
          => Tame(o, g)
    BY <1>1, <1>2, <1>6 DEF Tame
  <2>2. \A g \in Flows : g.stage = "reply" /\ g.route = f.route /\ g.auto = f.auto /\ g.sid = f.sid
          => Aware(o, g, store)
    BY <1>1, <1>2, <1>6 DEF Aware, Stuck
  <2>. QED  BY <1>3, <1>4, <1>6, <2>1, <2>2, StageServed
<1>. QED  BY <1>1, <1>5, <1>6

(* set_resp_sid: the renewed id is a login. *)
LEMMA AuthedServed ==
  ASSUME KInv, plain, AppInv', NEW r \in Reqs, Authed(r), obj[r].ret # "err"
  PROVE  KInv'
<1>. DEFINE o == obj[r]
            f == flow[r]
            s == IF o.ret = "true" THEN o.sid ELSE f.sid
            g == [f EXCEPT !.stage = "controller", !.sid = s]
<1>1. /\ o.pc = "ready" /\ f.stage = "authed" /\ UNCHANGED <<vars, token, used, plain>>
      /\ flow' = [flow EXCEPT ![r].stage = "controller",
                              ![r].sid = IF o.ret = "true" THEN o.sid ELSE @]
  BY DEF Authed, Ready
<1>2. Tame(o, f) /\ Aware(o, f, store) /\ ~ Stuck(o, f) /\ f \in Flows
  BY Serviced DEF Stuck
<1>3. flow' = [flow EXCEPT ![r] = g]
  BY <1>1, <1>2 DEF KInv, AppInv, Flows
<1>4. g.stage = "controller" /\ g.route = f.route /\ g.auto = f.auto /\ g.sid = s
  <2>. HIDE DEF s
  <2>. QED  BY <1>2 DEF Flows
<1>5. s # Nil => store[s].user # Nil
  BY <1>1, <1>2, AtRest
<1>. HIDE DEF s, g
<1>6. Tame(o, g)
  BY <1>1, <1>2, <1>4 DEF Tame
<1>7. Aware(o, g, store)
  BY <1>1, <1>2, <1>4, <1>5 DEF Aware
<1>8. /\ store' = store /\ issued' = issued /\ clock' = clock /\ token' = token
      /\ obj' = [obj EXCEPT ![r] = obj'[r]] /\ obj'[r] = o
  BY <1>1 DEF vars, KInv, AppInv, AInv, TypeOK
<1>9. /\ Grown(store, store) /\ Enduring(store, clock) /\ Dated(issued)
      /\ token \in Sids /\ store[token].user # Nil
  BY DEF Grown, KInv, Login
<1>. QED  BY <1>3, <1>6, <1>7, <1>8, <1>9, ServedStep

(* valid() asks for the user, modify() syncs it. *)
LEMMA CallsServed ==
  ASSUME KInv, plain, AppInv', NEW r \in Reqs,
         \/ Valid(r) /\ Private(flow[r].route)
         \/ Modify(r)
  PROVE  KInv'
<1>. DEFINE o == obj[r]
            f == flow[r]
<1>1. o.pc = "ready" /\ o \in Objects /\ AInv /\ Tame(o, f) /\ Aware(o, f, store)
  BY Serviced DEF Valid, Modify, Ready
<1>2. {"checked", "reply"} \subseteq Stages
  BY DEF Stages
<1>3. CASE Valid(r) /\ Private(f.route)
  <2>1. CallUser(r) /\ Goto(r, "checked") /\ f.stage = "valid"
    BY <1>3 DEF Valid, Ready
  <2>. DEFINE b == Begin(o, "user")
              p == User(b)
  <2>2. /\ store' = store /\ issued' = issued /\ clock' = clock
        /\ obj' = [obj EXCEPT ![r] = obj'[r]] /\ obj'[r] = p
    BY <1>1, <2>1 DEF CallUser, Call, AInv, TypeOK
  <2>3. b.op = "user" /\ b.sid = o.sid /\ b.ttl = o.ttl /\ b \in Objects
    <3>1. b.op = "user" /\ b.sid = o.sid /\ b.ttl = o.ttl
      BY <1>1 DEF Begin, Objects
    <3>2. b \in Objects
      BY <1>1, BeginBase DEF Calls
    <3>. QED  BY <3>1, <3>2
  <2>. HIDE DEF b
  <2>4. p.pc \in {"ready", "user"} /\ p.op = "user" /\ p.sid = o.sid /\ p.ttl = o.ttl
    <3>1. p \in {[b EXCEPT !.pc = "user"], Return(b, Bool(b.user # Nil))}
      BY <2>3 DEF User, AfterUser, Renewals
    <3>2. \A v : Return(b, v).pc = "ready" /\ Return(b, v).op = "user"
                 /\ Return(b, v).sid = o.sid /\ Return(b, v).ttl = o.ttl
      BY <2>3 DEF Return, Objects
    <3>3. LET q == [b EXCEPT !.pc = "user"]
          IN  q.pc = "user" /\ q.op = "user" /\ q.sid = o.sid /\ q.ttl = o.ttl
      BY <2>3 DEF Objects
    <3>. QED  BY <3>1, <3>2, <3>3
  <2>. HIDE DEF p
  <2>5. o.sid \in Sids /\ o.ttl \in Ttls /\ store[o.sid].user # Nil
    BY <1>1, <2>1, AtRest DEF Stuck
  <2>6. \A g \in Flows : g.stage = "checked" /\ g.route = f.route /\ g.auto = f.auto /\ g.sid = f.sid
          => Tame(p, g) /\ Aware(p, g, store)
    <3>. TAKE g \in Flows
    <3>. HAVE g.stage = "checked" /\ g.route = f.route /\ g.auto = f.auto /\ g.sid = f.sid
    <3>1. Tame(p, g)
      BY <1>1, <2>1, <2>4, <2>5 DEF Tame
    <3>2. Aware(p, g, store)
      BY <1>1, <2>4, <2>5 DEF Aware
    <3>. QED  BY <3>1, <3>2
  <2>. QED  BY <1>2, <2>1, <2>2, <2>6, StageServed
<1>4. CASE Modify(r)
  <2>1. PICK x \in Roles : CallSync(r, [o.user EXCEPT !.role = x])
    BY <1>4 DEF Modify
  <2>2. Goto(r, "reply") /\ f.stage = "controller"
    BY <1>4 DEF Modify, Ready
  <2>. DEFINE p == [Begin(o, "sync") EXCEPT !.arg = [o.user EXCEPT !.role = x], !.pc = "smembers"]
  <2>3. /\ store' = store /\ issued' = issued /\ clock' = clock
        /\ obj' = [obj EXCEPT ![r] = obj'[r]] /\ obj'[r] = p
    BY <1>1, <2>1 DEF CallSync, Call, AInv, TypeOK
  <2>4. p.pc = "smembers" /\ p.op = "sync" /\ p.sid = o.sid /\ p.ttl = o.ttl
    BY <1>1 DEF Begin, Objects
  <2>. HIDE DEF p
  <2>5. Syncs(p, store)
    BY <1>1, <2>2, <2>4, AtRest DEF Syncs, Listing, Stuck
  <2>6. \A g \in Flows : g.stage = "reply" /\ g.route = f.route /\ g.auto = f.auto /\ g.sid = f.sid
          => Answering(g, store)
    BY <1>1, <2>2, AtRest DEF Answering
  <2>. QED  BY <1>2, <2>2, <2>3, <2>5, <2>6, SyncsServed, StageServed
<1>. QED  BY <1>3, <1>4

(* before_controller calls try_renew while the session is too young to be  *)
(* judged: its id was generated at or after the first tick.                *)
LEMMA AuthServed ==
  ASSUME Early, KInv, plain, AppInv', NEW r \in Reqs, Auth(r)
  PROVE  KInv'
<1>. DEFINE o == obj[r]
            f == flow[r]
            b == Begin(o, "tryRenew")
            since == clock - issued[b.sid].born - Interval
            n == [b EXCEPT !.pc = "newid",
                           !.mode = IF since > Judgment THEN "judge" ELSE "young"]
<1>1. o.pc = "ready" /\ f.stage = "auth" /\ o \in Objects /\ AInv /\ Tame(o, f) /\ Aware(o, f, store)
  BY Serviced DEF Auth, Ready
<1>2. CallTryRenew(r) /\ Goto(r, "authed")
  BY <1>1, AtRest DEF Auth
<1>3. b \in Objects /\ b.op = "tryRenew" /\ b.sid = o.sid /\ b.ttl = o.ttl /\ Anchored(b, issued)
  <2>1. b.ttl = o.ttl
    BY <1>1 DEF Begin, Objects
  <2>. QED  BY <1>1, <2>1, BeginBase DEF Calls
<1>4. obj' = [obj EXCEPT ![r] = obj'[r]] /\ obj'[r] \in {Keep(b), n}
      /\ store' = store /\ issued' = issued /\ clock' = clock
  <2>1. Call(r, "tryRenew", IF since < 0 THEN Keep(b) ELSE n)
    BY <1>2 DEF CallTryRenew
  <2>. HIDE DEF b, since, n
  <2>. QED  BY <1>1, <2>1 DEF Call, AInv, TypeOK
<1>5. ~ (since > Judgment)
  <2>1. issued[b.sid] \in [ttl : Nat, born : Nat] /\ clock \in Nat
    BY <1>1, <1>3 DEF Anchored, AInv, TypeOK
  <2>. DEFINE i == issued[b.sid]
  <2>2. i.born \in Nat
    BY <2>1
  <2>. HIDE DEF i
  <2>3. clock <= MaxClock /\ MaxClock <= Interval + Judgment
    BY DEF KInv, Early
  <2>4. MaxClock \in Nat /\ Interval \in Nat /\ Judgment \in Nat
    BY ConstantsOK, DurationsOK
  <2>5. since = clock - i.born - Interval
    BY DEF i
  <2>. HIDE DEF since
  <2>. QED  BY <2>1, <2>2, <2>3, <2>4, <2>5
<1>6. o.sid \in Sids /\ o.ttl \in Ttls /\ store[o.sid].user # Nil
  BY <1>1, AtRest DEF Stuck
<1>. HIDE DEF b, since
<1>7. Renewable(b, store)
  BY <1>3, <1>6 DEF Renewable
<1>8. n.pc = "newid" /\ n.op = b.op /\ n.sid = b.sid /\ n.ttl = b.ttl /\ n.mode = "young"
  BY <1>3, <1>5 DEF Objects
<1>. HIDE DEF n
<1>9. Renews(n, store)
  BY <1>7, <1>8 DEF Renews, Renewable, Renewing
<1>10. Renews(obj'[r], store)
  BY <1>4, <1>7, <1>9, HelpersRenew
<1>11. \A g \in Flows : g.stage = "authed" /\ g.route = f.route /\ g.auto = f.auto /\ g.sid = f.sid
         => Onward(g, store)
  BY <1>1, AtRest DEF Onward
<1>12. "authed" \in Stages
  BY DEF Stages
<1>. QED  BY <1>2, <1>4, <1>10, <1>11, <1>12, RenewsServed, StageServed

(* The end of a request: the client adopts a login, or keeps its own.      *)
LEMMA EndServed ==
  ASSUME KInv, plain, AppInv', NEW r \in Reqs, Respond(r) \/ Lose(r) \/ AppDrop(r)
  PROVE  KInv'
<1>1. /\ store' = store /\ issued' = issued /\ clock' = clock
      /\ obj' = [obj EXCEPT ![r] = Closed] /\ flow' = [flow EXCEPT ![r] = NoFlow]
      /\ token' \in {token, flow[r].sid} /\ (token' = token \/ flow[r].sid # Nil)
  BY DEF Respond, Lose, AppDrop, Drop
<1>2. /\ Enduring(store, clock) /\ Dated(issued) /\ flow[r] \in Flows
      /\ Aware(obj[r], flow[r], store) /\ Grown(store, store)
      /\ token \in Sids /\ store[token].user # Nil
  BY Serviced DEF KInv, Login, Grown
<1>3. token' \in Sids /\ store[token'].user # Nil
  BY <1>1, <1>2 DEF Aware, Flows
<1>4. Tame(Closed, NoFlow) /\ Aware(Closed, NoFlow, store)
  <2>1. Closed.pc = "closed" /\ Closed.op = "none"
    BY DEF Closed, Object
  <2>2. NoFlow.stage = "idle" /\ NoFlow.sid = Nil
    BY DEF NoFlow
  <2>. QED  BY <2>1, <2>2 DEF Tame, Aware
<1>5. obj' = [obj EXCEPT ![r] = obj'[r]] /\ obj'[r] = Closed
  BY <1>1 DEF KInv, AppInv, AInv, TypeOK
<1>. QED  BY <1>1, <1>2, <1>3, <1>4, <1>5, ServedStep

(* A tick: no key has run out by the last one. *)
LEMMA TickServed ==
  ASSUME KInv, plain, AppInv', Tick, UNCHANGED appVars
  PROVE  KInv'
<1>1. /\ clock \in Nat /\ MaxClock \in Nat /\ clock < MaxClock /\ clock' = clock + 1
      /\ issued' = issued /\ obj' = obj /\ flow' = flow /\ token' = token
      /\ store \in [Sids -> Hashes] /\ store' = [s \in Sids |-> Age(store[s], Missing)]
  BY ConstantsOK DEF Tick, appVars, KInv, AppInv, AInv, TypeOK
<1>2. ASSUME NEW h \in Hashes, Endures(h, clock)
      PROVE  Endures(Age(h, Missing), clock') /\ Age(h, Missing).user = h.user
  <2>1. h.ttl \in Nat
    BY DEF Hashes
  <2>2. CASE h.ttl = 0
    BY <2>2 DEF Age, Endures
  <2>3. CASE h.ttl # 0
    <3>1. clock + h.ttl > MaxClock
      BY <1>2, <2>3 DEF Endures
    <3>2. h.ttl # 1
      BY <1>1, <2>1, <3>1
    <3>. DEFINE g == [h EXCEPT !.ttl = @ - 1]
    <3>3. Age(h, Missing) = g
      BY <2>3, <3>2 DEF Age
    <3>4. g.ttl = h.ttl - 1 /\ g.user = h.user
      BY DEF Hashes
    <3>. HIDE DEF g
    <3>5. clock' + g.ttl > MaxClock
      BY <1>1, <2>1, <3>1, <3>4
    <3>. QED  BY <3>3, <3>4, <3>5 DEF Endures
  <2>. QED  BY <2>2, <2>3
<1>3. \A s \in Sids : Endures(store'[s], clock') /\ store'[s].user = store[s].user
  BY <1>1, <1>2 DEF KInv, Enduring
<1>4. Grown(store, store')
  BY <1>3 DEF Grown
<1>5. Enduring(store', clock')
  BY <1>3 DEF Enduring
<1>6. ASSUME NEW q \in Reqs  PROVE Tame(obj[q], flow[q]) /\ Aware(obj[q], flow[q], store')
  BY <1>4, Serviced, AwareGrows
<1>7. token \in Sids /\ store'[token].user # Nil /\ Dated(issued)
  BY <1>4 DEF KInv, Login, Grown
<1>8. clock' <= MaxClock
  BY <1>1
<1>. QED  BY <1>1, <1>5, <1>6, <1>7, <1>8 DEF KInv, Login

-----------------------------------------------------------------------------
(* The theorem *)

LEMMA StartKInv == Early /\ AppStart => KInv
<1>. SUFFICES ASSUME Early, AppStart  PROVE KInv
  OBVIOUS
<1>1. /\ AppInv /\ clock = 0 /\ MaxClock \in Nat
      /\ \A r \in Reqs : obj[r] = Closed /\ flow[r] = NoFlow
  BY ConstantsOK DEF AppStart
<1>2. \A r \in Reqs : Tame(obj[r], flow[r]) /\ Aware(obj[r], flow[r], store)
  <2>1. Closed.pc = "closed" /\ Closed.op = "none"
    BY DEF Closed, Object
  <2>2. NoFlow.stage = "idle" /\ NoFlow.sid = Nil
    BY DEF NoFlow
  <2>. QED  BY <1>1, <2>1, <2>2 DEF Tame, Aware
<1>3. Enduring(store, clock)
  <2>1. \A s \in Sids : store[s].ttl = 0 \/ store[s].ttl \in Ttls
    BY DEF AppStart
  <2>2. \A t \in Ttls : clock + t > MaxClock
    BY <1>1, Constants DEF Early
  <2>. QED  BY <2>1, <2>2 DEF Enduring, Endures
<1>4. token \in Sids
  BY <1>1 DEF AppStart, AppInv, AInv, TypeOK
<1>. QED  BY <1>1, <1>2, <1>3, <1>4 DEF AppStart, KInv

LEMMA NextKInv == Early /\ KInv /\ [AppNext]_allVars => KInv'
<1>. SUFFICES ASSUME Early, KInv, [AppNext]_allVars  PROVE KInv'
  OBVIOUS
<1>1. AppInv'
  BY AppNextInv DEF KInv
<1>2. clock' <= MaxClock /\ (plain' => plain)
  <2>1. CASE UNCHANGED allVars
    BY <2>1 DEF allVars, vars, appVars, KInv
  <2>2. CASE Tick /\ UNCHANGED appVars
    BY <2>2, ConstantsOK DEF Tick, appVars, KInv, AppInv, AInv, TypeOK
  <2>3. ASSUME NEW r \in Reqs, NEW route, NEW auto, Arrive(r, route, auto)
        PROVE  clock' = clock /\ (plain' => plain)
    BY <2>3 DEF Arrive, OpenNew, OpenWith
  <2>4. ASSUME NEW r \in Reqs, Command(r) \/ TryRenew(r)  PROVE clock' = clock
    BY <2>4 DEF Command, TryRenew, Await, Ask, Write, LoadUser, SilentSet, SilentGet, SilentDel,
       Touch, Raw, Load, MappingAdd, MappingExpire, ClonedUnmapping, ClonedDestroy, Unmapping,
       LogoutDel, DestroyDel, AllSid, FilterRemove, FilterExists, SyncSet, KeepTouch, GetNewId,
       NewTtl, OldTtl, CondemnedDel, DropNewer, CloneTouch, CloneSetNewId
  <2>5. ASSUME NEW r \in Reqs, Handler(r)
        PROVE  clock' = clock /\ plain' = plain
    <3>1. CASE (Command(r) \/ TryRenew(r)) /\ UNCHANGED appVars
      BY <2>4, <3>1 DEF appVars
    <3>2. CASE \/ Valid(r) \/ Checked(r) \/ Auth(r) \/ Authed(r)
               \/ Show(r) \/ LoginAs(r) \/ Modify(r) \/ Logged(r)
      BY <3>2 DEF Valid, Checked, Auth, Authed, Show, LoginAs, Modify, Logged, Goto, Failed,
         CallUser, CallAutoLogin, CallTryRenew, CallLogin, CallSync, Call, vars
    <3>. QED  BY <2>5, <3>1, <3>2 DEF Handler
  <2>6. ASSUME NEW r \in Reqs, Respond(r) \/ Lose(r) \/ AppDrop(r)
        PROVE  clock' = clock /\ plain' = plain
    BY <2>6 DEF Respond, Lose, AppDrop, Drop
  <2>7. clock <= MaxClock
    BY DEF KInv
  <2>. QED  BY <2>1, <2>2, <2>3, <2>5, <2>6, <2>7 DEF AppNext
<1>3. CASE ~ plain'
  BY <1>1, <1>2, <1>3 DEF KInv
<1>4. CASE plain'
  <2>0. plain
    BY <1>2, <1>4
  <2>1. CASE UNCHANGED allVars
    BY <1>1, <2>1 DEF allVars, vars, appVars, KInv, Login
  <2>2. CASE Tick /\ UNCHANGED appVars
    BY <1>1, <2>0, <2>2, TickServed
  <2>3. ASSUME NEW r \in Reqs, NEW route, NEW auto, Arrive(r, route, auto)  PROVE KInv'
    BY <1>1, <1>4, <2>0, <2>3, ArriveServed
  <2>4. ASSUME NEW r \in Reqs, Handler(r)  PROVE KInv'
    <3>1. CASE (Command(r) \/ TryRenew(r)) /\ UNCHANGED appVars
      BY <1>1, <2>0, <3>1, CommandServed
    <3>2. CASE Valid(r) \/ Checked(r) \/ Show(r) \/ Modify(r)
      BY <1>1, <2>0, <3>2, LookServed, CallsServed
    <3>3. CASE Auth(r)
      BY <1>1, <2>0, <3>3, AuthServed
    <3>4. CASE Authed(r)
      BY <1>1, <2>0, <3>4, LookServed, AuthedServed
    <3>5. CASE LoginAs(r) \/ Logged(r)
      <4>1. Tame(obj[r], flow[r])
        BY <2>0, Serviced
      <4>2. FALSE
        BY <3>5, <4>1 DEF LoginAs, Logged, Ready, Tame
      <4>. QED  BY <4>2
    <3>. QED  BY <2>4, <3>1, <3>2, <3>3, <3>4, <3>5 DEF Handler
  <2>5. ASSUME NEW r \in Reqs, Respond(r) \/ Lose(r) \/ AppDrop(r)  PROVE KInv'
    BY <1>1, <2>0, <2>5, EndServed
  <2>. QED  BY <2>1, <2>2, <2>3, <2>4, <2>5 DEF AppNext
<1>. QED  BY <1>3, <1>4

(***************************************************************************)
(* A client that has logged in and only asks to be served never comes to   *)
(* hold an id that is not a login, however many of its requests overlap,   *)
(* which of their commands and responses are lost or dropped, and in what  *)
(* order the responses with renewed ids reach it; as long as no TTL runs   *)
(* out and no session is old enough for try_renew to judge it              *)
(* (before_controller and try_renew, session.rs and auto.rs).              *)
(***************************************************************************)
THEOREM LoginKept ==
  ASSUME Early  PROVE AppRuns => []KeepsLogin
<1>1. Early
  OBVIOUS
<1>2. AppStart => KInv
  BY <1>1, StartKInv
<1>3. KInv /\ [AppNext]_allVars => KInv'
  BY <1>1, NextKInv
<1>4. KInv => KeepsLogin
  BY DEF KInv, KeepsLogin
<1>. QED  BY <1>2, <1>3, <1>4, PTL DEF AppRuns

(***************************************************************************)
(* AppIdentity and UserAtHand for a client that has logged in: its         *)
(* sessions stay with their users, and its private routes find a user.     *)
(***************************************************************************)
THEOREM LoggedInSafe == AppRuns => [](OneIdentity /\ HasUser)
<1>1. AppStart => AppInv
  BY DEF AppStart
<1>2. AppInv => OneIdentity /\ HasUser
  BY DEF AppInv, AInv, OneIdentity, StoreOwned, IndexOwned, Owned, Login, HasUser, Orderly, Ready
<1>. QED  BY <1>1, <1>2, AppNextInv, PTL DEF AppRuns
=============================================================================
