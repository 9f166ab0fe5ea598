----------------------------- MODULE WsAppProofs ----------------------------
(***************************************************************************)
(* Proofs about WsApp, for every number of ids, users, servers, failures,  *)
(* crashes and ticks, and any renewal thresholds.                          *)
(*                                                                         *)
(* ConnTypes   : []ConnTypeOK, for any number of connections               *)
(* BoundStays  : []StaysBound, one connection after another                *)
(* RootFollows : []RootServes, one connection after another                *)
(* NothingKept : []NothingLeft, one connection after another               *)
(*                                                                         *)
(* The last three are about a connection between two messages.  What keeps *)
(* them is the way of a message in between: WInv relates the root of the   *)
(* connection with the session object of the message at each await, and    *)
(* says what the new session of a renewal has so far.  With two            *)
(* connections on one id they are false: each closes, renews or destroys   *)
(* what the other has.                                                     *)
(***************************************************************************)
EXTENDS WsApp, UserSessionProofs

-----------------------------------------------------------------------------
(* Values and objects *)

(* The points and calls the handlers of this application get to. *)
ConnPoints == {"closed", "ready", "user", "touch", "raw", "load", "sadd", "mapexpire",
               "csrem", "cdel", "srem", "destroydel", "keep", "newid", "newttl", "oldttl",
               "ctouch", "csetnew"}

ConnCalls == {"none", "user", "autoLogin", "login", "tryRenew", "condemn"}

ConnObjects ==
  [pc : ConnPoints, op : ConnCalls, ret : Rets,
   sid : Sids \cup {Nil}, ttl : Nat, touches : {"none", "true", "false"},
   user : Profiles \cup {Nil}, loaded : BOOLEAN,
   csid : Sids \cup {Nil}, cuser : Profiles \cup {Nil}, raw : ConnHashes,
   arg : {Nil}, todo : {{}}, kept : {{}}, cur : {Nil},
   mode : {"none", "young", "judge", "drop"}, tp : Nat]

Roots ==
  [status : {"closed", "unbound", "bound"}, sid : Sids \cup {Nil},
   server : Servers \cup {Nil}, stored : BOOLEAN, judged : BOOLEAN]

Stages == {"off", "open", "broken", "valid", "checked", "auth", "authed", "controller",
           "logged", "reply"}

ConnFlows == [stage : Stages, route : Routes \cup {"login"}, sid : Sids \cup {Nil}]

(* An id that the server has generated. *)
Born(s, iss) == s \in Sids /\ iss[s] # Nil

(* An open object has a generated id, and knows the one it judges by. *)
Fit(o, iss) ==
  /\ o \in ConnObjects
  /\ o.pc # "closed" => Born(o.sid, iss)
  /\ o.pc = "newttl" => o.csid \in Sids

(* A connection and its message: object, due, handler, root. *)
Fits(o, d, f, R, iss) ==
  /\ Fit(o, iss)
  /\ d \in BOOLEAN /\ (d => PastRenew(o))
  /\ R \in Roots /\ (R.status # "closed" => Born(R.sid, iss))
  /\ f \in ConnFlows /\ (f.sid # Nil => Born(f.sid, iss))
  /\ R.status # "closed" <=> f.stage # "off"

Typed ==
  /\ store \in [Sids -> ConnHashes]
  /\ issued \in [Sids -> [ttl : Nat, born : Nat] \cup {Nil}]
  /\ known \subseteq {s \in Sids : issued[s] # Nil}
  /\ clock \in Nat /\ faults \in Nat
  /\ DOMAIN owner = Sids

TInv ==
  /\ Typed
  /\ obj \in [Reqs -> ConnObjects] /\ due \in [Reqs -> BOOLEAN]
  /\ flow \in [Reqs -> ConnFlows] /\ root \in [Reqs -> Roots]
  /\ \A r \in Reqs : Fits(obj[r], due[r], flow[r], root[r], issued)

-----------------------------------------------------------------------------
(* The inductive invariant *)

(* The new session is being filled, and the root does not know of it yet. *)
Filling == {"load", "touch", "user", "sadd", "mapexpire"}

Moving(o, d) == d \/ (o.op \in Renewals /\ o.pc \in Filling)

(* Under which call each command is sent. *)
Sent(o) ==
  /\ o.pc \in {"raw", "load", "touch", "sadd", "mapexpire", "cdel"} => o.op \in Renewals
  /\ o.pc = "csrem" => o.op \in {"login", "autoLogin"}
  /\ o.pc = "user" => o.op \in Renewals \cup {"user", "condemn"}
  /\ o.pc \in {"keep", "newid", "newttl", "oldttl", "ctouch", "csetnew"} => o.op = "tryRenew"
  /\ o.pc \in {"srem", "destroydel"} => o.op = "condemn"

(* The call has a second session, the one cloned or the one to judge. *)
Twin(o, d) ==
  \/ Moving(o, d)
  \/ o.pc \in {"csrem", "cdel", "ctouch", "csetnew", "newttl", "oldttl"}

(* Where a handler stands, and the call it is in or has made. *)
Staged(o, f) ==
  /\ o.pc = "closed" <=> f.stage \in {"off", "open", "broken"}
  /\ o.pc \notin {"ready", "closed"} => f.stage \in {"checked", "authed", "logged"}
  /\ f.stage = "valid" => o.op = "none"
  /\ f.stage = "checked" => o.op = "user"
  /\ f.stage = "auth" => o.op \in {"none", "user"}
  /\ f.stage = "authed" => o.op \in {"autoLogin", "tryRenew", "condemn"}
  /\ f.stage = "logged" => o.op = "login"

(* A renewal that failed half way: only an error answer follows. *)
Adrift(o, f) ==
  o.pc = "ready" /\ o.ret = "err" /\ o.op # "autoLogin" /\ f.stage \in {"authed", "logged", "reply"}

(* Which session of the object the root of its connection names. *)
Anchor(o, d, f, R) ==
  /\ o.op = "autoLogin" /\ (Moving(o, d) \/ o.pc = "raw") => R.status # "bound"
  /\ R.status = "bound" /\ o.pc # "closed" =>
       IF Moving(o, d) THEN o.csid = R.sid ELSE o.sid = R.sid \/ Adrift(o, f)

(* What the object says of its ids and values. *)
Sound(o, d, iss) ==
  /\ Sent(o)
  /\ o.pc # "closed" => o.ttl \in Ttls
  /\ o.pc = "raw" => o.csid = o.sid
  /\ Twin(o, d) => Born(o.csid, iss) /\ o.csid # o.sid
  /\ o.pc = "load" =>
       /\ o.touches = "none"
       /\ o.raw.newid # o.sid /\ (o.raw.newid # Nil => Born(o.raw.newid, iss))

(* What holds of a connection and its message at each await. *)
Slot(o, d, f, R, st, iss) ==
  /\ Sound(o, d, iss)
  /\ o.pc = "load" => st[o.sid] = Missing
  /\ Staged(o, f)
  /\ Anchor(o, d, f, R)
  /\ R.status # "closed" => R.server \in Servers
  /\ R.stored => R.status = "bound"

(* A key that expires has at least the time that some session is given.    *)
Timely(h, now) == h.ttl > 0 => \E t \in Ttls : now + h.ttl >= t

(* A key is absent before its id; the id logged in it is another one.      *)
KeyOK(h, s, iss, now) ==
  /\ iss[s] = Nil => h = Missing
  /\ Timely(h, now)
  /\ h.newid # s /\ (h.newid # Nil => Born(h.newid, iss))

KeysOK(st, iss, now) ==
  \A s \in Sids : KeyOK(st[s], s, iss, now) /\ (iss[s] # Nil => iss[s].ttl \in Ttls)

(* A hash is what the session that the root names should hold. *)
Serves1(h, u, R) ==
  /\ R.stored => h.server = R.server
  /\ u # Nil => h.user # Nil

(* The root's session is, and what is to be the root's session will be. *)
Kept(o, d, R, st, own) ==
  /\ R.status = "bound" => Serves1(st[R.sid], own[R.sid], R)
  /\ o.pc = "load" => Serves1(o.raw, own[o.sid], R)
  /\ Moving(o, d) /\ o.pc # "load" => Serves1(st[o.sid], own[o.sid], R)

(* The user that valid() has found is still there when try_renew copies.   *)
Found(o, st) ==
  /\ o.pc # "closed" /\ o.user # Nil
  /\ \/ o.op \in {"none", "user"}
     \/ o.op = "tryRenew" /\ o.pc \in {"keep", "newid", "newttl", "oldttl", "cdel", "raw"}
  => st[o.sid].user # Nil

(* A key without a TTL that holds more than the id do_clone logs in it.    *)
Loose(h) == h.ttl = 0 /\ (h.user # Nil \/ h.data # Nil \/ h.server # Nil)

(* disconnect will take the address out of it, or the call touch it or     *)
(* delete it.                                                              *)
Minded(s, o, d, R, st) ==
  \/ R.status = "bound" /\ s = R.sid /\ st[s].user = Nil /\ st[s].data = Nil
  \/ o.pc = "touch" /\ s = o.sid
  \/ PastRenew(o) /\ ~ d /\ s = o.csid

Tidy(o, d, R, st) == \A s \in Sids : Loose(st[s]) => Minded(s, o, d, R, st)

Conn(o, d, f, R) ==
  /\ Slot(o, d, f, R, store, issued)
  /\ Young /\ ~ R.judged => Kept(o, d, R, store, owner)
  /\ Young => Found(o, store)
  /\ faults = 0 => Tidy(o, d, R, store)

(* Between the lives of any connections: Redis holds what earlier ones and *)
(* other sessions have left, but no address without a TTL.                 *)
WsStart ==
  /\ Typed /\ KeysOK(store, issued, clock)
  /\ \A s \in Sids : ~ Loose(store[s])
  /\ obj = [r \in Reqs |-> Closed] /\ ConnInit
  /\ flow = [r \in Reqs |-> NoFlow] /\ token \in known \cup {Nil}

WsRuns == WsStart /\ [][WsNext]_allVars

WInv ==
  /\ TInv
  /\ KeysOK(store, issued, clock)
  /\ \A r \in Reqs : Conn(obj[r], due[r], flow[r], root[r])

-----------------------------------------------------------------------------
(* Keys: what a command leaves of each field *)

(* The same fields, whatever the TTL. *)
Alike(g, h) ==
  g.user = h.user /\ g.data = h.data /\ g.newid = h.newid /\ g.server = h.server

LEMMA ConnMissing ==
  /\ Missing \in ConnHashes
  /\ Missing.user = Nil /\ Missing.data = Nil /\ Missing.newid = Nil
  /\ Missing.server = Nil /\ Missing.ttl = 0
BY DEF Missing, ConnHashes

LEMMA Holds ==
  \A h : Exists(h) <=> h.user # Nil \/ h.data # Nil \/ h.newid # Nil \/ h.server # Nil
BY DEF Exists, Fields

LEMMA SetIs ==
  ASSUME NEW h \in ConnHashes
  PROVE  /\ \A n \in Sids \cup {Nil} : LET g == HSet(h, "newid", n) IN
              /\ g \in ConnHashes /\ g.newid = n /\ g.ttl = h.ttl
              /\ g.user = h.user /\ g.data = h.data /\ g.server = h.server
         /\ \A a \in Servers \cup {Nil} : LET g == HSet(h, "server", a) IN
              /\ g \in ConnHashes /\ g.server = a /\ g.ttl = h.ttl
              /\ g.user = h.user /\ g.data = h.data /\ g.newid = h.newid
BY DEF HSet, ConnHashes

(* HDEL of the address removes a key that has nothing else. *)
LEMMA DelIs ==
  ASSUME NEW h \in ConnHashes
  PROVE  LET g == HDel(h, "server") IN
         /\ g \in ConnHashes /\ g.server = Nil
         /\ g.user = h.user /\ g.data = h.data /\ g.newid = h.newid
         /\ g.ttl \in {0, h.ttl}
         /\ g.ttl = 0 => h.ttl = 0 \/ g = Missing
<1>. DEFINE e == [h EXCEPT !["server"] = Nil]
            g == HDel(h, "server")
<1>1. /\ e \in ConnHashes /\ e.server = Nil /\ e.ttl = h.ttl
      /\ e.user = h.user /\ e.data = h.data /\ e.newid = h.newid
  BY DEF ConnHashes
<1>2. g = IF Exists(e) THEN e ELSE Missing
  BY DEF HDel
<1>. HIDE DEF e, g
<1>. QED  BY <1>1, <1>2, Holds, ConnMissing DEF g

LEMMA ExpireIs ==
  ASSUME NEW h \in ConnHashes, NEW t \in Nat
  PROVE  LET g == Expire(h, t) IN
         /\ g \in ConnHashes /\ Alike(g, h)
         /\ g.ttl = IF Exists(h) THEN t ELSE h.ttl
BY DEF Expire, ConnHashes, Alike

LEMMA AgeIs ==
  ASSUME NEW h \in ConnHashes
  PROVE  LET g == Age(h, Missing) IN
         /\ g \in ConnHashes
         /\ h.ttl = 0 => g = h
         /\ h.ttl = 1 => g = Missing
         /\ h.ttl > 1 => Alike(g, h) /\ g.ttl = h.ttl - 1
<1>1. h.ttl \in Nat
  BY DEF ConnHashes
<1>2. CASE h.ttl \in {0, 1}
  BY <1>2, ConnMissing DEF Age
<1>3. CASE h.ttl \notin {0, 1}
  <2>1. h.ttl - 1 \in Nat /\ Age(h, Missing) = [h EXCEPT !.ttl = @ - 1]
    BY <1>1, <1>3 DEF Age
  <2>. QED  BY <1>3, <2>1 DEF ConnHashes, Alike
<1>. QED  BY <1>2, <1>3

LEMMA HMSetIs ==
  ASSUME NEW h \in ConnHashes, NEW raw \in ConnHashes
  PROVE  /\ HMSet(h, raw) \in ConnHashes
         /\ h = Missing => Alike(HMSet(h, raw), raw) /\ HMSet(h, raw).ttl = 0
<1>1. /\ h.user \in Profiles \cup {Nil} /\ raw.user \in Profiles \cup {Nil}
      /\ h.data \in Datas \cup {Nil} /\ raw.data \in Datas \cup {Nil}
      /\ h.newid \in Sids \cup {Nil} /\ raw.newid \in Sids \cup {Nil}
      /\ h.server \in Servers \cup {Nil} /\ raw.server \in Servers \cup {Nil} /\ h.ttl \in Nat
  BY DEF ConnHashes
<1>2. /\ Over(raw.user, h.user) \in Profiles \cup {Nil}
      /\ Over(raw.data, h.data) \in Datas \cup {Nil}
      /\ Over(raw.newid, h.newid) \in Sids \cup {Nil}
      /\ Over(raw.server, h.server) \in Servers \cup {Nil}
  BY <1>1 DEF Over
<1>3. HMSet(h, raw) \in ConnHashes
  BY <1>1, <1>2 DEF HMSet, ConnHashes
<1>4. /\ HMSet(h, raw).user = Over(raw.user, h.user) /\ HMSet(h, raw).data = Over(raw.data, h.data)
      /\ HMSet(h, raw).newid = Over(raw.newid, h.newid)
      /\ HMSet(h, raw).server = Over(raw.server, h.server) /\ HMSet(h, raw).ttl = h.ttl
  BY DEF HMSet
<1>. QED  BY <1>3, <1>4, ConnMissing DEF Alike, Over

-----------------------------------------------------------------------------
(* Objects: where a helper moves a call, and what it leaves alone *)

Same(o, p) ==
  p.op = o.op /\ p.sid = o.sid /\ p.ttl = o.ttl /\ p.csid = o.csid /\ p.user = o.user

LEMMA SameOn == \A o, p, q : Same(o, p) /\ Same(p, q) => Same(o, q)
BY DEF Same

LEMMA MoveIs ==
  ASSUME NEW o \in ConnObjects, NEW pc \in ConnPoints
  PROVE  LET p == [o EXCEPT !.pc = pc] IN
         p \in ConnObjects /\ Same(o, p) /\ p.pc = pc /\ p.raw = o.raw /\ p.touches = o.touches
BY DEF ConnObjects, Same

LEMMA ReturnIs ==
  ASSUME NEW o \in ConnObjects, NEW v \in Rets
  PROVE  LET p == Return(o, v) IN
         p \in ConnObjects /\ Same(o, p) /\ p.pc = "ready" /\ p.ret = v
<1>1. o.op \in ConnCalls /\ "ready" \in ConnPoints
  BY DEF ConnObjects, ConnPoints
<1>. QED  BY <1>1, ConnMissing DEF ConnObjects, Same, Return

(* The points after renew. *)
Past(op) == IF op = "tryRenew" THEN {"ctouch"} ELSE {"csrem", "cdel"}

LEMMA AfterRenewIs ==
  ASSUME NEW o \in ConnObjects
  PROVE  LET p == AfterRenew(o) IN
         p \in ConnObjects /\ Same(o, p) /\ p.pc \in Past(o.op)
<1>1. {"ctouch", "csrem", "cdel"} \subseteq ConnPoints
  BY DEF ConnPoints
<1>. QED  BY <1>1, MoveIs DEF AfterRenew, Past

(* The points after user(), by call. *)
PastUser(op) ==
  CASE op = "user"      -> {"ready"}
    [] op \in Renewals -> {"sadd"} \cup Past(op)
    [] OTHER           -> {"srem", "destroydel"}

LEMMA AfterUserIs ==
  ASSUME NEW o \in ConnObjects
  PROVE  LET p == AfterUser(o) IN
         /\ p \in ConnObjects /\ Same(o, p) /\ p.pc \in PastUser(o.op)
         /\ p.pc = "ready" => p.ret = Bool(o.user # Nil)
<1>1. {"sadd", "srem", "destroydel"} \subseteq ConnPoints /\ "user" \notin Renewals
  BY DEF ConnPoints, Renewals
<1>2. CASE o.op = "user"
  <2>1. Bool(o.user # Nil) \in Rets
    BY DEF Bool, Rets
  <2>2. AfterUser(o) = Return(o, Bool(o.user # Nil)) /\ PastUser(o.op) = {"ready"}
    BY <1>2, <1>1 DEF AfterUser, PastUser
  <2>. QED  BY <2>1, <2>2, ReturnIs
<1>3. CASE o.op \in Renewals
  <2>1. /\ AfterUser(o) = IF o.user = Nil THEN AfterRenew(o) ELSE [o EXCEPT !.pc = "sadd"]
        /\ PastUser(o.op) = {"sadd"} \cup Past(o.op)
    BY <1>1, <1>3 DEF AfterUser, PastUser, Renewals
  <2>2. "ready" \notin Past(o.op) \cup {"sadd"}
    BY DEF Past
  <2>. QED  BY <1>1, <2>1, <2>2, MoveIs, AfterRenewIs
<1>4. CASE o.op \notin Renewals \cup {"user"}
  <2>1. o.op # "logout"
    BY DEF ConnObjects, ConnCalls
  <2>2. AfterUser(o) \in {[o EXCEPT !.pc = "srem"], [o EXCEPT !.pc = "destroydel"]}
    BY <1>4, <2>1 DEF AfterUser, Unmap
  <2>3. PastUser(o.op) = {"srem", "destroydel"}
    BY <1>4 DEF PastUser
  <2>4. ASSUME NEW pc \in {"srem", "destroydel"}, AfterUser(o) = [o EXCEPT !.pc = pc]
        PROVE  /\ AfterUser(o) \in ConnObjects /\ Same(o, AfterUser(o))
               /\ AfterUser(o).pc \in PastUser(o.op) /\ AfterUser(o).pc # "ready"
    BY <1>1, <2>3, <2>4, MoveIs
  <2>. QED  BY <2>2, <2>4
<1>. QED  BY <1>2, <1>3, <1>4

LEMMA UserIs ==
  ASSUME NEW o \in ConnObjects
  PROVE  LET p == User(o) IN
         /\ p \in ConnObjects /\ Same(o, p) /\ p.pc \in {"user"} \cup PastUser(o.op)
         /\ p.pc = "ready" => p.ret = Bool(o.user # Nil)
<1>1. "user" \in ConnPoints
  BY DEF ConnPoints
<1>. QED  BY <1>1, MoveIs, AfterUserIs DEF User

(* renew goes from touch to mapping. *)
LEMMA AfterTouchIs ==
  ASSUME NEW o \in ConnObjects
  PROVE  LET p == AfterTouch(o) IN
         /\ p \in ConnObjects /\ Same(o, p) /\ p.pc \in {"user", "ready"}
         /\ o.op \in Renewals => p.pc = "user"
<1>1. CASE o.op \in Renewals
  <2>1. AfterTouch(o) = [o EXCEPT !.loaded = FALSE, !.pc = "user"]
    BY <1>1 DEF AfterTouch, Renewals
  <2>2. "user" \in ConnPoints
    BY DEF ConnPoints
  <2>. QED  BY <2>1, <2>2 DEF ConnObjects, Same
<1>2. CASE o.op \notin Renewals
  <2>1. o.op # "get" /\ Bool(o.touches = "true") \in Rets
    BY DEF ConnObjects, ConnCalls, Bool, Rets
  <2>2. AfterTouch(o) = Return(o, Bool(o.touches = "true"))
    BY <1>2, <2>1 DEF AfterTouch
  <2>. QED  BY <1>2, <2>1, <2>2, ReturnIs
<1>. QED  BY <1>1, <1>2

LEMMA KeepIs ==
  ASSUME NEW o \in ConnObjects
  PROVE  LET p == Keep(o) IN
         /\ p \in ConnObjects /\ Same(o, p) /\ p.pc \in {"keep", "ready"}
         /\ p.pc = "ready" => p.ret = "false"
<1>1. "keep" \in ConnPoints /\ "false" \in Rets
  BY DEF ConnPoints, Rets
<1>. QED  BY <1>1, MoveIs, ReturnIs DEF Keep

LEMMA DoCloneIs ==
  ASSUME NEW o \in ConnObjects, NEW m \in {"none", "drop"}
  PROVE  LET p == DoClone(o, m) IN
         /\ p \in ConnObjects /\ p.pc = "raw" /\ p.op = o.op /\ p.sid = o.sid
         /\ p.csid = o.sid /\ p.ttl = o.ttl /\ p.user = o.user
BY DEF DoClone, ConnObjects, ConnPoints

LEMMA BeginIs ==
  ASSUME NEW o \in ConnObjects, NEW op \in ConnCalls
  PROVE  LET p == Begin(o, op) IN
         /\ p \in ConnObjects /\ p.pc = o.pc /\ p.op = op /\ p.sid = o.sid
         /\ p.csid = o.csid /\ p.ttl = o.ttl /\ p.user = o.user /\ p.ret = "none"
BY DEF Begin, ConnObjects, Rets

LEMMA LogInIs ==
  ASSUME NEW o \in ConnObjects
  PROVE  LET p == LogIn(o) IN
         /\ p \in ConnObjects /\ p.pc = "raw" /\ p.op = o.op /\ p.sid = o.sid
         /\ p.csid = o.sid /\ p.ttl = o.ttl /\ p.user = o.user
BY DEF LogIn, ConnObjects, ConnPoints

LEMMA ObjectIs ==
  ASSUME NEW s \in Sids \cup {Nil}, NEW t \in Nat
  PROVE  LET p == Object(s, t) IN
         /\ p \in ConnObjects /\ p.pc = "ready" /\ p.op = "none" /\ p.ret = "none"
         /\ p.sid = s /\ p.ttl = t /\ p.user = Nil
BY ConnMissing DEF Object, ConnObjects, ConnPoints, ConnCalls, Rets

LEMMA ClosedIs == Closed \in ConnObjects /\ Closed.pc = "closed" /\ Closed.op = "none"
<1>1. 0 \in Nat /\ "closed" \in ConnPoints
  BY DEF ConnPoints
<1>. QED  BY <1>1, ObjectIs, MoveIs DEF Closed, Same

-----------------------------------------------------------------------------
(* The awaits: what each command makes of its object and of the store *)

(* An await of connection r, whichever way it ends. *)
Turn(r) ==
  /\ obj' = [obj EXCEPT ![r] = obj'[r]]
  /\ Fit(obj'[r], issued') /\ obj'[r].pc # "closed"
  /\ store' \in [Sids -> ConnHashes]
  /\ issued' \in [Sids -> [ttl : Nat, born : Nat] \cup {Nil}]
  /\ \A s \in Sids : issued[s] # Nil => issued'[s] = issued[s]
  /\ faults' \in {faults, faults + 1} /\ clock' = clock /\ known' = known
  /\ DOMAIN owner' = Sids

Still == issued' = issued /\ owner' = owner

Reads == Still /\ store' = store

Put(s, h) == [store EXCEPT ![s] = h]

(* A write that failed may have taken effect. *)
Writes(s, h) == Still /\ store' \in {store, Put(s, h)} /\ (faults' = faults => store' = Put(s, h))

(* The object of a handler that is in a call. *)
LEMMA Mine ==
  ASSUME TInv, NEW r \in Reqs
  PROVE  /\ obj[r] \in ConnObjects
         /\ obj[r].pc # "closed" =>
              /\ obj[r].sid \in Sids /\ Born(obj[r].sid, issued)
              /\ store[obj[r].sid] \in ConnHashes
         /\ \A s \in Sids : store[s] \in ConnHashes
         /\ obj[r].ttl \in Nat /\ obj[r].op \in ConnCalls
BY DEF TInv, Typed, Fits, Fit, Born, ConnObjects

LEMMA FitOn ==
  ASSUME TInv, NEW r \in Reqs, obj[r].pc # "closed",
         NEW p \in ConnObjects, p.sid = obj[r].sid, p.pc = "newttl" => p.csid \in Sids
  PROVE  Fit(p, issued)
BY Mine DEF Fit

LEMMA AwaitIs ==
  ASSUME TInv, NEW r \in Reqs, NEW st \in [Sids -> ConnHashes], NEW um, NEW good, NEW bad,
         Await(r, st, um, good, bad),
         Fit(good, issued), good.pc # "closed", Fit(bad, issued), bad.pc # "closed"
  PROVE  /\ Turn(r) /\ Still
         /\ \/ obj'[r] = good /\ store' = st /\ faults' = faults
            \/ obj'[r] = bad /\ store' \in {store, st} /\ faults' = faults + 1
<1>1. /\ issued' = issued /\ known' = known /\ clock' = clock /\ owner' = owner
      /\ \/ store' = st /\ obj' = [obj EXCEPT ![r] = good] /\ faults' = faults
         \/ store' \in {store, st} /\ obj' = [obj EXCEPT ![r] = bad] /\ faults' = faults + 1
  BY DEF Await
<1>2. /\ r \in DOMAIN obj /\ store \in [Sids -> ConnHashes]
      /\ issued \in [Sids -> [ttl : Nat, born : Nat] \cup {Nil}] /\ DOMAIN owner = Sids
  BY DEF TInv, Typed
<1>. QED  BY <1>1, <1>2 DEF Turn, Still

(* A write to one key, with the object's error on failure. *)
LEMMA WriteIs ==
  ASSUME TInv, NEW r \in Reqs, obj[r].pc # "closed",
         NEW s, NEW h, s \in Sids => h \in ConnHashes, NEW good, NEW bad, NEW um,
         Await(r, Put(s, h), um, good, bad),
         good \in ConnObjects, good.sid = obj[r].sid, good.pc \notin {"closed", "newttl"},
         bad \in ConnObjects, bad.sid = obj[r].sid, bad.pc \notin {"closed", "newttl"}
  PROVE  /\ Turn(r) /\ Writes(s, h)
         /\ \/ obj'[r] = good /\ faults' = faults
            \/ obj'[r] = bad /\ faults' = faults + 1
<1>1. Put(s, h) \in [Sids -> ConnHashes] /\ faults \in Nat
  BY DEF TInv, Typed, Put
<1>2. Fit(good, issued) /\ Fit(bad, issued)
  BY FitOn
<1>3. /\ Turn(r) /\ Still
      /\ \/ obj'[r] = good /\ store' = Put(s, h) /\ faults' = faults
         \/ obj'[r] = bad /\ store' \in {store, Put(s, h)} /\ faults' = faults + 1
  BY <1>1, <1>2, AwaitIs
<1>4. faults + 1 # faults
  BY <1>1
<1>. QED  BY <1>3, <1>4 DEF Writes

(* A read, or a write to the index of the users. *)
LEMMA ReadIs ==
  ASSUME TInv, NEW r \in Reqs, obj[r].pc # "closed", NEW good, NEW bad, NEW um,
         Await(r, store, um, good, bad),
         good \in ConnObjects, good.sid = obj[r].sid, good.pc # "closed",
         good.pc = "newttl" => good.csid \in Sids,
         bad \in ConnObjects, bad.sid = obj[r].sid, bad.pc \notin {"closed", "newttl"}
  PROVE  /\ Turn(r) /\ Reads
         /\ \/ obj'[r] = good /\ faults' = faults
            \/ obj'[r] = bad /\ faults' = faults + 1
<1>1. store \in [Sids -> ConnHashes]
  BY DEF TInv, Typed
<1>2. Fit(good, issued) /\ Fit(bad, issued)
  BY FitOn
<1>. QED  BY <1>1, <1>2, AwaitIs DEF Reads

LEMMA PastPoints ==
  ASSUME NEW op
  PROVE  /\ Past(op) \cap {"closed", "newttl", "ready", "sadd", "user"} = {}
         /\ PastUser(op) \cap {"closed", "newttl"} = {}
BY DEF Past, PastUser

LEMMA LoadUserIs ==
  ASSUME TInv, NEW r \in Reqs, LoadUser(r)
  PROVE  LET o == obj[r]  p == obj'[r] IN
         /\ Turn(r) /\ Reads /\ o.pc = "user"
         /\ p.op = o.op /\ p.sid = o.sid /\ p.csid = o.csid /\ p.ttl = o.ttl
         /\ p.pc \in PastUser(o.op)
         /\ p.user # Nil => o.user # Nil \/ store[o.sid].user # Nil
<1>. DEFINE o == obj[r]
            l == [o EXCEPT !.loaded = TRUE]
            u == store[o.sid].user
            g == IF u = Nil THEN l ELSE [l EXCEPT !.user = u]
<1>1. o.pc = "user" /\ Ask(r, AfterUser(g), AfterUser(l))
  BY DEF LoadUser, At
<1>2. o \in ConnObjects /\ u \in Profiles \cup {Nil}
  BY <1>1, Mine DEF ConnHashes
<1>3. /\ l \in ConnObjects /\ Same(o, l)
      /\ g \in ConnObjects /\ g.op = o.op /\ g.sid = o.sid /\ g.csid = o.csid /\ g.ttl = o.ttl
      /\ g.user # Nil => o.user # Nil \/ u # Nil
  BY <1>2 DEF ConnObjects, Same
<1>. HIDE DEF g, l, u
<1>4. ASSUME NEW q \in {g, l}
      PROVE  LET p == AfterUser(q) IN
             /\ p \in ConnObjects /\ p.op = o.op /\ p.sid = o.sid /\ p.csid = o.csid /\ p.ttl = o.ttl
             /\ p.pc \in PastUser(o.op) /\ p.pc \notin {"closed", "newttl"}
             /\ p.user # Nil => o.user # Nil \/ u # Nil
  BY <1>3, AfterUserIs, PastPoints DEF Same
<1>5. /\ Turn(r) /\ Reads
      /\ obj'[r] = AfterUser(g) \/ obj'[r] = AfterUser(l)
  BY <1>1, <1>4, ReadIs DEF Ask
<1>. QED  BY <1>1, <1>4, <1>5 DEF u

LEMMA MappingAddIs ==
  ASSUME TInv, NEW r \in Reqs, MappingAdd(r)
  PROVE  LET o == obj[r]  p == obj'[r] IN
         Turn(r) /\ Reads /\ o.pc = "sadd" /\ Same(o, p) /\ p.pc \in {"mapexpire"} \cup Past(o.op)
<1>. DEFINE o == obj[r]  g == [o EXCEPT !.pc = "mapexpire"]
<1>1. /\ o.pc = "sadd" /\ o \in ConnObjects /\ "mapexpire" \in ConnPoints
      /\ Await(r, store, [umap EXCEPT ![o.user.uid] = SAdd(@, o.sid)], g, AfterRenew(o))
  BY Mine DEF MappingAdd, At, ConnPoints
<1>2. /\ g \in ConnObjects /\ Same(o, g) /\ g.pc = "mapexpire"
      /\ AfterRenew(o) \in ConnObjects /\ Same(o, AfterRenew(o)) /\ AfterRenew(o).pc \in Past(o.op)
  BY <1>1, MoveIs, AfterRenewIs
<1>. HIDE DEF g
<1>3. Turn(r) /\ Reads /\ (obj'[r] = g \/ obj'[r] = AfterRenew(o))
  BY <1>1, <1>2, ReadIs, PastPoints DEF Same
<1>. QED  BY <1>1, <1>2, <1>3

LEMMA MappingExpireIs ==
  ASSUME TInv, NEW r \in Reqs, MappingExpire(r)
  PROVE  LET o == obj[r]  p == obj'[r] IN
         Turn(r) /\ Reads /\ o.pc = "mapexpire" /\ Same(o, p) /\ p.pc \in Past(o.op)
<1>. DEFINE o == obj[r]
<1>1. /\ o.pc = "mapexpire" /\ o \in ConnObjects
      /\ Await(r, store, [umap EXCEPT ![o.user.uid] = ExpireSet(@, MapTtl)],
               AfterRenew(o), AfterRenew(o))
  BY Mine DEF MappingExpire, At
<1>2. /\ AfterRenew(o) \in ConnObjects /\ Same(o, AfterRenew(o)) /\ AfterRenew(o).pc \in Past(o.op)
  BY <1>1, AfterRenewIs
<1>3. Turn(r) /\ Reads /\ obj'[r] = AfterRenew(o)
  BY <1>1, <1>2, ReadIs, PastPoints DEF Same
<1>. QED  BY <1>1, <1>2, <1>3

LEMMA ClonedUnmappingIs ==
  ASSUME TInv, NEW r \in Reqs, ClonedUnmapping(r)
  PROVE  LET o == obj[r]  p == obj'[r] IN
         /\ Turn(r) /\ Reads /\ o.pc = "csrem" /\ Same(o, p)
         /\ p.pc = "cdel" \/ (p.pc = "ready" /\ p.ret = "err" /\ faults' = faults + 1)
<1>. DEFINE o == obj[r]  g == [o EXCEPT !.pc = "cdel"]  b == Return(o, "err")
<1>1. /\ o.pc = "csrem" /\ o \in ConnObjects /\ "cdel" \in ConnPoints /\ "err" \in Rets
      /\ Await(r, store, [umap EXCEPT ![o.cuser.uid] = SRem(@, o.csid)], g, b)
  BY Mine DEF ClonedUnmapping, At, ConnPoints, Rets
<1>2. /\ g \in ConnObjects /\ Same(o, g) /\ g.pc = "cdel"
      /\ b \in ConnObjects /\ Same(o, b) /\ b.pc = "ready" /\ b.ret = "err"
  BY <1>1, MoveIs, ReturnIs
<1>. HIDE DEF g, b
<1>3. Turn(r) /\ Reads /\ (obj'[r] = g \/ (obj'[r] = b /\ faults' = faults + 1))
  BY <1>1, <1>2, ReadIs DEF Same
<1>. QED  BY <1>1, <1>2, <1>3

LEMMA UnmappingIs ==
  ASSUME TInv, NEW r \in Reqs, Unmapping(r)
  PROVE  LET o == obj[r]  p == obj'[r] IN
         /\ Turn(r) /\ Reads /\ o.pc = "srem" /\ Same(o, p)
         /\ p.pc = "destroydel" \/ (p.pc = "ready" /\ p.ret = "err" /\ faults' = faults + 1)
<1>. DEFINE o == obj[r]  g == [o EXCEPT !.pc = "destroydel"]  b == Return(o, "err")
<1>1. /\ o.pc = "srem" /\ o \in ConnObjects /\ "destroydel" \in ConnPoints /\ "err" \in Rets
      /\ o.op # "logout"
  BY Mine DEF Unmapping, At, ConnPoints, Rets, ConnCalls
<1>2. Await(r, store, [umap EXCEPT ![o.user.uid] = SRem(@, o.sid)], g, b)
  BY <1>1 DEF Unmapping
<1>3. /\ g \in ConnObjects /\ Same(o, g) /\ g.pc = "destroydel"
      /\ b \in ConnObjects /\ Same(o, b) /\ b.pc = "ready" /\ b.ret = "err"
  BY <1>1, MoveIs, ReturnIs
<1>. HIDE DEF g, b
<1>4. Turn(r) /\ Reads /\ (obj'[r] = g \/ (obj'[r] = b /\ faults' = faults + 1))
  BY <1>1, <1>2, <1>3, ReadIs DEF Same
<1>. QED  BY <1>1, <1>3, <1>4

LEMMA GetNewIdIs ==
  ASSUME TInv, NEW r \in Reqs, GetNewId(r)
  PROVE  LET o == obj[r]  p == obj'[r] IN
         /\ Turn(r) /\ Reads /\ o.pc = "newid"
         /\ p.op = o.op /\ p.sid = o.sid /\ p.ttl = o.ttl /\ p.user = o.user
         /\ \/ p.pc = "raw" /\ p.csid = o.sid
            \/ p.pc = "newttl" /\ p.csid = store[o.sid].newid /\ p.csid # Nil
            \/ p.pc = "keep"
            \/ p.pc = "ready" /\ p.ret = "false"
<1>. DEFINE o == obj[r]
            n == store[o.sid].newid
            k == DoClone(o, "none")
            j == [o EXCEPT !.csid = n, !.cuser = Nil, !.pc = "newttl"]
            g == CASE n = Nil                     -> k
                   [] n # Nil /\ o.mode = "judge" -> j
                   [] OTHER                       -> Keep(o)
<1>1. o.pc = "newid" /\ Ask(r, g, k)
  BY DEF GetNewId, At
<1>2. o \in ConnObjects /\ n \in Sids \cup {Nil} /\ "newttl" \in ConnPoints
  BY <1>1, Mine DEF ConnHashes, ConnPoints
<1>3. /\ k \in ConnObjects /\ k.pc = "raw" /\ k.op = o.op /\ k.sid = o.sid /\ k.csid = o.sid
      /\ k.ttl = o.ttl /\ k.user = o.user
  BY <1>2, DoCloneIs
<1>4. /\ j \in ConnObjects /\ j.pc = "newttl" /\ j.op = o.op /\ j.sid = o.sid /\ j.csid = n
      /\ j.ttl = o.ttl /\ j.user = o.user
  BY <1>2 DEF ConnObjects
<1>5. /\ Keep(o) \in ConnObjects /\ Same(o, Keep(o)) /\ Keep(o).pc \in {"keep", "ready"}
      /\ Keep(o).pc = "ready" => Keep(o).ret = "false"
  BY <1>2, KeepIs
<1>6. g = k \/ (g = j /\ n # Nil) \/ g = Keep(o)
  OBVIOUS
<1>. HIDE DEF g, k, j
<1>7. /\ g \in ConnObjects /\ g.op = o.op /\ g.sid = o.sid /\ g.ttl = o.ttl /\ g.user = o.user
      /\ g.pc # "closed" /\ (g.pc = "newttl" => g.csid \in Sids)
      /\ \/ g.pc = "raw" /\ g.csid = o.sid
         \/ g.pc = "newttl" /\ g.csid = n /\ g.csid # Nil
         \/ g.pc = "keep"
         \/ g.pc = "ready" /\ g.ret = "false"
  BY <1>2, <1>3, <1>4, <1>5, <1>6 DEF Same
<1>8. Turn(r) /\ Reads /\ (obj'[r] = g \/ obj'[r] = k)
  BY <1>1, <1>3, <1>7, ReadIs DEF Ask
<1>. QED  BY <1>1, <1>3, <1>7, <1>8

LEMMA NewTtlIs ==
  ASSUME TInv, NEW r \in Reqs, NewTtl(r)
  PROVE  LET o == obj[r]  p == obj'[r] IN
         Turn(r) /\ Reads /\ o.pc = "newttl" /\ Same(o, p) /\ p.pc \in {"oldttl", "cdel"}
<1>. DEFINE o == obj[r]
            drop == [o EXCEPT !.pc = "cdel"]
            go == [o EXCEPT !.tp = Passed(o, o.csid), !.pc = "oldttl"]
            g == IF store[o.csid].ttl > 0 /\ Passed(o, o.csid) < Inactive THEN go ELSE drop
<1>1. o.pc = "newttl" /\ Ask(r, g, drop)
  BY DEF NewTtl, At
<1>2. o \in ConnObjects /\ o.csid \in Sids /\ {"oldttl", "cdel"} \subseteq ConnPoints
  BY <1>1, Mine DEF ConnPoints, TInv, Fits, Fit
<1>3. o.ttl - store[o.csid].ttl \in Int
  BY <1>2, Mine DEF ConnHashes
<1>4. Passed(o, o.csid) \in Nat
  BY <1>3 DEF Passed, Word
<1>5. /\ drop \in ConnObjects /\ Same(o, drop) /\ drop.pc = "cdel"
      /\ go \in ConnObjects /\ Same(o, go) /\ go.pc = "oldttl"
  BY <1>2, <1>4, MoveIs DEF ConnObjects, Same
<1>6. g = go \/ g = drop
  OBVIOUS
<1>. HIDE DEF g, go, drop
<1>7. Turn(r) /\ Reads /\ (obj'[r] = g \/ obj'[r] = drop)
  BY <1>1, <1>5, <1>6, ReadIs DEF Ask, Same
<1>. QED  BY <1>1, <1>5, <1>6, <1>7

LEMMA OldTtlIs ==
  ASSUME TInv, NEW r \in Reqs, OldTtl(r)
  PROVE  LET o == obj[r]  p == obj'[r] IN
         /\ Turn(r) /\ Reads /\ o.pc = "oldttl"
         /\ p.sid = o.sid /\ p.csid = o.csid /\ p.ttl = o.ttl /\ p.user = o.user
         /\ \/ p.op = o.op /\ p.pc = "cdel"
            \/ p.op = "condemn" /\ p.pc \in {"user", "srem", "destroydel"}
<1>. DEFINE o == obj[r]
            drop == [o EXCEPT !.tp = 0, !.pc = "cdel"]
            c == [o EXCEPT !.op = "condemn", !.tp = 0]
            g == IF store[o.sid].ttl > 0 /\ o.tp >= Passed(o, o.sid) THEN drop ELSE Condemn(o)
<1>1. o.pc = "oldttl" /\ Ask(r, g, Condemn(o))
  BY DEF OldTtl, At
<1>2. o \in ConnObjects /\ "cdel" \in ConnPoints /\ "condemn" \in ConnCalls
  BY <1>1, Mine DEF ConnPoints, ConnCalls
<1>3. /\ drop \in ConnObjects /\ Same(o, drop) /\ drop.pc = "cdel"
      /\ c \in ConnObjects /\ c.op = "condemn" /\ c.sid = o.sid /\ c.csid = o.csid
      /\ c.ttl = o.ttl /\ c.user = o.user
  BY <1>2 DEF ConnObjects, Same
<1>4. Condemn(o) = User(c) /\ (g = drop \/ g = Condemn(o))
  BY DEF Condemn
<1>. HIDE DEF g, drop, c
<1>5. PastUser("condemn") = {"srem", "destroydel"}
  BY DEF PastUser, Renewals
<1>6. /\ Condemn(o) \in ConnObjects /\ Same(c, Condemn(o))
      /\ Condemn(o).pc \in {"user", "srem", "destroydel"}
  BY <1>3, <1>4, <1>5, UserIs
<1>7. Turn(r) /\ Reads /\ (obj'[r] = g \/ obj'[r] = Condemn(o))
  BY <1>1, <1>3, <1>4, <1>6, ReadIs DEF Ask, Same
<1>. QED  BY <1>1, <1>3, <1>4, <1>6, <1>7 DEF Same

LEMMA TouchIs ==
  ASSUME TInv, NEW r \in Reqs, Touch(r)
  PROVE  LET o == obj[r]  p == obj'[r] IN
         /\ Turn(r) /\ Writes(o.sid, Expire(store[o.sid], o.ttl)) /\ o.pc = "touch" /\ Same(o, p)
         /\ p.pc \in {"user", "ready"}
         /\ o.op \in Renewals =>
              p.pc = "user" \/ (p.pc = "ready" /\ p.ret = "err" /\ faults' = faults + 1)
<1>. DEFINE o == obj[r]
            h == Expire(store[o.sid], o.ttl)
            q == [o EXCEPT !.touches = Bool(Exists(store[o.sid]))]
            g == AfterTouch(q)
            b == Return(o, "err")
<1>1. o.pc = "touch" /\ Await(r, Put(o.sid, h), umap, g, b)
  BY DEF Touch, At, Write, Put
<1>2. o \in ConnObjects /\ h \in ConnHashes /\ "err" \in Rets
  BY <1>1, Mine, ExpireIs DEF Rets
<1>3. q \in ConnObjects /\ Same(o, q)
  BY <1>2 DEF ConnObjects, Same, Bool
<1>. HIDE DEF h, q
<1>4. /\ g \in ConnObjects /\ Same(o, g) /\ g.pc \in {"user", "ready"}
      /\ o.op \in Renewals => g.pc = "user"
      /\ b \in ConnObjects /\ Same(o, b) /\ b.pc = "ready" /\ b.ret = "err"
  BY <1>2, <1>3, AfterTouchIs, ReturnIs DEF Same
<1>. HIDE DEF g, b
<1>5. /\ Turn(r) /\ Writes(o.sid, h)
      /\ obj'[r] = g \/ (obj'[r] = b /\ faults' = faults + 1)
  BY <1>1, <1>2, <1>4, WriteIs DEF Same
<1>. QED  BY <1>1, <1>4, <1>5 DEF h

LEMMA LoadIs ==
  ASSUME TInv, NEW r \in Reqs, Load(r)
  PROVE  LET o == obj[r]  p == obj'[r] IN
         /\ Turn(r) /\ Writes(o.sid, HMSet(store[o.sid], o.raw)) /\ o.pc = "load" /\ Same(o, p)
         /\ o.touches = "none" =>
              \/ p.pc = "touch" /\ faults' = faults
              \/ p.pc = "ready" /\ p.ret = "err" /\ faults' = faults + 1
         /\ p.pc # "load"
<1>. DEFINE o == obj[r]
            h == HMSet(store[o.sid], o.raw)
            q == [o EXCEPT !.raw = Missing]
            g == TryTouch(q)
            b == Return(q, "err")
            b0 == Return(o, "err")
<1>1. o.pc = "load" /\ Await(r, Put(o.sid, h), umap, g, b0)
  <2>1. q.sid = o.sid
    BY Mine DEF ConnObjects
  <2>. QED  BY <2>1 DEF Load, At, Write, Put
<1>2. /\ o \in ConnObjects /\ o.raw \in ConnHashes /\ h \in ConnHashes /\ "err" \in Rets
      /\ "touch" \in ConnPoints
  BY <1>1, Mine, HMSetIs DEF Rets, ConnObjects, ConnPoints
<1>3. q \in ConnObjects /\ Same(o, q) /\ q.touches = o.touches
  BY <1>2, ConnMissing DEF ConnObjects, Same
<1>. HIDE DEF h, q
<1>4. /\ g \in ConnObjects /\ Same(q, g) /\ g.pc \in {"touch", "user", "ready"}
      /\ q.touches = "none" => g.pc = "touch"
  BY <1>2, <1>3, AfterTouchIs, MoveIs DEF TryTouch
<1>5. b0 \in ConnObjects /\ Same(o, b0) /\ b0.pc = "ready" /\ b0.ret = "err"
  BY <1>2, ReturnIs
<1>. HIDE DEF g, b0
<1>6. /\ Turn(r) /\ Writes(o.sid, h)
      /\ \/ obj'[r] = g /\ faults' = faults
         \/ obj'[r] = b0 /\ faults' = faults + 1
  BY <1>1, <1>2, <1>3, <1>4, <1>5, WriteIs DEF Same
<1>. QED  BY <1>1, <1>3, <1>4, <1>5, <1>6 DEF h, Same

LEMMA ClonedDestroyIs ==
  ASSUME TInv, NEW r \in Reqs, ClonedDestroy(r)
  PROVE  LET o == obj[r]  p == obj'[r] IN
         /\ Turn(r) /\ Writes(o.csid, Missing) /\ o.pc = "cdel" /\ o.op # "tryRenew"
         /\ Same(o, p) /\ p.pc = "ready"
         /\ p.ret = "true" \/ (p.ret = "err" /\ faults' = faults + 1)
<1>. DEFINE o == obj[r]  g == Return(o, "true")  b == Return(o, "err")
<1>1. /\ o.pc = "cdel" /\ o.op # "tryRenew"
      /\ Await(r, Put(o.csid, Missing), umap, g, b)
  BY DEF ClonedDestroy, At, Write, Put
<1>2. o \in ConnObjects /\ {"true", "err"} \subseteq Rets /\ Missing \in ConnHashes
  BY Mine, ConnMissing DEF Rets
<1>3. /\ g \in ConnObjects /\ Same(o, g) /\ g.pc = "ready" /\ g.ret = "true"
      /\ b \in ConnObjects /\ Same(o, b) /\ b.pc = "ready" /\ b.ret = "err"
  BY <1>2, ReturnIs
<1>. HIDE DEF g, b
<1>4. /\ Turn(r) /\ Writes(o.csid, Missing)
      /\ obj'[r] = g \/ (obj'[r] = b /\ faults' = faults + 1)
  BY <1>1, <1>2, <1>3, WriteIs DEF Same
<1>. QED  BY <1>1, <1>3, <1>4

LEMMA KeepTouchIs ==
  ASSUME TInv, NEW r \in Reqs, KeepTouch(r)
  PROVE  LET o == obj[r]  p == obj'[r] IN
         /\ Turn(r) /\ Writes(o.sid, Expire(store[o.sid], o.ttl)) /\ o.pc = "keep" /\ Same(o, p)
         /\ p.pc = "ready" /\ p.ret = "false"
<1>. DEFINE o == obj[r]
            h == Expire(store[o.sid], o.ttl)
            q == [o EXCEPT !.touches = Bool(Exists(store[o.sid]))]
            g == Return(q, "false")
            b == Return(o, "false")
<1>1. o.pc = "keep" /\ Await(r, Put(o.sid, h), umap, g, b)
  BY DEF KeepTouch, At, Put
<1>2. o \in ConnObjects /\ h \in ConnHashes /\ "false" \in Rets
  BY <1>1, Mine, ExpireIs DEF Rets
<1>3. q \in ConnObjects /\ Same(o, q)
  BY <1>2 DEF ConnObjects, Same, Bool
<1>. HIDE DEF h, q
<1>4. /\ g \in ConnObjects /\ Same(o, g) /\ g.pc = "ready" /\ g.ret = "false"
      /\ b \in ConnObjects /\ Same(o, b) /\ b.pc = "ready" /\ b.ret = "false"
  BY <1>2, <1>3, ReturnIs DEF Same
<1>. HIDE DEF g, b
<1>5. Turn(r) /\ Writes(o.sid, h) /\ (obj'[r] = g \/ obj'[r] = b)
  BY <1>1, <1>2, <1>4, WriteIs DEF Same
<1>. QED  BY <1>1, <1>4, <1>5 DEF h

LEMMA CondemnedDelIs ==
  ASSUME TInv, NEW r \in Reqs, CondemnedDel(r)
  PROVE  LET o == obj[r]  p == obj'[r] IN
         /\ Turn(r) /\ Writes(o.sid, Missing) /\ o.pc = "destroydel" /\ o.op = "condemn"
         /\ Same(o, p) /\ p.pc = "ready" /\ p.ret = "err"
<1>. DEFINE o == obj[r]  b == Return(o, "err")
<1>1. /\ o.pc = "destroydel" /\ o.op = "condemn"
      /\ Await(r, Put(o.sid, Missing), umap, b, b)
  BY DEF CondemnedDel, At, Write, Put
<1>2. o \in ConnObjects /\ "err" \in Rets /\ Missing \in ConnHashes
  BY Mine, ConnMissing DEF Rets
<1>3. b \in ConnObjects /\ Same(o, b) /\ b.pc = "ready" /\ b.ret = "err"
  BY <1>2, ReturnIs
<1>. HIDE DEF b
<1>4. Turn(r) /\ Writes(o.sid, Missing) /\ obj'[r] = b
  BY <1>1, <1>2, <1>3, WriteIs DEF Same
<1>. QED  BY <1>1, <1>3, <1>4

LEMMA DropNewerIs ==
  ASSUME TInv, NEW r \in Reqs, DropNewer(r)
  PROVE  LET o == obj[r]  p == obj'[r] IN
         /\ Turn(r) /\ Writes(o.csid, Missing) /\ o.pc = "cdel" /\ o.op = "tryRenew"
         /\ p.op = o.op /\ p.sid = o.sid /\ p.ttl = o.ttl /\ p.user = o.user
         /\ \/ p.pc = "raw" /\ p.csid = o.sid
            \/ p.pc = "ready" /\ p.ret = "err" /\ faults' = faults + 1
<1>. DEFINE o == obj[r]  g == DoClone(o, "drop")  b == Return(o, "err")
<1>1. /\ o.pc = "cdel" /\ o.op = "tryRenew"
      /\ Await(r, Put(o.csid, Missing), umap, g, b)
  BY DEF DropNewer, At, Write, Put
<1>2. o \in ConnObjects /\ "err" \in Rets /\ Missing \in ConnHashes
  BY Mine, ConnMissing DEF Rets
<1>3. /\ g \in ConnObjects /\ g.pc = "raw" /\ g.op = o.op /\ g.sid = o.sid /\ g.csid = o.sid
      /\ g.ttl = o.ttl /\ g.user = o.user
      /\ b \in ConnObjects /\ Same(o, b) /\ b.pc = "ready" /\ b.ret = "err"
  BY <1>2, ReturnIs, DoCloneIs
<1>. HIDE DEF g, b
<1>4. /\ Turn(r) /\ Writes(o.csid, Missing)
      /\ obj'[r] = g \/ (obj'[r] = b /\ faults' = faults + 1)
  BY <1>1, <1>2, <1>3, WriteIs DEF Same
<1>. QED  BY <1>1, <1>3, <1>4 DEF Same

LEMMA CloneTouchIs ==
  ASSUME TInv, NEW r \in Reqs, CloneTouch(r)
  PROVE  LET o == obj[r]  p == obj'[r] IN
         /\ Turn(r) /\ Writes(o.csid, Expire(store[o.csid], o.ttl)) /\ o.pc = "ctouch"
         /\ Same(o, p) /\ p.pc = "csetnew"
<1>. DEFINE o == obj[r]  g == [o EXCEPT !.pc = "csetnew"]  h == Expire(store[o.csid], o.ttl)
<1>1. o.pc = "ctouch" /\ Await(r, Put(o.csid, h), umap, g, g)
  <2>1. o \in ConnObjects /\ "csetnew" \in ConnPoints
    BY Mine DEF ConnPoints
  <2>2. g.csid = o.csid /\ g.ttl = o.ttl
    BY <2>1 DEF ConnObjects
  <2>3. [store EXCEPT ![o.csid] = Expire(@, o.ttl)] = Put(o.csid, h)
    BY DEF TInv, Typed, Put
  <2>. QED  BY <2>2, <2>3 DEF CloneTouch, At
<1>3. /\ o \in ConnObjects /\ "csetnew" \in ConnPoints
      /\ o.csid \in Sids => h \in ConnHashes
  BY Mine, ExpireIs DEF ConnPoints
<1>4. g \in ConnObjects /\ Same(o, g) /\ g.pc = "csetnew"
  BY <1>3, MoveIs
<1>. HIDE DEF g, h
<1>5. Turn(r) /\ Writes(o.csid, h) /\ obj'[r] = g
  BY <1>1, <1>3, <1>4, WriteIs DEF Same
<1>. QED  BY <1>1, <1>4, <1>5 DEF h

LEMMA CloneSetNewIdIs ==
  ASSUME TInv, NEW r \in Reqs, CloneSetNewId(r)
  PROVE  LET o == obj[r]  p == obj'[r] IN
         /\ Turn(r) /\ Writes(o.csid, HSet(store[o.csid], "newid", o.sid)) /\ o.pc = "csetnew"
         /\ Same(o, p) /\ p.pc = "ready"
         /\ p.ret = "true" \/ (p.ret = "err" /\ faults' = faults + 1)
<1>. DEFINE o == obj[r]  g == Return(o, "true")  b == Return(o, "err")
            h == HSet(store[o.csid], "newid", o.sid)
<1>1. o.pc = "csetnew" /\ Await(r, Put(o.csid, h), umap, g, b)
  BY DEF CloneSetNewId, At, Write, Put
<1>2. /\ o \in ConnObjects /\ {"true", "err"} \subseteq Rets /\ o.sid \in Sids
      /\ o.csid \in Sids => h \in ConnHashes
  BY <1>1, Mine, SetIs DEF Rets
<1>3. /\ g \in ConnObjects /\ Same(o, g) /\ g.pc = "ready" /\ g.ret = "true"
      /\ b \in ConnObjects /\ Same(o, b) /\ b.pc = "ready" /\ b.ret = "err"
  BY <1>2, ReturnIs
<1>. HIDE DEF g, b, h
<1>4. /\ Turn(r) /\ Writes(o.csid, h)
      /\ obj'[r] = g \/ (obj'[r] = b /\ faults' = faults + 1)
  BY <1>1, <1>2, <1>3, WriteIs DEF Same
<1>. QED  BY <1>1, <1>3, <1>4 DEF h

(* What renew loads: the hash, with another user or without the new id. *)
LEMMA FilteredIs ==
  ASSUME NEW o \in ConnObjects, NEW h \in ConnHashes
  PROVE  LET raw == Filtered(o, h) IN
         /\ raw \in ConnHashes
         /\ raw.data = h.data /\ raw.server = h.server /\ raw.newid \in {Nil, h.newid}
         /\ raw.user = IF o.op # "tryRenew" /\ o.user # Nil THEN o.user ELSE h.user
<1>. o.user \in Profiles \cup {Nil}
  BY DEF ConnObjects
<1>1. CASE o.op = "tryRenew"
  BY <1>1 DEF Filtered, ConnHashes
<1>2. CASE o.op # "tryRenew"
  BY <1>2 DEF Filtered, ConnHashes
<1>. QED  BY <1>1, <1>2

LEMMA RenewedIs ==
  ASSUME NEW o \in ConnObjects, NEW n \in Sids, NEW raw \in ConnHashes
  PROVE  LET p == Renewed(o, n, raw) IN
         /\ p \in ConnObjects /\ p.op = o.op /\ p.sid = n /\ p.csid = o.csid /\ p.ttl = o.ttl
         /\ p.user = o.user /\ p.touches = "none"
         /\ IF Exists(raw) THEN p.pc = "load" /\ p.raw \in ConnHashes /\ Alike(p.raw, raw)
                           ELSE p.pc = "user"
<1>. DEFINE raw0 == [raw EXCEPT !.ttl = 0]
            q == [o EXCEPT !.sid = n, !.touches = "none"]
<1>1. raw0 \in ConnHashes /\ Alike(raw0, raw) /\ {"load", "user"} \subseteq ConnPoints
  BY DEF ConnHashes, Alike, ConnPoints
<1>2. /\ q \in ConnObjects /\ q.op = o.op /\ q.sid = n /\ q.csid = o.csid /\ q.ttl = o.ttl
      /\ q.user = o.user /\ q.touches = "none"
  BY DEF ConnObjects
<1>3. Renewed(o, n, raw) = IF Exists(raw) THEN [q EXCEPT !.raw = raw0, !.pc = "load"]
                                          ELSE [q EXCEPT !.loaded = FALSE, !.pc = "user"]
  BY DEF Renewed
<1>. DEFINE l == [q EXCEPT !.raw = raw0, !.pc = "load"]
            u == [q EXCEPT !.loaded = FALSE, !.pc = "user"]
<1>. HIDE DEF q, raw0
<1>4. /\ l \in ConnObjects /\ l.op = q.op /\ l.sid = q.sid /\ l.csid = q.csid /\ l.ttl = q.ttl
      /\ l.user = q.user /\ l.touches = q.touches /\ l.pc = "load" /\ l.raw = raw0
  BY <1>1, <1>2 DEF ConnObjects
<1>5. /\ u \in ConnObjects /\ u.op = q.op /\ u.sid = q.sid /\ u.csid = q.csid /\ u.ttl = q.ttl
      /\ u.user = q.user /\ u.touches = q.touches /\ u.pc = "user"
  BY <1>1, <1>2 DEF ConnObjects
<1>6. Renewed(o, n, raw) = IF Exists(raw) THEN l ELSE u
  BY <1>3
<1>. HIDE DEF l, u
<1>. QED  BY <1>1, <1>2, <1>4, <1>5, <1>6

(* renew takes a new id, or fails. *)
Takes(r, n) ==
  LET o == obj[r]  p == obj'[r]  raw == Filtered(o, store[o.sid]) IN
  /\ n \in Sids /\ issued[n] = Nil /\ faults' = faults
  /\ issued' = [issued EXCEPT ![n] = [ttl |-> o.ttl, born |-> clock]]
  /\ owner' = [owner EXCEPT ![n] = UidOf(IF raw.user = Nil THEN o.user ELSE raw.user)]
  /\ p.op = o.op /\ p.sid = n /\ p.csid = o.csid /\ p.ttl = o.ttl
  /\ p.user = o.user /\ p.touches = "none"
  /\ IF Exists(raw) THEN p.pc = "load" /\ p.raw \in ConnHashes /\ Alike(p.raw, raw)
                    ELSE p.pc = "user"

LEMMA RawIs ==
  ASSUME TInv, NEW r \in Reqs, Raw(r)
  PROVE  LET o == obj[r]  p == obj'[r] IN
         /\ Turn(r) /\ store' = store /\ o.pc = "raw"
         /\ \/ \E n : Takes(r, n)
            \/ Still /\ Same(o, p) /\ p.pc = "ready" /\ p.ret = "err"
<1>. DEFINE o == obj[r]
            raw == Filtered(o, store[o.sid])
            q == [o EXCEPT !.touches = "none"]
<1>1. /\ o.pc = "raw" /\ store' = store /\ known' = known /\ clock' = clock
      /\ o \in ConnObjects /\ raw \in ConnHashes /\ "err" \in Rets
      /\ q \in ConnObjects /\ Same(o, q) /\ "none" \in {"none", "true", "false"}
  <2>1. o.pc = "raw" /\ o \in ConnObjects /\ store[o.sid] \in ConnHashes
    BY Mine DEF Raw, At
  <2>2. q \in ConnObjects /\ Same(o, q)
    BY <2>1 DEF ConnObjects, Same
  <2>. QED  BY <2>1, <2>2, FilteredIs DEF Raw, Rets
<1>2. /\ DOMAIN obj = Reqs /\ DOMAIN owner = Sids /\ faults \in Nat /\ clock \in Nat
      /\ issued \in [Sids -> [ttl : Nat, born : Nat] \cup {Nil}] /\ store \in [Sids -> ConnHashes]
      /\ o.ttl \in Nat
  BY Mine DEF TInv, Typed
<1>3. ASSUME NEW n \in Fresh,
             issued' = [issued EXCEPT ![n] = [ttl |-> o.ttl, born |-> clock]],
             obj' = [obj EXCEPT ![r] = Renewed(o, n, raw)],
             owner' = [owner EXCEPT ![n] = UidOf(IF raw.user = Nil THEN o.user ELSE raw.user)],
             faults' = faults
      PROVE  Turn(r) /\ Takes(r, n)
  <2>. DEFINE e == [ttl |-> o.ttl, born |-> clock]  p == Renewed(o, n, raw)
  <2>1. n \in Sids /\ issued[n] = Nil /\ obj'[r] = p /\ p.sid = n /\ p \in ConnObjects
    BY <1>1, <1>2, <1>3, RenewedIs DEF Fresh
  <2>2. e \in [ttl : Nat, born : Nat] /\ e # Nil
    BY <1>2, Constants
  <2>3. /\ issued' \in [Sids -> [ttl : Nat, born : Nat] \cup {Nil}]
        /\ issued'[n] = e
        /\ \A s \in Sids : issued[s] # Nil => issued'[s] = issued[s]
    BY <1>2, <1>3, <2>1, <2>2
  <2>4. Takes(r, n)
    BY <1>1, <1>3, <2>1, RenewedIs DEF Takes
  <2>5. p.pc \in {"load", "user"}
    BY <1>1, <2>1, RenewedIs
  <2>6. Fit(p, issued') /\ p.pc # "closed"
    BY <2>1, <2>2, <2>3, <2>5 DEF Fit, Born
  <2>7. obj' = [obj EXCEPT ![r] = obj'[r]] /\ DOMAIN owner' = Sids
    BY <1>2, <1>3, <2>1
  <2>. QED  BY <1>1, <1>2, <1>3, <2>1, <2>3, <2>4, <2>6, <2>7 DEF Turn
<1>4. ASSUME NEW w \in {o, q}, obj' = [obj EXCEPT ![r] = Return(w, "err")],
             issued' = issued, owner' = owner, faults' \in {faults, faults + 1}
      PROVE  /\ Turn(r) /\ Still /\ Same(o, obj'[r])
             /\ obj'[r].pc = "ready" /\ obj'[r].ret = "err"
  <2>. DEFINE p == Return(w, "err")
  <2>1. w \in ConnObjects /\ Same(o, w)
    BY <1>1 DEF Same
  <2>2. p \in ConnObjects /\ Same(w, p) /\ p.pc = "ready" /\ p.ret = "err"
    BY <1>1, <2>1, ReturnIs
  <2>. HIDE DEF p
  <2>3. Same(o, p)
    BY <2>1, <2>2, SameOn
  <2>4. Fit(p, issued)
    BY <1>1, <2>2, <2>3, FitOn DEF Same
  <2>5. obj' = [obj EXCEPT ![r] = p]
    BY <1>4 DEF p
  <2>6. obj' = [obj EXCEPT ![r] = obj'[r]] /\ obj'[r] = p
    BY <1>2, <2>5
  <2>. QED  BY <1>1, <1>2, <1>4, <2>2, <2>3, <2>4, <2>6 DEF Turn, Still
<1>5. \/ \E n \in Fresh :
              /\ issued' = [issued EXCEPT ![n] = [ttl |-> o.ttl, born |-> clock]]
              /\ obj' = [obj EXCEPT ![r] = Renewed(o, n, raw)]
              /\ owner' = [owner EXCEPT ![n] = UidOf(IF raw.user = Nil THEN o.user ELSE raw.user)]
              /\ faults' = faults
      \/ obj' = [obj EXCEPT ![r] = Return(q, "err")] /\ issued' = issued /\ owner' = owner
         /\ faults' \in {faults, faults + 1}
      \/ obj' = [obj EXCEPT ![r] = Return(o, "err")] /\ issued' = issued /\ owner' = owner
         /\ faults' \in {faults, faults + 1}
  BY DEF Raw
<1>. HIDE DEF q, raw
<1>. QED  BY <1>1, <1>3, <1>4, <1>5

(* The commands of this application. *)
LEMMA Commands ==
  ASSUME TInv, NEW r \in Reqs, Command(r) \/ TryRenew(r)
  PROVE  \/ LoadUser(r) \/ Touch(r) \/ Raw(r) \/ Load(r) \/ MappingAdd(r) \/ MappingExpire(r)
         \/ ClonedUnmapping(r) \/ ClonedDestroy(r) \/ Unmapping(r)
         \/ KeepTouch(r) \/ GetNewId(r) \/ NewTtl(r) \/ OldTtl(r) \/ CondemnedDel(r)
         \/ DropNewer(r) \/ CloneTouch(r) \/ CloneSetNewId(r)
<1>1. obj[r].pc \in ConnPoints /\ obj[r].op \in ConnCalls
  BY Mine DEF ConnObjects
<1>2. ~ SilentSet(r) /\ ~ SilentGet(r) /\ ~ SilentDel(r) /\ ~ LogoutDel(r)
  BY <1>1 DEF SilentSet, SilentGet, SilentDel, LogoutDel, At, ConnPoints
<1>3. ~ DestroyDel(r) /\ ~ AllSid(r) /\ ~ FilterRemove(r)
  BY <1>1 DEF DestroyDel, AllSid, FilterRemove, At, ConnPoints, ConnCalls
<1>4. \A s \in Sids : ~ FilterExists(r, s) /\ ~ SyncSet(r, s)
  BY <1>1 DEF FilterExists, SyncSet, At, ConnPoints
<1>. QED  BY <1>2, <1>3, <1>4 DEF Command, TryRenew

LEMMA CommandTurns ==
  ASSUME TInv, NEW r \in Reqs, Command(r) \/ TryRenew(r)
  PROVE  Turn(r)
BY Commands, LoadUserIs, TouchIs, RawIs, LoadIs, MappingAddIs, MappingExpireIs, ClonedUnmappingIs,
   ClonedDestroyIs, UnmappingIs, KeepTouchIs, GetNewIdIs, NewTtlIs, OldTtlIs, CondemnedDelIs,
   DropNewerIs, CloneTouchIs, CloneSetNewIdIs

-----------------------------------------------------------------------------
(* Types *)

(* A step of connection r. *)
LEMMA StepTypes ==
  ASSUME TInv, NEW r \in Reqs, Typed',
         \A s \in Sids : issued[s] # Nil => issued'[s] # Nil,
         obj' = [obj EXCEPT ![r] = obj'[r]], due' = [due EXCEPT ![r] = due'[r]],
         flow' = [flow EXCEPT ![r] = flow'[r]], root' = [root EXCEPT ![r] = root'[r]],
         Fits(obj'[r], due'[r], flow'[r], root'[r], issued')
  PROVE  TInv'
<1>1. /\ obj' \in [Reqs -> ConnObjects] /\ due' \in [Reqs -> BOOLEAN]
      /\ flow' \in [Reqs -> ConnFlows] /\ root' \in [Reqs -> Roots]
  BY DEF TInv, Fits, Fit
<1>2. ASSUME NEW q \in Reqs \ {r}
      PROVE  Fits(obj'[q], due'[q], flow'[q], root'[q], issued')
  <2>1. obj'[q] = obj[q] /\ due'[q] = due[q] /\ flow'[q] = flow[q] /\ root'[q] = root[q]
    BY DEF TInv
  <2>2. Fits(obj[q], due[q], flow[q], root[q], issued)
    BY DEF TInv
  <2>3. \A s : Born(s, issued) => Born(s, issued')
    BY DEF Born
  <2>. QED  BY <2>1, <2>2, <2>3 DEF Fits, Fit
<1>. QED  BY <1>1, <1>2 DEF TInv

(* A step of the connection alone: Redis and the ids stay. *)
LEMMA LocalTypes ==
  ASSUME TInv, NEW r \in Reqs,
         UNCHANGED <<store, issued, clock, owner>>, faults' \in Nat,
         known' \subseteq {s \in Sids : issued[s] # Nil},
         obj' = [obj EXCEPT ![r] = obj'[r]], due' = [due EXCEPT ![r] = due'[r]],
         flow' = [flow EXCEPT ![r] = flow'[r]], root' = [root EXCEPT ![r] = root'[r]],
         Fits(obj'[r], due'[r], flow'[r], root'[r], issued)
  PROVE  TInv'
<1>1. Typed'
  BY DEF TInv, Typed
<1>. QED  BY <1>1, StepTypes

LEMMA TurnTypes ==
  ASSUME TInv, NEW r \in Reqs, Turn(r)
  PROVE  /\ Typed' /\ Fit(obj'[r], issued')
         /\ \A s : Born(s, issued) => Born(s, issued')
         /\ \A s \in Sids : issued[s] # Nil => issued'[s] # Nil
BY DEF TInv, Typed, Turn, Born

(* History of a step that sends a command. *)
Worked(r) ==
  /\ due' = [due EXCEPT ![r] = PastRenew(obj'[r]) /\ ~ PastRenew(obj[r])]
  /\ root' = [root EXCEPT ![r].judged = @ \/ (obj[r].op = "condemn" /\ At(r, "destroydel"))]

(* What history keeps of a root. *)
LEMMA WorkedIs ==
  ASSUME TInv, NEW r \in Reqs, Worked(r)
  PROVE  LET o == obj[r]  R == root[r]  S == root'[r] IN
         /\ due' = [due EXCEPT ![r] = due'[r]] /\ root' = [root EXCEPT ![r] = root'[r]]
         /\ due'[r] = (PastRenew(obj'[r]) /\ ~ PastRenew(o))
         /\ S \in Roots
         /\ S.status = R.status /\ S.sid = R.sid /\ S.server = R.server /\ S.stored = R.stored
         /\ S.judged = (R.judged \/ (o.op = "condemn" /\ o.pc = "destroydel"))
<1>1. DOMAIN due = Reqs /\ DOMAIN root = Reqs /\ root[r] \in Roots
  BY DEF TInv, Fits
<1>. DEFINE S == [root[r] EXCEPT !.judged = @ \/ (obj[r].op = "condemn" /\ At(r, "destroydel"))]
<1>2. root' = [root EXCEPT ![r] = S]
  BY DEF Worked
<1>3. /\ S \in Roots
      /\ S.status = root[r].status /\ S.sid = root[r].sid /\ S.server = root[r].server
      /\ S.stored = root[r].stored
      /\ S.judged = (root[r].judged \/ (obj[r].op = "condemn" /\ obj[r].pc = "destroydel"))
  BY <1>1 DEF Roots, At
<1>. HIDE DEF S
<1>4. root'[r] = S
  BY <1>1, <1>2
<1>5. due' = [due EXCEPT ![r] = due'[r]] /\ due'[r] = (PastRenew(obj'[r]) /\ ~ PastRenew(obj[r]))
  BY <1>1 DEF Worked
<1>. QED  BY <1>2, <1>3, <1>4, <1>5

LEMMA WorkTypes ==
  ASSUME TInv, NEW r \in Reqs, Work(r), UNCHANGED wsVars
  PROVE  TInv'
<1>1. Turn(r) /\ Worked(r) /\ flow' = flow
  BY CommandTurns DEF Work, Worked, wsVars
<1>2. /\ Typed' /\ Fit(obj'[r], issued')
      /\ \A s : Born(s, issued) => Born(s, issued')
      /\ \A s \in Sids : issued[s] # Nil => issued'[s] # Nil
  BY <1>1, TurnTypes
<1>3. Fits(obj[r], due[r], flow[r], root[r], issued) /\ flow \in [Reqs -> ConnFlows]
  BY DEF TInv
<1>4. flow' = [flow EXCEPT ![r] = flow'[r]] /\ flow'[r] = flow[r]
  BY <1>1, <1>3
<1>5. due'[r] \in BOOLEAN /\ (due'[r] => PastRenew(obj'[r]))
  BY <1>1, WorkedIs
<1>6. Fits(obj'[r], due'[r], flow'[r], root'[r], issued')
  BY <1>1, <1>2, <1>3, <1>4, <1>5, WorkedIs DEF Fits
<1>. QED  BY <1>1, <1>2, <1>4, <1>6, StepTypes, WorkedIs DEF Turn

-----------------------------------------------------------------------------
(* The handlers: what each step makes of object and stage *)

(* A step of the handler of connection r, a call of the session included.  *)
Handles(r) ==
  /\ UNCHANGED <<store, issued, clock, owner, known, faults, due, root>>
  /\ obj' = [obj EXCEPT ![r] = obj'[r]] /\ flow' = [flow EXCEPT ![r] = flow'[r]]
  /\ obj[r].pc = "ready" /\ ~ due[r] /\ flow[r].stage # "off"
  /\ obj'[r] \in ConnObjects /\ obj'[r].sid = obj[r].sid /\ obj'[r].pc \notin {"closed", "newttl"}
  /\ flow'[r] \in ConnFlows /\ flow'[r].stage # "off"
  /\ flow'[r].sid \in {Nil, flow[r].sid, obj[r].sid}

(* A step that makes no call. *)
Passes(r) == obj' = obj

LEMMA FlowIs ==
  ASSUME TInv, NEW r \in Reqs, NEW stage \in Stages
  PROVE  LET g == flow'[r] IN
         /\ Goto(r, stage) \/ Fail(r) \/ SetRespSid(r, stage) =>
              flow' = [flow EXCEPT ![r] = g] /\ g \in ConnFlows
         /\ Goto(r, stage) => g.stage = stage /\ g.sid = flow[r].sid
         /\ Fail(r) => g.stage = "reply" /\ g.sid = Nil
         /\ SetRespSid(r, stage) => g.stage = stage /\ g.sid = obj[r].sid
<1>. DEFINE a == [flow[r] EXCEPT !.stage = stage]
            b == [flow[r] EXCEPT !.stage = "reply", !.sid = Nil]
            c == [flow[r] EXCEPT !.stage = stage, !.sid = obj[r].sid]
<1>1. flow \in [Reqs -> ConnFlows] /\ flow[r] \in ConnFlows /\ obj[r].sid \in Sids \cup {Nil}
  BY Mine DEF TInv, ConnObjects
<1>2. /\ a \in ConnFlows /\ a.stage = stage /\ a.sid = flow[r].sid
      /\ b \in ConnFlows /\ b.stage = "reply" /\ b.sid = Nil
      /\ c \in ConnFlows /\ c.stage = stage /\ c.sid = obj[r].sid
  BY <1>1 DEF ConnFlows, Stages
<1>3. /\ Goto(r, stage) => flow' = [flow EXCEPT ![r] = a]
      /\ Fail(r) => flow' = [flow EXCEPT ![r] = b]
      /\ SetRespSid(r, stage) => flow' = [flow EXCEPT ![r] = c]
  BY <1>1 DEF Goto, Fail, SetRespSid
<1>. HIDE DEF a, b, c
<1>4. \A x : flow' = [flow EXCEPT ![r] = x] => flow' = [flow EXCEPT ![r] = flow'[r]] /\ flow'[r] = x
  BY <1>1
<1>. QED  BY <1>2, <1>3, <1>4

(* A step that only moves the handler on. *)
LEMMA PassIs ==
  ASSUME TInv, NEW r \in Reqs, obj[r].pc = "ready", ~ due[r], Stay, flow[r].stage # "off",
         flow' = [flow EXCEPT ![r] = flow'[r]], flow'[r] \in ConnFlows, flow'[r].stage # "off",
         flow'[r].sid \in {Nil, flow[r].sid, obj[r].sid}
  PROVE  Handles(r) /\ Passes(r)
<1>1. obj \in [Reqs -> ConnObjects] /\ obj[r] \in ConnObjects
  BY Mine DEF TInv
<1>2. UNCHANGED <<store, issued, clock, owner, known, faults, due, root, obj>>
  BY DEF Stay, vars, connVars
<1>. QED  BY <1>1, <1>2 DEF Handles, Passes

(* A step that calls the session. *)
LEMMA CallIs ==
  ASSUME TInv, NEW r \in Reqs, obj[r].pc = "ready", ~ due[r], NEW op, NEW p, Call(r, op, p),
         flow[r].stage # "off", UNCHANGED connVars, NEW stage \in Stages \ {"off"}, Goto(r, stage),
         p \in ConnObjects, p.sid = obj[r].sid, p.pc \notin {"closed", "newttl"}
  PROVE  Handles(r) /\ obj'[r] = p /\ flow'[r].stage = stage /\ flow'[r].sid = flow[r].sid
<1>1. DOMAIN obj = Reqs
  BY DEF TInv
<1>2. /\ obj' = [obj EXCEPT ![r] = p]
      /\ UNCHANGED <<store, issued, clock, owner, known, faults, due, root>>
  BY DEF Call, connVars
<1>3. obj' = [obj EXCEPT ![r] = obj'[r]] /\ obj'[r] = p
  BY <1>1, <1>2
<1>4. /\ flow' = [flow EXCEPT ![r] = flow'[r]] /\ flow'[r] \in ConnFlows
      /\ flow'[r].stage = stage /\ flow'[r].sid = flow[r].sid
  BY FlowIs
<1>. QED  BY <1>2, <1>3, <1>4 DEF Handles

LEMMA HandleTypes ==
  ASSUME TInv, NEW r \in Reqs, Handles(r)
  PROVE  TInv'
<1>1. Fits(obj[r], due[r], flow[r], root[r], issued) /\ Typed
  BY DEF TInv
<1>2. due' = [due EXCEPT ![r] = due'[r]] /\ root' = [root EXCEPT ![r] = root'[r]]
  BY DEF Handles, TInv
<1>3. faults' \in Nat /\ known' \subseteq {s \in Sids : issued[s] # Nil}
  BY <1>1 DEF Handles, Typed
<1>4. obj[r].pc # "closed" /\ Born(obj[r].sid, issued) /\ ~ due'[r]
  BY <1>1 DEF Handles, Fits, Fit
<1>5. root[r].status # "closed"
  BY <1>1, Mine DEF Fits, Handles
<1>. QED  BY <1>1, <1>2, <1>3, <1>4, LocalTypes DEF Handles, Fits, Fit

LEMMA Readiness ==
  ASSUME TInv, NEW r \in Reqs, NEW stage \in Stages \ {"off"}, Ready(r, stage)
  PROVE  /\ obj[r] \in ConnObjects /\ obj[r].pc = "ready" /\ ~ due[r]
         /\ flow[r].stage = stage /\ flow[r].stage # "off" /\ flow[r].sid \in Sids \cup {Nil}
BY Mine DEF Ready, TInv, ConnFlows

LEMMA ValidIs ==
  ASSUME TInv, NEW r \in Reqs, Valid(r)
  PROVE  LET o == obj[r]  p == obj'[r]  g == flow'[r] IN
         /\ Handles(r) /\ flow[r].stage = "valid"
         /\ \/ Passes(r) /\ g.stage = "auth"
            \/ /\ p.op = "user" /\ p.pc \in {"user", "ready"} /\ p.ttl = o.ttl /\ p.user = o.user
               /\ g.stage = "checked"
<1>. DEFINE o == obj[r]  b == Begin(o, "user")  p == User(b)
<1>1. /\ o \in ConnObjects /\ o.pc = "ready" /\ ~ due[r] /\ flow[r].stage = "valid"
      /\ {"auth", "checked"} \subseteq Stages \ {"off"} /\ "user" \in ConnCalls
      /\ flow[r].stage # "off"
  BY Readiness DEF Valid, Stages, ConnCalls
<1>2. CASE Goto(r, "auth") /\ Stay
  BY <1>1, <1>2, FlowIs, PassIs
<1>3. CASE Call(r, "user", p) /\ Goto(r, "checked") /\ UNCHANGED connVars
  <2>1. /\ b \in ConnObjects /\ b.op = "user" /\ b.sid = o.sid /\ b.ttl = o.ttl /\ b.user = o.user
        /\ PastUser("user") = {"ready"}
    BY <1>1, BeginIs DEF PastUser, Renewals
  <2>2. p \in ConnObjects /\ Same(b, p) /\ p.pc \in {"user", "ready"}
    BY <2>1, UserIs
  <2>. HIDE DEF b, p
  <2>3. Handles(r) /\ obj'[r] = p /\ flow'[r].stage = "checked"
    BY <1>1, <1>3, <2>1, <2>2, CallIs DEF Same
  <2>. QED  BY <1>1, <2>1, <2>2, <2>3 DEF Same
<1>. QED  BY <1>1, <1>2, <1>3 DEF Valid, CallUser

LEMMA CheckedIs ==
  ASSUME TInv, NEW r \in Reqs, Checked(r)
  PROVE  /\ Handles(r) /\ Passes(r) /\ flow[r].stage = "checked"
         /\ flow'[r].stage \in {"auth", "reply"}
<1>1. /\ obj[r].pc = "ready" /\ ~ due[r] /\ flow[r].stage = "checked"
      /\ {"auth", "reply", "checked"} \subseteq Stages \ {"off"} /\ flow[r].stage # "off"
  BY Readiness DEF Checked, Stages
<1>2. CASE Goto(r, "auth") /\ Stay
  BY <1>1, <1>2, FlowIs, PassIs
<1>3. CASE Fail(r)
  BY <1>1, <1>3, FlowIs, PassIs DEF Fail
<1>. QED  BY <1>1, <1>2, <1>3 DEF Checked

LEMMA AuthIs ==
  ASSUME TInv, NEW r \in Reqs, Auth(r)
  PROVE  LET o == obj[r]  p == obj'[r]  g == flow'[r] IN
         /\ Handles(r) /\ flow[r].stage = "auth"
         /\ \/ Passes(r) /\ g.stage = "controller"
            \/ /\ root[r].status = "unbound" /\ g.stage = "authed"
               /\ p.pc = "raw" /\ p.op = "autoLogin" /\ p.csid = o.sid /\ p.ttl = o.ttl
            \/ /\ g.stage = "authed" /\ p.op = "tryRenew" /\ p.ttl = o.ttl /\ p.user = o.user
               /\ p.pc \in {"newid", "keep"} \/ (p.pc = "ready" /\ p.ret = "false")
<1>. DEFINE o == obj[r]
            b == Begin(o, "autoLogin")  l == LogIn(b)
            c == Begin(o, "tryRenew")  k == Keep(c)
<1>1. /\ o \in ConnObjects /\ o.pc = "ready" /\ ~ due[r] /\ flow[r].stage = "auth"
      /\ {"authed", "controller", "auth"} \subseteq Stages \ {"off"} /\ flow[r].stage # "off"
      /\ {"autoLogin", "tryRenew"} \subseteq ConnCalls /\ "newid" \in ConnPoints
  BY Readiness DEF Auth, Stages, ConnCalls, ConnPoints
<1>2. CASE Goto(r, "controller") /\ Stay
  BY <1>1, <1>2, FlowIs, PassIs
<1>3. CASE root[r].status = "unbound" /\ CallAutoLogin(r) /\ Goto(r, "authed") /\ UNCHANGED connVars
  <2>1. b \in ConnObjects /\ b.op = "autoLogin" /\ b.sid = o.sid /\ b.ttl = o.ttl
    BY <1>1, BeginIs
  <2>2. /\ l \in ConnObjects /\ l.pc = "raw" /\ l.op = "autoLogin" /\ l.sid = o.sid
        /\ l.csid = o.sid /\ l.ttl = o.ttl
    BY <2>1, LogInIs
  <2>3. Call(r, "autoLogin", l)
    BY <1>3 DEF CallAutoLogin
  <2>. HIDE DEF b, l
  <2>4. Handles(r) /\ obj'[r] = l /\ flow'[r].stage = "authed"
    BY <1>1, <1>3, <2>2, <2>3, CallIs
  <2>. QED  BY <1>1, <1>3, <2>2, <2>4
<1>4. CASE CallTryRenew(r) /\ Goto(r, "authed") /\ UNCHANGED connVars
  <2>1. /\ c \in ConnObjects /\ c.op = "tryRenew" /\ c.sid = o.sid /\ c.ttl = o.ttl
        /\ c.user = o.user
    BY <1>1, BeginIs
  <2>2. PICK m \in {"judge", "young"} :
          Call(r, "tryRenew", k) \/ Call(r, "tryRenew", [c EXCEPT !.pc = "newid", !.mode = m])
    BY <1>4 DEF CallTryRenew
  <2>. DEFINE n == [c EXCEPT !.pc = "newid", !.mode = m]
  <2>. HIDE DEF c
  <2>3. n \in ConnObjects /\ Same(c, n) /\ n.pc = "newid"
    <3>1. m \in {"none", "young", "judge", "drop"} /\ c \in ConnObjects /\ "newid" \in ConnPoints
      BY <1>1, <2>1
    <3>. QED  BY <3>1 DEF ConnObjects, Same
  <2>4. /\ k \in ConnObjects /\ Same(c, k) /\ k.pc \in {"keep", "ready"}
        /\ k.pc = "ready" => k.ret = "false"
    BY <2>1, KeepIs DEF k
  <2>5. Call(r, "tryRenew", k) \/ Call(r, "tryRenew", n)
    BY <2>2
  <2>. HIDE DEF k, n
  <2>6. Handles(r) /\ flow'[r].stage = "authed" /\ (obj'[r] = k \/ obj'[r] = n)
    BY <1>1, <1>4, <2>1, <2>3, <2>4, <2>5, CallIs DEF Same
  <2>. QED  BY <1>1, <2>1, <2>3, <2>4, <2>6 DEF Same
<1>5. root[r].status \in {"closed", "unbound", "bound"}
  BY DEF TInv, Roots
<1>. QED  BY <1>1, <1>2, <1>3, <1>4, <1>5 DEF Auth

LEMMA AuthedIs ==
  ASSUME TInv, NEW r \in Reqs, Authed(r)
  PROVE  LET o == obj[r]  g == flow'[r] IN
         /\ Handles(r) /\ Passes(r) /\ flow[r].stage = "authed"
         /\ \/ g.stage = "reply"
            \/ g.stage = "controller" /\ (o.ret # "err" \/ o.op = "autoLogin")
<1>1. /\ obj[r].pc = "ready" /\ ~ due[r] /\ flow[r].stage = "authed"
      /\ {"controller", "reply", "authed"} \subseteq Stages \ {"off"} /\ flow[r].stage # "off"
  BY Readiness DEF Authed, Stages
<1>2. CASE Fail(r)
  BY <1>1, <1>2, FlowIs, PassIs DEF Fail
<1>3. CASE SetRespSid(r, "controller") /\ obj[r].ret = "true"
  BY <1>1, <1>3, FlowIs, PassIs DEF SetRespSid
<1>4. CASE Goto(r, "controller") /\ Stay /\ (obj[r].ret # "err" \/ obj[r].op = "autoLogin")
  BY <1>1, <1>4, FlowIs, PassIs
<1>5. \/ Fail(r)
      \/ SetRespSid(r, "controller") /\ obj[r].ret = "true"
      \/ Goto(r, "controller") /\ Stay /\ (obj[r].ret # "err" \/ obj[r].op = "autoLogin")
  BY DEF Authed
<1>. QED  BY <1>2, <1>3, <1>4, <1>5

LEMMA ControllerIs ==
  ASSUME TInv, NEW r \in Reqs, Controller(r)
  PROVE  LET o == obj[r]  p == obj'[r]  g == flow'[r] IN
         /\ Handles(r) /\ flow[r].stage = "controller"
         /\ \/ Passes(r) /\ g.stage = "reply"
            \/ /\ p.pc = "raw" /\ p.op = "login" /\ p.csid = o.sid /\ p.ttl \in Ttls
               /\ g.stage = "logged"
<1>. DEFINE o == obj[r]  b == Begin(o, "login")  l == LogIn(b)
<1>1. /\ o \in ConnObjects /\ o.pc = "ready" /\ ~ due[r] /\ flow[r].stage = "controller"
      /\ {"logged", "controller", "reply"} \subseteq Stages \ {"off"} /\ flow[r].stage # "off"
      /\ "login" \in ConnCalls
  BY Readiness DEF Controller, Stages, ConnCalls
<1>2. CASE Goto(r, "reply") /\ Stay
  BY <1>1, <1>2, FlowIs, PassIs
<1>3. CASE Fail(r)
  BY <1>1, <1>3, FlowIs, PassIs DEF Fail
<1>4. ASSUME NEW u \in Profiles, NEW t \in Ttls, CallLogin(r, u, t), Goto(r, "logged"),
             UNCHANGED connVars
      PROVE  /\ Handles(r) /\ obj'[r].pc = "raw" /\ obj'[r].op = "login" /\ obj'[r].csid = o.sid
             /\ obj'[r].ttl \in Ttls /\ flow'[r].stage = "logged"
  <2>. DEFINE q == [l EXCEPT !.user = u, !.ttl = t]
  <2>1. b \in ConnObjects /\ b.op = "login" /\ b.sid = o.sid
    BY <1>1, BeginIs
  <2>2. l \in ConnObjects /\ l.pc = "raw" /\ l.op = "login" /\ l.sid = o.sid /\ l.csid = o.sid
    BY <2>1, LogInIs
  <2>3. /\ q \in ConnObjects /\ q.pc = "raw" /\ q.op = "login" /\ q.sid = o.sid
        /\ q.csid = o.sid /\ q.ttl = t
    BY <2>2, Constants DEF ConnObjects
  <2>4. Call(r, "login", q)
    BY <1>4 DEF CallLogin
  <2>. HIDE DEF q
  <2>5. Handles(r) /\ obj'[r] = q /\ flow'[r].stage = "logged"
    BY <1>1, <1>4, <2>3, <2>4, CallIs
  <2>. QED  BY <2>3, <2>5
<1>. QED  BY <1>1, <1>2, <1>3, <1>4 DEF Controller

LEMMA LoggedIs ==
  ASSUME TInv, NEW r \in Reqs, Logged(r)
  PROVE  Handles(r) /\ Passes(r) /\ flow[r].stage = "logged" /\ flow'[r].stage = "reply"
<1>1. /\ obj[r].pc = "ready" /\ ~ due[r] /\ flow[r].stage = "logged"
      /\ {"reply", "logged"} \subseteq Stages \ {"off"} /\ flow[r].stage # "off"
  BY Readiness DEF Logged, Stages
<1>2. CASE Fail(r)
  BY <1>1, <1>2, FlowIs, PassIs DEF Fail
<1>3. CASE SetRespSid(r, "reply")
  BY <1>1, <1>3, FlowIs, PassIs DEF SetRespSid
<1>. QED  BY <1>2, <1>3 DEF Logged

-----------------------------------------------------------------------------
(* Connecting, taking a message, answering and hanging up *)

NewRoot(s, a) == [NoRoot EXCEPT !.status = "unbound", !.sid = s, !.server = a]

LEMMA NoRootIs ==
  NoRoot \in Roots /\ NoRoot.status = "closed" /\ ~ NoRoot.stored /\ ~ NoRoot.judged
BY DEF NoRoot, Roots

LEMMA NewRootIs ==
  ASSUME NEW s \in Sids, NEW a \in Servers
  PROVE  LET R == NewRoot(s, a) IN
         /\ R \in Roots /\ R.status = "unbound" /\ R.sid = s /\ R.server = a
         /\ ~ R.stored /\ ~ R.judged
BY DEF NoRoot, NewRoot, Roots

LEMMA NoFlowIs ==
  /\ NoFlow \in ConnFlows /\ NoFlow.stage = "off" /\ NoFlow.sid = Nil
  /\ \A st \in {"open", "broken"} :
       LET g == [NoFlow EXCEPT !.stage = st] IN g \in ConnFlows /\ g.stage = st /\ g.sid = Nil
  /\ \A route \in Routes :
       LET g == [stage |-> "valid", route |-> route, sid |-> Nil] IN
       g \in ConnFlows /\ g.stage = "valid" /\ g.sid = Nil
BY DEF NoFlow, ConnFlows, Stages

LEMMA AcceptIs ==
  ASSUME TInv, NEW r \in Reqs, NEW a \in Servers, Accept(r, a)
  PROVE  LET S == root'[r]  g == flow'[r] IN
         /\ UNCHANGED <<store, known, obj, clock, faults, owner, due>>
         /\ flow' = [flow EXCEPT ![r] = g] /\ root' = [root EXCEPT ![r] = S]
         /\ flow[r].stage = "off" /\ g.stage = "open" /\ g \in ConnFlows /\ g.sid = flow[r].sid
         /\ S \in Roots /\ S.status = "unbound" /\ Born(S.sid, issued') /\ S.server = a
         /\ ~ S.stored /\ ~ S.judged
         /\ \/ issued' = issued
            \/ \E s \in Sids, t \in Ttls :
                 issued[s] = Nil /\ issued' = [issued EXCEPT ![s] = [ttl |-> t, born |-> clock]]
<1>1. /\ flow[r].stage = "off" /\ Goto(r, "open") /\ {"off", "open"} \subseteq Stages
      /\ Typed /\ root \in [Reqs -> Roots]
  BY DEF Accept, Stages, TInv
<1>2. flow' = [flow EXCEPT ![r] = flow'[r]] /\ flow'[r] \in ConnFlows /\ flow'[r].stage = "open"
      /\ flow'[r].sid = flow[r].sid
  BY <1>1, FlowIs
<1>3. PICK s : /\ Connect(r, s, a)
               /\ \/ s \in known /\ issued' = issued
                  \/ /\ s \in Fresh
                     /\ \E t \in Ttls : issued' = [issued EXCEPT ![s] = [ttl |-> t, born |-> clock]]
  BY DEF Accept, ConnectWith, ConnectNew
<1>4. s \in Sids /\ NewRoot(s, a) \in Roots /\ (s \in Fresh => issued[s] = Nil)
  BY <1>1, <1>3, NewRootIs DEF Typed, Fresh
<1>5. Born(s, issued')
  <2>1. CASE s \in known /\ issued' = issued
    BY <1>1, <2>1 DEF Born, Typed
  <2>2. ASSUME NEW t \in Ttls, issued' = [issued EXCEPT ![s] = [ttl |-> t, born |-> clock]]
        PROVE  Born(s, issued')
    <3>1. [ttl |-> t, born |-> clock] # Nil /\ DOMAIN issued = Sids
      BY <1>1, Constants DEF Typed
    <3>. QED  BY <1>4, <2>2, <3>1 DEF Born
  <2>. QED  BY <1>3, <2>1, <2>2
<1>6. /\ UNCHANGED <<store, known, obj, clock, faults, owner, due>>
      /\ root' = [root EXCEPT ![r] = NewRoot(s, a)]
  BY <1>3 DEF Connect, NewRoot
<1>7. root' = [root EXCEPT ![r] = root'[r]] /\ root'[r] = NewRoot(s, a)
  BY <1>1, <1>6
<1>8. LET S == root'[r] IN
      /\ S \in Roots /\ S.status = "unbound" /\ S.sid = s /\ S.server = a
      /\ ~ S.stored /\ ~ S.judged
  BY <1>4, <1>7, NewRootIs
<1>9. \/ issued' = issued
      \/ \E t \in Ttls :
           issued[s] = Nil /\ issued' = [issued EXCEPT ![s] = [ttl |-> t, born |-> clock]]
  BY <1>3, <1>4
<1>. QED  BY <1>1, <1>2, <1>4, <1>5, <1>6, <1>7, <1>8, <1>9

LEMMA MessageIs ==
  ASSUME TInv, NEW r \in Reqs, NEW route \in Routes, Message(r, route)
  PROVE  LET p == obj'[r]  g == flow'[r] IN
         /\ UNCHANGED <<store, issued, known, clock, faults, owner, due, root>>
         /\ obj' = [obj EXCEPT ![r] = p] /\ flow' = [flow EXCEPT ![r] = g]
         /\ flow[r].stage = "open" /\ obj[r].pc = "closed" /\ root[r].status # "closed"
         /\ g \in ConnFlows /\ g.stage = "valid" /\ g.sid = Nil
         /\ p \in ConnObjects /\ p.pc = "ready" /\ p.op = "none" /\ p.user = Nil
         /\ Born(p.sid, issued) /\ p.ttl = issued[p.sid].ttl
         /\ p.sid = root[r].sid \/ root[r].status \in Explicit
<1>1. PICK s : /\ CloneForRequest(r, s)
               /\ s = root[r].sid \/ root[r].status \in Explicit
  BY DEF Message
<1>2. /\ flow[r].stage = "open"
      /\ flow' = [flow EXCEPT ![r] = [stage |-> "valid", route |-> route, sid |-> Nil]]
  BY DEF Message
<1>3. /\ Typed /\ Fits(obj[r], due[r], flow[r], root[r], issued)
      /\ DOMAIN obj = Reqs /\ DOMAIN flow = Reqs
  BY DEF TInv
<1>4. /\ root[r].status # "closed" /\ obj[r].pc = "closed" /\ s \in known \cup {root[r].sid}
      /\ obj' = [obj EXCEPT ![r] = Object(s, issued[s].ttl)]
      /\ UNCHANGED <<store, issued, known, clock, faults, owner, due, root>>
  BY <1>1 DEF CloneForRequest, Connected, connVars
<1>5. Born(s, issued) /\ issued[s].ttl \in Nat
  BY <1>3, <1>4 DEF Born, Fits, Typed
<1>6. obj' = [obj EXCEPT ![r] = obj'[r]] /\ obj'[r] = Object(s, issued[s].ttl)
  BY <1>3, <1>4
<1>7. /\ flow' = [flow EXCEPT ![r] = flow'[r]]
      /\ flow'[r] = [stage |-> "valid", route |-> route, sid |-> Nil]
  BY <1>2, <1>3
<1>8. s \in Sids
  BY <1>5 DEF Born
<1>. QED  BY <1>1, <1>2, <1>4, <1>5, <1>6, <1>7, <1>8, ObjectIs, NoFlowIs

LEMMA AnswerIs ==
  ASSUME TInv, NEW r \in Reqs, Answer(r)
  PROVE  LET p == obj'[r]  g == flow'[r] IN
         /\ UNCHANGED <<store, issued, clock, owner, due, root>>
         /\ obj' = [obj EXCEPT ![r] = p] /\ flow' = [flow EXCEPT ![r] = g]
         /\ flow[r].stage = "reply" /\ obj[r].pc = "ready" /\ ~ due[r]
         /\ p = Closed /\ g \in ConnFlows /\ g.stage \in {"open", "broken"} /\ g.sid = Nil
         /\ known' \subseteq known \cup ({flow[r].sid} \ {Nil})
         /\ faults' \in {faults, faults + 1}
<1>1. DOMAIN obj = Reqs /\ DOMAIN flow = Reqs
  BY DEF TInv
<1>2. /\ flow[r].stage = "reply" /\ obj[r].pc = "ready" /\ ~ due[r]
      /\ obj' = [obj EXCEPT ![r] = Closed]
      /\ UNCHANGED <<store, issued, clock, owner, due, root>>
      /\ known' \subseteq known \cup ({flow[r].sid} \ {Nil})
      /\ faults' \in {faults, faults + 1}
      /\ \E st \in {"open", "broken"} : flow' = [flow EXCEPT ![r] = [NoFlow EXCEPT !.stage = st]]
  BY DEF Answer, Ready, connVars
<1>3. obj' = [obj EXCEPT ![r] = obj'[r]] /\ obj'[r] = Closed
  BY <1>1, <1>2
<1>4. PICK st \in {"open", "broken"} : /\ flow' = [flow EXCEPT ![r] = flow'[r]]
                                       /\ flow'[r] = [NoFlow EXCEPT !.stage = st]
  BY <1>1, <1>2
<1>. QED  BY <1>2, <1>3, <1>4, NoFlowIs

LEMMA HangUpIs ==
  ASSUME TInv, NEW r \in Reqs, HangUp(r)
  PROVE  LET R == root[r]  h == HDel(store[R.sid], "server") IN
         /\ UNCHANGED <<issued, known, clock, owner, obj, due>>
         /\ flow' = [flow EXCEPT ![r] = NoFlow] /\ flow'[r] = NoFlow
         /\ root' = [root EXCEPT ![r] = NoRoot] /\ root'[r] = NoRoot
         /\ obj[r].pc = "closed" /\ R.status # "closed" /\ Born(R.sid, issued)
         /\ store' \in {store, Put(R.sid, h)} /\ (faults' = faults => store' = Put(R.sid, h))
         /\ store' \in [Sids -> ConnHashes] /\ faults' \in {faults, faults + 1}
<1>. DEFINE R == root[r]  h == HDel(store[R.sid], "server")
<1>1. /\ Typed /\ Fits(obj[r], due[r], flow[r], R, issued)
      /\ obj \in [Reqs -> ConnObjects] /\ DOMAIN flow = Reqs /\ DOMAIN root = Reqs
      /\ faults \in Nat /\ store \in [Sids -> ConnHashes]
  BY DEF TInv, Typed
<1>2. /\ R.status # "closed" /\ obj[r].pc = "closed" /\ due' = due
      /\ flow' = [flow EXCEPT ![r] = NoFlow] /\ root' = [root EXCEPT ![r] = NoRoot]
      /\ Await(r, Put(R.sid, h), umap, obj[r], obj[r])
  <2>1. [store EXCEPT ![R.sid] = HDel(@, "server")] = Put(R.sid, h)
    BY <1>1 DEF Put
  <2>. QED  BY <2>1 DEF HangUp, Disconnect, Connected
<1>3. Born(R.sid, issued) /\ h \in ConnHashes
  BY <1>1, <1>2, DelIs DEF Fits, Born
<1>4. Put(R.sid, h) \in [Sids -> ConnHashes]
  BY <1>1, <1>3 DEF Put
<1>. HIDE DEF h
<1>5. /\ UNCHANGED <<issued, known, clock, owner>> /\ obj' = [obj EXCEPT ![r] = obj[r]]
      /\ \/ store' = Put(R.sid, h) /\ faults' = faults
         \/ store' \in {store, Put(R.sid, h)} /\ faults' = faults + 1
  BY <1>2 DEF Await
<1>6. obj' = obj /\ faults # faults + 1
  BY <1>1, <1>5
<1>7. flow'[r] = NoFlow /\ root'[r] = NoRoot
  BY <1>1, <1>2
<1>. QED  BY <1>1, <1>2, <1>3, <1>4, <1>5, <1>6, <1>7 DEF h

(* update_shadow: the connection has a root, and it gets the new id. *)
Shadowed(r) ==
  LET o == obj[r]  R == root[r]  S == root'[r]  h == HSet(store[o.sid], "server", R.server) IN
  /\ S.sid = o.sid /\ S.server = R.server /\ S.judged = R.judged /\ S.status = "bound"
  /\ \/ /\ R.status = "unbound" /\ S.stored = (faults' = faults)
        /\ store' \in {store, Put(o.sid, h)} /\ (faults' = faults => store' = Put(o.sid, h))
     \/ R.status = "bound" /\ S.stored = R.stored /\ store' = store /\ faults' = faults

LEMMA UpdateShadowIs ==
  ASSUME TInv, NEW r \in Reqs, UpdateShadow(r)
  PROVE  /\ UNCHANGED <<issued, known, clock, owner>>
         /\ store' \in [Sids -> ConnHashes] /\ faults' \in {faults, faults + 1}
         /\ due' = [due EXCEPT ![r] = FALSE] /\ due[r] /\ PastRenew(obj[r])
         /\ obj' = [obj EXCEPT ![r] = obj'[r]] /\ root' = [root EXCEPT ![r] = root'[r]]
         /\ root'[r] \in Roots
         /\ \/ /\ root[r].status = "closed" /\ root' = root /\ store' = store /\ faults' = faults
               /\ obj'[r] \in ConnObjects /\ Same(obj[r], obj'[r]) /\ obj'[r].pc = "ready"
            \/ root[r].status # "closed" /\ obj' = obj /\ Shadowed(r)
<1>. DEFINE o == obj[r]  R == root[r]  h == HSet(store[o.sid], "server", R.server)
<1>1. /\ Fits(o, due[r], flow[r], R, issued) /\ o \in ConnObjects /\ R \in Roots
      /\ obj \in [Reqs -> ConnObjects] /\ due \in [Reqs -> BOOLEAN] /\ root \in [Reqs -> Roots]
      /\ faults \in Nat /\ store \in [Sids -> ConnHashes]
  BY DEF TInv, Typed, Fits, Fit
<1>2. /\ due[r] /\ due' = [due EXCEPT ![r] = FALSE] /\ PastRenew(o)
  BY <1>1 DEF UpdateShadow, Fits
<1>3. o.pc # "closed" /\ o.sid \in Sids /\ store[o.sid] \in ConnHashes
  BY <1>2, Mine DEF PastRenew
<1>4. /\ h \in ConnHashes /\ Put(o.sid, h) \in [Sids -> ConnHashes]
      /\ [store EXCEPT ![o.sid] = HSet(@, "server", R.server)] = Put(o.sid, h)
  <2>1. R.server \in Servers \cup {Nil}
    BY <1>1 DEF Roots
  <2>2. h \in ConnHashes
    BY <1>3, <2>1, SetIs
  <2>3. [store EXCEPT ![o.sid] = HSet(@, "server", R.server)] = Put(o.sid, h)
    BY <1>1, <1>3 DEF Put
  <2>. HIDE DEF h
  <2>. QED  BY <1>1, <2>2, <2>3 DEF Put
<1>5. CASE R.status = "closed"
  <2>. DEFINE p == Return(o, "err")
  <2>1. /\ obj' = [obj EXCEPT ![r] = p]
        /\ UNCHANGED <<root, store, issued, known, clock, faults, owner>>
    BY <1>5 DEF UpdateShadow
  <2>2. p \in ConnObjects /\ Same(o, p) /\ p.pc = "ready"
    BY <1>1, ReturnIs DEF Rets
  <2>. HIDE DEF p
  <2>3. obj' = [obj EXCEPT ![r] = obj'[r]] /\ obj'[r] = p
    BY <1>1, <2>1
  <2>4. root' = [root EXCEPT ![r] = root'[r]] /\ root'[r] = R
    BY <1>1, <2>1
  <2>. QED  BY <1>1, <1>2, <1>5, <2>1, <2>2, <2>3, <2>4
<1>6. CASE R.status = "unbound"
  <2>. DEFINE S == [R EXCEPT !.status = "bound", !.sid = o.sid, !.stored = (faults' = faults)]
  <2>1. /\ Await(r, Put(o.sid, h), umap, o, o)
        /\ root' = [root EXCEPT ![r].status = "bound", ![r].sid = o.sid,
                                ![r].stored = (faults' = faults)]
    BY <1>4, <1>6 DEF UpdateShadow
  <2>2. /\ S \in Roots /\ S.status = "bound" /\ S.sid = o.sid /\ S.server = R.server
        /\ S.stored = (faults' = faults) /\ S.judged = R.judged
    BY <1>1, <1>3 DEF Roots
  <2>3. root' = [root EXCEPT ![r] = S]
    BY <1>1, <2>1
  <2>. HIDE DEF S, h
  <2>4. root' = [root EXCEPT ![r] = root'[r]] /\ root'[r] = S
    BY <1>1, <2>3
  <2>5. /\ UNCHANGED <<issued, known, clock, owner>> /\ obj' = [obj EXCEPT ![r] = o]
        /\ \/ store' = Put(o.sid, h) /\ faults' = faults
           \/ store' \in {store, Put(o.sid, h)} /\ faults' = faults + 1
    BY <2>1 DEF Await
  <2>6. obj' = obj /\ obj' = [obj EXCEPT ![r] = obj'[r]] /\ faults # faults + 1
    BY <1>1, <2>5
  <2>7. Shadowed(r)
    BY <1>6, <2>2, <2>4, <2>5, <2>6 DEF Shadowed, h
  <2>. QED  BY <1>1, <1>2, <1>4, <1>6, <2>2, <2>4, <2>5, <2>6, <2>7
<1>7. CASE R.status = "bound"
  <2>. DEFINE S == [R EXCEPT !.sid = o.sid]
  <2>1. /\ root' = [root EXCEPT ![r].sid = o.sid]
        /\ UNCHANGED <<store, issued, known, obj, clock, faults, owner>>
    BY <1>7 DEF UpdateShadow, vars
  <2>2. /\ S \in Roots /\ S.status = "bound" /\ S.sid = o.sid /\ S.server = R.server
        /\ S.stored = R.stored /\ S.judged = R.judged
    BY <1>1, <1>3, <1>7 DEF Roots
  <2>3. root' = [root EXCEPT ![r] = S]
    BY <1>1, <2>1
  <2>. HIDE DEF S
  <2>4. /\ root' = [root EXCEPT ![r] = root'[r]] /\ root'[r] = S
        /\ obj' = [obj EXCEPT ![r] = obj'[r]]
    BY <1>1, <2>1, <2>3
  <2>5. Shadowed(r)
    BY <1>7, <2>1, <2>2, <2>4 DEF Shadowed
  <2>. QED  BY <1>1, <1>2, <1>7, <2>1, <2>2, <2>4, <2>5
<1>. QED  BY <1>1, <1>5, <1>6, <1>7 DEF Roots

LEMMA ShadowTypes ==
  ASSUME TInv, NEW r \in Reqs, UpdateShadow(r), UNCHANGED wsVars
  PROVE  TInv'
<1>1. /\ Fits(obj[r], due[r], flow[r], root[r], issued) /\ Typed
      /\ due \in [Reqs -> BOOLEAN] /\ flow \in [Reqs -> ConnFlows]
  BY DEF TInv
<1>2. /\ flow' = [flow EXCEPT ![r] = flow'[r]] /\ flow'[r] = flow[r]
      /\ due' = [due EXCEPT ![r] = due'[r]] /\ due'[r] = FALSE
  BY <1>1, UpdateShadowIs DEF wsVars
<1>3. Typed'
  BY <1>1, UpdateShadowIs DEF Typed
<1>4. Fit(obj'[r], issued) /\ obj'[r].sid = obj[r].sid
  BY <1>1, UpdateShadowIs DEF Fits, Fit, Same, PastRenew
<1>5. root'[r].status # "closed" <=> root[r].status # "closed"
  BY UpdateShadowIs DEF Shadowed
<1>6. root'[r].status # "closed" => Born(root'[r].sid, issued)
  BY <1>1, <1>4, <1>5, UpdateShadowIs DEF Shadowed, Fits, Fit, PastRenew
<1>7. Fits(obj'[r], due'[r], flow'[r], root'[r], issued')
  BY <1>1, <1>2, <1>4, <1>5, <1>6, UpdateShadowIs DEF Fits
<1>. QED  BY <1>1, <1>2, <1>3, <1>7, UpdateShadowIs, StepTypes

LEMMA AcceptTypes ==
  ASSUME TInv, NEW r \in Reqs, NEW a \in Servers, Accept(r, a)
  PROVE  TInv'
<1>1. /\ Fits(obj[r], due[r], flow[r], root[r], issued) /\ Typed
      /\ due \in [Reqs -> BOOLEAN] /\ obj \in [Reqs -> ConnObjects]
  BY DEF TInv
<1>2. /\ obj' = obj /\ due' = due
      /\ obj' = [obj EXCEPT ![r] = obj'[r]] /\ due' = [due EXCEPT ![r] = due'[r]]
  BY <1>1, AcceptIs
<1>3. /\ issued' \in [Sids -> [ttl : Nat, born : Nat] \cup {Nil}]
      /\ \A s \in Sids : issued[s] # Nil => issued'[s] # Nil
  <2>1. CASE issued' = issued
    BY <1>1, <2>1 DEF Typed
  <2>2. ASSUME NEW s \in Sids, NEW t \in Ttls, issued[s] = Nil,
               issued' = [issued EXCEPT ![s] = [ttl |-> t, born |-> clock]]
        PROVE  /\ issued' \in [Sids -> [ttl : Nat, born : Nat] \cup {Nil}]
               /\ \A q \in Sids : issued[q] # Nil => issued'[q] # Nil
    <3>1. [ttl |-> t, born |-> clock] \in [ttl : Nat, born : Nat]
      BY <1>1, Constants DEF Typed
    <3>. QED  BY <1>1, <2>2, <3>1 DEF Typed
  <2>. QED  BY <2>1, <2>2, AcceptIs
<1>4. Typed'
  BY <1>1, <1>3, AcceptIs DEF Typed
<1>5. \A s : Born(s, issued) => Born(s, issued')
  BY <1>3 DEF Born
<1>6. Fits(obj'[r], due'[r], flow'[r], root'[r], issued')
  BY <1>1, <1>2, <1>5, AcceptIs DEF Fits, Fit
<1>. QED  BY <1>2, <1>3, <1>4, <1>6, AcceptIs, StepTypes

LEMMA MessageTypes ==
  ASSUME TInv, NEW r \in Reqs, NEW route \in Routes, Message(r, route)
  PROVE  TInv'
<1>1. /\ Fits(obj[r], due[r], flow[r], root[r], issued) /\ Typed
      /\ due \in [Reqs -> BOOLEAN] /\ root \in [Reqs -> Roots]
  BY DEF TInv
<1>2. /\ due' = due /\ root' = root
      /\ due' = [due EXCEPT ![r] = due'[r]] /\ root' = [root EXCEPT ![r] = root'[r]]
  BY <1>1, MessageIs
<1>3. ~ due[r]
  BY <1>1, MessageIs DEF Fits, PastRenew
<1>4. Fits(obj'[r], due'[r], flow'[r], root'[r], issued)
  BY <1>1, <1>2, <1>3, MessageIs DEF Fits, Fit
<1>5. faults' \in Nat /\ known' \subseteq {s \in Sids : issued[s] # Nil}
  BY <1>1, MessageIs DEF Typed
<1>. QED  BY <1>2, <1>4, <1>5, MessageIs, LocalTypes

LEMMA AnswerTypes ==
  ASSUME TInv, NEW r \in Reqs, Answer(r)
  PROVE  TInv'
<1>1. /\ Fits(obj[r], due[r], flow[r], root[r], issued) /\ Typed
      /\ due \in [Reqs -> BOOLEAN] /\ root \in [Reqs -> Roots]
  BY DEF TInv
<1>2. /\ due' = due /\ root' = root
      /\ due' = [due EXCEPT ![r] = due'[r]] /\ root' = [root EXCEPT ![r] = root'[r]]
  BY <1>1, AnswerIs
<1>3. Fits(obj'[r], due'[r], flow'[r], root'[r], issued)
  BY <1>1, <1>2, AnswerIs, ClosedIs DEF Fits, Fit
<1>4. faults' \in Nat /\ known' \subseteq {s \in Sids : issued[s] # Nil}
  BY <1>1, AnswerIs DEF Typed, Fits, Born
<1>. QED  BY <1>2, <1>3, <1>4, AnswerIs, LocalTypes

LEMMA HangUpTypes ==
  ASSUME TInv, NEW r \in Reqs, HangUp(r)
  PROVE  TInv'
<1>1. /\ Fits(obj[r], due[r], flow[r], root[r], issued) /\ Typed
      /\ due \in [Reqs -> BOOLEAN] /\ obj \in [Reqs -> ConnObjects]
  BY DEF TInv
<1>2. /\ due' = due /\ obj' = obj
      /\ due' = [due EXCEPT ![r] = due'[r]] /\ obj' = [obj EXCEPT ![r] = obj'[r]]
      /\ flow' = [flow EXCEPT ![r] = flow'[r]] /\ root' = [root EXCEPT ![r] = root'[r]]
  BY <1>1, HangUpIs
<1>3. Fits(obj'[r], due'[r], flow'[r], root'[r], issued)
  BY <1>1, <1>2, HangUpIs, NoFlowIs, NoRootIs DEF Fits
<1>4. Typed'
  BY <1>1, HangUpIs DEF Typed
<1>. QED  BY <1>1, <1>2, <1>3, <1>4, HangUpIs, StepTypes

LEMMA TickTypes ==
  ASSUME TInv, Tick, UNCHANGED <<connVars, wsVars>>
  PROVE  TInv'
<1>1. \A s \in Sids : Age(store[s], Missing) \in ConnHashes
  <2>1. \A h \in ConnHashes : Age(h, Missing) \in ConnHashes
    <3>1. TAKE h \in ConnHashes
    <3>2. h.ttl \in Nat
      BY DEF ConnHashes
    <3>. QED  BY <3>2, AgeIs, ConnMissing
  <2>. QED  BY <2>1 DEF TInv, Typed
<1>2. Typed'
  BY <1>1 DEF Tick, TInv, Typed
<1>. QED  BY <1>2 DEF TInv, Tick, connVars, wsVars

LEMMA CrashTypes ==
  ASSUME TInv, Crash, flow' = [r \in Reqs |-> NoFlow]
  PROVE  TInv'
<1>1. Typed' /\ issued' = issued
  BY DEF TInv, Typed, Crash
<1>2. Fits(Closed, FALSE, NoFlow, NoRoot, issued)
  BY ClosedIs, NoFlowIs, NoRootIs DEF Fits, Fit
<1>3. /\ obj' = [r \in Reqs |-> Closed] /\ due' = [r \in Reqs |-> FALSE]
      /\ root' = [r \in Reqs |-> NoRoot]
  BY DEF Crash
<1>. QED  BY <1>1, <1>2, <1>3, ClosedIs, NoFlowIs, NoRootIs DEF TInv

(* A warning only. *)
LEMMA RefuseIs ==
  ASSUME TInv, NEW r \in Reqs, Refuse(r)
  PROVE  UNCHANGED allVars
<1>1. flow \in [Reqs -> ConnFlows] /\ flow[r].stage = "off"
  BY DEF Refuse, TInv
<1>2. [flow[r] EXCEPT !.stage = "off"] = flow[r]
  BY <1>1 DEF ConnFlows
<1>3. flow' = flow
  BY <1>1, <1>2 DEF Refuse, Goto
<1>. QED  BY <1>3 DEF Refuse, Goto, Stay, allVars, wsVars

(* The steps of a handler, by the tables above. *)
Handler(r) ==
  Valid(r) \/ Checked(r) \/ Auth(r) \/ Authed(r) \/ Controller(r) \/ Logged(r)

LEMMA HandlerIs == ASSUME TInv, NEW r \in Reqs, Handler(r)  PROVE Handles(r)
BY ValidIs, CheckedIs, AuthIs, AuthedIs, ControllerIs, LoggedIs DEF Handler

LEMMA TypesStep ==
  ASSUME TInv, [WsNext]_allVars
  PROVE  TInv'
<1>1. CASE UNCHANGED allVars
  BY <1>1 DEF allVars, vars, connVars, wsVars, TInv, Typed
<1>2. CASE Tick /\ UNCHANGED <<connVars, wsVars>>
  BY <1>2, TickTypes
<1>3. CASE Crash /\ flow' = [r \in Reqs |-> NoFlow] /\ UNCHANGED token
  BY <1>3, CrashTypes
<1>4. ASSUME NEW r \in Reqs, NEW a \in Servers, Accept(r, a)  PROVE TInv'
  BY <1>4, AcceptTypes
<1>5. ASSUME NEW r \in Reqs, NEW route \in Routes, Message(r, route)  PROVE TInv'
  BY <1>5, MessageTypes
<1>6. ASSUME NEW r \in Reqs, Refuse(r)  PROVE TInv'
  BY <1>1, <1>6, RefuseIs
<1>7. ASSUME NEW r \in Reqs, Serve(r)  PROVE TInv'
  <2>1. CASE Handler(r)
    BY <2>1, HandlerIs, HandleTypes
  <2>2. CASE Work(r) /\ UNCHANGED wsVars
    BY <2>2, WorkTypes
  <2>3. CASE UpdateShadow(r) /\ UNCHANGED wsVars
    BY <2>3, ShadowTypes
  <2>. QED  BY <1>7, <2>1, <2>2, <2>3 DEF Serve, Handler
<1>8. ASSUME NEW r \in Reqs, Answer(r)  PROVE TInv'
  BY <1>8, AnswerTypes
<1>9. ASSUME NEW r \in Reqs, HangUp(r)  PROVE TInv'
  BY <1>9, HangUpTypes
<1>. QED  BY <1>1, <1>2, <1>3, <1>4, <1>5, <1>6, <1>7, <1>8, <1>9 DEF WsNext

LEMMA StartTypes == WsStart => TInv
<1>. SUFFICES ASSUME WsStart  PROVE TInv
  OBVIOUS
<1>1. Fits(Closed, FALSE, NoFlow, NoRoot, issued)
  BY ClosedIs, NoFlowIs, NoRootIs DEF Fits, Fit
<1>. QED  BY <1>1, ClosedIs, NoFlowIs, NoRootIs DEF WsStart, ConnInit, TInv

(* The initial states of WsApp are among those the theorems start from.    *)
LEMMA InitStarts == WsInit => WsStart
<1>. SUFFICES ASSUME WsInit  PROVE WsStart
  OBVIOUS
<1>1. /\ store = [s \in Sids |-> Missing]
      /\ issued \in [Sids -> [ttl : Ttls, born : {0}] \cup {Nil}]
      /\ \A s \in Sids : issued[s] = Nil <=> s \notin Foreign
      /\ known = Foreign /\ clock = 0 /\ faults = 0 /\ owner = [s \in Sids |-> Nil]
      /\ obj = [r \in Reqs |-> Closed] /\ ConnInit
      /\ flow = [r \in Reqs |-> NoFlow] /\ token = Nil
  BY DEF WsInit, Init
<1>2. Typed
  BY <1>1, Constants, ConstantsOK, ConnMissing DEF Typed
<1>3. \A s \in Sids : issued[s] # Nil => issued[s].ttl \in Ttls
  BY <1>1
<1>4. \A s \in Sids : KeyOK(Missing, s, issued, clock) /\ ~ Loose(Missing)
  BY ConnMissing, Constants DEF KeyOK, Timely, Loose
<1>. QED  BY <1>1, <1>2, <1>3, <1>4 DEF WsStart, KeysOK

(* So what holds of all runs from there holds of the specification. *)
LEMMA SpecRuns == WsSpec => WsRuns
BY InitStarts DEF WsSpec, WsRuns

LEMMA TypesHold == WsRuns => []TInv
<1>1. WsStart => TInv
  BY StartTypes
<1>2. TInv /\ [WsNext]_allVars => TInv'
  BY TypesStep
<1>. QED  BY <1>1, <1>2, PTL DEF WsRuns

(***************************************************************************)
(* Every field of a session in Redis, every root and every step of renew   *)
(* has its type, and a task has a root exactly while its connection is     *)
(* open, for any number of connections (connection.rs, session_ws.rs).     *)
(***************************************************************************)
THEOREM ConnTypes == WsRuns => []ConnTypeOK
<1>1. TInv => ConnTypeOK
  <2>. SUFFICES ASSUME TInv  PROVE ConnTypeOK
    OBVIOUS
  <2>1. \A r \in Reqs : (due[r] => PastRenew(obj[r])) /\ (Connected(r) <=> flow[r].stage # "off")
    BY DEF TInv, Fits, Connected
  <2>. QED  BY <2>1 DEF ConnTypeOK, TInv, Typed, Roots
<1>. QED  BY <1>1, TypesHold, PTL

-----------------------------------------------------------------------------
(* The invariant, one connection after another *)

(* What holds of connection r. *)
Steady(r) == Conn(obj[r], due[r], flow[r], root[r])

(* A command that the connection sends. *)
Step(r) == Turn(r) /\ Worked(r) /\ ~ due[r] /\ flow' = flow

(* The facts about a step that its lemma starts from. *)
LEMMA StepIs ==
  ASSUME WInv, NEW r \in Reqs, Step(r)
  PROVE  LET o == obj[r]  p == obj'[r]  f == flow[r]  R == root[r]  S == root'[r] IN
         /\ Slot(o, FALSE, f, R, store, issued) /\ flow'[r] = f /\ due[r] = FALSE
         /\ Young /\ ~ R.judged => Kept(o, FALSE, R, store, owner)
         /\ Young => Found(o, store)
         /\ faults = 0 => Tidy(o, FALSE, R, store)
         /\ Young' <=> Young
         /\ faults' = 0 => faults = 0 /\ faults' = faults
         /\ due'[r] = (PastRenew(p) /\ ~ PastRenew(o))
         /\ S.status = R.status /\ S.sid = R.sid /\ S.server = R.server /\ S.stored = R.stored
         /\ S.judged = (R.judged \/ (o.op = "condemn" /\ o.pc = "destroydel"))
         /\ R.status # "closed" => Born(R.sid, issued)
         /\ o.pc # "closed" => Born(o.sid, issued)
<1>1. /\ TInv /\ Steady(r) /\ due[r] = FALSE /\ faults \in Nat
      /\ Fits(obj[r], due[r], flow[r], root[r], issued)
  BY DEF WInv, TInv, Typed, Steady, Step
<1>2. faults' = 0 => faults = 0 /\ faults' = faults
  BY <1>1 DEF Step, Turn
<1>3. Young' <=> Young
  BY DEF Young, Step, Turn
<1>. QED  BY <1>1, <1>2, <1>3, WorkedIs DEF Step, Steady, Conn, Fits, Fit

(* A command that writes no session: the new object has to fit what the    *)
(* old one fitted.                                                         *)
LEMMA QuietKeeps ==
  ASSUME WInv, NEW r \in Reqs, Step(r), Reads,
         obj'[r].sid = obj[r].sid,
         obj[r].pc \notin {"touch", "load"}, obj'[r].pc \notin {"touch", "load"},
         Moving(obj'[r], due'[r]) <=> Moving(obj[r], FALSE),
         Young => Found(obj'[r], store),
         faults' = faults /\ PastRenew(obj[r]) =>
           PastRenew(obj'[r]) /\ ~ due'[r] /\ obj'[r].csid = obj[r].csid,
         Slot(obj'[r], due'[r], flow[r], root[r], store, issued)
  PROVE  KeysOK(store, issued, clock)' /\ Steady(r)'
<1>. DEFINE o == obj[r]  p == obj'[r]  f == flow[r]  R == root[r]  S == root'[r]  e == due'[r]
<1>1. /\ store' = store /\ issued' = issued /\ owner' = owner /\ clock' = clock
  BY DEF Reads, Still, Step, Turn
<1>2. KeysOK(store, issued, clock)'
  BY <1>1 DEF WInv
<1>3. Slot(p, e, f, S, store, issued)
  BY StepIs DEF Slot, Anchor
<1>4. ASSUME Young, ~ S.judged
      PROVE  Kept(p, e, S, store, owner)
  <2>1. Kept(o, FALSE, R, store, owner) /\ ~ R.judged
    BY <1>4, StepIs
  <2>2. S.status = R.status /\ S.sid = R.sid /\ S.server = R.server /\ S.stored = R.stored
    BY StepIs
  <2>. HIDE DEF e, R, S, o, p
  <2>. QED  BY <2>1, <2>2 DEF Kept, Serves1, e, R, S, o, p
<1>5. ASSUME faults' = 0
      PROVE  Tidy(p, e, S, store)
  <2>1. Tidy(o, FALSE, R, store) /\ faults' = faults
    BY <1>5, StepIs
  <2>2. S.status = R.status /\ S.sid = R.sid
    BY StepIs
  <2>3. ASSUME NEW s \in Sids, Minded(s, o, FALSE, R, store)
        PROVE  Minded(s, p, e, S, store)
    BY <2>1, <2>2, <2>3 DEF Minded
  <2>. QED  BY <2>1, <2>3 DEF Tidy
<1>. QED  BY <1>1, <1>2, <1>3, <1>4, <1>5, StepIs DEF Steady, Conn

(* The slot of a call that goes on, returns, or fails during a renewal.    *)
LEMMA SlotOn ==
  ASSUME NEW o, NEW p, NEW e, NEW f, NEW R, NEW st, NEW iss,
         Slot(o, FALSE, f, R, st, iss), o.pc \notin {"ready", "closed"},
         p.pc \notin {"closed", "load"}, p.sid = o.sid, p.ttl = o.ttl,
         p.op = o.op \/ (p.op = "condemn" /\ o.op = "tryRenew"),
         Sent(p), p.pc = "raw" => p.csid = p.sid /\ p.op = "tryRenew",
         Twin(p, e) => Born(p.csid, iss) /\ p.csid # p.sid,
         \/ Moving(p, e) /\ Moving(o, FALSE) /\ p.csid = o.csid
         \/ ~ Moving(p, e) /\ ~ Moving(o, FALSE)
         \/ ~ Moving(p, e) /\ p.pc = "ready" /\ p.ret = "err" /\ p.op = o.op
  PROVE  Slot(p, e, f, R, st, iss)
<1>1. Sound(p, e, iss)
  BY DEF Slot, Sound
<1>2. Staged(p, f)
  BY DEF Slot, Staged
<1>3. Anchor(p, e, f, R)
  <2>1. CASE Moving(p, e) /\ Moving(o, FALSE) /\ p.csid = o.csid
    BY <2>1 DEF Slot, Anchor, Moving
  <2>2. CASE ~ Moving(p, e) /\ ~ Moving(o, FALSE)
    BY <2>2 DEF Slot, Anchor, Adrift
  <2>3. CASE ~ Moving(p, e) /\ Moving(o, FALSE) /\ p.pc = "ready" /\ p.ret = "err" /\ p.op = o.op
    <3>1. o.op \in Renewals /\ f.stage \in {"authed", "logged"}
      BY <2>3 DEF Moving, Slot, Staged, Renewals
    <3>. QED  BY <2>3, <3>1 DEF Slot, Anchor, Adrift, Moving
  <2>. QED  BY <2>1, <2>2, <2>3
<1>. QED  BY <1>1, <1>2, <1>3 DEF Slot

LEMMA LoadUserKeeps ==
  ASSUME WInv, NEW r \in Reqs, Step(r), LoadUser(r)
  PROVE  KeysOK(store, issued, clock)' /\ Steady(r)'
<1>. DEFINE o == obj[r]  p == obj'[r]  e == due'[r]
<1>1. /\ Reads /\ o.pc = "user"
      /\ p.op = o.op /\ p.sid = o.sid /\ p.csid = o.csid /\ p.ttl = o.ttl
      /\ p.pc \in PastUser(o.op)
      /\ p.user # Nil => o.user # Nil \/ store[o.sid].user # Nil
  BY LoadUserIs DEF WInv
<1>2. /\ Slot(o, FALSE, flow[r], root[r], store, issued) /\ (Young => Found(o, store))
      /\ e = (PastRenew(p) /\ ~ PastRenew(o))
  BY StepIs
<1>3. o.op \in {"user", "condemn"} \cup Renewals
  BY <1>1, <1>2 DEF Slot, Sound, Sent
<1>. HIDE DEF o, p, e
<1>4. /\ p.pc \notin {"touch", "load", "closed", "user", "raw", "newttl", "oldttl", "csetnew"}
      /\ o.op = "user" => p.pc = "ready"
      /\ o.op = "condemn" => p.pc \in {"srem", "destroydel"}
      /\ o.op \in Renewals => p.pc = "sadd" \/ e
      /\ o.op \in Renewals => p.pc \in {"sadd"} \cup Past(o.op)
  BY <1>1, <1>2, <1>3 DEF PastUser, Past, Renewals, PastRenew
<1>5. Moving(p, e) <=> Moving(o, FALSE)
  BY <1>1, <1>2, <1>3, <1>4 DEF Moving, Filling, Renewals, PastRenew
<1>6. Young => Found(p, store)
  BY <1>1, <1>2, <1>3, <1>4 DEF Found, Renewals, Past
<1>7. Slot(p, e, flow[r], root[r], store, issued)
  <2>1. Twin(p, e) => Moving(o, FALSE)
    BY <1>1, <1>2, <1>3, <1>4, <1>5 DEF Twin, Moving, Filling
  <2>2. Sent(p)
    BY <1>1, <1>2, <1>3, <1>4 DEF Sent, Renewals, Past
  <2>3. Moving(o, FALSE) => Born(o.csid, issued) /\ o.csid # o.sid
    BY <1>2 DEF Slot, Sound, Twin
  <2>. QED  BY <1>1, <1>2, <1>4, <1>5, <2>1, <2>2, <2>3, SlotOn
<1>8. ~ PastRenew(o)
  BY <1>1 DEF PastRenew
<1>. QED  BY <1>1, <1>4, <1>5, <1>6, <1>7, <1>8, QuietKeeps DEF o, p, e

(* mapping goes on to the next command, or past renew.                     *)
LEMMA MappingKeeps ==
  ASSUME WInv, NEW r \in Reqs, Step(r), MappingAdd(r) \/ MappingExpire(r)
  PROVE  KeysOK(store, issued, clock)' /\ Steady(r)'
<1>. DEFINE o == obj[r]  p == obj'[r]  e == due'[r]
<1>1. /\ Reads /\ o.pc \in {"sadd", "mapexpire"} /\ Same(o, p)
      /\ p.pc \in {"mapexpire"} \cup Past(o.op)
  BY MappingAddIs, MappingExpireIs DEF WInv
<1>2. /\ Slot(o, FALSE, flow[r], root[r], store, issued) /\ (Young => Found(o, store))
      /\ e = (PastRenew(p) /\ ~ PastRenew(o))
  BY StepIs
<1>. HIDE DEF o, p, e
<1>3. /\ o.op \in Renewals /\ p.op = o.op /\ p.sid = o.sid /\ p.csid = o.csid
      /\ p.pc \notin {"touch", "load", "closed", "raw", "ready"}
      /\ Moving(o, FALSE) /\ ~ PastRenew(o)
  BY <1>1, <1>2 DEF Slot, Sound, Sent, Same, Past, Moving, Filling, PastRenew
<1>4. Moving(p, e)
  BY <1>1, <1>2, <1>3 DEF Moving, Filling, PastRenew, Past, Renewals
<1>5. Sent(p)
  BY <1>1, <1>3 DEF Sent, Past, Renewals
<1>6. Young => Found(p, store)
  BY <1>1, <1>3 DEF Found, Past, Renewals
<1>7. Slot(p, e, flow[r], root[r], store, issued)
  <2>1. Born(o.csid, issued) /\ o.csid # o.sid
    BY <1>2, <1>3 DEF Slot, Sound, Twin
  <2>. QED  BY <1>1, <1>2, <1>3, <1>4, <1>5, <2>1, SlotOn DEF Same
<1>. QED  BY <1>1, <1>3, <1>4, <1>6, <1>7, QuietKeeps DEF o, p, e, Same

(* unmapping of either session, and the reads of a judgment: the sessions  *)
(* of the object stay.                                                     *)
LEMMA UnmappingKeeps ==
  ASSUME WInv, NEW r \in Reqs, Step(r),
         ClonedUnmapping(r) \/ Unmapping(r) \/ NewTtl(r) \/ OldTtl(r)
  PROVE  KeysOK(store, issued, clock)' /\ Steady(r)'
<1>. DEFINE o == obj[r]  p == obj'[r]  e == due'[r]
<1>1. /\ Reads /\ o.pc \in {"csrem", "srem", "newttl", "oldttl"}
      /\ p.sid = o.sid /\ p.csid = o.csid /\ p.ttl = o.ttl /\ p.user = o.user
      /\ o.pc = "csrem" => p.pc = "cdel" \/ (p.pc = "ready" /\ faults' = faults + 1)
      /\ o.pc = "srem" => p.pc \in {"destroydel", "ready"}
      /\ o.pc = "newttl" => p.pc \in {"oldttl", "cdel"}
      /\ o.pc = "oldttl" => \/ p.op = o.op /\ p.pc = "cdel"
                            \/ p.op = "condemn" /\ p.pc \in {"user", "srem", "destroydel"}
      /\ o.pc # "oldttl" => p.op = o.op
  <2>1. CASE ClonedUnmapping(r)
    BY <2>1, ClonedUnmappingIs DEF WInv, Same
  <2>2. CASE Unmapping(r)
    BY <2>2, UnmappingIs DEF WInv, Same
  <2>3. CASE NewTtl(r)
    BY <2>3, NewTtlIs DEF WInv, Same
  <2>4. CASE OldTtl(r)
    BY <2>4, OldTtlIs DEF WInv
  <2>. QED  BY <2>1, <2>2, <2>3, <2>4
<1>2. /\ Slot(o, FALSE, flow[r], root[r], store, issued) /\ (Young => Found(o, store))
      /\ e = (PastRenew(p) /\ ~ PastRenew(o)) /\ faults \in Nat
  BY StepIs DEF WInv, TInv, Typed
<1>. HIDE DEF o, p, e
<1>3. /\ o.pc = "csrem" => o.op \in {"login", "autoLogin"}
      /\ o.pc = "srem" => o.op = "condemn"
      /\ o.pc \in {"newttl", "oldttl"} => o.op = "tryRenew"
  BY <1>2 DEF Slot, Sound, Sent
<1>4. ~ Moving(o, FALSE) /\ ~ Moving(p, e) /\ ~ e
  BY <1>1, <1>2, <1>3 DEF Moving, Filling, PastRenew, Renewals
<1>5. Sent(p)
  BY <1>1, <1>3 DEF Sent, Renewals
<1>6. Young => Found(p, store)
  BY <1>1, <1>2, <1>3 DEF Found
<1>7. Slot(p, e, flow[r], root[r], store, issued)
  <2>1. Twin(p, e) => Born(o.csid, issued) /\ o.csid # o.sid
    BY <1>1, <1>2, <1>4 DEF Slot, Sound, Twin
  <2>. QED  BY <1>1, <1>2, <1>3, <1>4, <1>5, <2>1, SlotOn
<1>8. faults' = faults /\ PastRenew(o) => PastRenew(p)
  BY <1>1, <1>2, <1>3 DEF PastRenew
<1>. QED  BY <1>1, <1>4, <1>6, <1>7, <1>8, QuietKeeps DEF o, p, e

LEMMA GetNewIdKeeps ==
  ASSUME WInv, NEW r \in Reqs, Step(r), GetNewId(r)
  PROVE  KeysOK(store, issued, clock)' /\ Steady(r)'
<1>. DEFINE o == obj[r]  p == obj'[r]  e == due'[r]
<1>1. /\ Reads /\ o.pc = "newid"
      /\ p.op = o.op /\ p.sid = o.sid /\ p.ttl = o.ttl /\ p.user = o.user
      /\ \/ p.pc = "raw" /\ p.csid = o.sid
         \/ p.pc = "newttl" /\ p.csid = store[o.sid].newid /\ p.csid # Nil
         \/ p.pc = "keep"
         \/ p.pc = "ready" /\ p.ret = "false"
  BY GetNewIdIs DEF WInv
<1>2. /\ Slot(o, FALSE, flow[r], root[r], store, issued) /\ (Young => Found(o, store))
      /\ e = (PastRenew(p) /\ ~ PastRenew(o))
  BY StepIs
<1>3. store[o.sid].newid # Nil => Born(store[o.sid].newid, issued) /\ store[o.sid].newid # o.sid
  BY <1>1, Mine DEF WInv, KeysOK, KeyOK
<1>. HIDE DEF o, p, e
<1>4. o.op = "tryRenew" /\ ~ e /\ ~ PastRenew(o)
  BY <1>1, <1>2 DEF Slot, Sound, Sent, PastRenew
<1>5. ~ Moving(o, FALSE) /\ ~ Moving(p, e)
  BY <1>1, <1>4 DEF Moving, Filling
<1>6. Sent(p) /\ (Young => Found(p, store))
  BY <1>1, <1>2, <1>4 DEF Sent, Renewals, Found
<1>7. Slot(p, e, flow[r], root[r], store, issued)
  <2>1. Twin(p, e) => Born(p.csid, issued) /\ p.csid # p.sid
    BY <1>1, <1>3, <1>4, <1>5 DEF Twin
  <2>. QED  BY <1>1, <1>2, <1>4, <1>5, <1>6, <2>1, SlotOn
<1>. QED  BY <1>1, <1>4, <1>5, <1>6, <1>7, QuietKeeps DEF o, p, e

(* A key after a write. *)
LEMMA WroteIs ==
  ASSUME WInv, NEW k \in Sids, NEW h, Writes(k, h)
  PROVE  /\ store'[k] \in {store[k], h} /\ (faults' = faults => store'[k] = h)
         /\ \A s \in Sids \ {k} : store'[s] = store[s]
BY DEF WInv, TInv, Typed, Writes, Put

(* A write to one session, the old one of the call or the new.  It leaves   *)
(* user and address, or the root does not name that session.               *)
LEMMA WriteKeeps ==
  ASSUME WInv, NEW r \in Reqs, Step(r), NEW k \in Sids, NEW h, Writes(k, h),
         KeyOK(h, k, issued, clock), faults' = 0 => ~ Loose(h),
         obj'[r].sid = obj[r].sid,
         obj[r].pc \notin {"load", "ready", "closed"}, obj'[r].pc \notin {"touch", "load"},
         Moving(obj'[r], due'[r]) => Moving(obj[r], FALSE),
         \/ h.user = store[k].user /\ h.server = store[k].server
         \/ k # obj[r].sid /\ ~ Moving(obj[r], FALSE)
         \/ root'[r].judged,
         Young => Found(obj'[r], store'),
         PastRenew(obj[r]) => k = obj[r].csid,
         obj[r].pc = "touch" => k = obj[r].sid,
         Slot(obj'[r], due'[r], flow[r], root[r], store, issued)
  PROVE  KeysOK(store, issued, clock)' /\ Steady(r)'
<1>. DEFINE o == obj[r]  p == obj'[r]  f == flow[r]  R == root[r]  S == root'[r]  e == due'[r]
<1>1. issued' = issued /\ owner' = owner /\ clock' = clock
  BY DEF Writes, Still, Step, Turn
<1>2. /\ store'[k] \in {store[k], h} /\ (faults' = faults => store'[k] = h)
      /\ \A s \in Sids \ {k} : store'[s] = store[s]
  BY WroteIs
<1>3. KeysOK(store', issued, clock)
  BY <1>2 DEF WInv, KeysOK
<1>4. Slot(p, e, f, S, store', issued)
  BY StepIs DEF Slot, Anchor
<1>5. /\ S.status = R.status /\ S.sid = R.sid /\ S.server = R.server /\ S.stored = R.stored
      /\ R.status # "closed" => R.sid \in Sids
  BY StepIs DEF Born
<1>6. ASSUME Young, ~ S.judged
      PROVE  Kept(p, e, S, store', owner)
  <2>1. Kept(o, FALSE, R, store, owner)
    BY <1>6, StepIs
  <2>2. ASSUME R.status = "bound"
        PROVE  Serves1(store'[R.sid], owner[R.sid], R)
    <3>1. Serves1(store[R.sid], owner[R.sid], R)
      BY <2>1, <2>2 DEF Kept
    <3>2. CASE R.sid # k
      BY <1>2, <1>5, <2>2, <3>1, <3>2
    <3>3. CASE R.sid = k
      <4>1. ~ Moving(o, FALSE) => R.sid = o.sid
        BY <2>2, StepIs DEF Slot, Anchor, Adrift
      <4>2. h.user = store[k].user /\ h.server = store[k].server
        BY <1>6, <3>3, <4>1
      <4>. QED  BY <1>2, <3>1, <3>3, <4>2 DEF Serves1
    <3>. QED  BY <3>2, <3>3
  <2>3. ASSUME Moving(p, e)
        PROVE  Serves1(store'[p.sid], owner[p.sid], R)
    <3>1. Serves1(store[o.sid], owner[o.sid], R)
      BY <2>1, <2>3 DEF Kept
    <3>2. o.sid \in Sids
      BY StepIs DEF Born
    <3>3. CASE o.sid # k
      BY <1>2, <3>1, <3>2, <3>3
    <3>4. CASE o.sid = k
      <4>1. h.user = store[k].user /\ h.server = store[k].server
        BY <1>6, <2>3, <3>4
      <4>. QED  BY <1>2, <3>1, <3>4, <4>1 DEF Serves1
    <3>. QED  BY <3>3, <3>4
  <2>. QED  BY <1>5, <2>2, <2>3 DEF Kept, Serves1
<1>7. ASSUME faults' = 0
      PROVE  Tidy(p, e, S, store')
  <2>1. Tidy(o, FALSE, R, store) /\ store'[k] = h
    BY <1>2, <1>7, StepIs
  <2>2. ASSUME NEW s \in Sids, Loose(store'[s])
        PROVE  Minded(s, p, e, S, store')
    <3>1. s # k /\ store'[s] = store[s]
      BY <1>2, <1>7, <2>1, <2>2
    <3>2. Minded(s, o, FALSE, R, store)
      BY <2>1, <2>2, <3>1 DEF Tidy
    <3>. QED  BY <1>5, <3>1, <3>2 DEF Minded
  <2>. QED  BY <2>2 DEF Tidy
<1>. QED  BY <1>1, <1>3, <1>4, <1>6, <1>7, StepIs DEF Steady, Conn

(* A key that a write leaves no older than a session is given.             *)
LEMMA ExpiredOK ==
  ASSUME WInv, NEW s \in Sids, issued[s] # Nil, NEW t \in Ttls
  PROVE  LET h == Expire(store[s], t) IN
         /\ KeyOK(h, s, issued, clock) /\ ~ Loose(h) /\ Alike(h, store[s])
<1>. DEFINE h == Expire(store[s], t)
<1>1. /\ store[s] \in ConnHashes /\ KeyOK(store[s], s, issued, clock) /\ t \in Nat /\ t > 0
      /\ clock \in Nat
  BY Constants, ConstantsOK DEF WInv, TInv, Typed, KeysOK
<1>2. /\ h \in ConnHashes /\ Alike(h, store[s])
      /\ h.ttl = IF Exists(store[s]) THEN t ELSE store[s].ttl
  BY <1>1, ExpireIs
<1>. HIDE DEF h
<1>3. Timely(h, clock)
  <2>1. CASE h.ttl = t
    <3>1. clock + t >= t
      BY <1>1
    <3>. QED  BY <2>1, <3>1 DEF Timely
  <2>2. CASE h.ttl = store[s].ttl
    BY <1>1, <2>2 DEF KeyOK, Timely
  <2>. QED  BY <1>2, <2>1, <2>2
<1>4. ~ Loose(h)
  BY <1>1, <1>2, Holds DEF Loose, Alike
<1>. QED  BY <1>1, <1>2, <1>3, <1>4 DEF KeyOK, Alike, h

LEMMA GoneOK ==
  ASSUME NEW s \in Sids, NEW iss, NEW now
  PROVE  KeyOK(Missing, s, iss, now) /\ ~ Loose(Missing)
BY ConnMissing, Constants DEF KeyOK, Timely, Loose

LEMMA TouchKeeps ==
  ASSUME WInv, NEW r \in Reqs, Step(r), Touch(r)
  PROVE  KeysOK(store, issued, clock)' /\ Steady(r)'
<1>. DEFINE o == obj[r]  p == obj'[r]  e == due'[r]  h == Expire(store[o.sid], o.ttl)
<1>1. /\ Writes(o.sid, h) /\ o.pc = "touch" /\ Same(o, p)
      /\ o.op \in Renewals => p.pc = "user" \/ (p.pc = "ready" /\ p.ret = "err")
  BY TouchIs DEF WInv
<1>2. /\ Slot(o, FALSE, flow[r], root[r], store, issued)
      /\ e = (PastRenew(p) /\ ~ PastRenew(o)) /\ Born(o.sid, issued)
  BY <1>1, StepIs
<1>3. o.op \in Renewals /\ o.ttl \in Ttls /\ o.sid \in Sids
  BY <1>1, <1>2 DEF Slot, Sound, Sent, Born
<1>4. KeyOK(h, o.sid, issued, clock) /\ ~ Loose(h) /\ Alike(h, store[o.sid])
  BY <1>2, <1>3, ExpiredOK DEF Born
<1>. HIDE DEF o, p, e, h
<1>5. /\ p.op = o.op /\ p.sid = o.sid /\ p.csid = o.csid /\ p.ttl = o.ttl
      /\ p.pc = "user" \/ (p.pc = "ready" /\ p.ret = "err")
      /\ ~ e /\ ~ PastRenew(o)
      /\ Moving(o, FALSE) /\ (Moving(p, e) <=> p.pc = "user")
  BY <1>1, <1>2, <1>3 DEF Same, PastRenew, Moving, Filling
<1>6. Sent(p) /\ Found(p, store')
  BY <1>1, <1>3, <1>5 DEF Sent, Found, Renewals
<1>7. Slot(p, e, flow[r], root[r], store, issued)
  <2>1. Born(o.csid, issued) /\ o.csid # o.sid
    BY <1>2, <1>5 DEF Slot, Sound, Twin
  <2>2. p.pc \notin {"closed", "load", "raw"} /\ o.pc \notin {"ready", "closed"}
    BY <1>1, <1>5
  <2>. QED  BY <1>2, <1>5, <1>6, <2>1, <2>2, SlotOn
<1>. QED  BY <1>1, <1>3, <1>4, <1>5, <1>6, <1>7, WriteKeeps DEF o, p, e, Alike

LEMMA KeepTouchKeeps ==
  ASSUME WInv, NEW r \in Reqs, Step(r), KeepTouch(r)
  PROVE  KeysOK(store, issued, clock)' /\ Steady(r)'
<1>. DEFINE o == obj[r]  p == obj'[r]  e == due'[r]  h == Expire(store[o.sid], o.ttl)
<1>1. Writes(o.sid, h) /\ o.pc = "keep" /\ Same(o, p) /\ p.pc = "ready"
  BY KeepTouchIs DEF WInv
<1>2. /\ Slot(o, FALSE, flow[r], root[r], store, issued)
      /\ e = (PastRenew(p) /\ ~ PastRenew(o)) /\ Born(o.sid, issued)
  BY <1>1, StepIs
<1>3. o.op = "tryRenew" /\ o.ttl \in Ttls /\ o.sid \in Sids
  BY <1>1, <1>2 DEF Slot, Sound, Sent, Born
<1>4. KeyOK(h, o.sid, issued, clock) /\ ~ Loose(h) /\ Alike(h, store[o.sid])
  BY <1>2, <1>3, ExpiredOK DEF Born
<1>. HIDE DEF o, p, e, h
<1>5. /\ p.op = o.op /\ p.sid = o.sid /\ p.ttl = o.ttl
      /\ ~ e /\ ~ PastRenew(o) /\ ~ Moving(o, FALSE) /\ ~ Moving(p, e) /\ ~ Twin(p, e)
  BY <1>1, <1>2, <1>3 DEF Same, PastRenew, Moving, Filling, Twin
<1>6. Sent(p) /\ Found(p, store')
  BY <1>1, <1>3, <1>5 DEF Sent, Found
<1>7. Slot(p, e, flow[r], root[r], store, issued)
  BY <1>1, <1>2, <1>5, <1>6, SlotOn
<1>. QED  BY <1>1, <1>3, <1>4, <1>5, <1>6, <1>7, WriteKeeps DEF o, p, e, Alike

(* DEL and EXPIRE of the other session: of the old one by log_in and       *)
(* do_clone, of the newer one by a judgment.                               *)
LEMMA CloneKeeps ==
  ASSUME WInv, NEW r \in Reqs, Step(r), ClonedDestroy(r) \/ DropNewer(r) \/ CloneTouch(r)
  PROVE  KeysOK(store, issued, clock)' /\ Steady(r)'
<1>. DEFINE o == obj[r]  p == obj'[r]  e == due'[r]
<1>1. /\ o.pc \in {"cdel", "ctouch"}
      /\ Writes(o.csid, IF o.pc = "cdel" THEN Missing ELSE Expire(store[o.csid], o.ttl))
      /\ p.op = o.op /\ p.sid = o.sid /\ p.ttl = o.ttl /\ p.user = o.user
      /\ \/ p.pc = "ready"
         \/ p.pc = "csetnew" /\ o.pc = "ctouch" /\ p.csid = o.csid
         \/ p.pc = "raw" /\ p.csid = o.sid /\ o.pc = "cdel" /\ o.op = "tryRenew"
  <2>1. CASE ClonedDestroy(r)
    BY <2>1, ClonedDestroyIs DEF WInv, Same
  <2>2. CASE DropNewer(r)
    BY <2>2, DropNewerIs DEF WInv, Same
  <2>3. CASE CloneTouch(r)
    BY <2>3, CloneTouchIs DEF WInv, Same
  <2>. QED  BY <2>1, <2>2, <2>3
<1>. DEFINE h == IF o.pc = "cdel" THEN Missing ELSE Expire(store[o.csid], o.ttl)
<1>2. /\ Slot(o, FALSE, flow[r], root[r], store, issued) /\ (Young => Found(o, store))
      /\ e = (PastRenew(p) /\ ~ PastRenew(o)) /\ Born(o.sid, issued)
  BY <1>1, StepIs
<1>3. /\ Born(o.csid, issued) /\ o.csid # o.sid /\ o.ttl \in Ttls /\ o.op \in Renewals
      /\ o.pc = "ctouch" => o.op = "tryRenew"
  BY <1>1, <1>2 DEF Slot, Sound, Sent, Twin, Renewals
<1>4. KeyOK(h, o.csid, issued, clock) /\ ~ Loose(h) /\ o.csid \in Sids
  BY <1>3, ExpiredOK, GoneOK DEF Born
<1>5. Writes(o.csid, h)
  BY <1>1
<1>6. \A s \in Sids \ {o.csid} : store'[s] = store[s]
  BY <1>4, <1>5, WroteIs
<1>. HIDE DEF o, p, e, h
<1>7. ~ e /\ ~ Moving(o, FALSE) /\ ~ Moving(p, e)
  BY <1>1, <1>2, <1>3 DEF PastRenew, Moving, Filling
<1>8. Sent(p)
  BY <1>1, <1>3 DEF Sent, Renewals
<1>9. Young => Found(p, store')
  <2>1. store'[o.sid] = store[o.sid]
    BY <1>2, <1>3, <1>6 DEF Born
  <2>. QED  BY <1>1, <1>2, <1>3, <2>1 DEF Found
<1>10. Slot(p, e, flow[r], root[r], store, issued)
  <2>1. Twin(p, e) => p.csid = o.csid
    BY <1>1, <1>7 DEF Twin
  <2>2. p.pc = "raw" => p.csid = p.sid /\ p.op = "tryRenew"
    BY <1>1
  <2>. QED  BY <1>1, <1>2, <1>3, <1>7, <1>8, <2>1, <2>2, SlotOn
<1>. QED  BY <1>1, <1>3, <1>4, <1>5, <1>7, <1>9, <1>10, WriteKeeps DEF o, p, e
LEMMA CloneSetNewIdKeeps ==
  ASSUME WInv, NEW r \in Reqs, Step(r), CloneSetNewId(r)
  PROVE  KeysOK(store, issued, clock)' /\ Steady(r)'
<1>. DEFINE o == obj[r]  p == obj'[r]  e == due'[r]
            h == HSet(store[o.csid], "newid", o.sid)  k == o.csid
<1>1. Writes(k, h) /\ o.pc = "csetnew" /\ Same(o, p) /\ p.pc = "ready"
  BY CloneSetNewIdIs DEF WInv
<1>2. /\ Slot(o, FALSE, flow[r], root[r], store, issued)
      /\ e = (PastRenew(p) /\ ~ PastRenew(o)) /\ Born(o.sid, issued)
      /\ faults' = 0 => Tidy(o, FALSE, root[r], store)
  BY <1>1, StepIs
<1>3. Born(k, issued) /\ k # o.sid /\ k \in Sids /\ o.op = "tryRenew" /\ o.sid \in Sids
  BY <1>1, <1>2 DEF Slot, Sound, Sent, Twin, Born
<1>4. /\ h.newid = o.sid /\ h.ttl = store[k].ttl
      /\ h.user = store[k].user /\ h.data = store[k].data /\ h.server = store[k].server
  BY <1>3, Mine, SetIs DEF WInv
<1>5. KeyOK(h, k, issued, clock)
  <2>1. KeyOK(store[k], k, issued, clock)
    BY <1>3 DEF WInv, KeysOK
  <2>. QED  BY <1>2, <1>3, <1>4, <2>1 DEF KeyOK, Timely, Born
<1>. HIDE DEF o, p, e, h, k
<1>6. /\ p.op = o.op /\ p.sid = o.sid /\ p.ttl = o.ttl
      /\ ~ e /\ ~ PastRenew(o) /\ ~ Moving(o, FALSE) /\ ~ Moving(p, e) /\ ~ Twin(p, e)
  BY <1>1, <1>2, <1>3 DEF Same, PastRenew, Moving, Filling, Twin
<1>7. Sent(p) /\ Found(p, store')
  BY <1>1, <1>3, <1>6 DEF Sent, Found
<1>8. Slot(p, e, flow[r], root[r], store, issued)
  BY <1>1, <1>2, <1>6, <1>7, SlotOn
<1>9. faults' = 0 => ~ Loose(h)
  <2>. SUFFICES ASSUME faults' = 0, Loose(h)  PROVE FALSE
    OBVIOUS
  <2>1. Loose(store[k])
    BY <1>4 DEF Loose
  <2>2. ~ Minded(k, o, FALSE, root[r], store)
    BY <1>1, <1>2, <1>3, <1>6 DEF Minded, Slot, Anchor, Adrift, k
  <2>. QED  BY <1>2, <1>3, <2>1, <2>2 DEF Tidy
<1>. QED  BY <1>1, <1>3, <1>4, <1>5, <1>6, <1>7, <1>8, <1>9, WriteKeeps DEF o, p, e

LEMMA CondemnedDelKeeps ==
  ASSUME WInv, NEW r \in Reqs, Step(r), CondemnedDel(r)
  PROVE  KeysOK(store, issued, clock)' /\ Steady(r)'
<1>. DEFINE o == obj[r]  p == obj'[r]  e == due'[r]
<1>1. Writes(o.sid, Missing) /\ o.pc = "destroydel" /\ o.op = "condemn" /\ Same(o, p) /\ p.pc = "ready"
  BY CondemnedDelIs DEF WInv
<1>2. /\ Slot(o, FALSE, flow[r], root[r], store, issued) /\ root'[r].judged = TRUE
      /\ e = (PastRenew(p) /\ ~ PastRenew(o)) /\ Born(o.sid, issued) /\ o.sid \in Sids
  BY <1>1, StepIs DEF Born
<1>3. KeyOK(Missing, o.sid, issued, clock) /\ ~ Loose(Missing)
  BY <1>2, GoneOK
<1>. HIDE DEF o, p, e
<1>4. /\ p.op = o.op /\ p.sid = o.sid /\ p.ttl = o.ttl
      /\ ~ e /\ ~ PastRenew(o) /\ ~ Moving(o, FALSE) /\ ~ Moving(p, e) /\ ~ Twin(p, e)
  BY <1>1, <1>2 DEF Same, PastRenew, Moving, Filling, Twin, Renewals
<1>5. Sent(p) /\ Found(p, store')
  BY <1>1, <1>4 DEF Sent, Found
<1>6. Slot(p, e, flow[r], root[r], store, issued)
  BY <1>1, <1>2, <1>4, <1>5, SlotOn
<1>. QED  BY <1>1, <1>2, <1>3, <1>4, <1>5, <1>6, WriteKeeps DEF o, p, e

(* load: the new session is filled, and will be given a TTL next.          *)
LEMMA LoadKeeps ==
  ASSUME WInv, NEW r \in Reqs, Step(r), Load(r)
  PROVE  KeysOK(store, issued, clock)' /\ Steady(r)'
<1>. DEFINE o == obj[r]  p == obj'[r]  e == due'[r]  R == root[r]  S == root'[r]  k == o.sid
            h == HMSet(store[k], o.raw)
<1>1. /\ Writes(k, h) /\ o.pc = "load" /\ Same(o, p)
      /\ o.touches = "none" =>
           \/ p.pc = "touch" /\ faults' = faults
           \/ p.pc = "ready" /\ p.ret = "err" /\ faults' = faults + 1
  BY LoadIs DEF WInv
<1>2. /\ Slot(o, FALSE, flow[r], R, store, issued)
      /\ e = (PastRenew(p) /\ ~ PastRenew(o)) /\ Born(k, issued)
      /\ S.status = R.status /\ S.sid = R.sid /\ S.server = R.server /\ S.stored = R.stored
      /\ S.judged = (R.judged \/ (o.op = "condemn" /\ o.pc = "destroydel"))
      /\ Young /\ ~ R.judged => Kept(o, FALSE, R, store, owner)
      /\ faults' = 0 => Tidy(o, FALSE, R, store) /\ faults' = faults
      /\ R.status # "closed" => R.sid \in Sids
  BY <1>1, StepIs DEF Born
<1>3. /\ o.op \in Renewals /\ o.touches = "none" /\ k \in Sids /\ store[k] = Missing
      /\ o.raw.newid # k /\ (o.raw.newid # Nil => Born(o.raw.newid, issued))
      /\ Born(o.csid, issued) /\ o.csid # k /\ Moving(o, FALSE)
  BY <1>1, <1>2 DEF Slot, Sound, Sent, Twin, Moving, Filling, Born
<1>4. Alike(h, o.raw) /\ h.ttl = 0
  <2>1. o.raw \in ConnHashes
    BY Mine DEF WInv, ConnObjects
  <2>. QED  BY <1>3, <2>1, HMSetIs, ConnMissing
<1>5. issued' = issued /\ owner' = owner /\ clock' = clock
  BY <1>1 DEF Writes, Still, Step, Turn
<1>6. /\ store'[k] \in {store[k], h} /\ (faults' = faults => store'[k] = h)
      /\ \A s \in Sids \ {k} : store'[s] = store[s]
  BY <1>1, <1>3, WroteIs
<1>7. KeyOK(h, k, issued, clock)
  BY <1>2, <1>3, <1>4 DEF KeyOK, Timely, Alike, Born
<1>8. KeysOK(store', issued, clock)
  BY <1>6, <1>7 DEF WInv, KeysOK
<1>. HIDE DEF o, p, e, h, k
<1>9. /\ p.op = o.op /\ p.sid = o.sid /\ p.csid = o.csid /\ p.ttl = o.ttl
      /\ p.pc = "touch" \/ (p.pc = "ready" /\ p.ret = "err")
      /\ ~ e
      /\ Moving(p, e) <=> p.pc = "touch"
      /\ p.pc = "touch" <=> faults' = faults
  <2>1. faults \in Nat
    BY DEF WInv, TInv, Typed
  <2>2. /\ p.pc = "touch" \/ (p.pc = "ready" /\ p.ret = "err")
        /\ p.pc = "touch" <=> faults' = faults
    BY <1>1, <1>3, <2>1
  <2>3. ~ PastRenew(p)
    BY <2>2 DEF PastRenew
  <2>. QED  BY <1>1, <1>2, <1>3, <2>2, <2>3 DEF Same, Moving, Filling
<1>10. Sent(p) /\ Found(p, store')
  BY <1>3, <1>9 DEF Sent, Found, Renewals
<1>11. Slot(p, e, flow[r], R, store, issued)
  <2>1. p.pc \notin {"closed", "load", "raw"} /\ o.pc \notin {"ready", "closed"}
    BY <1>1, <1>9
  <2>. QED  BY <1>2, <1>3, <1>9, <1>10, <2>1, SlotOn DEF k
<1>12. Slot(p, e, flow[r], S, store', issued)
  BY <1>2, <1>9, <1>11 DEF Slot, Anchor
<1>13. ASSUME Young, ~ S.judged
       PROVE  Kept(p, e, S, store', owner)
  <2>1. Kept(o, FALSE, R, store, owner)
    BY <1>2, <1>13
  <2>2. R.status = "bound" => R.sid = o.csid /\ store'[R.sid] = store[R.sid]
    BY <1>1, <1>2, <1>3, <1>6 DEF Slot, Anchor
  <2>3. p.pc = "touch" => Serves1(store'[p.sid], owner[p.sid], R)
    <3>1. Serves1(o.raw, owner[o.sid], R)
      BY <1>1, <2>1 DEF Kept
    <3>2. p.pc = "touch" => store'[k] = h /\ p.sid = k /\ o.sid = k
      BY <1>6, <1>9 DEF k
    <3>. QED  BY <1>4, <3>1, <3>2 DEF Serves1, Alike
  <2>. QED  BY <1>2, <1>9, <2>1, <2>2, <2>3 DEF Kept, Serves1
<1>14. ASSUME faults' = 0
       PROVE  Tidy(p, e, S, store')
  <2>1. Tidy(o, FALSE, R, store) /\ p.pc = "touch"
    BY <1>2, <1>9, <1>14
  <2>2. ASSUME NEW s \in Sids, Loose(store'[s]), s # k
        PROVE  Minded(s, p, e, S, store')
    <3>1. store'[s] = store[s] /\ Minded(s, o, FALSE, R, store)
      BY <1>6, <2>1, <2>2 DEF Tidy
    <3>. QED  BY <1>1, <1>2, <3>1 DEF Minded, PastRenew
  <2>3. Minded(k, p, e, S, store')
    BY <1>9, <2>1 DEF Minded, k
  <2>. QED  BY <2>2, <2>3 DEF Tidy
<1>15. flow'[r] = flow[r] /\ (Young' <=> Young)
  BY StepIs
<1>. QED  BY <1>5, <1>8, <1>10, <1>12, <1>13, <1>14, <1>15 DEF Steady, Conn, p, e, S

(* renew fails: the old session stays the session of the object.           *)
LEMMA RawFails ==
  ASSUME WInv, NEW r \in Reqs, Step(r), Reads, obj[r].pc = "raw",
         Same(obj[r], obj'[r]), obj'[r].pc = "ready", obj'[r].ret = "err"
  PROVE  KeysOK(store, issued, clock)' /\ Steady(r)'
<1>. DEFINE o == obj[r]  p == obj'[r]  e == due'[r]
<1>1. /\ Slot(o, FALSE, flow[r], root[r], store, issued)
      /\ e = (PastRenew(p) /\ ~ PastRenew(o))
  BY StepIs
<1>2. o.pc = "raw" /\ Same(o, p) /\ p.pc = "ready" /\ p.ret = "err"
  OBVIOUS
<1>. HIDE DEF o, p, e
<1>3. /\ p.op = o.op /\ p.sid = o.sid /\ p.csid = o.csid /\ p.ttl = o.ttl /\ o.op \in Renewals
      /\ ~ e /\ ~ PastRenew(o) /\ ~ Moving(o, FALSE) /\ ~ Moving(p, e) /\ ~ Twin(p, e)
  BY <1>1, <1>2 DEF Same, PastRenew, Moving, Filling, Twin, Slot, Sound, Sent
<1>4. Sent(p) /\ Found(p, store)
  BY <1>2, <1>3 DEF Sent, Found, Renewals
<1>5. Slot(p, e, flow[r], root[r], store, issued)
  BY <1>1, <1>2, <1>3, <1>4, SlotOn
<1>. QED  BY <1>2, <1>3, <1>4, <1>5, QuietKeeps DEF o, p, e

LEMMA RawKeeps ==
  ASSUME WInv, NEW r \in Reqs, Step(r), Raw(r)
  PROVE  KeysOK(store, issued, clock)' /\ Steady(r)'
<1>. DEFINE o == obj[r]  p == obj'[r]  e == due'[r]  f == flow[r]  R == root[r]  S == root'[r]
            h == store[o.sid]  raw == Filtered(o, h)
<1>1. /\ store' = store /\ o.pc = "raw"
      /\ \/ \E n : Takes(r, n)
         \/ Still /\ Same(o, p) /\ p.pc = "ready" /\ p.ret = "err"
  BY RawIs DEF WInv
<1>2. CASE Still /\ Same(o, p) /\ p.pc = "ready" /\ p.ret = "err"
  BY <1>1, <1>2, RawFails DEF Reads
<1>3. ASSUME NEW n, Takes(r, n)
      PROVE  KeysOK(store, issued, clock)' /\ Steady(r)'
  <2>1. /\ Slot(o, FALSE, f, R, store, issued)
        /\ e = (PastRenew(p) /\ ~ PastRenew(o)) /\ Born(o.sid, issued)
        /\ S.status = R.status /\ S.sid = R.sid /\ S.server = R.server /\ S.stored = R.stored
        /\ S.judged = (R.judged \/ (o.op = "condemn" /\ o.pc = "destroydel"))
        /\ Young /\ ~ R.judged => Kept(o, FALSE, R, store, owner)
        /\ Young => Found(o, store)
        /\ faults' = 0 => Tidy(o, FALSE, R, store)
        /\ R.status # "closed" => Born(R.sid, issued)
        /\ (Young' <=> Young) /\ flow'[r] = f
    BY <1>1, StepIs
  <2>2. /\ n \in Sids /\ issued[n] = Nil
        /\ issued' = [issued EXCEPT ![n] = [ttl |-> o.ttl, born |-> clock]]
        /\ owner' = [owner EXCEPT ![n] = UidOf(IF raw.user = Nil THEN o.user ELSE raw.user)]
        /\ p.op = o.op /\ p.sid = n /\ p.csid = o.csid /\ p.ttl = o.ttl
        /\ p.user = o.user /\ p.touches = "none"
        /\ IF Exists(raw) THEN p.pc = "load" /\ p.raw \in ConnHashes /\ Alike(p.raw, raw)
                          ELSE p.pc = "user"
    BY <1>3 DEF Takes
  <2>3. /\ o \in ConnObjects /\ o.sid \in Sids /\ h \in ConnHashes
        /\ KeyOK(h, o.sid, issued, clock) /\ store[n] = Missing /\ KeysOK(store, issued, clock)
        /\ issued \in [Sids -> [ttl : Nat, born : Nat] \cup {Nil}] /\ clock' = clock
        /\ DOMAIN owner = Sids
    BY <1>1, <2>2, Mine DEF WInv, TInv, Typed, KeysOK, KeyOK, Step, Turn
  <2>4. /\ raw.server = h.server /\ raw.newid \in {Nil, h.newid}
        /\ raw.user = IF o.op # "tryRenew" /\ o.user # Nil THEN o.user ELSE h.user
    BY <2>3, FilteredIs
  <2>5. /\ o.op \in Renewals /\ o.ttl \in Ttls /\ o.csid = o.sid /\ o.sid # n
        /\ ~ PastRenew(o) /\ ~ Moving(o, FALSE)
    BY <1>1, <2>1, <2>2 DEF Slot, Sound, Sent, PastRenew, Moving, Filling, Born
  <2>. DEFINE g == [ttl |-> o.ttl, born |-> clock]
  <2>6. /\ issued'[n] = g /\ g # Nil /\ g.ttl = o.ttl
        /\ \A s \in Sids \ {n} : issued'[s] = issued[s]
        /\ owner'[n] = UidOf(IF raw.user = Nil THEN o.user ELSE raw.user)
        /\ \A s \in Sids \ {n} : owner'[s] = owner[s]
    <3>1. g \in [ttl : Nat, born : Nat] /\ g.ttl = o.ttl
      BY <2>3, <2>5, Constants DEF WInv, TInv, Typed
    <3>. HIDE DEF g
    <3>2. issued' = [issued EXCEPT ![n] = g]
      BY <2>2 DEF g
    <3>. QED  BY <2>2, <2>3, <3>1, <3>2, Constants
  <2>. HIDE DEF g, o, p, e, f, R, S, h, raw
  <2>7. \A s : Born(s, issued) => Born(s, issued') /\ s # n
    BY <2>2, <2>6 DEF Born
  <2>8. KeysOK(store, issued', clock)
    <3>. SUFFICES ASSUME NEW s \in Sids
                  PROVE  KeyOK(store[s], s, issued', clock) /\ (issued'[s] # Nil => issued'[s].ttl \in Ttls)
      BY DEF KeysOK
    <3>1. KeyOK(store[s], s, issued, clock) /\ (issued[s] # Nil => issued[s].ttl \in Ttls)
      BY <2>3 DEF KeysOK
    <3>. QED  BY <2>2, <2>5, <2>6, <2>7, <3>1 DEF KeyOK
  <2>9. ~ e /\ Moving(p, e) /\ p.pc \in {"load", "user"}
    BY <2>1, <2>2, <2>5 DEF PastRenew, Moving, Filling
  <2>10. Slot(p, e, f, S, store, issued')
    <3>1. Sent(p)
      BY <2>2, <2>5, <2>9 DEF Sent, Renewals
    <3>2. p.pc = "load" => p.raw.newid # n /\ (p.raw.newid # Nil => Born(p.raw.newid, issued'))
      BY <2>2, <2>3, <2>4, <2>7, Constants DEF KeyOK, Alike
    <3>3. Sound(p, e, issued')
      BY <2>1, <2>2, <2>5, <2>7, <2>9, <3>1, <3>2 DEF Sound
    <3>4. Staged(p, f)
      BY <1>1, <2>1, <2>2, <2>9 DEF Slot, Staged, o
    <3>5. Anchor(p, e, f, S)
      BY <1>1, <2>1, <2>2, <2>5, <2>9 DEF Slot, Anchor, Adrift, o
    <3>. QED  BY <2>1, <2>2, <2>3, <3>3, <3>4, <3>5 DEF Slot
  <2>11. ASSUME Young, ~ S.judged
         PROVE  Kept(p, e, S, store, owner')
    <3>1. Kept(o, FALSE, R, store, owner) /\ Found(o, store)
      BY <2>1, <2>11
    <3>2. R.status = "bound" => R.sid = o.sid /\ owner'[R.sid] = owner[R.sid] /\ Serves1(h, owner[R.sid], R)
      BY <1>1, <2>1, <2>3, <2>5, <2>6, <3>1 DEF Slot, Anchor, Adrift, Kept, o, h
    <3>3. owner'[n] # Nil => raw.user # Nil
      <4>1. o.user # Nil /\ raw.user = Nil => FALSE
        <5>. SUFFICES ASSUME o.user # Nil, raw.user = Nil  PROVE FALSE
          OBVIOUS
        <5>1. o.op = "tryRenew" /\ h.user = Nil
          BY <2>4
        <5>2. h.user # Nil
          BY <1>1, <3>1, <5>1 DEF Found, o, h
        <5>. QED  BY <5>1, <5>2
      <4>. QED  BY <2>6, <4>1 DEF UidOf
    <3>4. R.stored => R.status = "bound" /\ R.server \in Servers
      BY <2>1 DEF Slot
    <3>5. R.stored => raw.server = R.server /\ Exists(raw)
      BY <2>4, <3>2, <3>4, Holds, NoServerIsNil DEF Serves1
    <3>6. p.pc = "load" => Serves1(p.raw, owner'[n], R)
      BY <2>2, <3>3, <3>5 DEF Serves1, Alike
    <3>7. p.pc # "load" => Serves1(store[n], owner'[n], R)
      BY <2>2, <3>3, <3>5, Holds DEF Serves1
    <3>. QED  BY <2>1, <2>2, <3>2, <3>6, <3>7 DEF Kept, Serves1, h
  <2>12. ASSUME faults' = 0
         PROVE  Tidy(p, e, S, store)
    <3>1. Tidy(o, FALSE, R, store)
      BY <2>1, <2>12
    <3>. QED  BY <1>1, <2>1, <2>5, <3>1 DEF Tidy, Minded, o
  <2>13. Found(p, store)
    BY <2>2, <2>5, <2>9 DEF Found, Renewals
  <2>. QED  BY <1>1, <2>1, <2>3, <2>8, <2>10, <2>11, <2>12, <2>13 DEF Steady, Conn, o, p, e, f, R, S
<1>. QED  BY <1>1, <1>2, <1>3

LEMMA WorkKeeps ==
  ASSUME WInv, NEW r \in Reqs, Work(r), UNCHANGED wsVars
  PROVE  KeysOK(store, issued, clock)' /\ Steady(r)'
<1>1. TInv /\ (Command(r) \/ TryRenew(r))
  BY DEF WInv, Work
<1>2. Step(r)
  BY <1>1, CommandTurns DEF Step, Work, Worked, wsVars
<1>. QED  BY <1>1, <1>2, Commands, LoadUserKeeps, TouchKeeps, RawKeeps, LoadKeeps, MappingKeeps,
             UnmappingKeeps, CloneKeeps, KeepTouchKeeps, GetNewIdKeeps, CondemnedDelKeeps,
             CloneSetNewIdKeeps

(* Any other step of connection r: what its lemma starts from.             *)
LEMMA SteadyIs ==
  ASSUME WInv, NEW r \in Reqs
  PROVE  /\ TInv /\ KeysOK(store, issued, clock)
         /\ Slot(obj[r], due[r], flow[r], root[r], store, issued)
         /\ Young /\ ~ root[r].judged => Kept(obj[r], due[r], root[r], store, owner)
         /\ Young => Found(obj[r], store)
         /\ faults = 0 => Tidy(obj[r], due[r], root[r], store)
         /\ Fits(obj[r], due[r], flow[r], root[r], issued)
         /\ store \in [Sids -> ConnHashes] /\ faults \in Nat /\ due[r] \in BOOLEAN
BY DEF WInv, Conn, TInv, Typed, Fits

(* The root takes the new id, which is all that renew has left to do.      *)
LEMMA ShadowKeeps ==
  ASSUME WInv, NEW r \in Reqs, UpdateShadow(r), UNCHANGED wsVars
  PROVE  KeysOK(store, issued, clock)' /\ Steady(r)'
<1>. DEFINE o == obj[r]  f == flow[r]  R == root[r]  S == root'[r]
            h == HSet(store[o.sid], "server", R.server)
<1>1. /\ Slot(o, TRUE, f, R, store, issued)
      /\ Young /\ ~ R.judged => Kept(o, TRUE, R, store, owner)
      /\ Young => Found(o, store)
      /\ faults = 0 => Tidy(o, TRUE, R, store)
      /\ R.status # "closed" <=> f.stage # "off"
      /\ due[r] = TRUE /\ PastRenew(o)
  BY SteadyIs, UpdateShadowIs DEF WInv, Fits
<1>2. /\ issued' = issued /\ owner' = owner /\ clock' = clock /\ flow' = flow
      /\ due'[r] = FALSE /\ (Young' <=> Young)
  <2>1. DOMAIN due = Reqs
    BY DEF WInv, TInv
  <2>. QED  BY <2>1, UpdateShadowIs DEF WInv, wsVars, Young
<1>3. /\ o.pc \in {"ctouch", "csrem", "cdel"} /\ o.op \in Renewals
      /\ o.pc = "ctouch" <=> o.op = "tryRenew"
  BY <1>1 DEF PastRenew, Renewals
<1>4. R.status # "closed"
  BY <1>1, <1>3 DEF Slot, Staged
<1>5. obj' = obj /\ Shadowed(r) /\ faults' \in {faults, faults + 1} /\ faults \in Nat
  BY <1>4, SteadyIs, UpdateShadowIs DEF WInv
<1>6. /\ S.sid = o.sid /\ S.server = R.server /\ S.judged = R.judged /\ S.status = "bound"
      /\ \/ /\ R.status = "unbound" /\ S.stored = (faults' = faults)
            /\ store' \in {store, Put(o.sid, h)} /\ (faults' = faults => store' = Put(o.sid, h))
         \/ R.status = "bound" /\ S.stored = R.stored /\ store' = store /\ faults' = faults
  BY <1>5 DEF Shadowed
<1>7. o.sid \in Sids /\ Born(o.sid, issued) /\ store[o.sid] \in ConnHashes
  BY <1>3, SteadyIs, Mine
<1>8. /\ h.server = R.server /\ h.ttl = store[o.sid].ttl /\ h.user = store[o.sid].user
      /\ h.data = store[o.sid].data /\ h.newid = store[o.sid].newid
  <2>1. R.server \in Servers
    BY <1>1, <1>4 DEF Slot
  <2>. QED  BY <1>7, <2>1, SetIs
<1>. DEFINE k == o.sid
<1>9. /\ \A s \in Sids \ {k} : store'[s] = store[s]
      /\ store'[k] \in {store[k], h}
      /\ R.status = "unbound" /\ faults' = faults => store'[k] = h
  BY <1>6, <1>7, SteadyIs DEF Put
<1>. HIDE DEF h
<1>10. KeysOK(store', issued, clock)
  <2>1. KeyOK(h, k, issued, clock)
    BY <1>7, <1>8, SteadyIs DEF KeysOK, KeyOK, Timely, Born
  <2>. QED  BY <1>7, <1>9, <2>1, SteadyIs DEF KeysOK
<1>11. ~ Moving(o, FALSE)
  BY <1>3 DEF Moving, Filling
<1>12. Slot(o, FALSE, f, S, store', issued)
  <2>1. Sound(o, FALSE, issued)
    BY <1>1, <1>3, <1>11 DEF Slot, Sound, Twin
  <2>2. Anchor(o, FALSE, f, S)
    BY <1>3, <1>6, <1>11 DEF Anchor
  <2>3. R.server \in Servers
    BY <1>1, <1>4 DEF Slot
  <2>. QED  BY <1>1, <1>3, <1>6, <2>1, <2>2, <2>3 DEF Slot
<1>13. ASSUME Young, ~ S.judged
       PROVE  Kept(o, FALSE, S, store', owner)
  <2>1. Serves1(store[k], owner[k], R)
    BY <1>1, <1>3, <1>6, <1>13 DEF Kept, Moving
  <2>2. Serves1(store'[k], owner[k], S)
    BY <1>6, <1>8, <1>9, <2>1 DEF Serves1
  <2>. QED  BY <1>3, <1>6, <1>11, <2>2 DEF Kept
<1>14. ASSUME faults' = 0
       PROVE  Tidy(o, FALSE, S, store')
  <2>0. faults = 0 /\ faults' = faults
    BY <1>5, <1>14
  <2>1. Tidy(o, TRUE, R, store) /\ faults' = faults
    BY <1>1, <2>0
  <2>2. ASSUME NEW s \in Sids, Loose(store'[s])
        PROVE  Minded(s, o, FALSE, S, store')
    <3>1. CASE R.status = "unbound"
      <4>1. ~ Loose(store[s])
        BY <1>3, <2>1, <3>1 DEF Tidy, Minded
      <4>2. s = k /\ store'[s] = h
        BY <1>9, <2>1, <2>2, <3>1, <4>1
      <4>3. h.user = Nil /\ h.data = Nil
        BY <1>8, <2>2, <4>1, <4>2 DEF Loose
      <4>. QED  BY <1>6, <4>2, <4>3 DEF Minded
    <3>2. CASE R.status = "bound"
      <4>1. store' = store /\ Minded(s, o, TRUE, R, store)
        BY <1>6, <2>1, <2>2, <3>2 DEF Tidy
      <4>2. s = o.csid
        BY <1>1, <1>3, <3>2, <4>1 DEF Minded, Slot, Anchor, Moving
      <4>. QED  BY <1>1, <4>2 DEF Minded
    <3>. QED  BY <1>6, <3>1, <3>2
  <2>. QED  BY <2>2 DEF Tidy
<1>15. Found(o, store')
  <2>1. o.op \notin {"none", "user"} /\ (o.op = "tryRenew" => o.pc = "ctouch")
    BY <1>3 DEF Renewals
  <2>. QED  BY <2>1 DEF Found
<1>. QED  BY <1>2, <1>5, <1>10, <1>12, <1>13, <1>14, <1>15 DEF Steady, Conn

(* A step of the handler writes nothing: what it calls has to fit where it *)
(* goes on.                                                                *)
LEMMA HandleKeeps ==
  ASSUME WInv, NEW r \in Reqs, Handles(r),
         obj'[r].ttl \in Ttls,
         obj'[r].pc \in {"ready", "user", "raw", "newid", "keep"},
         obj'[r].pc = "user" => obj'[r].op = "user",
         obj'[r].pc = "raw" => obj'[r].op \in {"login", "autoLogin"} /\ obj'[r].csid = obj[r].sid,
         obj'[r].pc \in {"newid", "keep"} => obj'[r].op = "tryRenew",
         obj'[r].pc = "raw" /\ obj'[r].op = "autoLogin" => root[r].status # "bound",
         Staged(obj'[r], flow'[r]),
         Young => Found(obj'[r], store),
         root[r].status = "bound" => obj[r].sid = root[r].sid \/ Adrift(obj'[r], flow'[r])
  PROVE  KeysOK(store, issued, clock)' /\ Steady(r)'
<1>. DEFINE o == obj[r]  p == obj'[r]  g == flow'[r]  R == root[r]
<1>1. /\ UNCHANGED <<store, issued, clock, owner, faults>>
      /\ due'[r] = FALSE /\ due[r] = FALSE /\ root'[r] = R /\ o.pc = "ready" /\ p.sid = o.sid
      /\ Young' = Young
  BY SteadyIs DEF Handles, Young
<1>2. KeysOK(store, issued, clock)' /\ Slot(o, FALSE, flow[r], R, store, issued)
  BY <1>1, SteadyIs
<1>3. ~ Moving(p, FALSE) /\ ~ Twin(p, FALSE) /\ p.pc \notin {"load", "closed"}
  BY DEF Moving, Filling, Twin, Renewals
<1>4. Slot(p, FALSE, g, R, store, issued)
  <2>1. Sound(p, FALSE, issued)
    <3>1. Sent(p)
      BY DEF Sent, Renewals
    <3>. QED  BY <1>1, <1>3, <3>1 DEF Sound
  <2>2. Anchor(p, FALSE, g, R)
    BY <1>1, <1>3 DEF Anchor
  <2>. QED  BY <1>2, <1>3, <2>1, <2>2 DEF Slot
<1>5. ASSUME Young, ~ R.judged  PROVE Kept(p, FALSE, R, store, owner)
  BY <1>1, <1>3, <1>5, SteadyIs DEF Kept
<1>6. ASSUME faults = 0  PROVE Tidy(p, FALSE, R, store)
  <2>1. Tidy(o, FALSE, R, store) /\ ~ PastRenew(o)
    BY <1>1, <1>6, SteadyIs DEF PastRenew
  <2>. QED  BY <1>1, <2>1 DEF Tidy, Minded
<1>. QED  BY <1>1, <1>2, <1>4, <1>5, <1>6 DEF Steady, Conn

LEMMA HandlerKeeps ==
  ASSUME WInv, NEW r \in Reqs, Handler(r)
  PROVE  KeysOK(store, issued, clock)' /\ Steady(r)'
<1>. DEFINE o == obj[r]  p == obj'[r]  f == flow[r]  g == flow'[r]  R == root[r]
<1>1. /\ TInv /\ Handles(r) /\ o.pc = "ready" /\ p.sid = o.sid
      /\ Slot(o, FALSE, f, R, store, issued) /\ (Young => Found(o, store))
  BY HandlerIs, SteadyIs DEF Handles
<1>2. /\ Staged(o, f) /\ o.ttl \in Ttls
      /\ R.status = "bound" => o.sid = R.sid \/ Adrift(o, f)
      /\ f.stage \notin {"authed", "logged", "reply"} => ~ Adrift(o, f)
  BY <1>1 DEF Slot, Sound, Anchor, Moving, Filling, Adrift
<1>3. DOMAIN obj = Reqs
  BY <1>1 DEF TInv
<1>. HIDE DEF o, p, f, g, R
<1>4. CASE Valid(r) /\ p.op = "user" /\ p.pc \in {"user", "ready"} /\ p.ttl = o.ttl /\ p.user = o.user
           /\ f.stage = "valid" /\ g.stage = "checked"
  <2>1. Staged(p, g) /\ (Young => Found(p, store))
    BY <1>1, <1>2, <1>4 DEF Staged, Found
  <2>. QED  BY <1>1, <1>2, <1>4, <2>1, HandleKeeps DEF o, p, f, g, R
<1>5. CASE Auth(r) /\ R.status = "unbound" /\ g.stage = "authed" /\ f.stage = "auth"
           /\ p.pc = "raw" /\ p.op = "autoLogin" /\ p.csid = o.sid /\ p.ttl = o.ttl
  <2>1. Staged(p, g) /\ Found(p, store)
    BY <1>5 DEF Staged, Found
  <2>. QED  BY <1>1, <1>2, <1>5, <2>1, HandleKeeps DEF o, p, f, g, R
<1>6. CASE /\ Auth(r) /\ g.stage = "authed" /\ p.op = "tryRenew" /\ p.ttl = o.ttl /\ p.user = o.user
           /\ f.stage = "auth"
           /\ p.pc \in {"newid", "keep"} \/ (p.pc = "ready" /\ p.ret = "false")
  <2>1. p.pc \in {"newid", "keep", "ready"}
    BY <1>6
  <2>2. Staged(p, g) /\ (Young => Found(p, store))
    BY <1>1, <1>2, <1>6, <2>1 DEF Staged, Found
  <2>3. R.status = "bound" => o.sid = R.sid
    BY <1>2, <1>6
  <2>. QED  BY <1>1, <1>2, <1>6, <2>1, <2>2, <2>3, HandleKeeps DEF o, p, f, g, R
<1>7. CASE Controller(r) /\ p.pc = "raw" /\ p.op = "login" /\ p.csid = o.sid /\ p.ttl \in Ttls
           /\ f.stage = "controller" /\ g.stage = "logged"
  <2>1. Staged(p, g) /\ Found(p, store)
    BY <1>7 DEF Staged, Found
  <2>. QED  BY <1>1, <1>2, <1>7, <2>1, HandleKeeps DEF o, p, f, g, R
<1>8. ASSUME Passes(r),
             \/ f.stage = "valid" /\ g.stage = "auth"
             \/ f.stage = "checked" /\ g.stage \in {"auth", "reply"}
             \/ f.stage = "auth" /\ g.stage = "controller"
             \/ f.stage = "authed" /\ g.stage = "reply"
             \/ f.stage = "authed" /\ g.stage = "controller" /\ (o.ret # "err" \/ o.op = "autoLogin")
             \/ f.stage = "controller" /\ g.stage = "reply"
             \/ f.stage = "logged" /\ g.stage = "reply"
      PROVE  KeysOK(store, issued, clock)' /\ Steady(r)'
  <2>1. p = o
    BY <1>8 DEF Passes, o, p
  <2>2. Staged(p, g)
    BY <1>1, <1>2, <1>8, <2>1 DEF Staged
  <2>3. R.status = "bound" => o.sid = R.sid \/ Adrift(p, g)
    BY <1>2, <1>8, <2>1 DEF Adrift
  <2>. QED  BY <1>1, <1>2, <2>1, <2>2, <2>3, HandleKeeps DEF o, p, f, g, R
<1>9. CASE Valid(r)
  BY <1>1, <1>4, <1>8, <1>9, ValidIs DEF o, p, f, g, R
<1>10. CASE Checked(r)
  BY <1>1, <1>8, <1>10, CheckedIs DEF o, p, f, g, R
<1>11. CASE Auth(r)
  BY <1>1, <1>5, <1>6, <1>8, <1>11, AuthIs DEF o, p, f, g, R
<1>12. CASE Authed(r)
  BY <1>1, <1>8, <1>12, AuthedIs DEF o, p, f, g, R
<1>13. CASE Controller(r)
  BY <1>1, <1>7, <1>8, <1>13, ControllerIs DEF o, p, f, g, R
<1>14. CASE Logged(r)
  BY <1>1, <1>8, <1>14, LoggedIs DEF o, p, f, g, R
<1>. QED  BY <1>9, <1>10, <1>11, <1>12, <1>13, <1>14 DEF Handler

(* Between two messages there is only the root. *)
LEMMA Resting ==
  ASSUME NEW o, o.pc = "closed", NEW g, Staged(o, g), NEW S,
         S.status # "closed" => S.server \in Servers, S.stored => S.status = "bound",
         NEW st, NEW iss
  PROVE  Slot(o, FALSE, g, S, st, iss)
<1>1. ~ Moving(o, FALSE) /\ ~ Twin(o, FALSE)
  BY DEF Moving, Filling, Twin
<1>2. Sound(o, FALSE, iss)
  BY <1>1 DEF Sound, Sent
<1>3. Anchor(o, FALSE, g, S)
  BY <1>1 DEF Anchor
<1>. QED  BY <1>2, <1>3 DEF Slot

LEMMA AcceptKeeps ==
  ASSUME WInv, NEW r \in Reqs, NEW a \in Servers, Accept(r, a)
  PROVE  KeysOK(store, issued, clock)' /\ Steady(r)'
<1>. DEFINE o == obj[r]  R == root[r]  S == root'[r]  g == flow'[r]
<1>1. /\ UNCHANGED <<store, obj, clock, faults, owner, due>> /\ flow[r].stage = "off"
      /\ g.stage = "open" /\ S.status = "unbound" /\ S.server \in Servers /\ ~ S.stored
      /\ Typed /\ KeysOK(store, issued, clock)
      /\ faults = 0 => Tidy(o, due[r], R, store)
  BY AcceptIs, SteadyIs DEF TInv
<1>2. o.pc = "closed" /\ R.status = "closed" /\ due[r] = FALSE
  BY <1>1, SteadyIs DEF Slot, Staged, Fits, PastRenew
<1>3. KeysOK(store, issued', clock)
  <2>1. CASE issued' = issued
    BY <1>1, <2>1
  <2>2. ASSUME NEW s \in Sids, NEW t \in Ttls, issued[s] = Nil,
               issued' = [issued EXCEPT ![s] = [ttl |-> t, born |-> clock]]
        PROVE  KeysOK(store, issued', clock)
    <3>1. /\ issued'[s].ttl = t /\ \A q \in Sids \ {s} : issued'[q] = issued[q]
          /\ issued'[s] # Nil
      <4>1. [ttl |-> t, born |-> clock] # Nil /\ DOMAIN issued = Sids
        BY <1>1, Constants DEF Typed
      <4>. QED  BY <2>2, <4>1
    <3>2. \A q : Born(q, issued) => Born(q, issued')
      BY <3>1 DEF Born
    <3>. QED  BY <1>1, <3>1, <3>2 DEF KeysOK, KeyOK
  <2>. QED  BY <2>1, <2>2, AcceptIs DEF WInv
<1>4. Slot(o, FALSE, g, S, store, issued')
  <2>1. Staged(o, g)
    BY <1>1, <1>2 DEF Staged
  <2>. QED  BY <1>1, <1>2, <2>1, Resting
<1>6. Found(o, store) /\ Kept(o, FALSE, S, store, owner)
  BY <1>1, <1>2 DEF Found, Kept, Moving, Filling
<1>5. ASSUME faults = 0  PROVE Tidy(o, FALSE, S, store)
  <2>1. \A s : ~ Minded(s, o, FALSE, R, store)
    BY <1>2 DEF Minded, PastRenew
  <2>. QED  BY <1>1, <1>2, <1>5, <2>1 DEF Tidy
<1>. QED  BY <1>1, <1>2, <1>3, <1>4, <1>5, <1>6 DEF Steady, Conn

LEMMA MessageKeeps ==
  ASSUME WInv, NEW r \in Reqs, NEW route \in Routes, Message(r, route), "bound" \notin Explicit
  PROVE  KeysOK(store, issued, clock)' /\ Steady(r)'
<1>. DEFINE o == obj[r]  p == obj'[r]  R == root[r]  g == flow'[r]
<1>1. /\ UNCHANGED <<store, issued, clock, faults, owner, due, root>>
      /\ flow[r].stage = "open" /\ o.pc = "closed" /\ R.status # "closed" /\ g.stage = "valid"
      /\ p.pc = "ready" /\ p.op = "none" /\ p.user = Nil
      /\ Born(p.sid, issued) /\ p.ttl = issued[p.sid].ttl
      /\ R.status = "bound" => p.sid = R.sid
  BY MessageIs DEF WInv
<1>2. /\ due[r] = FALSE /\ Slot(o, FALSE, flow[r], R, store, issued)
      /\ KeysOK(store, issued, clock) /\ (Young' <=> Young)
      /\ Young /\ ~ R.judged => Kept(o, FALSE, R, store, owner)
      /\ faults = 0 => Tidy(o, FALSE, R, store)
  BY <1>1, SteadyIs DEF Fits, PastRenew, Young
<1>3. ~ Moving(p, FALSE) /\ ~ Twin(p, FALSE) /\ ~ PastRenew(p) /\ ~ PastRenew(o)
  BY <1>1 DEF Moving, Filling, Twin, PastRenew
<1>4. Slot(p, FALSE, g, R, store, issued)
  <2>1. p.ttl \in Ttls
    BY <1>1, <1>2 DEF KeysOK, Born
  <2>2. Sound(p, FALSE, issued)
    BY <1>1, <1>3, <2>1 DEF Sound, Sent
  <2>3. Staged(p, g)
    BY <1>1 DEF Staged
  <2>4. Anchor(p, FALSE, g, R)
    BY <1>1, <1>3 DEF Anchor
  <2>. QED  BY <1>1, <1>2, <2>2, <2>3, <2>4 DEF Slot
<1>5. Found(p, store)
  BY <1>1 DEF Found
<1>6. ASSUME Young, ~ R.judged  PROVE Kept(p, FALSE, R, store, owner)
  BY <1>1, <1>2, <1>3, <1>6 DEF Kept
<1>7. ASSUME faults = 0  PROVE Tidy(p, FALSE, R, store)
  BY <1>1, <1>2, <1>3, <1>7 DEF Tidy, Minded
<1>. QED  BY <1>1, <1>2, <1>4, <1>5, <1>6, <1>7 DEF Steady, Conn

LEMMA AnswerKeeps ==
  ASSUME WInv, NEW r \in Reqs, Answer(r)
  PROVE  KeysOK(store, issued, clock)' /\ Steady(r)'
<1>. DEFINE o == obj[r]  p == obj'[r]  R == root[r]  g == flow'[r]
<1>1. /\ UNCHANGED <<store, issued, clock, owner, due, root>>
      /\ o.pc = "ready" /\ due[r] = FALSE /\ p.pc = "closed" /\ g.stage \in {"open", "broken"}
      /\ faults' \in {faults, faults + 1} /\ (Young' <=> Young)
  BY AnswerIs, ClosedIs, SteadyIs DEF WInv, Young
<1>2. /\ Slot(o, FALSE, flow[r], R, store, issued)
      /\ KeysOK(store, issued, clock) /\ faults \in Nat
      /\ Young /\ ~ R.judged => Kept(o, FALSE, R, store, owner)
      /\ faults = 0 => Tidy(o, FALSE, R, store)
  BY <1>1, SteadyIs
<1>3. Slot(p, FALSE, g, R, store, issued) /\ Found(p, store)
  <2>1. (R.status # "closed" => R.server \in Servers) /\ (R.stored => R.status = "bound")
    BY <1>2 DEF Slot
  <2>2. Staged(p, g)
    BY <1>1 DEF Staged
  <2>3. Slot(p, FALSE, g, R, store, issued)
    BY <1>1, <2>1, <2>2, Resting
  <2>. QED  BY <1>1, <2>3 DEF Found
<1>4. ASSUME Young, ~ R.judged  PROVE Kept(p, FALSE, R, store, owner)
  BY <1>1, <1>2, <1>4 DEF Kept, Moving, Filling
<1>5. faults' = 0 => faults = 0
  BY <1>1, <1>2
<1>6. ASSUME faults = 0  PROVE Tidy(p, FALSE, R, store)
  <2>1. ~ PastRenew(o)
    BY <1>1 DEF PastRenew
  <2>. QED  BY <1>1, <1>2, <1>6, <2>1 DEF Tidy, Minded
<1>. QED  BY <1>1, <1>2, <1>3, <1>4, <1>5, <1>6 DEF Steady, Conn

(* disconnect: what is left without a TTL holds a copied id at most. *)
LEMMA HangUpKeeps ==
  ASSUME WInv, NEW r \in Reqs, HangUp(r)
  PROVE  KeysOK(store, issued, clock)' /\ Steady(r)'
<1>. DEFINE o == obj[r]  R == root[r]  k == R.sid  h == HDel(store[k], "server")
<1>1. /\ UNCHANGED <<issued, clock, owner, obj, due>>
      /\ flow'[r] = NoFlow /\ root'[r] = NoRoot
      /\ o.pc = "closed" /\ Born(k, issued) /\ faults' \in {faults, faults + 1}
      /\ store' \in {store, Put(k, h)} /\ (faults' = faults => store' = Put(k, h))
  BY HangUpIs DEF WInv
<1>2. /\ due[r] = FALSE /\ KeysOK(store, issued, clock) /\ faults \in Nat
      /\ store \in [Sids -> ConnHashes] /\ k \in Sids /\ store[k] \in ConnHashes
      /\ faults = 0 => Tidy(o, FALSE, R, store)
  BY <1>1, SteadyIs DEF Fits, PastRenew, Born
<1>3. /\ h.server = Nil /\ h.user = store[k].user /\ h.data = store[k].data
      /\ h.newid = store[k].newid /\ h.ttl \in {0, store[k].ttl}
      /\ h.ttl = 0 => store[k].ttl = 0 \/ h = Missing
  BY <1>2, DelIs
<1>4. /\ \A s \in Sids \ {k} : store'[s] = store[s]
      /\ store'[k] \in {store[k], h} /\ (faults' = faults => store'[k] = h)
  BY <1>1, <1>2 DEF Put
<1>. HIDE DEF h
<1>5. KeysOK(store', issued, clock)
  <2>1. KeyOK(h, k, issued, clock)
    BY <1>1, <1>2, <1>3 DEF KeysOK, KeyOK, Timely, Born
  <2>. QED  BY <1>2, <1>4, <2>1 DEF KeysOK
<1>6. /\ Slot(o, FALSE, NoFlow, NoRoot, store', issued) /\ Found(o, store')
      /\ Kept(o, FALSE, NoRoot, store', owner)
  <2>1. Staged(o, NoFlow)
    BY <1>1, NoFlowIs DEF Staged
  <2>2. Slot(o, FALSE, NoFlow, NoRoot, store', issued)
    BY <1>1, <2>1, NoRootIs, Resting
  <2>. QED  BY <1>1, <2>2, NoRootIs DEF Found, Kept, Moving, Filling
<1>7. ASSUME faults' = 0  PROVE Tidy(o, FALSE, NoRoot, store')
  <2>1. faults = 0 /\ faults' = faults
    BY <1>1, <1>2, <1>7
  <2>2. ASSUME NEW s \in Sids, Loose(store[s])
        PROVE  s = k /\ store[s].user = Nil /\ store[s].data = Nil
    BY <1>1, <1>2, <2>1, <2>2 DEF Tidy, Minded, PastRenew
  <2>3. ~ Loose(h)
    BY <1>2, <1>3, <2>2, ConnMissing DEF Loose
  <2>. QED  BY <1>4, <2>1, <2>2, <2>3 DEF Tidy
<1>. QED  BY <1>1, <1>2, <1>5, <1>6, <1>7 DEF Steady, Conn

(* A second passes: a key ages, and no key expires while sessions may be   *)
(* young.                                                                  *)
LEMMA KeyAges ==
  ASSUME NEW h \in ConnHashes, NEW s \in Sids, NEW iss, NEW now \in Nat, KeyOK(h, s, iss, now)
  PROVE  LET g == Age(h, Missing) IN
         /\ KeyOK(g, s, iss, now + 1)
         /\ Loose(g) => g = h
         /\ h = Missing => g = h
         /\ (\A t \in Ttls : now + 1 < t) => Alike(g, h)
<1>. DEFINE g == Age(h, Missing)
<1>1. /\ h.ttl \in Nat /\ Timely(h, now) /\ h.newid # s /\ (h.newid # Nil => Born(h.newid, iss))
      /\ iss[s] = Nil => h = Missing
      /\ \A t \in Ttls : t \in Nat
  BY Constants DEF ConnHashes, KeyOK
<1>2. /\ g \in ConnHashes /\ (h.ttl = 0 => g = h) /\ (h.ttl = 1 => g = Missing)
      /\ h.ttl > 1 => Alike(g, h) /\ g.ttl = h.ttl - 1
  BY AgeIs
<1>. HIDE DEF g
<1>3. CASE h.ttl = 0
  <2>1. Timely(g, now + 1)
    BY <1>2, <1>3 DEF Timely
  <2>. QED  BY <1>1, <1>2, <1>3, <2>1 DEF KeyOK, Alike, g
<1>4. CASE h.ttl = 1
  <2>1. KeyOK(g, s, iss, now + 1) /\ ~ Loose(g) /\ h # Missing
    BY <1>2, <1>4, GoneOK, ConnMissing
  <2>2. \E t \in Ttls : now + 1 >= t
    BY <1>1, <1>4 DEF Timely
  <2>3. ~ \A t \in Ttls : now + 1 < t
    BY <1>1, <2>2
  <2>. QED  BY <2>1, <2>3 DEF g
<1>5. CASE h.ttl > 1
  <2>1. g.ttl > 0 /\ (now + 1) + g.ttl = now + h.ttl
    BY <1>1, <1>2, <1>5
  <2>2. PICK t \in Ttls : now + h.ttl >= t
    BY <1>1, <1>5 DEF Timely
  <2>3. Timely(g, now + 1)
    BY <2>1, <2>2 DEF Timely
  <2>4. h # Missing /\ ~ Loose(g)
    BY <1>5, <2>1, ConnMissing DEF Loose
  <2>. QED  BY <1>1, <1>2, <1>5, <2>3, <2>4 DEF KeyOK, Alike, g
<1>. QED  BY <1>1, <1>3, <1>4, <1>5

LEMMA TickKeeps ==
  ASSUME WInv, NEW r \in Reqs, Tick, UNCHANGED <<connVars, wsVars>>
  PROVE  KeysOK(store, issued, clock)' /\ Steady(r)'
<1>. DEFINE o == obj[r]  d == due[r]  f == flow[r]  R == root[r]
<1>1. /\ UNCHANGED <<issued, obj, faults, owner, due, root, flow>> /\ clock' = clock + 1
      /\ \A s \in Sids : store'[s] = Age(store[s], Missing)
  BY DEF Tick, connVars, wsVars
<1>2. /\ KeysOK(store, issued, clock) /\ Slot(o, d, f, R, store, issued)
      /\ Young /\ ~ R.judged => Kept(o, d, R, store, owner)
      /\ Young => Found(o, store)
      /\ faults = 0 => Tidy(o, d, R, store)
      /\ store \in [Sids -> ConnHashes] /\ clock \in Nat
      /\ R.status # "closed" => R.sid \in Sids
      /\ o.pc # "closed" => o.sid \in Sids
      /\ d => PastRenew(o)
  BY SteadyIs DEF Fits, Fit, Born, TInv, Typed
<1>3. \A s \in Sids : /\ KeyOK(store'[s], s, issued, clock + 1)
                      /\ Loose(store'[s]) => store'[s] = store[s]
                      /\ store[s] = Missing => store'[s] = store[s]
                      /\ Young' => Alike(store'[s], store[s])
  <2>1. TAKE s \in Sids
  <2>2. store[s] \in ConnHashes /\ KeyOK(store[s], s, issued, clock)
    BY <1>2 DEF KeysOK
  <2>3. Young' => \A t \in Ttls : clock + 1 < t
    BY <1>1 DEF Young
  <2>. QED  BY <1>1, <1>2, <2>2, <2>3, KeyAges
<1>4. KeysOK(store', issued, clock')
  BY <1>1, <1>2, <1>3 DEF KeysOK
<1>5. Young' => Young
  <2>1. ASSUME NEW t \in Ttls, clock + 1 < t  PROVE clock < t
    <3>1. t \in Nat
      BY Constants
    <3>. QED  BY <1>2, <2>1, <3>1
  <2>. QED  BY <1>1, <2>1 DEF Young
<1>6. Slot(o, d, f, R, store', issued)
  BY <1>2, <1>3 DEF Slot
<1>7. Moving(o, d) => o.pc # "closed"
  BY <1>2 DEF Moving, Filling, PastRenew
<1>. HIDE DEF o, d, f, R
<1>8. ASSUME Young', ~ R.judged  PROVE Kept(o, d, R, store', owner)
  <2>1. Kept(o, d, R, store, owner)
    BY <1>2, <1>5, <1>8
  <2>2. \A s \in Sids : Serves1(store[s], owner[s], R) => Serves1(store'[s], owner[s], R)
    BY <1>3, <1>8 DEF Alike, Serves1
  <2>. QED  BY <1>2, <1>7, <2>1, <2>2 DEF Kept
<1>9. ASSUME Young'  PROVE Found(o, store')
  <2>1. o.pc # "closed" => store'[o.sid].user = store[o.sid].user
    BY <1>2, <1>3, <1>9 DEF Alike
  <2>. QED  BY <1>2, <1>5, <1>9, <2>1 DEF Found
<1>10. ASSUME faults = 0  PROVE Tidy(o, d, R, store')
  BY <1>2, <1>3, <1>10 DEF Tidy, Minded
<1>. QED  BY <1>1, <1>4, <1>6, <1>8, <1>9, <1>10 DEF Steady, Conn, o, d, f, R

(* The process dies: every connection with it, and a failure is counted.   *)
LEMMA CrashKeeps ==
  ASSUME WInv, NEW r \in Reqs, Crash, flow' = [q \in Reqs |-> NoFlow]
  PROVE  KeysOK(store, issued, clock)' /\ Steady(r)'
<1>1. /\ UNCHANGED <<store, issued, clock, owner>> /\ faults' = faults + 1
      /\ obj'[r] = Closed /\ root'[r] = NoRoot /\ due'[r] = FALSE /\ flow'[r] = NoFlow
  BY DEF Crash
<1>2. KeysOK(store, issued, clock) /\ faults \in Nat
  BY SteadyIs
<1>3. faults' # 0
  BY <1>1, <1>2
<1>4. Staged(Closed, NoFlow)
  BY ClosedIs, NoFlowIs DEF Staged
<1>5. Slot(Closed, FALSE, NoFlow, NoRoot, store, issued)
  BY <1>4, ClosedIs, NoRootIs, Resting
<1>6. Found(Closed, store) /\ Kept(Closed, FALSE, NoRoot, store, owner)
  BY ClosedIs, NoRootIs DEF Found, Kept, Moving, Filling
<1>. QED  BY <1>1, <1>2, <1>3, <1>5, <1>6 DEF Steady, Conn

-----------------------------------------------------------------------------
(* The theorems *)

LEMMA StartInv == WsStart => WInv
<1>. SUFFICES ASSUME WsStart  PROVE WInv
  OBVIOUS
<1>1. TInv
  BY StartTypes
<1>2. Staged(Closed, NoFlow)
  BY ClosedIs, NoFlowIs DEF Staged
<1>3. /\ Slot(Closed, FALSE, NoFlow, NoRoot, store, issued)
      /\ Found(Closed, store) /\ Kept(Closed, FALSE, NoRoot, store, owner)
  <2>1. Slot(Closed, FALSE, NoFlow, NoRoot, store, issued)
    BY <1>2, ClosedIs, NoRootIs, Resting
  <2>. QED  BY <2>1, ClosedIs, NoRootIs DEF Found, Kept, Moving, Filling
<1>4. Tidy(Closed, FALSE, NoRoot, store)
  BY DEF WsStart, Tidy
<1>. QED  BY <1>1, <1>3, <1>4 DEF WsStart, ConnInit, WInv, Conn

(* One connection after another. *)
OneConnection == \E r \in Reqs : Reqs = {r}

LEMMA StepInv ==
  ASSUME OneConnection, "bound" \notin Explicit, WInv, [WsNext]_allVars
  PROVE  WInv'
<1>1. TInv'
  BY TypesStep DEF WInv
<1>2. PICK r \in Reqs : Reqs = {r}
  BY DEF OneConnection
<1>. SUFFICES KeysOK(store, issued, clock)' /\ Steady(r)'
  BY <1>1, <1>2 DEF WInv, Steady
<1>3. CASE UNCHANGED allVars
  <2>1. UNCHANGED <<store, issued, clock, owner, faults, obj, due, flow, root>>
    BY <1>3 DEF allVars, vars, connVars, wsVars
  <2>. QED  BY <2>1 DEF WInv, Steady, Conn, Young
<1>4. CASE Tick /\ UNCHANGED <<connVars, wsVars>>
  BY <1>4, TickKeeps
<1>5. CASE Crash /\ flow' = [q \in Reqs |-> NoFlow] /\ UNCHANGED token
  BY <1>5, CrashKeeps
<1>6. ASSUME NEW a \in Servers, Accept(r, a)  PROVE KeysOK(store, issued, clock)' /\ Steady(r)'
  BY <1>6, AcceptKeeps
<1>7. ASSUME NEW route \in Routes, Message(r, route)
      PROVE  KeysOK(store, issued, clock)' /\ Steady(r)'
  BY <1>7, MessageKeeps
<1>8. CASE Refuse(r)
  BY <1>3, <1>8, RefuseIs DEF WInv
<1>9. CASE Serve(r)
  <2>1. CASE Handler(r)
    BY <2>1, HandlerKeeps
  <2>2. CASE Work(r) /\ UNCHANGED wsVars
    BY <2>2, WorkKeeps
  <2>3. CASE UpdateShadow(r) /\ UNCHANGED wsVars
    BY <2>3, ShadowKeeps
  <2>. QED  BY <1>9, <2>1, <2>2, <2>3 DEF Serve, Handler
<1>10. CASE Answer(r)
  BY <1>10, AnswerKeeps
<1>11. CASE HangUp(r)
  BY <1>11, HangUpKeeps
<1>. QED  BY <1>2, <1>3, <1>4, <1>5, <1>6, <1>7, <1>8, <1>9, <1>10, <1>11 DEF WsNext

LEMMA Lasts ==
  ASSUME OneConnection, "bound" \notin Explicit
  PROVE  WsRuns => []WInv
<1>1. WsStart => WInv
  BY StartInv
<1>2. WInv /\ [WsNext]_allVars => WInv'
  BY StepInv
<1>. QED  BY <1>1, <1>2, PTL DEF WsRuns

(* Between two messages of a connection. *)
LEMMA CalmIs ==
  ASSUME WInv, NEW r \in Reqs, Calm(r), root[r].status = "bound", Young, ~ root[r].judged
  PROVE  Serves1(store[root[r].sid], owner[root[r].sid], root[r])
<1>. QED  BY SteadyIs DEF Kept

(***************************************************************************)
(* Once Redis has confirmed the address of a connection, the session that  *)
(* its root names has it, whatever fails in whatever login or renewal of   *)
(* the connection, as long as no session can have expired and try_renew    *)
(* has not destroyed it (redis.rs, renew; connection.rs, update_shadow).   *)
(***************************************************************************)
THEOREM BoundStays ==
  ASSUME OneConnection, "bound" \notin Explicit
  PROVE  WsRuns => []StaysBound
<1>1. WInv => StaysBound
  <2>. SUFFICES ASSUME WInv, NEW r \in Reqs, Calm(r), Young, root[r].stored, ~ root[r].judged
                PROVE  Names(r)
    BY DEF StaysBound
  <2>1. root[r].status = "bound"
    BY SteadyIs DEF Slot
  <2>. QED  BY <2>1, CalmIs DEF Serves1, Names
<1>. QED  BY <1>1, Lasts, PTL

(***************************************************************************)
(* The root moves along with every renewal: a bound root whose id was made *)
(* for a user is logged in between messages, whatever failed, unless       *)
(* try_renew has destroyed its session (redis.rs, renew; connection.rs,    *)
(* update_shadow).                                                         *)
(***************************************************************************)
THEOREM RootFollows ==
  ASSUME OneConnection, "bound" \notin Explicit
  PROVE  WsRuns => []RootServes
<1>1. WInv => RootServes
  BY CalmIs DEF RootServes, Serves1, Login
<1>. QED  BY <1>1, Lasts, PTL

(***************************************************************************)
(* Without failures, a connection that has closed leaves nothing behind    *)
(* that never expires but a copied id: disconnect takes out the address,   *)
(* and every renewal has deleted or touched what it wrote (connection.rs,  *)
(* disconnect; user.rs, renew).                                            *)
(***************************************************************************)
THEOREM NothingKept ==
  ASSUME OneConnection, "bound" \notin Explicit
  PROVE  WsRuns => []NothingLeft
<1>1. WInv => NothingLeft
  <2>. SUFFICES ASSUME WInv, faults = 0, \A r \in Reqs : flow[r].stage = "off",
                       NEW s \in Sids, store[s].ttl = 0
                PROVE  HDel(store[s], "newid") = Missing
    BY DEF NothingLeft
  <2>1. PICK r \in Reqs : Reqs = {r}
    BY DEF OneConnection
  <2>2. obj[r].pc = "closed" /\ root[r].status = "closed" /\ Tidy(obj[r], due[r], root[r], store)
    BY SteadyIs DEF Slot, Staged, Fits
  <2>3. ~ Loose(store[s])
    BY <2>2 DEF Tidy, Minded, PastRenew
  <2>. DEFINE e == [store[s] EXCEPT !["newid"] = Nil]
  <2>4. store[s] \in ConnHashes
    BY SteadyIs
  <2>5. e.user = Nil /\ e.data = Nil /\ e.server = Nil /\ e.newid = Nil
    BY <2>3, <2>4 DEF Loose, ConnHashes
  <2>6. HDel(store[s], "newid") = IF Exists(e) THEN e ELSE Missing
    BY DEF HDel
  <2>. HIDE DEF e
  <2>. QED  BY <2>5, <2>6, Holds
<1>. QED  BY <1>1, Lasts, PTL
=============================================================================
