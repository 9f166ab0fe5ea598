-------------------------- MODULE UserSessionProofs -------------------------
(***************************************************************************)
(* Proofs about UserSession, for every number of requests, ids, users,     *)
(* failures and ticks.                                                     *)
(*                                                                         *)
(* TypeCorrect : Spec => []TypeOK                                          *)
(* Identity    : Spec => []OneIdentity                                     *)
(*                                                                         *)
(* OneIdentity is not inductive: sync writes into ids it listed many steps *)
(* ago, and mapping lists an id for a user it cached many steps ago.  Both *)
(* hold on to what the id was generated for, which never changes, so the   *)
(* invariant says that store, index and every call in progress agree with  *)
(* owner, and that an id no call has generated is claimed by none of them. *)
(***************************************************************************)
EXTENDS UserSession, TLAPS

-----------------------------------------------------------------------------
(* The inductive invariant *)

Logins == {"login", "autoLogin"}

Listing == {"smembers", "exists", "filtersrem", "hset"}

Serving == {"set", "get", "del", "touch", "user", "load", "sadd", "mapexpire", "csrem", "cdel"}

(* There is one request slot. *)
OneAtATime == \A q, r \in Reqs : q = r

Owned(u, own) == {s \in Sids : own[s] = u}

StoreOwned(st, own) ==
  \A s \in Sids : st[s].user # Nil => st[s].user.uid = own[s]

IndexOwned(um, own) == \A u \in Uids : um[u].sids \subseteq Owned(u, own)

(* The object holds a generated id, and its call belongs to this module. *)
Held(o, iss) ==
  o.sid \in Sids /\ iss[o.sid] # Nil /\ o.op \notin {"tryRenew", "condemn"}

(* After renew took the new id: the cached user is the one it is for. *)
Serves(o, own) ==
  o.op \in Logins => o.csid \in Sids /\ (o.user # Nil => o.user.uid = own[o.sid])

Loyal(o, own, iss) ==
  /\ o.pc # "closed" => Held(o, iss)
  /\ o.pc \in Serving => Serves(o, own)
  /\ o.pc \in {"raw", "load", "sadd", "mapexpire", "csrem", "cdel"} =>
       o.op \in Logins /\ o.csid \in Sids
  /\ o.pc = "load" => (o.raw.user # Nil => o.raw.user.uid = own[o.sid])
  /\ o.pc \in {"sadd", "mapexpire", "srem"} => o.user # Nil
  /\ o.pc = "csrem" => o.cuser # Nil
  /\ o.pc = "set" => o.arg \in Datas
  /\ o.pc \in Listing =>
       o.arg \in Profiles /\ o.todo \cup o.kept \subseteq Owned(o.arg.uid, own)
  /\ o.pc = "filtersrem" => o.cur \in Sids
  /\ o.pc \in {"ready", "smembers"} => o.todo = {} /\ o.kept = {}

IInv ==
  /\ TypeOK
  /\ StoreOwned(store, owner)
  /\ IndexOwned(umap, owner)
  /\ \A s \in Sids : issued[s] = Nil => owner[s] = Nil
  /\ \A r \in Reqs : Loyal(obj[r], owner, issued)

-----------------------------------------------------------------------------
(* Values and objects *)

Rets == {"none", "true", "false", "err"}

(* What a call may hold, in any state of the history, and still be sound. *)
Good(o, own, iss) == o \in Objects /\ Loyal(o, own, iss)

(* The assumptions on the constants in the form the proofs use. *)
LEMMA Constants ==
  /\ Nil \notin Sids /\ Nil \notin Uids /\ Nil \notin Profiles
  /\ \A p \in Profiles : p.uid \in Uids
  /\ Nil \notin [ttl : Nat, born : Nat]
  /\ Ttls \subseteq Nat /\ MapTtl \in Nat
BY ConstantsOK DEF Profiles

(* A key that does not exist is a hash. *)
LEMMA MissingType == Missing \in Hashes /\ Missing.user = Nil
BY DEF Missing, Hashes

(* Every write command the library sends leaves a hash in the key. *)
LEMMA HashTypes ==
  ASSUME NEW h \in Hashes
  PROVE  /\ \A d \in Datas : HSet(h, "data", d) \in Hashes /\ HSet(h, "data", d).user = h.user
         /\ \A p \in Profiles : HSet(h, "user", p) \in Hashes /\ HSet(h, "user", p).user = p
         /\ HDel(h, "data") \in Hashes /\ HDel(h, "data").user \in {Nil, h.user}
         /\ HDel(h, "user") \in Hashes /\ HDel(h, "user").user = Nil
         /\ \A t \in Nat : Expire(h, t) \in Hashes /\ Expire(h, t).user = h.user
         /\ Age(h, Missing) \in Hashes /\ Age(h, Missing).user \in {Nil, h.user}
<1>1. \A d \in Datas : HSet(h, "data", d) \in Hashes /\ HSet(h, "data", d).user = h.user
  BY DEF HSet, Hashes
<1>2. \A p \in Profiles : HSet(h, "user", p) \in Hashes /\ HSet(h, "user", p).user = p
  BY DEF HSet, Hashes
<1>3. HDel(h, "data") \in Hashes /\ HDel(h, "data").user \in {Nil, h.user}
  BY MissingType DEF HDel, Hashes
<1>4. HDel(h, "user") \in Hashes /\ HDel(h, "user").user = Nil
  BY MissingType DEF HDel, Hashes
<1>5. \A t \in Nat : Expire(h, t) \in Hashes /\ Expire(h, t).user = h.user
  BY DEF Expire, Hashes
<1>6. Age(h, Missing) \in Hashes /\ Age(h, Missing).user \in {Nil, h.user}
  <2>1. h.ttl \in Nat
    BY DEF Hashes
  <2>2. CASE h.ttl \in {0, 1}
    BY <2>2, MissingType DEF Age
  <2>3. CASE h.ttl \notin {0, 1}
    <3>1. h.ttl - 1 \in Nat /\ Age(h, Missing) = [h EXCEPT !.ttl = @ - 1]
      BY <2>1, <2>3 DEF Age
    <3>. QED  BY <3>1 DEF Hashes
  <2>. QED  BY <2>2, <2>3
<1>. QED  BY <1>1, <1>2, <1>3, <1>4, <1>5, <1>6

(* HMSET of a read-out hash keeps the key a hash, with either's user. *)
LEMMA HMSetType ==
  ASSUME NEW h \in Hashes, NEW raw \in Hashes
  PROVE  HMSet(h, raw) \in Hashes /\ HMSet(h, raw).user \in {h.user, raw.user}
<1>1. /\ Over(raw.user, h.user) \in {h.user, raw.user}
      /\ Over(raw.data, h.data) \in {h.data, raw.data}
      /\ Over(raw.newid, h.newid) \in {h.newid, raw.newid}
      /\ Over(raw.server, h.server) \in {h.server, raw.server}
  BY DEF Over
<1>2. /\ h.user \in Profiles \cup {Nil} /\ raw.user \in Profiles \cup {Nil}
      /\ h.data \in Datas \cup {Nil} /\ raw.data \in Datas \cup {Nil}
      /\ h.newid \in Sids \cup {Nil} /\ raw.newid \in Sids \cup {Nil}
      /\ h.server \in {Nil} /\ raw.server \in {Nil} /\ h.ttl \in Nat
  BY DEF Hashes
<1>3. /\ Over(raw.user, h.user) \in Profiles \cup {Nil}
      /\ Over(raw.data, h.data) \in Datas \cup {Nil}
      /\ Over(raw.newid, h.newid) \in Sids \cup {Nil}
      /\ Over(raw.server, h.server) \in {Nil}
  BY <1>1, <1>2
<1>4. HMSet(h, raw) \in Hashes
  BY <1>2, <1>3 DEF HMSet, Hashes
<1>5. HMSet(h, raw).user = Over(raw.user, h.user)
  BY DEF HMSet
<1>. QED  BY <1>1, <1>4, <1>5

(* An object stays an object when one of its fields is assigned. *)
LEMMA Assigned ==
  ASSUME NEW o \in Objects
  PROVE  /\ \A v \in Points : [o EXCEPT !.pc = v] \in Objects
         /\ \A v \in Calls : [o EXCEPT !.op = v] \in Objects
         /\ \A v \in Rets : [o EXCEPT !.ret = v] \in Objects
         /\ \A v \in Sids \cup {Nil} : [o EXCEPT !.sid = v] \in Objects
         /\ \A v \in Nat : [o EXCEPT !.ttl = v] \in Objects
         /\ \A v \in {"none", "true", "false"} : [o EXCEPT !.touches = v] \in Objects
         /\ \A v \in Profiles \cup {Nil} : [o EXCEPT !.user = v] \in Objects
         /\ \A v \in BOOLEAN : [o EXCEPT !.loaded = v] \in Objects
         /\ \A v \in Sids \cup {Nil} : [o EXCEPT !.csid = v] \in Objects
         /\ \A v \in Profiles \cup {Nil} : [o EXCEPT !.cuser = v] \in Objects
         /\ \A v \in Hashes : [o EXCEPT !.raw = v] \in Objects
         /\ \A v \in Profiles \cup Datas \cup {Nil} : [o EXCEPT !.arg = v] \in Objects
         /\ \A v \in SUBSET Sids : [o EXCEPT !.todo = v] \in Objects
         /\ \A v \in SUBSET Sids : [o EXCEPT !.kept = v] \in Objects
         /\ \A v \in Sids \cup {Nil} : [o EXCEPT !.cur = v] \in Objects
         /\ [o EXCEPT !.mode = "none"] \in Objects
<1>1. \A v \in Points : [o EXCEPT !.pc = v] \in Objects
  BY DEF Objects
<1>2. \A v \in Calls : [o EXCEPT !.op = v] \in Objects
  BY DEF Objects
<1>3. \A v \in Rets : [o EXCEPT !.ret = v] \in Objects
  BY DEF Objects, Rets
<1>4. \A v \in Sids \cup {Nil} : [o EXCEPT !.sid = v] \in Objects
  BY DEF Objects
<1>5. \A v \in Nat : [o EXCEPT !.ttl = v] \in Objects
  BY DEF Objects
<1>6. \A v \in {"none", "true", "false"} : [o EXCEPT !.touches = v] \in Objects
  BY DEF Objects
<1>7. \A v \in Profiles \cup {Nil} : [o EXCEPT !.user = v] \in Objects
  BY DEF Objects
<1>8. \A v \in BOOLEAN : [o EXCEPT !.loaded = v] \in Objects
  BY DEF Objects
<1>9. \A v \in Sids \cup {Nil} : [o EXCEPT !.csid = v] \in Objects
  BY DEF Objects
<1>10. \A v \in Profiles \cup {Nil} : [o EXCEPT !.cuser = v] \in Objects
  BY DEF Objects
<1>11. \A v \in Hashes : [o EXCEPT !.raw = v] \in Objects
  BY DEF Objects
<1>12. \A v \in Profiles \cup Datas \cup {Nil} : [o EXCEPT !.arg = v] \in Objects
  BY DEF Objects
<1>13. \A v \in SUBSET Sids : [o EXCEPT !.todo = v] \in Objects
  BY DEF Objects
<1>14. \A v \in SUBSET Sids : [o EXCEPT !.kept = v] \in Objects
  BY DEF Objects
<1>15. \A v \in Sids \cup {Nil} : [o EXCEPT !.cur = v] \in Objects
  BY DEF Objects
<1>16. [o EXCEPT !.mode = "none"] \in Objects
  BY DEF Objects
<1>. QED  BY <1>1, <1>2, <1>3, <1>4, <1>5, <1>6, <1>7, <1>8, <1>9, <1>10, <1>11, <1>12, <1>13, <1>14, <1>15, <1>16

(* The points of Points that calls of this module reach. *)
LEMMA PointsReached ==
  {"closed", "ready", "user", "set", "get", "del", "touch", "raw", "load", "sadd",
   "mapexpire", "csrem", "cdel", "srem", "userdel", "destroydel", "smembers",
   "exists", "filtersrem", "hset", "ctouch"} \subseteq Points
BY DEF Points

(* A finished call holds on to its id only. *)
LEMMA ReturnGood ==
  ASSUME NEW o \in Objects, NEW v \in Rets, NEW own, NEW iss, Held(o, iss)
  PROVE  Good(Return(o, v), own, iss)
<1>1. Return(o, v) \in Objects
  BY Assigned, MissingType, PointsReached DEF Return
<1>2. /\ Return(o, v).pc = "ready" /\ Return(o, v).sid = o.sid /\ Return(o, v).op = o.op
      /\ Return(o, v).todo = {} /\ Return(o, v).kept = {}
  BY DEF Return, Objects
<1>3. Loyal(Return(o, v), own, iss)
  BY <1>2, Held(o, iss) DEF Loyal, Held, Listing, Serving
<1>. QED  BY <1>1, <1>3 DEF Good

LEMMA BoolType == ASSUME NEW b PROVE Bool(b) \in {"true", "false"}
BY DEF Bool
-----------------------------------------------------------------------------
(* The helpers on objects keep what a call may hold *)

(* An object whose call is in the course of, or never was in, a renewal. *)
Able(o, own, iss) == o \in Objects /\ Held(o, iss) /\ Serves(o, own)

(* To move an object to another command is to show that command's part. *)
LEMMA MoveGood ==
  ASSUME NEW o \in Objects, NEW pc \in Points, NEW own, NEW iss, Held(o, iss),
         pc \in Serving => Serves(o, own),
         pc \in {"raw", "load", "sadd", "mapexpire", "csrem", "cdel"} =>
           o.op \in Logins /\ o.csid \in Sids,
         pc = "load" => (o.raw.user # Nil => o.raw.user.uid = own[o.sid]),
         pc \in {"sadd", "mapexpire", "srem"} => o.user # Nil,
         pc = "csrem" => o.cuser # Nil,
         pc = "set" => o.arg \in Datas,
         pc \in Listing =>
           o.arg \in Profiles /\ o.todo \cup o.kept \subseteq Owned(o.arg.uid, own),
         pc = "filtersrem" => o.cur \in Sids,
         pc \in {"ready", "smembers"} => o.todo = {} /\ o.kept = {}
  PROVE  Good([o EXCEPT !.pc = pc], own, iss)
<1>. DEFINE p == [o EXCEPT !.pc = pc]
<1>1. p \in Objects
  BY Assigned
<1>2. /\ p.pc = pc /\ p.op = o.op /\ p.sid = o.sid /\ p.user = o.user /\ p.csid = o.csid
      /\ p.cuser = o.cuser /\ p.raw = o.raw /\ p.arg = o.arg /\ p.todo = o.todo
      /\ p.kept = o.kept /\ p.cur = o.cur
  BY DEF Objects
<1>. HIDE DEF p
<1>3. Loyal(p, own, iss)
  BY <1>2 DEF Loyal, Held, Serves, Serving
<1>. QED  BY <1>1, <1>3 DEF Good, p

LEMMA AfterRenewGood ==
  ASSUME NEW o, NEW own, NEW iss, Able(o, own, iss), o.op \in Logins
  PROVE  Good(AfterRenew(o), own, iss)
<1>1. /\ o \in Objects /\ Held(o, iss) /\ Serves(o, own)
      /\ o.csid \in Sids /\ o.op # "tryRenew"
  BY DEF Able, Serves, Held
<1>2. CASE o.cuser # Nil
  <2>1. Good([o EXCEPT !.pc = "csrem"], own, iss)
    BY <1>1, <1>2, MoveGood, PointsReached DEF Listing, Serving
  <2>. QED  BY <1>1, <1>2, <2>1 DEF AfterRenew
<1>3. CASE o.cuser = Nil
  <2>1. Good([o EXCEPT !.pc = "cdel"], own, iss)
    BY <1>1, MoveGood, PointsReached DEF Listing, Serving
  <2>. QED  BY <1>1, <1>3, <2>1 DEF AfterRenew
<1>. QED  BY <1>2, <1>3

(* mapping and unmapping are entered with a user only. *)
LEMMA AfterUserGood ==
  ASSUME NEW o, NEW own, NEW iss, Able(o, own, iss)
  PROVE  Good(AfterUser(o), own, iss)
<1>1. o \in Objects /\ Held(o, iss) /\ Serves(o, own) /\ o.op # "tryRenew"
  BY DEF Able, Held
<1>2. \A v \in {"true", "false"} : Good(Return(o, v), own, iss)
  BY <1>1, ReturnGood DEF Rets
<1>3. CASE o.op = "user"
  BY <1>2, <1>3, BoolType DEF AfterUser, Renewals
<1>4. CASE o.op \in Logins
  <2>1. CASE o.user = Nil
    BY <1>4, <2>1, AfterRenewGood DEF AfterUser, Logins, Renewals
  <2>2. CASE o.user # Nil
    <3>1. Good([o EXCEPT !.pc = "sadd"], own, iss)
      BY <1>1, <1>4, <2>2, MoveGood, PointsReached DEF Listing, Serving, Serves
    <3>2. AfterUser(o) = [o EXCEPT !.pc = "sadd"]
      BY <1>4, <2>2 DEF AfterUser, Logins, Renewals
    <3>. QED  BY <3>1, <3>2
  <2>. QED  BY <2>1, <2>2
<1>5. CASE o.op \notin Logins \cup {"user"}
  <2>1. o.user # Nil => Good([o EXCEPT !.pc = "srem"], own, iss)
    BY <1>1, MoveGood, PointsReached DEF Listing, Serving
  <2>2. Good([o EXCEPT !.pc = "destroydel"], own, iss)
    BY <1>1, MoveGood, PointsReached DEF Listing, Serving
  <2>3. Good(Unmap(o), own, iss)
    BY <1>2, <2>1, <2>2 DEF Unmap
  <2>. QED  BY <1>1, <1>5, <2>3 DEF AfterUser, Logins, Renewals
<1>. QED  BY <1>3, <1>4, <1>5

LEMMA UserGood ==
  ASSUME NEW o, NEW own, NEW iss, Able(o, own, iss)
  PROVE  Good(User(o), own, iss)
<1>1. Good([o EXCEPT !.pc = "user"], own, iss)
  BY MoveGood, PointsReached DEF Able, Listing, Serving
<1>. QED  BY <1>1, AfterUserGood DEF User

LEMMA AfterTouchGood ==
  ASSUME NEW o, NEW own, NEW iss, Able(o, own, iss)
  PROVE  Good(AfterTouch(o), own, iss)
<1>1. o \in Objects /\ Held(o, iss) /\ Serves(o, own)
  BY DEF Able
<1>2. \A v \in {"true", "false"} : Good(Return(o, v), own, iss)
  BY <1>1, ReturnGood DEF Rets
<1>3. Good([o EXCEPT !.loaded = FALSE, !.pc = "user"], own, iss)
  <2>. DEFINE p == [o EXCEPT !.loaded = FALSE]
  <2>1. p \in Objects
    BY <1>1, Assigned
  <2>2. Held(p, iss) /\ Serves(p, own)
    BY <1>1 DEF Held, Serves, Objects
  <2>. HIDE DEF p
  <2>3. Good([p EXCEPT !.pc = "user"], own, iss)
    BY <2>1, <2>2, MoveGood, PointsReached DEF Listing, Serving
  <2>. QED  BY <2>3 DEF p
<1>. QED  BY <1>2, <1>3, BoolType DEF AfterTouch

LEMMA TryTouchGood ==
  ASSUME NEW o, NEW own, NEW iss, Able(o, own, iss)
  PROVE  Good(TryTouch(o), own, iss)
<1>1. Good([o EXCEPT !.pc = "touch"], own, iss)
  BY MoveGood, PointsReached DEF Able, Listing, Serving
<1>. QED  BY <1>1, AfterTouchGood DEF TryTouch

(* sync goes on with ids of its own user. *)
LEMMA SyncingGood ==
  ASSUME NEW o \in Objects, NEW own, NEW iss, Held(o, iss), o.arg \in Profiles,
         o.todo \cup o.kept \subseteq Owned(o.arg.uid, own)
  PROVE  Good(Syncing(o), own, iss)
<1>1. \A pc \in {"exists", "hset"} : Good([o EXCEPT !.pc = pc, !.cur = Nil], own, iss)
  <2>. TAKE pc \in {"exists", "hset"}
  <2>. DEFINE p == [o EXCEPT !.cur = Nil]
  <2>1. p \in Objects
    BY Assigned
  <2>2. /\ Held(p, iss) /\ p.arg = o.arg /\ p.todo = o.todo /\ p.kept = o.kept
    BY DEF Held, Objects
  <2>. HIDE DEF p
  <2>3. Good([p EXCEPT !.pc = pc], own, iss)
    BY <2>1, <2>2, MoveGood, PointsReached DEF Listing, Serving
  <2>4. [p EXCEPT !.pc = pc] = [o EXCEPT !.pc = pc, !.cur = Nil]
    BY DEF p, Objects
  <2>. QED  BY <2>3, <2>4
<1>2. Good(Return(o, "true"), own, iss)
  BY ReturnGood DEF Rets
<1>. QED  BY <1>1, <1>2 DEF Syncing
-----------------------------------------------------------------------------
(* The forms of a step *)

UmapType(um) == um \in [Uids -> [sids : SUBSET Sids, ttl : Nat]]

(* The object of a request that is under way. *)
LEMMA Objs ==
  ASSUME IInv, NEW r \in Reqs, obj[r].pc # "closed"
  PROVE  /\ obj[r] \in Objects /\ Held(obj[r], issued) /\ obj[r].sid \in Sids
         /\ store[obj[r].sid] \in Hashes
         /\ Loyal(obj[r], owner, issued)
         /\ Good(Return(obj[r], "err"), owner, issued)
<1>1. obj[r] \in Objects /\ Held(obj[r], issued) /\ Loyal(obj[r], owner, issued)
  BY DEF IInv, TypeOK, Loyal
<1>2. obj[r].sid \in Sids /\ store[obj[r].sid] \in Hashes
  BY <1>1 DEF IInv, TypeOK, Held
<1>. QED  BY <1>1, <1>2, ReturnGood DEF Rets

(* A step of one request that leaves store and index alone. *)
LEMMA ObjStep ==
  ASSUME IInv, NEW r \in Reqs, NEW o, Good(o, owner, issued),
         obj' = [obj EXCEPT ![r] = o], UNCHANGED <<store, umap, issued, owner>>,
         known' \subseteq Sids \ Fresh, clock' = clock, faults' \in Nat
  PROVE  IInv'
<1>1. obj' \in [Reqs -> Objects] /\ obj'[r] = o /\ \A q \in Reqs \ {r} : obj'[q] = obj[q]
  BY DEF IInv, TypeOK, Good
<1>2. TypeOK'
  BY <1>1 DEF IInv, TypeOK, Fresh
<1>3. \A q \in Reqs : Loyal(obj'[q], owner', issued')
  BY <1>1 DEF IInv, Good
<1>. QED  BY <1>2, <1>3 DEF IInv

(* An await is sound when its command keeps store and index with their     *)
(* owners and both outcomes leave a sound object.                          *)
LEMMA AwaitStep ==
  ASSUME IInv, NEW r \in Reqs, NEW st, NEW um, NEW good, NEW bad, Await(r, st, um, good, bad),
         st \in [Sids -> Hashes], UmapType(um), StoreOwned(st, owner), IndexOwned(um, owner),
         Good(good, owner, issued), Good(bad, owner, issued)
  PROVE  IInv'
<1>1. /\ UNCHANGED <<issued, known, clock, owner>>
      /\ store' \in {store, st} /\ umap' \in {umap, um} /\ faults' \in Nat
      /\ \E o \in {good, bad} : obj' = [obj EXCEPT ![r] = o]
  BY DEF Await, IInv, TypeOK
<1>2. PICK o \in {good, bad} : obj' = [obj EXCEPT ![r] = o]
  BY <1>1
<1>3. obj' \in [Reqs -> Objects] /\ obj'[r] = o /\ \A q \in Reqs \ {r} : obj'[q] = obj[q]
  BY <1>2 DEF IInv, TypeOK, Good
<1>4. TypeOK'
  BY <1>1, <1>3 DEF IInv, TypeOK, UmapType, Fresh
<1>5. StoreOwned(store', owner') /\ IndexOwned(umap', owner')
  BY <1>1 DEF IInv
<1>6. \A q \in Reqs : Loyal(obj'[q], owner', issued')
  BY <1>1, <1>2, <1>3 DEF IInv, Good
<1>7. \A s \in Sids : issued'[s] = Nil => owner'[s] = Nil
  BY <1>1 DEF IInv
<1>. QED  BY <1>4, <1>5, <1>6, <1>7 DEF IInv

LEMMA AskStep ==
  ASSUME IInv, NEW r \in Reqs, NEW good, NEW bad, Ask(r, good, bad),
         Good(good, owner, issued), Good(bad, owner, issued)
  PROVE  IInv'
BY AwaitStep DEF Ask, IInv, TypeOK, UmapType

(* A write to one key: what it stores belongs to the owner of the key. *)
LEMMA WriteStep ==
  ASSUME IInv, NEW r \in Reqs, NEW s \in Sids, NEW h \in Hashes, NEW good,
         Write(r, s, h, good), obj[r].pc # "closed",
         h.user # Nil => h.user.uid = owner[s], Good(good, owner, issued)
  PROVE  IInv'
<1>. DEFINE st == [store EXCEPT ![s] = h]
<1>1. st \in [Sids -> Hashes]
  BY DEF IInv, TypeOK
<1>2. StoreOwned(st, owner)
  BY DEF IInv, TypeOK, StoreOwned
<1>3. Good(Return(obj[r], "err"), owner, issued)
  BY Objs
<1>4. UmapType(umap) /\ IndexOwned(umap, owner)
  BY DEF IInv, TypeOK, UmapType
<1>5. Await(r, st, umap, good, Return(obj[r], "err"))
  BY DEF Write
<1>. HIDE DEF st
<1>. QED  BY <1>1, <1>2, <1>3, <1>4, <1>5, AwaitStep

(* A command on the index entry of one user. *)
LEMMA IndexStep ==
  ASSUME IInv, NEW r \in Reqs, NEW u \in Uids, NEW m \in [sids : SUBSET Sids, ttl : Nat],
         NEW good, NEW bad, Await(r, store, [umap EXCEPT ![u] = m], good, bad),
         m.sids \subseteq Owned(u, owner),
         Good(good, owner, issued), Good(bad, owner, issued)
  PROVE  IInv'
<1>. DEFINE um == [umap EXCEPT ![u] = m]
<1>1. UmapType(um)
  BY DEF IInv, TypeOK, UmapType
<1>2. IndexOwned(um, owner)
  BY DEF IInv, TypeOK, IndexOwned
<1>3. store \in [Sids -> Hashes] /\ StoreOwned(store, owner)
  BY DEF IInv, TypeOK
<1>. HIDE DEF um
<1>. QED  BY <1>1, <1>2, <1>3, AwaitStep DEF um

(* The index commands: what they list is listed before, or what they add. *)
LEMMA IndexTypes ==
  ASSUME NEW m \in [sids : SUBSET Sids, ttl : Nat]
  PROVE  /\ \A s \in Sids : SAdd(m, s) \in [sids : SUBSET Sids, ttl : Nat]
                           /\ SAdd(m, s).sids = m.sids \cup {s}
         /\ \A s : SRem(m, s) \in [sids : SUBSET Sids, ttl : Nat]
                 /\ SRem(m, s).sids \subseteq m.sids
         /\ \A t \in Nat : ExpireSet(m, t) \in [sids : SUBSET Sids, ttl : Nat]
                          /\ ExpireSet(m, t).sids = m.sids
         /\ Age(m, EmptySet) \in [sids : SUBSET Sids, ttl : Nat]
         /\ Age(m, EmptySet).sids \subseteq m.sids
<1>1. \A s \in Sids : SAdd(m, s) \in [sids : SUBSET Sids, ttl : Nat]
                     /\ SAdd(m, s).sids = m.sids \cup {s}
  BY DEF SAdd
<1>2. \A s : SRem(m, s) \in [sids : SUBSET Sids, ttl : Nat] /\ SRem(m, s).sids \subseteq m.sids
  BY DEF SRem, EmptySet
<1>3. \A t \in Nat : ExpireSet(m, t) \in [sids : SUBSET Sids, ttl : Nat]
                    /\ ExpireSet(m, t).sids = m.sids
  BY DEF ExpireSet
<1>4. Age(m, EmptySet) \in [sids : SUBSET Sids, ttl : Nat] /\ Age(m, EmptySet).sids \subseteq m.sids
  BY DEF Age, EmptySet
<1>. QED  BY <1>1, <1>2, <1>3, <1>4
-----------------------------------------------------------------------------
(* Requests and calls *)

(* A new object holds the id it was made with. *)
LEMMA ObjectGood ==
  ASSUME NEW s \in Sids \cup {Nil}, NEW t \in Nat
  PROVE  Object(s, t) \in Objects
BY MissingType DEF Object, Objects, Points, Calls

LEMMA ClosedGood ==
  ASSUME NEW own, NEW iss
  PROVE  Good(Closed, own, iss)
<1>1. Closed \in Objects
  BY ObjectGood, Assigned, PointsReached DEF Closed
<1>2. Closed.pc = "closed"
  BY ObjectGood DEF Closed, Objects
<1>. QED  BY <1>1, <1>2 DEF Good, Loyal, Listing, Serving

LEMMA OpenedGood ==
  ASSUME NEW s \in Sids, NEW t \in Nat, NEW own, NEW iss, iss[s] # Nil
  PROVE  Good(Object(s, t), own, iss)
<1>1. /\ Object(s, t).pc = "ready" /\ Object(s, t).sid = s /\ Object(s, t).op = "none"
      /\ Object(s, t).todo = {} /\ Object(s, t).kept = {}
  BY DEF Object
<1>. QED  BY <1>1, ObjectGood DEF Good, Loyal, Held, Listing, Serving

(* Generating an id leaves what the other calls hold as it is. *)
LEMMA Generated ==
  ASSUME IInv, NEW n \in Fresh, NEW u, NEW i,
         owner' = [owner EXCEPT ![n] = u],
         issued' = [issued EXCEPT ![n] = i], i # Nil
  PROVE  /\ \A o \in Objects : Loyal(o, owner, issued) => Loyal(o, owner', issued')
         /\ StoreOwned(store, owner') /\ IndexOwned(umap, owner')
         /\ \A s \in Sids : issued'[s] = Nil => owner'[s] = Nil
<1>1. n \in Sids /\ issued[n] = Nil /\ owner[n] = Nil
  BY DEF Fresh, IInv
<1>2. \A s \in Sids \ {n} : owner'[s] = owner[s] /\ issued'[s] = issued[s]
  BY DEF IInv, TypeOK
<1>3. issued'[n] = i
  BY <1>1 DEF IInv, TypeOK
<1>4. \A v \in Uids : Owned(v, owner) \subseteq Owned(v, owner')
  BY <1>1, <1>2, Constants DEF Owned
<1>5. ASSUME NEW o \in Objects, Loyal(o, owner, issued)
      PROVE  Loyal(o, owner', issued')
  <2>1. o.pc # "closed" => o.sid # n /\ o.sid \in Sids /\ owner'[o.sid] = owner[o.sid]
    BY <1>1, <1>2, <1>5 DEF Loyal, Held
  <2>2. o.pc # "closed" => Held(o, issued')
    BY <1>2, <2>1, <1>5 DEF Loyal, Held
  <2>3. o.pc # "closed" => (Serves(o, owner) => Serves(o, owner'))
    BY <2>1 DEF Serves
  <2>4. o.arg \in Profiles => Owned(o.arg.uid, owner) \subseteq Owned(o.arg.uid, owner')
    BY <1>4, Constants
  <2>. QED  BY <1>5, <2>1, <2>2, <2>3, <2>4 DEF Loyal, Listing, Serving
<1>6. StoreOwned(store, owner')
  <2>. SUFFICES ASSUME NEW s \in Sids, store[s].user # Nil  PROVE store[s].user.uid = owner'[s]
    BY DEF StoreOwned
  <2>1. store[s].user \in Profiles /\ store[s].user.uid = owner[s]
    BY DEF IInv, StoreOwned, TypeOK, Hashes
  <2>. QED  BY <2>1, <1>1, <1>2, Constants
<1>7. IndexOwned(umap, owner')
  BY <1>4 DEF IInv, IndexOwned
<1>8. \A s \in Sids : issued'[s] = Nil => owner'[s] = Nil
  BY <1>2, <1>3 DEF IInv
<1>. QED  BY <1>5, <1>6, <1>7, <1>8

LEMMA OpenNewStep ==
  ASSUME IInv, NEW r \in Reqs, NEW s \in Sids, NEW t \in Ttls, OpenNew(r, s, t)
  PROVE  IInv'
<1>. DEFINE i == [ttl |-> t, born |-> clock]
<1>1. /\ s \in Fresh /\ issued' = [issued EXCEPT ![s] = i]
      /\ obj' = [obj EXCEPT ![r] = Object(s, t)]
      /\ UNCHANGED <<store, umap, known, clock, faults, owner>>
  BY DEF OpenNew
<1>2. i \in [ttl : Nat, born : Nat] /\ i # Nil
  BY Constants DEF IInv, TypeOK
<1>. HIDE DEF i
<1>3. owner' = [owner EXCEPT ![s] = owner[s]]
  BY <1>1 DEF IInv, TypeOK
<1>4. /\ \A o \in Objects : Loyal(o, owner, issued) => Loyal(o, owner', issued')
      /\ StoreOwned(store, owner') /\ IndexOwned(umap, owner')
      /\ \A x \in Sids : issued'[x] = Nil => owner'[x] = Nil
  BY <1>1, <1>2, <1>3, Generated
<1>5. issued' \in [Sids -> [ttl : Nat, born : Nat] \cup {Nil}] /\ issued'[s] # Nil
  BY <1>1, <1>2 DEF IInv, TypeOK
<1>6. Good(Object(s, t), owner', issued')
  BY <1>5, OpenedGood, Constants
<1>7. obj' \in [Reqs -> Objects] /\ \A q \in Reqs : Loyal(obj'[q], owner', issued')
  BY <1>1, <1>4, <1>6 DEF IInv, TypeOK, Good
<1>8. known' \subseteq Sids \ Fresh'
  BY <1>1, <1>2 DEF IInv, TypeOK, Fresh
<1>9. TypeOK'
  BY <1>1, <1>5, <1>7, <1>8 DEF IInv, TypeOK
<1>. QED  BY <1>1, <1>4, <1>7, <1>9 DEF IInv

LEMMA OpenWithStep ==
  ASSUME IInv, NEW r \in Reqs, NEW s \in Sids, OpenWith(r, s)
  PROVE  IInv'
<1>1. issued[s] \in [ttl : Nat, born : Nat] /\ issued[s] # Nil
  BY DEF OpenWith, IInv, TypeOK, Fresh
<1>2. issued[s].ttl \in Nat
  BY <1>1, Constants
<1>3. Good(Object(s, issued[s].ttl), owner, issued)
  BY <1>1, <1>2, OpenedGood
<1>. QED  BY <1>3, ObjStep DEF OpenWith, IInv, TypeOK

LEMMA CloseStep ==
  ASSUME IInv, NEW r \in Reqs, Close(r)
  PROVE  IInv'
<1>1. obj[r].sid \in Sids \ Fresh
  BY Objs DEF Close, Held, Fresh
<1>2. known' \subseteq Sids \ Fresh /\ faults' \in Nat
  BY <1>1 DEF Close, IInv, TypeOK
<1>. QED  BY <1>2, ClosedGood, ObjStep DEF Close

LEMMA DropStep ==
  ASSUME IInv, NEW r \in Reqs, Drop(r)
  PROVE  IInv'
<1>1. known' \subseteq Sids \ Fresh /\ faults' \in Nat
  BY DEF Drop, IInv, TypeOK
<1>. QED  BY <1>1, ClosedGood, ObjStep DEF Drop

LEMMA TickStep ==
  ASSUME IInv, Tick
  PROVE  IInv'
<1>1. \A s \in Sids : store'[s] \in Hashes /\ store'[s].user \in {Nil, store[s].user}
  BY HashTypes DEF Tick, IInv, TypeOK
<1>2. \A u \in Uids : /\ umap'[u] \in [sids : SUBSET Sids, ttl : Nat]
                      /\ umap'[u].sids \subseteq umap[u].sids
  BY IndexTypes DEF Tick, IInv, TypeOK
<1>3. TypeOK'
  BY <1>1, <1>2 DEF Tick, IInv, TypeOK, Fresh
<1>4. StoreOwned(store', owner') /\ IndexOwned(umap', owner')
  BY <1>1, <1>2 DEF Tick, IInv, StoreOwned, IndexOwned
<1>. QED  BY <1>3, <1>4 DEF IInv, Tick
(* A call that starts. *)
LEMMA BeginGood ==
  ASSUME NEW o \in Objects, NEW op \in Calls \ {"tryRenew", "condemn"},
         NEW own, NEW iss, Held(o, iss)
  PROVE  /\ Begin(o, op) \in Objects /\ Held(Begin(o, op), iss)
         /\ Begin(o, op).op = op /\ Begin(o, op).user = o.user
         /\ Begin(o, op).todo = o.todo /\ Begin(o, op).kept = o.kept
         /\ op \notin Logins => Able(Begin(o, op), own, iss)
<1>1. Begin(o, op) \in Objects
  BY Assigned DEF Begin, Rets
<1>2. /\ Begin(o, op).op = op /\ Begin(o, op).user = o.user /\ Begin(o, op).sid = o.sid
      /\ Begin(o, op).todo = o.todo /\ Begin(o, op).kept = o.kept
  BY DEF Begin, Objects
<1>. QED  BY <1>1, <1>2 DEF Able, Held, Serves

LEMMA CallStep ==
  ASSUME IInv, NEW r \in Reqs, NEW op, NEW o, Call(r, op, o), Good(o, owner, issued)
  PROVE  IInv'
BY ObjStep DEF Call, IInv, TypeOK

(* log_in without the user it is for: the clone holds the old id. *)
LEMMA LogInGood ==
  ASSUME NEW o \in Objects, NEW own, NEW iss, Held(o, iss), o.op \in Logins,
         NEW p \in Profiles \cup {Nil}, NEW t \in Nat
  PROVE  /\ Good(LogIn(o), own, iss)
         /\ Good([LogIn(o) EXCEPT !.user = p, !.ttl = t], own, iss)
<1>1. o.sid \in Sids /\ o.user \in Profiles \cup {Nil}
  BY DEF Held, Objects
<1>2. LogIn(o) \in Objects
  BY <1>1, Assigned, PointsReached DEF LogIn
<1>3. /\ LogIn(o).pc = "raw" /\ LogIn(o).op = o.op /\ LogIn(o).sid = o.sid
      /\ LogIn(o).csid = o.sid
  BY DEF LogIn, Objects
<1>4. Loyal(LogIn(o), own, iss)
  BY <1>1, <1>3 DEF Loyal, Held, Listing, Serving
<1>. DEFINE l == [LogIn(o) EXCEPT !.user = p, !.ttl = t]
<1>5. l \in Objects
  BY <1>2, Assigned
<1>6. l.pc = "raw" /\ l.op = o.op /\ l.sid = o.sid /\ l.csid = o.sid
  BY <1>2, <1>3 DEF Objects
<1>. HIDE DEF l
<1>7. Loyal(l, own, iss)
  BY <1>1, <1>6 DEF Loyal, Held, Listing, Serving
<1>. QED  BY <1>2, <1>4, <1>5, <1>7 DEF Good, l

LEMMA AnyCallStep ==
  ASSUME IInv, NEW r \in Reqs, AnyCall(r)
  PROVE  IInv'
<1>. DEFINE o == obj[r]
            B(op) == Begin(o, op)
<1>1. obj[r].pc = "ready"
  BY DEF AnyCall, CallUser, CallSet, CallGet, CallDel, CallTouch, CallLogin, CallAutoLogin,
         CallLogout, CallDestroy, CallSync, Call
<1>2. o \in Objects /\ Held(o, issued) /\ o.todo = {} /\ o.kept = {}
  BY <1>1, Objs DEF Loyal, Serving
<1>3. \A op \in Calls \ {"tryRenew", "condemn"} :
        /\ B(op) \in Objects /\ Held(B(op), issued)
        /\ B(op).op = op /\ B(op).todo = {} /\ B(op).kept = {}
        /\ op \notin Logins => Able(B(op), owner, issued)
  BY <1>2, BeginGood
<1>. HIDE DEF B
<1>4. \A op \in {"user", "set", "get", "del", "touch", "logout", "destroy", "sync"} :
        B(op) \in Objects /\ Held(B(op), issued) /\ Able(B(op), owner, issued)
  BY <1>3 DEF Calls, Logins
<1>5. CASE CallUser(r)
  BY <1>4, <1>5, UserGood, CallStep DEF CallUser, B
<1>6. CASE CallGet(r)
  <2>1. Good([B("get") EXCEPT !.pc = "get"], owner, issued)
    BY <1>4, MoveGood, PointsReached DEF Able, Listing, Serving
  <2>. QED  BY <1>6, <2>1, CallStep DEF CallGet, B
<1>7. CASE CallDel(r)
  <2>1. Good([B("del") EXCEPT !.pc = "del"], owner, issued)
    BY <1>4, MoveGood, PointsReached DEF Able, Listing, Serving
  <2>. QED  BY <1>7, <2>1, CallStep DEF CallDel, B
<1>8. CASE CallTouch(r)
  BY <1>4, <1>8, TryTouchGood, CallStep DEF CallTouch, B
<1>9. CASE CallLogout(r)
  BY <1>4, <1>9, UserGood, CallStep DEF CallLogout, B
<1>10. CASE CallDestroy(r)
  BY <1>4, <1>10, UserGood, CallStep DEF CallDestroy, B
<1>11. CASE CallAutoLogin(r)
  <2>1. /\ B("autoLogin") \in Objects /\ Held(B("autoLogin"), issued)
        /\ B("autoLogin").op \in Logins
    BY <1>3 DEF Calls, Logins
  <2>2. Good(LogIn(B("autoLogin")), owner, issued)
    BY <2>1, LogInGood
  <2>. QED  BY <1>11, <2>2, CallStep DEF CallAutoLogin, B
<1>12. ASSUME NEW p \in Profiles, NEW t \in Ttls, CallLogin(r, p, t)
       PROVE  IInv'
  <2>1. /\ B("login") \in Objects /\ Held(B("login"), issued) /\ B("login").op \in Logins
    BY <1>3 DEF Calls, Logins
  <2>2. Good([LogIn(B("login")) EXCEPT !.user = p, !.ttl = t], owner, issued)
    BY <2>1, LogInGood, Constants
  <2>. QED  BY <1>12, <2>2, CallStep DEF CallLogin, B
<1>13. ASSUME NEW d \in Datas, CallSet(r, d)
       PROVE  IInv'
  <2>. DEFINE a == [B("set") EXCEPT !.arg = d]
  <2>1. a \in Objects
    BY <1>4, Assigned
  <2>2. Held(a, issued) /\ Serves(a, owner) /\ a.arg = d
    BY <1>4 DEF Able, Held, Serves, Objects
  <2>. HIDE DEF a
  <2>3. Good([a EXCEPT !.pc = "set"], owner, issued)
    BY <2>1, <2>2, MoveGood, PointsReached DEF Listing, Serving
  <2>. QED  BY <1>13, <2>3, CallStep DEF CallSet, B, a
<1>14. ASSUME NEW p \in Profiles, CallSync(r, p)
       PROVE  IInv'
  <2>. DEFINE a == [B("sync") EXCEPT !.arg = p]
  <2>1. a \in Objects
    BY <1>4, Assigned
  <2>2. B("sync").todo = {} /\ B("sync").kept = {}
    BY <1>3 DEF Calls
  <2>3. Held(a, issued) /\ a.arg = p /\ a.todo = {} /\ a.kept = {}
    BY <1>4, <2>2 DEF Held, Objects
  <2>. HIDE DEF a
  <2>4. Good([a EXCEPT !.pc = "smembers"], owner, issued)
    BY <2>1, <2>3, MoveGood, PointsReached DEF Listing, Serving
  <2>. QED  BY <1>14, <2>4, CallStep DEF CallSync, B, a
<1>. QED  BY <1>5, <1>6, <1>7, <1>8, <1>9, <1>10, <1>11, <1>12, <1>13, <1>14 DEF AnyCall
-----------------------------------------------------------------------------
(* The awaits *)

(* What a request under way may do whichever command it is at. *)
LEMMA UnderWay ==
  ASSUME IInv, NEW r \in Reqs, obj[r].pc # "closed"
  PROVE  \A v \in Rets : Good(Return(obj[r], v), owner, issued)
BY Objs, ReturnGood

(* user() finds the user of the id, which is the one the id is owned by. *)
LEMMA LoadUserStep ==
  ASSUME IInv, NEW r \in Reqs, LoadUser(r)
  PROVE  IInv'
<1>. DEFINE o == [obj[r] EXCEPT !.loaded = TRUE]
            u == store[o.sid].user
            f == [o EXCEPT !.user = u]
<1>1. obj[r].pc = "user"
  BY DEF LoadUser, At
<1>2. obj[r] \in Objects /\ Held(obj[r], issued) /\ Serves(obj[r], owner)
  BY <1>1, Objs DEF Loyal, Serving
<1>3. o \in Objects
  BY <1>2, Assigned
<1>4. o.sid = obj[r].sid /\ o.op = obj[r].op /\ o.user = obj[r].user /\ o.csid = obj[r].csid
  BY <1>2 DEF Objects
<1>5. Able(o, owner, issued)
  BY <1>2, <1>3, <1>4 DEF Able, Held, Serves
<1>. HIDE DEF o
<1>6. ASSUME u # Nil
      PROVE  Able(f, owner, issued)
  <2>1. u \in Profiles /\ u.uid = owner[o.sid]
    BY <1>2, <1>4, <1>6 DEF IInv, TypeOK, StoreOwned, Held, Hashes
  <2>2. f \in Objects
    BY <1>3, <2>1, Assigned
  <2>3. f.sid = o.sid /\ f.op = o.op /\ f.user = u /\ f.csid = o.csid
    BY <1>3 DEF Objects
  <2>. QED  BY <1>5, <2>1, <2>2, <2>3 DEF Able, Held, Serves
<1>7. /\ Good(AfterUser(o), owner, issued)
      /\ u # Nil => Good(AfterUser(f), owner, issued)
  BY <1>5, <1>6, AfterUserGood
<1>8. Ask(r, AfterUser(IF u = Nil THEN o ELSE f), AfterUser(o))
  BY DEF LoadUser, o
<1>. QED  BY <1>7, <1>8, AskStep

LEMMA SilentSetStep ==
  ASSUME IInv, NEW r \in Reqs, SilentSet(r)
  PROVE  IInv'
<1>. DEFINE o == obj[r]
            h == HSet(store[o.sid], "data", o.arg)
<1>1. o.pc = "set"
  BY DEF SilentSet, At
<1>2. o \in Objects /\ Held(o, issued) /\ o.sid \in Sids /\ o.arg \in Datas
  BY <1>1, Objs DEF Loyal, Serving
<1>3. h \in Hashes /\ h.user = store[o.sid].user
  BY <1>1, <1>2, Objs, HashTypes
<1>4. h.user # Nil => h.user.uid = owner[o.sid]
  BY <1>2, <1>3 DEF IInv, StoreOwned
<1>5. Good(TryTouch(o), owner, issued)
  BY <1>1, <1>2, Objs, TryTouchGood DEF Able, Loyal, Serving
<1>6. Write(r, o.sid, h, TryTouch(o))
  BY DEF SilentSet
<1>. HIDE DEF o, h
<1>. QED  BY <1>1, <1>2, <1>3, <1>4, <1>5, <1>6, WriteStep DEF o
LEMMA SilentGetStep ==
  ASSUME IInv, NEW r \in Reqs, SilentGet(r)
  PROVE  IInv'
<1>1. obj[r].pc = "get"
  BY DEF SilentGet, At
<1>2. Good(TryTouch(obj[r]), owner, issued)
  BY <1>1, Objs, TryTouchGood DEF Able, Loyal, Serving
<1>3. Good(Return(obj[r], "err"), owner, issued)
  BY <1>1, UnderWay DEF Rets
<1>. QED  BY <1>2, <1>3, AskStep DEF SilentGet

LEMMA SilentDelStep ==
  ASSUME IInv, NEW r \in Reqs, SilentDel(r)
  PROVE  IInv'
<1>. DEFINE o == obj[r]
            h == HDel(store[o.sid], "data")
            good == IF store[o.sid].data = Nil THEN Return(o, "false") ELSE TryTouch(o)
<1>1. o.pc = "del"
  BY DEF SilentDel, At
<1>2. o.sid \in Sids /\ h \in Hashes /\ h.user \in {Nil, store[o.sid].user}
  BY <1>1, Objs, HashTypes
<1>3. h.user # Nil => h.user.uid = owner[o.sid]
  BY <1>2 DEF IInv, StoreOwned
<1>4. Good(TryTouch(o), owner, issued)
  BY <1>1, Objs, TryTouchGood DEF Able, Loyal, Serving
<1>5. Good(good, owner, issued)
  BY <1>1, <1>4, UnderWay DEF Rets
<1>6. Write(r, o.sid, h, good)
  BY DEF SilentDel
<1>. HIDE DEF o, h, good
<1>. QED  BY <1>1, <1>2, <1>3, <1>5, <1>6, WriteStep DEF o

LEMMA TouchStep ==
  ASSUME IInv, NEW r \in Reqs, Touch(r)
  PROVE  IInv'
<1>. DEFINE o == obj[r]
            h == Expire(store[o.sid], o.ttl)
            b == Bool(Exists(store[o.sid]))
            p == [o EXCEPT !.touches = b]
<1>1. o.pc = "touch"
  BY DEF Touch, At
<1>2. o \in Objects /\ o.sid \in Sids /\ o.ttl \in Nat /\ Held(o, issued) /\ Serves(o, owner)
  BY <1>1, Objs DEF Loyal, Serving, Objects
<1>3. h \in Hashes /\ h.user = store[o.sid].user
  BY <1>1, <1>2, Objs, HashTypes
<1>4. h.user # Nil => h.user.uid = owner[o.sid]
  BY <1>2, <1>3 DEF IInv, StoreOwned
<1>5. Good(AfterTouch(p), owner, issued)
  <2>1. b \in {"none", "true", "false"}
    BY DEF Bool
  <2>2. p \in Objects
    BY <1>2, <2>1, Assigned
  <2>3. p.sid = o.sid /\ p.op = o.op /\ p.user = o.user /\ p.csid = o.csid
    BY <1>2 DEF Objects
  <2>. HIDE DEF p
  <2>. QED  BY <1>2, <2>2, <2>3, AfterTouchGood DEF Able, Held, Serves
<1>6. Write(r, o.sid, h, AfterTouch(p))
  BY DEF Touch
<1>. HIDE DEF o, h, b, p
<1>. QED  BY <1>1, <1>2, <1>3, <1>4, <1>5, <1>6, WriteStep DEF o

(***************************************************************************)
(* The new id is for the user cached in the object, or, for auto_login of  *)
(* an object that cached none, for the user read with the old session.     *)
(***************************************************************************)
LEMMA RenewedGood ==
  ASSUME IInv, NEW r \in Reqs, obj[r].pc = "raw", NEW n \in Sids, NEW own, NEW iss,
         iss[n] # Nil,
         NEW raw, raw = Filtered(obj[r], store[obj[r].sid]),
         own[n] = UidOf(IF raw.user = Nil THEN obj[r].user ELSE raw.user)
  PROVE  Good(Renewed(obj[r], n, raw), own, iss)
<1>. DEFINE o == obj[r]
            h == store[o.sid]
            f == [o EXCEPT !.sid = n, !.touches = "none"]
<1>1. /\ o \in Objects /\ h \in Hashes /\ o.csid \in Sids
      /\ o.op \in Logins /\ o.user \in Profiles \cup {Nil}
  BY Objs DEF Loyal, Objects
<1>2. raw \in Hashes /\ (o.user # Nil => raw.user = o.user)
  <2>1. raw = IF o.user # Nil THEN [h EXCEPT !.user = o.user] ELSE h
    BY <1>1 DEF Filtered, Logins
  <2>. QED  BY <1>1, <2>1 DEF Hashes
<1>3. o.user # Nil => own[n] = o.user.uid
  BY <1>1, <1>2 DEF UidOf
<1>4. raw.user # Nil => own[n] = raw.user.uid
  BY DEF UidOf
<1>5. f \in Objects
  BY <1>1, Assigned
<1>6. f.sid = n /\ f.op = o.op /\ f.user = o.user /\ f.csid = o.csid
  BY <1>1 DEF Objects
<1>. HIDE DEF f
<1>7. Held(f, iss) /\ Serves(f, own)
  BY <1>1, <1>3, <1>6 DEF Held, Serves, Logins
<1>8. Good([f EXCEPT !.raw = [raw EXCEPT !.ttl = 0], !.pc = "load"], own, iss)
  <2>. DEFINE q == [raw EXCEPT !.ttl = 0]
              g == [f EXCEPT !.raw = q]
  <2>1. q \in Hashes /\ q.user = raw.user
    BY <1>2 DEF Hashes
  <2>. HIDE DEF q
  <2>2. g \in Objects
    BY <1>5, <2>1, Assigned
  <2>3. g.raw = q /\ g.sid = f.sid /\ g.op = f.op /\ g.user = f.user /\ g.csid = f.csid
    BY <1>5 DEF Objects
  <2>. HIDE DEF g
  <2>4. Held(g, iss) /\ Serves(g, own)
    BY <1>7, <2>3 DEF Held, Serves
  <2>5. g.raw.user # Nil => g.raw.user.uid = own[g.sid]
    BY <1>4, <1>6, <2>1, <2>3
  <2>6. g.op \in Logins /\ g.csid \in Sids
    BY <1>1, <1>6, <2>3
  <2>7. Good([g EXCEPT !.pc = "load"], own, iss)
    BY <2>2, <2>4, <2>5, <2>6, MoveGood, PointsReached DEF Listing
  <2>. QED  BY <2>7 DEF g, q
<1>9. Good([f EXCEPT !.loaded = FALSE, !.pc = "user"], own, iss)
  <2>. DEFINE g == [f EXCEPT !.loaded = FALSE]
  <2>1. g \in Objects
    BY <1>5, Assigned
  <2>2. g.sid = f.sid /\ g.op = f.op /\ g.user = f.user /\ g.csid = f.csid
    BY <1>5 DEF Objects
  <2>. HIDE DEF g
  <2>3. Held(g, iss) /\ Serves(g, own)
    BY <1>7, <2>2 DEF Held, Serves
  <2>4. Good([g EXCEPT !.pc = "user"], own, iss)
    BY <2>1, <2>3, MoveGood, PointsReached DEF Listing
  <2>. QED  BY <2>4 DEF g
<1>. QED  BY <1>8, <1>9 DEF Renewed, f
LEMMA RawStep ==
  ASSUME IInv, NEW r \in Reqs, Raw(r)
  PROVE  IInv'
<1>. DEFINE o == obj[r]
            raw == Filtered(o, store[o.sid])
            u == UidOf(IF raw.user = Nil THEN o.user ELSE raw.user)
            i == [ttl |-> o.ttl, born |-> clock]
<1>1. o.pc = "raw" /\ UNCHANGED <<store, umap, known, clock>>
  BY DEF Raw, At
<1>2. o \in Objects /\ Held(o, issued) /\ o.user \in Profiles \cup {Nil}
  BY <1>1, Objs DEF Objects
<1>3. ASSUME NEW n \in Fresh, issued' = [issued EXCEPT ![n] = i],
             obj' = [obj EXCEPT ![r] = Renewed(o, n, raw)],
             owner' = [owner EXCEPT ![n] = u], UNCHANGED faults
      PROVE  IInv'
  <2>1. o.ttl \in Nat /\ i \in [ttl : Nat, born : Nat] /\ i # Nil /\ n \in Sids
    BY <1>2, Constants DEF IInv, TypeOK, Objects, Fresh
  <2>2. u \in Uids \cup {Nil}
    <3>1. store[o.sid] \in Hashes /\ o.op \in Logins
      BY <1>1, Objs DEF Loyal
    <3>2. raw.user \in {o.user, store[o.sid].user}
      BY <3>1 DEF Filtered, Logins, Hashes
    <3>3. raw.user \in Profiles \cup {Nil}
      BY <1>2, <3>1, <3>2 DEF Hashes
    <3>. QED  BY <1>2, <3>3, Constants DEF UidOf
  <2>3. issued'[n] # Nil /\ owner'[n] = u
    BY <1>3, <2>1 DEF IInv, TypeOK
  <2>4. Good(Renewed(o, n, raw), owner', issued')
    BY <1>1, <2>1, <2>3, RenewedGood
  <2>. HIDE DEF o, raw, u, i
  <2>5. /\ \A p \in Objects : Loyal(p, owner, issued) => Loyal(p, owner', issued')
        /\ StoreOwned(store, owner') /\ IndexOwned(umap, owner')
        /\ \A s \in Sids : issued'[s] = Nil => owner'[s] = Nil
    BY <1>3, <2>1, Generated
  <2>6. obj' \in [Reqs -> Objects] /\ \A q \in Reqs : Loyal(obj'[q], owner', issued')
    BY <1>3, <2>4, <2>5 DEF IInv, TypeOK, Good
  <2>7. /\ issued' \in [Sids -> [ttl : Nat, born : Nat] \cup {Nil}]
        /\ owner' \in [Sids -> Uids \cup {Nil}]
        /\ known' \subseteq Sids \ Fresh'
    BY <1>1, <1>3, <2>1, <2>2 DEF IInv, TypeOK, Fresh
  <2>8. TypeOK'
    BY <1>1, <1>3, <2>6, <2>7 DEF IInv, TypeOK
  <2>. QED  BY <1>1, <2>5, <2>6, <2>8 DEF IInv
<1>4. CASE obj' = [obj EXCEPT ![r] = Return([o EXCEPT !.touches = "none"], "err")]
           /\ UNCHANGED <<issued, owner, faults>>
  <2>. DEFINE p == [o EXCEPT !.touches = "none"]
  <2>1. p \in Objects
    BY <1>2, Assigned
  <2>2. Held(p, issued)
    BY <1>2 DEF Held, Objects
  <2>3. Good(Return(p, "err"), owner, issued)
    BY <2>1, <2>2, ReturnGood DEF Rets
  <2>. QED  BY <1>1, <1>4, <2>3, ObjStep DEF IInv, TypeOK
<1>5. CASE obj' = [obj EXCEPT ![r] = Return(o, "err")] /\ faults' = faults + 1
           /\ UNCHANGED <<issued, owner>>
  <2>1. Good(Return(o, "err"), owner, issued)
    BY <1>1, UnderWay DEF Rets
  <2>2. known' \subseteq Sids \ Fresh /\ faults' \in Nat
    BY <1>1, <1>5 DEF IInv, TypeOK
  <2>. QED  BY <1>1, <1>5, <2>1, <2>2, ObjStep
<1>6. \/ \E n \in Fresh :
           /\ issued' = [issued EXCEPT ![n] = i]
           /\ obj' = [obj EXCEPT ![r] = Renewed(o, n, raw)]
           /\ owner' = [owner EXCEPT ![n] = u] /\ UNCHANGED faults
      \/ /\ obj' = [obj EXCEPT ![r] = Return([o EXCEPT !.touches = "none"], "err")]
         /\ UNCHANGED <<issued, owner, faults>>
      \/ /\ obj' = [obj EXCEPT ![r] = Return(o, "err")] /\ faults' = faults + 1
         /\ UNCHANGED <<issued, owner>>
  BY DEF Raw
<1>7. CASE \E n \in Fresh :
           /\ issued' = [issued EXCEPT ![n] = i]
           /\ obj' = [obj EXCEPT ![r] = Renewed(o, n, raw)]
           /\ owner' = [owner EXCEPT ![n] = u] /\ UNCHANGED faults
  BY <1>3, <1>7
<1>. QED  BY <1>4, <1>5, <1>6, <1>7
LEMMA LoadStep ==
  ASSUME IInv, NEW r \in Reqs, Load(r)
  PROVE  IInv'
<1>. DEFINE o == [obj[r] EXCEPT !.raw = Missing]
            h == HMSet(store[o.sid], obj[r].raw)
<1>1. obj[r].pc = "load"
  BY DEF Load, At
<1>2. /\ obj[r] \in Objects /\ obj[r].sid \in Sids /\ obj[r].raw \in Hashes
      /\ Held(obj[r], issued) /\ Serves(obj[r], owner) /\ store[obj[r].sid] \in Hashes
      /\ obj[r].raw.user # Nil => obj[r].raw.user.uid = owner[obj[r].sid]
  BY <1>1, Objs DEF Loyal, Serving, Objects
<1>3. o \in Objects
  BY <1>2, MissingType, Assigned
<1>4. o.sid = obj[r].sid /\ o.op = obj[r].op /\ o.user = obj[r].user /\ o.csid = obj[r].csid
  BY <1>2 DEF Objects
<1>. HIDE DEF o
<1>5. h \in Hashes /\ h.user \in {store[o.sid].user, obj[r].raw.user}
  BY <1>2, <1>4, HMSetType
<1>6. h.user # Nil => h.user.uid = owner[o.sid]
  BY <1>2, <1>4, <1>5 DEF IInv, StoreOwned
<1>7. Good(TryTouch(o), owner, issued)
  BY <1>2, <1>3, <1>4, TryTouchGood DEF Able, Held, Serves
<1>8. Write(r, o.sid, h, TryTouch(o))
  BY DEF Load, o
<1>. HIDE DEF h
<1>. QED  BY <1>1, <1>2, <1>4, <1>5, <1>6, <1>7, <1>8, WriteStep

(* mapping lists the new id for the user it was generated for. *)
LEMMA MappingAddStep ==
  ASSUME IInv, NEW r \in Reqs, MappingAdd(r)
  PROVE  IInv'
<1>. DEFINE o == obj[r]
            u == o.user.uid
            m == SAdd(umap[u], o.sid)
<1>1. o.pc = "sadd"
  BY DEF MappingAdd, At
<1>2. /\ o \in Objects /\ o.sid \in Sids /\ Held(o, issued) /\ Serves(o, owner)
      /\ o.op \in Logins /\ o.csid \in Sids /\ o.user # Nil
  BY <1>1, Objs DEF Loyal, Serving
<1>3. o.user \in Profiles /\ u \in Uids /\ owner[o.sid] = u
  BY <1>2, Constants DEF Objects, Serves
<1>4. umap[u] \in [sids : SUBSET Sids, ttl : Nat] /\ umap[u].sids \subseteq Owned(u, owner)
  BY <1>3 DEF IInv, TypeOK, IndexOwned
<1>5. m \in [sids : SUBSET Sids, ttl : Nat] /\ m.sids = umap[u].sids \cup {o.sid}
  BY <1>2, <1>4, IndexTypes
<1>6. m.sids \subseteq Owned(u, owner)
  BY <1>2, <1>3, <1>4, <1>5 DEF Owned
<1>7. Good([o EXCEPT !.pc = "mapexpire"], owner, issued)
  BY <1>2, MoveGood, PointsReached DEF Listing
<1>8. Good(AfterRenew(o), owner, issued)
  BY <1>2, AfterRenewGood DEF Able
<1>9. Await(r, store, [umap EXCEPT ![u] = m], [o EXCEPT !.pc = "mapexpire"], AfterRenew(o))
  BY <1>3 DEF MappingAdd, IInv, TypeOK
<1>. HIDE DEF o, u, m
<1>. QED  BY <1>3, <1>5, <1>6, <1>7, <1>8, <1>9, IndexStep

LEMMA MappingExpireStep ==
  ASSUME IInv, NEW r \in Reqs, MappingExpire(r)
  PROVE  IInv'
<1>. DEFINE o == obj[r]
            u == o.user.uid
            m == ExpireSet(umap[u], MapTtl)
<1>1. o.pc = "mapexpire"
  BY DEF MappingExpire, At
<1>2. /\ o \in Objects /\ Held(o, issued) /\ Serves(o, owner) /\ o.op \in Logins /\ o.user # Nil
  BY <1>1, Objs DEF Loyal, Serving
<1>3. o.user \in Profiles /\ u \in Uids
  BY <1>2, Constants DEF Objects
<1>4. umap[u] \in [sids : SUBSET Sids, ttl : Nat] /\ umap[u].sids \subseteq Owned(u, owner)
  BY <1>3 DEF IInv, TypeOK, IndexOwned
<1>5. m \in [sids : SUBSET Sids, ttl : Nat] /\ m.sids = umap[u].sids
  BY <1>4, IndexTypes, Constants
<1>6. Good(AfterRenew(o), owner, issued)
  BY <1>2, AfterRenewGood DEF Able
<1>7. Await(r, store, [umap EXCEPT ![u] = m], AfterRenew(o), AfterRenew(o))
  BY <1>3 DEF MappingExpire, IInv, TypeOK
<1>. HIDE DEF o, u, m
<1>. QED  BY <1>3, <1>4, <1>5, <1>6, <1>7, IndexStep

LEMMA ClonedUnmappingStep ==
  ASSUME IInv, NEW r \in Reqs, ClonedUnmapping(r)
  PROVE  IInv'
<1>. DEFINE o == obj[r]
            u == o.cuser.uid
            m == SRem(umap[u], o.csid)
<1>1. o.pc = "csrem"
  BY DEF ClonedUnmapping, At
<1>2. /\ o \in Objects /\ Held(o, issued) /\ o.op \in Logins /\ o.csid \in Sids /\ o.cuser # Nil
      /\ Serves(o, owner)
  BY <1>1, Objs DEF Loyal, Serving
<1>3. u \in Uids
  BY <1>2, Constants DEF Objects
<1>4. umap[u] \in [sids : SUBSET Sids, ttl : Nat] /\ umap[u].sids \subseteq Owned(u, owner)
  BY <1>3 DEF IInv, TypeOK, IndexOwned
<1>5. m \in [sids : SUBSET Sids, ttl : Nat] /\ m.sids \subseteq umap[u].sids
  BY <1>4, IndexTypes
<1>6. Good([o EXCEPT !.pc = "cdel"], owner, issued)
  BY <1>2, MoveGood, PointsReached DEF Listing, Serving
<1>7. Good(Return(o, "err"), owner, issued)
  BY <1>1, UnderWay DEF Rets
<1>8. Await(r, store, [umap EXCEPT ![u] = m], [o EXCEPT !.pc = "cdel"], Return(o, "err"))
  BY <1>3 DEF ClonedUnmapping, IInv, TypeOK
<1>. HIDE DEF o, u, m
<1>. QED  BY <1>3, <1>4, <1>5, <1>6, <1>7, <1>8, IndexStep
(* Deleting a key leaves nothing to own. *)
LEMMA ClonedDestroyStep ==
  ASSUME IInv, NEW r \in Reqs, ClonedDestroy(r)
  PROVE  IInv'
<1>1. obj[r].pc = "cdel"
  BY DEF ClonedDestroy, At
<1>2. obj[r].csid \in Sids
  BY <1>1, Objs DEF Loyal
<1>3. Good(Return(obj[r], "true"), owner, issued)
  BY <1>1, UnderWay DEF Rets
<1>. QED  BY <1>1, <1>2, <1>3, MissingType, WriteStep DEF ClonedDestroy

LEMMA UnmappingStep ==
  ASSUME IInv, NEW r \in Reqs, Unmapping(r)
  PROVE  IInv'
<1>. DEFINE o == obj[r]
            u == o.user.uid
            m == SRem(umap[u], o.sid)
            p == [o EXCEPT !.user = Nil]
            good == IF o.op = "logout" THEN [o EXCEPT !.user = Nil, !.pc = "userdel"]
                                       ELSE [o EXCEPT !.pc = "destroydel"]
<1>1. o.pc = "srem"
  BY DEF Unmapping, At
<1>2. o \in Objects /\ Held(o, issued) /\ o.user # Nil
  BY <1>1, Objs DEF Loyal
<1>3. u \in Uids
  BY <1>2, Constants DEF Objects
<1>4. umap[u] \in [sids : SUBSET Sids, ttl : Nat] /\ umap[u].sids \subseteq Owned(u, owner)
  BY <1>3 DEF IInv, TypeOK, IndexOwned
<1>5. m \in [sids : SUBSET Sids, ttl : Nat] /\ m.sids \subseteq umap[u].sids
  BY <1>4, IndexTypes
<1>6. Good([o EXCEPT !.pc = "destroydel"], owner, issued)
  BY <1>2, MoveGood, PointsReached DEF Listing, Serving
<1>7. Good([o EXCEPT !.user = Nil, !.pc = "userdel"], owner, issued)
  <2>1. p \in Objects /\ Held(p, issued)
    <3>1. p \in Objects
      BY <1>2, Assigned
    <3>2. p.sid = o.sid /\ p.op = o.op
      BY <1>2 DEF Objects
    <3>. QED  BY <1>2, <3>1, <3>2 DEF Held
  <2>. HIDE DEF p
  <2>2. Good([p EXCEPT !.pc = "userdel"], owner, issued)
    BY <2>1, MoveGood, PointsReached DEF Listing, Serving
  <2>. QED  BY <2>2 DEF p
<1>8. Good(good, owner, issued)
  BY <1>6, <1>7
<1>9. Good(Return(o, "err"), owner, issued)
  BY <1>1, UnderWay DEF Rets
<1>10. Await(r, store, [umap EXCEPT ![u] = m], good, Return(o, "err"))
  BY <1>3 DEF Unmapping, IInv, TypeOK
<1>. HIDE DEF o, u, m, good
<1>. QED  BY <1>3, <1>4, <1>5, <1>8, <1>9, <1>10, IndexStep

LEMMA LogoutDelStep ==
  ASSUME IInv, NEW r \in Reqs, LogoutDel(r)
  PROVE  IInv'
<1>. DEFINE o == obj[r]
            h == HDel(store[o.sid], "user")
<1>1. o.pc = "userdel"
  BY DEF LogoutDel, At
<1>2. o.sid \in Sids /\ h \in Hashes /\ h.user = Nil
  BY <1>1, Objs, HashTypes
<1>3. Good(Return(o, Bool(store[o.sid].user # Nil)), owner, issued)
  BY <1>1, UnderWay, BoolType DEF Rets
<1>. HIDE DEF h
<1>. QED  BY <1>1, <1>2, <1>3, WriteStep DEF LogoutDel, h

LEMMA DestroyDelStep ==
  ASSUME IInv, NEW r \in Reqs, DestroyDel(r)
  PROVE  IInv'
<1>1. obj[r].pc = "destroydel"
  BY DEF DestroyDel, At
<1>2. obj[r].sid \in Sids
  BY <1>1, Objs
<1>3. Good(Return(obj[r], Bool(Exists(store[obj[r].sid]))), owner, issued)
  BY <1>1, UnderWay, BoolType DEF Rets
<1>. QED  BY <1>1, <1>2, <1>3, MissingType, WriteStep DEF DestroyDel

(* sync lists the ids of one user, and keeps to them. *)
LEMMA AllSidStep ==
  ASSUME IInv, NEW r \in Reqs, AllSid(r)
  PROVE  IInv'
<1>. DEFINE o == obj[r]
            S == umap[o.arg.uid].sids
            p == [o EXCEPT !.todo = S]
<1>1. o.pc = "smembers"
  BY DEF AllSid, At
<1>2. o \in Objects /\ Held(o, issued) /\ o.arg \in Profiles /\ o.kept = {}
  BY <1>1, Objs DEF Loyal, Listing
<1>3. S \subseteq Owned(o.arg.uid, owner)
  BY <1>2, Constants DEF IInv, IndexOwned
<1>4. p \in Objects
  BY <1>2, <1>3, Assigned DEF Owned
<1>5. p.sid = o.sid /\ p.op = o.op /\ p.arg = o.arg /\ p.kept = {} /\ p.todo = S
  BY <1>2 DEF Objects
<1>6. Ask(r, Syncing(p), Return(o, "err"))
  BY DEF AllSid
<1>. HIDE DEF p
<1>7. Good(Syncing(p), owner, issued)
  BY <1>2, <1>3, <1>4, <1>5, SyncingGood DEF Held
<1>8. Good(Return(o, "err"), owner, issued)
  BY <1>1, UnderWay DEF Rets
<1>. QED  BY <1>6, <1>7, <1>8, AskStep

LEMMA FilterExistsStep ==
  ASSUME IInv, NEW r \in Reqs, NEW s \in Sids, FilterExists(r, s)
  PROVE  IInv'
<1>. DEFINE c == obj[r]
            o == [c EXCEPT !.todo = c.todo \ {s}]
            k == [o EXCEPT !.kept = o.kept \cup {s}]
            g == [o EXCEPT !.cur = s]
            good == IF Exists(store[s]) THEN Syncing(k) ELSE [o EXCEPT !.cur = s, !.pc = "filtersrem"]
<1>1. c.pc = "exists" /\ s \in c.todo
  BY DEF FilterExists, At
<1>2. /\ c \in Objects /\ Held(c, issued) /\ c.arg \in Profiles
      /\ c.todo \cup c.kept \subseteq Owned(c.arg.uid, owner)
  BY <1>1, Objs DEF Loyal, Listing
<1>3. o \in Objects
  BY <1>2, Assigned DEF Owned
<1>4. /\ o.sid = c.sid /\ o.op = c.op /\ o.arg = c.arg /\ o.kept = c.kept
      /\ o.todo = c.todo \ {s}
  BY <1>2 DEF Objects
<1>5. Ask(r, good, Return(o, "err"))
  BY <1>2 DEF FilterExists
<1>. HIDE DEF o
<1>6. Held(o, issued)
  BY <1>2, <1>4 DEF Held
<1>7. Good(Syncing(k), owner, issued)
  <2>1. o.kept \cup {s} \subseteq Owned(o.arg.uid, owner)
    BY <1>1, <1>2, <1>4
  <2>2. k \in Objects
    BY <1>3, <2>1, Assigned DEF Owned
  <2>3. /\ k.sid = o.sid /\ k.op = o.op /\ k.arg = o.arg /\ k.todo = o.todo
        /\ k.kept = o.kept \cup {s}
    BY <1>3 DEF Objects
  <2>. HIDE DEF k
  <2>4. Held(k, issued) /\ k.todo \cup k.kept \subseteq Owned(k.arg.uid, owner)
    BY <1>2, <1>4, <1>6, <2>1, <2>3 DEF Held
  <2>. QED  BY <1>2, <1>4, <2>2, <2>3, <2>4, SyncingGood
<1>8. Good([o EXCEPT !.cur = s, !.pc = "filtersrem"], owner, issued)
  <2>1. g \in Objects
    BY <1>3, Assigned
  <2>2. /\ g.sid = o.sid /\ g.op = o.op /\ g.arg = o.arg /\ g.todo = o.todo
        /\ g.kept = o.kept /\ g.cur = s
    BY <1>3 DEF Objects
  <2>. HIDE DEF g
  <2>3. /\ Held(g, issued) /\ g.arg \in Profiles /\ g.cur \in Sids
        /\ g.todo \cup g.kept \subseteq Owned(g.arg.uid, owner)
    BY <1>2, <1>4, <1>6, <2>2 DEF Held
  <2>4. Good([g EXCEPT !.pc = "filtersrem"], owner, issued)
    BY <2>1, <2>3, MoveGood, PointsReached DEF Listing, Serving
  <2>. QED  BY <2>4 DEF g
<1>9. Good(good, owner, issued)
  BY <1>7, <1>8
<1>10. Good(Return(o, "err"), owner, issued)
  BY <1>3, <1>6, ReturnGood DEF Rets
<1>. HIDE DEF good
<1>. QED  BY <1>5, <1>9, <1>10, AskStep

LEMMA FilterRemoveStep ==
  ASSUME IInv, NEW r \in Reqs, FilterRemove(r)
  PROVE  IInv'
<1>. DEFINE o == obj[r]
            u == o.arg.uid
            m == SRem(umap[u], o.cur)
<1>1. o.pc = "filtersrem"
  BY DEF FilterRemove, At
<1>2. /\ o \in Objects /\ Held(o, issued) /\ o.arg \in Profiles
      /\ o.todo \cup o.kept \subseteq Owned(u, owner)
  BY <1>1, Objs DEF Loyal, Listing
<1>3. u \in Uids
  BY <1>2, Constants
<1>4. umap[u] \in [sids : SUBSET Sids, ttl : Nat] /\ umap[u].sids \subseteq Owned(u, owner)
  BY <1>3 DEF IInv, TypeOK, IndexOwned
<1>5. m \in [sids : SUBSET Sids, ttl : Nat] /\ m.sids \subseteq umap[u].sids
  BY <1>4, IndexTypes
<1>6. Good(Syncing(o), owner, issued)
  BY <1>2, SyncingGood
<1>7. Await(r, store, [umap EXCEPT ![u] = m], Syncing(o), Syncing(o))
  BY <1>3 DEF FilterRemove, IInv, TypeOK
<1>. HIDE DEF o, u, m
<1>. QED  BY <1>3, <1>4, <1>5, <1>6, <1>7, IndexStep

(* sync writes a profile only into ids its user owns. *)
LEMMA SyncSetStep ==
  ASSUME IInv, NEW r \in Reqs, NEW s \in Sids, SyncSet(r, s)
  PROVE  IInv'
<1>. DEFINE o == obj[r]
            h == HSet(store[s], "user", o.arg)
            p == [o EXCEPT !.kept = o.kept \ {s}]
<1>1. o.pc = "hset" /\ s \in o.kept
  BY DEF SyncSet, At
<1>2. /\ o \in Objects /\ Held(o, issued) /\ o.arg \in Profiles
      /\ o.todo \cup o.kept \subseteq Owned(o.arg.uid, owner)
  BY <1>1, Objs DEF Loyal, Listing
<1>3. store[s] \in Hashes
  BY DEF IInv, TypeOK
<1>4. h \in Hashes /\ h.user = o.arg
  BY <1>2, <1>3, HashTypes
<1>5. h.user # Nil => h.user.uid = owner[s]
  BY <1>1, <1>2, <1>4 DEF Owned
<1>6. p \in Objects
  BY <1>2, Assigned DEF Owned
<1>7. /\ p.sid = o.sid /\ p.op = o.op /\ p.arg = o.arg /\ p.todo = o.todo
      /\ p.kept = o.kept \ {s}
  BY <1>2 DEF Objects
<1>8. Write(r, s, h, Syncing(p))
  BY DEF SyncSet
<1>. HIDE DEF p
<1>9. Held(p, issued) /\ p.todo \cup p.kept \subseteq Owned(p.arg.uid, owner)
  BY <1>2, <1>7 DEF Held
<1>10. Good(Syncing(p), owner, issued)
  BY <1>2, <1>6, <1>7, <1>9, SyncingGood
<1>. HIDE DEF h
<1>. QED  BY <1>1, <1>4, <1>5, <1>8, <1>10, WriteStep

-----------------------------------------------------------------------------
(* The theorems *)

(* The invariant holds before the first request. *)
LEMMA InitIInv == Init => IInv
<1>. SUFFICES ASSUME Init  PROVE IInv
  OBVIOUS
<1>1. \A r \in Reqs : Good(obj[r], owner, issued)
  BY ClosedGood DEF Init
<1>2. issued \in [Sids -> [ttl : Nat, born : Nat] \cup {Nil}]
  <2>1. [ttl : Ttls, born : {0}] \subseteq [ttl : Nat, born : Nat]
    BY Constants
  <2>. QED  BY <2>1 DEF Init
<1>3. known \subseteq Sids \ Fresh
  BY ConstantsOK DEF Init, Fresh
<1>4. EmptySet \in [sids : SUBSET Sids, ttl : Nat] /\ EmptySet.sids = {}
  BY DEF EmptySet
<1>5. TypeOK
  BY <1>1, <1>2, <1>3, <1>4, MissingType DEF Init, TypeOK, Good
<1>6. StoreOwned(store, owner) /\ IndexOwned(umap, owner)
  BY <1>4, MissingType DEF Init, StoreOwned, IndexOwned
<1>7. \A s \in Sids : issued[s] = Nil => owner[s] = Nil
  BY DEF Init
<1>. QED  BY <1>1, <1>5, <1>6, <1>7 DEF IInv, Good

(* Every step keeps it: one case per action. *)
LEMMA NextIInv == IInv /\ [Next]_vars => IInv'
<1>. SUFFICES ASSUME IInv, [Next]_vars  PROVE IInv'
  OBVIOUS
<1>1. CASE UNCHANGED vars
  BY <1>1 DEF vars, IInv, TypeOK, Fresh
<1>2. CASE Tick
  BY <1>2, TickStep
<1>3. ASSUME NEW r \in Reqs, Request(r)
      PROVE  IInv'
  <2>1. CASE \E s \in Sids, t \in Ttls : OpenNew(r, s, t)
    BY <2>1, OpenNewStep
  <2>2. CASE \E s \in Sids : OpenWith(r, s)
    BY <2>2, OpenWithStep
  <2>3. CASE Close(r)
    BY <2>3, CloseStep
  <2>4. CASE AnyCall(r)
    BY <2>4, AnyCallStep
  <2>5. CASE Command(r)
    <3>1. CASE LoadUser(r) \/ SilentSet(r) \/ SilentGet(r) \/ SilentDel(r) \/ Touch(r)
      BY <3>1, LoadUserStep, SilentSetStep, SilentGetStep, SilentDelStep, TouchStep
    <3>2. CASE Raw(r) \/ Load(r) \/ MappingAdd(r) \/ MappingExpire(r)
      BY <3>2, RawStep, LoadStep, MappingAddStep, MappingExpireStep
    <3>3. CASE ClonedUnmapping(r) \/ ClonedDestroy(r) \/ Unmapping(r) \/ LogoutDel(r) \/ DestroyDel(r)
      BY <3>3, ClonedUnmappingStep, ClonedDestroyStep, UnmappingStep, LogoutDelStep,
         DestroyDelStep
    <3>4. CASE AllSid(r) \/ FilterRemove(r)
      BY <3>4, AllSidStep, FilterRemoveStep
    <3>5. CASE \E s \in Sids : FilterExists(r, s) \/ SyncSet(r, s)
      BY <3>5, FilterExistsStep, SyncSetStep
    <3>. QED  BY <2>5, <3>1, <3>2, <3>3, <3>4, <3>5 DEF Command
  <2>6. CASE Drop(r)
    BY <2>6, DropStep
  <2>. QED  BY <1>3, <2>1, <2>2, <2>3, <2>4, <2>5, <2>6 DEF Request
<1>. QED  BY <1>1, <1>2, <1>3 DEF Next

(* Every reachable state satisfies the inductive invariant. *)
THEOREM Invariance == Spec => []IInv
BY InitIInv, NextIInv, PTL DEF Spec

(***************************************************************************)
(* Whatever overlaps, fails or is dropped, the values in Redis and in the  *)
(* session objects keep their types (UserSession, TypeOK).                 *)
(***************************************************************************)
THEOREM TypeCorrect == Spec => []TypeOK
<1>1. IInv => TypeOK
  BY DEF IInv
<1>. QED  BY <1>1, Invariance, PTL

(***************************************************************************)
(* The index of a user lists no session in which another user is logged    *)
(* in (redis.rs, mapping, unmapping and sync), for any number of requests, *)
(* sessions, users and failures.                                           *)
(***************************************************************************)
THEOREM Identity == Spec => []OneIdentity
<1>1. IInv => OneIdentity
  BY DEF IInv, OneIdentity, StoreOwned, IndexOwned, Owned, Login
<1>. QED  BY <1>1, Invariance, PTL
=============================================================================
