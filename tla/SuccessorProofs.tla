--------------------------- MODULE SuccessorProofs --------------------------
(***************************************************************************)
(* What log_in leaves behind, for every number of requests, ids, users,    *)
(* failures and ticks, and whatever calls overlap with it.                 *)
(*                                                                         *)
(* Successor : Spec => []SuccessorReady                                    *)
(* DataMoves : Spec => []DataFollows, for requests one at a time           *)
(*                                                                         *)
(* SuccessorReady speaks of the two awaits before the old session is       *)
(* deleted; what it says was established several awaits earlier.  In       *)
(* between only the clock and other requests can undo it, and they cannot  *)
(* because the new id is private to its request: no client has received    *)
(* it, no other object holds it, and until mapping lists it no sync can    *)
(* meet it.  The invariant says so, command by command.                    *)
(***************************************************************************)
EXTENDS UserSessionProofs

-----------------------------------------------------------------------------
(* The inductive invariant *)

(* The object holds the new id, and its call has not ended. *)
Renewing(o) ==
  o.op \in Logins /\ o.pc \in {"load", "touch", "user", "sadd", "mapexpire", "csrem", "cdel"}

(* The commands before the new id is in the index. *)
Unmapped == {"load", "touch", "user", "sadd"}

(* While the tick lasts in which it was generated, the new session has the *)
(* login, and from touch on it expires.                                    *)
Stored(o, st) ==
  /\ o.user # Nil /\ o.pc # "load" => st[o.sid].user # Nil
  /\ /\ o.pc \notin {"load", "touch"}
     /\ o.user # Nil \/ (o.pc = "user" /\ st[o.sid].user # Nil)
     => st[o.sid].ttl > 0

Steady(o, st, iss, now) ==
  /\ o.pc = "closed" => o.sid = Nil /\ o.csid = Nil
  /\ o.pc # "closed" => o.ttl > 0
  /\ o.csid # Nil => iss[o.csid] # Nil
  /\ o.pc \in {"set", "get", "del"} => o.op \notin Logins
  /\ o.pc = "raw" => o.csid = o.sid
  /\ o.pc = "load" => /\ st[o.sid].user = Nil /\ o.touches = "none"
                      /\ o.user # Nil => o.raw.user # Nil
  /\ Renewing(o) => o.csid # o.sid
  /\ Renewing(o) /\ now = iss[o.sid].born => Stored(o, st)

Listed(s, um) == \E u \in Uids : s \in um[u].sids

Syncs(o, s) == o.pc \in Listing /\ s \in o.todo \cup o.kept

Private(r) ==
  LET s == obj[r].sid IN
  Renewing(obj[r]) =>
    /\ s \notin known
    /\ \A q \in Reqs \ {r} : obj[q].sid # s /\ obj[q].csid # s
    /\ obj[r].pc \in Unmapped =>
         ~ Listed(s, umap) /\ \A q \in Reqs : ~ Syncs(obj[q], s)

Stamped(iss, now) ==
  \A s \in Sids : iss[s] # Nil => iss[s].ttl > 0 /\ iss[s].born <= now

SInv ==
  /\ IInv
  /\ Stamped(issued, clock)
  /\ \A r \in Reqs : Steady(obj[r], store, issued, clock) /\ Private(r)

-----------------------------------------------------------------------------
(* The reach of a step *)

(***************************************************************************)
(* What a step of one request leaves alone.  It writes the keys of its own *)
(* two ids, and as a sync those it kept; it never makes a login but by     *)
(* load and sync; it takes up ids that were handed out or are new; only    *)
(* the two ways to generate an id change issued, and renew leads to load.  *)
(***************************************************************************)
StoreReach(o, st) ==
  \A s \in Sids : st[s] # store[s] =>
    \/ /\ s = o.sid \/ s = o.csid
       /\ st[s].user \in {Nil, store[s].user} \/ (o.pc = "load" /\ s = o.sid)
    \/ /\ o.pc = "hset" /\ s \in o.kept
       /\ st[s].user # Nil /\ st[s].ttl = store[s].ttl

IndexReach(o, um) == \A s \in Sids : Listed(s, um) => s = o.sid \/ Listed(s, umap)

SyncReach(x, o) == \A s \in Sids : Syncs(x, s) => Syncs(o, s) \/ Listed(s, umap)

IssuedReach(iss) ==
  \A s \in Sids : IF issued[s] # Nil THEN iss[s] = issued[s]
                  ELSE iss[s] # Nil => iss[s].ttl > 0 /\ iss[s].born <= clock

Within(r) ==
  /\ clock' = clock
  /\ \A q \in Reqs \ {r} : obj'[q] = obj[q]
  /\ obj'[r].sid \in {obj[r].sid, Nil} \cup known \cup Fresh
  /\ obj'[r].csid \in {obj[r].csid, obj[r].sid, Nil}
  /\ known' \subseteq known \cup {obj[r].sid}
  /\ StoreReach(obj[r], store') /\ IndexReach(obj[r], umap')
  /\ SyncReach(obj'[r], obj[r]) /\ IssuedReach(issued')
  /\ obj[r].pc \notin {"closed", "raw"} => issued' = issued /\ obj'[r].pc # "load"
  /\ obj'[r].pc \in Listing => obj[r].pc \in Listing \/ "sync" \in Ops

(* The step keeps what the invariant says of the request that takes it. *)
Keeps(r) == Within(r) /\ Steady(obj'[r], store', issued', clock') /\ Private(r)'

(* No other request's step reaches what a renewal has to itself. *)
LEMMA OthersKeep ==
  ASSUME SInv, IInv', NEW r \in Reqs, Within(r), NEW q \in Reqs \ {r}
  PROVE  Steady(obj'[q], store', issued', clock') /\ Private(q)'
<1>. DEFINE o == obj[q]
<1>1. obj'[q] = o /\ clock' = clock
  BY DEF Within
<1>2. Steady(o, store, issued, clock) /\ Private(q) /\ o \in Objects
  BY DEF SInv, IInv, TypeOK
<1>3. o.csid # Nil => o.csid \in Sids /\ issued'[o.csid] = issued[o.csid]
  BY <1>2 DEF Within, IssuedReach, Steady, Objects
<1>4. o.pc # "closed" => o.sid \in Sids /\ issued[o.sid] # Nil /\ issued'[o.sid] = issued[o.sid]
  BY Objs DEF Within, IssuedReach, Held, SInv
<1>5. ASSUME Renewing(o)
      PROVE  /\ o.sid \in Sids /\ o.sid \notin known /\ o.sid # Nil /\ o.sid \notin Fresh
             /\ o.sid # obj[r].sid /\ o.sid # obj[r].csid
             /\ o.pc \in Unmapped => ~ Listed(o.sid, umap) /\ ~ Syncs(obj[r], o.sid)
  <2>1. o.pc # "closed"
    BY <1>5 DEF Renewing
  <2>2. o.sid \in Sids /\ o.sid # Nil /\ o.sid \notin Fresh
    BY <1>4, <2>1, Constants DEF Fresh
  <2>. QED  BY <1>2, <1>5, <2>2 DEF Private
<1>6. ASSUME Renewing(o), o.pc \in Unmapped
      PROVE  store'[o.sid] = store[o.sid]
  BY <1>5, <1>6 DEF Within, StoreReach, Syncs, Listing
<1>7. ASSUME Renewing(o)
      PROVE  \/ store'[o.sid] = store[o.sid]
             \/ store'[o.sid].user # Nil /\ store'[o.sid].ttl = store[o.sid].ttl
  BY <1>5, <1>7 DEF Within, StoreReach
<1>8. Steady(o, store', issued', clock)
  <2>1. o.pc = "load" => Renewing(o) /\ o.pc \in Unmapped
    BY Objs DEF SInv, Loyal, Renewing, Unmapped
  <2>2. o.pc = "load" => store'[o.sid].user = Nil
    BY <1>2, <1>6, <2>1 DEF Steady
  <2>3. Renewing(o) /\ clock = issued'[o.sid].born => Stored(o, store')
    <3>. SUFFICES ASSUME Renewing(o), clock = issued'[o.sid].born  PROVE Stored(o, store')
      OBVIOUS
    <3>1. Stored(o, store)
      BY <1>2, <1>4 DEF Steady, Renewing
    <3>2. CASE o.pc \in Unmapped
      BY <1>6, <3>1, <3>2 DEF Stored
    <3>3. CASE o.pc \notin Unmapped
      BY <1>7, <3>1, <3>3 DEF Stored, Unmapped
    <3>. QED  BY <3>2, <3>3
  <2>. QED  BY <1>2, <1>3, <2>2, <2>3 DEF Steady
<1>9. Private(q)'
  <2>. SUFFICES ASSUME Renewing(o)
                PROVE  /\ o.sid \notin known'
                       /\ \A p \in Reqs \ {q} : obj'[p].sid # o.sid /\ obj'[p].csid # o.sid
                       /\ o.pc \in Unmapped =>
                            ~ Listed(o.sid, umap') /\ \A p \in Reqs : ~ Syncs(obj'[p], o.sid)
    BY <1>1 DEF Private, Listed
  <2>1. o.sid \notin known'
    BY <1>5 DEF Within
  <2>2. \A p \in Reqs \ {q} : obj'[p].sid # o.sid /\ obj'[p].csid # o.sid
    <3>. TAKE p \in Reqs \ {q}
    <3>1. CASE p = r
      BY <1>5, <3>1 DEF Within
    <3>2. CASE p # r
      BY <1>2, <3>2 DEF Within, Private
    <3>. QED  BY <3>1, <3>2
  <2>3. ASSUME o.pc \in Unmapped
        PROVE  ~ Listed(o.sid, umap') /\ \A p \in Reqs : ~ Syncs(obj'[p], o.sid)
    <3>1. ~ Listed(o.sid, umap')
      BY <1>5, <2>3 DEF Within, IndexReach
    <3>2. ~ Syncs(obj'[r], o.sid)
      BY <1>5, <2>3 DEF Within, SyncReach
    <3>3. \A p \in Reqs \ {r} : ~ Syncs(obj'[p], o.sid)
      BY <1>2, <2>3 DEF Within, Private
    <3>. QED  BY <3>1, <3>2, <3>3
  <2>. QED  BY <2>1, <2>2, <2>3
<1>. QED  BY <1>1, <1>8, <1>9

-----------------------------------------------------------------------------
(* The forms of a step *)

(***************************************************************************)
(* What an await may leave in the object o of its request, when the store  *)
(* is st by then: the ids and the TTL stay, sync goes on with what it has  *)
(* or what is listed, and a renewal goes on with what is stored.           *)
(***************************************************************************)
Fits(x, o, st) ==
  /\ x.sid = o.sid /\ x.csid = o.csid /\ x.ttl = o.ttl
  /\ x.pc \notin {"closed", "raw", "load", "set", "get", "del"}
  /\ SyncReach(x, o) /\ (x.pc \in Listing => o.pc \in Listing)
  /\ Renewing(x) => /\ Renewing(o) /\ (x.pc \in Unmapped => o.pc \in Unmapped)
                    /\ clock = issued[o.sid].born => Stored(x, st)

(* The request keeps the new id to itself while the call goes on. *)
LEMMA StaysPrivate ==
  ASSUME SInv, NEW r \in Reqs, Within(r), Renewing(obj[r]), obj'[r].sid = obj[r].sid,
         known' = known, obj'[r].pc \notin Listing,
         obj'[r].pc \in Unmapped => obj[r].pc \in Unmapped /\ umap' = umap
  PROVE  Private(r)'
<1>. DEFINE s == obj[r].sid
<1>1. /\ s \notin known
      /\ \A q \in Reqs \ {r} : obj[q].sid # s /\ obj[q].csid # s
      /\ obj[r].pc \in Unmapped => ~ Listed(s, umap) /\ \A q \in Reqs : ~ Syncs(obj[q], s)
  BY DEF SInv, Private
<1>2. \A q \in Reqs \ {r} : obj'[q] = obj[q]
  BY DEF Within
<1>3. ~ Syncs(obj'[r], s)
  BY DEF Syncs
<1>. QED  BY <1>1, <1>2, <1>3 DEF Private, Listed

(* An await whose command and whose two outcomes are within reach. *)
LEMMA AwaitKeeps ==
  ASSUME SInv, NEW r \in Reqs, obj[r].pc # "closed", obj[r].pc # "raw",
         NEW st, NEW um, NEW good, NEW bad, Await(r, st, um, good, bad),
         StoreReach(obj[r], st), IndexReach(obj[r], um),
         Fits(good, obj[r], st), Fits(bad, obj[r], st), Fits(bad, obj[r], store),
         um = umap \/ \A x \in {good, bad} : Renewing(x) => x.pc \notin Unmapped
  PROVE  Keeps(r)
<1>. DEFINE o == obj[r]
<1>1. /\ UNCHANGED <<issued, known, clock, owner>>
      /\ store' \in {store, st} /\ umap' \in {umap, um}
      /\ \/ obj' = [obj EXCEPT ![r] = good] /\ store' = st
         \/ obj' = [obj EXCEPT ![r] = bad]
  BY DEF Await
<1>2. PICK x \in {good, bad} : /\ obj' = [obj EXCEPT ![r] = x]
                               /\ x = good => store' = st \/ x = bad
  BY <1>1
<1>3. obj'[r] = x /\ \A q \in Reqs \ {r} : obj'[q] = obj[q]
  BY <1>2 DEF SInv, IInv, TypeOK
<1>4. Fits(x, o, store')
  BY <1>1, <1>2
<1>5. Within(r)
  <2>1. StoreReach(o, store') /\ IndexReach(o, umap') /\ IssuedReach(issued')
    BY <1>1 DEF StoreReach, IndexReach, IssuedReach
  <2>. QED  BY <1>1, <1>3, <1>4, <2>1 DEF Within, Fits
<1>6. Steady(o, store, issued, clock) /\ o.sid \in Sids
  BY Objs DEF SInv
<1>7. Steady(x, store', issued', clock')
  BY <1>1, <1>4, <1>6 DEF Steady, Fits, Renewing
<1>8. Private(r)'
  <2>1. CASE Renewing(x)
    <3>1. Renewing(o) /\ (x.pc \in Unmapped => o.pc \in Unmapped /\ umap' = umap)
      BY <1>1, <1>4, <2>1 DEF Fits
    <3>2. x.pc \notin Listing
      BY <2>1 DEF Renewing, Listing
    <3>. QED  BY <1>1, <1>3, <1>4, <1>5, <3>1, <3>2, StaysPrivate DEF Fits
  <2>2. CASE ~ Renewing(x)
    BY <1>3, <2>2 DEF Private
  <2>. QED  BY <2>1, <2>2
<1>. QED  BY <1>3, <1>5, <1>7, <1>8 DEF Keeps

-----------------------------------------------------------------------------
(* The helpers on objects *)

(* The parts of an object that its id, login and index commands depend on. *)
Alike(x, o) ==
  x.sid = o.sid /\ x.csid = o.csid /\ x.ttl = o.ttl /\ x.op = o.op /\ x.user = o.user

(* A helper that only goes on to another command. *)
Onward(x, o, pcs) ==
  Alike(x, o) /\ x.pc \in pcs /\ (x.pc \in Listing => x.todo = o.todo /\ x.kept = o.kept)

LEMMA MoveShape ==
  ASSUME NEW o \in Objects, NEW pc \in Points
  PROVE  Onward([o EXCEPT !.pc = pc], o, {pc})
BY DEF Onward, Alike, Objects

LEMMA ReturnShape ==
  ASSUME NEW o \in Objects, NEW v \in Rets
  PROVE  Onward(Return(o, v), o, {"ready"})
BY DEF Onward, Alike, Return, Listing, Objects

LEMMA AfterRenewShape ==
  ASSUME NEW o \in Objects, o.op # "tryRenew"
  PROVE  Onward(AfterRenew(o), o, {"csrem", "cdel"})
BY MoveShape, PointsReached DEF AfterRenew, Onward

LEMMA AfterUserShape ==
  ASSUME NEW o \in Objects, o.op # "tryRenew"
  PROVE  /\ o.op \in Logins /\ o.user = Nil => Onward(AfterUser(o), o, {"csrem", "cdel"})
         /\ o.op \in Logins /\ o.user # Nil => Onward(AfterUser(o), o, {"sadd"})
         /\ o.op \notin Logins => Onward(AfterUser(o), o, {"ready", "srem", "destroydel"})
<1>1. o.op \in Logins /\ o.user = Nil => Onward(AfterUser(o), o, {"csrem", "cdel"})
  BY AfterRenewShape DEF AfterUser, Logins, Renewals
<1>2. o.op \in Logins /\ o.user # Nil => Onward(AfterUser(o), o, {"sadd"})
  BY MoveShape, PointsReached DEF AfterUser, Logins, Renewals
<1>3. o.op \notin Logins => Onward(AfterUser(o), o, {"ready", "srem", "destroydel"})
  <2>1. Onward([o EXCEPT !.pc = "srem"], o, {"srem"})
        /\ Onward([o EXCEPT !.pc = "destroydel"], o, {"destroydel"})
    BY MoveShape, PointsReached
  <2>2. \A v \in Rets : Onward(Return(o, v), o, {"ready"})
    BY ReturnShape
  <2>3. Onward(Unmap(o), o, {"ready", "srem", "destroydel"})
    BY <2>1, <2>2 DEF Unmap, Onward, Rets
  <2>4. Onward(Return(o, Bool(o.user # Nil)), o, {"ready", "srem", "destroydel"})
    BY <2>2, BoolType DEF Onward, Rets
  <2>. QED  BY <2>3, <2>4 DEF AfterUser, Logins, Renewals
<1>. QED  BY <1>1, <1>2, <1>3

LEMMA UserShape ==
  ASSUME NEW o \in Objects, o.op \notin Logins, o.op # "tryRenew"
  PROVE  Onward(User(o), o, {"user", "ready", "srem", "destroydel"})
<1>1. Onward([o EXCEPT !.pc = "user"], o, {"user"})
  BY MoveShape, PointsReached
<1>. QED  BY <1>1, AfterUserShape DEF User, Onward

LEMMA AfterTouchShape ==
  ASSUME NEW o \in Objects, o.op # "tryRenew"
  PROVE  /\ o.op \in Logins => Onward(AfterTouch(o), o, {"user"})
         /\ o.op \notin Logins => Onward(AfterTouch(o), o, {"ready"})
<1>1. o.op \in Logins => Onward(AfterTouch(o), o, {"user"})
  <2>1. Onward([o EXCEPT !.loaded = FALSE, !.pc = "user"], o, {"user"})
    BY DEF Onward, Alike, Listing, Objects
  <2>. QED  BY <2>1 DEF AfterTouch, Logins, Renewals
<1>2. o.op \notin Logins => Onward(AfterTouch(o), o, {"ready"})
  BY ReturnShape, BoolType DEF AfterTouch, Logins, Renewals, Rets
<1>. QED  BY <1>1, <1>2

LEMMA TryTouchShape ==
  ASSUME NEW o \in Objects, o.op # "tryRenew"
  PROVE  /\ o.touches = "none" => Onward(TryTouch(o), o, {"touch"})
         /\ o.op \notin Logins => Onward(TryTouch(o), o, {"touch", "ready"})
<1>1. Onward([o EXCEPT !.pc = "touch"], o, {"touch"})
  BY MoveShape, PointsReached
<1>. QED  BY <1>1, AfterTouchShape DEF TryTouch, Onward

LEMMA SyncingShape ==
  ASSUME NEW o \in Objects
  PROVE  Onward(Syncing(o), o, {"exists", "hset", "ready"})
<1>1. \A pc \in {"exists", "hset"} :
        Onward([o EXCEPT !.pc = pc, !.cur = Nil], o, {"exists", "hset", "ready"})
  BY DEF Onward, Alike, Objects
<1>2. Onward(Return(o, "true"), o, {"exists", "hset", "ready"})
  BY ReturnShape DEF Rets, Onward
<1>. QED  BY <1>1, <1>2 DEF Syncing

(* A call that is no renewal, or has ended, goes on within its reach. *)
LEMMA PlainFits ==
  ASSUME NEW o, NEW x, NEW st, NEW pcs, Onward(x, o, pcs),
         pcs \cap {"closed", "raw", "load", "set", "get", "del"} = {},
         o.op \notin Logins
         \/ pcs \subseteq {"ready", "srem", "userdel", "destroydel"} \cup Listing,
         pcs \cap Listing = {} \/ o.pc \in Listing
  PROVE  Fits(x, o, st)
<1>1. x.op \notin Logins \/ x.pc \notin {"load", "touch", "user", "sadd", "mapexpire", "csrem", "cdel"}
  BY DEF Onward, Alike, Listing
<1>2. SyncReach(x, o)
  BY DEF Onward, SyncReach, Syncs
<1>. QED  BY <1>1, <1>2 DEF Fits, Onward, Alike, Renewing

(* A renewal goes on with its new session as it is stored. *)
LEMMA RenewalFits ==
  ASSUME NEW o, NEW x, NEW st, NEW pcs, Onward(x, o, pcs),
         pcs \subseteq {"touch", "user", "sadd", "mapexpire", "csrem", "cdel"},
         Renewing(o), pcs \cap Unmapped = {} \/ o.pc \in Unmapped,
         clock = issued[o.sid].born => Stored(x, st)
  PROVE  Fits(x, o, st)
<1>1. SyncReach(x, o)
  BY DEF Onward, SyncReach, Syncs, Listing
<1>. QED  BY <1>1 DEF Fits, Onward, Alike, Listing

(* A call that failed has nothing left to do. *)
LEMMA FailedFits ==
  ASSUME SInv, NEW r \in Reqs, obj[r].pc # "closed"
  PROVE  \A st : \A v \in Rets : Fits(Return(obj[r], v), obj[r], st)
<1>. SUFFICES ASSUME NEW st, NEW v \in Rets  PROVE Fits(Return(obj[r], v), obj[r], st)
  OBVIOUS
<1>1. Onward(Return(obj[r], v), obj[r], {"ready"})
  BY Objs, ReturnShape DEF SInv
<1>. QED  BY <1>1, PlainFits DEF Listing

-----------------------------------------------------------------------------
(* The awaits *)

(* What the proofs about one command start from. *)
LEMMA Under ==
  ASSUME SInv, NEW r \in Reqs, obj[r].pc # "closed"
  PROVE  /\ obj[r] \in Objects /\ obj[r].sid \in Sids /\ obj[r].op # "tryRenew"
         /\ obj[r].ttl > 0 /\ store[obj[r].sid] \in Hashes
         /\ Steady(obj[r], store, issued, clock) /\ Loyal(obj[r], owner, issued)
BY Objs DEF SInv, Steady, Held

(* A question leaves store and index as they are. *)
LEMMA AskKeeps ==
  ASSUME SInv, NEW r \in Reqs, obj[r].pc # "closed", obj[r].pc # "raw",
         NEW good, NEW bad, Ask(r, good, bad),
         Fits(good, obj[r], store), Fits(bad, obj[r], store)
  PROVE  Keeps(r)
<1>1. StoreReach(obj[r], store) /\ IndexReach(obj[r], umap)
  BY DEF StoreReach, IndexReach
<1>. QED  BY <1>1, AwaitKeeps DEF Ask

(* A write to a key of the request that makes no login. *)
LEMMA WriteKeeps ==
  ASSUME SInv, NEW r \in Reqs, obj[r].pc # "closed", obj[r].pc # "raw",
         NEW s \in {obj[r].sid, obj[r].csid}, NEW h, NEW good, Write(r, s, h, good), s \in Sids,
         h.user \in {Nil, store[s].user} \/ (obj[r].pc = "load" /\ s = obj[r].sid),
         Fits(good, obj[r], [store EXCEPT ![s] = h])
  PROVE  Keeps(r)
<1>. DEFINE st == [store EXCEPT ![s] = h]
<1>1. StoreReach(obj[r], st)
  BY DEF SInv, IInv, TypeOK, StoreReach
<1>2. IndexReach(obj[r], umap)
  BY DEF IndexReach
<1>3. Fits(Return(obj[r], "err"), obj[r], st) /\ Fits(Return(obj[r], "err"), obj[r], store)
  BY FailedFits DEF Rets
<1>4. Await(r, st, umap, good, Return(obj[r], "err"))
  BY DEF Write
<1>. HIDE DEF st
<1>. QED  BY <1>1, <1>2, <1>3, <1>4, AwaitKeeps DEF st

(* A command on an entry of the index adds at most the id of the request. *)
LEMMA IndexKeeps ==
  ASSUME SInv, NEW r \in Reqs, obj[r].pc # "closed", obj[r].pc # "raw",
         NEW u \in Uids, NEW m, NEW good, NEW bad,
         Await(r, store, [umap EXCEPT ![u] = m], good, bad),
         m.sids \subseteq umap[u].sids \cup {obj[r].sid},
         Fits(good, obj[r], store), Fits(bad, obj[r], store),
         good.pc \notin Unmapped, bad.pc \notin Unmapped
  PROVE  Keeps(r)
<1>. DEFINE um == [umap EXCEPT ![u] = m]
<1>1. IndexReach(obj[r], um)
  BY DEF SInv, IInv, TypeOK, IndexReach, Listed
<1>2. StoreReach(obj[r], store)
  BY DEF StoreReach
<1>. HIDE DEF um
<1>. QED  BY <1>1, <1>2, AwaitKeeps DEF um

(***************************************************************************)
(* user() of a renewal reads the new session: the user it finds there is   *)
(* the one that goes on, and one it had cached is stored there already.    *)
(***************************************************************************)
LEMMA LoadUserKeeps ==
  ASSUME SInv, NEW r \in Reqs, LoadUser(r)
  PROVE  Keeps(r)
<1>. DEFINE c == obj[r]
            o == [c EXCEPT !.loaded = TRUE]
            u == store[o.sid].user
            f == [o EXCEPT !.user = u]
<1>1. c.pc = "user"
  BY DEF LoadUser, At
<1>2. c \in Objects /\ c.op # "tryRenew" /\ store[c.sid] \in Hashes /\ Steady(c, store, issued, clock)
  BY <1>1, Under
<1>3. o \in Objects
  BY <1>2, Assigned
<1>4. Alike(o, c)
  BY <1>2 DEF Alike, Objects
<1>5. u = store[c.sid].user /\ u \in Profiles \cup {Nil}
  BY <1>2, <1>4 DEF Alike, Hashes
<1>6. Ask(r, AfterUser(IF u = Nil THEN o ELSE f), AfterUser(o))
  BY DEF LoadUser
<1>. HIDE DEF o, u
<1>7. f \in Objects
  BY <1>3, <1>5, Assigned
<1>8. f.user = u /\ f.sid = c.sid /\ f.csid = c.csid /\ f.ttl = c.ttl /\ f.op = c.op
  BY <1>3, <1>4 DEF Alike, Objects
<1>9. ASSUME NEW p \in Objects, p.sid = c.sid, p.csid = c.csid, p.ttl = c.ttl, p.op = c.op,
             p.user = c.user \/ (u # Nil /\ p.user = u)
      PROVE  Fits(AfterUser(p), c, store)
  <2>. DEFINE x == AfterUser(p)
  <2>1. CASE c.op \notin Logins
    <3>1. Onward(x, p, {"ready", "srem", "destroydel"})
      BY <1>2, <1>9, <2>1, AfterUserShape
    <3>2. Fits(x, p, store)
      BY <1>9, <2>1, <3>1, PlainFits DEF Listing
    <3>3. SyncReach(x, c)
      BY <3>1 DEF Onward, SyncReach, Syncs, Listing
    <3>. QED  BY <1>9, <2>1, <3>1, <3>2, <3>3 DEF Fits, Onward, Alike, Renewing, Listing
  <2>2. CASE c.op \in Logins
    <3>1. Renewing(c)
      BY <1>1, <2>2 DEF Renewing
    <3>2. \E pcs \in SUBSET {"sadd", "csrem", "cdel"} : Onward(x, p, pcs)
      <4>1. CASE p.user = Nil
        BY <1>2, <1>9, <2>2, <4>1, AfterUserShape
      <4>2. CASE p.user # Nil
        BY <1>2, <1>9, <2>2, <4>2, AfterUserShape
      <4>. QED  BY <4>1, <4>2
    <3>3. Alike(x, p) /\ x.pc \in {"sadd", "csrem", "cdel"}
      BY <3>2 DEF Onward
    <3>. HIDE DEF x
    <3>4. clock = issued[c.sid].born => Stored(x, store)
      BY <1>1, <1>2, <1>5, <1>9, <3>1, <3>3 DEF Steady, Stored, Alike
    <3>5. SyncReach(x, c)
      BY <3>3 DEF SyncReach, Syncs, Listing
    <3>. QED  BY <1>1, <1>9, <3>1, <3>3, <3>4, <3>5 DEF Fits, Alike, Unmapped, Listing, x
  <2>. QED  BY <2>1, <2>2
<1>. HIDE DEF f
<1>10. Fits(AfterUser(o), c, store) /\ (u # Nil => Fits(AfterUser(f), c, store))
  BY <1>3, <1>4, <1>7, <1>8, <1>9 DEF Alike
<1>. QED  BY <1>1, <1>6, <1>10, AskKeeps

(* The field commands of the application belong to no renewal. *)
LEMMA FieldKeeps ==
  ASSUME SInv, NEW r \in Reqs, SilentSet(r) \/ SilentGet(r) \/ SilentDel(r)
  PROVE  Keeps(r)
<1>. DEFINE o == obj[r]
            h == store[o.sid]
<1>1. o.pc \in {"set", "get", "del"}
  BY DEF SilentSet, SilentGet, SilentDel, At
<1>2. /\ o \in Objects /\ o.sid \in Sids /\ o.op # "tryRenew" /\ h \in Hashes
      /\ o.op \notin Logins /\ Loyal(o, owner, issued)
  BY <1>1, Under DEF Steady
<1>3. \A st : Fits(TryTouch(o), o, st)
  BY <1>2, TryTouchShape, PlainFits DEF Listing
<1>4. \A st : \A v \in Rets : Fits(Return(o, v), o, st)
  BY <1>1, FailedFits
<1>5. CASE SilentSet(r)
  <2>1. o.arg \in Datas
    BY <1>2, <1>5 DEF SilentSet, At, Loyal
  <2>2. HSet(h, "data", o.arg).user = h.user
    BY <1>2, <2>1, HashTypes
  <2>. QED  BY <1>1, <1>2, <1>3, <1>5, <2>2, WriteKeeps DEF SilentSet
<1>6. CASE SilentGet(r)
  BY <1>1, <1>3, <1>4, <1>6, AskKeeps DEF SilentGet, Rets
<1>7. CASE SilentDel(r)
  <2>1. HDel(h, "data").user \in {Nil, h.user}
    BY <1>2, HashTypes
  <2>. QED  BY <1>1, <1>2, <1>3, <1>4, <1>7, <2>1, WriteKeeps DEF SilentDel, Rets
<1>. QED  BY <1>5, <1>6, <1>7

(* From touch on the new session expires, if it is there. *)
LEMMA TouchKeeps ==
  ASSUME SInv, NEW r \in Reqs, Touch(r)
  PROVE  Keeps(r)
<1>. DEFINE o == obj[r]
            h == Expire(store[o.sid], o.ttl)
            st == [store EXCEPT ![o.sid] = h]
            b == Bool(Exists(store[o.sid]))
            p == [o EXCEPT !.touches = b]
            x == AfterTouch(p)
<1>1. o.pc = "touch"
  BY DEF Touch, At
<1>2. /\ o \in Objects /\ o.sid \in Sids /\ o.op # "tryRenew" /\ o.ttl > 0 /\ o.ttl \in Nat
      /\ store[o.sid] \in Hashes /\ Steady(o, store, issued, clock)
  BY <1>1, Under DEF Objects
<1>3. h \in Hashes /\ h.user = store[o.sid].user
  BY <1>2, HashTypes
<1>4. store[o.sid].user # Nil => h.ttl = o.ttl
  BY <1>2 DEF Expire, Exists, Fields, Hashes
<1>5. p \in Objects
  BY <1>2, Assigned, BoolType
<1>6. Alike(p, o)
  BY <1>2 DEF Alike, Objects
<1>7. st[o.sid] = h
  BY <1>2 DEF SInv, IInv, TypeOK
<1>8. Write(r, o.sid, h, x)
  BY DEF Touch
<1>. HIDE DEF h, st, b, p
<1>9. Fits(x, o, st)
  <2>1. CASE o.op \notin Logins
    <3>1. Onward(x, p, {"ready"})
      BY <1>2, <1>5, <1>6, <2>1, AfterTouchShape DEF Alike
    <3>2. Onward(x, o, {"ready"})
      BY <1>6, <3>1 DEF Onward, Alike, Listing
    <3>. QED  BY <3>2, PlainFits DEF Listing
  <2>2. CASE o.op \in Logins
    <3>1. Onward(x, p, {"user"})
      BY <1>2, <1>5, <1>6, <2>2, AfterTouchShape DEF Alike
    <3>2. Onward(x, o, {"user"})
      BY <1>6, <3>1 DEF Onward, Alike, Listing
    <3>3. Renewing(o)
      BY <1>1, <2>2 DEF Renewing
    <3>4. clock = issued[o.sid].born => Stored(x, st)
      BY <1>1, <1>2, <1>3, <1>4, <1>7, <3>2, <3>3 DEF Steady, Stored, Onward, Alike
    <3>. HIDE DEF x
    <3>. QED  BY <1>1, <3>2, <3>3, <3>4, RenewalFits DEF Unmapped
  <2>. QED  BY <2>1, <2>2
<1>. HIDE DEF x
<1>. QED  BY <1>1, <1>2, <1>3, <1>8, <1>9, WriteKeeps DEF st

(* load puts the login of the call under the new id. *)
LEMMA LoadKeeps ==
  ASSUME SInv, NEW r \in Reqs, Load(r)
  PROVE  Keeps(r)
<1>. DEFINE c == obj[r]
            o == [c EXCEPT !.raw = Missing]
            h == HMSet(store[o.sid], c.raw)
            st == [store EXCEPT ![c.sid] = h]
            x == TryTouch(o)
<1>1. c.pc = "load"
  BY DEF Load, At
<1>2. /\ c \in Objects /\ c.sid \in Sids /\ c.op # "tryRenew" /\ c.op \in Logins
      /\ Steady(c, store, issued, clock)
  BY <1>1, Under DEF Loyal
<1>3. o \in Objects
  BY <1>2, Assigned, MissingType
<1>4. Alike(o, c) /\ o.touches = c.touches
  BY <1>2 DEF Alike, Objects
<1>5. c.user # Nil => h.user # Nil
  BY <1>1, <1>2 DEF Steady, HMSet, Over
<1>6. st[c.sid] = h
  BY <1>2 DEF SInv, IInv, TypeOK
<1>7. Write(r, c.sid, h, x)
  BY <1>4 DEF Load, Alike
<1>. HIDE DEF o, h, st
<1>8. Onward(x, o, {"touch"})
  BY <1>1, <1>2, <1>3, <1>4, TryTouchShape DEF Alike, Steady
<1>. HIDE DEF x
<1>9. Onward(x, c, {"touch"})
  BY <1>4, <1>8 DEF Onward, Alike, Listing
<1>10. Stored(x, st)
  BY <1>5, <1>6, <1>9 DEF Stored, Onward, Alike
<1>11. Fits(x, c, st)
  BY <1>1, <1>2, <1>9, <1>10, RenewalFits DEF Renewing, Unmapped
<1>. QED  BY <1>1, <1>2, <1>7, <1>11, WriteKeeps DEF st

(* The index commands of a renewal leave the new session as it is. *)
LEMMA MappingKeeps ==
  ASSUME SInv, NEW r \in Reqs, MappingAdd(r) \/ MappingExpire(r) \/ ClonedUnmapping(r)
  PROVE  Keeps(r)
<1>. DEFINE o == obj[r]
<1>1. o.pc \in {"sadd", "mapexpire", "csrem"}
  BY DEF MappingAdd, MappingExpire, ClonedUnmapping, At
<1>2. /\ o \in Objects /\ o.op # "tryRenew" /\ o.op \in Logins /\ o.sid \in Sids /\ o.csid \in Sids
      /\ Steady(o, store, issued, clock) /\ Loyal(o, owner, issued)
  BY <1>1, Under DEF Loyal
<1>3. Renewing(o)
  BY <1>1, <1>2 DEF Renewing
<1>4. ASSUME NEW pcs \in SUBSET {"mapexpire", "csrem", "cdel"}, NEW x, Onward(x, o, pcs)
      PROVE  Fits(x, o, store) /\ x.pc \notin Unmapped
  <2>1. clock = issued[o.sid].born => Stored(x, store)
    BY <1>1, <1>2, <1>3, <1>4 DEF Steady, Stored, Onward, Alike
  <2>. QED  BY <1>3, <1>4, <2>1, RenewalFits DEF Unmapped, Onward
<1>5. /\ Fits(AfterRenew(o), o, store) /\ AfterRenew(o).pc \notin Unmapped
      /\ \A pc \in {"mapexpire", "cdel"} :
           Fits([o EXCEPT !.pc = pc], o, store) /\ [o EXCEPT !.pc = pc].pc \notin Unmapped
  BY <1>2, <1>4, AfterRenewShape, MoveShape, PointsReached
<1>6. Fits(Return(o, "err"), o, store) /\ Return(o, "err").pc \notin Unmapped
  BY <1>1, <1>2, FailedFits, ReturnShape DEF Rets, Onward, Unmapped
<1>7. CASE MappingAdd(r)
  <2>1. o.user.uid \in Uids
    BY <1>2, <1>7, Constants DEF MappingAdd, At, Loyal, Objects
  <2>2. SAdd(umap[o.user.uid], o.sid).sids \subseteq umap[o.user.uid].sids \cup {o.sid}
    <3>1. umap[o.user.uid] \in [sids : SUBSET Sids, ttl : Nat]
      BY <2>1 DEF SInv, IInv, TypeOK
    <3>. QED  BY <3>1 DEF SAdd
  <2>3. Await(r, store, [umap EXCEPT ![o.user.uid] = SAdd(umap[o.user.uid], o.sid)],
              [o EXCEPT !.pc = "mapexpire"], AfterRenew(o))
    BY <1>7, <2>1 DEF MappingAdd, SInv, IInv, TypeOK
  <2>. HIDE DEF o
  <2>. QED  BY <1>1, <1>5, <2>1, <2>2, <2>3, IndexKeeps DEF o
<1>8. CASE MappingExpire(r)
  <2>1. o.user.uid \in Uids
    BY <1>2, <1>8, Constants DEF MappingExpire, At, Loyal, Objects
  <2>2. ExpireSet(umap[o.user.uid], MapTtl).sids \subseteq umap[o.user.uid].sids \cup {o.sid}
    BY DEF ExpireSet
  <2>3. Await(r, store, [umap EXCEPT ![o.user.uid] = ExpireSet(umap[o.user.uid], MapTtl)],
              AfterRenew(o), AfterRenew(o))
    BY <1>8, <2>1 DEF MappingExpire, SInv, IInv, TypeOK
  <2>. HIDE DEF o
  <2>. QED  BY <1>1, <1>5, <2>1, <2>2, <2>3, IndexKeeps DEF o
<1>9. CASE ClonedUnmapping(r)
  <2>1. o.cuser.uid \in Uids
    BY <1>2, <1>9, Constants DEF ClonedUnmapping, At, Loyal, Objects
  <2>2. SRem(umap[o.cuser.uid], o.csid).sids \subseteq umap[o.cuser.uid].sids \cup {o.sid}
    BY <1>2, <2>1, IndexTypes DEF SInv, IInv, TypeOK
  <2>3. Await(r, store, [umap EXCEPT ![o.cuser.uid] = SRem(umap[o.cuser.uid], o.csid)],
              [o EXCEPT !.pc = "cdel"], Return(o, "err"))
    BY <1>9, <2>1 DEF ClonedUnmapping, SInv, IInv, TypeOK
  <2>. HIDE DEF o
  <2>. QED  BY <1>1, <1>5, <1>6, <2>1, <2>2, <2>3, IndexKeeps DEF o
<1>. QED  BY <1>7, <1>8, <1>9

(* The commands that delete a login, and unmapping before them. *)
LEMMA DeletingKeeps ==
  ASSUME SInv, NEW r \in Reqs,
         ClonedDestroy(r) \/ LogoutDel(r) \/ DestroyDel(r) \/ Unmapping(r)
  PROVE  Keeps(r)
<1>. DEFINE o == obj[r]
<1>1. o.pc \in {"cdel", "userdel", "destroydel", "srem"}
  BY DEF ClonedDestroy, LogoutDel, DestroyDel, Unmapping, At
<1>2. o \in Objects /\ o.sid \in Sids /\ store[o.sid] \in Hashes /\ Loyal(o, owner, issued)
  BY <1>1, Under
<1>3. \A st : \A v \in Rets : Fits(Return(o, v), o, st)
  BY <1>1, FailedFits
<1>4. CASE ClonedDestroy(r)
  <2>1. o.csid \in Sids
    BY <1>2, <1>4 DEF ClonedDestroy, At, Loyal
  <2>. QED  BY <1>1, <1>3, <1>4, <2>1, MissingType, WriteKeeps DEF ClonedDestroy, Rets
<1>5. CASE LogoutDel(r)
  <2>1. HDel(store[o.sid], "user").user = Nil
    BY <1>2, HashTypes
  <2>. QED  BY <1>1, <1>2, <1>3, <1>5, <2>1, BoolType, WriteKeeps DEF LogoutDel, Rets
<1>6. CASE DestroyDel(r)
  BY <1>1, <1>2, <1>3, <1>6, BoolType, MissingType, WriteKeeps DEF DestroyDel, Rets
<1>7. CASE Unmapping(r)
  <2>. DEFINE u == o.user.uid
              good == IF o.op = "logout" THEN [o EXCEPT !.user = Nil, !.pc = "userdel"]
                                         ELSE [o EXCEPT !.pc = "destroydel"]
  <2>1. u \in Uids
    BY <1>2, <1>7, Constants DEF Unmapping, At, Loyal, Objects
  <2>2. SRem(umap[u], o.sid).sids \subseteq umap[u].sids \cup {o.sid}
    BY <1>2, <2>1, IndexTypes DEF SInv, IInv, TypeOK
  <2>3. /\ good.sid = o.sid /\ good.csid = o.csid /\ good.ttl = o.ttl
        /\ good.pc \in {"userdel", "destroydel"}
    BY <1>2 DEF Objects
  <2>4. Await(r, store, [umap EXCEPT ![u] = SRem(umap[u], o.sid)], good, Return(o, "err"))
    BY <1>7, <2>1 DEF Unmapping, SInv, IInv, TypeOK
  <2>. HIDE DEF good
  <2>5. Fits(good, o, store)
    BY <2>3 DEF Fits, Renewing, SyncReach, Syncs, Listing
  <2>6. Return(o, "err").pc = "ready"
    BY <1>2 DEF Return, Objects
  <2>. HIDE DEF u, o
  <2>. QED  BY <1>1, <1>3, <2>1, <2>2, <2>3, <2>4, <2>5, <2>6, IndexKeeps DEF o, Rets, Unmapped
<1>. QED  BY <1>4, <1>5, <1>6, <1>7

(* sync goes on with the ids it found listed, and writes into those only. *)
LEMMA SyncKeeps ==
  ASSUME SInv, NEW r \in Reqs, NEW s \in Sids,
         AllSid(r) \/ FilterExists(r, s) \/ FilterRemove(r) \/ SyncSet(r, s)
  PROVE  Keeps(r)
<1>. DEFINE c == obj[r]
<1>1. c.pc \in Listing
  BY DEF AllSid, FilterExists, FilterRemove, SyncSet, At, Listing
<1>2. c \in Objects /\ c.arg \in Profiles /\ Loyal(c, owner, issued) /\ c.arg.uid \in Uids
  BY <1>1, Under, Constants DEF Loyal, Listing
<1>3. c.todo \in SUBSET Sids /\ c.kept \in SUBSET Sids
  BY <1>2 DEF Objects
<1>4. \A st : Fits(Return(c, "err"), c, st)
  BY <1>1, FailedFits DEF Rets, Listing
<1>5. ASSUME NEW o \in Objects, o.sid = c.sid, o.csid = c.csid, o.ttl = c.ttl,
             \A x \in o.todo \cup o.kept : x \in c.todo \cup c.kept \/ Listed(x, umap), NEW st
      PROVE  Fits(Syncing(o), c, st) /\ Syncing(o).pc \notin Unmapped
  <2>1. Onward(Syncing(o), o, {"exists", "hset", "ready"})
    BY SyncingShape
  <2>2. SyncReach(Syncing(o), c)
    BY <1>1, <1>5, <2>1 DEF SyncReach, Syncs, Onward, Listing
  <2>. QED  BY <1>1, <1>5, <2>1, <2>2 DEF Fits, Onward, Alike, Renewing, Unmapped, Listing
<1>6. CASE AllSid(r)
  <2>. DEFINE o == [c EXCEPT !.todo = umap[c.arg.uid].sids]
  <2>1. umap[c.arg.uid].sids \in SUBSET Sids /\ \A x \in umap[c.arg.uid].sids : Listed(x, umap)
    BY <1>2 DEF SInv, IInv, TypeOK, Listed
  <2>2. o \in Objects
    BY <1>2, <2>1, Assigned
  <2>3. /\ o.sid = c.sid /\ o.csid = c.csid /\ o.ttl = c.ttl
        /\ o.todo = umap[c.arg.uid].sids /\ o.kept = c.kept
    BY <1>2 DEF Objects
  <2>4. Ask(r, Syncing(o), Return(c, "err"))
    BY <1>6 DEF AllSid
  <2>. HIDE DEF o
  <2>5. Fits(Syncing(o), c, store)
    BY <1>5, <2>1, <2>2, <2>3
  <2>. QED  BY <1>1, <1>4, <2>4, <2>5, AskKeeps DEF Listing
<1>7. CASE FilterExists(r, s)
  <2>. DEFINE o == [c EXCEPT !.todo = c.todo \ {s}]
              k == [o EXCEPT !.kept = o.kept \cup {s}]
              g == [o EXCEPT !.cur = s, !.pc = "filtersrem"]
  <2>1. s \in c.todo
    BY <1>7 DEF FilterExists
  <2>2. o \in Objects
    BY <1>2, <1>3, Assigned
  <2>3. /\ o.sid = c.sid /\ o.csid = c.csid /\ o.ttl = c.ttl
        /\ o.todo = c.todo \ {s} /\ o.kept = c.kept
    BY <1>2 DEF Objects
  <2>4. Ask(r, IF Exists(store[s]) THEN Syncing(k) ELSE g, Return(o, "err"))
    BY <1>7 DEF FilterExists
  <2>. HIDE DEF o
  <2>5. k \in Objects
    BY <1>3, <2>2, <2>3, Assigned
  <2>6. /\ k.sid = c.sid /\ k.csid = c.csid /\ k.ttl = c.ttl
        /\ k.todo = c.todo \ {s} /\ k.kept = c.kept \cup {s}
    BY <2>2, <2>3 DEF Objects
  <2>7. /\ g.sid = c.sid /\ g.csid = c.csid /\ g.ttl = c.ttl /\ g.pc = "filtersrem"
        /\ g.todo = c.todo \ {s} /\ g.kept = c.kept
    BY <2>2, <2>3 DEF Objects
  <2>. HIDE DEF k, g
  <2>8. Fits(Syncing(k), c, store)
    BY <1>5, <2>1, <2>5, <2>6
  <2>9. Fits(g, c, store)
    BY <1>1, <2>7 DEF Fits, SyncReach, Syncs, Listing, Renewing
  <2>10. Fits(Return(o, "err"), c, store)
    <3>1. Onward(Return(o, "err"), o, {"ready"})
      BY <2>2, ReturnShape DEF Rets
    <3>. QED  BY <2>3, <3>1 DEF Fits, Onward, Alike, SyncReach, Syncs, Listing, Renewing
  <2>. QED  BY <1>1, <2>4, <2>8, <2>9, <2>10, AskKeeps DEF Listing
<1>8. CASE FilterRemove(r)
  <2>1. SRem(umap[c.arg.uid], c.cur).sids \subseteq umap[c.arg.uid].sids \cup {c.sid}
    BY <1>2, IndexTypes DEF SInv, IInv, TypeOK
  <2>2. Await(r, store, [umap EXCEPT ![c.arg.uid] = SRem(umap[c.arg.uid], c.cur)],
              Syncing(c), Syncing(c))
    BY <1>2, <1>8 DEF FilterRemove, SInv, IInv, TypeOK
  <2>3. Fits(Syncing(c), c, store) /\ Syncing(c).pc \notin Unmapped
    BY <1>2, <1>5
  <2>. HIDE DEF c
  <2>. QED  BY <1>1, <1>2, <2>1, <2>2, <2>3, IndexKeeps DEF Listing, c
<1>9. CASE SyncSet(r, s)
  <2>. DEFINE o == [c EXCEPT !.kept = c.kept \ {s}]
              h == HSet(store[s], "user", c.arg)
              st == [store EXCEPT ![s] = h]
  <2>1. c.pc = "hset" /\ s \in c.kept
    BY <1>9 DEF SyncSet, At
  <2>2. o \in Objects
    BY <1>2, <1>3, Assigned
  <2>3. /\ o.sid = c.sid /\ o.csid = c.csid /\ o.ttl = c.ttl
        /\ o.todo = c.todo /\ o.kept = c.kept \ {s}
    BY <1>2 DEF Objects
  <2>4. h.user = c.arg /\ h.user # Nil /\ h.ttl = store[s].ttl
    BY <1>2, Constants DEF HSet, SInv, IInv, TypeOK, Hashes
  <2>5. Await(r, st, umap, Syncing(o), Return(c, "err"))
    BY <1>9 DEF SyncSet, Write
  <2>. HIDE DEF o, h
  <2>6. StoreReach(c, st)
    BY <2>1, <2>4 DEF StoreReach, SInv, IInv, TypeOK
  <2>7. IndexReach(c, umap)
    BY DEF IndexReach
  <2>. HIDE DEF st
  <2>8. Fits(Syncing(o), c, st)
    BY <1>5, <2>2, <2>3
  <2>. QED  BY <1>1, <1>4, <2>5, <2>6, <2>7, <2>8, AwaitKeeps DEF Listing
<1>. QED  BY <1>6, <1>7, <1>8, <1>9

-----------------------------------------------------------------------------
(* Requests, calls and the clock *)

(* The new id is nobody's yet: that is what makes it private. *)
LEMMA FreshIsFree ==
  ASSUME SInv, NEW n \in Fresh
  PROVE  /\ n \in Sids /\ n \notin known /\ n # Nil /\ store[n].user = Nil /\ ~ Listed(n, umap)
         /\ \A q \in Reqs : obj[q].sid # n /\ obj[q].csid # n /\ ~ Syncs(obj[q], n)
<1>1. n \in Sids /\ n \notin known /\ n # Nil /\ issued[n] = Nil /\ owner[n] = Nil
  BY Constants DEF Fresh, SInv, IInv, TypeOK
<1>2. store[n].user = Nil
  <2>1. store[n].user \in Profiles \cup {Nil} /\ (store[n].user # Nil => store[n].user.uid = Nil)
    BY <1>1 DEF SInv, IInv, TypeOK, Hashes, StoreOwned
  <2>. QED  BY <2>1, Constants
<1>3. \A u \in Uids : n \notin Owned(u, owner)
  BY <1>1, Constants DEF Owned
<1>4. ~ Listed(n, umap)
  BY <1>3 DEF Listed, SInv, IInv, IndexOwned
<1>5. ASSUME NEW q \in Reqs
      PROVE  obj[q].sid # n /\ obj[q].csid # n /\ ~ Syncs(obj[q], n)
  <2>1. Steady(obj[q], store, issued, clock) /\ Loyal(obj[q], owner, issued)
    BY DEF SInv, IInv
  <2>2. obj[q].sid # n /\ obj[q].csid # n
    BY <1>1, <2>1 DEF Steady, Loyal, Held
  <2>3. obj[q].pc \in Listing => n \notin obj[q].todo \cup obj[q].kept
    BY <1>3, <2>1, Constants DEF Loyal, Listing
  <2>. QED  BY <2>2, <2>3 DEF Syncs
<1>. QED  BY <1>1, <1>2, <1>4, <1>5

(* A step that touches neither store nor index, and no renewal's object. *)
LEMMA QuietKeeps ==
  ASSUME SInv, NEW r \in Reqs, NEW x, obj' = [obj EXCEPT ![r] = x],
         UNCHANGED <<store, umap, clock>>, IssuedReach(issued'),
         known' \subseteq known \cup {obj[r].sid},
         x.sid \in {obj[r].sid, Nil} \cup known \cup Fresh,
         x.csid \in {obj[r].csid, obj[r].sid, Nil},
         x.pc \notin Listing \/ (x.todo = {} /\ x.kept = {} /\ "sync" \in Ops),
         obj[r].pc \in {"closed", "raw"} \/ issued' = issued, x.pc # "load",
         ~ Renewing(x), Steady(x, store, issued', clock)
  PROVE  Keeps(r)
<1>1. obj'[r] = x /\ \A q \in Reqs \ {r} : obj'[q] = obj[q]
  BY DEF SInv, IInv, TypeOK
<1>2. StoreReach(obj[r], store') /\ IndexReach(obj[r], umap')
  BY DEF StoreReach, IndexReach
<1>3. SyncReach(x, obj[r])
  BY DEF SyncReach, Syncs
<1>4. Within(r)
  BY <1>1, <1>2, <1>3 DEF Within
<1>5. Private(r)'
  BY <1>1 DEF Private
<1>. QED  BY <1>1, <1>4, <1>5 DEF Keeps

(* Nothing is generated. *)
LEMMA SameIssued == ASSUME issued' = issued PROVE IssuedReach(issued')
BY DEF IssuedReach

LEMMA OpenNewKeeps ==
  ASSUME SInv, NEW r \in Reqs, NEW s \in Sids, NEW t \in Ttls, OpenNew(r, s, t)
  PROVE  Keeps(r)
<1>. DEFINE x == Object(s, t)
            i == [ttl |-> t, born |-> clock]
<1>1. /\ s \in Fresh /\ issued' = [issued EXCEPT ![s] = i]
      /\ obj' = [obj EXCEPT ![r] = x] /\ UNCHANGED <<store, umap, known, clock, faults, owner>>
  BY DEF OpenNew
<1>2. t > 0 /\ i.ttl = t /\ i.born = clock /\ clock \in Nat
  BY ConstantsOK DEF SInv, IInv, TypeOK
<1>. HIDE DEF i
<1>3. IssuedReach(issued')
  BY <1>1, <1>2 DEF IssuedReach, SInv, IInv, TypeOK, Fresh
<1>4. x.sid = s /\ x.ttl = t /\ x.csid = Nil /\ x.pc = "ready"
  BY DEF Object
<1>. HIDE DEF x
<1>5. Steady(x, store, issued', clock) /\ ~ Renewing(x)
  BY <1>2, <1>4 DEF Steady, Renewing
<1>. QED  BY <1>1, <1>3, <1>4, <1>5, QuietKeeps DEF OpenNew, Listing

LEMMA OpenWithKeeps ==
  ASSUME SInv, NEW r \in Reqs, NEW s \in Sids, OpenWith(r, s)
  PROVE  Keeps(r)
<1>. DEFINE x == Object(s, issued[s].ttl)
<1>1. /\ s \in known /\ obj' = [obj EXCEPT ![r] = x]
      /\ UNCHANGED <<store, umap, issued, known, clock, faults, owner>>
  BY DEF OpenWith
<1>2. issued[s].ttl > 0
  BY <1>1 DEF SInv, IInv, TypeOK, Fresh, Stamped
<1>3. x.sid = s /\ x.ttl = issued[s].ttl /\ x.csid = Nil /\ x.pc = "ready"
  BY DEF Object
<1>. HIDE DEF x
<1>4. Steady(x, store, issued', clock) /\ ~ Renewing(x)
  BY <1>2, <1>3 DEF Steady, Renewing
<1>. QED  BY <1>1, <1>3, <1>4, SameIssued, QuietKeeps DEF Listing

(* The object of a request that is over holds no id. *)
LEMMA ClosingKeeps ==
  ASSUME SInv, NEW r \in Reqs, Close(r) \/ Drop(r)
  PROVE  Keeps(r)
<1>1. /\ obj' = [obj EXCEPT ![r] = Closed] /\ UNCHANGED <<store, umap, issued, clock>>
      /\ known' \subseteq known \cup {obj[r].sid}
  BY DEF Close, Drop
<1>2. Closed.sid = Nil /\ Closed.csid = Nil /\ Closed.pc = "closed"
  BY DEF Closed, Object
<1>3. Steady(Closed, store, issued', clock) /\ ~ Renewing(Closed)
  BY <1>2 DEF Steady, Renewing
<1>. QED  BY <1>1, <1>2, <1>3, SameIssued, QuietKeeps DEF Listing

(* A call starts from an object that has nothing left to do. *)
LEMMA BeginShape ==
  ASSUME SInv, NEW r \in Reqs, obj[r].pc = "ready", NEW op \in Calls \ {"tryRenew", "condemn"}
  PROVE  LET b == Begin(obj[r], op) IN
         /\ b \in Objects /\ b.op = op /\ b.op # "tryRenew"
         /\ b.sid = obj[r].sid /\ b.csid = obj[r].csid /\ b.ttl = obj[r].ttl /\ b.ttl > 0
         /\ b.todo = {} /\ b.kept = {}
<1>. DEFINE b == Begin(obj[r], op)
<1>1. obj[r] \in Objects /\ obj[r].todo = {} /\ obj[r].kept = {} /\ obj[r].ttl > 0
      /\ Held(obj[r], issued)
  BY Under, Objs DEF SInv, Loyal
<1>2. b \in Objects /\ b.op = op /\ b.todo = {} /\ b.kept = {}
  BY <1>1, BeginGood
<1>3. b.sid = obj[r].sid /\ b.csid = obj[r].csid /\ b.ttl = obj[r].ttl
  BY <1>1 DEF Begin, Objects
<1>. HIDE DEF b
<1>4. QED  BY <1>1, <1>2, <1>3 DEF b

(* A call up to its first await: log_in's clone takes the id over. *)
LEMMA CallKeeps ==
  ASSUME SInv, NEW r \in Reqs, NEW op, NEW x, Call(r, op, x),
         x.sid = obj[r].sid, x.csid \in {obj[r].csid, obj[r].sid}, x.ttl > 0,
         x.pc \notin Listing \/ (x.todo = {} /\ x.kept = {} /\ op = "sync"),
         x.pc \notin {"closed", "load"},
         IF x.op \in Logins THEN x.pc = "raw" /\ x.csid = x.sid ELSE x.pc # "raw"
  PROVE  Keeps(r)
<1>1. /\ obj[r].pc = "ready" /\ obj' = [obj EXCEPT ![r] = x]
      /\ UNCHANGED <<store, umap, issued, known, clock>>
  BY DEF Call
<1>2. Steady(obj[r], store, issued, clock) /\ Held(obj[r], issued)
  BY <1>1, Under, Objs DEF SInv
<1>3. ~ Renewing(x)
  BY DEF Renewing
<1>4. Steady(x, store, issued', clock)
  BY <1>1, <1>2, <1>3 DEF Steady, Held
<1>. QED  BY <1>1, <1>3, <1>4, SameIssued, QuietKeeps DEF Call

LEMMA AnyCallKeeps ==
  ASSUME SInv, NEW r \in Reqs, AnyCall(r)
  PROVE  Keeps(r)
<1>. DEFINE B(op) == Begin(obj[r], op)
            Plain == {"user", "set", "get", "del", "touch", "logout", "destroy", "sync"}
<1>1. obj[r].pc = "ready"
  BY DEF AnyCall, CallUser, CallSet, CallGet, CallDel, CallTouch, CallLogin, CallAutoLogin,
         CallLogout, CallDestroy, CallSync, Call
<1>2. \A op \in Plain \cup Logins :
        /\ B(op) \in Objects /\ B(op).op = op /\ B(op).op # "tryRenew"
        /\ B(op).sid = obj[r].sid /\ B(op).csid = obj[r].csid /\ B(op).ttl > 0
        /\ B(op).todo = {} /\ B(op).kept = {}
  BY <1>1, BeginShape DEF Calls, Logins
<1>. HIDE DEF B
<1>3. ASSUME NEW op \in Plain, NEW x, NEW pcs, Call(r, op, x), Onward(x, B(op), pcs),
             pcs \cap {"closed", "load", "raw"} = {}, pcs \cap Listing = {} \/ op = "sync"
      PROVE  Keeps(r)
  <2>1. op \notin Logins
    BY DEF Logins
  <2>2. /\ x.sid = obj[r].sid /\ x.csid = obj[r].csid /\ x.ttl > 0 /\ x.op = op
        /\ x.pc \notin {"closed", "load", "raw"}
        /\ x.pc \notin Listing \/ (x.todo = {} /\ x.kept = {} /\ op = "sync")
    BY <1>2, <1>3 DEF Onward, Alike
  <2>. QED  BY <1>3, <2>1, <2>2, CallKeeps
<1>4. \A op \in {"user", "logout", "destroy"} :
        Onward(User(B(op)), B(op), {"user", "ready", "srem", "destroydel"})
  BY <1>2, UserShape DEF Logins
<1>5. Onward(TryTouch(B("touch")), B("touch"), {"touch", "ready"})
  BY <1>2, TryTouchShape DEF Logins
<1>6. CASE CallUser(r) \/ CallLogout(r) \/ CallDestroy(r) \/ CallTouch(r)
  BY <1>3, <1>4, <1>5, <1>6 DEF CallUser, CallLogout, CallDestroy, CallTouch, B, Listing
<1>7. CASE CallGet(r) \/ CallDel(r)
  <2>1. Onward([B("get") EXCEPT !.pc = "get"], B("get"), {"get"})
        /\ Onward([B("del") EXCEPT !.pc = "del"], B("del"), {"del"})
    BY <1>2, MoveShape, PointsReached
  <2>. QED  BY <1>3, <1>7, <2>1 DEF CallGet, CallDel, B, Listing
<1>8. ASSUME NEW d \in Datas, CallSet(r, d)
      PROVE  Keeps(r)
  <2>1. Onward([B("set") EXCEPT !.arg = d, !.pc = "set"], B("set"), {"set"})
    BY <1>2 DEF Onward, Alike, Listing, Objects
  <2>. QED  BY <1>3, <1>8, <2>1 DEF CallSet, B, Listing
<1>9. ASSUME NEW p \in Profiles, CallSync(r, p)
      PROVE  Keeps(r)
  <2>1. Onward([B("sync") EXCEPT !.arg = p, !.pc = "smembers"], B("sync"), {"smembers"})
    BY <1>2 DEF Onward, Alike, Objects
  <2>. QED  BY <1>3, <1>9, <2>1 DEF CallSync, B
<1>10. ASSUME NEW op \in Logins, NEW x, Call(r, op, x), x.pc = "raw", x.op = op,
              x.sid = B(op).sid, x.csid = B(op).sid, x.ttl > 0
       PROVE  Keeps(r)
  BY <1>2, <1>10, CallKeeps DEF Listing
<1>11. CASE CallAutoLogin(r)
  <2>. DEFINE b == B("autoLogin")
  <2>1. /\ LogIn(b).pc = "raw" /\ LogIn(b).op = b.op /\ LogIn(b).sid = b.sid
        /\ LogIn(b).csid = b.sid /\ LogIn(b).ttl = b.ttl
    BY <1>2 DEF LogIn, Objects, Logins
  <2>. QED  BY <1>2, <1>10, <1>11, <2>1 DEF CallAutoLogin, B, Logins
<1>12. ASSUME NEW p \in Profiles, NEW t \in Ttls, CallLogin(r, p, t)
       PROVE  Keeps(r)
  <2>. DEFINE b == B("login")
              x == [LogIn(b) EXCEPT !.user = p, !.ttl = t]
  <2>1. /\ x.pc = "raw" /\ x.op = b.op /\ x.sid = b.sid /\ x.csid = b.sid /\ x.ttl = t
    BY <1>2 DEF LogIn, Objects, Logins
  <2>2. t > 0
    BY ConstantsOK
  <2>3. Call(r, "login", x)
    BY <1>12 DEF CallLogin, B
  <2>. HIDE DEF x
  <2>. QED  BY <1>2, <1>10, <2>1, <2>2, <2>3 DEF Logins
<1>. QED  BY <1>6, <1>7, <1>8, <1>9, <1>11, <1>12 DEF AnyCall

(* renew takes an id nobody else has; the old one stays with the clone. *)
LEMMA RawKeeps ==
  ASSUME SInv, NEW r \in Reqs, Raw(r)
  PROVE  Keeps(r)
<1>. DEFINE o == obj[r]
            h == store[o.sid]
            raw == Filtered(o, h)
            i == [ttl |-> o.ttl, born |-> clock]
<1>1. o.pc = "raw" /\ UNCHANGED <<store, umap, known, clock>>
  BY DEF Raw, At
<1>2. /\ o \in Objects /\ o.sid \in Sids /\ o.op \in Logins /\ o.ttl > 0 /\ h \in Hashes
      /\ o.csid = o.sid /\ o.csid # Nil /\ issued[o.sid] # Nil
      /\ Steady(o, store, issued, clock) /\ clock \in Nat
  BY <1>1, Under, Constants DEF Loyal, Held, Steady, SInv, IInv, TypeOK
<1>3. o.user # Nil => raw.user # Nil /\ Exists(raw)
  BY <1>2 DEF Filtered, Logins, Hashes, Exists, Fields
<1>4. \A p : p \in Objects /\ p.sid = o.sid /\ p.csid = o.csid /\ p.ttl = o.ttl =>
        /\ Return(p, "err").sid = o.sid /\ Return(p, "err").csid = o.csid
        /\ Return(p, "err").ttl = o.ttl /\ Return(p, "err").pc = "ready"
  BY DEF Return, Objects
<1>5. ASSUME NEW p \in Objects, p.sid = o.sid, p.csid = o.csid, p.ttl = o.ttl,
             obj' = [obj EXCEPT ![r] = Return(p, "err")], issued' = issued
      PROVE  Keeps(r)
  <2>. DEFINE x == Return(p, "err")
  <2>1. x.sid = o.sid /\ x.csid = o.csid /\ x.ttl = o.ttl /\ x.pc = "ready"
    BY <1>4, <1>5
  <2>. HIDE DEF x
  <2>2. Steady(x, store, issued', clock) /\ ~ Renewing(x)
    BY <1>2, <1>5, <2>1 DEF Steady, Renewing
  <2>. QED  BY <1>1, <1>5, <2>1, <2>2, SameIssued, QuietKeeps DEF Listing, x
<1>6. ASSUME NEW n \in Fresh, issued' = [issued EXCEPT ![n] = i],
             obj' = [obj EXCEPT ![r] = Renewed(o, n, raw)]
      PROVE  Keeps(r)
  <2>. DEFINE x == Renewed(o, n, raw)
  <2>1. /\ n \in Sids /\ n \notin known /\ n # Nil /\ store[n].user = Nil /\ ~ Listed(n, umap)
        /\ \A q \in Reqs : obj[q].sid # n /\ obj[q].csid # n /\ ~ Syncs(obj[q], n)
    BY FreshIsFree
  <2>2. /\ x.sid = n /\ x.csid = o.csid /\ x.ttl = o.ttl /\ x.op = o.op /\ x.user = o.user
        /\ \/ x.pc = "load" /\ x.touches = "none" /\ x.raw.user = raw.user
           \/ x.pc = "user" /\ ~ Exists(raw)
    <3>1. /\ [raw EXCEPT !.ttl = 0].user = raw.user
      BY <1>2 DEF Filtered, Logins, Hashes
    <3>. HIDE DEF raw
    <3>. QED  BY <1>2, <3>1 DEF Renewed, Objects
  <2>3. obj'[r] = x /\ \A q \in Reqs \ {r} : obj'[q] = obj[q]
    BY <1>6 DEF SInv, IInv, TypeOK
  <2>. HIDE DEF x
  <2>4. IssuedReach(issued') /\ issued'[o.csid] # Nil
    <3>1. i.ttl = o.ttl /\ i.born = clock
      OBVIOUS
    <3>2. issued \in [Sids -> [ttl : Nat, born : Nat] \cup {Nil}] /\ issued[n] = Nil
      BY DEF SInv, IInv, TypeOK, Fresh
    <3>. HIDE DEF i
    <3>. QED  BY <1>2, <1>6, <3>1, <3>2 DEF IssuedReach
  <2>5. Within(r)
    <3>1. StoreReach(o, store') /\ IndexReach(o, umap') /\ SyncReach(x, o)
      BY <1>1, <2>2 DEF StoreReach, IndexReach, SyncReach, Syncs, Listing
    <3>. QED  BY <1>1, <2>2, <2>3, <2>4, <3>1 DEF Within, Listing
  <2>6. Stored(x, store)
    BY <1>3, <2>1, <2>2 DEF Stored
  <2>7. Steady(x, store', issued', clock')
    BY <1>1, <1>2, <1>3, <2>1, <2>2, <2>4, <2>6 DEF Steady
  <2>8. Private(r)'
    <3>1. ~ Syncs(x, n)
      BY <2>2 DEF Syncs, Listing
    <3>. QED  BY <1>1, <2>1, <2>2, <2>3, <3>1 DEF Private, Listed
  <2>. QED  BY <2>3, <2>5, <2>7, <2>8 DEF Keeps
<1>7. \/ \E n \in Fresh : /\ issued' = [issued EXCEPT ![n] = i]
                          /\ obj' = [obj EXCEPT ![r] = Renewed(o, n, raw)]
      \/ /\ obj' = [obj EXCEPT ![r] = Return([o EXCEPT !.touches = "none"], "err")]
         /\ issued' = issued
      \/ obj' = [obj EXCEPT ![r] = Return(o, "err")] /\ issued' = issued
  BY DEF Raw
<1>. DEFINE p == [o EXCEPT !.touches = "none"]
<1>8. p \in Objects
  BY <1>2, Assigned
<1>9. p.sid = o.sid /\ p.csid = o.csid /\ p.ttl = o.ttl
  BY <1>2 DEF Objects
<1>. HIDE DEF o, raw, i
<1>. QED  BY <1>2, <1>5, <1>6, <1>7, <1>8, <1>9

LEMMA CommandKeeps ==
  ASSUME SInv, NEW r \in Reqs, Command(r)
  PROVE  Keeps(r)
<1>1. CASE LoadUser(r) \/ SilentSet(r) \/ SilentGet(r) \/ SilentDel(r) \/ Touch(r)
  BY <1>1, LoadUserKeeps, FieldKeeps, TouchKeeps
<1>2. CASE Raw(r) \/ Load(r) \/ MappingAdd(r) \/ MappingExpire(r) \/ ClonedUnmapping(r)
  BY <1>2, RawKeeps, LoadKeeps, MappingKeeps
<1>3. CASE ClonedDestroy(r) \/ Unmapping(r) \/ LogoutDel(r) \/ DestroyDel(r)
  BY <1>3, DeletingKeeps
<1>4. CASE AllSid(r) \/ FilterRemove(r)
  <2>1. obj[r].sid \in Sids
    BY <1>4, Under DEF AllSid, FilterRemove, At
  <2>. QED  BY <1>4, <2>1, SyncKeeps
<1>5. CASE \E s \in Sids : FilterExists(r, s) \/ SyncSet(r, s)
  BY <1>5, SyncKeeps
<1>. QED  BY <1>1, <1>2, <1>3, <1>4, <1>5 DEF Command

(* The tick after the one of its generation, a session may be gone. *)
LEMMA TickSInv ==
  ASSUME SInv, Tick
  PROVE  SInv'
<1>1. IInv'
  BY TickStep DEF SInv
<1>2. clock \in Nat /\ clock' = clock + 1 /\ UNCHANGED <<issued, known, obj>>
  BY DEF Tick, SInv, IInv, TypeOK
<1>3. issued \in [Sids -> [ttl : Nat, born : Nat] \cup {Nil}]
  BY DEF SInv, IInv, TypeOK
<1>4. \A s \in Sids : issued[s] # Nil => issued[s].born \in Nat /\ issued[s].born <= clock
  BY <1>3 DEF SInv, Stamped
<1>5. Stamped(issued', clock')
  BY <1>2, <1>4 DEF SInv, Stamped
<1>6. \A s \in Sids : store'[s].user \in {Nil, store[s].user}
  BY HashTypes DEF Tick, SInv, IInv, TypeOK
<1>7. \A s \in Sids : Listed(s, umap') => Listed(s, umap)
  BY IndexTypes DEF Tick, SInv, IInv, TypeOK, Listed
<1>8. ASSUME NEW r \in Reqs
      PROVE  Steady(obj'[r], store', issued', clock') /\ Private(r)'
  <2>. DEFINE o == obj[r]
  <2>1. Steady(o, store, issued, clock) /\ Private(r) /\ Loyal(o, owner, issued)
    BY DEF SInv, IInv
  <2>2. o.pc # "closed" => o.sid \in Sids /\ issued[o.sid] # Nil
    BY <2>1 DEF Loyal, Held
  <2>3. Renewing(o) => clock' # issued'[o.sid].born
    BY <1>2, <1>4, <2>2 DEF Renewing
  <2>4. o.pc = "load" => store'[o.sid].user = Nil
    BY <1>6, <2>1, <2>2 DEF Steady
  <2>5. Steady(o, store', issued', clock')
    BY <1>2, <2>1, <2>3, <2>4 DEF Steady
  <2>6. Renewing(o) => o.sid \in Sids
    BY <2>2 DEF Renewing
  <2>7. Private(r)'
    BY <1>2, <1>7, <2>1, <2>6 DEF Private, Syncs
  <2>. QED  BY <1>2, <2>5, <2>7
<1>. QED  BY <1>1, <1>5, <1>8 DEF SInv

-----------------------------------------------------------------------------
(* The theorem *)

LEMMA InitSInv == Init => SInv
<1>. SUFFICES ASSUME Init  PROVE SInv
  OBVIOUS
<1>1. Stamped(issued, clock)
  <2>1. \A t \in Ttls : t \in Nat /\ t > 0
    BY ConstantsOK
  <2>2. issued \in [Sids -> [ttl : Ttls, born : {0}] \cup {Nil}] /\ clock = 0
    BY DEF Init
  <2>. QED  BY <2>1, <2>2 DEF Stamped
<1>2. \A r \in Reqs : obj[r].sid = Nil /\ obj[r].csid = Nil /\ obj[r].pc = "closed"
  BY DEF Init, Closed, Object
<1>. QED  BY <1>1, <1>2, InitIInv DEF SInv, Steady, Private, Renewing

(* A step of a request keeps what it and the others rely on. *)
LEMMA RequestSInv ==
  ASSUME SInv, IInv', NEW r \in Reqs, Keeps(r)
  PROVE  SInv'
<1>1. Stamped(issued', clock')
  BY DEF SInv, Stamped, Keeps, Within, IssuedReach
<1>2. \A q \in Reqs : Steady(obj'[q], store', issued', clock') /\ Private(q)'
  BY OthersKeep DEF Keeps
<1>. QED  BY <1>1, <1>2 DEF SInv

(* Every action of a request stays within its reach. *)
LEMMA RequestKeeps ==
  ASSUME SInv, NEW r \in Reqs, Request(r)
  PROVE  Keeps(r)
BY OpenNewKeeps, OpenWithKeeps, ClosingKeeps, AnyCallKeeps, CommandKeeps DEF Request

LEMMA NextSInv == SInv /\ [Next]_vars => SInv'
<1>. SUFFICES ASSUME SInv, [Next]_vars  PROVE SInv'
  OBVIOUS
<1>1. IInv'
  BY NextIInv DEF SInv
<1>2. CASE UNCHANGED vars
  BY <1>1, <1>2 DEF vars, SInv, Stamped, Private, Listed
<1>3. CASE Tick
  BY <1>3, TickSInv
<1>4. ASSUME NEW r \in Reqs, Request(r)
      PROVE  SInv'
  BY <1>1, <1>4, RequestKeeps, RequestSInv
<1>. QED  BY <1>2, <1>3, <1>4 DEF Next

THEOREM SuccessorInvariance == Spec => []SInv
BY InitSInv, NextSInv, PTL DEF Spec

(***************************************************************************)
(* Whatever overlaps with a log_in and whatever fails in it, by the time   *)
(* it is about to unlist and delete the old session the new one is stored, *)
(* logged in as the user of the call and expires (user.rs log_in and       *)
(* renew, redis.rs renew), until the clock has ticked since its id was     *)
(* generated.                                                              *)
(***************************************************************************)
THEOREM Successor == Spec => []SuccessorReady
<1>1. SInv => SuccessorReady
  <2>. SUFFICES ASSUME SInv, NEW r \in Reqs, obj[r].pc \in {"csrem", "cdel"}, obj[r].user # Nil,
                       clock = issued[obj[r].sid].born
                PROVE  /\ Login(obj[r].sid) /\ store[obj[r].sid].user.uid = obj[r].user.uid
                       /\ store[obj[r].sid].ttl > 0
    BY DEF SuccessorReady
  <2>. DEFINE o == obj[r]
  <2>1. o.sid \in Sids /\ Steady(o, store, issued, clock) /\ Loyal(o, owner, issued)
    BY Under
  <2>2. o.op \in Logins /\ o.user.uid = owner[o.sid]
    BY <2>1 DEF Loyal, Serving, Serves
  <2>3. Stored(o, store)
    BY <2>1, <2>2 DEF Steady, Renewing
  <2>4. store[o.sid].user # Nil /\ store[o.sid].ttl > 0
    BY <2>3 DEF Stored
  <2>5. store[o.sid].user.uid = owner[o.sid]
    BY <2>1, <2>4 DEF SInv, IInv, StoreOwned
  <2>. QED  BY <2>2, <2>4, <2>5 DEF Login
<1>. QED  BY <1>1, SuccessorInvariance, PTL

-----------------------------------------------------------------------------
(* The data of the application, for requests that come one at a time *)

(***************************************************************************)
(* Until the clock ticks, what the old session holds is in the new one,    *)
(* and before load in the copy that log_in read.                           *)
(***************************************************************************)
Carries(o, st, iss, now) ==
  Renewing(o) /\ now = iss[o.sid].born =>
    st[o.csid].data \in {Nil, IF o.pc = "load" THEN o.raw.data ELSE st[o.sid].data}

DInv == SInv /\ \A r \in Reqs : Carries(obj[r], store, issued, clock)

(* Going on to another command keeps the data where it is. *)
LEMMA OnwardCarries ==
  ASSUME NEW o, NEW x, NEW st, NEW pcs, Onward(x, o, pcs), "load" \notin pcs,
         o.pc # "load", Renewing(x) => Renewing(o), Carries(o, st, issued, clock)
  PROVE  Carries(x, st, issued, clock)
BY DEF Onward, Alike, Carries

(* An await whose outcomes both carry the data on. *)
LEMMA AwaitCarries ==
  ASSUME SInv, NEW r \in Reqs, NEW st, NEW um, NEW good, NEW bad, Await(r, st, um, good, bad),
         Carries(good, st, issued, clock),
         Carries(bad, st, issued, clock), Carries(bad, store, issued, clock)
  PROVE  Carries(obj'[r], store', issued', clock')
<1>1. /\ UNCHANGED <<issued, clock>>
      /\ \/ obj' = [obj EXCEPT ![r] = good] /\ store' = st
         \/ obj' = [obj EXCEPT ![r] = bad] /\ store' \in {store, st}
  BY DEF Await
<1>2. \A x : obj' = [obj EXCEPT ![r] = x] => obj'[r] = x
  BY DEF SInv, IInv, TypeOK
<1>. QED  BY <1>1, <1>2

(* A call that is over has no successor to look after. *)
LEMMA ReturnCarries ==
  ASSUME NEW o \in Objects, NEW v \in Rets, NEW st
  PROVE  Carries(Return(o, v), st, issued, clock)
BY ReturnShape DEF Onward, Carries, Renewing

(* Neither a question nor a command on the index moves data. *)
LEMMA AskCarries ==
  ASSUME SInv, NEW r \in Reqs, NEW um, NEW good, NEW bad, Await(r, store, um, good, bad),
         Carries(good, store, issued, clock), Carries(bad, store, issued, clock)
  PROVE  Carries(obj'[r], store', issued', clock')
BY AwaitCarries

LEMMA WriteCarries ==
  ASSUME SInv, NEW r \in Reqs, obj[r].pc # "closed", NEW s, NEW h, NEW good,
         Write(r, s, h, good), Carries(good, [store EXCEPT ![s] = h], issued, clock)
  PROVE  Carries(obj'[r], store', issued', clock')
<1>1. \A st : Carries(Return(obj[r], "err"), st, issued, clock)
  BY Under, ReturnCarries DEF Rets
<1>. DEFINE st == [store EXCEPT ![s] = h]
<1>2. Await(r, st, umap, good, Return(obj[r], "err")) /\ Carries(good, st, issued, clock)
  BY DEF Write
<1>. HIDE DEF st
<1>. QED  BY <1>1, <1>2, AwaitCarries

LEMMA LoadUserCarries ==
  ASSUME DInv, NEW r \in Reqs, LoadUser(r)
  PROVE  Carries(obj'[r], store', issued', clock')
<1>. DEFINE c == obj[r]
            o == [c EXCEPT !.loaded = TRUE]
            u == store[o.sid].user
            f == [o EXCEPT !.user = u]
<1>1. c.pc = "user" /\ SInv /\ Carries(c, store, issued, clock)
  BY DEF LoadUser, At, DInv
<1>2. c \in Objects /\ c.op # "tryRenew" /\ store[c.sid] \in Hashes
  BY <1>1, Under
<1>3. o \in Objects
  BY <1>2, Assigned
<1>4. o.sid = c.sid /\ o.csid = c.csid /\ o.op = c.op
  BY <1>2 DEF Objects
<1>5. u \in Profiles \cup {Nil}
  BY <1>2, <1>4 DEF Hashes
<1>6. Ask(r, AfterUser(IF u = Nil THEN o ELSE f), AfterUser(o))
  BY DEF LoadUser
<1>. HIDE DEF o, u
<1>7. f \in Objects
  BY <1>3, <1>5, Assigned
<1>10. f.sid = c.sid /\ f.csid = c.csid /\ f.op = c.op
  BY <1>3, <1>4 DEF Objects
<1>8. ASSUME NEW p \in Objects, p.sid = c.sid, p.csid = c.csid, p.op = c.op
      PROVE  Carries(AfterUser(p), store, issued, clock)
  <2>1. /\ Alike(AfterUser(p), p)
        /\ AfterUser(p).pc \in {"csrem", "cdel", "sadd", "ready", "srem", "destroydel"}
    BY <1>2, <1>8, AfterUserShape DEF Onward
  <2>. QED  BY <1>1, <1>8, <2>1 DEF Alike, Carries, Renewing
<1>. HIDE DEF f
<1>9. Carries(AfterUser(o), store, issued, clock) /\ Carries(AfterUser(f), store, issued, clock)
  BY <1>3, <1>4, <1>7, <1>8, <1>10
<1>. QED  BY <1>1, <1>6, <1>9, AskCarries DEF Ask

LEMMA TouchCarries ==
  ASSUME DInv, NEW r \in Reqs, Touch(r)
  PROVE  Carries(obj'[r], store', issued', clock')
<1>. DEFINE o == obj[r]
            h == Expire(store[o.sid], o.ttl)
            st == [store EXCEPT ![o.sid] = h]
            b == Bool(Exists(store[o.sid]))
            p == [o EXCEPT !.touches = b]
            x == AfterTouch(p)
<1>1. o.pc = "touch" /\ SInv /\ Carries(o, store, issued, clock)
  BY DEF Touch, At, DInv
<1>2. /\ o \in Objects /\ o.sid \in Sids /\ o.op # "tryRenew" /\ o.ttl \in Nat
      /\ store[o.sid] \in Hashes /\ Steady(o, store, issued, clock) /\ Loyal(o, owner, issued)
  BY <1>1, Under DEF Objects
<1>3. h.data = store[o.sid].data
  BY <1>2 DEF Expire, Hashes
<1>4. p \in Objects
  BY <1>2, Assigned, BoolType
<1>5. p.sid = o.sid /\ p.csid = o.csid /\ p.op = o.op
  BY <1>2 DEF Objects
<1>6. st[o.sid] = h /\ \A s \in Sids \ {o.sid} : st[s] = store[s]
  BY <1>1, <1>2 DEF SInv, IInv, TypeOK
<1>7. Write(r, o.sid, h, x)
  BY DEF Touch
<1>. HIDE DEF h, st, b, p
<1>8. x.pc \in {"user", "ready"} /\ Alike(x, p)
  BY <1>2, <1>4, <1>5, AfterTouchShape DEF Onward
<1>. HIDE DEF x
<1>9. Renewing(x) => Renewing(o) /\ o.csid \in Sids \ {o.sid}
  BY <1>1, <1>2, <1>5, <1>8 DEF Renewing, Alike, Steady, Loyal, Serves, Serving
<1>10. Carries(x, st, issued, clock)
  BY <1>1, <1>3, <1>5, <1>6, <1>8, <1>9 DEF Carries, Alike
<1>. QED  BY <1>1, <1>7, <1>10, WriteCarries DEF st

(* load writes the copy, and with it the data, under the new id. *)
LEMMA LoadCarries ==
  ASSUME DInv, NEW r \in Reqs, Load(r)
  PROVE  Carries(obj'[r], store', issued', clock')
<1>. DEFINE c == obj[r]
            o == [c EXCEPT !.raw = Missing]
            h == HMSet(store[o.sid], c.raw)
            st == [store EXCEPT ![c.sid] = h]
            x == TryTouch(o)
<1>1. c.pc = "load" /\ SInv /\ Carries(c, store, issued, clock)
  BY DEF Load, At, DInv
<1>2. /\ c \in Objects /\ c.sid \in Sids /\ c.op # "tryRenew" /\ c.op \in Logins
      /\ c.csid \in Sids /\ Steady(c, store, issued, clock)
  BY <1>1, Under DEF Loyal
<1>3. o \in Objects
  BY <1>2, Assigned, MissingType
<1>4. Alike(o, c) /\ o.touches = c.touches
  BY <1>2 DEF Alike, Objects
<1>5. c.raw.data # Nil => h.data = c.raw.data
  BY DEF HMSet, Over
<1>6. Renewing(c) /\ c.csid # c.sid
  BY <1>1, <1>2 DEF Renewing, Steady
<1>7. st[c.sid] = h /\ st[c.csid] = store[c.csid]
  BY <1>1, <1>2, <1>6 DEF SInv, IInv, TypeOK
<1>8. Write(r, c.sid, h, x)
  BY <1>4 DEF Load, Alike
<1>. HIDE DEF o, h, st
<1>9. Onward(x, o, {"touch"})
  BY <1>1, <1>2, <1>3, <1>4, TryTouchShape DEF Alike, Steady
<1>. HIDE DEF x
<1>10. Carries(x, st, issued, clock)
  BY <1>1, <1>4, <1>5, <1>6, <1>7, <1>9 DEF Carries, Onward, Alike
<1>. QED  BY <1>1, <1>8, <1>10, WriteCarries DEF st

LEMMA MappingCarries ==
  ASSUME DInv, NEW r \in Reqs, MappingAdd(r) \/ MappingExpire(r) \/ ClonedUnmapping(r)
  PROVE  Carries(obj'[r], store', issued', clock')
<1>. DEFINE o == obj[r]
<1>1. o.pc \in {"sadd", "mapexpire", "csrem"} /\ SInv /\ Carries(o, store, issued, clock)
  BY DEF MappingAdd, MappingExpire, ClonedUnmapping, At, DInv
<1>2. o \in Objects /\ o.op # "tryRenew" /\ o.op \in Logins
  BY <1>1, Under DEF Loyal
<1>3. Onward(AfterRenew(o), o, {"csrem", "cdel"})
  BY <1>2, AfterRenewShape
<1>4. \A pc \in {"mapexpire", "cdel"} : Onward([o EXCEPT !.pc = pc], o, {pc})
  BY <1>2, MoveShape, PointsReached
<1>5. Renewing(o)
  BY <1>1, <1>2 DEF Renewing
<1>6. /\ Carries(AfterRenew(o), store, issued, clock)
      /\ \A pc \in {"mapexpire", "cdel"} : Carries([o EXCEPT !.pc = pc], store, issued, clock)
      /\ Carries(Return(o, "err"), store, issued, clock)
  BY <1>1, <1>2, <1>3, <1>4, <1>5, OnwardCarries, ReturnCarries DEF Rets
<1>7. CASE MappingAdd(r)
  BY <1>1, <1>6, <1>7, AskCarries DEF MappingAdd
<1>8. CASE MappingExpire(r)
  BY <1>1, <1>6, <1>8, AskCarries DEF MappingExpire
<1>9. CASE ClonedUnmapping(r)
  BY <1>1, <1>6, <1>9, AskCarries DEF ClonedUnmapping
<1>. QED  BY <1>7, <1>8, <1>9

(* raw copies the data; when there is none, there is nothing to carry. *)
LEMMA RawCarries ==
  ASSUME DInv, NEW r \in Reqs, Raw(r)
  PROVE  Carries(obj'[r], store', issued', clock')
<1>. DEFINE o == obj[r]
            h == store[o.sid]
            raw == Filtered(o, h)
<1>1. o.pc = "raw" /\ SInv /\ UNCHANGED <<store, clock>>
  BY DEF Raw, At, DInv
<1>2. /\ o \in Objects /\ o.op \in Logins /\ h \in Hashes /\ o.csid = o.sid
      /\ Steady(o, store, issued, clock)
  BY <1>1, Under DEF Loyal, Steady
<1>3. raw.data = h.data /\ raw \in Hashes
  BY <1>2 DEF Filtered, Logins, Hashes, Objects
<1>4. \A x : obj' = [obj EXCEPT ![r] = x] => obj'[r] = x
  BY <1>1 DEF SInv, IInv, TypeOK
<1>5. ASSUME NEW n \in Fresh, obj' = [obj EXCEPT ![r] = Renewed(o, n, raw)]
      PROVE  Carries(obj'[r], store', issued', clock')
  <2>. DEFINE x == Renewed(o, n, raw)
  <2>1. [raw EXCEPT !.ttl = 0].data = raw.data /\ (~ Exists(raw) => raw.data = Nil)
    BY <1>3 DEF Hashes, Exists, Fields
  <2>2. /\ x.csid = o.csid
        /\ \/ x.pc = "load" /\ x.raw.data = raw.data
           \/ x.pc = "user" /\ raw.data = Nil
    <3>. HIDE DEF raw
    <3>. QED  BY <1>2, <2>1 DEF Renewed, Objects
  <2>3. obj'[r] = x
    BY <1>4, <1>5
  <2>. HIDE DEF x
  <2>. QED  BY <1>1, <1>2, <1>3, <2>2, <2>3 DEF Carries
<1>6. ASSUME NEW p \in Objects, obj' = [obj EXCEPT ![r] = Return(p, "err")]
      PROVE  Carries(obj'[r], store', issued', clock')
  BY <1>4, <1>6, ReturnShape DEF Rets, Onward, Carries, Renewing
<1>7. [o EXCEPT !.touches = "none"] \in Objects
  BY <1>2, Assigned
<1>8. \/ \E n \in Fresh : obj' = [obj EXCEPT ![r] = Renewed(o, n, raw)]
      \/ obj' = [obj EXCEPT ![r] = Return([o EXCEPT !.touches = "none"], "err")]
      \/ obj' = [obj EXCEPT ![r] = Return(o, "err")]
  BY DEF Raw
<1>. QED  BY <1>2, <1>5, <1>6, <1>7, <1>8

(* Every other command ends a renewal or has no part in one. *)
LEMMA OtherCommands ==
  ASSUME SInv, NEW r \in Reqs, NEW s \in Sids,
         \/ SilentSet(r) \/ SilentGet(r) \/ SilentDel(r)
         \/ ClonedDestroy(r) \/ Unmapping(r) \/ LogoutDel(r) \/ DestroyDel(r)
         \/ AllSid(r) \/ FilterRemove(r) \/ FilterExists(r, s) \/ SyncSet(r, s)
  PROVE  ~ Renewing(obj'[r])
<1>. DEFINE o == obj[r]
<1>1. o.pc \in {"set", "get", "del", "cdel", "userdel", "destroydel", "srem"} \cup Listing
  BY DEF SilentSet, SilentGet, SilentDel, ClonedDestroy, Unmapping, LogoutDel, DestroyDel,
         AllSid, FilterRemove, FilterExists, SyncSet, At, Listing
<1>2. /\ o \in Objects /\ o.op # "tryRenew" /\ Loyal(o, owner, issued)
      /\ o.pc \in {"set", "get", "del"} => o.op \notin Logins
  BY <1>1, Under DEF Listing, Steady
<1>3. \A x : obj' = [obj EXCEPT ![r] = x] => obj'[r] = x
  BY DEF SInv, IInv, TypeOK
<1>4. \A p \in Objects : \A v \in Rets : ~ Renewing(Return(p, v))
  BY ReturnShape DEF Onward, Renewing
<1>5. \A p \in Objects : ~ Renewing(Syncing(p))
  BY SyncingShape DEF Onward, Renewing
<1>6. CASE SilentSet(r) \/ SilentGet(r) \/ SilentDel(r)
  <2>1. o.op \notin Logins /\ ~ Renewing(TryTouch(o))
    BY <1>2, <1>6, TryTouchShape
       DEF SilentSet, SilentGet, SilentDel, At, Onward, Alike, Renewing
  <2>. QED  BY <1>2, <1>3, <1>4, <1>6, <2>1
            DEF SilentSet, SilentGet, SilentDel, Write, Ask, Await, Rets
<1>7. CASE ClonedDestroy(r) \/ LogoutDel(r) \/ DestroyDel(r)
  BY <1>2, <1>3, <1>4, <1>7, BoolType DEF ClonedDestroy, LogoutDel, DestroyDel, Write, Await, Rets
<1>8. CASE Unmapping(r)
  <2>1. /\ [o EXCEPT !.user = Nil, !.pc = "userdel"].pc = "userdel"
        /\ [o EXCEPT !.pc = "destroydel"].pc = "destroydel"
    BY <1>2 DEF Objects
  <2>2. /\ ~ Renewing([o EXCEPT !.user = Nil, !.pc = "userdel"])
        /\ ~ Renewing([o EXCEPT !.pc = "destroydel"])
    BY <2>1 DEF Renewing
  <2>. QED  BY <1>2, <1>3, <1>4, <1>8, <2>2 DEF Unmapping, Await, Rets
<1>9. CASE AllSid(r) \/ FilterRemove(r) \/ FilterExists(r, s) \/ SyncSet(r, s)
  <2>. DEFINE l == [o EXCEPT !.todo = umap[o.arg.uid].sids]
              p == [o EXCEPT !.todo = o.todo \ {s}]
              k == [p EXCEPT !.kept = p.kept \cup {s}]
              g == [p EXCEPT !.cur = s, !.pc = "filtersrem"]
              w == [o EXCEPT !.kept = o.kept \ {s}]
  <2>1. o.pc \in Listing
    BY <1>9 DEF AllSid, FilterRemove, FilterExists, SyncSet, At, Listing
  <2>2. o.arg \in Profiles /\ o.arg.uid \in Uids
    BY <1>2, <2>1, Constants DEF Loyal
  <2>3. /\ umap[o.arg.uid].sids \in SUBSET Sids
        /\ o.todo \in SUBSET Sids /\ o.kept \in SUBSET Sids
    BY <1>2, <2>2 DEF SInv, IInv, TypeOK, Objects
  <2>4. l \in Objects /\ p \in Objects /\ w \in Objects
    BY <1>2, <2>3, Assigned
  <2>5. p.kept \in SUBSET Sids
    BY <2>4 DEF Objects
  <2>. HIDE DEF p
  <2>6. k \in Objects
    BY <2>3, <2>4, <2>5, Assigned
  <2>12. g.pc = "filtersrem"
    BY <2>4 DEF Objects
  <2>7. AllSid(r) => \E x \in {Syncing(l), Return(o, "err")} : obj'[r] = x
    BY <1>3 DEF AllSid, Ask, Await
  <2>8. FilterExists(r, s) => \E x \in {Syncing(k), g, Return(p, "err")} : obj'[r] = x
    BY <1>3 DEF FilterExists, Ask, Await, p
  <2>9. FilterRemove(r) => obj'[r] = Syncing(o)
    BY <1>3 DEF FilterRemove, Await
  <2>10. SyncSet(r, s) => \E x \in {Syncing(w), Return(o, "err")} : obj'[r] = x
    BY <1>3 DEF SyncSet, Write, Await
  <2>11. ~ Renewing(g)
    BY <2>12 DEF Renewing
  <2>. HIDE DEF l, p, k, g, w
  <2>. QED  BY <1>2, <1>4, <1>5, <1>9, <2>4, <2>6, <2>7, <2>8, <2>9, <2>10, <2>11 DEF Rets
<1>. QED  BY <1>6, <1>7, <1>8, <1>9

(* No call starts with the new id in hand. *)
LEMMA CallsBegin ==
  ASSUME SInv, NEW r \in Reqs,
         \/ \E s \in Sids, t \in Ttls : OpenNew(r, s, t)
         \/ \E s \in Sids : OpenWith(r, s)
         \/ Close(r) \/ Drop(r) \/ AnyCall(r)
  PROVE  ~ Renewing(obj'[r])
<1>1. \A x : obj' = [obj EXCEPT ![r] = x] => obj'[r] = x
  BY DEF SInv, IInv, TypeOK
<1>2. CASE (\E s \in Sids, t \in Ttls : OpenNew(r, s, t)) \/ \E s \in Sids : OpenWith(r, s)
  BY <1>1, <1>2 DEF OpenNew, OpenWith, Object, Renewing
<1>3. CASE Close(r) \/ Drop(r)
  BY <1>1, <1>3 DEF Close, Drop, Closed, Object, Renewing
<1>4. CASE AnyCall(r)
  <2>. DEFINE B(op) == Begin(obj[r], op)
  <2>1. obj[r].pc = "ready"
    BY <1>4 DEF AnyCall, CallUser, CallSet, CallGet, CallDel, CallTouch, CallLogin, CallAutoLogin,
                CallLogout, CallDestroy, CallSync, Call
  <2>2. \A op \in Calls \ {"tryRenew", "condemn"} :
          B(op) \in Objects /\ B(op).op = op /\ B(op).op # "tryRenew"
    BY <2>1, BeginShape
  <2>. HIDE DEF B
  <2>3. \A op \in {"user", "logout", "destroy"} : ~ Renewing(User(B(op)))
    BY <2>2, UserShape DEF Calls, Logins, Onward, Alike, Renewing
  <2>4. ~ Renewing(TryTouch(B("touch")))
    BY <2>2, TryTouchShape DEF Calls, Logins, Onward, Alike, Renewing
  <2>5. CASE CallUser(r) \/ CallLogout(r) \/ CallDestroy(r) \/ CallTouch(r)
    BY <1>1, <2>3, <2>4, <2>5 DEF CallUser, CallLogout, CallDestroy, CallTouch, Call, B
  <2>6. CASE \/ CallGet(r) \/ CallDel(r) \/ CallAutoLogin(r)
             \/ (\E d \in Datas : CallSet(r, d)) \/ (\E p \in Profiles : CallSync(r, p))
             \/ \E p \in Profiles, t \in Ttls : CallLogin(r, p, t)
    <3>1. obj'[r].pc \in {"get", "del", "set", "smembers", "raw"}
      <4>1. /\ [B("get") EXCEPT !.pc = "get"].pc = "get"
            /\ [B("del") EXCEPT !.pc = "del"].pc = "del"
        BY <2>2 DEF Objects, Calls
      <4>2. \A d : /\ [B("set") EXCEPT !.arg = d, !.pc = "set"].pc = "set"
                   /\ [B("sync") EXCEPT !.arg = d, !.pc = "smembers"].pc = "smembers"
        BY <2>2 DEF Objects, Calls
      <4>3. /\ LogIn(B("autoLogin")).pc = "raw"
            /\ \A p, t : [LogIn(B("login")) EXCEPT !.user = p, !.ttl = t].pc = "raw"
        BY <2>2 DEF LogIn, Objects, Calls
      <4>4. CASE CallGet(r) \/ CallDel(r)
        <5>1. \/ obj'[r] = [B("get") EXCEPT !.pc = "get"]
              \/ obj'[r] = [B("del") EXCEPT !.pc = "del"]
          BY <1>1, <4>4 DEF CallGet, CallDel, Call, B
        <5>. QED  BY <4>1, <5>1
      <4>5. CASE (\E d \in Datas : CallSet(r, d)) \/ \E p \in Profiles : CallSync(r, p)
        <5>1. \E d : \/ obj'[r] = [B("set") EXCEPT !.arg = d, !.pc = "set"]
                     \/ obj'[r] = [B("sync") EXCEPT !.arg = d, !.pc = "smembers"]
          BY <1>1, <4>5 DEF CallSet, CallSync, Call, B
        <5>. QED  BY <4>2, <5>1
      <4>6. CASE CallAutoLogin(r) \/ \E p \in Profiles, t \in Ttls : CallLogin(r, p, t)
        <5>1. CallAutoLogin(r) => obj'[r] = LogIn(B("autoLogin"))
          BY <1>1 DEF CallAutoLogin, Call, B
        <5>2. ASSUME NEW p, NEW t, CallLogin(r, p, t)
              PROVE  obj'[r] = [LogIn(B("login")) EXCEPT !.user = p, !.ttl = t]
          BY <1>1, <5>2 DEF CallLogin, Call, B
        <5>3. ASSUME NEW p, NEW t, CallLogin(r, p, t)
              PROVE  obj'[r].pc = "raw"
          <6>1. [LogIn(B("login")) EXCEPT !.user = p, !.ttl = t].pc = "raw"
            BY <4>3
          <6>. QED  BY <5>2, <5>3, <6>1, Zenon
        <5>4. CallAutoLogin(r) => obj'[r].pc = "raw"
          BY <4>3, <5>1
        <5>. QED  BY <4>6, <5>3, <5>4
      <4>. QED  BY <2>6, <4>4, <4>5, <4>6
    <3>. QED  BY <3>1 DEF Renewing
  <2>. QED  BY <1>4, <2>5, <2>6 DEF AnyCall
<1>. QED  BY <1>2, <1>3, <1>4

LEMMA RequestCarries ==
  ASSUME DInv, NEW r \in Reqs, Request(r)
  PROVE  Carries(obj'[r], store', issued', clock')
<1>1. SInv
  BY DEF DInv
<1>2. CASE LoadUser(r) \/ Touch(r) \/ Load(r) \/ Raw(r)
           \/ MappingAdd(r) \/ MappingExpire(r) \/ ClonedUnmapping(r)
  BY <1>2, LoadUserCarries, TouchCarries, LoadCarries, RawCarries, MappingCarries
<1>3. CASE ~ Renewing(obj'[r])
  BY <1>3 DEF Carries
<1>4. ASSUME Command(r)
      PROVE  \/ LoadUser(r) \/ Touch(r) \/ Load(r) \/ Raw(r)
             \/ MappingAdd(r) \/ MappingExpire(r) \/ ClonedUnmapping(r)
             \/ ~ Renewing(obj'[r])
  <2>1. obj[r].pc # "closed"
    BY <1>4 DEF Command, LoadUser, SilentSet, SilentGet, SilentDel, Touch, Raw, Load, MappingAdd,
       MappingExpire, ClonedUnmapping, ClonedDestroy, Unmapping, LogoutDel, DestroyDel, AllSid,
       FilterRemove, FilterExists, SyncSet, At
  <2>2. obj[r].sid \in Sids
    BY <1>1, <2>1, Under
  <2>. QED  BY <1>1, <1>4, <2>2, OtherCommands DEF Command
<1>5. CASE \/ \E s \in Sids, t \in Ttls : OpenNew(r, s, t)
           \/ \E s \in Sids : OpenWith(r, s)
           \/ Close(r) \/ Drop(r) \/ AnyCall(r)
  BY <1>1, <1>3, <1>5, CallsBegin
<1>. QED  BY <1>2, <1>3, <1>4, <1>5 DEF Request

LEMMA NextDInv == OneAtATime /\ DInv /\ [Next]_vars => DInv'
<1>. SUFFICES ASSUME OneAtATime, DInv, [Next]_vars  PROVE DInv'
  OBVIOUS
<1>1. SInv'
  BY NextSInv DEF DInv
<1>2. CASE UNCHANGED vars
  BY <1>1, <1>2 DEF vars, DInv
<1>3. CASE Tick
  <2>1. clock' = clock + 1 /\ clock \in Nat /\ UNCHANGED <<obj, issued>>
    BY <1>3 DEF Tick, DInv, SInv, IInv, TypeOK
  <2>2. ASSUME NEW r \in Reqs, Renewing(obj[r])  PROVE clock' # issued[obj[r].sid].born
    <3>1. obj[r].sid \in Sids /\ issued[obj[r].sid] # Nil
      BY <2>2, Under DEF Renewing, DInv, Loyal, Held
    <3>2. issued[obj[r].sid].born \in Nat /\ issued[obj[r].sid].born <= clock
      BY <3>1 DEF DInv, SInv, IInv, TypeOK, Stamped
    <3>. QED  BY <2>1, <3>2
  <2>. QED  BY <1>1, <2>1, <2>2 DEF DInv, Carries
<1>4. ASSUME NEW r \in Reqs, Request(r)
      PROVE  DInv'
  BY <1>1, <1>4, RequestCarries DEF DInv, OneAtATime
<1>. QED  BY <1>2, <1>3, <1>4 DEF Next

(***************************************************************************)
(* When log_in is about to delete the old session, the data that one still *)
(* holds is in the new one, whatever the calls before it did and whatever  *)
(* fails, as long as requests come one at a time (redis.rs renew, user.rs  *)
(* renew and log_in).                                                      *)
(***************************************************************************)
THEOREM DataMoves ==
  ASSUME OneAtATime
  PROVE  Spec => []DataFollows
<1>1. Init => DInv
  <2>. SUFFICES ASSUME Init  PROVE DInv
    OBVIOUS
  <2>1. \A r \in Reqs : obj[r].pc = "closed"
    BY DEF Init, Closed, Object
  <2>. QED  BY <2>1, InitSInv DEF DInv, Carries, Renewing
<1>2. DInv => DataFollows
  <2>. SUFFICES ASSUME DInv, NEW r \in Reqs, obj[r].pc \in {"csrem", "cdel"},
                       clock = issued[obj[r].sid].born
                PROVE  store[obj[r].csid].data \in {Nil, store[obj[r].sid].data}
    BY DEF DataFollows
  <2>1. obj[r].op \in Logins
    BY Under DEF DInv, Loyal
  <2>. QED  BY <2>1 DEF DInv, Carries, Renewing
<1>. QED  BY <1>1, <1>2, NextDInv, PTL DEF Spec
=============================================================================
