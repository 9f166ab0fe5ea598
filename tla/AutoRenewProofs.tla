--------------------------- MODULE AutoRenewProofs --------------------------
(***************************************************************************)
(* What holds however often ids are renewed, for every size of the system. *)
(*                                                                         *)
(*  - RenewTypes, RenewIdentity: for any number of requests at once, sync  *)
(*    included and log_in left out.  AInv is the invariant of the calls    *)
(*    between two changes of login: stored users and index entries belong  *)
(*    to the users their ids were generated for, and so does the user an   *)
(*    object has cached.  The object of a log_in that failed breaks this:  *)
(*    it has cached the user that did not get in, under its old id.        *)
(*  - RenewClean, RenewReplaces: for requests that come one at a time.     *)
(*    RInv adds what the keys promise (Key: the id logged in a session is  *)
(*    another, generated one, and what expires lives as long as its id)    *)
(*    and what the object knows at each of its awaits (Aim, Right).        *)
(*                                                                         *)
(* The last part shows one lemma per command, Turn: what a step leaves of  *)
(* the keys and of the object.  Poised is what the helpers that choose the *)
(* next command need of an object to leave it Right.                       *)
(***************************************************************************)
EXTENDS AutoRenew, UserSessionProofs

-----------------------------------------------------------------------------
(* The invariant of one object *)

(* The points of log_in once it has its new id. *)
Moved == {"load", "touch", "user", "sadd", "mapexpire", "csrem", "cdel"}

Anchored(o, iss) == o.sid \in Sids /\ iss[o.sid] # Nil

(* The cached user is the one the object's id was generated for. *)
Faithful(o, own) == o.user # Nil => o.user.uid = own[o.sid]

Sound(o, own, iss) ==
  /\ o.pc # "closed" => Anchored(o, iss)
  /\ o.pc = "closed" => o.op = "none" /\ o.user = Nil
  /\ o.op # "login" \/ o.pc \in Moved => Faithful(o, own)
  /\ o.op = "login" => o.pc \in Moved \cup {"raw", "ready"}
  /\ o.pc = "load" => (o.raw.user # Nil => o.raw.user.uid = own[o.sid])
  /\ o.pc = "sadd" => o.user # Nil
  /\ o.pc = "ready" => o.todo = {} /\ o.kept = {}
  /\ o.pc = "set" => o.arg \in Datas
  /\ o.pc = "newttl" => o.csid \in Sids
  /\ o.pc \in Listing =>
       o.arg \in Profiles /\ o.todo \cup o.kept \subseteq Owned(o.arg.uid, own)

Fit(o, own, iss) == o \in Objects /\ Sound(o, own, iss)

(* What the helpers need of an object to leave it sound. *)
Base(o, own, iss) == o \in Objects /\ Anchored(o, iss) /\ Faithful(o, own)

AInv ==
  /\ TypeOK
  /\ StoreOwned(store, owner)
  /\ IndexOwned(umap, owner)
  /\ \A s \in Sids : issued[s] = Nil => owner[s] = Nil
  /\ \A r \in Reqs : Sound(obj[r], owner, issued)

-----------------------------------------------------------------------------
(* The helpers on objects *)

LEMMA RenewAssigned ==
  ASSUME NEW o \in Objects
  PROVE  /\ \A v \in {"none", "young", "judge", "drop"} : [o EXCEPT !.mode = v] \in Objects
         /\ \A v \in Nat : [o EXCEPT !.tp = v] \in Objects
<1>1. \A v \in {"none", "young", "judge", "drop"} : [o EXCEPT !.mode = v] \in Objects
  BY DEF Objects
<1>2. \A v \in Nat : [o EXCEPT !.tp = v] \in Objects
  BY DEF Objects
<1>. QED  BY <1>1, <1>2

(* Another command: what that command needs, the rest stays. *)
LEMMA MoveFit ==
  ASSUME NEW o, NEW own, NEW iss, Base(o, own, iss),
         NEW pc \in Points \ {"closed", "ready"},
         o.op = "login" => pc \in Moved \cup {"raw", "ready"},
         pc = "load" => (o.raw.user # Nil => o.raw.user.uid = own[o.sid]),
         pc = "sadd" => o.user # Nil,
         pc = "set" => o.arg \in Datas,
         pc = "newttl" => o.csid \in Sids,
         pc \in Listing =>
           o.arg \in Profiles /\ o.todo \cup o.kept \subseteq Owned(o.arg.uid, own)
  PROVE  Fit([o EXCEPT !.pc = pc], own, iss)
<1>. DEFINE p == [o EXCEPT !.pc = pc]
<1>1. o \in Objects
  BY DEF Base
<1>2. p \in Objects
  BY <1>1, Assigned
<1>3. /\ p.pc = pc /\ p.op = o.op /\ p.sid = o.sid /\ p.user = o.user /\ p.raw = o.raw
      /\ p.arg = o.arg /\ p.todo = o.todo /\ p.kept = o.kept /\ p.csid = o.csid
  BY <1>1 DEF Objects
<1>. HIDE DEF p
<1>4. Sound(p, own, iss)
  BY <1>3 DEF Base, Sound, Anchored, Faithful
<1>. QED  BY <1>2, <1>4 DEF Fit, p

LEMMA ReturnFit ==
  ASSUME NEW o \in Objects, NEW v \in Rets, NEW own, NEW iss, Anchored(o, iss),
         o.op # "login" => Faithful(o, own)
  PROVE  Fit(Return(o, v), own, iss)
<1>1. Return(o, v) \in Objects
  BY Assigned, MissingType, PointsReached DEF Return
<1>2. /\ Return(o, v).pc = "ready" /\ Return(o, v).sid = o.sid /\ Return(o, v).op = o.op
      /\ Return(o, v).user = o.user /\ Return(o, v).todo = {} /\ Return(o, v).kept = {}
  BY DEF Return, Objects
<1>3. Sound(Return(o, v), own, iss)
  BY <1>2 DEF Sound, Anchored, Faithful, Listing, Moved
<1>. QED  BY <1>1, <1>3 DEF Fit

LEMMA MorePoints ==
  {"keep", "newid", "newttl", "oldttl", "ctouch", "csetnew"} \subseteq Points
BY DEF Points

LEMMA AfterRenewFit ==
  ASSUME NEW o, NEW own, NEW iss, Base(o, own, iss)
  PROVE  Fit(AfterRenew(o), own, iss)
<1>1. CASE o.op = "tryRenew"
  <2>1. Fit([o EXCEPT !.pc = "ctouch"], own, iss)
    BY <1>1, MoveFit, MorePoints DEF Listing, Moved
  <2>. QED  BY <1>1, <2>1 DEF AfterRenew
<1>2. CASE o.op # "tryRenew"
  <2>1. \A pc \in {"csrem", "cdel"} : Fit([o EXCEPT !.pc = pc], own, iss)
    <3>. TAKE pc \in {"csrem", "cdel"}
    <3>1. /\ pc \in Points \ {"closed", "ready"} /\ pc \in Moved
          /\ pc \notin {"load", "sadd", "set", "newttl"} /\ pc \notin Listing
      BY PointsReached DEF Listing, Moved
    <3>. QED  BY <3>1, MoveFit
  <2>. QED  BY <1>2, <2>1 DEF AfterRenew
<1>. QED  BY <1>1, <1>2

LEMMA AfterUserFit ==
  ASSUME NEW o, NEW own, NEW iss, Base(o, own, iss)
  PROVE  Fit(AfterUser(o), own, iss)
<1>1. \A v \in {"true", "false"} : Fit(Return(o, v), own, iss)
  BY ReturnFit DEF Base, Rets
<1>2. CASE o.op = "user"
  BY <1>1, <1>2, BoolType DEF AfterUser, Renewals
<1>3. CASE o.op \in Renewals
  <2>1. CASE o.user = Nil
    BY <1>3, <2>1, AfterRenewFit DEF AfterUser, Renewals
  <2>2. CASE o.user # Nil
    <3>1. Fit([o EXCEPT !.pc = "sadd"], own, iss)
      BY <2>2, MoveFit, PointsReached DEF Listing, Moved
    <3>2. AfterUser(o) = [o EXCEPT !.pc = "sadd"]
      BY <1>3, <2>2 DEF AfterUser, Renewals
    <3>. QED  BY <3>1, <3>2
  <2>. QED  BY <2>1, <2>2
<1>4. CASE o.op \notin Renewals \cup {"user"}
  <2>0. o.op # "login"
    BY <1>4 DEF Renewals
  <2>1. Fit([o EXCEPT !.pc = "srem"], own, iss)
    BY <2>0, MoveFit, PointsReached DEF Listing
  <2>2. Fit([o EXCEPT !.pc = "destroydel"], own, iss)
    BY <2>0, MoveFit, PointsReached DEF Listing
  <2>3. Fit(Unmap(o), own, iss)
    BY <1>1, <2>1, <2>2 DEF Unmap
  <2>. QED  BY <1>4, <2>3 DEF AfterUser
<1>. QED  BY <1>2, <1>3, <1>4

LEMMA UserFit ==
  ASSUME NEW o, NEW own, NEW iss, Base(o, own, iss)
  PROVE  Fit(User(o), own, iss)
<1>1. Fit([o EXCEPT !.pc = "user"], own, iss)
  BY MoveFit, PointsReached DEF Listing, Moved
<1>. QED  BY <1>1, AfterUserFit DEF User

LEMMA AfterTouchFit ==
  ASSUME NEW o, NEW own, NEW iss, Base(o, own, iss)
  PROVE  Fit(AfterTouch(o), own, iss)
<1>1. \A v \in {"true", "false"} : Fit(Return(o, v), own, iss)
  BY ReturnFit DEF Base, Rets
<1>2. Fit([o EXCEPT !.loaded = FALSE, !.pc = "user"], own, iss)
  <2>. DEFINE p == [o EXCEPT !.loaded = FALSE]
  <2>1. p \in Objects
    BY Assigned DEF Base
  <2>2. Base(p, own, iss)
    BY <2>1 DEF Base, Anchored, Faithful, Objects
  <2>. HIDE DEF p
  <2>3. Fit([p EXCEPT !.pc = "user"], own, iss)
    BY <2>2, MoveFit, PointsReached DEF Listing, Moved
  <2>. QED  BY <2>3 DEF p
<1>. QED  BY <1>1, <1>2, BoolType DEF AfterTouch

LEMMA TryTouchFit ==
  ASSUME NEW o, NEW own, NEW iss, Base(o, own, iss)
  PROVE  Fit(TryTouch(o), own, iss)
<1>1. Fit([o EXCEPT !.pc = "touch"], own, iss)
  BY MoveFit, PointsReached DEF Listing, Moved
<1>. QED  BY <1>1, AfterTouchFit DEF TryTouch

LEMMA SyncingFit ==
  ASSUME NEW o, NEW own, NEW iss, Base(o, own, iss), o.op # "login", o.arg \in Profiles,
         o.todo \cup o.kept \subseteq Owned(o.arg.uid, own)
  PROVE  Fit(Syncing(o), own, iss)
<1>1. \A pc \in {"exists", "hset"} : Fit([o EXCEPT !.pc = pc, !.cur = Nil], own, iss)
  <2>. TAKE pc \in {"exists", "hset"}
  <2>. DEFINE p == [o EXCEPT !.cur = Nil]
  <2>1. p \in Objects
    BY Assigned DEF Base
  <2>2. p.op = o.op /\ p.arg = o.arg /\ p.todo = o.todo /\ p.kept = o.kept /\ Base(p, own, iss)
    BY <2>1 DEF Base, Anchored, Faithful, Objects
  <2>. HIDE DEF p
  <2>3. Fit([p EXCEPT !.pc = pc], own, iss)
    BY <2>2, MoveFit, PointsReached
  <2>4. [o EXCEPT !.pc = pc, !.cur = Nil] = [p EXCEPT !.pc = pc]
    BY DEF p, Base, Objects
  <2>. QED  BY <2>3, <2>4
<1>2. Fit(Return(o, "true"), own, iss)
  BY ReturnFit DEF Base, Rets
<1>. QED  BY <1>1, <1>2 DEF Syncing

-----------------------------------------------------------------------------
(* The steps of one object *)

LEMMA Standing ==
  ASSUME AInv, NEW r \in Reqs, obj[r].pc # "closed"
  PROVE  /\ obj[r] \in Objects /\ Sound(obj[r], owner, issued) /\ Anchored(obj[r], issued)
         /\ obj[r].sid \in Sids /\ store[obj[r].sid] \in Hashes
         /\ obj[r].op # "login" \/ obj[r].pc \in Moved => Base(obj[r], owner, issued)
         /\ \A v \in Rets : Fit(Return(obj[r], v), owner, issued)
<1>1. obj[r] \in Objects /\ Sound(obj[r], owner, issued)
  BY DEF AInv, TypeOK
<1>2. Anchored(obj[r], issued) /\ obj[r].sid \in Sids
  BY <1>1 DEF Sound, Anchored
<1>3. store[obj[r].sid] \in Hashes
  BY <1>2 DEF AInv, TypeOK
<1>4. obj[r].op # "login" => Faithful(obj[r], owner)
  BY <1>1 DEF Sound
<1>5. \A v \in Rets : Fit(Return(obj[r], v), owner, issued)
  BY <1>1, <1>2, <1>4, ReturnFit
<1>6. obj[r].op # "login" \/ obj[r].pc \in Moved => Faithful(obj[r], owner)
  BY <1>1 DEF Sound
<1>. QED  BY <1>1, <1>2, <1>3, <1>5, <1>6 DEF Base, Rets

LEMMA AObjStep ==
  ASSUME AInv, NEW r \in Reqs, NEW o, Fit(o, owner, issued),
         obj' = [obj EXCEPT ![r] = o], UNCHANGED <<store, umap, issued, owner>>,
         known' \subseteq Sids \ Fresh, clock' = clock, faults' \in Nat
  PROVE  AInv'
<1>1. obj' \in [Reqs -> Objects] /\ obj'[r] = o /\ \A q \in Reqs \ {r} : obj'[q] = obj[q]
  BY DEF AInv, TypeOK, Fit
<1>2. TypeOK'
  BY <1>1 DEF AInv, TypeOK, Fresh
<1>3. \A q \in Reqs : Sound(obj'[q], owner, issued)
  BY <1>1 DEF AInv, Fit
<1>. QED  BY <1>2, <1>3 DEF AInv

LEMMA AAwaitStep ==
  ASSUME AInv, NEW r \in Reqs, NEW st, NEW um, NEW good, NEW bad, Await(r, st, um, good, bad),
         st \in [Sids -> Hashes], UmapType(um), StoreOwned(st, owner), IndexOwned(um, owner),
         Fit(good, owner, issued), Fit(bad, owner, issued)
  PROVE  AInv'
<1>1. /\ UNCHANGED <<issued, known, clock, owner>>
      /\ store' \in {store, st} /\ umap' \in {umap, um} /\ faults' \in Nat
      /\ \E o : Fit(o, owner, issued) /\ obj' = [obj EXCEPT ![r] = o]
  <2>1. faults \in Nat
    BY DEF AInv, TypeOK
  <2>. QED  BY <2>1 DEF Await
<1>2. PICK o : Fit(o, owner, issued) /\ obj' = [obj EXCEPT ![r] = o]
  BY <1>1
<1>3. obj' \in [Reqs -> Objects] /\ obj'[r] = o /\ \A q \in Reqs \ {r} : obj'[q] = obj[q]
  BY <1>2 DEF AInv, TypeOK, Fit
<1>4. TypeOK'
  BY <1>1, <1>3 DEF AInv, TypeOK, Fresh, UmapType
<1>5. StoreOwned(store', owner) /\ IndexOwned(umap', owner)
  BY <1>1 DEF AInv
<1>6. \A q \in Reqs : Sound(obj'[q], owner, issued)
  BY <1>2, <1>3 DEF AInv, Fit
<1>. QED  BY <1>1, <1>4, <1>5, <1>6 DEF AInv

LEMMA AAskStep ==
  ASSUME AInv, NEW r \in Reqs, NEW good, NEW bad, Ask(r, good, bad),
         Fit(good, owner, issued), Fit(bad, owner, issued)
  PROVE  AInv'
BY AAwaitStep DEF Ask, AInv, TypeOK, UmapType

(* A write to one key leaves it to the user it was generated for. *)
LEMMA AKeyStep ==
  ASSUME AInv, NEW r \in Reqs, NEW s \in Sids, NEW h \in Hashes, NEW good, NEW bad,
         Await(r, [store EXCEPT ![s] = h], umap, good, bad),
         h.user # Nil => h.user.uid = owner[s],
         Fit(good, owner, issued), Fit(bad, owner, issued)
  PROVE  AInv'
<1>. DEFINE st == [store EXCEPT ![s] = h]
<1>1. st \in [Sids -> Hashes]
  BY DEF AInv, TypeOK
<1>2. StoreOwned(st, owner)
  BY DEF AInv, TypeOK, StoreOwned
<1>3. UmapType(umap) /\ IndexOwned(umap, owner)
  BY DEF AInv, TypeOK, UmapType
<1>. HIDE DEF st
<1>4. Await(r, st, umap, good, bad)
  BY DEF st
<1>. QED  BY <1>1, <1>2, <1>3, <1>4, AAwaitStep

(* The same, for the id of a clone that may not be there. *)
LEMMA ACloneStep ==
  ASSUME AInv, NEW r \in Reqs, NEW s, NEW h, NEW good, NEW bad,
         Await(r, [store EXCEPT ![s] = h], umap, good, bad),
         s \in Sids => h \in Hashes /\ (h.user # Nil => h.user.uid = owner[s]),
         Fit(good, owner, issued), Fit(bad, owner, issued)
  PROVE  AInv'
<1>1. CASE s \in Sids
  BY <1>1, AKeyStep
<1>2. CASE s \notin Sids
  <2>1. [store EXCEPT ![s] = h] = store
    BY <1>2 DEF AInv, TypeOK
  <2>2. Ask(r, good, bad)
    BY <2>1 DEF Ask
  <2>. QED  BY <2>2, AAskStep
<1>. QED  BY <1>1, <1>2

(* A write to one index lists only ids of its user. *)
LEMMA AIndexStep ==
  ASSUME AInv, NEW r \in Reqs, NEW u \in Uids, NEW m \in [sids : SUBSET Sids, ttl : Nat],
         NEW good, NEW bad, Await(r, store, [umap EXCEPT ![u] = m], good, bad),
         m.sids \subseteq Owned(u, owner),
         Fit(good, owner, issued), Fit(bad, owner, issued)
  PROVE  AInv'
<1>. DEFINE um == [umap EXCEPT ![u] = m]
<1>1. UmapType(um)
  BY DEF AInv, TypeOK, UmapType
<1>2. IndexOwned(um, owner)
  BY DEF AInv, TypeOK, IndexOwned
<1>3. store \in [Sids -> Hashes] /\ StoreOwned(store, owner)
  BY DEF AInv, TypeOK
<1>. HIDE DEF um
<1>4. Await(r, store, um, good, bad)
  BY DEF um
<1>. QED  BY <1>1, <1>2, <1>3, <1>4, AAwaitStep

(* SREM lists nothing, whichever key it goes to. *)
LEMMA ARemoveStep ==
  ASSUME AInv, NEW r \in Reqs, NEW u, NEW s, NEW good, NEW bad,
         Await(r, store, [umap EXCEPT ![u] = SRem(umap[u], s)], good, bad),
         Fit(good, owner, issued), Fit(bad, owner, issued)
  PROVE  AInv'
<1>1. CASE u \in Uids
  <2>1. umap[u] \in [sids : SUBSET Sids, ttl : Nat] /\ umap[u].sids \subseteq Owned(u, owner)
    BY <1>1 DEF AInv, TypeOK, IndexOwned
  <2>. DEFINE m == SRem(umap[u], s)
  <2>2. m \in [sids : SUBSET Sids, ttl : Nat] /\ m.sids \subseteq Owned(u, owner)
    BY <2>1, IndexTypes
  <2>. HIDE DEF m
  <2>3. Await(r, store, [umap EXCEPT ![u] = m], good, bad)
    BY DEF m
  <2>. QED  BY <1>1, <2>2, <2>3, AIndexStep
<1>2. CASE u \notin Uids
  <2>1. [umap EXCEPT ![u] = SRem(umap[u], s)] = umap
    BY <1>2 DEF AInv, TypeOK
  <2>2. Ask(r, good, bad)
    BY <2>1 DEF Ask
  <2>. QED  BY <2>2, AAskStep
<1>. QED  BY <1>1, <1>2

-----------------------------------------------------------------------------
(* The commands of the session traits *)

LEMMA ALoadUser ==
  ASSUME AInv, NEW r \in Reqs, LoadUser(r)
  PROVE  AInv'
<1>. DEFINE o == [obj[r] EXCEPT !.loaded = TRUE]
            u == store[o.sid].user
            f == [o EXCEPT !.user = u]
<1>1. obj[r].pc = "user"
  BY DEF LoadUser, At
<1>2. /\ obj[r] \in Objects /\ Base(obj[r], owner, issued) /\ obj[r].sid \in Sids
      /\ store[obj[r].sid] \in Hashes
  BY <1>1, Standing DEF Moved
<1>3. o \in Objects
  BY <1>2, Assigned
<1>4. o.sid = obj[r].sid /\ o.user = obj[r].user
  BY <1>2 DEF Objects
<1>5. u \in Profiles \cup {Nil} /\ (u # Nil => u.uid = owner[o.sid])
  BY <1>2, <1>4 DEF Hashes, AInv, StoreOwned
<1>6. Ask(r, AfterUser(IF u = Nil THEN o ELSE f), AfterUser(o))
  BY DEF LoadUser
<1>. HIDE DEF o, u
<1>7. f \in Objects
  BY <1>3, <1>5, Assigned
<1>8. f.sid = o.sid /\ f.user = u
  BY <1>3 DEF Objects
<1>. HIDE DEF f
<1>9. Base(o, owner, issued)
  BY <1>2, <1>3, <1>4 DEF Base, Anchored, Faithful
<1>10. Base(f, owner, issued)
  BY <1>2, <1>4, <1>5, <1>7, <1>8 DEF Base, Anchored, Faithful
<1>11. Fit(AfterUser(o), owner, issued) /\ Fit(AfterUser(f), owner, issued)
  BY <1>9, <1>10, AfterUserFit
<1>. QED  BY <1>6, <1>11, AAskStep

LEMMA ASilent ==
  ASSUME AInv, NEW r \in Reqs, SilentSet(r) \/ SilentGet(r) \/ SilentDel(r)
  PROVE  AInv'
<1>. DEFINE o == obj[r]
            h == store[o.sid]
<1>1. o.pc \in {"set", "get", "del"}
  BY DEF SilentSet, SilentGet, SilentDel, At
<1>2. /\ o \in Objects /\ Sound(o, owner, issued) /\ o.sid \in Sids /\ h \in Hashes
      /\ \A v \in Rets : Fit(Return(o, v), owner, issued)
  BY <1>1, Standing
<1>3. Base(o, owner, issued)
  BY <1>1, Standing DEF Sound, Moved
<1>4. Fit(TryTouch(o), owner, issued)
  BY <1>3, TryTouchFit
<1>5. h.user # Nil => h.user.uid = owner[o.sid]
  BY <1>2 DEF AInv, StoreOwned
<1>6. CASE SilentSet(r)
  <2>. DEFINE g == HSet(h, "data", o.arg)
  <2>1. o.arg \in Datas
    BY <1>2, <1>6 DEF SilentSet, At, Sound
  <2>2. g \in Hashes /\ g.user = h.user
    BY <1>2, <2>1, HashTypes
  <2>3. Await(r, [store EXCEPT ![o.sid] = g], umap, TryTouch(o), Return(o, "err"))
    BY <1>6 DEF SilentSet, Write
  <2>. HIDE DEF g
  <2>. QED  BY <1>2, <1>4, <1>5, <2>2, <2>3, AKeyStep DEF Rets
<1>7. CASE SilentGet(r)
  <2>. DEFINE good == IF h.data = Nil THEN Return(o, "err") ELSE TryTouch(o)
  <2>1. Fit(good, owner, issued) /\ Fit(Return(o, "err"), owner, issued)
    BY <1>2, <1>4 DEF Rets
  <2>2. Ask(r, good, Return(o, "err"))
    BY <1>7 DEF SilentGet
  <2>. HIDE DEF good
  <2>. QED  BY <2>1, <2>2, AAskStep
<1>8. CASE SilentDel(r)
  <2>. DEFINE g == HDel(h, "data")
              good == IF h.data = Nil THEN Return(o, "false") ELSE TryTouch(o)
  <2>1. g \in Hashes /\ g.user \in {Nil, h.user}
    BY <1>2, HashTypes
  <2>2. Fit(good, owner, issued) /\ Fit(Return(o, "err"), owner, issued)
    BY <1>2, <1>4 DEF Rets
  <2>3. Await(r, [store EXCEPT ![o.sid] = g], umap, good, Return(o, "err"))
    BY <1>8 DEF SilentDel, Write
  <2>. HIDE DEF g, good
  <2>. QED  BY <1>2, <1>5, <2>1, <2>2, <2>3, AKeyStep
<1>. QED  BY <1>6, <1>7, <1>8

LEMMA ATouch ==
  ASSUME AInv, NEW r \in Reqs, Touch(r)
  PROVE  AInv'
<1>. DEFINE o == obj[r]
            h == Expire(store[o.sid], o.ttl)
            b == Bool(Exists(store[o.sid]))
            p == [o EXCEPT !.touches = b]
<1>1. o.pc = "touch"
  BY DEF Touch, At
<1>2. /\ o \in Objects /\ Base(o, owner, issued) /\ o.sid \in Sids
      /\ store[o.sid] \in Hashes /\ Fit(Return(o, "err"), owner, issued)
  BY <1>1, Standing DEF Moved, Rets
<1>3. o.ttl \in Nat
  BY <1>2 DEF Objects
<1>4. h \in Hashes /\ (h.user # Nil => h.user.uid = owner[o.sid])
  <2>1. h \in Hashes /\ h.user = store[o.sid].user
    BY <1>2, <1>3, HashTypes
  <2>. QED  BY <1>2, <2>1 DEF AInv, StoreOwned
<1>5. b \in {"true", "false"}
  BY BoolType
<1>6. Await(r, [store EXCEPT ![o.sid] = h], umap, AfterTouch(p), Return(o, "err"))
  BY DEF Touch, Write
<1>. HIDE DEF h, b
<1>7. p \in Objects
  BY <1>2, <1>5, Assigned
<1>8. p.sid = o.sid /\ p.user = o.user
  BY <1>2 DEF Objects
<1>. HIDE DEF p
<1>9. Base(p, owner, issued)
  BY <1>2, <1>7, <1>8 DEF Base, Anchored, Faithful
<1>. QED  BY <1>2, <1>4, <1>6, <1>9, AfterTouchFit, AKeyStep

LEMMA ALoad ==
  ASSUME AInv, NEW r \in Reqs, Load(r)
  PROVE  AInv'
<1>. DEFINE o == [obj[r] EXCEPT !.raw = Missing]
            h == HMSet(store[o.sid], obj[r].raw)
<1>1. obj[r].pc = "load"
  BY DEF Load, At
<1>2. /\ obj[r] \in Objects /\ Base(obj[r], owner, issued) /\ obj[r].sid \in Sids
      /\ store[obj[r].sid] \in Hashes /\ Fit(Return(obj[r], "err"), owner, issued)
      /\ Sound(obj[r], owner, issued)
  BY <1>1, Standing DEF Moved, Rets
<1>3. o \in Objects
  BY <1>2, Assigned, MissingType
<1>4. o.sid = obj[r].sid /\ o.user = obj[r].user
  BY <1>2 DEF Objects
<1>5. obj[r].raw \in Hashes
  BY <1>2 DEF Objects
<1>6. h \in Hashes /\ h.user \in {store[o.sid].user, obj[r].raw.user}
  BY <1>2, <1>4, <1>5, HMSetType
<1>7. h.user # Nil => h.user.uid = owner[o.sid]
  BY <1>1, <1>2, <1>4, <1>6 DEF AInv, StoreOwned, Sound
<1>8. Await(r, [store EXCEPT ![o.sid] = h], umap, TryTouch(o), Return(obj[r], "err"))
  BY DEF Load, Write
<1>. HIDE DEF o, h
<1>9. Base(o, owner, issued)
  BY <1>2, <1>3, <1>4 DEF Base, Anchored, Faithful
<1>. QED  BY <1>2, <1>4, <1>6, <1>7, <1>8, <1>9, TryTouchFit, AKeyStep

(* mapping lists the id for the user it was generated for. *)
LEMMA AMapping ==
  ASSUME AInv, NEW r \in Reqs, MappingAdd(r) \/ MappingExpire(r)
  PROVE  AInv'
<1>. DEFINE o == obj[r]
            u == o.user.uid
<1>1. o.pc \in {"sadd", "mapexpire"}
  BY DEF MappingAdd, MappingExpire, At
<1>2. /\ o \in Objects /\ Base(o, owner, issued) /\ o.sid \in Sids /\ Sound(o, owner, issued)
  BY <1>1, Standing DEF Moved
<1>3. Fit(AfterRenew(o), owner, issued)
  BY <1>2, AfterRenewFit
<1>4. CASE MappingAdd(r)
  <2>1. o.pc = "sadd"
    BY <1>4 DEF MappingAdd, At
  <2>2. o.user # Nil /\ u = owner[o.sid]
    BY <1>2, <2>1 DEF Sound, Base, Faithful
  <2>3. u \in Uids
    BY <1>2, <2>2, Constants DEF Objects
  <2>4. umap[u] \in [sids : SUBSET Sids, ttl : Nat] /\ umap[u].sids \subseteq Owned(u, owner)
    BY <2>3 DEF AInv, TypeOK, IndexOwned
  <2>. DEFINE m == SAdd(umap[u], o.sid)
  <2>5. m \in [sids : SUBSET Sids, ttl : Nat] /\ m.sids \subseteq Owned(u, owner)
    <3>1. m \in [sids : SUBSET Sids, ttl : Nat] /\ m.sids = umap[u].sids \cup {o.sid}
      BY <1>2, <2>4, IndexTypes
    <3>2. o.sid \in Owned(u, owner)
      BY <1>2, <2>2 DEF Owned
    <3>. QED  BY <2>4, <3>1, <3>2
  <2>6. Fit([o EXCEPT !.pc = "mapexpire"], owner, issued)
    BY <1>2, MoveFit, PointsReached DEF Listing, Moved
  <2>7. Await(r, store, [umap EXCEPT ![u] = m], [o EXCEPT !.pc = "mapexpire"], AfterRenew(o))
    BY <1>4 DEF MappingAdd
  <2>. HIDE DEF m, u
  <2>. QED  BY <1>3, <2>3, <2>5, <2>6, <2>7, AIndexStep
<1>5. CASE MappingExpire(r)
  <2>1. CASE u \in Uids
    <3>1. umap[u] \in [sids : SUBSET Sids, ttl : Nat] /\ umap[u].sids \subseteq Owned(u, owner)
      BY <2>1 DEF AInv, TypeOK, IndexOwned
    <3>. DEFINE m == ExpireSet(umap[u], MapTtl)
    <3>2. m \in [sids : SUBSET Sids, ttl : Nat] /\ m.sids = umap[u].sids
      BY <3>1, IndexTypes, Constants
    <3>3. Await(r, store, [umap EXCEPT ![u] = m], AfterRenew(o), AfterRenew(o))
      BY <1>5 DEF MappingExpire
    <3>. HIDE DEF m, u
    <3>. QED  BY <1>3, <2>1, <3>1, <3>2, <3>3, AIndexStep
  <2>2. CASE u \notin Uids
    <3>1. [umap EXCEPT ![u] = ExpireSet(umap[u], MapTtl)] = umap
      BY <2>2 DEF AInv, TypeOK
    <3>2. Ask(r, AfterRenew(o), AfterRenew(o))
      BY <1>5, <3>1 DEF MappingExpire, Ask
    <3>. QED  BY <1>3, <3>2, AAskStep
  <2>. QED  BY <2>1, <2>2
<1>. QED  BY <1>4, <1>5

-----------------------------------------------------------------------------
(* New ids *)

(* Nothing that a call, the store or the index holds is about an id that    *)
(* has not been generated.                                                  *)
LEMMA AGenerated ==
  ASSUME AInv, NEW n \in Fresh, NEW u, NEW i,
         owner' = [owner EXCEPT ![n] = u],
         issued' = [issued EXCEPT ![n] = i], i # Nil
  PROVE  /\ \A o \in Objects : Sound(o, owner, issued) => Sound(o, owner', issued')
         /\ StoreOwned(store, owner') /\ IndexOwned(umap, owner')
         /\ \A s \in Sids : issued'[s] = Nil => owner'[s] = Nil
<1>1. n \in Sids /\ issued[n] = Nil /\ owner[n] = Nil
  BY DEF Fresh, AInv
<1>2. \A s \in Sids \ {n} : owner'[s] = owner[s] /\ issued'[s] = issued[s]
  BY DEF AInv, TypeOK
<1>3. issued'[n] = i
  BY <1>1 DEF AInv, TypeOK
<1>4. \A v \in Uids : Owned(v, owner) \subseteq Owned(v, owner')
  BY <1>1, <1>2, Constants DEF Owned
<1>5. ASSUME NEW o \in Objects, Sound(o, owner, issued)
      PROVE  Sound(o, owner', issued')
  <2>1. o.pc # "closed" => o.sid # n /\ o.sid \in Sids /\ owner'[o.sid] = owner[o.sid]
    BY <1>1, <1>2, <1>5 DEF Sound, Anchored
  <2>2. o.pc # "closed" => Anchored(o, issued')
    BY <1>2, <2>1, <1>5 DEF Sound, Anchored
  <2>3. Faithful(o, owner) => Faithful(o, owner')
    BY <1>5, <2>1 DEF Faithful, Sound
  <2>4. o.arg \in Profiles => Owned(o.arg.uid, owner) \subseteq Owned(o.arg.uid, owner')
    BY <1>4, Constants
  <2>. QED  BY <1>5, <2>1, <2>2, <2>3, <2>4 DEF Sound, Listing, Moved
<1>6. StoreOwned(store, owner')
  <2>. SUFFICES ASSUME NEW s \in Sids, store[s].user # Nil  PROVE store[s].user.uid = owner'[s]
    BY DEF StoreOwned
  <2>1. store[s].user \in Profiles /\ store[s].user.uid = owner[s]
    BY DEF AInv, StoreOwned, TypeOK, Hashes
  <2>. QED  BY <2>1, <1>1, <1>2, Constants
<1>7. IndexOwned(umap, owner')
  BY <1>4 DEF AInv, IndexOwned
<1>8. \A s \in Sids : issued'[s] = Nil => owner'[s] = Nil
  BY <1>2, <1>3 DEF AInv
<1>. QED  BY <1>5, <1>6, <1>7, <1>8

LEMMA AOpenedFit ==
  ASSUME NEW s \in Sids, NEW t \in Nat, NEW own, NEW iss, iss[s] # Nil
  PROVE  Fit(Object(s, t), own, iss)
<1>1. /\ Object(s, t).pc = "ready" /\ Object(s, t).sid = s /\ Object(s, t).op = "none"
      /\ Object(s, t).user = Nil /\ Object(s, t).todo = {} /\ Object(s, t).kept = {}
  BY DEF Object
<1>. QED  BY <1>1, ObjectGood DEF Fit, Sound, Anchored, Faithful, Listing, Moved

LEMMA AClosedFit == \A own, iss : Fit(Closed, own, iss)
<1>1. Closed \in Objects
  BY ObjectGood, Assigned, PointsReached DEF Closed
<1>2. Closed.pc = "closed" /\ Closed.op = "none" /\ Closed.user = Nil
  BY DEF Closed, Object
<1>. QED  BY <1>1, <1>2 DEF Fit, Sound, Faithful, Listing, Moved

LEMMA AOpenNew ==
  ASSUME AInv, NEW r \in Reqs, NEW s \in Sids, NEW t \in Ttls, OpenNew(r, s, t)
  PROVE  AInv'
<1>. DEFINE i == [ttl |-> t, born |-> clock]
<1>1. /\ s \in Fresh /\ issued' = [issued EXCEPT ![s] = i]
      /\ obj' = [obj EXCEPT ![r] = Object(s, t)]
      /\ UNCHANGED <<store, umap, known, clock, faults, owner>>
  BY DEF OpenNew
<1>2. i \in [ttl : Nat, born : Nat] /\ i # Nil
  BY Constants DEF AInv, TypeOK
<1>. HIDE DEF i
<1>3. owner' = [owner EXCEPT ![s] = owner[s]]
  BY <1>1 DEF AInv, TypeOK
<1>4. /\ \A o \in Objects : Sound(o, owner, issued) => Sound(o, owner', issued')
      /\ StoreOwned(store, owner') /\ IndexOwned(umap, owner')
      /\ \A x \in Sids : issued'[x] = Nil => owner'[x] = Nil
  BY <1>1, <1>2, <1>3, AGenerated
<1>5. issued' \in [Sids -> [ttl : Nat, born : Nat] \cup {Nil}] /\ issued'[s] # Nil
  BY <1>1, <1>2 DEF AInv, TypeOK
<1>6. Fit(Object(s, t), owner', issued')
  BY <1>5, AOpenedFit, Constants
<1>7. obj' \in [Reqs -> Objects] /\ \A q \in Reqs : Sound(obj'[q], owner', issued')
  BY <1>1, <1>4, <1>6 DEF AInv, TypeOK, Fit
<1>8. known' \subseteq Sids \ Fresh'
  BY <1>1, <1>2 DEF AInv, TypeOK, Fresh
<1>9. TypeOK'
  BY <1>1, <1>5, <1>7, <1>8 DEF AInv, TypeOK
<1>. QED  BY <1>1, <1>4, <1>7, <1>9 DEF AInv

LEMMA AOpenWith ==
  ASSUME AInv, NEW r \in Reqs, NEW s, OpenWith(r, s)
  PROVE  AInv'
<1>1. s \in Sids /\ issued[s] \in [ttl : Nat, born : Nat] /\ issued[s] # Nil
  BY DEF OpenWith, AInv, TypeOK, Fresh
<1>2. issued[s].ttl \in Nat
  BY <1>1, Constants
<1>3. Fit(Object(s, issued[s].ttl), owner, issued)
  BY <1>1, <1>2, AOpenedFit
<1>. QED  BY <1>3, AObjStep DEF OpenWith, AInv, TypeOK

(* The new id is for the cached user, or for the one read with the old     *)
(* hash; try_renew may have both, and they are the same.                   *)
LEMMA RenewedFit ==
  ASSUME AInv, NEW r \in Reqs, obj[r].pc = "raw", NEW n \in Sids, NEW own, NEW iss,
         iss[n] # Nil,
         NEW raw, raw = Filtered(obj[r], store[obj[r].sid]),
         own[n] = UidOf(IF raw.user = Nil THEN obj[r].user ELSE raw.user)
  PROVE  /\ Fit(Renewed(obj[r], n, raw), own, iss)
         /\ raw.user \in Profiles \cup {Nil}
<1>. DEFINE o == obj[r]
            h == store[o.sid]
            f == [o EXCEPT !.sid = n, !.touches = "none"]
<1>1. /\ o \in Objects /\ h \in Hashes /\ Sound(o, owner, issued) /\ o.sid \in Sids
      /\ o.user \in Profiles \cup {Nil}
  BY Standing DEF Objects
<1>2. /\ raw \in Hashes
      /\ \/ o.user # Nil /\ raw.user = o.user
         \/ raw.user = h.user /\ (o.user # Nil => o.op = "tryRenew")
  <2>1. CASE o.op = "tryRenew"
    <3>1. raw = [h EXCEPT !.newid = Nil] \/ raw = h
      BY <2>1 DEF Filtered
    <3>. QED  BY <1>1, <2>1, <3>1 DEF Hashes
  <2>2. CASE o.op # "tryRenew"
    <3>1. raw = IF o.user # Nil THEN [h EXCEPT !.user = o.user] ELSE h
      BY <2>2 DEF Filtered
    <3>. QED  BY <1>1, <3>1 DEF Hashes
  <2>. QED  BY <2>1, <2>2
<1>3. o.user # Nil => own[n] = o.user.uid
  <2>1. CASE o.user # Nil /\ raw.user = o.user
    BY <2>1 DEF UidOf
  <2>2. CASE o.user # Nil /\ raw.user = h.user /\ o.op = "tryRenew"
    <3>1. o.user.uid = owner[o.sid]
      BY <1>1, <2>2 DEF Sound, Faithful
    <3>2. h.user # Nil => h.user.uid = owner[o.sid]
      BY <1>1 DEF AInv, StoreOwned
    <3>. QED  BY <2>2, <3>1, <3>2 DEF UidOf
  <2>. QED  BY <1>2, <2>1, <2>2
<1>4. raw.user # Nil => own[n] = raw.user.uid
  BY DEF UidOf
<1>5. f \in Objects
  BY <1>1, Assigned
<1>6. f.sid = n /\ f.op = o.op /\ f.user = o.user
  BY <1>1 DEF Objects
<1>. HIDE DEF f
<1>7. Base(f, own, iss)
  BY <1>3, <1>5, <1>6 DEF Base, Anchored, Faithful
<1>8. Fit([f EXCEPT !.raw = [raw EXCEPT !.ttl = 0], !.pc = "load"], own, iss)
  <2>. DEFINE q == [raw EXCEPT !.ttl = 0]
              g == [f EXCEPT !.raw = q]
  <2>1. q \in Hashes /\ q.user = raw.user
    BY <1>2 DEF Hashes
  <2>. HIDE DEF q
  <2>2. g \in Objects
    BY <1>5, <2>1, Assigned
  <2>3. g.raw = q /\ g.sid = f.sid /\ g.user = f.user
    BY <1>5 DEF Objects
  <2>. HIDE DEF g
  <2>4. Base(g, own, iss)
    BY <1>7, <2>2, <2>3 DEF Base, Anchored, Faithful
  <2>5. g.raw.user # Nil => g.raw.user.uid = own[g.sid]
    BY <1>4, <1>6, <2>1, <2>3
  <2>6. Fit([g EXCEPT !.pc = "load"], own, iss)
    BY <2>4, <2>5, MoveFit, PointsReached DEF Listing, Moved
  <2>. QED  BY <2>6 DEF g, q
<1>9. Fit([f EXCEPT !.loaded = FALSE, !.pc = "user"], own, iss)
  <2>. DEFINE g == [f EXCEPT !.loaded = FALSE]
  <2>1. g \in Objects
    BY <1>5, Assigned
  <2>2. g.sid = f.sid /\ g.user = f.user
    BY <1>5 DEF Objects
  <2>. HIDE DEF g
  <2>3. Base(g, own, iss)
    BY <1>7, <2>1, <2>2 DEF Base, Anchored, Faithful
  <2>4. Fit([g EXCEPT !.pc = "user"], own, iss)
    BY <2>3, MoveFit, PointsReached DEF Listing, Moved
  <2>. QED  BY <2>4 DEF g
<1>10. raw.user \in Profiles \cup {Nil}
  BY <1>2 DEF Hashes
<1>. QED  BY <1>8, <1>9, <1>10 DEF Renewed, f

LEMMA ARaw ==
  ASSUME AInv, NEW r \in Reqs, Raw(r)
  PROVE  AInv'
<1>. DEFINE o == obj[r]
            raw == Filtered(o, store[o.sid])
            u == UidOf(IF raw.user = Nil THEN o.user ELSE raw.user)
            i == [ttl |-> o.ttl, born |-> clock]
<1>1. o.pc = "raw" /\ UNCHANGED <<store, umap, known, clock>>
  BY DEF Raw, At
<1>2. /\ o \in Objects /\ Anchored(o, issued) /\ o.user \in Profiles \cup {Nil}
      /\ Sound(o, owner, issued) /\ Fit(Return(o, "err"), owner, issued)
  BY <1>1, Standing DEF Objects, Rets
<1>3. ASSUME NEW n \in Fresh, issued' = [issued EXCEPT ![n] = i],
             obj' = [obj EXCEPT ![r] = Renewed(o, n, raw)],
             owner' = [owner EXCEPT ![n] = u], UNCHANGED faults
      PROVE  AInv'
  <2>1. o.ttl \in Nat /\ i \in [ttl : Nat, born : Nat] /\ i # Nil /\ n \in Sids
    BY <1>2, Constants DEF AInv, TypeOK, Objects, Fresh
  <2>3. issued'[n] # Nil /\ owner'[n] = u
    BY <1>3, <2>1 DEF AInv, TypeOK
  <2>4. Fit(Renewed(o, n, raw), owner', issued') /\ raw.user \in Profiles \cup {Nil}
    BY <1>1, <2>1, <2>3, RenewedFit
  <2>2. u \in Uids \cup {Nil}
    BY <1>2, <2>4, Constants DEF UidOf
  <2>. HIDE DEF o, raw, u, i
  <2>5. /\ \A p \in Objects : Sound(p, owner, issued) => Sound(p, owner', issued')
        /\ StoreOwned(store, owner') /\ IndexOwned(umap, owner')
        /\ \A s \in Sids : issued'[s] = Nil => owner'[s] = Nil
    BY <1>3, <2>1, AGenerated
  <2>6. obj' \in [Reqs -> Objects] /\ \A q \in Reqs : Sound(obj'[q], owner', issued')
    BY <1>3, <2>4, <2>5 DEF AInv, TypeOK, Fit
  <2>7. /\ issued' \in [Sids -> [ttl : Nat, born : Nat] \cup {Nil}]
        /\ owner' \in [Sids -> Uids \cup {Nil}]
        /\ known' \subseteq Sids \ Fresh'
    BY <1>1, <1>3, <2>1, <2>2 DEF AInv, TypeOK, Fresh
  <2>8. TypeOK'
    BY <1>1, <1>3, <2>6, <2>7 DEF AInv, TypeOK
  <2>. QED  BY <1>1, <2>5, <2>6, <2>8 DEF AInv
<1>4. CASE obj' = [obj EXCEPT ![r] = Return([o EXCEPT !.touches = "none"], "err")]
           /\ UNCHANGED <<issued, owner, faults>>
  <2>. DEFINE p == [o EXCEPT !.touches = "none"]
  <2>1. p \in Objects
    BY <1>2, Assigned
  <2>2. p.sid = o.sid /\ p.op = o.op /\ p.user = o.user
    BY <1>2 DEF Objects
  <2>. HIDE DEF p
  <2>3. Anchored(p, issued) /\ (p.op # "login" => Faithful(p, owner))
    BY <1>2, <2>2 DEF Anchored, Faithful, Sound
  <2>4. Fit(Return(p, "err"), owner, issued)
    BY <2>1, <2>3, ReturnFit DEF Rets
  <2>. QED  BY <1>1, <1>4, <2>4, AObjStep DEF p, AInv, TypeOK
<1>5. CASE obj' = [obj EXCEPT ![r] = Return(o, "err")] /\ faults' = faults + 1
           /\ UNCHANGED <<issued, owner>>
  <2>2. known' \subseteq Sids \ Fresh /\ faults' \in Nat
    BY <1>1, <1>5 DEF AInv, TypeOK
  <2>. QED  BY <1>1, <1>2, <1>5, <2>2, AObjStep
<1>6. \/ \E n \in Fresh :
           /\ issued' = [issued EXCEPT ![n] = i]
           /\ obj' = [obj EXCEPT ![r] = Renewed(o, n, raw)]
           /\ owner' = [owner EXCEPT ![n] = u] /\ UNCHANGED faults
      \/ /\ obj' = [obj EXCEPT ![r] = Return([o EXCEPT !.touches = "none"], "err")]
         /\ UNCHANGED <<issued, owner, faults>>
      \/ /\ obj' = [obj EXCEPT ![r] = Return(o, "err")] /\ faults' = faults + 1
         /\ UNCHANGED <<issued, owner>>
  BY DEF Raw
<1>7. CASE \E n \in Fresh :
           /\ issued' = [issued EXCEPT ![n] = i]
           /\ obj' = [obj EXCEPT ![r] = Renewed(o, n, raw)]
           /\ owner' = [owner EXCEPT ![n] = u] /\ UNCHANGED faults
  BY <1>3, <1>7
<1>. QED  BY <1>4, <1>5, <1>6, <1>7

-----------------------------------------------------------------------------
(* Removals, and sync *)

LEMMA ACloned ==
  ASSUME AInv, NEW r \in Reqs, ClonedUnmapping(r) \/ ClonedDestroy(r)
  PROVE  AInv'
<1>. DEFINE o == obj[r]
<1>1. o.pc \in {"csrem", "cdel"}
  BY DEF ClonedUnmapping, ClonedDestroy, At
<1>2. Base(o, owner, issued) /\ \A v \in Rets : Fit(Return(o, v), owner, issued)
  BY <1>1, Standing DEF Moved
<1>3. CASE ClonedUnmapping(r)
  <2>1. Fit([o EXCEPT !.pc = "cdel"], owner, issued)
    BY <1>2, MoveFit, PointsReached DEF Listing, Moved
  <2>2. Await(r, store, [umap EXCEPT ![o.cuser.uid] = SRem(umap[o.cuser.uid], o.csid)],
              [o EXCEPT !.pc = "cdel"], Return(o, "err"))
    <3>1. [umap EXCEPT ![o.cuser.uid] = SRem(@, o.csid)]
            = [umap EXCEPT ![o.cuser.uid] = SRem(umap[o.cuser.uid], o.csid)]
      BY DEF AInv, TypeOK
    <3>. QED  BY <1>3, <3>1 DEF ClonedUnmapping
  <2>. QED  BY <1>2, <2>1, <2>2, ARemoveStep DEF Rets
<1>4. CASE ClonedDestroy(r)
  <2>1. Await(r, [store EXCEPT ![o.csid] = Missing], umap, Return(o, "true"), Return(o, "err"))
    BY <1>4 DEF ClonedDestroy, Write
  <2>. QED  BY <1>2, <2>1, MissingType, ACloneStep DEF Rets
<1>. QED  BY <1>3, <1>4

LEMMA AUnmapping ==
  ASSUME AInv, NEW r \in Reqs, Unmapping(r)
  PROVE  AInv'
<1>. DEFINE o == obj[r]
            u == o.user.uid
            p == [o EXCEPT !.user = Nil]
            good == IF o.op = "logout" THEN [o EXCEPT !.user = Nil, !.pc = "userdel"]
                                       ELSE [o EXCEPT !.pc = "destroydel"]
<1>1. o.pc = "srem"
  BY DEF Unmapping, At
<1>2. o \in Objects /\ Sound(o, owner, issued) /\ Fit(Return(o, "err"), owner, issued)
  BY <1>1, Standing DEF Rets
<1>3. o.op # "login" /\ Base(o, owner, issued)
  BY <1>1, <1>2, Standing DEF Sound, Moved
<1>4. Fit([o EXCEPT !.pc = "destroydel"], owner, issued)
  BY <1>3, MoveFit, PointsReached DEF Listing
<1>5. Fit([o EXCEPT !.user = Nil, !.pc = "userdel"], owner, issued)
  <2>1. p \in Objects
    BY <1>2, Assigned
  <2>2. p.sid = o.sid /\ p.op = o.op /\ p.user = Nil
    BY <1>2 DEF Objects
  <2>. HIDE DEF p
  <2>3. Base(p, owner, issued) /\ p.op # "login"
    BY <1>3, <2>1, <2>2 DEF Base, Anchored, Faithful
  <2>4. Fit([p EXCEPT !.pc = "userdel"], owner, issued)
    BY <2>3, MoveFit, PointsReached DEF Listing
  <2>. QED  BY <2>4 DEF p
<1>6. Fit(good, owner, issued)
  BY <1>4, <1>5
<1>7. [umap EXCEPT ![u] = SRem(@, o.sid)] = [umap EXCEPT ![u] = SRem(umap[u], o.sid)]
  BY DEF AInv, TypeOK
<1>8. Await(r, store, [umap EXCEPT ![u] = SRem(umap[u], o.sid)], good, Return(o, "err"))
  BY <1>7 DEF Unmapping
<1>. HIDE DEF o, u, good
<1>. QED  BY <1>2, <1>6, <1>8, ARemoveStep

LEMMA ADelete ==
  ASSUME AInv, NEW r \in Reqs, LogoutDel(r) \/ DestroyDel(r) \/ CondemnedDel(r)
  PROVE  AInv'
<1>. DEFINE o == obj[r]
<1>1. o.pc \in {"userdel", "destroydel"}
  BY DEF LogoutDel, DestroyDel, CondemnedDel, At
<1>2. /\ o.sid \in Sids /\ store[o.sid] \in Hashes
      /\ \A v \in Rets : Fit(Return(o, v), owner, issued)
  BY <1>1, Standing
<1>3. \A b : Fit(Return(o, Bool(b)), owner, issued)
  BY <1>2, BoolType DEF Rets
<1>4. CASE LogoutDel(r)
  <2>. DEFINE h == HDel(store[o.sid], "user")
              good == Return(o, Bool(store[o.sid].user # Nil))
  <2>1. h \in Hashes /\ h.user = Nil
    BY <1>2, HashTypes
  <2>2. Fit(good, owner, issued) /\ Fit(Return(o, "err"), owner, issued)
    BY <1>2, <1>3 DEF Rets
  <2>3. Await(r, [store EXCEPT ![o.sid] = h], umap, good, Return(o, "err"))
    BY <1>4 DEF LogoutDel, Write
  <2>. HIDE DEF h, good
  <2>. QED  BY <1>2, <2>1, <2>2, <2>3, AKeyStep
<1>5. CASE DestroyDel(r) \/ CondemnedDel(r)
  <2>1. \E v \in Rets :
          Await(r, [store EXCEPT ![o.sid] = Missing], umap, Return(o, v), Return(o, "err"))
    BY <1>5, BoolType DEF DestroyDel, CondemnedDel, Write, Rets
  <2>. QED  BY <1>2, <2>1, MissingType, ACloneStep DEF Rets
<1>. QED  BY <1>4, <1>5

(* sync keeps to the ids of one user. *)
LEMMA ASyncing ==
  ASSUME AInv, NEW r \in Reqs, obj[r].pc \in Listing
  PROVE  /\ obj[r] \in Objects /\ Base(obj[r], owner, issued) /\ obj[r].op # "login"
         /\ obj[r].arg \in Profiles
         /\ obj[r].todo \cup obj[r].kept \subseteq Owned(obj[r].arg.uid, owner)
         /\ Fit(Return(obj[r], "err"), owner, issued)
<1>1. obj[r].pc # "closed" /\ obj[r].pc \notin Moved \cup {"raw", "ready"}
  BY DEF Listing, Moved
<1>2. /\ obj[r] \in Objects /\ Sound(obj[r], owner, issued)
      /\ Fit(Return(obj[r], "err"), owner, issued)
      /\ obj[r].op # "login" \/ obj[r].pc \in Moved => Base(obj[r], owner, issued)
  BY <1>1, Standing DEF Rets
<1>. QED  BY <1>1, <1>2 DEF Sound

LEMMA AAllSid ==
  ASSUME AInv, NEW r \in Reqs, AllSid(r)
  PROVE  AInv'
<1>. DEFINE o == obj[r]
            S == umap[o.arg.uid].sids
            p == [o EXCEPT !.todo = S]
<1>1. o.pc \in Listing
  BY DEF AllSid, At, Listing
<1>2. /\ o \in Objects /\ Base(o, owner, issued) /\ o.op # "login" /\ o.arg \in Profiles
      /\ o.todo \cup o.kept \subseteq Owned(o.arg.uid, owner)
      /\ Fit(Return(o, "err"), owner, issued)
  BY <1>1, ASyncing
<1>3. S \subseteq Owned(o.arg.uid, owner)
  BY <1>2, Constants DEF AInv, IndexOwned
<1>4. p \in Objects
  BY <1>2, <1>3, Assigned DEF Owned
<1>5. /\ p.sid = o.sid /\ p.op = o.op /\ p.arg = o.arg /\ p.kept = o.kept /\ p.todo = S
      /\ p.user = o.user
  BY <1>2 DEF Objects
<1>6. Ask(r, Syncing(p), Return(o, "err"))
  BY DEF AllSid
<1>. HIDE DEF p, S, o
<1>7. Base(p, owner, issued)
  BY <1>2, <1>4, <1>5 DEF Base, Anchored, Faithful
<1>8. Fit(Syncing(p), owner, issued)
  BY <1>2, <1>3, <1>5, <1>7, SyncingFit
<1>. QED  BY <1>2, <1>6, <1>8, AAskStep

LEMMA AFilterExists ==
  ASSUME AInv, NEW r \in Reqs, NEW s \in Sids, FilterExists(r, s)
  PROVE  AInv'
<1>. DEFINE c == obj[r]
            o == [c EXCEPT !.todo = c.todo \ {s}]
            k == [o EXCEPT !.kept = o.kept \cup {s}]
            g == [o EXCEPT !.cur = s]
            good == IF Exists(store[s]) THEN Syncing(k) ELSE [o EXCEPT !.cur = s, !.pc = "filtersrem"]
<1>1. c.pc \in Listing /\ s \in c.todo
  BY DEF FilterExists, At, Listing
<1>2. /\ c \in Objects /\ Base(c, owner, issued) /\ c.op # "login" /\ c.arg \in Profiles
      /\ c.todo \cup c.kept \subseteq Owned(c.arg.uid, owner)
  BY <1>1, ASyncing
<1>3. o \in Objects
  BY <1>2, Assigned DEF Owned
<1>4. /\ o.sid = c.sid /\ o.op = c.op /\ o.arg = c.arg /\ o.kept = c.kept
      /\ o.todo = c.todo \ {s} /\ o.user = c.user
  BY <1>2 DEF Objects
<1>5. Ask(r, good, Return(o, "err"))
  BY <1>2 DEF FilterExists
<1>. HIDE DEF o
<1>6. Base(o, owner, issued) /\ o.op # "login"
  BY <1>2, <1>3, <1>4 DEF Base, Anchored, Faithful
<1>7. Fit(Syncing(k), owner, issued)
  <2>1. o.kept \cup {s} \subseteq Owned(o.arg.uid, owner)
    BY <1>1, <1>2, <1>4
  <2>2. k \in Objects
    BY <1>3, <2>1, Assigned DEF Owned
  <2>3. /\ k.sid = o.sid /\ k.op = o.op /\ k.arg = o.arg /\ k.todo = o.todo
        /\ k.kept = o.kept \cup {s} /\ k.user = o.user
    BY <1>3 DEF Objects
  <2>. HIDE DEF k
  <2>4. Base(k, owner, issued) /\ k.todo \cup k.kept \subseteq Owned(k.arg.uid, owner)
    BY <1>2, <1>4, <1>6, <2>1, <2>2, <2>3 DEF Base, Anchored, Faithful
  <2>. QED  BY <1>2, <1>4, <1>6, <2>3, <2>4, SyncingFit
<1>8. Fit([o EXCEPT !.cur = s, !.pc = "filtersrem"], owner, issued)
  <2>1. g \in Objects
    BY <1>3, Assigned
  <2>2. /\ g.sid = o.sid /\ g.op = o.op /\ g.arg = o.arg /\ g.todo = o.todo
        /\ g.kept = o.kept /\ g.user = o.user
    BY <1>3 DEF Objects
  <2>. HIDE DEF g
  <2>3. /\ Base(g, owner, issued) /\ g.op # "login" /\ g.arg \in Profiles
        /\ g.todo \cup g.kept \subseteq Owned(g.arg.uid, owner)
    BY <1>2, <1>4, <1>6, <2>1, <2>2 DEF Base, Anchored, Faithful
  <2>4. Fit([g EXCEPT !.pc = "filtersrem"], owner, issued)
    BY <2>3, MoveFit, PointsReached
  <2>. QED  BY <2>4 DEF g
<1>9. Fit(good, owner, issued)
  BY <1>7, <1>8
<1>10. Fit(Return(o, "err"), owner, issued)
  BY <1>6, ReturnFit DEF Base, Rets
<1>. HIDE DEF good
<1>. QED  BY <1>5, <1>9, <1>10, AAskStep

LEMMA AFilterRemove ==
  ASSUME AInv, NEW r \in Reqs, FilterRemove(r)
  PROVE  AInv'
<1>. DEFINE o == obj[r]
            u == o.arg.uid
<1>1. o.pc \in Listing
  BY DEF FilterRemove, At, Listing
<1>2. Fit(Syncing(o), owner, issued)
  BY <1>1, ASyncing, SyncingFit
<1>3. [umap EXCEPT ![u] = SRem(@, o.cur)] = [umap EXCEPT ![u] = SRem(umap[u], o.cur)]
  BY DEF AInv, TypeOK
<1>4. Await(r, store, [umap EXCEPT ![u] = SRem(umap[u], o.cur)], Syncing(o), Syncing(o))
  BY <1>3 DEF FilterRemove
<1>. HIDE DEF o, u
<1>. QED  BY <1>2, <1>4, ARemoveStep

LEMMA ASyncSet ==
  ASSUME AInv, NEW r \in Reqs, NEW s \in Sids, SyncSet(r, s)
  PROVE  AInv'
<1>. DEFINE o == obj[r]
            h == HSet(store[s], "user", o.arg)
            p == [o EXCEPT !.kept = o.kept \ {s}]
<1>1. o.pc \in Listing /\ s \in o.kept
  BY DEF SyncSet, At, Listing
<1>2. /\ o \in Objects /\ Base(o, owner, issued) /\ o.op # "login" /\ o.arg \in Profiles
      /\ o.todo \cup o.kept \subseteq Owned(o.arg.uid, owner)
      /\ Fit(Return(o, "err"), owner, issued)
  BY <1>1, ASyncing
<1>3. store[s] \in Hashes
  BY DEF AInv, TypeOK
<1>4. h \in Hashes /\ h.user = o.arg
  BY <1>2, <1>3, HashTypes
<1>5. h.user # Nil => h.user.uid = owner[s]
  BY <1>1, <1>2, <1>4 DEF Owned
<1>6. p \in Objects
  BY <1>2, Assigned DEF Owned
<1>7. /\ p.sid = o.sid /\ p.op = o.op /\ p.arg = o.arg /\ p.todo = o.todo
      /\ p.kept = o.kept \ {s} /\ p.user = o.user
  BY <1>2 DEF Objects
<1>8. Await(r, [store EXCEPT ![s] = h], umap, Syncing(p), Return(o, "err"))
  BY <1>2 DEF SyncSet, Write
<1>. HIDE DEF p
<1>9. Base(p, owner, issued) /\ p.todo \cup p.kept \subseteq Owned(p.arg.uid, owner)
  BY <1>2, <1>6, <1>7 DEF Base, Anchored, Faithful
<1>10. Fit(Syncing(p), owner, issued)
  BY <1>2, <1>7, <1>9, SyncingFit
<1>. HIDE DEF h, o
<1>. QED  BY <1>2, <1>4, <1>5, <1>8, <1>10, AKeyStep

-----------------------------------------------------------------------------
(* The commands of try_renew *)

(* The object of a call of AutoRenew at one of its own points. *)
LEMMA ARenewing ==
  ASSUME AInv, NEW r \in Reqs,
         \/ obj[r].pc \in {"keep", "newid", "newttl", "oldttl", "ctouch", "csetnew"}
         \/ obj[r].pc = "cdel" /\ obj[r].op = "tryRenew"
  PROVE  /\ obj[r] \in Objects /\ Base(obj[r], owner, issued) /\ obj[r].op # "login"
         /\ obj[r].sid \in Sids /\ store[obj[r].sid] \in Hashes /\ obj[r].ttl \in Nat
         /\ obj[r].pc = "newttl" => obj[r].csid \in Sids
         /\ \A v \in Rets : Fit(Return(obj[r], v), owner, issued)
<1>1. obj[r].pc # "closed"
  OBVIOUS
<1>2. /\ obj[r] \in Objects /\ Sound(obj[r], owner, issued)
      /\ obj[r].sid \in Sids /\ store[obj[r].sid] \in Hashes
      /\ \A v \in Rets : Fit(Return(obj[r], v), owner, issued)
      /\ obj[r].op # "login" \/ obj[r].pc \in Moved => Base(obj[r], owner, issued)
  BY <1>1, Standing
<1>3. obj[r].op # "login"
  BY <1>2 DEF Sound, Moved
<1>. QED  BY <1>2, <1>3 DEF Sound, Objects

LEMMA KeepFit ==
  ASSUME NEW o, NEW own, NEW iss, Base(o, own, iss), o.op # "login"
  PROVE  Fit(Keep(o), own, iss)
<1>1. Fit([o EXCEPT !.pc = "keep"], own, iss)
  BY MoveFit, MorePoints DEF Listing
<1>2. Fit(Return(o, "false"), own, iss)
  BY ReturnFit DEF Base, Rets
<1>. QED  BY <1>1, <1>2 DEF Keep

LEMMA DoCloneFit ==
  ASSUME NEW o, NEW own, NEW iss, Base(o, own, iss), NEW f \in {"none", "drop"}
  PROVE  Fit(DoClone(o, f), own, iss)
<1>. DEFINE a == [o EXCEPT !.csid = o.sid]
            b == [a EXCEPT !.cuser = o.user]
            c == [b EXCEPT !.mode = f]
<1>1. o \in Objects /\ o.sid \in Sids \cup {Nil} /\ o.user \in Profiles \cup {Nil}
  BY DEF Base, Objects
<1>2. a \in Objects
  BY <1>1, Assigned
<1>3. a.sid = o.sid /\ a.user = o.user
  BY <1>1 DEF Objects
<1>. HIDE DEF a
<1>4. b \in Objects
  BY <1>1, <1>2, Assigned
<1>5. b.sid = o.sid /\ b.user = o.user
  BY <1>2, <1>3 DEF Objects
<1>. HIDE DEF b
<1>6. c \in Objects
  BY <1>4, RenewAssigned
<1>7. c.sid = o.sid /\ c.user = o.user
  BY <1>4, <1>5 DEF Objects
<1>. HIDE DEF c
<1>8. Base(c, own, iss)
  BY <1>6, <1>7 DEF Base, Anchored, Faithful
<1>9. Fit([c EXCEPT !.pc = "raw"], own, iss)
  BY <1>8, MoveFit, PointsReached DEF Listing, Moved
<1>10. DoClone(o, f) = [c EXCEPT !.pc = "raw"]
  BY <1>1 DEF DoClone, a, b, c, Objects
<1>. QED  BY <1>9, <1>10

LEMMA AKeepTouch ==
  ASSUME AInv, NEW r \in Reqs, KeepTouch(r)
  PROVE  AInv'
<1>. DEFINE o == obj[r]
            h == Expire(store[o.sid], o.ttl)
            b == Bool(Exists(store[o.sid]))
            p == [o EXCEPT !.touches = b]
<1>1. /\ o \in Objects /\ Base(o, owner, issued) /\ o.op # "login" /\ o.sid \in Sids
      /\ store[o.sid] \in Hashes /\ o.ttl \in Nat /\ Fit(Return(o, "false"), owner, issued)
  BY ARenewing DEF KeepTouch, At, Rets
<1>2. h \in Hashes /\ h.user = store[o.sid].user
  BY <1>1, HashTypes
<1>3. h.user # Nil => h.user.uid = owner[o.sid]
  BY <1>1, <1>2 DEF AInv, StoreOwned
<1>4. b \in {"none", "true", "false"}
  BY BoolType
<1>5. Await(r, [store EXCEPT ![o.sid] = h], umap, Return(p, "false"), Return(o, "false"))
  BY DEF KeepTouch
<1>. HIDE DEF b, h
<1>6. p \in Objects
  BY <1>1, <1>4, Assigned
<1>7. p.sid = o.sid /\ p.user = o.user
  BY <1>1 DEF Objects
<1>. HIDE DEF p
<1>8. Fit(Return(p, "false"), owner, issued)
  BY <1>1, <1>6, <1>7, ReturnFit DEF Base, Anchored, Faithful, Rets
<1>. HIDE DEF o
<1>. QED  BY <1>1, <1>2, <1>3, <1>5, <1>8, AKeyStep

LEMMA AGetNewId ==
  ASSUME AInv, NEW r \in Reqs, GetNewId(r)
  PROVE  AInv'
<1>. DEFINE o == obj[r]
            n == store[o.sid].newid
            a == [o EXCEPT !.csid = n]
            b == [a EXCEPT !.cuser = Nil]
            good == CASE n = Nil                   -> DoClone(o, "none")
                      [] n # Nil /\ o.mode = "judge" -> [o EXCEPT !.csid = n, !.cuser = Nil, !.pc = "newttl"]
                      [] OTHER                     -> Keep(o)
<1>1. /\ o \in Objects /\ Base(o, owner, issued) /\ o.op # "login"
      /\ store[o.sid] \in Hashes
  BY ARenewing DEF GetNewId, At
<1>2. n \in Sids \cup {Nil}
  BY <1>1 DEF Hashes
<1>3. Fit(DoClone(o, "none"), owner, issued) /\ Fit(Keep(o), owner, issued)
  BY <1>1, DoCloneFit, KeepFit
<1>4. Ask(r, good, DoClone(o, "none"))
  BY DEF GetNewId
<1>. HIDE DEF n
<1>5. n # Nil => Fit([o EXCEPT !.csid = n, !.cuser = Nil, !.pc = "newttl"], owner, issued)
  <2>. SUFFICES ASSUME n # Nil
                PROVE  Fit([o EXCEPT !.csid = n, !.cuser = Nil, !.pc = "newttl"], owner, issued)
    OBVIOUS
  <2>1. a \in Objects
    BY <1>1, <1>2, Assigned
  <2>2. a.sid = o.sid /\ a.user = o.user /\ a.op = o.op /\ a.csid = n
    BY <1>1 DEF Objects
  <2>. HIDE DEF a
  <2>3. b \in Objects
    BY <2>1, Assigned
  <2>4. b.sid = o.sid /\ b.user = o.user /\ b.op = o.op /\ b.csid = n
    BY <2>1, <2>2 DEF Objects
  <2>. HIDE DEF b
  <2>5. Base(b, owner, issued)
    BY <1>1, <2>3, <2>4 DEF Base, Anchored, Faithful
  <2>6. Fit([b EXCEPT !.pc = "newttl"], owner, issued)
    BY <1>1, <1>2, <2>4, <2>5, MoveFit, MorePoints DEF Listing
  <2>7. [o EXCEPT !.csid = n, !.cuser = Nil, !.pc = "newttl"] = [b EXCEPT !.pc = "newttl"]
    BY <1>1 DEF a, b, Objects
  <2>. QED  BY <2>6, <2>7
<1>6. Fit(good, owner, issued)
  BY <1>3, <1>5
<1>. HIDE DEF good
<1>. QED  BY <1>3, <1>4, <1>6, AAskStep

(* try_renew goes on to drop the newer of the two sessions. *)
LEMMA DropFit ==
  ASSUME NEW o, NEW own, NEW iss, Base(o, own, iss), NEW t \in Nat,
         NEW pc \in {"cdel", "oldttl"}, pc = "oldttl" => o.op # "login"
  PROVE  /\ Fit([o EXCEPT !.tp = t, !.pc = pc], own, iss)
         /\ Fit([o EXCEPT !.pc = "cdel"], own, iss)
<1>. DEFINE a == [o EXCEPT !.tp = t]
<1>1. o \in Objects
  BY DEF Base
<1>2. a \in Objects
  BY <1>1, RenewAssigned
<1>3. a.sid = o.sid /\ a.user = o.user /\ a.op = o.op
  BY <1>1 DEF Objects
<1>. HIDE DEF a
<1>4. Base(a, own, iss)
  BY <1>2, <1>3 DEF Base, Anchored, Faithful
<1>5. /\ pc \in Points \ {"closed", "ready"} /\ pc \notin {"load", "sadd", "set", "newttl"}
      /\ pc \notin Listing /\ (a.op = "login" => pc \in Moved)
  BY <1>3, PointsReached, MorePoints DEF Listing, Moved
<1>6. Fit([a EXCEPT !.pc = pc], own, iss)
  BY <1>4, <1>5, MoveFit
<1>7. [o EXCEPT !.tp = t, !.pc = pc] = [a EXCEPT !.pc = pc]
  BY <1>1 DEF a, Objects
<1>8. Fit([o EXCEPT !.pc = "cdel"], own, iss)
  BY MoveFit, PointsReached DEF Listing, Moved
<1>. QED  BY <1>6, <1>7, <1>8

LEMMA CondemnFit ==
  ASSUME NEW o, NEW own, NEW iss, Base(o, own, iss)
  PROVE  Fit(Condemn(o), own, iss)
<1>. DEFINE a == [o EXCEPT !.op = "condemn"]
            b == [a EXCEPT !.tp = 0]
<1>1. o \in Objects
  BY DEF Base
<1>2. a \in Objects
  BY <1>1, Assigned DEF Calls
<1>3. a.sid = o.sid /\ a.user = o.user
  BY <1>1 DEF Objects
<1>. HIDE DEF a
<1>4. b \in Objects
  BY <1>2, RenewAssigned
<1>5. b.sid = o.sid /\ b.user = o.user
  BY <1>2, <1>3 DEF Objects
<1>. HIDE DEF b
<1>6. Base(b, own, iss)
  BY <1>4, <1>5 DEF Base, Anchored, Faithful
<1>7. Condemn(o) = User(b)
  BY <1>1 DEF Condemn, a, b, Objects
<1>. QED  BY <1>6, <1>7, UserFit

(* The idle time of a key is a word. *)
LEMMA PassedType ==
  ASSUME NEW o, NEW s, o.ttl \in Nat, store[s].ttl \in Nat
  PROVE  Passed(o, s) \in Nat
<1>. DEFINE d == o.ttl - store[s].ttl
<1>1. d \in Int
  OBVIOUS
<1>. HIDE DEF d
<1>2. d % 1000 \in Nat
  BY <1>1
<1>. QED  BY <1>2 DEF Passed, Word, d

LEMMA AJudge ==
  ASSUME AInv, NEW r \in Reqs, NewTtl(r) \/ OldTtl(r)
  PROVE  AInv'
<1>. DEFINE o == obj[r]
            t == Passed(o, o.csid)
<1>1. o.pc \in {"newttl", "oldttl"}
  BY DEF NewTtl, OldTtl, At
<1>2. /\ Base(o, owner, issued) /\ o.op # "login" /\ o.ttl \in Nat
      /\ o.pc = "newttl" => o.csid \in Sids
  BY <1>1, ARenewing
<1>3. /\ Fit([o EXCEPT !.tp = 0, !.pc = "cdel"], owner, issued)
      /\ Fit([o EXCEPT !.pc = "cdel"], owner, issued)
  BY <1>2, DropFit
<1>4. CASE NewTtl(r)
  <2>. DEFINE b == store[o.csid].ttl > 0 /\ t < Inactive
              good == IF b THEN [o EXCEPT !.tp = t, !.pc = "oldttl"] ELSE [o EXCEPT !.pc = "cdel"]
  <2>1. o.csid \in Sids
    BY <1>2, <1>4 DEF NewTtl, At
  <2>2. store[o.csid].ttl \in Nat
    BY <2>1 DEF AInv, TypeOK, Hashes
  <2>3. t \in Nat
    BY <1>2, <2>2, PassedType
  <2>4. Ask(r, good, [o EXCEPT !.pc = "cdel"])
    BY <1>4 DEF NewTtl
  <2>. HIDE DEF t, b
  <2>5. Fit(good, owner, issued)
    BY <1>2, <1>3, <2>3, DropFit
  <2>. HIDE DEF good
  <2>. QED  BY <1>3, <2>4, <2>5, AAskStep
<1>5. CASE OldTtl(r)
  <2>. DEFINE b == store[o.sid].ttl > 0 /\ o.tp >= Passed(o, o.sid)
              good == IF b THEN [o EXCEPT !.tp = 0, !.pc = "cdel"] ELSE Condemn(o)
  <2>1. Ask(r, good, Condemn(o))
    BY <1>5 DEF OldTtl
  <2>. HIDE DEF b
  <2>2. Fit(Condemn(o), owner, issued)
    BY <1>2, CondemnFit
  <2>3. Fit(good, owner, issued)
    BY <1>3, <2>2
  <2>. HIDE DEF good
  <2>. QED  BY <2>1, <2>2, <2>3, AAskStep
<1>. QED  BY <1>4, <1>5

(* The commands on the other session of a renewal. *)
LEMMA ACloneCommands ==
  ASSUME AInv, NEW r \in Reqs, DropNewer(r) \/ CloneTouch(r) \/ CloneSetNewId(r)
  PROVE  AInv'
<1>. DEFINE o == obj[r]
            h == store[o.csid]
<1>1. \/ o.pc \in {"ctouch", "csetnew"}
      \/ o.pc = "cdel" /\ o.op = "tryRenew"
  BY DEF DropNewer, CloneTouch, CloneSetNewId, At
<1>2. /\ Base(o, owner, issued) /\ o.op # "login" /\ o.sid \in Sids /\ o.ttl \in Nat
      /\ \A v \in Rets : Fit(Return(o, v), owner, issued)
  BY <1>1, ARenewing
<1>3. o.csid \in Sids => h \in Hashes /\ (h.user # Nil => h.user.uid = owner[o.csid])
  BY DEF AInv, TypeOK, StoreOwned
<1>4. CASE DropNewer(r)
  <2>1. Await(r, [store EXCEPT ![o.csid] = Missing], umap, DoClone(o, "drop"), Return(o, "err"))
    BY <1>4 DEF DropNewer, Write
  <2>2. Fit(DoClone(o, "drop"), owner, issued)
    BY <1>2, DoCloneFit
  <2>. QED  BY <1>2, <2>1, <2>2, MissingType, ACloneStep DEF Rets
<1>5. CASE CloneTouch(r)
  <2>. DEFINE p == [o EXCEPT !.pc = "csetnew"]
              g == Expire(h, o.ttl)
  <2>1. Fit(p, owner, issued)
    BY <1>2, MoveFit, MorePoints DEF Listing
  <2>2. p.csid = o.csid
    BY <1>2 DEF Base, Objects
  <2>3. o.csid \in Sids => g \in Hashes /\ g.user = h.user
    BY <1>2, <1>3, HashTypes
  <2>4. [store EXCEPT ![p.csid] = Expire(@, p.ttl)] = [store EXCEPT ![o.csid] = g]
    <3>1. p.ttl = o.ttl
      BY <1>2 DEF Base, Objects
    <3>. QED  BY <2>2, <3>1 DEF AInv, TypeOK
  <2>5. Await(r, [store EXCEPT ![o.csid] = g], umap, p, p)
    BY <1>5, <2>4 DEF CloneTouch
  <2>. HIDE DEF p, g
  <2>. QED  BY <1>3, <2>1, <2>3, <2>5, ACloneStep
<1>6. CASE CloneSetNewId(r)
  <2>. DEFINE g == HSet(h, "newid", o.sid)
  <2>1. o.csid \in Sids => g \in Hashes /\ g.user = h.user
    BY <1>2, <1>3 DEF HSet, Hashes
  <2>2. Await(r, [store EXCEPT ![o.csid] = g], umap, Return(o, "true"), Return(o, "err"))
    BY <1>6 DEF CloneSetNewId, Write
  <2>. HIDE DEF g
  <2>. QED  BY <1>2, <1>3, <2>1, <2>2, ACloneStep DEF Rets
<1>. QED  BY <1>4, <1>5, <1>6

(* Every command of every call keeps the invariant. *)
LEMMA ACommand ==
  ASSUME AInv, NEW r \in Reqs, Command(r) \/ TryRenew(r)
  PROVE  AInv'
<1>1. CASE LoadUser(r) \/ SilentSet(r) \/ SilentGet(r) \/ SilentDel(r) \/ Touch(r)
  BY <1>1, ALoadUser, ASilent, ATouch
<1>2. CASE Raw(r) \/ Load(r) \/ MappingAdd(r) \/ MappingExpire(r)
  BY <1>2, ARaw, ALoad, AMapping
<1>3. CASE ClonedUnmapping(r) \/ ClonedDestroy(r) \/ Unmapping(r) \/ LogoutDel(r) \/ DestroyDel(r)
  BY <1>3, ACloned, AUnmapping, ADelete
<1>4. CASE AllSid(r) \/ FilterRemove(r) \/ \E s \in Sids : FilterExists(r, s) \/ SyncSet(r, s)
  BY <1>4, AAllSid, AFilterRemove, AFilterExists, ASyncSet
<1>5. CASE TryRenew(r)
  BY <1>5, AKeepTouch, AGetNewId, AJudge, ADelete, ACloneCommands DEF TryRenew
<1>. QED  BY <1>1, <1>2, <1>3, <1>4, <1>5 DEF Command

-----------------------------------------------------------------------------
(* The calls a handler makes *)

LEMMA ACall ==
  ASSUME AInv, NEW r \in Reqs, NEW op, NEW o, Call(r, op, o), Fit(o, owner, issued)
  PROVE  AInv'
BY AObjStep DEF Call, AInv, TypeOK

LEMMA BeginBase ==
  ASSUME AInv, NEW r \in Reqs, obj[r].pc = "ready", NEW op \in Calls
  PROVE  LET o == obj[r]
             b == Begin(o, op)
         IN  /\ b \in Objects /\ Anchored(b, issued) /\ b.op = op /\ b.user = o.user
             /\ b.sid = o.sid /\ b.todo = {} /\ b.kept = {}
             /\ o.op # "login" => Base(b, owner, issued)
<1>. DEFINE o == obj[r]
            b == Begin(o, op)
<1>1. o \in Objects /\ Sound(o, owner, issued) /\ Anchored(o, issued)
  BY Standing
<1>2. b \in Objects
  BY <1>1, Assigned DEF Begin, Rets
<1>3. /\ b.op = op /\ b.user = o.user /\ b.sid = o.sid /\ b.todo = o.todo /\ b.kept = o.kept
  BY <1>1 DEF Begin, Objects
<1>. HIDE DEF b
<1>4. Anchored(b, issued) /\ b.todo = {} /\ b.kept = {}
  BY <1>1, <1>3 DEF Anchored, Sound
<1>5. o.op # "login" => Base(b, owner, issued)
  BY <1>1, <1>2, <1>3, <1>4 DEF Base, Faithful, Sound
<1>. QED  BY <1>2, <1>3, <1>4, <1>5 DEF b

LEMMA ACallUser ==
  ASSUME AInv, NEW r \in Reqs, obj[r].op # "login", CallUser(r)
  PROVE  AInv'
<1>1. obj[r].pc = "ready"
  BY DEF CallUser, Call
<1>2. Base(Begin(obj[r], "user"), owner, issued)
  BY <1>1, BeginBase DEF Calls
<1>. QED  BY <1>2, UserFit, ACall DEF CallUser

(* Both calls that renew start from the clone of the session. *)
LEMMA ClonedFit ==
  ASSUME NEW o \in Objects, NEW own, NEW iss, Anchored(o, iss),
         NEW p \in Profiles \cup {Nil}, NEW t \in Nat
  PROVE  /\ Base(o, own, iss) => Fit(LogIn(o), own, iss)
         /\ LogIn(o).user = o.user /\ LogIn(o).op = o.op
         /\ o.op = "login" => Fit([LogIn(o) EXCEPT !.user = p, !.ttl = t], own, iss)
<1>. DEFINE a == [o EXCEPT !.csid = o.sid]
            b == [a EXCEPT !.cuser = o.user]
            l == [LogIn(o) EXCEPT !.user = p, !.ttl = t]
<1>1. o.sid \in Sids \cup {Nil} /\ o.user \in Profiles \cup {Nil}
  BY DEF Objects
<1>2. a \in Objects
  BY <1>1, Assigned
<1>3. a.sid = o.sid /\ a.user = o.user /\ a.op = o.op
  BY DEF Objects
<1>. HIDE DEF a
<1>4. b \in Objects
  BY <1>1, <1>2, Assigned
<1>5. b.sid = o.sid /\ b.user = o.user /\ b.op = o.op
  BY <1>2, <1>3 DEF Objects
<1>. HIDE DEF b
<1>6. LogIn(o) = [b EXCEPT !.pc = "raw"]
  BY DEF LogIn, a, b, Objects
<1>7. Base(o, own, iss) => Fit(LogIn(o), own, iss)
  <2>. SUFFICES ASSUME Base(o, own, iss)  PROVE Fit(LogIn(o), own, iss)
    OBVIOUS
  <2>1. Base(b, own, iss)
    BY <1>4, <1>5 DEF Base, Anchored, Faithful
  <2>. QED  BY <1>6, <2>1, MoveFit, PointsReached DEF Listing, Moved
<1>8. LogIn(o) \in Objects
  <2>1. "raw" \in Points
    BY PointsReached
  <2>2. [b EXCEPT !.pc = "raw"] \in Objects
    BY <1>4, <2>1, Assigned
  <2>. QED  BY <1>6, <2>2
<1>9. LogIn(o).user = o.user /\ LogIn(o).op = o.op /\ LogIn(o).pc = "raw" /\ LogIn(o).sid = o.sid
  BY <1>4, <1>5, <1>6 DEF Objects
<1>10. l \in Objects
  BY <1>8, Assigned
<1>11. l.op = o.op /\ l.pc = "raw" /\ l.sid = o.sid
  BY <1>8, <1>9 DEF Objects
<1>. HIDE DEF l
<1>12. o.op = "login" => Sound(l, own, iss)
  BY <1>11 DEF Sound, Anchored, Moved, Listing
<1>. QED  BY <1>7, <1>9, <1>10, <1>12 DEF Fit, l

LEMMA ACallRenewing ==
  ASSUME AInv, NEW r \in Reqs, obj[r].op # "login", CallAutoLogin(r) \/ CallTryRenew(r)
  PROVE  AInv'
<1>1. obj[r].pc = "ready"
  BY DEF CallAutoLogin, CallTryRenew, Call
<1>2. CASE CallAutoLogin(r)
  <2>. DEFINE b == Begin(obj[r], "autoLogin")
  <2>1. b \in Objects /\ Base(b, owner, issued) /\ Anchored(b, issued)
    BY <1>1, BeginBase DEF Calls
  <2>. HIDE DEF b
  <2>2. Fit(LogIn(b), owner, issued)
    BY <2>1, ClonedFit
  <2>. QED  BY <1>2, <2>2, ACall DEF CallAutoLogin, b
<1>3. CASE CallTryRenew(r)
  <2>. DEFINE o == Begin(obj[r], "tryRenew")
              since == clock - issued[o.sid].born - Interval
              m == IF since > Judgment THEN "judge" ELSE "young"
              a == [o EXCEPT !.mode = m]
  <2>1. o \in Objects /\ Base(o, owner, issued) /\ o.op = "tryRenew"
    BY <1>1, BeginBase DEF Calls
  <2>. HIDE DEF o
  <2>2. Fit(Keep(o), owner, issued)
    BY <2>1, KeepFit
  <2>3. m \in {"judge", "young"}
    OBVIOUS
  <2>4. [o EXCEPT !.pc = "newid", !.mode = m] = [a EXCEPT !.pc = "newid"]
    BY <2>1 DEF Objects
  <2>5. Call(r, "tryRenew", IF since < 0 THEN Keep(o) ELSE [a EXCEPT !.pc = "newid"])
    BY <1>3, <2>4 DEF CallTryRenew, o
  <2>. HIDE DEF m, since
  <2>6. a \in Objects
    BY <2>1, <2>3, RenewAssigned
  <2>7. a.sid = o.sid /\ a.user = o.user /\ a.op = o.op
    BY <2>1 DEF Objects
  <2>. HIDE DEF a
  <2>8. Base(a, owner, issued)
    BY <2>1, <2>6, <2>7 DEF Base, Anchored, Faithful
  <2>9. Fit([a EXCEPT !.pc = "newid"], owner, issued)
    BY <2>1, <2>7, <2>8, MoveFit, MorePoints DEF Listing
  <2>. QED  BY <2>2, <2>5, <2>9, ACall
<1>. QED  BY <1>2, <1>3

LEMMA ACallLogin ==
  ASSUME AInv, NEW r \in Reqs, NEW p \in Profiles, NEW t \in Ttls, CallLogin(r, p, t)
  PROVE  AInv'
<1>. DEFINE b == Begin(obj[r], "login")
<1>1. obj[r].pc = "ready" /\ t \in Nat
  BY Constants DEF CallLogin, Call
<1>2. b \in Objects /\ Anchored(b, issued) /\ b.op = "login"
  BY <1>1, BeginBase DEF Calls
<1>. HIDE DEF b
<1>3. Fit([LogIn(b) EXCEPT !.user = p, !.ttl = t], owner, issued)
  BY <1>1, <1>2, ClonedFit
<1>. QED  BY <1>3, ACall DEF CallLogin, b

LEMMA ACallSync ==
  ASSUME AInv, NEW r \in Reqs, NEW p \in Profiles, obj[r].op # "login", CallSync(r, p)
  PROVE  AInv'
<1>. DEFINE b == Begin(obj[r], "sync")
            a == [b EXCEPT !.arg = p]
<1>1. obj[r].pc = "ready"
  BY DEF CallSync, Call
<1>2. b \in Objects /\ Base(b, owner, issued) /\ b.op = "sync" /\ b.todo = {} /\ b.kept = {}
  BY <1>1, BeginBase DEF Calls
<1>3. [Begin(obj[r], "sync") EXCEPT !.arg = p, !.pc = "smembers"] = [a EXCEPT !.pc = "smembers"]
  BY <1>2 DEF Objects
<1>. HIDE DEF b
<1>4. a \in Objects
  BY <1>2, Assigned
<1>5. a.sid = b.sid /\ a.user = b.user /\ a.op = "sync" /\ a.arg = p /\ a.todo = {} /\ a.kept = {}
  BY <1>2 DEF Objects
<1>. HIDE DEF a
<1>6. Base(a, owner, issued)
  BY <1>2, <1>4, <1>5 DEF Base, Anchored, Faithful
<1>7. Fit([a EXCEPT !.pc = "smembers"], owner, issued)
  BY <1>5, <1>6, MoveFit, PointsReached
<1>. QED  BY <1>3, <1>7, ACall DEF CallSync

-----------------------------------------------------------------------------
(* What a command leaves of its call *)

(* A command keeps the call, unless try_renew turns to destroying, and     *)
(* only logout forgets the user.                                           *)
Keeps(o, p) ==
  /\ p.op \in {o.op, "condemn"}
  /\ o.op # "logout" /\ o.user # Nil => p.user # Nil

Same(o, p) == p.op = o.op /\ p.user = o.user

LEMMA HelpersKeep ==
  ASSUME NEW o \in Objects
  PROVE  /\ \A v : Same(o, Return(o, v))
         /\ Same(o, AfterRenew(o)) /\ Same(o, Unmap(o)) /\ Same(o, AfterUser(o))
         /\ Same(o, User(o)) /\ Same(o, AfterTouch(o)) /\ Same(o, TryTouch(o))
         /\ Same(o, Syncing(o)) /\ Same(o, Keep(o))
         /\ \A f : Same(o, DoClone(o, f))
         /\ \A n, raw : Same(o, Renewed(o, n, raw))
         /\ Same(o, LogIn(o))
<1>1. \A v : Same(o, Return(o, v))
  BY DEF Same, Return, Objects
<1>2. Same(o, AfterRenew(o))
  BY DEF Same, AfterRenew, Objects
<1>3. Same(o, Unmap(o))
  <2>1. \A pc : Same(o, [o EXCEPT !.pc = pc])
    BY DEF Same, Objects
  <2>. QED  BY <1>1, <2>1 DEF Unmap
<1>4. Same(o, AfterUser(o))
  <2>1. Same(o, [o EXCEPT !.pc = "sadd"])
    BY DEF Same, Objects
  <2>. QED  BY <1>1, <1>2, <1>3, <2>1 DEF AfterUser
<1>5. Same(o, User(o))
  <2>1. Same(o, [o EXCEPT !.pc = "user"])
    BY DEF Same, Objects
  <2>. QED  BY <1>4, <2>1 DEF User
<1>6. Same(o, AfterTouch(o))
  <2>1. Same(o, [o EXCEPT !.loaded = FALSE, !.pc = "user"])
    BY DEF Same, Objects
  <2>. QED  BY <1>1, <2>1 DEF AfterTouch
<1>7. Same(o, TryTouch(o))
  <2>1. Same(o, [o EXCEPT !.pc = "touch"])
    BY DEF Same, Objects
  <2>. QED  BY <1>6, <2>1 DEF TryTouch
<1>8. Same(o, Syncing(o))
  <2>1. \A pc : Same(o, [o EXCEPT !.pc = pc, !.cur = Nil])
    BY DEF Same, Objects
  <2>. QED  BY <1>1, <2>1 DEF Syncing
<1>9. Same(o, Keep(o))
  <2>1. Same(o, [o EXCEPT !.pc = "keep"])
    BY DEF Same, Objects
  <2>. QED  BY <1>1, <2>1 DEF Keep
<1>10. \A f : Same(o, DoClone(o, f))
  BY DEF Same, DoClone, Objects
<1>11. \A n, raw : Same(o, Renewed(o, n, raw))
  <2>. TAKE n, raw
  <2>. DEFINE f == [o EXCEPT !.sid = n, !.touches = "none"]
  <2>1. Same(o, [f EXCEPT !.raw = [raw EXCEPT !.ttl = 0], !.pc = "load"])
    BY DEF Same, Objects
  <2>2. Same(o, [f EXCEPT !.loaded = FALSE, !.pc = "user"])
    BY DEF Same, Objects
  <2>. QED  BY <2>1, <2>2 DEF Renewed
<1>12. Same(o, LogIn(o))
  BY DEF Same, LogIn, Objects
<1>. QED  BY <1>1, <1>2, <1>3, <1>4, <1>5, <1>6, <1>7, <1>8, <1>9, <1>10, <1>11, <1>12

(* What an await leaves of its object, in terms of its two outcomes. *)
LEMMA AwaitKeeps ==
  ASSUME AInv, NEW r \in Reqs, NEW st, NEW um, NEW good, NEW bad,
         Await(r, st, um, good, bad), Keeps(obj[r], good), Keeps(obj[r], bad)
  PROVE  Keeps(obj[r], obj'[r])
<1>1. obj' = [obj EXCEPT ![r] = good] \/ obj' = [obj EXCEPT ![r] = bad]
  BY DEF Await
<1>2. obj'[r] \in {good, bad}
  BY <1>1 DEF AInv, TypeOK
<1>. QED  BY <1>2

(* An object that differs from the call's own in other fields only. *)
LEMMA SameKeeps ==
  ASSUME NEW o \in Objects, NEW p \in Objects, Same(o, p)
  PROVE  /\ \A v : Keeps(o, Return(p, v))
         /\ Keeps(o, p) /\ Keeps(o, AfterRenew(p)) /\ Keeps(o, AfterTouch(p))
         /\ Keeps(o, TryTouch(p)) /\ Keeps(o, Syncing(p)) /\ Keeps(o, Keep(p))
         /\ Keeps(o, AfterUser(p))
BY HelpersKeep DEF Same, Keeps

LEMMA CommandKeeps ==
  ASSUME AInv, NEW r \in Reqs, Command(r) \/ TryRenew(r)
  PROVE  Keeps(obj[r], obj'[r])
<1>. DEFINE o == obj[r]
<1>1. o \in Objects
  BY DEF AInv, TypeOK
<1>2. /\ \A v : Keeps(o, Return(o, v))
      /\ Keeps(o, o) /\ Keeps(o, AfterRenew(o)) /\ Keeps(o, AfterTouch(o))
      /\ Keeps(o, TryTouch(o)) /\ Keeps(o, Syncing(o)) /\ Keeps(o, Keep(o))
      /\ Keeps(o, AfterUser(o))
  <2>1. Same(o, o)
    BY DEF Same
  <2>. QED  BY <1>1, <2>1, SameKeeps
<1>3. \A pc : Keeps(o, [o EXCEPT !.pc = pc])
  BY <1>1 DEF Keeps, Objects
<1>4. CASE LoadUser(r)
  <2>. DEFINE p == [o EXCEPT !.loaded = TRUE]
              u == store[p.sid].user
              f == [p EXCEPT !.user = u]
  <2>1. p \in Objects /\ Same(o, p)
    <3>1. p \in Objects
      BY <1>1, Assigned
    <3>2. Same(o, p)
      BY <1>1 DEF Same, Objects
    <3>. QED  BY <3>1, <3>2
  <2>2. Keeps(o, AfterUser(p))
    BY <1>1, <2>1, SameKeeps
  <2>3. p.sid \in Sids
    <3>1. o.sid \in Sids
      BY <1>4, Standing DEF LoadUser, At
    <3>. QED  BY <1>1, <3>1 DEF Objects
  <2>4. u \in Profiles \cup {Nil}
    BY <2>3 DEF AInv, TypeOK, Hashes
  <2>5. Ask(r, AfterUser(IF u = Nil THEN p ELSE f), AfterUser(p))
    BY <1>4 DEF LoadUser
  <2>. HIDE DEF p, u
  <2>6. u # Nil => Keeps(o, AfterUser(f))
    <3>0. f \in Objects
      BY <2>1, <2>4, Assigned
    <3>1. f \in Objects /\ f.op = p.op /\ f.user = u
      BY <2>1, <3>0 DEF Objects
    <3>2. Same(f, AfterUser(f))
      BY <3>1, HelpersKeep
    <3>. QED  BY <2>1, <3>1, <3>2 DEF Same, Keeps
  <2>. DEFINE good == AfterUser(IF u = Nil THEN p ELSE f)
  <2>7. Keeps(o, good)
    BY <2>2, <2>6
  <2>8. Await(r, store, umap, good, AfterUser(p))
    BY <2>5 DEF Ask
  <2>. HIDE DEF good
  <2>. QED  BY <2>2, <2>7, <2>8, AwaitKeeps
<1>5. CASE SilentSet(r) \/ SilentGet(r) \/ SilentDel(r)
  BY <1>2, <1>5, AwaitKeeps DEF SilentSet, SilentGet, SilentDel, Write, Ask
<1>6. CASE Touch(r) \/ KeepTouch(r)
  <2>. DEFINE b == Bool(Exists(store[o.sid]))
              p == [o EXCEPT !.touches = b]
  <2>1. p \in Objects /\ Same(o, p)
    <3>1. p \in Objects
      BY <1>1, BoolType, Assigned
    <3>2. Same(o, p)
      BY <1>1, BoolType DEF Same, Objects
    <3>. QED  BY <3>1, <3>2
  <2>2. Keeps(o, AfterTouch(p)) /\ Keeps(o, Return(p, "false"))
    BY <1>1, <2>1, SameKeeps
  <2>. QED  BY <1>2, <1>6, <2>2, AwaitKeeps DEF Touch, KeepTouch, Write
<1>7. CASE Raw(r)
  <2>1. obj' \in {[obj EXCEPT ![r] = Return(o, "err")],
                  [obj EXCEPT ![r] = Return([o EXCEPT !.touches = "none"], "err")]}
        \/ \E n, raw : obj' = [obj EXCEPT ![r] = Renewed(o, n, raw)]
    BY <1>7 DEF Raw
  <2>2. Keeps(o, Return([o EXCEPT !.touches = "none"], "err"))
    <3>. DEFINE p == [o EXCEPT !.touches = "none"]
    <3>1. p \in Objects /\ Same(o, p)
      <4>1. p \in Objects
        BY <1>1, Assigned
      <4>2. Same(o, p)
        BY <1>1 DEF Same, Objects
      <4>. QED  BY <4>1, <4>2
    <3>. QED  BY <1>1, <3>1, SameKeeps
  <2>3. \A n, raw : Keeps(o, Renewed(o, n, raw))
    BY <1>1, HelpersKeep DEF Same, Keeps
  <2>4. \A p : obj' = [obj EXCEPT ![r] = p] => obj'[r] = p
    BY DEF AInv, TypeOK
  <2>. QED  BY <1>2, <2>1, <2>2, <2>3, <2>4
<1>8. CASE Load(r)
  <2>. DEFINE p == [o EXCEPT !.raw = Missing]
  <2>1. p \in Objects /\ Same(o, p)
    <3>1. p \in Objects
      BY <1>1, MissingType, Assigned
    <3>2. Same(o, p)
      BY <1>1, MissingType DEF Same, Objects
    <3>. QED  BY <3>1, <3>2
  <2>2. Keeps(o, TryTouch(p))
    BY <1>1, <2>1, SameKeeps
  <2>. QED  BY <1>2, <1>8, <2>2, AwaitKeeps DEF Load, Write
<1>9. CASE MappingAdd(r) \/ MappingExpire(r) \/ ClonedUnmapping(r) \/ ClonedDestroy(r)
  BY <1>2, <1>3, <1>9, AwaitKeeps
  DEF MappingAdd, MappingExpire, ClonedUnmapping, ClonedDestroy, Write
<1>10. CASE Unmapping(r)
  <2>. DEFINE um == [umap EXCEPT ![o.user.uid] = SRem(@, o.sid)]
              good == IF o.op = "logout" THEN [o EXCEPT !.user = Nil, !.pc = "userdel"]
                                         ELSE [o EXCEPT !.pc = "destroydel"]
  <2>1. Await(r, store, um, good, Return(o, "err"))
    BY <1>10 DEF Unmapping
  <2>2. Keeps(o, good)
    BY <1>1, <1>3 DEF Keeps, Objects
  <2>. HIDE DEF um, good
  <2>. QED  BY <1>2, <2>1, <2>2, AwaitKeeps
<1>11. CASE LogoutDel(r) \/ DestroyDel(r) \/ CondemnedDel(r)
  BY <1>2, <1>11, AwaitKeeps DEF LogoutDel, DestroyDel, CondemnedDel, Write
<1>12. CASE AllSid(r) \/ FilterRemove(r) \/ \E s \in Sids : FilterExists(r, s) \/ SyncSet(r, s)
  <2>1. \A p : p \in Objects /\ Same(o, p) =>
          /\ Keeps(o, Syncing(p)) /\ Keeps(o, Return(p, "err"))
          /\ \A s : Keeps(o, [p EXCEPT !.cur = s, !.pc = "filtersrem"])
    <3>1. \A p : p \in Objects /\ Same(o, p) =>
            \A s : Keeps(o, [p EXCEPT !.cur = s, !.pc = "filtersrem"])
      BY DEF Same, Keeps, Objects
    <3>. QED  BY <1>1, <3>1, SameKeeps
  <2>2. CASE AllSid(r)
    <3>. DEFINE p == [o EXCEPT !.todo = umap[o.arg.uid].sids]
    <3>1. p \in Objects /\ Same(o, p)
      <4>1. o.arg \in Profiles
        BY <2>2, ASyncing DEF AllSid, At, Listing
      <4>2. umap[o.arg.uid].sids \in SUBSET Sids
        BY <4>1, Constants DEF AInv, TypeOK
      <4>3. p \in Objects
        BY <1>1, <4>2, Assigned
      <4>4. Same(o, p)
        BY <1>1 DEF Same, Objects
      <4>. QED  BY <4>3, <4>4
    <3>2. Ask(r, Syncing(p), Return(o, "err"))
      BY <2>2 DEF AllSid
    <3>. HIDE DEF p
    <3>. QED  BY <1>2, <2>1, <3>1, <3>2, AwaitKeeps DEF Ask
  <2>3. CASE FilterRemove(r)
    BY <1>2, <2>3, AwaitKeeps DEF FilterRemove
  <2>4. ASSUME NEW s \in Sids, FilterExists(r, s)
        PROVE  Keeps(o, obj'[r])
    <3>. DEFINE p == [o EXCEPT !.todo = o.todo \ {s}]
                k == [p EXCEPT !.kept = p.kept \cup {s}]
                good == IF Exists(store[s]) THEN Syncing(k)
                                            ELSE [p EXCEPT !.cur = s, !.pc = "filtersrem"]
    <3>1. p \in Objects /\ Same(o, p) /\ p.kept \in SUBSET Sids
      <4>0. o.todo \ {s} \in SUBSET Sids /\ o.kept \in SUBSET Sids /\ p.kept = o.kept
        BY <1>1 DEF Objects
      <4>1. p \in Objects /\ p.kept \in SUBSET Sids
        BY <1>1, <4>0, Assigned
      <4>2. Same(o, p)
        BY <1>1 DEF Same, Objects
      <4>. QED  BY <4>1, <4>2
    <3>2. Ask(r, good, Return(p, "err"))
      BY <1>1, <2>4 DEF FilterExists
    <3>. HIDE DEF p
    <3>3. k \in Objects /\ Same(o, k)
      <4>1. k \in Objects
        BY <3>1, Assigned
      <4>2. Same(o, k)
        BY <3>1 DEF Same, Objects
      <4>. QED  BY <4>1, <4>2
    <3>. HIDE DEF k
    <3>4. Keeps(o, good)
      BY <2>1, <3>1, <3>3
    <3>. HIDE DEF good
    <3>. QED  BY <2>1, <3>1, <3>2, <3>4, AwaitKeeps DEF Ask
  <2>5. ASSUME NEW s \in Sids, SyncSet(r, s)
        PROVE  Keeps(o, obj'[r])
    <3>. DEFINE p == [o EXCEPT !.kept = o.kept \ {s}]
    <3>1. p \in Objects /\ Same(o, p)
      <4>0. o.kept \ {s} \in SUBSET Sids
        BY <1>1 DEF Objects
      <4>1. p \in Objects
        BY <1>1, <4>0, Assigned
      <4>2. Same(o, p)
        BY <1>1 DEF Same, Objects
      <4>. QED  BY <4>1, <4>2
    <3>2. Await(r, [store EXCEPT ![s] = HSet(store[s], "user", o.arg)], umap, Syncing(p), Return(o, "err"))
      BY <1>1, <2>5 DEF SyncSet, Write
    <3>. HIDE DEF p
    <3>. QED  BY <1>2, <2>1, <3>1, <3>2, AwaitKeeps
  <2>. QED  BY <1>12, <2>2, <2>3, <2>4, <2>5
<1>13. CASE GetNewId(r)
  <2>. DEFINE n == store[o.sid].newid
              good == CASE n = Nil                   -> DoClone(o, "none")
                        [] n # Nil /\ o.mode = "judge" -> [o EXCEPT !.csid = n, !.cuser = Nil, !.pc = "newttl"]
                        [] OTHER                     -> Keep(o)
  <2>1. Keeps(o, DoClone(o, "none"))
    BY <1>1, HelpersKeep DEF Same, Keeps
  <2>2. Ask(r, good, DoClone(o, "none"))
    BY <1>13 DEF GetNewId
  <2>. HIDE DEF n
  <2>3. Keeps(o, [o EXCEPT !.csid = n, !.cuser = Nil, !.pc = "newttl"])
    BY <1>1 DEF Keeps, Objects
  <2>4. Keeps(o, good)
    BY <1>2, <2>1, <2>3
  <2>. HIDE DEF good
  <2>. QED  BY <2>1, <2>2, <2>4, AwaitKeeps DEF Ask
<1>14. CASE NewTtl(r) \/ OldTtl(r)
  <2>1. \A t, pc : Keeps(o, [o EXCEPT !.tp = t, !.pc = pc])
    BY <1>1 DEF Keeps, Objects
  <2>2. Keeps(o, Condemn(o))
    <3>. DEFINE a == [o EXCEPT !.op = "condemn"]
                b == [a EXCEPT !.tp = 0]
    <3>1. a \in Objects
      BY <1>1, Assigned DEF Calls
    <3>2. a.op = "condemn" /\ a.user = o.user
      BY <1>1 DEF Objects
    <3>. HIDE DEF a
    <3>3. b \in Objects
      BY <3>1, RenewAssigned
    <3>4. b.op = "condemn" /\ b.user = o.user
      BY <3>1, <3>2 DEF Objects
    <3>. HIDE DEF b
    <3>5. Same(b, User(b))
      BY <3>3, HelpersKeep
    <3>6. Condemn(o) = User(b)
      BY <1>1 DEF Condemn, a, b, Objects
    <3>. QED  BY <3>4, <3>5, <3>6 DEF Same, Keeps
  <2>3. CASE NewTtl(r)
    <3>. DEFINE t == Passed(o, o.csid)
                c == store[o.csid].ttl > 0 /\ t < Inactive
                good == IF c THEN [o EXCEPT !.tp = t, !.pc = "oldttl"] ELSE [o EXCEPT !.pc = "cdel"]
    <3>1. Ask(r, good, [o EXCEPT !.pc = "cdel"])
      BY <2>3 DEF NewTtl
    <3>. HIDE DEF t, c
    <3>2. Keeps(o, good)
      BY <1>3, <2>1
    <3>. HIDE DEF good
    <3>. QED  BY <1>3, <3>1, <3>2, AwaitKeeps DEF Ask
  <2>4. CASE OldTtl(r)
    <3>. DEFINE c == store[o.sid].ttl > 0 /\ o.tp >= Passed(o, o.sid)
                good == IF c THEN [o EXCEPT !.tp = 0, !.pc = "cdel"] ELSE Condemn(o)
    <3>1. Ask(r, good, Condemn(o))
      BY <2>4 DEF OldTtl
    <3>. HIDE DEF c
    <3>2. Keeps(o, good)
      BY <2>1, <2>2
    <3>. HIDE DEF good
    <3>. QED  BY <2>2, <3>1, <3>2, AwaitKeeps DEF Ask
  <2>. QED  BY <1>14, <2>3, <2>4
<1>15. CASE DropNewer(r) \/ CloneTouch(r) \/ CloneSetNewId(r)
  <2>1. Keeps(o, DoClone(o, "drop"))
    BY <1>1, HelpersKeep DEF Same, Keeps
  <2>. QED  BY <1>2, <1>3, <1>15, <2>1, AwaitKeeps DEF DropNewer, CloneTouch, CloneSetNewId, Write
<1>. QED  BY <1>4, <1>5, <1>6, <1>7, <1>8, <1>9, <1>10, <1>11, <1>12, <1>13, <1>14, <1>15
     DEF Command, TryRenew

-----------------------------------------------------------------------------
(* Renewing without log_in in between, for any number of requests *)

(* What a key promises: it lives as long as its id, and the id logged in   *)
(* it is that of another session.                                          *)
Key(h, s, iss, now) ==
  /\ h.ttl > 0 => Exists(h) /\ now + h.ttl >= iss[s].born + iss[s].ttl
  /\ h.newid # Nil => h.newid # s /\ iss[h.newid] # Nil
  /\ iss[s] = Nil => h = Missing

Keys(st, iss, now) == \A s \in Sids : Key(st[s], s, iss, now)

Stamped(iss, now) == \A s \in Sids : iss[s] # Nil => iss[s].born <= now

(***************************************************************************)
(* Any state between requests: sessions of any users that have logged in   *)
(* before, some of them renewed, and indices that list their own users'.   *)
(***************************************************************************)
RenewStart ==
  /\ TypeOK
  /\ StoreOwned(store, owner)
  /\ IndexOwned(umap, owner)
  /\ \A s \in Sids : issued[s] = Nil => owner[s] = Nil
  /\ Keys(store, issued, clock) /\ Stamped(issued, clock)
  /\ \A r \in Reqs : obj[r] = Closed

(* The calls of Ops, and the destroy that ends a judgment. *)
Explored(o) == o.op \in Ops \cup {"none", "condemn"}

CInv == AInv /\ \A r \in Reqs : Explored(obj[r])

(* The empty store of UserSession is such a state. *)
LEMMA InitIsStart == Init => RenewStart
<1>. SUFFICES ASSUME Init  PROVE RenewStart
  OBVIOUS
<1>1. IInv
  BY InitIInv
<1>2. Keys(store, issued, clock)
  BY DEF Init, Keys, Key, Missing, Exists
<1>3. Stamped(issued, clock)
  <2>. SUFFICES ASSUME NEW s \in Sids, issued[s] # Nil  PROVE issued[s].born <= clock
    BY DEF Stamped
  <2>1. issued[s] \in [ttl : Ttls, born : {0}]
    BY DEF Init
  <2>. QED  BY <2>1 DEF Init
<1>. QED  BY <1>1, <1>2, <1>3 DEF IInv, RenewStart, Init

LEMMA StartCInv == RenewStart => CInv
<1>. SUFFICES ASSUME RenewStart  PROVE CInv
  OBVIOUS
<1>1. AInv
  BY AClosedFit DEF RenewStart, AInv, Fit
<1>2. Closed.op = "none"
  BY DEF Closed, Object
<1>. QED  BY <1>1, <1>2 DEF RenewStart, CInv, Explored

LEMMA ATick == ASSUME AInv, Tick  PROVE AInv'
<1>1. \A s \in Sids : store'[s] \in Hashes /\ store'[s].user \in {Nil, store[s].user}
  BY HashTypes DEF Tick, AInv, TypeOK
<1>2. \A u \in Uids : /\ umap'[u] \in [sids : SUBSET Sids, ttl : Nat]
                      /\ umap'[u].sids \subseteq umap[u].sids
  BY IndexTypes DEF Tick, AInv, TypeOK
<1>3. TypeOK'
  BY <1>1, <1>2 DEF Tick, AInv, TypeOK, Fresh
<1>4. StoreOwned(store', owner') /\ IndexOwned(umap', owner')
  BY <1>1, <1>2 DEF Tick, AInv, StoreOwned, IndexOwned
<1>. QED  BY <1>3, <1>4 DEF AInv, Tick

(* The calls that UserSession offers, log_in excepted. *)
LEMMA AAnyCall ==
  ASSUME AInv, NEW r \in Reqs, obj[r].op # "login", "login" \notin Ops, AnyCall(r)
  PROVE  AInv'
<1>. DEFINE o == obj[r]
<1>1. o.pc = "ready"
  BY DEF AnyCall, CallUser, CallGet, CallDel, CallTouch, CallLogout, CallDestroy,
         CallAutoLogin, CallLogin, CallSet, CallSync, Call
<1>2. \A op \in Calls : Base(Begin(o, op), owner, issued) /\ Begin(o, op).op = op
  BY <1>1, BeginBase
<1>3. CASE CallUser(r) \/ CallLogout(r) \/ CallDestroy(r)
  <2>1. \A op \in {"user", "logout", "destroy"} : Fit(User(Begin(o, op)), owner, issued)
    BY <1>2, UserFit DEF Calls
  <2>. QED  BY <1>3, <2>1, ACall DEF CallUser, CallLogout, CallDestroy
<1>4. CASE CallGet(r) \/ CallDel(r)
  <2>1. \A op \in {"get", "del"} : Fit([Begin(o, op) EXCEPT !.pc = op], owner, issued)
    <3>. TAKE op \in {"get", "del"}
    <3>1. op \in Calls /\ op \in Points
      BY DEF Calls, Points
    <3>2. Base(Begin(o, op), owner, issued) /\ Begin(o, op).op = op
      BY <1>2, <3>1
    <3>. HIDE DEF o
    <3>. DEFINE b == Begin(o, op)
    <3>. HIDE DEF b
    <3>3. Fit([b EXCEPT !.pc = op], owner, issued)
      BY <3>1, <3>2, MoveFit DEF Listing, b
    <3>. QED  BY <3>3 DEF b
  <2>. QED  BY <1>4, <2>1, ACall DEF CallGet, CallDel
<1>5. CASE CallTouch(r)
  <2>1. Fit(TryTouch(Begin(o, "touch")), owner, issued)
    BY <1>2, TryTouchFit DEF Calls
  <2>. QED  BY <1>5, <2>1, ACall DEF CallTouch
<1>6. ASSUME NEW d \in Datas, CallSet(r, d)
      PROVE  AInv'
  <2>. DEFINE b == Begin(o, "set")
              a == [b EXCEPT !.arg = d]
  <2>1. Base(b, owner, issued) /\ b.op = "set"
    BY <1>2 DEF Calls
  <2>2. [Begin(o, "set") EXCEPT !.arg = d, !.pc = "set"] = [a EXCEPT !.pc = "set"]
    BY <2>1 DEF Base, Objects
  <2>. HIDE DEF b
  <2>3. a \in Objects
    BY <2>1, Assigned DEF Base
  <2>4. a.sid = b.sid /\ a.user = b.user /\ a.op = "set" /\ a.arg = d
    BY <2>1 DEF Base, Objects
  <2>. HIDE DEF a
  <2>5. Base(a, owner, issued)
    BY <2>1, <2>3, <2>4 DEF Base, Anchored, Faithful
  <2>6. Fit([a EXCEPT !.pc = "set"], owner, issued)
    BY <2>4, <2>5, MoveFit, PointsReached DEF Listing
  <2>. QED  BY <1>6, <2>2, <2>6, ACall DEF CallSet
<1>7. CASE CallAutoLogin(r)
  BY <1>7, ACallRenewing
<1>8. ASSUME NEW p \in Profiles, CallSync(r, p)
      PROVE  AInv'
  BY <1>8, ACallSync
<1>9. \A p \in Profiles, t \in Ttls : ~ CallLogin(r, p, t)
  BY DEF CallLogin, Call
<1>. QED  BY <1>3, <1>4, <1>5, <1>6, <1>7, <1>8, <1>9 DEF AnyCall

LEMMA ARequest ==
  ASSUME AInv, NEW r \in Reqs, obj[r].op # "login", "login" \notin Ops, Request(r)
  PROVE  AInv'
<1>1. CASE Close(r)
  <2>1. obj[r].pc # "closed" /\ known' \subseteq known \cup {obj[r].sid} /\ faults' = faults
    BY <1>1 DEF Close
  <2>2. obj[r].sid \in Sids /\ issued[obj[r].sid] # Nil
    BY <2>1, Standing DEF Anchored
  <2>3. known' \subseteq Sids \ Fresh /\ faults' \in Nat
    BY <2>1, <2>2 DEF AInv, TypeOK, Fresh
  <2>. QED  BY <1>1, <2>3, AClosedFit, AObjStep DEF Close
<1>2. CASE Drop(r)
  <2>1. known' \subseteq Sids \ Fresh /\ faults' \in Nat
    BY <1>2 DEF Drop, AInv, TypeOK
  <2>. QED  BY <1>2, <2>1, AClosedFit, AObjStep DEF Drop
<1>3. CASE AnyCall(r)
  BY <1>3, AAnyCall
<1>4. CASE Command(r)
  BY <1>4, ACommand
<1>5. ASSUME NEW s \in Sids, OpenWith(r, s)
      PROVE  AInv'
  BY <1>5, AOpenWith
<1>6. ASSUME NEW s \in Sids, NEW t \in Ttls, OpenNew(r, s, t)
      PROVE  AInv'
  BY <1>6, AOpenNew
<1>. QED  BY <1>1, <1>2, <1>3, <1>4, <1>5, <1>6 DEF Request

(* A command assigns the object of its own request only. *)
LEMMA CommandsObject ==
  ASSUME NEW r \in Reqs, Command(r) \/ TryRenew(r)
  PROVE  \E o : obj' = [obj EXCEPT ![r] = o]
<1>1. CASE Command(r)
  BY <1>1 DEF Command, LoadUser, SilentSet, SilentGet, SilentDel, Touch, Raw, Load, MappingAdd,
       MappingExpire, ClonedUnmapping, ClonedDestroy, Unmapping, LogoutDel, DestroyDel,
       AllSid, FilterRemove, FilterExists, SyncSet, Ask, Write, Await
<1>2. CASE TryRenew(r)
  BY <1>2 DEF TryRenew, KeepTouch, GetNewId, NewTtl, OldTtl, CondemnedDel, DropNewer,
       CloneTouch, CloneSetNewId, Ask, Write, Await
<1>. QED  BY <1>1, <1>2

(* A call that starts is one of Ops. *)
LEMMA CallExplored ==
  ASSUME AInv, NEW r \in Reqs, AnyCall(r) \/ CallTryRenew(r)
  PROVE  /\ obj'[r].op \in Ops
         /\ \A q \in Reqs \ {r} : obj'[q] = obj[q]
<1>. DEFINE b(op) == Begin(obj[r], op)
<1>1. obj[r].pc = "ready"
  BY DEF AnyCall, CallUser, CallGet, CallDel, CallTouch, CallLogout, CallDestroy,
         CallAutoLogin, CallLogin, CallSet, CallSync, CallTryRenew, Call
<1>2. \A op \in Calls : b(op) \in Objects /\ b(op).op = op
  BY <1>1, BeginBase
<1>3. \A op, o : Call(r, op, o) => /\ obj'[r] = o /\ op \in Ops
                                   /\ \A q \in Reqs \ {r} : obj'[q] = obj[q]
  BY DEF Call, AInv, TypeOK
<1>. HIDE DEF b
<1>4. \A op \in Calls :
        /\ User(b(op)).op = op /\ TryTouch(b(op)).op = op /\ LogIn(b(op)).op = op
        /\ Keep(b(op)).op = op
  BY <1>2, HelpersKeep DEF Same
<1>5. \A op \in Calls :
        /\ \A pc : [b(op) EXCEPT !.pc = pc].op = op
        /\ \A p, pc : [b(op) EXCEPT !.arg = p, !.pc = pc].op = op
        /\ \A pc, m : [b(op) EXCEPT !.pc = pc, !.mode = m].op = op
  BY <1>2 DEF Objects
<1>6. \A p, t : [LogIn(b("login")) EXCEPT !.user = p, !.ttl = t].op = "login"
  <2>1. b("login") \in Objects
    BY <1>2 DEF Calls
  <2>. QED  BY <1>2, <2>1 DEF LogIn, Objects, Calls
<1>7. CASE CallUser(r) \/ CallLogout(r) \/ CallDestroy(r) \/ CallTouch(r)
  BY <1>3, <1>4, <1>7 DEF CallUser, CallLogout, CallDestroy, CallTouch, Calls, b
<1>8. CASE CallGet(r) \/ CallDel(r) \/ (\E d \in Datas : CallSet(r, d)) \/ \E p \in Profiles : CallSync(r, p)
  <2>1. CASE CallGet(r) \/ CallDel(r)
    <3>1. \A op \in {"get", "del"} : [b(op) EXCEPT !.pc = op].op = op
      BY <1>5 DEF Calls
    <3>. QED  BY <1>3, <2>1, <3>1 DEF CallGet, CallDel, b
  <2>2. ASSUME NEW d \in Datas, CallSet(r, d)
        PROVE  obj'[r].op \in Ops /\ \A q \in Reqs \ {r} : obj'[q] = obj[q]
    <3>1. Call(r, "set", [b("set") EXCEPT !.arg = d, !.pc = "set"])
      BY <2>2 DEF CallSet, b
    <3>2. [b("set") EXCEPT !.arg = d, !.pc = "set"].op = "set"
      BY <1>5 DEF Calls
    <3>. QED  BY <1>3, <3>1, <3>2
  <2>3. ASSUME NEW p \in Profiles, CallSync(r, p)
        PROVE  obj'[r].op \in Ops /\ \A q \in Reqs \ {r} : obj'[q] = obj[q]
    <3>1. Call(r, "sync", [b("sync") EXCEPT !.arg = p, !.pc = "smembers"])
      BY <2>3 DEF CallSync, b
    <3>2. [b("sync") EXCEPT !.arg = p, !.pc = "smembers"].op = "sync"
      BY <1>5 DEF Calls
    <3>. QED  BY <1>3, <3>1, <3>2
  <2>. QED  BY <1>8, <2>1, <2>2, <2>3
<1>9. CASE CallAutoLogin(r) \/ \E p \in Profiles, t \in Ttls : CallLogin(r, p, t)
  <2>1. CASE CallAutoLogin(r)
    <3>1. LogIn(b("autoLogin")).op = "autoLogin"
      BY <1>4 DEF Calls
    <3>. QED  BY <1>3, <2>1, <3>1 DEF CallAutoLogin, b
  <2>2. ASSUME NEW p \in Profiles, NEW t \in Ttls, CallLogin(r, p, t)
        PROVE  obj'[r].op \in Ops /\ \A q \in Reqs \ {r} : obj'[q] = obj[q]
    <3>1. Call(r, "login", [LogIn(b("login")) EXCEPT !.user = p, !.ttl = t])
      BY <2>2 DEF CallLogin, b
    <3>2. [LogIn(b("login")) EXCEPT !.user = p, !.ttl = t].op = "login"
      BY <1>6
    <3>. QED  BY <1>3, <3>1, <3>2
  <2>. QED  BY <1>9, <2>1, <2>2
<1>10. CASE CallTryRenew(r)
  <2>. DEFINE o == b("tryRenew")
              since == clock - issued[o.sid].born - Interval
              m == IF since > Judgment THEN "judge" ELSE "young"
              c == IF since < 0 THEN Keep(o) ELSE [o EXCEPT !.pc = "newid", !.mode = m]
  <2>1. Call(r, "tryRenew", c)
    BY <1>10 DEF CallTryRenew, b
  <2>2. Keep(o).op = "tryRenew" /\ [o EXCEPT !.pc = "newid", !.mode = m].op = "tryRenew"
    BY <1>4, <1>5 DEF Calls
  <2>. HIDE DEF o, since, m
  <2>3. c.op = "tryRenew"
    BY <2>2
  <2>. HIDE DEF c
  <2>. QED  BY <1>3, <2>1, <2>3
<1>. QED  BY <1>7, <1>8, <1>9, <1>10 DEF AnyCall

(* Every step keeps CInv when Ops has no log_in. *)
LEMMA NextCInv == "login" \notin Ops /\ CInv /\ [RenewNext]_vars => CInv'
<1>. SUFFICES ASSUME "login" \notin Ops, CInv, [RenewNext]_vars  PROVE CInv'
  OBVIOUS
<1>1. AInv /\ \A r \in Reqs : Explored(obj[r]) /\ obj[r].op # "login"
  BY DEF CInv, Explored
<1>2. ASSUME NEW r \in Reqs, AInv', Explored(obj'[r]), \A q \in Reqs \ {r} : obj'[q] = obj[q]
      PROVE  CInv'
  BY <1>1, <1>2 DEF CInv
<1>3. CASE UNCHANGED vars
  BY <1>3 DEF vars, CInv, AInv, TypeOK, Fresh, Explored
<1>4. CASE Tick
  <2>1. AInv' /\ obj' = obj
    BY <1>1, <1>4, ATick DEF Tick
  <2>. QED  BY <2>1 DEF CInv
<1>5. ASSUME NEW r \in Reqs, AnyCall(r) \/ CallTryRenew(r)
      PROVE  CInv'
  <2>1. AInv'
    BY <1>1, <1>5, AAnyCall, ACallRenewing
  <2>. QED  BY <1>1, <1>2, <1>5, <2>1, CallExplored DEF Explored
<1>6. ASSUME NEW r \in Reqs, Command(r) \/ TryRenew(r)
      PROVE  CInv'
  <2>1. AInv' /\ Keeps(obj[r], obj'[r])
    BY <1>1, <1>6, ACommand, CommandKeeps
  <2>2. \E o : obj' = [obj EXCEPT ![r] = o]
    BY <1>6, CommandsObject
  <2>3. \A q \in Reqs \ {r} : obj'[q] = obj[q]
    BY <1>1, <2>2 DEF AInv, TypeOK
  <2>. QED  BY <1>1, <1>2, <2>1, <2>3 DEF Explored, Keeps
<1>7. ASSUME NEW r \in Reqs, Close(r) \/ Drop(r) \/ (\E s \in Sids : OpenWith(r, s))
                             \/ \E s \in Sids, t \in Ttls : OpenNew(r, s, t)
      PROVE  CInv'
  <2>1. AInv'
    BY <1>1, <1>7, ARequest DEF Request
  <2>2. PICK o : obj' = [obj EXCEPT ![r] = o] /\ o.op = "none"
    <3>1. Closed.op = "none" /\ \A s, t : Object(s, t).op = "none"
      BY DEF Closed, Object
    <3>. QED  BY <1>7, <3>1 DEF Close, Drop, OpenWith, OpenNew
  <2>3. obj'[r] = o /\ \A q \in Reqs \ {r} : obj'[q] = obj[q]
    BY <1>1, <2>2 DEF AInv, TypeOK
  <2>. QED  BY <1>1, <1>2, <2>1, <2>2, <2>3 DEF Explored
<1>. QED  BY <1>3, <1>4, <1>5, <1>6, <1>7 DEF RenewNext, Next, Request

(* Every reachable state satisfies the invariant. *)
THEOREM RenewInvariance ==
  ASSUME "login" \notin Ops
  PROVE  RenewStart /\ [][RenewNext]_vars => []CInv
BY StartCInv, NextCInv, PTL

(***************************************************************************)
(* Calls of try_renew, whatever they overlap with except log_in, keep the  *)
(* values in Redis and in the objects to their types; ttl_passed, a u32    *)
(* that wraps, included (auto.rs).                                         *)
(***************************************************************************)
THEOREM RenewTypes ==
  ASSUME "login" \notin Ops
  PROVE  RenewStart /\ [][RenewNext]_vars => []TypeOK
<1>1. CInv => TypeOK
  BY DEF CInv, AInv
<1>. QED  BY <1>1, RenewInvariance, PTL

(***************************************************************************)
(* A clone is listed for the user of the session it was cloned from, so    *)
(* that no index lists a session of another user, sync included (do_clone, *)
(* user::renew).  log_in is left to SessionApp: on an object whose login   *)
(* failed, try_renew lists the clone for the user that did not get in.     *)
(***************************************************************************)
THEOREM RenewIdentity ==
  ASSUME "login" \notin Ops
  PROVE  RenewStart /\ [][RenewNext]_vars => []OneIdentity
<1>1. CInv => OneIdentity
  BY DEF CInv, AInv, OneIdentity, StoreOwned, IndexOwned, Owned, Login
<1>. QED  BY <1>1, RenewInvariance, PTL

-----------------------------------------------------------------------------
(* One request at a time: the keys *)

Issues == [Sids -> [ttl : Nat, born : Nat] \cup {Nil}]

LEMMA IssueTypes ==
  ASSUME NEW iss \in Issues, NEW s \in Sids, iss[s] # Nil
  PROVE  iss[s] \in [ttl : Nat, born : Nat] /\ iss[s].ttl \in Nat /\ iss[s].born \in Nat
<1>1. iss[s] \in [ttl : Nat, born : Nat]
  BY DEF Issues
<1>. QED  BY <1>1

LEMMA ExistsIs ==
  \A h : Exists(h) <=> h.user # Nil \/ h.data # Nil \/ h.newid # Nil \/ h.server # Nil
BY DEF Exists, Fields

LEMMA MissingKey ==
  ASSUME NEW s, NEW iss, NEW now
  PROVE  Key(Missing, s, iss, now) /\ Missing.newid = Nil /\ Missing.ttl = 0
BY DEF Key, Missing

(* The key of a generated id stays one under every command the library     *)
(* sends to it; only HSET of a new id and HMSET touch what it has logged.  *)
LEMMA KeyOps ==
  ASSUME NEW h \in Hashes, NEW s \in Sids, NEW iss \in Issues, NEW now \in Nat,
         Key(h, s, iss, now), iss[s] # Nil, iss[s].born <= now
  PROVE  /\ \A d \in Datas : Key(HSet(h, "data", d), s, iss, now)
         /\ \A p \in Profiles : Key(HSet(h, "user", p), s, iss, now)
         /\ \A n \in Sids \ {s} : iss[n] # Nil => Key(HSet(h, "newid", n), s, iss, now)
         /\ Key(HDel(h, "data"), s, iss, now) /\ Key(HDel(h, "user"), s, iss, now)
         /\ Key(Expire(h, iss[s].ttl), s, iss, now)
         /\ Expire(h, iss[s].ttl).newid = h.newid
<1>0. iss[s].ttl \in Nat /\ iss[s].born \in Nat /\ h.ttl \in Nat
  BY IssueTypes DEF Hashes
<1>1. ASSUME NEW d \in Datas  PROVE Key(HSet(h, "data", d), s, iss, now)
  <2>. DEFINE g == HSet(h, "data", d)
  <2>1. g.ttl = h.ttl /\ g.newid = h.newid /\ g.data # Nil
    BY ConstantsOK DEF HSet, Hashes
  <2>. HIDE DEF g
  <2>2. Exists(g)
    BY <2>1, ExistsIs
  <2>. QED  BY <2>1, <2>2 DEF Key, g
<1>2. ASSUME NEW p \in Profiles  PROVE Key(HSet(h, "user", p), s, iss, now)
  <2>. DEFINE g == HSet(h, "user", p)
  <2>1. g.ttl = h.ttl /\ g.newid = h.newid /\ g.user # Nil
    BY ConstantsOK DEF HSet, Hashes
  <2>. HIDE DEF g
  <2>2. Exists(g)
    BY <2>1, ExistsIs
  <2>. QED  BY <2>1, <2>2 DEF Key, g
<1>3. ASSUME NEW n \in Sids \ {s}, iss[n] # Nil  PROVE Key(HSet(h, "newid", n), s, iss, now)
  <2>. DEFINE g == HSet(h, "newid", n)
  <2>1. g.ttl = h.ttl /\ g.newid = n /\ n # Nil
    BY Constants DEF HSet, Hashes
  <2>. HIDE DEF g
  <2>2. Exists(g)
    BY <2>1, ExistsIs
  <2>. QED  BY <1>3, <2>1, <2>2 DEF Key, g
<1>4. \A f \in {"data", "user"} : Key(HDel(h, f), s, iss, now)
  <2>. TAKE f \in {"data", "user"}
  <2>. DEFINE g == [h EXCEPT ![f] = Nil]
  <2>1. g.ttl = h.ttl /\ g.newid = h.newid
    BY DEF Hashes
  <2>2. HDel(h, f) = IF Exists(g) THEN g ELSE Missing
    BY DEF HDel
  <2>. HIDE DEF g
  <2>. QED  BY <2>1, <2>2, MissingKey DEF Key
<1>5. Key(Expire(h, iss[s].ttl), s, iss, now) /\ Expire(h, iss[s].ttl).newid = h.newid
  <2>. DEFINE g == [h EXCEPT !.ttl = iss[s].ttl]
  <2>1. /\ g.ttl = iss[s].ttl /\ g.newid = h.newid /\ g.user = h.user /\ g.data = h.data
        /\ g.server = h.server
    BY DEF Hashes
  <2>2. Expire(h, iss[s].ttl) = IF Exists(h) THEN g ELSE h
    BY DEF Expire
  <2>. HIDE DEF g
  <2>3. Exists(h) => Exists(g)
    BY <2>1, ExistsIs
  <2>4. now + iss[s].ttl >= iss[s].born + iss[s].ttl
    BY <1>0
  <2>. QED  BY <2>1, <2>2, <2>3, <2>4 DEF Key
<1>. QED  BY <1>1, <1>2, <1>3, <1>4, <1>5

(* HMSET of what another session held. *)
LEMMA HMSetKey ==
  ASSUME NEW h \in Hashes, NEW raw \in Hashes, NEW s \in Sids, NEW iss \in Issues, NEW now,
         Key(h, s, iss, now), iss[s] # Nil,
         raw.newid # s, raw.newid # Nil => iss[raw.newid] # Nil
  PROVE  /\ Key(HMSet(h, raw), s, iss, now)
         /\ raw.newid = Nil => HMSet(h, raw).newid = h.newid
<1>. DEFINE g == HMSet(h, raw)
<1>1. /\ g.user = Over(raw.user, h.user) /\ g.data = Over(raw.data, h.data)
      /\ g.newid = Over(raw.newid, h.newid) /\ g.server = Over(raw.server, h.server)
      /\ g.ttl = h.ttl
  BY DEF HMSet
<1>. HIDE DEF g
<1>2. Exists(h) => Exists(g)
  BY <1>1, ExistsIs DEF Over
<1>. QED  BY <1>1, <1>2 DEF Key, Over, g

(* A tick: what expires has had its time. *)
LEMMA KeyAge ==
  ASSUME NEW h \in Hashes, NEW s \in Sids, NEW iss \in Issues, NEW now \in Nat,
         Key(h, s, iss, now), iss[s] # Nil
  PROVE  /\ Key(Age(h, Missing), s, iss, now + 1)
         /\ Age(h, Missing).newid \in {h.newid, Nil}
         /\ h.ttl > 0 /\ now + 1 < iss[s].born + iss[s].ttl => Age(h, Missing).ttl > 0
<1>1. h.ttl \in Nat /\ iss[s].born \in Nat /\ iss[s].ttl \in Nat
  BY IssueTypes DEF Hashes
<1>2. CASE h.ttl = 0
  <2>1. Age(h, Missing) = h
    BY <1>2 DEF Age
  <2>. QED  BY <1>2, <2>1 DEF Key
<1>3. CASE h.ttl = 1
  <2>1. Age(h, Missing) = Missing
    BY <1>3 DEF Age
  <2>2. now + 1 >= iss[s].born + iss[s].ttl
    BY <1>3 DEF Key
  <2>. QED  BY <1>1, <2>1, <2>2, MissingKey
<1>4. CASE h.ttl > 1
  <2>. DEFINE g == [h EXCEPT !.ttl = @ - 1]
  <2>1. Age(h, Missing) = g
    BY <1>1, <1>4 DEF Age
  <2>2. /\ g.ttl = h.ttl - 1 /\ g.newid = h.newid /\ g.user = h.user /\ g.data = h.data
        /\ g.server = h.server
    BY DEF Hashes
  <2>. HIDE DEF g
  <2>3. Exists(g)
    <3>1. Exists(h)
      BY <1>1, <1>4 DEF Key
    <3>. QED  BY <2>2, <3>1, ExistsIs
  <2>4. now + 1 + g.ttl = now + h.ttl /\ g.ttl > 0
    BY <1>1, <1>4, <2>2
  <2>. QED  BY <1>1, <1>4, <2>1, <2>2, <2>3, <2>4 DEF Key
<1>. QED  BY <1>1, <1>2, <1>3, <1>4

-----------------------------------------------------------------------------
(* One request at a time: the object *)

(* The points of a renewal from HMSET to the old session. *)
Copying == {"load", "touch", "user", "sadd", "mapexpire", "csrem", "ctouch", "csetnew"}

(* The points of calls that neither renew nor destroy. *)
Plain == {"set", "get", "del", "userdel"} \cup Listing

(* The call works on a second session as well. *)
Other(o, iss) == o.csid \in Sids \ {o.sid} /\ iss[o.csid] # Nil

(* That session is there as long as its id lasts. *)
Lasting(o, st, iss, now) == now < iss[o.csid].born + iss[o.csid].ttl => st[o.csid].ttl > 0

Condemning(o) == o.op = "condemn" /\ o.pc \notin {"ready", "closed"}

Aim(o, iss) ==
  /\ o.pc # "closed" => o.ttl = iss[o.sid].ttl
  /\ o.pc \in {"raw", "load"} => o.op \in Renewals
  /\ o.pc = "raw" => o.csid = o.sid
  /\ o.pc \in {"newid", "newttl", "oldttl", "ctouch", "csetnew"} => o.op = "tryRenew"
  /\ o.pc \in Plain => o.op \notin Renewals \cup {"condemn"}
  /\ o.pc = "srem" => o.op \notin Renewals
  /\ o.pc = "load" => o.raw.newid # o.sid /\ (o.raw.newid # Nil => iss[o.raw.newid] # Nil)
  /\ o.op \in Renewals /\ o.pc \in Copying => Other(o, iss) /\ o.ttl = iss[o.csid].ttl
  /\ o.pc \in {"newttl", "oldttl"} \/ Condemning(o) => Other(o, iss)

(* Unless something has failed, a renewal copies no logged id. *)
Right(o, st, iss, now, f) ==
  /\ o \in Objects /\ Aim(o, iss)
  /\ o.pc = "oldttl" \/ Condemning(o) => Lasting(o, st, iss, now)
  /\ f = 0 /\ o.op = "tryRenew" =>
       /\ o.pc = "raw" => o.mode = "drop" \/ st[o.sid].newid = Nil
       /\ o.pc = "load" => o.raw.newid = Nil
       /\ o.pc \in Copying => st[o.sid].newid = Nil

(* What the helpers need of an object to leave it right. *)
Poised(o, st, iss, now, f) ==
  /\ o \in Objects /\ o.ttl = iss[o.sid].ttl
  /\ o.op \in Renewals => Other(o, iss) /\ o.ttl = iss[o.csid].ttl
  /\ o.op = "condemn" => Other(o, iss) /\ Lasting(o, st, iss, now)
  /\ f = 0 /\ o.op = "tryRenew" => st[o.sid].newid = Nil

LEMMA PoisedSame ==
  ASSUME NEW o, NEW p \in Objects, NEW st, NEW iss, NEW now, NEW f, Poised(o, st, iss, now, f),
         p.op = o.op, p.sid = o.sid, p.csid = o.csid, p.ttl = o.ttl
  PROVE  Poised(p, st, iss, now, f)
BY DEF Poised, Other, Lasting

LEMMA MoveRight ==
  ASSUME NEW o, NEW st, NEW iss, NEW now, NEW f, Poised(o, st, iss, now, f),
         NEW pc \in Points \ {"closed", "raw", "load", "newid", "newttl", "oldttl"},
         pc \in {"ctouch", "csetnew"} => o.op = "tryRenew",
         pc \in Plain => o.op \notin Renewals \cup {"condemn"},
         pc = "srem" => o.op \notin Renewals
  PROVE  Right([o EXCEPT !.pc = pc], st, iss, now, f)
<1>. DEFINE p == [o EXCEPT !.pc = pc]
<1>1. o \in Objects
  BY DEF Poised
<1>2. p \in Objects
  BY <1>1, Assigned
<1>3. p.pc = pc /\ p.op = o.op /\ p.sid = o.sid /\ p.csid = o.csid /\ p.ttl = o.ttl
  BY <1>1 DEF Objects
<1>. HIDE DEF p
<1>4. Aim(p, iss)
  BY <1>3 DEF Aim, Poised, Other, Condemning
<1>5. Right(p, st, iss, now, f)
  BY <1>2, <1>3, <1>4 DEF Right, Poised, Lasting, Condemning
<1>. QED  BY <1>5 DEF p

LEMMA ReturnRight ==
  ASSUME NEW o \in Objects, NEW iss, o.ttl = iss[o.sid].ttl
  PROVE  \A v \in Rets : \A st, now, f : Right(Return(o, v), st, iss, now, f)
<1>. TAKE v \in Rets
<1>. TAKE st, now, f
<1>. DEFINE p == Return(o, v)
<1>1. p \in Objects
  BY Assigned, MissingType, PointsReached DEF Return
<1>2. p.pc = "ready" /\ p.sid = o.sid /\ p.op = o.op /\ p.ttl = o.ttl
  BY DEF Return, Objects
<1>. HIDE DEF p
<1>3. Aim(p, iss)
  BY <1>2 DEF Aim, Condemning, Copying, Plain, Listing
<1>4. Right(p, st, iss, now, f)
  BY <1>1, <1>2, <1>3 DEF Right, Condemning, Copying
<1>. QED  BY <1>4 DEF p

LEMMA AfterRenewRight ==
  ASSUME NEW o, NEW st, NEW iss, NEW now, NEW f, Poised(o, st, iss, now, f)
  PROVE  Right(AfterRenew(o), st, iss, now, f)
<1>1. o.op = "tryRenew" => Right([o EXCEPT !.pc = "ctouch"], st, iss, now, f)
  BY MoveRight, MorePoints DEF Plain, Listing
<1>2. \A pc \in {"csrem", "cdel"} : Right([o EXCEPT !.pc = pc], st, iss, now, f)
  BY MoveRight, PointsReached DEF Plain, Listing
<1>. QED  BY <1>1, <1>2 DEF AfterRenew

LEMMA AfterUserRight ==
  ASSUME NEW o, NEW st, NEW iss, NEW now, NEW f, Poised(o, st, iss, now, f)
  PROVE  Right(AfterUser(o), st, iss, now, f)
<1>1. \A v \in {"true", "false"} : Right(Return(o, v), st, iss, now, f)
  BY ReturnRight DEF Poised, Rets
<1>2. CASE o.op = "user"
  BY <1>1, <1>2, BoolType DEF AfterUser, Renewals
<1>3. CASE o.op \in Renewals
  <2>1. Right([o EXCEPT !.pc = "sadd"], st, iss, now, f)
    BY MoveRight, PointsReached DEF Plain, Listing
  <2>2. AfterUser(o) = IF o.user = Nil THEN AfterRenew(o) ELSE [o EXCEPT !.pc = "sadd"]
    BY <1>3 DEF AfterUser, Renewals
  <2>. QED  BY <2>1, <2>2, AfterRenewRight
<1>4. CASE o.op \notin Renewals \cup {"user"}
  <2>1. \A pc \in {"srem", "destroydel"} : Right([o EXCEPT !.pc = pc], st, iss, now, f)
    BY <1>4, MoveRight, PointsReached DEF Plain, Listing
  <2>2. Right(Unmap(o), st, iss, now, f)
    BY <1>1, <2>1 DEF Unmap
  <2>. QED  BY <1>4, <2>2 DEF AfterUser
<1>. QED  BY <1>2, <1>3, <1>4

LEMMA UserRight ==
  ASSUME NEW o, NEW st, NEW iss, NEW now, NEW f, Poised(o, st, iss, now, f)
  PROVE  Right(User(o), st, iss, now, f)
<1>1. Right([o EXCEPT !.pc = "user"], st, iss, now, f)
  BY MoveRight, PointsReached DEF Plain, Listing
<1>. QED  BY <1>1, AfterUserRight DEF User

LEMMA AfterTouchRight ==
  ASSUME NEW o, NEW st, NEW iss, NEW now, NEW f, Poised(o, st, iss, now, f)
  PROVE  Right(AfterTouch(o), st, iss, now, f)
<1>1. \A v \in {"true", "false"} : Right(Return(o, v), st, iss, now, f)
  BY ReturnRight DEF Poised, Rets
<1>2. Right([o EXCEPT !.loaded = FALSE, !.pc = "user"], st, iss, now, f)
  <2>. DEFINE p == [o EXCEPT !.loaded = FALSE]
  <2>1. p \in Objects
    BY Assigned DEF Poised
  <2>2. p.op = o.op /\ p.sid = o.sid /\ p.csid = o.csid /\ p.ttl = o.ttl
    BY DEF Poised, Objects
  <2>. HIDE DEF p
  <2>3. Right([p EXCEPT !.pc = "user"], st, iss, now, f)
    BY <2>1, <2>2, PoisedSame, MoveRight, PointsReached DEF Plain, Listing
  <2>. QED  BY <2>3 DEF p
<1>. QED  BY <1>1, <1>2, BoolType DEF AfterTouch

LEMMA TryTouchRight ==
  ASSUME NEW o, NEW st, NEW iss, NEW now, NEW f, Poised(o, st, iss, now, f)
  PROVE  Right(TryTouch(o), st, iss, now, f)
<1>1. Right([o EXCEPT !.pc = "touch"], st, iss, now, f)
  BY MoveRight, PointsReached DEF Plain, Listing
<1>. QED  BY <1>1, AfterTouchRight DEF TryTouch

LEMMA SyncingRight ==
  ASSUME NEW o, NEW st, NEW iss, NEW now, NEW f, Poised(o, st, iss, now, f),
         o.op \notin Renewals \cup {"condemn"}
  PROVE  Right(Syncing(o), st, iss, now, f)
<1>1. \A pc \in {"exists", "hset"} : Right([o EXCEPT !.pc = pc, !.cur = Nil], st, iss, now, f)
  <2>. TAKE pc \in {"exists", "hset"}
  <2>. DEFINE p == [o EXCEPT !.cur = Nil]
  <2>1. p \in Objects
    BY Assigned DEF Poised
  <2>2. p.op = o.op /\ p.sid = o.sid /\ p.csid = o.csid /\ p.ttl = o.ttl
    BY DEF Poised, Objects
  <2>3. [o EXCEPT !.pc = pc, !.cur = Nil] = [p EXCEPT !.pc = pc]
    BY DEF Poised, Objects
  <2>. HIDE DEF p
  <2>4. Right([p EXCEPT !.pc = pc], st, iss, now, f)
    BY <2>1, <2>2, PoisedSame, MoveRight, PointsReached DEF Plain, Listing
  <2>. QED  BY <2>3, <2>4
<1>2. Right(Return(o, "true"), st, iss, now, f)
  BY ReturnRight DEF Poised, Rets
<1>. QED  BY <1>1, <1>2 DEF Syncing

(* The clone: the old session is the one copied. *)
LEMMA DoCloneRight ==
  ASSUME NEW o \in Objects, NEW st, NEW iss, NEW now, NEW f, o.ttl = iss[o.sid].ttl,
         o.op = "tryRenew", NEW m \in {"none", "drop"},
         f = 0 => m = "drop" \/ st[o.sid].newid = Nil
  PROVE  Right(DoClone(o, m), st, iss, now, f)
<1>. DEFINE p == DoClone(o, m)
<1>1. o.sid \in Sids \cup {Nil} /\ o.user \in Profiles \cup {Nil}
  BY DEF Objects
<1>2. p \in Objects
  BY <1>1, PointsReached DEF DoClone, Objects
<1>3. /\ p.pc = "raw" /\ p.op = "tryRenew" /\ p.sid = o.sid /\ p.csid = o.sid /\ p.ttl = o.ttl
      /\ p.mode = m
  BY DEF DoClone, Objects
<1>. HIDE DEF p
<1>4. Aim(p, iss)
  BY <1>3 DEF Aim, Condemning, Copying, Plain, Listing, Renewals
<1>5. Right(p, st, iss, now, f)
  BY <1>2, <1>3, <1>4 DEF Right, Condemning, Copying
<1>. QED  BY <1>5 DEF p

LEMMA KeepRight ==
  ASSUME NEW o \in Objects, NEW st, NEW iss, NEW now, NEW f, o.ttl = iss[o.sid].ttl,
         o.op = "tryRenew"
  PROVE  Right(Keep(o), st, iss, now, f)
<1>. DEFINE p == [o EXCEPT !.pc = "keep"]
<1>1. p \in Objects
  BY MorePoints, Assigned
<1>2. p.pc = "keep" /\ p.op = "tryRenew" /\ p.sid = o.sid /\ p.ttl = o.ttl
  BY DEF Objects
<1>. HIDE DEF p
<1>3. Right(p, st, iss, now, f)
  BY <1>1, <1>2 DEF Right, Aim, Condemning, Copying, Plain, Listing
<1>4. Right(Return(o, "false"), st, iss, now, f)
  BY ReturnRight DEF Rets
<1>. QED  BY <1>3, <1>4 DEF Keep, p

-----------------------------------------------------------------------------
(* One request at a time: the commands *)

RInv ==
  /\ CInv
  /\ Keys(store, issued, clock) /\ Stamped(issued, clock)
  /\ \A r \in Reqs : Right(obj[r], store, issued, clock, faults)

(* What a step of the one request has to leave. *)
Turn(r) ==
  /\ Keys(store', issued', clock') /\ Stamped(issued', clock')
  /\ Right(obj'[r], store', issued', clock', faults')

LEMMA Typed ==
  ASSUME RInv
  PROVE  /\ issued \in Issues /\ clock \in Nat /\ faults \in Nat
         /\ store \in [Sids -> Hashes] /\ obj \in [Reqs -> Objects]
         /\ \A s \in Sids : Key(store[s], s, issued, clock)
BY DEF RInv, CInv, AInv, TypeOK, Issues, Keys

LEMMA Acting ==
  ASSUME RInv, NEW r \in Reqs, obj[r].pc # "closed"
  PROVE  LET o == obj[r] IN
         /\ o \in Objects /\ o.sid \in Sids /\ o.ttl = issued[o.sid].ttl
         /\ issued[o.sid] # Nil /\ issued[o.sid].born <= clock
         /\ store[o.sid] \in Hashes /\ Key(store[o.sid], o.sid, issued, clock)
         /\ Right(o, store, issued, clock, faults) /\ Aim(o, issued)
         /\ \A v \in Rets : \A st, f : Right(Return(o, v), st, issued, clock, f)
<1>. DEFINE o == obj[r]
<1>1. o \in Objects /\ o.sid \in Sids /\ issued[o.sid] # Nil /\ store[o.sid] \in Hashes
  BY Standing DEF RInv, CInv, Anchored
<1>2. Right(o, store, issued, clock, faults) /\ Aim(o, issued)
  BY DEF RInv, Right
<1>3. o.ttl = issued[o.sid].ttl
  BY <1>2 DEF Aim
<1>4. \A v \in Rets : \A st, f : Right(Return(o, v), st, issued, clock, f)
  BY <1>1, <1>3, ReturnRight
<1>5. issued[o.sid].born <= clock
  BY <1>1 DEF RInv, Stamped
<1>. QED  BY <1>1, <1>2, <1>3, <1>4, <1>5, Typed

(* At its own points a call is fit for the helpers it goes on with. *)
LEMMA ActingPoised ==
  ASSUME RInv, NEW r \in Reqs, obj[r].pc \in Copying \cup Plain \cup {"srem"}
  PROVE  /\ Poised(obj[r], store, issued, clock, faults)
         /\ Poised(obj[r], store, issued, clock, 1)
<1>. DEFINE o == obj[r]
<1>1. o.pc # "closed" /\ o.pc # "ready"
  BY DEF Copying, Plain, Listing
<1>2. /\ o \in Objects /\ o.ttl = issued[o.sid].ttl
      /\ Right(o, store, issued, clock, faults) /\ Aim(o, issued)
  BY <1>1, Acting
<1>. HIDE DEF o
<1>3. o.op \in Renewals => o.pc \in Copying
  BY <1>2 DEF Aim, o
<1>4. o.op \in Renewals => Other(o, issued) /\ o.ttl = issued[o.csid].ttl
  BY <1>2, <1>3 DEF Aim
<1>5. o.op = "condemn" => Other(o, issued) /\ Lasting(o, store, issued, clock)
  BY <1>1, <1>2 DEF Aim, Right, Condemning
<1>6. faults = 0 /\ o.op = "tryRenew" => store[o.sid].newid = Nil
  BY <1>2, <1>3 DEF Right, Renewals
<1>. QED  BY <1>2, <1>4, <1>5, <1>6 DEF Poised, o

LEMMA PlainPoised ==
  ASSUME NEW o \in Objects, NEW iss, o.ttl = iss[o.sid].ttl, o.op \notin Renewals \cup {"condemn"}
  PROVE  \A st, now, f : Poised(o, st, iss, now, f)
BY DEF Poised, Renewals

(* A write to the session of the call, or to the other one. *)
LEMMA PoisedKey ==
  ASSUME RInv, NEW o, NEW f, Poised(o, store, issued, clock, f), NEW s \in Sids, NEW h,
         \/ s = o.sid /\ (store[s].newid = Nil => h.newid = Nil)
         \/ s # o.sid /\ o.op # "condemn"
  PROVE  Poised(o, [store EXCEPT ![s] = h], issued, clock, f)
<1>. DEFINE st == [store EXCEPT ![s] = h]
<1>1. st[s] = h /\ \A t \in Sids \ {s} : st[t] = store[t]
  BY Typed
<1>2. o.sid \notin Sids => st[o.sid] = store[o.sid]
  BY Typed
<1>. HIDE DEF st
<1>3. o.op = "condemn" => Lasting(o, st, issued, clock)
  BY <1>1 DEF Poised, Other, Lasting
<1>4. f = 0 /\ o.op = "tryRenew" => st[o.sid].newid = Nil
  BY <1>1, <1>2 DEF Poised
<1>5. Poised(o, st, issued, clock, f)
  BY <1>3, <1>4 DEF Poised
<1>. QED  BY <1>5 DEF st

LEMMA KeysWith ==
  ASSUME RInv, NEW s, NEW h, s \in Sids => Key(h, s, issued, clock)
  PROVE  Keys([store EXCEPT ![s] = h], issued, clock)
BY Typed DEF Keys

LEMMA TurnAwait ==
  ASSUME RInv, NEW r \in Reqs, NEW st, NEW um, NEW good, NEW bad, Await(r, st, um, good, bad),
         Keys(st, issued, clock), Right(good, st, issued, clock, faults),
         Right(bad, store, issued, clock, 1), Right(bad, st, issued, clock, 1)
  PROVE  Turn(r)
<1>1. issued' = issued /\ clock' = clock
  BY DEF Await
<1>2. Stamped(issued', clock') /\ Keys(store, issued, clock)
  BY <1>1 DEF RInv
<1>3. CASE store' = st /\ obj' = [obj EXCEPT ![r] = good] /\ faults' = faults
  BY <1>1, <1>2, <1>3, Typed DEF Turn
<1>4. CASE store' \in {store, st} /\ obj' = [obj EXCEPT ![r] = bad] /\ faults' = faults + 1
  <2>1. faults' # 0
    BY <1>4, Typed
  <2>2. Right(bad, store', issued, clock, faults')
    BY <1>4, <2>1 DEF Right
  <2>. QED  BY <1>1, <1>2, <1>4, <2>2, Typed DEF Turn
<1>5. \/ store' = st /\ obj' = [obj EXCEPT ![r] = good] /\ faults' = faults
      \/ store' \in {store, st} /\ obj' = [obj EXCEPT ![r] = bad] /\ faults' = faults + 1
  BY DEF Await
<1>. QED  BY <1>3, <1>4, <1>5

LEMMA TurnAsk ==
  ASSUME RInv, NEW r \in Reqs, NEW um, NEW good, NEW bad, Await(r, store, um, good, bad),
         Right(good, store, issued, clock, faults), Right(bad, store, issued, clock, 1)
  PROVE  Turn(r)
BY TurnAwait DEF RInv

(* A write to one key, after which the call ends when it fails. *)
LEMMA TurnWrite ==
  ASSUME RInv, NEW r \in Reqs, obj[r].pc # "closed", NEW s, NEW h, NEW good,
         Write(r, s, h, good), s \in Sids => Key(h, s, issued, clock),
         Right(good, [store EXCEPT ![s] = h], issued, clock, faults)
  PROVE  Turn(r)
<1>. DEFINE st == [store EXCEPT ![s] = h]
<1>1. Keys(st, issued, clock)
  BY KeysWith
<1>2. \A m : Right(Return(obj[r], "err"), m, issued, clock, 1)
  BY Acting DEF Rets
<1>3. Await(r, st, umap, good, Return(obj[r], "err"))
  BY DEF Write
<1>. HIDE DEF st
<1>. QED  BY <1>1, <1>2, <1>3, TurnAwait DEF st

(* An object with other values in fields a renewal does not look at. *)
LEMMA PoisedUser ==
  ASSUME NEW o, NEW st, NEW iss, NEW now, NEW f, Poised(o, st, iss, now, f)
  PROVE  /\ \A b \in BOOLEAN : Poised([o EXCEPT !.loaded = b], st, iss, now, f)
         /\ \A u \in Profiles \cup {Nil} : Poised([o EXCEPT !.user = u], st, iss, now, f)
         /\ \A b \in {"true", "false"} : Poised([o EXCEPT !.touches = b], st, iss, now, f)
         /\ \A h \in Hashes : Poised([o EXCEPT !.raw = h], st, iss, now, f)
<1>1. o \in Objects
  BY DEF Poised
<1>2. ASSUME NEW p \in Objects, p.op = o.op, p.sid = o.sid, p.csid = o.csid, p.ttl = o.ttl
      PROVE  Poised(p, st, iss, now, f)
  BY <1>2, PoisedSame
<1>3. ASSUME NEW b \in BOOLEAN  PROVE Poised([o EXCEPT !.loaded = b], st, iss, now, f)
  <2>. DEFINE p == [o EXCEPT !.loaded = b]
  <2>1. p \in Objects
    BY <1>1, Assigned
  <2>2. p.op = o.op /\ p.sid = o.sid /\ p.csid = o.csid /\ p.ttl = o.ttl
    BY <1>1 DEF Objects
  <2>. QED  BY <1>2, <2>1, <2>2
<1>4. ASSUME NEW u \in Profiles \cup {Nil}  PROVE Poised([o EXCEPT !.user = u], st, iss, now, f)
  <2>. DEFINE p == [o EXCEPT !.user = u]
  <2>1. p \in Objects
    BY <1>1, Assigned
  <2>2. p.op = o.op /\ p.sid = o.sid /\ p.csid = o.csid /\ p.ttl = o.ttl
    BY <1>1 DEF Objects
  <2>. QED  BY <1>2, <2>1, <2>2
<1>5. ASSUME NEW b \in {"true", "false"}  PROVE Poised([o EXCEPT !.touches = b], st, iss, now, f)
  <2>. DEFINE p == [o EXCEPT !.touches = b]
  <2>1. p \in Objects
    BY <1>1, Assigned
  <2>2. p.op = o.op /\ p.sid = o.sid /\ p.csid = o.csid /\ p.ttl = o.ttl
    BY <1>1 DEF Objects
  <2>. QED  BY <1>2, <2>1, <2>2
<1>6. ASSUME NEW h \in Hashes  PROVE Poised([o EXCEPT !.raw = h], st, iss, now, f)
  <2>. DEFINE p == [o EXCEPT !.raw = h]
  <2>1. p \in Objects
    BY <1>1, Assigned
  <2>2. p.op = o.op /\ p.sid = o.sid /\ p.csid = o.csid /\ p.ttl = o.ttl
    BY <1>1 DEF Objects
  <2>. QED  BY <1>2, <2>1, <2>2
<1>. QED  BY <1>3, <1>4, <1>5, <1>6

LEMMA TurnLoadUser ==
  ASSUME RInv, NEW r \in Reqs, LoadUser(r)
  PROVE  Turn(r)
<1>. DEFINE o == obj[r]
            p == [o EXCEPT !.loaded = TRUE]
            u == store[p.sid].user
            good == AfterUser(IF u = Nil THEN p ELSE [p EXCEPT !.user = u])
<1>1. o.pc = "user"
  BY DEF LoadUser, At
<1>2. o \in Objects /\ o.sid \in Sids
  BY <1>1, Acting
<1>3. Poised(o, store, issued, clock, faults) /\ Poised(o, store, issued, clock, 1)
  BY <1>1, ActingPoised DEF Copying
<1>4. Poised(p, store, issued, clock, faults) /\ Poised(p, store, issued, clock, 1)
  BY <1>3, PoisedUser
<1>5. u \in Profiles \cup {Nil}
  <2>1. p.sid = o.sid
    BY <1>2 DEF Objects
  <2>. QED  BY <1>2, <2>1, Typed DEF Hashes
<1>6. Await(r, store, umap, good, AfterUser(p))
  BY DEF LoadUser, Ask
<1>. HIDE DEF p, u
<1>7. Right(good, store, issued, clock, faults)
  BY <1>4, <1>5, PoisedUser, AfterUserRight
<1>8. Right(AfterUser(p), store, issued, clock, 1)
  BY <1>4, AfterUserRight
<1>. HIDE DEF good
<1>. QED  BY <1>6, <1>7, <1>8, TurnAsk

(* The calls on the application's own field. *)
LEMMA TurnSilent ==
  ASSUME RInv, NEW r \in Reqs, SilentSet(r) \/ SilentGet(r) \/ SilentDel(r)
  PROVE  Turn(r)
<1>. DEFINE o == obj[r]
            h == store[o.sid]
<1>1. o.pc \in {"set", "get", "del"} /\ o.pc # "closed"
  BY DEF SilentSet, SilentGet, SilentDel, At
<1>2. /\ o \in Objects /\ o.sid \in Sids /\ o.ttl = issued[o.sid].ttl
      /\ issued[o.sid] # Nil /\ issued[o.sid].born <= clock /\ h \in Hashes
      /\ Key(h, o.sid, issued, clock) /\ Aim(o, issued)
      /\ \A v \in Rets : \A st, f : Right(Return(o, v), st, issued, clock, f)
  BY <1>1, Acting
<1>3. o.op \notin Renewals \cup {"condemn"}
  BY <1>1, <1>2 DEF Aim, Plain
<1>4. \A st, f : Right(TryTouch(o), st, issued, clock, f)
  BY <1>2, <1>3, PlainPoised, TryTouchRight
<1>5. /\ \A d \in Datas : Key(HSet(h, "data", d), o.sid, issued, clock)
      /\ Key(HDel(h, "data"), o.sid, issued, clock)
  BY <1>2, KeyOps, Typed
<1>6. CASE SilentSet(r)
  <2>1. o.arg \in Datas
    BY <1>1, <1>6, Standing DEF SilentSet, At, RInv, CInv, Sound
  <2>2. Write(r, o.sid, HSet(h, "data", o.arg), TryTouch(o))
    BY <1>6 DEF SilentSet
  <2>. QED  BY <1>1, <1>4, <1>5, <2>1, <2>2, TurnWrite
<1>7. CASE SilentGet(r)
  <2>. DEFINE good == IF h.data = Nil THEN Return(o, "err") ELSE TryTouch(o)
  <2>1. Await(r, store, umap, good, Return(o, "err"))
    BY <1>7 DEF SilentGet, Ask
  <2>2. Right(good, store, issued, clock, faults)
    BY <1>2, <1>4 DEF Rets
  <2>. HIDE DEF good
  <2>. QED  BY <1>2, <2>1, <2>2, TurnAsk DEF Rets
<1>8. CASE SilentDel(r)
  <2>. DEFINE good == IF h.data = Nil THEN Return(o, "false") ELSE TryTouch(o)
  <2>1. Write(r, o.sid, HDel(h, "data"), good)
    BY <1>8 DEF SilentDel
  <2>2. \A st : Right(good, st, issued, clock, faults)
    BY <1>2, <1>4 DEF Rets
  <2>. HIDE DEF good
  <2>. QED  BY <1>1, <1>5, <2>1, <2>2, TurnWrite
<1>. QED  BY <1>6, <1>7, <1>8

LEMMA TurnTouch ==
  ASSUME RInv, NEW r \in Reqs, Touch(r) \/ KeepTouch(r)
  PROVE  Turn(r)
<1>. DEFINE o == obj[r]
            h == store[o.sid]
            g == Expire(h, o.ttl)
            b == Bool(Exists(h))
            p == [o EXCEPT !.touches = b]
<1>1. o.pc \in {"touch", "keep"}
  BY DEF Touch, KeepTouch, At
<1>2. /\ o \in Objects /\ o.sid \in Sids /\ o.ttl = issued[o.sid].ttl
      /\ issued[o.sid] # Nil /\ issued[o.sid].born <= clock /\ h \in Hashes
      /\ Key(h, o.sid, issued, clock)
      /\ \A v \in Rets : \A st, f : Right(Return(o, v), st, issued, clock, f)
  BY <1>1, Acting
<1>3. Key(g, o.sid, issued, clock) /\ g.newid = h.newid
  BY <1>2, KeyOps, Typed
<1>4. b \in {"true", "false"}
  BY BoolType
<1>5. CASE Touch(r)
  <2>1. o.pc = "touch"
    BY <1>5 DEF Touch, At
  <2>2. Poised(o, store, issued, clock, faults)
    BY <2>1, ActingPoised DEF Copying
  <2>3. Poised(o, [store EXCEPT ![o.sid] = g], issued, clock, faults)
    BY <1>2, <1>3, <2>2, PoisedKey
  <2>4. Right(AfterTouch(p), [store EXCEPT ![o.sid] = g], issued, clock, faults)
    BY <1>4, <2>3, PoisedUser, AfterTouchRight
  <2>5. Write(r, o.sid, g, AfterTouch(p))
    BY <1>5 DEF Touch
  <2>. HIDE DEF p, g, b
  <2>. QED  BY <1>3, <2>1, <2>4, <2>5, TurnWrite
<1>6. CASE KeepTouch(r)
  <2>1. p \in Objects
    BY <1>2, <1>4, Assigned
  <2>2. p.sid = o.sid /\ p.ttl = o.ttl
    BY <1>2 DEF Objects
  <2>3. Await(r, [store EXCEPT ![o.sid] = g], umap, Return(p, "false"), Return(o, "false"))
    BY <1>6 DEF KeepTouch
  <2>. HIDE DEF p, g, b
  <2>4. \A st : Right(Return(p, "false"), st, issued, clock, faults)
    BY <1>2, <2>1, <2>2, ReturnRight DEF Rets
  <2>5. Keys([store EXCEPT ![o.sid] = g], issued, clock)
    BY <1>3, KeysWith
  <2>. QED  BY <1>2, <2>3, <2>4, <2>5, TurnAwait DEF Rets
<1>. QED  BY <1>5, <1>6

LEMMA TurnLoad ==
  ASSUME RInv, NEW r \in Reqs, Load(r)
  PROVE  Turn(r)
<1>. DEFINE o == obj[r]
            h == store[o.sid]
            g == HMSet(h, o.raw)
            p == [o EXCEPT !.raw = Missing]
            st == [store EXCEPT ![o.sid] = g]
<1>1. o.pc = "load" /\ o.pc # "closed"
  BY DEF Load, At
<1>2. /\ o \in Objects /\ o.sid \in Sids /\ issued[o.sid] # Nil /\ h \in Hashes
      /\ Key(h, o.sid, issued, clock) /\ Aim(o, issued)
      /\ Right(o, store, issued, clock, faults)
  BY <1>1, Acting
<1>3. /\ o.op \in Renewals /\ o.raw \in Hashes
      /\ o.raw.newid # o.sid /\ (o.raw.newid # Nil => issued[o.raw.newid] # Nil)
  BY <1>1, <1>2 DEF Aim, Objects
<1>4. Key(g, o.sid, issued, clock) /\ (o.raw.newid = Nil => g.newid = h.newid)
  BY <1>2, <1>3, HMSetKey, Typed
<1>5. Poised(o, store, issued, clock, faults)
  BY <1>1, ActingPoised DEF Copying
<1>6. Write(r, o.sid, g, TryTouch(p))
  <2>1. p.sid = o.sid
    BY <1>2 DEF Objects
  <2>2. [store EXCEPT ![p.sid] = HMSet(store[p.sid], o.raw)] = [store EXCEPT ![o.sid] = g]
    BY <2>1
  <2>. QED  BY <2>1, <2>2 DEF Load
<1>. HIDE DEF g
<1>7. Poised(o, st, issued, clock, faults)
  <2>1. CASE faults = 0 /\ o.op = "tryRenew"
    <3>1. o.raw.newid = Nil
      BY <1>1, <1>2, <2>1 DEF Right
    <3>2. g.newid = h.newid
      BY <1>4, <3>1
    <3>. QED  BY <1>2, <1>5, <3>2, PoisedKey
  <2>2. CASE ~ (faults = 0 /\ o.op = "tryRenew")
    BY <1>3, <1>5, <2>2 DEF Poised, Renewals
  <2>. QED  BY <2>1, <2>2
<1>. HIDE DEF st
<1>8. Right(TryTouch(p), st, issued, clock, faults)
  BY <1>7, MissingType, PoisedUser, TryTouchRight
<1>. HIDE DEF p
<1>9. Right(TryTouch(p), [store EXCEPT ![o.sid] = g], issued, clock, faults)
  BY <1>8 DEF st
<1>. HIDE DEF o
<1>. QED  BY <1>1, <1>4, <1>6, <1>9, TurnWrite DEF o

(* The commands on the index. *)
LEMMA TurnIndex ==
  ASSUME RInv, NEW r \in Reqs,
         MappingAdd(r) \/ MappingExpire(r) \/ ClonedUnmapping(r) \/ Unmapping(r)
  PROVE  Turn(r)
<1>. DEFINE o == obj[r]
<1>1. o.pc \in {"sadd", "mapexpire", "csrem", "srem"}
  BY DEF MappingAdd, MappingExpire, ClonedUnmapping, Unmapping, At
<1>2. /\ o \in Objects
      /\ \A v \in Rets : \A st, f : Right(Return(o, v), st, issued, clock, f)
  BY <1>1, Acting
<1>3. Poised(o, store, issued, clock, faults) /\ Poised(o, store, issued, clock, 1)
  BY <1>1, ActingPoised DEF Copying
<1>4. /\ Right(AfterRenew(o), store, issued, clock, faults)
      /\ Right(AfterRenew(o), store, issued, clock, 1)
  BY <1>3, AfterRenewRight
<1>5. \A pc \in {"mapexpire", "cdel", "destroydel"} :
        Right([o EXCEPT !.pc = pc], store, issued, clock, faults)
  BY <1>3, MoveRight, PointsReached DEF Plain, Listing
<1>6. CASE MappingAdd(r) \/ MappingExpire(r)
  <2>1. PICK um, good : /\ Await(r, store, um, good, AfterRenew(o))
                        /\ good \in {[o EXCEPT !.pc = "mapexpire"], AfterRenew(o)}
    BY <1>6 DEF MappingAdd, MappingExpire
  <2>2. Right(good, store, issued, clock, faults)
    BY <1>4, <1>5, <2>1
  <2>. QED  BY <1>4, <2>1, <2>2, TurnAsk
<1>7. CASE ClonedUnmapping(r)
  <2>1. PICK um : Await(r, store, um, [o EXCEPT !.pc = "cdel"], Return(o, "err"))
    BY <1>7 DEF ClonedUnmapping
  <2>. QED  BY <1>2, <1>5, <2>1, TurnAsk DEF Rets
<1>8. CASE Unmapping(r)
  <2>. DEFINE good == IF o.op = "logout" THEN [o EXCEPT !.user = Nil, !.pc = "userdel"]
                                         ELSE [o EXCEPT !.pc = "destroydel"]
  <2>1. PICK um : Await(r, store, um, good, Return(o, "err"))
    BY <1>8 DEF Unmapping
  <2>2. o.op = "logout" => Right([o EXCEPT !.user = Nil, !.pc = "userdel"], store, issued, clock, faults)
    <3>. DEFINE p == [o EXCEPT !.user = Nil]
    <3>1. Poised(p, store, issued, clock, faults)
      BY <1>3, PoisedUser
    <3>2. p.op = o.op /\ [o EXCEPT !.user = Nil, !.pc = "userdel"] = [p EXCEPT !.pc = "userdel"]
      BY <1>2 DEF Objects
    <3>. HIDE DEF p
    <3>3. o.op = "logout" => Right([p EXCEPT !.pc = "userdel"], store, issued, clock, faults)
      BY <3>1, <3>2, MoveRight, PointsReached DEF Renewals
    <3>. QED  BY <3>2, <3>3
  <2>3. Right(good, store, issued, clock, faults)
    BY <1>5, <2>2
  <2>. HIDE DEF good
  <2>. QED  BY <1>2, <2>1, <2>3, TurnAsk DEF Rets
<1>. QED  BY <1>6, <1>7, <1>8

(* The commands a call ends with when it deletes a key or the user's field. *)
LEMMA TurnDelete ==
  ASSUME RInv, NEW r \in Reqs, LogoutDel(r) \/ DestroyDel(r) \/ CondemnedDel(r) \/ ClonedDestroy(r)
  PROVE  Turn(r)
<1>. DEFINE o == obj[r]
            h == store[o.sid]
<1>1. o.pc \in {"userdel", "destroydel", "cdel"} /\ o.pc # "closed"
  BY DEF LogoutDel, DestroyDel, CondemnedDel, ClonedDestroy, At
<1>2. /\ o.sid \in Sids /\ issued[o.sid] # Nil /\ issued[o.sid].born <= clock
      /\ h \in Hashes /\ Key(h, o.sid, issued, clock)
      /\ \A v \in Rets : \A st, f : Right(Return(o, v), st, issued, clock, f)
  BY <1>1, Acting
<1>3. Key(HDel(h, "user"), o.sid, issued, clock)
  BY <1>2, KeyOps, Typed
<1>4. \A b : Bool(b) \in Rets
  BY BoolType DEF Rets
<1>5. ASSUME NEW s, NEW g, NEW v \in Rets, Write(r, s, g, Return(o, v)),
             g = Missing \/ (s = o.sid /\ g = HDel(h, "user"))
      PROVE  Turn(r)
  <2>1. s \in Sids => Key(g, s, issued, clock)
    BY <1>3, <1>5, MissingKey
  <2>2. Right(Return(o, v), [store EXCEPT ![s] = g], issued, clock, faults)
    BY <1>2
  <2>. QED  BY <1>1, <1>5, <2>1, <2>2, TurnWrite
<1>6. CASE LogoutDel(r)
  <2>1. Write(r, o.sid, HDel(h, "user"), Return(o, Bool(h.user # Nil)))
    BY <1>6 DEF LogoutDel
  <2>. QED  BY <1>4, <1>5, <2>1
<1>7. CASE DestroyDel(r)
  <2>1. Write(r, o.sid, Missing, Return(o, Bool(Exists(h))))
    BY <1>7 DEF DestroyDel
  <2>. QED  BY <1>4, <1>5, <2>1
<1>8. CASE CondemnedDel(r)
  <2>1. Write(r, o.sid, Missing, Return(o, "err"))
    BY <1>8 DEF CondemnedDel
  <2>. QED  BY <1>5, <2>1 DEF Rets
<1>9. CASE ClonedDestroy(r)
  <2>1. Write(r, o.csid, Missing, Return(o, "true"))
    BY <1>9 DEF ClonedDestroy
  <2>. QED  BY <1>5, <2>1 DEF Rets
<1>. QED  BY <1>6, <1>7, <1>8, <1>9

(* The commands of sync: it works on no session of its own. *)
LEMMA ListingRight ==
  ASSUME RInv, NEW r \in Reqs, obj[r].pc \in Listing
  PROVE  LET o == obj[r] IN
         /\ o \in Objects /\ o.arg \in Profiles /\ o.pc # "closed"
         /\ o.todo \cup o.kept \subseteq Owned(o.arg.uid, owner)
         /\ \A p \in Objects : \A st, f : p.op = o.op /\ p.sid = o.sid /\ p.ttl = o.ttl =>
              /\ Right(Syncing(p), st, issued, clock, f)
              /\ Right(Return(p, "err"), st, issued, clock, f)
              /\ Right([p EXCEPT !.pc = "filtersrem"], st, issued, clock, f)
<1>. DEFINE o == obj[r]
<1>1. o.pc # "closed"
  BY DEF Listing
<1>2. o \in Objects /\ o.ttl = issued[o.sid].ttl /\ Aim(o, issued)
  BY <1>1, Acting
<1>3. o.arg \in Profiles /\ o.todo \cup o.kept \subseteq Owned(o.arg.uid, owner)
  BY <1>1, Standing DEF RInv, CInv, Sound
<1>4. o.op \notin Renewals \cup {"condemn"}
  BY <1>2 DEF Aim, Plain
<1>5. ASSUME NEW p \in Objects, NEW st, NEW f, p.op = o.op, p.sid = o.sid, p.ttl = o.ttl
      PROVE  /\ Right(Syncing(p), st, issued, clock, f)
             /\ Right(Return(p, "err"), st, issued, clock, f)
             /\ Right([p EXCEPT !.pc = "filtersrem"], st, issued, clock, f)
  <2>1. Poised(p, st, issued, clock, f)
    BY <1>2, <1>4, <1>5, PlainPoised
  <2>2. Right(Return(p, "err"), st, issued, clock, f)
    BY <1>2, <1>5, ReturnRight DEF Rets
  <2>3. Right([p EXCEPT !.pc = "filtersrem"], st, issued, clock, f)
    BY <1>4, <1>5, <2>1, MoveRight, PointsReached
  <2>. QED  BY <1>4, <1>5, <2>1, <2>2, <2>3, SyncingRight
<1>. QED  BY <1>1, <1>2, <1>3, <1>5

LEMMA TurnListing ==
  ASSUME RInv, NEW r \in Reqs, AllSid(r) \/ FilterRemove(r) \/ \E s \in Sids : FilterExists(r, s)
  PROVE  Turn(r)
<1>. DEFINE o == obj[r]
<1>1. o.pc \in Listing
  BY DEF AllSid, FilterRemove, FilterExists, At, Listing
<1>2. /\ o \in Objects /\ o.arg \in Profiles
      /\ \A p \in Objects : \A st, f : p.op = o.op /\ p.sid = o.sid /\ p.ttl = o.ttl =>
           /\ Right(Syncing(p), st, issued, clock, f)
           /\ Right(Return(p, "err"), st, issued, clock, f)
           /\ Right([p EXCEPT !.pc = "filtersrem"], st, issued, clock, f)
  BY <1>1, ListingRight
<1>3. CASE AllSid(r)
  <2>. DEFINE t == umap[o.arg.uid].sids
              p == [o EXCEPT !.todo = t]
  <2>1. t \in SUBSET Sids
    BY <1>2, IndexTypes DEF RInv, CInv, AInv, TypeOK, Profiles
  <2>2. Await(r, store, umap, Syncing(p), Return(o, "err"))
    BY <1>3 DEF AllSid, Ask
  <2>. HIDE DEF t
  <2>3. p \in Objects
    BY <1>2, <2>1, Assigned
  <2>4. p.op = o.op /\ p.sid = o.sid /\ p.ttl = o.ttl
    BY <1>2 DEF Objects
  <2>. HIDE DEF p
  <2>. QED  BY <1>2, <2>2, <2>3, <2>4, TurnAsk
<1>4. CASE FilterRemove(r)
  <2>1. PICK um : Await(r, store, um, Syncing(o), Syncing(o))
    BY <1>4 DEF FilterRemove
  <2>. QED  BY <1>2, <2>1, TurnAsk
<1>5. ASSUME NEW s \in Sids, FilterExists(r, s)  PROVE Turn(r)
  <2>. DEFINE p == [o EXCEPT !.todo = @ \ {s}]
              k == [p EXCEPT !.kept = @ \cup {s}]
              c == [p EXCEPT !.cur = s]
              good == IF Exists(store[s]) THEN Syncing(k)
                                          ELSE [p EXCEPT !.cur = s, !.pc = "filtersrem"]
  <2>1. o.todo \ {s} \in SUBSET Sids
    BY <1>2 DEF Objects
  <2>2. p \in Objects
    BY <1>2, <2>1, Assigned
  <2>3. p.op = o.op /\ p.sid = o.sid /\ p.ttl = o.ttl
    BY <1>2 DEF Objects
  <2>4. Await(r, store, umap, good, Return(p, "err"))
    BY <1>5 DEF FilterExists, Ask
  <2>. HIDE DEF p
  <2>5. p.kept \cup {s} \in SUBSET Sids
    BY <2>2 DEF Objects
  <2>6. k \in Objects /\ c \in Objects
    BY <2>2, <2>5, Assigned
  <2>7. /\ k.op = o.op /\ k.sid = o.sid /\ k.ttl = o.ttl
        /\ c.op = o.op /\ c.sid = o.sid /\ c.ttl = o.ttl
    BY <2>2, <2>3 DEF Objects
  <2>8. [p EXCEPT !.cur = s, !.pc = "filtersrem"] = [c EXCEPT !.pc = "filtersrem"]
    BY <2>2 DEF Objects
  <2>. HIDE DEF k, c
  <2>9. Right(good, store, issued, clock, faults)
    BY <1>2, <2>6, <2>7, <2>8
  <2>. HIDE DEF good
  <2>. QED  BY <1>2, <2>2, <2>3, <2>4, <2>9, TurnAsk
<1>. QED  BY <1>3, <1>4, <1>5

(* Every id on the list was generated, for the user of the list. *)
LEMMA TurnSyncSet ==
  ASSUME RInv, NEW r \in Reqs, NEW s \in Sids, SyncSet(r, s)
  PROVE  Turn(r)
<1>. DEFINE o == obj[r]
            g == HSet(store[s], "user", o.arg)
            p == [o EXCEPT !.kept = @ \ {s}]
<1>1. o.pc \in Listing /\ s \in o.kept
  BY DEF SyncSet, At, Listing
<1>2. /\ o \in Objects /\ o.arg \in Profiles /\ o.pc # "closed"
      /\ o.todo \cup o.kept \subseteq Owned(o.arg.uid, owner)
      /\ \A q \in Objects : \A st, f : q.op = o.op /\ q.sid = o.sid /\ q.ttl = o.ttl =>
           Right(Syncing(q), st, issued, clock, f)
  BY <1>1, ListingRight
<1>3. issued[s] # Nil
  <2>1. owner[s] = o.arg.uid
    BY <1>1, <1>2 DEF Owned
  <2>2. o.arg.uid # Nil
    BY <1>2, ConstantsOK DEF Profiles
  <2>. QED  BY <2>1, <2>2 DEF RInv, CInv, AInv
<1>4. Key(g, s, issued, clock)
  <2>1. store[s] \in Hashes /\ Key(store[s], s, issued, clock)
    BY Typed
  <2>2. issued[s].born <= clock
    BY <1>3 DEF RInv, Stamped
  <2>. QED  BY <1>2, <1>3, <2>1, <2>2, KeyOps, Typed
<1>5. p \in Objects
  <2>1. o.kept \ {s} \in SUBSET Sids
    BY <1>2 DEF Objects
  <2>. QED  BY <1>2, <2>1, Assigned
<1>6. p.op = o.op /\ p.sid = o.sid /\ p.ttl = o.ttl
  BY <1>2 DEF Objects
<1>7. Write(r, s, g, Syncing(p))
  BY DEF SyncSet
<1>. HIDE DEF p, g
<1>8. \A st : Right(Syncing(p), st, issued, clock, faults)
  BY <1>2, <1>5, <1>6
<1>. HIDE DEF o
<1>. QED  BY <1>2, <1>4, <1>7, <1>8, TurnWrite DEF o

(* The commands of try_renew up to its decision. *)
LEMMA TurnGetNewId ==
  ASSUME RInv, NEW r \in Reqs, GetNewId(r)
  PROVE  Turn(r)
<1>. DEFINE o == obj[r]
            n == store[o.sid].newid
            a == [o EXCEPT !.csid = n]
            b == [a EXCEPT !.cuser = Nil]
            c == [o EXCEPT !.csid = n, !.cuser = Nil, !.pc = "newttl"]
            good == CASE n = Nil                   -> DoClone(o, "none")
                      [] n # Nil /\ o.mode = "judge" -> c
                      [] OTHER                     -> Keep(o)
<1>1. o.pc = "newid" /\ o.pc # "closed"
  BY DEF GetNewId, At
<1>2. /\ o \in Objects /\ o.ttl = issued[o.sid].ttl /\ o.sid \in Sids
      /\ store[o.sid] \in Hashes /\ Key(store[o.sid], o.sid, issued, clock) /\ Aim(o, issued)
  BY <1>1, Acting
<1>3. o.op = "tryRenew"
  BY <1>1, <1>2 DEF Aim
<1>4. n \in Sids \cup {Nil} /\ (n # Nil => n # o.sid /\ issued[n] # Nil)
  BY <1>2 DEF Key, Hashes
<1>5. Ask(r, good, DoClone(o, "none"))
  BY DEF GetNewId
<1>6. /\ n = Nil => Right(DoClone(o, "none"), store, issued, clock, faults)
      /\ Right(DoClone(o, "none"), store, issued, clock, 1)
  BY <1>2, <1>3, DoCloneRight
<1>7. Right(Keep(o), store, issued, clock, faults)
  BY <1>2, <1>3, KeepRight
<1>. HIDE DEF n
<1>8. n # Nil => Right(c, store, issued, clock, faults)
  <2>. SUFFICES ASSUME n # Nil  PROVE Right(c, store, issued, clock, faults)
    OBVIOUS
  <2>1. a \in Objects
    BY <1>2, <1>4, Assigned
  <2>2. b \in Objects
    BY <2>1, Assigned
  <2>3. c = [b EXCEPT !.pc = "newttl"]
    BY <1>2 DEF a, b, Objects
  <2>4. c \in Objects
    BY <2>2, <2>3, Assigned, MorePoints
  <2>5. c.pc = "newttl" /\ c.op = "tryRenew" /\ c.sid = o.sid /\ c.csid = n /\ c.ttl = o.ttl
    BY <1>2, <1>3 DEF Objects
  <2>. HIDE DEF c
  <2>6. Aim(c, issued)
    BY <1>2, <1>4, <2>5 DEF Aim, Other, Condemning, Copying, Plain, Listing
  <2>. QED  BY <2>4, <2>5, <2>6 DEF Right, Condemning, Copying
<1>. HIDE DEF c
<1>9. Right(good, store, issued, clock, faults)
  BY <1>6, <1>7, <1>8
<1>. HIDE DEF good
<1>. QED  BY <1>5, <1>6, <1>9, TurnAsk DEF Ask

(* Dropping the newer of the two sessions needs nothing of it. *)
LEMMA DropRight ==
  ASSUME NEW o \in Objects, NEW iss, o.ttl = iss[o.sid].ttl, o.op = "tryRenew"
  PROVE  \A st, now, f : /\ Right([o EXCEPT !.pc = "cdel"], st, iss, now, f)
                         /\ Right([o EXCEPT !.tp = 0, !.pc = "cdel"], st, iss, now, f)
<1>1. ASSUME NEW p \in Objects, p.pc = "cdel", p.op = "tryRenew", p.sid = o.sid, p.ttl = o.ttl,
             NEW st, NEW now, NEW f
      PROVE  Right(p, st, iss, now, f)
  BY <1>1 DEF Right, Aim, Condemning, Copying, Plain, Listing
<1>. DEFINE c == [o EXCEPT !.pc = "cdel"]
            d == [o EXCEPT !.tp = 0, !.pc = "cdel"]
<1>2. c \in Objects
  BY Assigned, PointsReached
<1>3. d \in Objects
  <2>1. [o EXCEPT !.tp = 0] \in Objects
    BY RenewAssigned
  <2>2. d = [[o EXCEPT !.tp = 0] EXCEPT !.pc = "cdel"]
    BY DEF Objects
  <2>. QED  BY <2>1, <2>2, Assigned, PointsReached
<1>4. /\ c.pc = "cdel" /\ c.op = "tryRenew" /\ c.sid = o.sid /\ c.ttl = o.ttl
      /\ d.pc = "cdel" /\ d.op = "tryRenew" /\ d.sid = o.sid /\ d.ttl = o.ttl
  BY DEF Objects
<1>. HIDE DEF c, d
<1>5. \A st, now, f : Right(c, st, iss, now, f) /\ Right(d, st, iss, now, f)
  BY <1>1, <1>2, <1>3, <1>4
<1>. QED  BY <1>5 DEF c, d

LEMMA TurnNewTtl ==
  ASSUME RInv, NEW r \in Reqs, NewTtl(r)
  PROVE  Turn(r)
<1>. DEFINE o == obj[r]
            t == Passed(o, o.csid)
            drop == [o EXCEPT !.pc = "cdel"]
            c == [o EXCEPT !.tp = t, !.pc = "oldttl"]
            b == store[o.csid].ttl > 0 /\ t < Inactive
            good == IF b THEN c ELSE drop
<1>1. o.pc = "newttl" /\ o.pc # "closed"
  BY DEF NewTtl, At
<1>2. /\ o \in Objects /\ o.ttl = issued[o.sid].ttl /\ Aim(o, issued)
  BY <1>1, Acting
<1>3. o.op = "tryRenew" /\ Other(o, issued)
  BY <1>1, <1>2 DEF Aim
<1>4. \A f : Right(drop, store, issued, clock, f)
  BY <1>2, <1>3, DropRight
<1>5. Ask(r, good, drop)
  BY DEF NewTtl
<1>6. t \in Nat
  <2>1. store[o.csid].ttl \in Nat /\ o.ttl \in Nat
    BY <1>2, <1>3, Typed DEF Other, Hashes, Objects
  <2>. QED  BY <2>1, PassedType
<1>. HIDE DEF t
<1>7. b => Right(c, store, issued, clock, faults)
  <2>. SUFFICES ASSUME b  PROVE Right(c, store, issued, clock, faults)
    OBVIOUS
  <2>1. [o EXCEPT !.tp = t] \in Objects
    BY <1>2, <1>6, RenewAssigned
  <2>2. c = [[o EXCEPT !.tp = t] EXCEPT !.pc = "oldttl"]
    BY <1>2 DEF Objects
  <2>3. c \in Objects
    BY <2>1, <2>2, Assigned, MorePoints
  <2>4. c.pc = "oldttl" /\ c.op = "tryRenew" /\ c.sid = o.sid /\ c.csid = o.csid /\ c.ttl = o.ttl
    BY <1>2, <1>3 DEF Objects
  <2>. HIDE DEF c
  <2>5. Aim(c, issued)
    BY <1>2, <1>3, <2>4 DEF Aim, Other, Condemning, Copying, Plain, Listing
  <2>6. Lasting(c, store, issued, clock)
    BY <2>4 DEF Lasting
  <2>. QED  BY <2>3, <2>4, <2>5, <2>6 DEF Right, Condemning, Copying
<1>. HIDE DEF b, c
<1>8. Right(good, store, issued, clock, faults)
  BY <1>4, <1>7
<1>. HIDE DEF good, drop
<1>. QED  BY <1>4, <1>5, <1>8, TurnAsk DEF Ask

(* An old session that goes has one that replaced it. *)
LEMMA TurnOldTtl ==
  ASSUME RInv, NEW r \in Reqs, OldTtl(r)
  PROVE  Turn(r)
<1>. DEFINE o == obj[r]
            b == store[o.sid].ttl > 0 /\ o.tp >= Passed(o, o.sid)
            good == IF b THEN [o EXCEPT !.tp = 0, !.pc = "cdel"] ELSE Condemn(o)
            a == [o EXCEPT !.op = "condemn"]
            c == [a EXCEPT !.tp = 0]
<1>1. o.pc = "oldttl" /\ o.pc # "closed"
  BY DEF OldTtl, At
<1>2. /\ o \in Objects /\ o.ttl = issued[o.sid].ttl /\ Aim(o, issued)
      /\ Right(o, store, issued, clock, faults)
  BY <1>1, Acting
<1>3. o.op = "tryRenew" /\ Other(o, issued) /\ Lasting(o, store, issued, clock)
  BY <1>1, <1>2 DEF Aim, Right
<1>4. Right([o EXCEPT !.tp = 0, !.pc = "cdel"], store, issued, clock, faults)
  BY <1>2, <1>3, DropRight
<1>5. Ask(r, good, Condemn(o))
  BY DEF OldTtl
<1>6. a \in Objects
  BY <1>2, Assigned DEF Calls
<1>7. c \in Objects
  BY <1>6, RenewAssigned
<1>8. c.op = "condemn" /\ c.sid = o.sid /\ c.csid = o.csid /\ c.ttl = o.ttl
  BY <1>2 DEF Objects
<1>9. Condemn(o) = User(c)
  BY <1>2 DEF Condemn, Objects
<1>. HIDE DEF c, b
<1>10. \A f : Poised(c, store, issued, clock, f)
  BY <1>2, <1>3, <1>7, <1>8 DEF Poised, Other, Lasting, Renewals
<1>11. \A f : Right(Condemn(o), store, issued, clock, f)
  BY <1>9, <1>10, UserRight
<1>12. Right(good, store, issued, clock, faults)
  BY <1>4, <1>11
<1>. HIDE DEF good
<1>. QED  BY <1>5, <1>11, <1>12, TurnAsk DEF Ask

(* The commands of try_renew on the other session. *)
LEMMA TurnOther ==
  ASSUME RInv, NEW r \in Reqs, DropNewer(r) \/ CloneTouch(r) \/ CloneSetNewId(r)
  PROVE  Turn(r)
<1>. DEFINE o == obj[r]
            h == store[o.csid]
<1>1. o.pc # "closed"
  BY DEF DropNewer, CloneTouch, CloneSetNewId, At
<1>2. /\ o \in Objects /\ o.sid \in Sids /\ issued[o.sid] # Nil /\ o.ttl = issued[o.sid].ttl
      /\ Aim(o, issued)
      /\ \A v \in Rets : \A st, f : Right(Return(o, v), st, issued, clock, f)
  BY <1>1, Acting
<1>3. CASE DropNewer(r)
  <2>1. \A st : Right(DoClone(o, "drop"), st, issued, clock, faults)
    BY <1>2, <1>3, DoCloneRight DEF DropNewer
  <2>2. Write(r, o.csid, Missing, DoClone(o, "drop"))
    BY <1>3 DEF DropNewer
  <2>. QED  BY <1>1, <2>1, <2>2, MissingKey, TurnWrite
<1>4. CASE CloneTouch(r) \/ CloneSetNewId(r)
  <2>1. o.pc \in {"ctouch", "csetnew"}
    BY <1>4 DEF CloneTouch, CloneSetNewId, At
  <2>2. o.op = "tryRenew" /\ Other(o, issued) /\ o.ttl = issued[o.csid].ttl
    BY <1>2, <2>1 DEF Aim, Copying, Renewals
  <2>3. /\ o.csid \in Sids /\ issued[o.csid] # Nil /\ h \in Hashes
        /\ Key(h, o.csid, issued, clock)
    BY <2>2, Typed DEF Other
  <2>4. issued[o.csid].born <= clock
    BY <2>3 DEF RInv, Stamped
  <2>5. /\ Key(Expire(h, o.ttl), o.csid, issued, clock)
        /\ Key(HSet(h, "newid", o.sid), o.csid, issued, clock)
    BY <1>2, <2>2, <2>3, <2>4, KeyOps, Typed DEF Other
  <2>6. CASE CloneTouch(r)
    <3>. DEFINE p == [o EXCEPT !.pc = "csetnew"]
                st == [store EXCEPT ![o.csid] = Expire(h, o.ttl)]
    <3>1. Await(r, st, umap, p, p)
      <4>1. p.csid = o.csid /\ p.ttl = o.ttl
        BY <1>2 DEF Objects
      <4>2. [store EXCEPT ![p.csid] = Expire(@, p.ttl)] = st
        BY <2>3, <4>1, Typed
      <4>. QED  BY <2>6, <4>2 DEF CloneTouch
    <3>2. /\ Poised(o, store, issued, clock, faults) /\ Poised(o, store, issued, clock, 1)
      BY <2>1, ActingPoised DEF Copying
    <3>3. /\ Poised(o, st, issued, clock, faults) /\ Poised(o, st, issued, clock, 1)
      BY <2>2, <3>2, PoisedKey DEF Other
    <3>4. Keys(st, issued, clock)
      BY <2>5, KeysWith
    <3>. HIDE DEF st
    <3>5. /\ Right(p, st, issued, clock, faults) /\ Right(p, st, issued, clock, 1)
          /\ Right(p, store, issued, clock, 1)
      BY <2>2, <3>2, <3>3, MoveRight, MorePoints DEF Plain, Listing
    <3>. HIDE DEF p
    <3>. QED  BY <3>1, <3>4, <3>5, TurnAwait
  <2>7. CASE CloneSetNewId(r)
    <3>1. Write(r, o.csid, HSet(h, "newid", o.sid), Return(o, "true"))
      BY <2>7 DEF CloneSetNewId
    <3>2. \A st : Right(Return(o, "true"), st, issued, clock, faults)
      BY <1>2 DEF Rets
    <3>. QED  BY <1>1, <2>5, <3>1, <3>2, TurnWrite
  <2>. QED  BY <1>4, <2>6, <2>7
<1>. QED  BY <1>3, <1>4

(* A new id names no key and is logged in none. *)
LEMMA KeysGenerated ==
  ASSUME RInv, NEW n \in Fresh, NEW t \in Nat,
         issued' = [issued EXCEPT ![n] = [ttl |-> t, born |-> clock]], UNCHANGED <<store, clock>>
  PROVE  /\ Keys(store', issued', clock') /\ Stamped(issued', clock')
         /\ n \in Sids /\ issued[n] = Nil /\ store[n] = Missing
         /\ issued'[n] # Nil /\ issued'[n].ttl = t /\ issued'[n].born = clock
         /\ \A s \in Sids \ {n} : issued'[s] = issued[s]
<1>. DEFINE i == [ttl |-> t, born |-> clock]
<1>1. n \in Sids /\ issued[n] = Nil
  BY DEF Fresh
<1>2. i \in [ttl : Nat, born : Nat] /\ i.ttl = t /\ i.born = clock
  BY Typed
<1>3. i # Nil
  BY <1>2, ConstantsOK
<1>. HIDE DEF i
<1>4. issued'[n] = i /\ \A s \in Sids \ {n} : issued'[s] = issued[s]
  BY <1>1, Typed DEF Issues, i
<1>5. store[n] = Missing
  BY <1>1, Typed DEF Key
<1>6. \A s : issued[s] # Nil => issued'[s] # Nil
  BY <1>1, <1>3, <1>4, Typed DEF Issues, i
<1>7. ASSUME NEW s \in Sids  PROVE Key(store[s], s, issued', clock)
  <2>1. CASE s = n
    BY <1>5, <2>1, MissingKey
  <2>2. CASE s # n
    <3>1. Key(store[s], s, issued, clock) /\ issued'[s] = issued[s]
      BY <1>4, <2>2, Typed
    <3>. QED  BY <1>6, <3>1 DEF Key
  <2>. QED  BY <2>1, <2>2
<1>8. Stamped(issued', clock)
  BY <1>2, <1>4, Typed DEF RInv, Stamped
<1>. QED  BY <1>1, <1>2, <1>3, <1>4, <1>5, <1>7, <1>8 DEF Keys

(* What session::renew read of the old session. *)
LEMMA FilteredHash ==
  ASSUME NEW o \in Objects, NEW h \in Hashes
  PROVE  /\ Filtered(o, h) \in Hashes /\ Filtered(o, h).newid \in {h.newid, Nil}
         /\ o.op = "tryRenew" /\ (o.mode = "drop" \/ h.newid = Nil) => Filtered(o, h).newid = Nil
<1>1. o.user \in Profiles \cup {Nil}
  BY DEF Objects
<1>2. CASE o.op = "tryRenew"
  <2>1. Filtered(o, h) = IF o.mode = "drop" THEN [h EXCEPT !.newid = Nil] ELSE h
    BY <1>2 DEF Filtered
  <2>2. [h EXCEPT !.newid = Nil] \in Hashes /\ [h EXCEPT !.newid = Nil].newid = Nil
    BY DEF Hashes
  <2>. QED  BY <2>1, <2>2
<1>3. CASE o.op # "tryRenew"
  <2>1. Filtered(o, h) = IF o.user # Nil THEN [h EXCEPT !.user = o.user] ELSE h
    BY <1>3 DEF Filtered
  <2>2. [h EXCEPT !.user = o.user] \in Hashes /\ [h EXCEPT !.user = o.user].newid = h.newid
    BY <1>1 DEF Hashes
  <2>. QED  BY <1>3, <2>1, <2>2
<1>. QED  BY <1>2, <1>3

LEMMA TurnRenewed ==
  ASSUME RInv, NEW r \in Reqs, obj[r].pc = "raw", NEW n \in Fresh, UNCHANGED <<store, clock>>,
         issued' = [issued EXCEPT ![n] = [ttl |-> obj[r].ttl, born |-> clock]], UNCHANGED faults,
         obj' = [obj EXCEPT ![r] = Renewed(obj[r], n, Filtered(obj[r], store[obj[r].sid]))]
  PROVE  Turn(r)
<1>. DEFINE o == obj[r]
            h == store[o.sid]
            raw == Filtered(o, h)
            q == [raw EXCEPT !.ttl = 0]
            p == [o EXCEPT !.sid = n, !.touches = "none"]
            l == [p EXCEPT !.raw = q, !.pc = "load"]
            u == [p EXCEPT !.loaded = FALSE, !.pc = "user"]
<1>1. /\ o \in Objects /\ o.sid \in Sids /\ o.ttl = issued[o.sid].ttl /\ issued[o.sid] # Nil
      /\ h \in Hashes /\ Key(h, o.sid, issued, clock) /\ Aim(o, issued)
      /\ Right(o, store, issued, clock, faults)
  BY Acting
<1>2. o.op \in Renewals /\ o.csid = o.sid /\ o.ttl \in Nat
  BY <1>1 DEF Aim, Objects
<1>3. /\ Keys(store', issued', clock') /\ Stamped(issued', clock')
      /\ n \in Sids /\ issued[n] = Nil /\ store[n] = Missing
      /\ issued'[n] # Nil /\ issued'[n].ttl = o.ttl
      /\ \A s \in Sids \ {n} : issued'[s] = issued[s]
  BY <1>2, KeysGenerated
<1>4. raw \in Hashes /\ raw.newid \in {h.newid, Nil}
  BY <1>1, FilteredHash
<1>5. faults = 0 /\ o.op = "tryRenew" => raw.newid = Nil
  BY <1>1, FilteredHash DEF Right
<1>. HIDE DEF raw
<1>6. q \in Hashes /\ q.newid = raw.newid
  BY <1>4 DEF Hashes
<1>7. q.newid # n /\ (q.newid # Nil => issued'[q.newid] # Nil)
  <2>1. h.newid # Nil => issued[h.newid] # Nil /\ h.newid \in Sids
    BY <1>1 DEF Key, Hashes
  <2>2. n # Nil
    BY <1>3, Constants
  <2>. QED  BY <1>3, <1>4, <1>6, <2>1, <2>2
<1>8. p \in Objects
  BY <1>1, <1>3, Assigned
<1>9. /\ p.sid = n /\ p.op = o.op /\ p.csid = o.sid /\ p.ttl = o.ttl
  BY <1>1, <1>2 DEF Objects
<1>. HIDE DEF p, q
<1>10. Other(p, issued') /\ p.ttl = issued'[p.csid].ttl /\ p.ttl = issued'[p.sid].ttl
  BY <1>1, <1>3, <1>9 DEF Other
<1>11. Poised(p, store, issued', clock, faults)
  BY <1>2, <1>3, <1>8, <1>9, <1>10, MissingKey DEF Poised, Renewals
<1>12. Right(u, store, issued', clock, faults)
  <2>1. Poised([p EXCEPT !.loaded = FALSE], store, issued', clock, faults)
    BY <1>11, PoisedUser
  <2>2. u = [[p EXCEPT !.loaded = FALSE] EXCEPT !.pc = "user"]
    BY <1>8 DEF Objects
  <2>. QED  BY <2>1, <2>2, MoveRight, PointsReached DEF Plain, Listing
<1>13. Right(l, store, issued', clock, faults)
  <2>1. [p EXCEPT !.raw = q] \in Objects
    BY <1>6, <1>8, Assigned
  <2>2. l = [[p EXCEPT !.raw = q] EXCEPT !.pc = "load"]
    BY <1>8 DEF Objects
  <2>3. l \in Objects
    BY <2>1, <2>2, Assigned, PointsReached
  <2>4. /\ l.pc = "load" /\ l.op = o.op /\ l.sid = n /\ l.csid = o.sid /\ l.ttl = o.ttl
        /\ l.raw = q
    BY <1>8, <1>9 DEF Objects
  <2>. HIDE DEF l
  <2>5. Aim(l, issued')
    BY <1>2, <1>7, <1>9, <1>10, <2>4 DEF Aim, Other, Condemning, Plain, Listing, Renewals
  <2>6. faults = 0 /\ l.op = "tryRenew" => l.raw.newid = Nil /\ store[l.sid].newid = Nil
    BY <1>3, <1>5, <1>6, <2>4, MissingKey
  <2>. QED  BY <1>2, <2>3, <2>4, <2>5, <2>6 DEF Right, Condemning, Renewals
<1>. HIDE DEF l, u
<1>14. Renewed(o, n, raw) \in {l, u}
  BY DEF Renewed, l, u, p, q
<1>15. obj'[r] = Renewed(o, n, raw)
  BY Typed DEF raw
<1>. QED  BY <1>3, <1>12, <1>13, <1>14, <1>15 DEF Turn

LEMMA TurnRaw ==
  ASSUME RInv, NEW r \in Reqs, Raw(r)
  PROVE  Turn(r)
<1>. DEFINE o == obj[r]
            p == [o EXCEPT !.touches = "none"]
<1>1. o.pc = "raw" /\ UNCHANGED <<store, clock>>
  BY DEF Raw, At
<1>2. /\ o \in Objects /\ o.ttl = issued[o.sid].ttl
      /\ \A v \in Rets : \A st, f : Right(Return(o, v), st, issued, clock, f)
  BY <1>1, Acting
<1>3. \A st, f : Right(Return(p, "err"), st, issued, clock, f)
  <2>1. p \in Objects
    BY <1>2, Assigned
  <2>2. p.sid = o.sid /\ p.ttl = o.ttl
    BY <1>2 DEF Objects
  <2>. HIDE DEF p
  <2>. QED  BY <1>2, <2>1, <2>2, ReturnRight DEF Rets
<1>4. ASSUME NEW q \in {Return(o, "err"), Return(p, "err")}, obj' = [obj EXCEPT ![r] = q],
             UNCHANGED issued
      PROVE  Turn(r)
  <2>1. obj'[r] = q
    BY <1>4, Typed
  <2>2. Right(q, store', issued', clock', faults')
    BY <1>1, <1>2, <1>3, <1>4 DEF Rets
  <2>. QED  BY <1>1, <1>4, <2>1, <2>2 DEF Turn, RInv
<1>5. \/ \E n \in Fresh :
           /\ issued' = [issued EXCEPT ![n] = [ttl |-> o.ttl, born |-> clock]]
           /\ obj' = [obj EXCEPT ![r] = Renewed(o, n, Filtered(o, store[o.sid]))]
           /\ UNCHANGED faults
      \/ obj' = [obj EXCEPT ![r] = Return(p, "err")] /\ UNCHANGED issued
      \/ obj' = [obj EXCEPT ![r] = Return(o, "err")] /\ UNCHANGED issued
  BY DEF Raw
<1>6. CASE \E n \in Fresh :
           /\ issued' = [issued EXCEPT ![n] = [ttl |-> o.ttl, born |-> clock]]
           /\ obj' = [obj EXCEPT ![r] = Renewed(o, n, Filtered(o, store[o.sid]))]
           /\ UNCHANGED faults
  BY <1>1, <1>6, TurnRenewed
<1>. HIDE DEF p
<1>. QED  BY <1>4, <1>5, <1>6

LEMMA TurnCommand ==
  ASSUME RInv, NEW r \in Reqs, Command(r) \/ TryRenew(r)
  PROVE  Turn(r)
BY TurnLoadUser, TurnSilent, TurnTouch, TurnRaw, TurnLoad, TurnIndex, TurnDelete, TurnListing,
   TurnSyncSet, TurnGetNewId, TurnNewTtl, TurnOldTtl, TurnOther
DEF Command, TryRenew

-----------------------------------------------------------------------------
(* One request at a time: the calls *)

LEMMA TurnCall ==
  ASSUME RInv, NEW r \in Reqs, NEW op, NEW o, Call(r, op, o),
         Right(o, store, issued, clock, faults)
  PROVE  Turn(r)
<1>1. obj'[r] = o /\ UNCHANGED <<store, issued, clock, faults>>
  BY Typed DEF Call
<1>. QED  BY <1>1 DEF Turn, RInv

LEMMA BeginRight ==
  ASSUME RInv, NEW r \in Reqs, obj[r].pc = "ready", NEW op \in Calls
  PROVE  LET b == Begin(obj[r], op) IN
         /\ b \in Objects /\ b.op = op /\ b.ttl = issued[b.sid].ttl
         /\ op \notin Renewals \cup {"condemn"} => Poised(b, store, issued, clock, faults)
<1>. DEFINE b == Begin(obj[r], op)
<1>1. obj[r] \in Objects /\ obj[r].ttl = issued[obj[r].sid].ttl
  BY Acting
<1>2. b \in Objects /\ b.op = op /\ b.sid = obj[r].sid
  BY BeginBase DEF RInv, CInv
<1>3. b.ttl = obj[r].ttl
  BY <1>1 DEF Begin, Objects
<1>. HIDE DEF b
<1>4. op \notin Renewals \cup {"condemn"} => Poised(b, store, issued, clock, faults)
  BY <1>1, <1>2, <1>3, PlainPoised
<1>. QED  BY <1>1, <1>2, <1>3, <1>4 DEF b

LEMMA TurnPlainCall ==
  ASSUME RInv, NEW r \in Reqs,
         \/ CallUser(r) \/ CallGet(r) \/ CallDel(r) \/ CallTouch(r) \/ CallLogout(r) \/ CallDestroy(r)
         \/ (\E d \in Datas : CallSet(r, d)) \/ \E p \in Profiles : CallSync(r, p)
  PROVE  Turn(r)
<1>. DEFINE b(op) == Begin(obj[r], op)
            Plainly == {"user", "set", "get", "del", "touch", "logout", "destroy", "sync"}
<1>1. obj[r].pc = "ready"
  BY DEF CallUser, CallGet, CallDel, CallTouch, CallLogout, CallDestroy, CallSet, CallSync, Call
<1>2. \A op \in Plainly :
        /\ b(op) \in Objects /\ b(op).op = op /\ Poised(b(op), store, issued, clock, faults)
  BY <1>1, BeginRight DEF Calls, Renewals
<1>. HIDE DEF b
<1>3. \A op \in Plainly : /\ Right(User(b(op)), store, issued, clock, faults)
                          /\ Right(TryTouch(b(op)), store, issued, clock, faults)
  BY <1>2, UserRight, TryTouchRight
<1>4. CASE CallUser(r) \/ CallLogout(r) \/ CallDestroy(r) \/ CallTouch(r)
  BY <1>3, <1>4, TurnCall DEF CallUser, CallLogout, CallDestroy, CallTouch, b
<1>5. \A op \in {"get", "del"} : Right([b(op) EXCEPT !.pc = op], store, issued, clock, faults)
  BY <1>2, MoveRight, PointsReached DEF Renewals
<1>6. CASE CallGet(r) \/ CallDel(r)
  BY <1>5, <1>6, TurnCall DEF CallGet, CallDel, b
<1>7. ASSUME NEW op \in {"set", "sync"}, NEW pc \in {"set", "smembers"},
             NEW a \in Profiles \cup Datas, Call(r, op, [b(op) EXCEPT !.arg = a, !.pc = pc])
      PROVE  Turn(r)
  <2>. DEFINE p == [b(op) EXCEPT !.arg = a]
  <2>1. b(op) \in Objects /\ b(op).op = op /\ Poised(b(op), store, issued, clock, faults)
    BY <1>2
  <2>2. p \in Objects
    BY <2>1, Assigned
  <2>3. p.op = op /\ p.sid = b(op).sid /\ p.csid = b(op).csid /\ p.ttl = b(op).ttl
    BY <2>1 DEF Objects
  <2>4. [b(op) EXCEPT !.arg = a, !.pc = pc] = [p EXCEPT !.pc = pc]
    BY <2>1 DEF Objects
  <2>. HIDE DEF p
  <2>5. Poised(p, store, issued, clock, faults)
    BY <2>1, <2>2, <2>3, PoisedSame
  <2>6. Right([p EXCEPT !.pc = pc], store, issued, clock, faults)
    BY <2>3, <2>5, MoveRight, PointsReached DEF Renewals
  <2>. QED  BY <1>7, <2>4, <2>6, TurnCall
<1>8. CASE (\E d \in Datas : CallSet(r, d)) \/ \E p \in Profiles : CallSync(r, p)
  <2>1. ASSUME NEW d \in Datas, CallSet(r, d)  PROVE Turn(r)
    <3>1. Call(r, "set", [b("set") EXCEPT !.arg = d, !.pc = "set"])
      BY <2>1 DEF CallSet, b
    <3>. QED  BY <1>7, <3>1
  <2>2. ASSUME NEW p \in Profiles, CallSync(r, p)  PROVE Turn(r)
    <3>1. Call(r, "sync", [b("sync") EXCEPT !.arg = p, !.pc = "smembers"])
      BY <2>2 DEF CallSync, b
    <3>. QED  BY <1>7, <3>1
  <2>. QED  BY <1>8, <2>1, <2>2
<1>. QED  BY <1>4, <1>6, <1>8

LEMMA TurnRenewingCall ==
  ASSUME RInv, NEW r \in Reqs, CallAutoLogin(r) \/ CallTryRenew(r)
  PROVE  Turn(r)
<1>1. obj[r].pc = "ready"
  BY DEF CallAutoLogin, CallTryRenew, Call
<1>2. CASE CallAutoLogin(r)
  <2>. DEFINE b == Begin(obj[r], "autoLogin")
              l == LogIn(b)
  <2>1. b \in Objects /\ b.op = "autoLogin" /\ b.ttl = issued[b.sid].ttl
    BY <1>1, BeginRight DEF Calls
  <2>2. Call(r, "autoLogin", l)
    BY <1>2 DEF CallAutoLogin
  <2>. HIDE DEF b
  <2>3. b.sid \in Sids \cup {Nil} /\ b.user \in Profiles \cup {Nil}
    BY <2>1 DEF Objects
  <2>4. l \in Objects
    BY <2>1, <2>3, PointsReached DEF LogIn, Objects
  <2>5. l.pc = "raw" /\ l.op = "autoLogin" /\ l.sid = b.sid /\ l.csid = b.sid /\ l.ttl = b.ttl
    BY <2>1 DEF LogIn, Objects
  <2>. HIDE DEF l
  <2>6. Aim(l, issued)
    BY <2>1, <2>5 DEF Aim, Condemning, Copying, Plain, Listing, Renewals
  <2>7. Right(l, store, issued, clock, faults)
    BY <2>4, <2>5, <2>6 DEF Right, Condemning
  <2>. QED  BY <2>2, <2>7, TurnCall
<1>3. CASE CallTryRenew(r)
  <2>. DEFINE b == Begin(obj[r], "tryRenew")
              since == clock - issued[b.sid].born - Interval
              m == IF since > Judgment THEN "judge" ELSE "young"
              a == [b EXCEPT !.mode = m]
              p == [a EXCEPT !.pc = "newid"]
  <2>1. b \in Objects /\ b.op = "tryRenew" /\ b.ttl = issued[b.sid].ttl
    BY <1>1, BeginRight DEF Calls
  <2>2. m \in {"judge", "young"}
    OBVIOUS
  <2>3. [b EXCEPT !.pc = "newid", !.mode = m] = p
    BY <2>1 DEF Objects
  <2>4. Call(r, "tryRenew", IF since < 0 THEN Keep(b) ELSE p)
    BY <1>3, <2>3 DEF CallTryRenew
  <2>. HIDE DEF b, m, since
  <2>5. a \in Objects
    BY <2>1, <2>2, RenewAssigned
  <2>6. p \in Objects
    BY <2>5, Assigned, MorePoints
  <2>7. p.pc = "newid" /\ p.op = "tryRenew" /\ p.sid = b.sid /\ p.ttl = b.ttl
    BY <2>1, <2>5 DEF Objects
  <2>. HIDE DEF p
  <2>8. Aim(p, issued)
    BY <2>1, <2>7 DEF Aim, Condemning, Copying, Plain, Listing
  <2>9. Right(p, store, issued, clock, faults)
    BY <2>6, <2>7, <2>8 DEF Right, Condemning, Copying
  <2>10. Right(Keep(b), store, issued, clock, faults)
    BY <2>1, KeepRight
  <2>. QED  BY <2>4, <2>9, <2>10, TurnCall
<1>. QED  BY <1>2, <1>3

LEMMA OpenedRight ==
  ASSUME NEW s \in Sids, NEW t \in Nat, NEW iss, iss[s].ttl = t
  PROVE  \A st, now, f : Right(Object(s, t), st, iss, now, f)
<1>. DEFINE o == Object(s, t)
<1>1. o \in Objects
  BY ObjectGood DEF Good
<1>2. o.pc = "ready" /\ o.op = "none" /\ o.sid = s /\ o.ttl = t
  BY DEF Object
<1>. HIDE DEF o
<1>3. \A st, now, f : Right(o, st, iss, now, f)
  BY <1>1, <1>2 DEF Right, Aim, Condemning, Copying, Plain, Listing
<1>. QED  BY <1>3 DEF o

LEMMA ClosedRight == \A st, iss, now, f : Right(Closed, st, iss, now, f)
<1>1. Closed \in Objects
  BY AClosedFit DEF Fit
<1>2. Closed.pc = "closed" /\ Closed.op = "none"
  BY DEF Closed, Object
<1>3. \A o \in Objects : \A st, iss, now, f :
        o.pc = "closed" /\ o.op = "none" => Right(o, st, iss, now, f)
  BY DEF Right, Aim, Condemning, Copying, Plain, Listing
<1>. QED  BY <1>1, <1>2, <1>3

LEMMA TurnRequest ==
  ASSUME RInv, NEW r \in Reqs,
         \/ Close(r) \/ Drop(r) \/ (\E s \in Sids : OpenWith(r, s))
         \/ \E s \in Sids, t \in Ttls : OpenNew(r, s, t)
  PROVE  Turn(r)
<1>1. CASE Close(r) \/ Drop(r)
  <2>1. obj'[r] = Closed /\ UNCHANGED <<store, issued, clock>>
    BY <1>1, Typed DEF Close, Drop
  <2>2. Right(Closed, store', issued', clock', faults')
    BY ClosedRight
  <2>. QED  BY <2>1, <2>2 DEF Turn, RInv
<1>2. ASSUME NEW s \in Sids, OpenWith(r, s)  PROVE Turn(r)
  <2>1. obj'[r] = Object(s, issued[s].ttl) /\ UNCHANGED <<store, issued, clock, faults>>
    BY <1>2, Typed DEF OpenWith
  <2>2. issued[s].ttl \in Nat
    <3>1. issued[s] # Nil
      BY <1>2 DEF OpenWith, RInv, CInv, AInv, TypeOK, Fresh
    <3>. QED  BY <3>1, IssueTypes, Typed
  <2>3. Right(obj'[r], store', issued', clock', faults')
    BY <2>1, <2>2, OpenedRight
  <2>. QED  BY <2>1, <2>3 DEF Turn, RInv
<1>3. ASSUME NEW s \in Sids, NEW t \in Ttls, OpenNew(r, s, t)  PROVE Turn(r)
  <2>1. /\ t \in Nat /\ s \in Fresh /\ UNCHANGED <<store, clock>>
        /\ issued' = [issued EXCEPT ![s] = [ttl |-> t, born |-> clock]]
        /\ obj'[r] = Object(s, t)
    BY <1>3, Typed, Constants DEF OpenNew
  <2>2. /\ Keys(store', issued', clock') /\ Stamped(issued', clock')
        /\ issued'[s].ttl = t
    BY <2>1, KeysGenerated
  <2>3. Right(obj'[r], store', issued', clock', faults')
    BY <2>1, <2>2, OpenedRight
  <2>. QED  BY <2>2, <2>3 DEF Turn
<1>. QED  BY <1>1, <1>2, <1>3

-----------------------------------------------------------------------------
(* One request at a time: the invariant *)

LEMMA TickRight ==
  ASSUME RInv, Tick
  PROVE  /\ Keys(store', issued', clock') /\ Stamped(issued', clock')
         /\ \A r \in Reqs : Right(obj'[r], store', issued', clock', faults')
<1>1. clock' = clock + 1 /\ UNCHANGED <<issued, obj, faults>>
  BY DEF Tick
<1>2. \A s \in Sids : store'[s] = Age(store[s], Missing)
  BY DEF Tick
<1>3. \A s \in Sids : issued[s] = Nil => store'[s] = Missing
  <2>. SUFFICES ASSUME NEW s \in Sids, issued[s] = Nil  PROVE store'[s] = Missing
    OBVIOUS
  <2>1. store[s] = Missing
    BY Typed DEF Key
  <2>2. Age(Missing, Missing) = Missing
    BY MissingKey DEF Age
  <2>. QED  BY <1>2, <2>1, <2>2
<1>4. \A s \in Sids : issued[s] # Nil =>
        /\ Key(store'[s], s, issued, clock + 1) /\ store'[s].newid \in {store[s].newid, Nil}
        /\ store[s].ttl > 0 /\ clock + 1 < issued[s].born + issued[s].ttl => store'[s].ttl > 0
  <2>. SUFFICES ASSUME NEW s \in Sids, issued[s] # Nil
                PROVE  /\ Key(store'[s], s, issued, clock + 1)
                       /\ store'[s].newid \in {store[s].newid, Nil}
                       /\ store[s].ttl > 0 /\ clock + 1 < issued[s].born + issued[s].ttl
                            => store'[s].ttl > 0
    OBVIOUS
  <2>1. store[s] \in Hashes /\ Key(store[s], s, issued, clock)
    BY Typed
  <2>. QED  BY <1>2, <2>1, KeyAge, Typed
<1>5. Keys(store', issued', clock')
  BY <1>1, <1>3, <1>4, MissingKey DEF Keys
<1>6. Stamped(issued', clock')
  <2>. SUFFICES ASSUME NEW s \in Sids, issued[s] # Nil  PROVE issued[s].born <= clock + 1
    BY <1>1 DEF Stamped
  <2>1. issued[s].born \in Nat /\ issued[s].born <= clock
    BY IssueTypes, Typed DEF RInv, Stamped
  <2>. QED  BY <2>1, Typed
<1>7. ASSUME NEW r \in Reqs  PROVE Right(obj[r], store', issued, clock + 1, faults)
  <2>. DEFINE o == obj[r]
  <2>1. Right(o, store, issued, clock, faults)
    BY DEF RInv
  <2>2. CASE o.pc = "closed"
    BY <2>1, <2>2 DEF Right, Condemning, Copying
  <2>3. CASE o.pc # "closed"
    <3>1. o.sid \in Sids /\ issued[o.sid] # Nil
      BY <2>3, Acting
    <3>2. store'[o.sid].newid \in {store[o.sid].newid, Nil}
      BY <1>4, <3>1
    <3>3. o.pc = "oldttl" \/ Condemning(o) => Lasting(o, store', issued, clock + 1)
      <4>. SUFFICES ASSUME o.pc = "oldttl" \/ Condemning(o),
                           clock + 1 < issued[o.csid].born + issued[o.csid].ttl
                    PROVE  store'[o.csid].ttl > 0
        BY DEF Lasting
      <4>1. Other(o, issued) /\ Lasting(o, store, issued, clock)
        BY <2>1 DEF Right, Aim
      <4>2. o.csid \in Sids /\ issued[o.csid] # Nil
        BY <4>1 DEF Other
      <4>3. issued[o.csid].born \in Nat /\ issued[o.csid].ttl \in Nat
        BY <4>2, IssueTypes, Typed
      <4>4. store[o.csid].ttl > 0
        BY <4>1, <4>3, Typed DEF Lasting
      <4>. QED  BY <1>4, <4>2, <4>4
    <3>. HIDE DEF o
    <3>4. Right(o, store', issued, clock + 1, faults)
      BY <2>1, <3>2, <3>3 DEF Right
    <3>. QED  BY <3>4 DEF o
  <2>. QED  BY <2>2, <2>3
<1>. QED  BY <1>1, <1>5, <1>6, <1>7

LEMMA StartRInv == RenewStart => RInv
<1>. SUFFICES ASSUME RenewStart  PROVE RInv
  OBVIOUS
<1>1. \A r \in Reqs : Right(obj[r], store, issued, clock, faults)
  BY ClosedRight DEF RenewStart
<1>. QED  BY <1>1, StartCInv DEF RInv, RenewStart

LEMMA NextRInv == OneAtATime /\ "login" \notin Ops /\ RInv /\ [RenewNext]_vars => RInv'
<1>. SUFFICES ASSUME OneAtATime, "login" \notin Ops, RInv, [RenewNext]_vars  PROVE RInv'
  OBVIOUS
<1>1. CInv'
  BY NextCInv DEF RInv
<1>2. ASSUME NEW r \in Reqs, Turn(r)  PROVE RInv'
  BY <1>1, <1>2 DEF RInv, Turn, OneAtATime
<1>3. CASE UNCHANGED vars
  <2>1. UNCHANGED <<store, issued, obj, clock, faults>>
    BY <1>3 DEF vars
  <2>. QED  BY <1>1, <2>1 DEF RInv
<1>4. CASE Tick
  BY <1>1, <1>4, TickRight DEF RInv
<1>5. ASSUME NEW r \in Reqs, Command(r) \/ TryRenew(r)  PROVE RInv'
  BY <1>2, <1>5, TurnCommand
<1>6. ASSUME NEW r \in Reqs, AnyCall(r) \/ CallTryRenew(r)  PROVE RInv'
  <2>1. ~ \E p \in Profiles, t \in Ttls : CallLogin(r, p, t)
    BY DEF CallLogin, Call
  <2>. QED  BY <1>2, <1>6, <2>1, TurnPlainCall, TurnRenewingCall DEF AnyCall
<1>7. ASSUME NEW r \in Reqs, Request(r) \/ Drop(r)  PROVE RInv'
  BY <1>2, <1>5, <1>6, <1>7, TurnRequest DEF Request
<1>. QED  BY <1>3, <1>4, <1>5, <1>6, <1>7 DEF RenewNext, Next

(* Every state of one request at a time satisfies the invariant. *)
THEOREM OneRequestInvariance ==
  ASSUME OneAtATime, "login" \notin Ops
  PROVE  RenewStart /\ [][RenewNext]_vars => []RInv
BY StartRInv, NextRInv, PTL

(***************************************************************************)
(* Renewed again and again, one request at a time, a session never carries *)
(* the id of the session that it replaced, nor that of one that replaced   *)
(* an earlier one: what do_clone filters (auto.rs).                        *)
(***************************************************************************)
THEOREM RenewClean ==
  ASSUME OneAtATime, "login" \notin Ops, "autoLogin" \notin Ops
  PROVE  RenewStart /\ [][RenewNext]_vars => []RenewedIsClean
<1>1. RInv => RenewedIsClean
  <2>. SUFFICES ASSUME RInv, faults = 0, NEW r \in Reqs,
                       \/ obj[r].pc \in {"ctouch", "csetnew"}
                       \/ obj[r].op \in {"login", "autoLogin"} /\ obj[r].pc \in {"csrem", "cdel"}
                PROVE  store[obj[r].sid].newid = Nil
    BY DEF RenewedIsClean
  <2>1. obj[r].pc \in {"ctouch", "csetnew"}
    BY DEF RInv, CInv, Explored
  <2>2. Right(obj[r], store, issued, clock, faults)
    BY DEF RInv
  <2>3. obj[r].op = "tryRenew"
    BY <2>1, <2>2 DEF Right, Aim
  <2>. QED  BY <2>1, <2>2, <2>3 DEF Right, Copying
<1>. QED  BY <1>1, OneRequestInvariance, PTL

(***************************************************************************)
(* try_renew destroys an old session only while the one that replaced it   *)
(* is there, whichever of its TTL reads fails and however long the id      *)
(* lives, as long as requests come one at a time (auto.rs).                *)
(***************************************************************************)
THEOREM RenewReplaces ==
  ASSUME OneAtATime, "login" \notin Ops
  PROVE  RenewStart /\ [][RenewNext]_vars => []CondemnedHasSuccessor
<1>1. RInv => CondemnedHasSuccessor
  <2>. SUFFICES ASSUME RInv, NEW r \in Reqs, obj[r].op = "condemn", ~ Idle(r)
                PROVE  /\ obj[r].csid # obj[r].sid
                       /\ clock < issued[obj[r].csid].born + issued[obj[r].csid].ttl
                            => Exists(store[obj[r].csid])
    BY DEF CondemnedHasSuccessor
  <2>1. Condemning(obj[r])
    BY DEF Condemning, Idle
  <2>2. Right(obj[r], store, issued, clock, faults)
    BY DEF RInv
  <2>3. Other(obj[r], issued) /\ Lasting(obj[r], store, issued, clock)
    BY <2>1, <2>2 DEF Right, Aim
  <2>4. obj[r].csid \in Sids /\ obj[r].csid # obj[r].sid
    BY <2>3 DEF Other
  <2>5. Key(store[obj[r].csid], obj[r].csid, issued, clock)
    BY <2>4, Typed
  <2>. QED  BY <2>3, <2>4, <2>5 DEF Lasting, Key
<1>. QED  BY <1>1, OneRequestInvariance, PTL
=============================================================================
