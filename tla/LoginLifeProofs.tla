--------------------------- MODULE LoginLifeProofs --------------------------
(***************************************************************************)
(* As long as the application never calls sync, UserSession implements     *)
(* LoginLife, for every number of requests, ids, users, failures and       *)
(* ticks.                                                                  *)
(*                                                                         *)
(* LifeImplemented : Spec => ImplementsLife                                *)
(* OverIsOver      : Spec => NoRevival                                     *)
(*                                                                         *)
(* Both need the hypothesis: sync writes into ids it listed earlier, and   *)
(* the run "revival" shows it bring back a login that is over.  Of every   *)
(* other command SuccessorProofs says what it reaches: none makes a login  *)
(* but load, and load writes under an id only its own request knows.       *)
(*                                                                         *)
(* The second half is about what is left in Redis at rest: Expiring,       *)
(* Mapped, Synced.                                                         *)
(***************************************************************************)
EXTENDS SuccessorProofs

(* Nobody is in a sync. *)
NoSync == \A r \in Reqs : obj[r].pc \notin Listing

LInv == SInv /\ NoSync

LEMMA InitLInv == Init => LInv
<1>1. Closed.pc \notin Listing
  BY DEF Closed, Object, Listing
<1>. QED  BY <1>1, InitSInv DEF Init, LInv, NoSync

LEMMA NextLInv ==
  ASSUME "sync" \notin Ops
  PROVE  LInv /\ [Next]_vars => LInv'
<1>. SUFFICES ASSUME LInv, [Next]_vars  PROVE LInv'
  OBVIOUS
<1>1. SInv'
  BY NextSInv DEF LInv
<1>2. CASE UNCHANGED vars \/ Tick
  BY <1>1, <1>2 DEF vars, Tick, LInv, NoSync
<1>3. ASSUME NEW r \in Reqs, Request(r)
      PROVE  NoSync'
  <2>1. Keeps(r)
    BY <1>3, RequestKeeps DEF LInv
  <2>. QED  BY <2>1 DEF Keeps, Within, LInv, NoSync
<1>. QED  BY <1>1, <1>2, <1>3 DEF Next, LInv

-----------------------------------------------------------------------------
(* The three steps of a life *)

(* An id about to be loaded carries no login yet. *)
LEMMA PendingIsEmpty ==
  ASSUME SInv, NEW s \in Sids, Pending(s)
  PROVE  store[s].user = Nil /\ issued[s] # Nil
<1>1. PICK r \in Reqs : obj[r].pc = "load" /\ obj[r].sid = s
  BY DEF Pending
<1>2. Steady(obj[r], store, issued, clock) /\ Held(obj[r], issued)
  BY <1>1, Under, Objs DEF SInv
<1>. QED  BY <1>1, <1>2 DEF Steady, Held

(* A login that is stored is some user's. *)
LEMMA LoginHasUser ==
  ASSUME SInv, NEW s \in Sids, store[s].user # Nil
  PROVE  UidOf(store[s].user) = owner[s] /\ owner[s] \in Uids /\ issued[s] # Nil
<1>1. store[s].user \in Profiles /\ store[s].user.uid = owner[s]
  BY DEF SInv, IInv, TypeOK, Hashes, StoreOwned
<1>. QED  BY <1>1, Constants DEF UidOf, SInv, IInv

(* A step that makes no login and prepares none ends any number of them. *)
LEMMA EndingStep ==
  ASSUME SInv, SInv', issued' = issued,
         \A s \in Sids : store'[s].user \in {Nil, store[s].user},
         \A s \in Sids : Pending(s)' => Pending(s)
  PROVE  Life!Next
<1>. DEFINE S == {s \in Sids : LifeOf(s)' # LifeOf(s)}
<1>1. \A s \in Sids : Pending(s) => store[s].user = Nil
  BY PendingIsEmpty
<1>2. ASSUME NEW s \in S
      PROVE  /\ LifeOf(s) \in {"pending", "live"} /\ LifeOf(s)' = "over"
             /\ UidOf(store'[s].user) = Nil
  BY <1>1 DEF LifeOf, Login, UidOf
<1>3. ASSUME NEW s \in Sids \ S
      PROVE  LifeOf(s)' = LifeOf(s) /\ UidOf(store'[s].user) = UidOf(store[s].user)
  <2>1. LifeOf(s)' = LifeOf(s)
    OBVIOUS
  <2>2. store[s].user # Nil => issued[s] # Nil
    BY LoginHasUser
  <2>. QED  BY <2>1, <2>2 DEF LifeOf, Login, UidOf
<1>4. Life!End(S)
  BY <1>2, <1>3 DEF Life!End
<1>. QED  BY <1>4 DEF Life!Next

(* A step that generates an id. *)
LEMMA GeneratingStep ==
  ASSUME SInv, NEW n \in Fresh, issued'[n] # Nil, \A s \in Sids \ {n} : issued'[s] = issued[s],
         store' = store, \A s \in Sids \ {n} : Pending(s)' <=> Pending(s)
  PROVE  Life!Next
<1>1. n \in Sids /\ issued[n] = Nil /\ store[n].user = Nil
  BY FreshIsFree DEF Fresh
<1>2. LifeOf(n) = "unborn" /\ LifeOf(n)' \in {"pending", "over"}
  BY <1>1 DEF LifeOf, Login
<1>3. \A s \in Sids \ {n} : LifeOf(s)' = LifeOf(s)
  BY DEF LifeOf, Login
<1>4. \A s \in Sids : UidOf(store'[s].user) = UidOf(store[s].user)
  OBVIOUS
<1>5. Life!Generate(n)
  BY <1>1, <1>2, <1>3, <1>4 DEF Life!Generate
<1>. QED  BY <1>1, <1>5 DEF Life!Next

(* A step that makes the login an id was generated for. *)
LEMMA LoggingStep ==
  ASSUME SInv, SInv', NEW n \in Sids, Pending(n), issued' = issued, store'[n].user # Nil,
         \A s \in Sids \ {n} : store'[s] = store[s] /\ (Pending(s)' <=> Pending(s))
  PROVE  Life!Next
<1>. DEFINE u == UidOf(store'[n].user)
<1>1. issued[n] # Nil /\ store[n].user = Nil
  BY PendingIsEmpty
<1>2. u \in Uids
  <2>1. store'[n].user \in Profiles
    BY DEF SInv, IInv, TypeOK, Hashes
  <2>. QED  BY <2>1, Constants DEF UidOf
<1>3. LifeOf(n) = "pending" /\ LifeOf(n)' = "live"
  BY <1>1 DEF LifeOf, Login
<1>4. \A s \in Sids \ {n} : LifeOf(s)' = LifeOf(s)
                          /\ UidOf(store'[s].user) = UidOf(store[s].user)
  BY DEF LifeOf, Login
<1>5. Life!LogIn(n, u)
  BY <1>3, <1>4 DEF Life!LogIn
<1>. QED  BY <1>2, <1>5 DEF Life!Next

-----------------------------------------------------------------------------
(* The commands *)

(* A request between raw and load is the only one that makes a login. *)
LEMMA OtherSteps ==
  ASSUME LInv, SInv', NEW r \in Reqs, Keeps(r), obj[r].pc \notin {"closed", "raw", "load"}
  PROVE  Life!Next
<1>1. /\ issued' = issued /\ obj'[r].pc # "load" /\ StoreReach(obj[r], store')
      /\ \A q \in Reqs \ {r} : obj'[q] = obj[q]
  BY DEF Keeps, Within
<1>2. \A s \in Sids : store'[s].user \in {Nil, store[s].user}
  BY <1>1 DEF StoreReach, LInv, NoSync, Listing
<1>3. \A s \in Sids : Pending(s)' => Pending(s)
  BY <1>1 DEF Pending
<1>. QED  BY <1>1, <1>2, <1>3, EndingStep DEF LInv

LEMMA OpeningStep ==
  ASSUME SInv, SInv', NEW r \in Reqs, NEW s \in Sids,
         OpenWith(r, s) \/ \E t \in Ttls : OpenNew(r, s, t)
  PROVE  Life!Next
<1>1. PICK t : obj' = [obj EXCEPT ![r] = Object(s, t)]
  BY DEF OpenWith, OpenNew
<1>2. obj'[r].pc # "load" /\ \A q \in Reqs \ {r} : obj'[q] = obj[q]
  BY <1>1 DEF SInv, IInv, TypeOK, Object
<1>3. obj[r].pc # "load" /\ store' = store
  BY DEF OpenWith, OpenNew
<1>4. \A x \in Sids : Pending(x)' <=> Pending(x)
  BY <1>2, <1>3 DEF Pending
<1>5. CASE OpenWith(r, s)
  BY <1>3, <1>4, <1>5, EndingStep DEF OpenWith
<1>6. CASE \E i \in Ttls : OpenNew(r, s, i)
  <2>1. PICK i \in Ttls : OpenNew(r, s, i)
    BY <1>6
  <2>2. [ttl |-> i, born |-> clock] # Nil
    BY Constants DEF SInv, IInv, TypeOK
  <2>3. s \in Fresh /\ issued'[s] # Nil /\ \A x \in Sids \ {s} : issued'[x] = issued[x]
    BY <2>1, <2>2 DEF OpenNew, SInv, IInv, TypeOK
  <2>. QED  BY <1>3, <1>4, <2>3, GeneratingStep
<1>. QED  BY <1>5, <1>6

LEMMA RawGenerates ==
  ASSUME SInv, SInv', NEW r \in Reqs, Raw(r)
  PROVE  Life!Next
<1>. DEFINE o == obj[r]
            raw == Filtered(o, store[o.sid])
            i == [ttl |-> o.ttl, born |-> clock]
<1>1. o.pc = "raw" /\ store' = store
  BY DEF Raw, At
<1>2. o \in Objects /\ clock \in Nat /\ o.ttl \in Nat
  BY <1>1, Under DEF SInv, IInv, TypeOK, Objects
<1>3. \A q \in Reqs \ {r} : obj'[q] = obj[q]
  BY DEF Raw, SInv, IInv, TypeOK
<1>4. \/ \E n \in Fresh : /\ issued' = [issued EXCEPT ![n] = i]
                          /\ obj' = [obj EXCEPT ![r] = Renewed(o, n, raw)]
      \/ /\ \E p \in {o, [o EXCEPT !.touches = "none"]} :
              obj' = [obj EXCEPT ![r] = Return(p, "err")]
         /\ issued' = issued
  BY DEF Raw
<1>5. ASSUME NEW n \in Fresh, issued' = [issued EXCEPT ![n] = i],
             obj' = [obj EXCEPT ![r] = Renewed(o, n, raw)]
      PROVE  Life!Next
  <2>1. i \in [ttl : Nat, born : Nat] /\ i # Nil
    BY <1>2, Constants
  <2>2. Renewed(o, n, raw).sid = n
    BY <1>2 DEF Renewed, Objects
  <2>. HIDE DEF raw, i
  <2>3. n \in Sids /\ issued'[n] # Nil /\ \A s \in Sids \ {n} : issued'[s] = issued[s]
    BY <1>5, <2>1 DEF SInv, IInv, TypeOK, Fresh
  <2>4. obj'[r].sid = n
    BY <1>5, <2>2 DEF SInv, IInv, TypeOK
  <2>5. \A s \in Sids \ {n} : Pending(s)' <=> Pending(s)
    BY <1>1, <1>3, <2>4 DEF Pending
  <2>. QED  BY <1>1, <2>3, <2>5, GeneratingStep
<1>6. ASSUME NEW p \in {o, [o EXCEPT !.touches = "none"]},
             obj' = [obj EXCEPT ![r] = Return(p, "err")], issued' = issued
      PROVE  Life!Next
  <2>1. Return(p, "err").pc = "ready"
    BY <1>2 DEF Return, Objects
  <2>2. obj'[r].pc = "ready"
    BY <1>6, <2>1 DEF SInv, IInv, TypeOK
  <2>3. \A s \in Sids : Pending(s)' => Pending(s)
    BY <1>3, <2>2 DEF Pending
  <2>. QED  BY <1>1, <1>6, <2>3, EndingStep
<1>. QED  BY <1>4, <1>5, <1>6

(* load, answered or not, makes the login or the id is over. *)
LEMMA LoadLogsIn ==
  ASSUME SInv, SInv', NEW r \in Reqs, Load(r)
  PROVE  Life!Next
<1>. DEFINE n == obj[r].sid
<1>1. Keeps(r) /\ obj[r].pc = "load"
  BY LoadKeeps DEF Load, At
<1>2. /\ issued' = issued /\ obj'[r].pc # "load"
      /\ \A q \in Reqs \ {r} : obj'[q] = obj[q]
  BY <1>1 DEF Keeps, Within
<1>3. n \in Sids /\ Pending(n) /\ Private(r) /\ Renewing(obj[r]) /\ store[n].user = Nil
  BY <1>1, Under DEF Pending, SInv, Loyal, Renewing, Steady
<1>4. \A s \in Sids \ {n} : store'[s] = store[s]
  BY <1>3 DEF Load, Write, Await, SInv, IInv, TypeOK
<1>5. \A s \in Sids \ {n} : Pending(s)' <=> Pending(s)
  BY <1>2 DEF Pending
<1>6. CASE store'[n].user = Nil
  <2>1. \A s \in Sids : store'[s].user \in {Nil, store[s].user}
    BY <1>4, <1>6
  <2>2. \A s \in Sids : Pending(s)' => Pending(s)
    BY <1>2 DEF Pending
  <2>. QED  BY <1>2, <2>1, <2>2, EndingStep
<1>7. CASE store'[n].user # Nil
  BY <1>2, <1>3, <1>4, <1>5, <1>7, LoggingStep
<1>. QED  BY <1>6, <1>7

(* A login whose request is dropped before load never comes to be. *)
LEMMA DropEnds ==
  ASSUME SInv, SInv', NEW r \in Reqs, Drop(r)
  PROVE  Life!Next
<1>1. /\ obj'[r].pc # "load" /\ \A q \in Reqs \ {r} : obj'[q] = obj[q]
      /\ UNCHANGED <<store, issued>>
  BY DEF Drop, Closed, Object, SInv, IInv, TypeOK
<1>2. \A s \in Sids : Pending(s)' => Pending(s)
  BY <1>1 DEF Pending
<1>. QED  BY <1>1, <1>2, EndingStep

LEMMA TickEnds ==
  ASSUME SInv, SInv', Tick
  PROVE  Life!Next
<1>1. \A s \in Sids : store'[s].user \in {Nil, store[s].user}
  BY HashTypes DEF Tick, SInv, IInv, TypeOK
<1>2. \A s \in Sids : Pending(s)' => Pending(s)
  BY DEF Tick, Pending
<1>. QED  BY <1>1, <1>2, EndingStep DEF Tick

-----------------------------------------------------------------------------
(* The theorems *)

LEMMA InitLife == Init => Life!Init
<1>. SUFFICES ASSUME Init  PROVE Life!Init
  OBVIOUS
<1>1. \A s \in Sids : store[s].user = Nil /\ ~ Pending(s)
  BY DEF Init, Missing, Pending, Closed, Object
<1>. QED  BY <1>1 DEF Life!Init, LifeOf, Login, UidOf

(* Every step is one of an id's life, or ends none. *)
LEMMA NextLife == LInv /\ LInv' /\ [Next]_vars => Life!Next
<1>. SUFFICES ASSUME LInv, LInv', [Next]_vars  PROVE Life!Next
  OBVIOUS
<1>1. SInv /\ SInv'
  BY DEF LInv
<1>2. CASE UNCHANGED vars
  BY <1>1, <1>2, EndingStep DEF vars, Pending
<1>3. CASE Tick
  BY <1>1, <1>3, TickEnds
<1>4. ASSUME NEW r \in Reqs, Request(r)
      PROVE  Life!Next
  <2>1. Keeps(r)
    BY <1>1, <1>4, RequestKeeps
  <2>2. CASE \E s \in Sids : OpenWith(r, s) \/ \E t \in Ttls : OpenNew(r, s, t)
    BY <1>1, <2>2, OpeningStep
  <2>3. CASE Close(r) \/ AnyCall(r)
    <3>1. obj[r].pc = "ready"
      BY <2>3 DEF Close, AnyCall, CallUser, CallSet, CallGet, CallDel, CallTouch, CallLogin,
         CallAutoLogin, CallLogout, CallDestroy, CallSync, Call
    <3>. QED  BY <1>1, <2>1, <3>1, OtherSteps
  <2>4. CASE Drop(r)
    BY <1>1, <2>4, DropEnds
  <2>5. CASE Raw(r) \/ Load(r)
    BY <1>1, <2>5, RawGenerates, LoadLogsIn
  <2>6. CASE Command(r) /\ ~ Raw(r) /\ ~ Load(r)
    <3>1. obj[r].pc \notin {"closed", "raw", "load"}
      BY <2>6 DEF Command, LoadUser, SilentSet, SilentGet, SilentDel, Touch, MappingAdd,
         MappingExpire, ClonedUnmapping, ClonedDestroy, Unmapping, LogoutDel, DestroyDel,
         AllSid, FilterRemove, FilterExists, SyncSet, At
    <3>. QED  BY <1>1, <2>1, <3>1, OtherSteps
  <2>. QED  BY <1>4, <2>2, <2>3, <2>4, <2>5, <2>6 DEF Request
<1>. QED  BY <1>2, <1>3, <1>4 DEF Next

(***************************************************************************)
(* Without sync an id of the store lives as LoginLife says: it carries at  *)
(* most one login, made by the load of the renewal that generated it, and  *)
(* no late command of another request, lost reply or dropped future makes  *)
(* another (redis.rs renew and load, user.rs log_in, logout, destroy).     *)
(***************************************************************************)
THEOREM LifeImplemented ==
  ASSUME "sync" \notin Ops
  PROVE  Spec => ImplementsLife
<1>1. Init => LInv /\ Life!Init
  BY InitLInv, InitLife
<1>2. LInv /\ [Next]_vars => LInv'
  BY NextLInv
<1>3. LInv /\ LInv' /\ [Next]_vars =>
        [Life!Next]_<<[s \in Sids |-> LifeOf(s)], [s \in Sids |-> UidOf(store[s].user)]>>
  BY NextLife
<1>. QED  BY <1>1, <1>2, <1>3, PTL DEF Spec, ImplementsLife, Life!Spec

(***************************************************************************)
(* Without sync a session id that was logged out, destroyed, replaced or   *)
(* has expired never carries a login again (the revival that NoRevival is  *)
(* checked for has no other cause).                                        *)
(***************************************************************************)
THEOREM OverIsOver ==
  ASSUME "sync" \notin Ops
  PROVE  Spec => NoRevival
<1>1. Init => LInv
  BY InitLInv
<1>2. LInv /\ [Next]_vars => LInv'
  BY NextLInv
<1>3. LInv /\ LInv' /\ [Next]_vars => \A s \in Sids : LifeOf(s) = "over" => ~ Login(s)'
  <2>. SUFFICES ASSUME LInv, LInv', [Next]_vars, NEW s \in Sids, LifeOf(s) = "over"
                PROVE  ~ Login(s)'
    OBVIOUS
  <2>1. Life!Next
    BY NextLife
  <2>2. CASE \E n \in Sids : Life!Generate(n)
    BY <2>2 DEF Life!Generate, LifeOf, Login
  <2>3. CASE \E n \in Sids, u \in Uids : Life!LogIn(n, u)
    BY <2>3 DEF Life!LogIn, LifeOf, Login
  <2>4. CASE \E S \in SUBSET Sids : Life!End(S)
    BY <2>4 DEF Life!End, LifeOf, Login
  <2>. QED  BY <2>1, <2>2, <2>3, <2>4 DEF Life!Next
<1>. QED  BY <1>1, <1>2, <1>3, PTL DEF Spec, NoRevival

-----------------------------------------------------------------------------
(***************************************************************************)
(* What is left in Redis once no call is under way and nothing has failed. *)
(*                                                                         *)
(* Expiring : Spec => []LoginExpires                                       *)
(* Mapped   : Spec => []LoginMapped, until an index entry may expire       *)
(* Synced   : Spec => []SyncSticks, until an index entry may expire        *)
(*                                                                         *)
(* All three speak of quiet states only.  In between a login may be        *)
(* without its TTL or out of the index, but then some request still has    *)
(* the command to send that mends it or deletes the login: the invariant   *)
(* names it.  The first two hold for any number of requests as long as the *)
(* application never calls sync, the third with sync for requests that     *)
(* come one at a time: YInv follows the ids sync has listed until it has   *)
(* written to them or has found that they are gone.                        *)
(***************************************************************************)

-----------------------------------------------------------------------------
(* The inductive invariant *)

(* The request that stored the login under s will give it its TTL. *)
Touching(o, s) == o.sid = s /\ o.op \in Logins /\ o.pc = "touch"

(* The request will list s in the index, or delete its login. *)
Settling(o, s) ==
  \/ o.sid = s /\ o.op \in Logins /\ o.pc \in {"touch", "user", "sadd"}
  \/ o.sid = s /\ o.pc \in {"userdel", "destroydel"}
  \/ o.csid = s /\ o.pc = "cdel"

Tracked(s) ==
  store[s].user # Nil =>
    /\ store[s].ttl > 0 \/ \E r \in Reqs : Touching(obj[r], s)
    /\ MaxClock < MapTtl =>
         s \in umap[owner[s]].sids \/ \E r \in Reqs : Settling(obj[r], s)

(* An entry of the index that expires has lived for MapTtl. *)
Young(um, now) == \A u \in Uids : um[u].ttl = 0 \/ um[u].ttl + now >= MapTtl

MInv ==
  /\ LInv
  /\ clock <= MaxClock
  /\ Young(umap, clock)
  /\ faults = 0 => \A s \in Sids : Tracked(s)

-----------------------------------------------------------------------------
(* What a step of one request leaves for it to do *)

(***************************************************************************)
(* Of every login there is after a step without a failure: it was there or *)
(* the request still has its TTL and index entry to see to; what the index *)
(* or the TTL has lost, or the request has left to do, is still done.      *)
(***************************************************************************)
Leaves(r, s) ==
  LET o == obj[r]
      x == obj'[r]
      kept == s \in umap'[owner'[s]].sids
  IN  /\ store[s].user # Nil \/ (Touching(x, s) /\ Settling(x, s))
      /\ store'[s].ttl > 0 \/ Touching(x, s)
         \/ (store'[s].ttl = store[s].ttl /\ ~ Touching(o, s))
      /\ kept \/ Settling(x, s)
         \/ (s \notin umap[owner[s]].sids /\ ~ Settling(o, s))

Tracks(r) == faults' = 0 => \A s \in Sids : store'[s].user # Nil => Leaves(r, s)

LEMMA TracksStep ==
  ASSUME MInv, NEW r \in Reqs, Keeps(r), Tracks(r), faults' = 0 => faults = 0
  PROVE  faults' = 0 => \A s \in Sids : Tracked(s)'
<1>. SUFFICES ASSUME faults' = 0, NEW s \in Sids, store'[s].user # Nil
              PROVE  /\ store'[s].ttl > 0 \/ \E q \in Reqs : Touching(obj'[q], s)
                     /\ MaxClock < MapTtl =>
                          s \in umap'[owner'[s]].sids \/ \E q \in Reqs : Settling(obj'[q], s)
  BY DEF Tracked
<1>1. Leaves(r, s)
  BY DEF Tracks
<1>2. \A q \in Reqs \ {r} : obj'[q] = obj[q]
  BY DEF Keeps, Within
<1>3. store[s].user # Nil => Tracked(s)
  BY DEF MInv
<1>4. store'[s].ttl > 0 \/ \E q \in Reqs : Touching(obj'[q], s)
  BY <1>1, <1>2, <1>3 DEF Leaves, Tracked
<1>5. MaxClock < MapTtl =>
        s \in umap'[owner'[s]].sids \/ \E q \in Reqs : Settling(obj'[q], s)
  BY <1>1, <1>2, <1>3 DEF Leaves, Tracked
<1>. QED  BY <1>4, <1>5

(* Without a failure an await has the outcome of its command. *)
LEMMA Answered ==
  ASSUME SInv, NEW r \in Reqs, NEW st, NEW um, NEW good, NEW bad,
         Await(r, st, um, good, bad), faults' = 0
  PROVE  store' = st /\ umap' = um /\ obj'[r] = good /\ owner' = owner /\ faults = 0
BY DEF Await, SInv, IInv, TypeOK

(* A step that leaves the store alone, of a request that has nothing to mend. *)
LEMMA IdleTracks ==
  ASSUME SInv, NEW r \in Reqs, store' = store, umap' = umap,
         \A s \in Sids : store[s].user # Nil => owner'[s] = owner[s],
         \A s \in Sids : ~ Settling(obj[r], s)
  PROVE  Tracks(r)
<1>1. \A s \in Sids : ~ Touching(obj[r], s)
  BY DEF Touching, Settling
<1>. QED  BY <1>1 DEF Tracks, Leaves

(* What the write commands leave of a key's login and TTL. *)
LEMMA TtlKept ==
  ASSUME NEW h \in Hashes
  PROVE  /\ \A d : HSet(h, "data", d).user = h.user /\ HSet(h, "data", d).ttl = h.ttl
         /\ HDel(h, "data").user # Nil => HDel(h, "data").user = h.user /\ HDel(h, "data").ttl = h.ttl
         /\ HDel(h, "user").user = Nil
         /\ \A t \in Nat : Expire(h, t).user = h.user
                          /\ (h.user # Nil => Expire(h, t).ttl = t)
         /\ \A raw : HMSet(h, raw).ttl = h.ttl
<1>1. \A d : HSet(h, "data", d).user = h.user /\ HSet(h, "data", d).ttl = h.ttl
  BY DEF HSet, Hashes
<1>2. HDel(h, "data").user # Nil => HDel(h, "data").user = h.user /\ HDel(h, "data").ttl = h.ttl
  BY MissingType DEF HDel, Hashes
<1>3. HDel(h, "user").user = Nil
  BY HashTypes
<1>4. \A t \in Nat : Expire(h, t).user = h.user /\ (h.user # Nil => Expire(h, t).ttl = t)
  BY DEF Expire, Exists, Fields, Hashes
<1>5. \A raw : HMSet(h, raw).ttl = h.ttl
  BY DEF HMSet
<1>. QED  BY <1>1, <1>2, <1>3, <1>4, <1>5

(* Exactly one id leaves the set. *)
LEMMA RemovesOne ==
  ASSUME NEW m \in [sids : SUBSET Sids, ttl : Nat], NEW x
  PROVE  SRem(m, x).sids = m.sids \ {x}
BY DEF SRem, EmptySet

-----------------------------------------------------------------------------
(* The actions *)

(* Between calls, and at the first await of one, nothing is left to mend. *)
LEMMA BetweenTracks ==
  ASSUME SInv, NEW r \in Reqs,
         \/ \E s \in Sids : OpenWith(r, s) \/ \E t \in Ttls : OpenNew(r, s, t)
         \/ Close(r) \/ AnyCall(r)
  PROVE  Tracks(r)
<1>1. obj[r].pc \in {"closed", "ready"} /\ UNCHANGED <<store, umap, owner>>
  BY DEF OpenWith, OpenNew, Close, AnyCall, CallUser, CallSet, CallGet, CallDel, CallTouch,
         CallLogin, CallAutoLogin, CallLogout, CallDestroy, CallSync, Call
<1>2. \A s \in Sids : ~ Settling(obj[r], s)
  BY <1>1 DEF Settling
<1>. QED  BY <1>1, <1>2, IdleTracks

LEMMA DropTracks ==
  ASSUME SInv, NEW r \in Reqs, Drop(r)
  PROVE  Tracks(r)
BY DEF Drop, Tracks, SInv, IInv, TypeOK

(* A new id has no login yet. *)
LEMMA RawTracks ==
  ASSUME SInv, NEW r \in Reqs, Raw(r)
  PROVE  Tracks(r)
<1>1. obj[r].pc = "raw" /\ UNCHANGED <<store, umap>>
  BY DEF Raw, At
<1>2. owner' = owner \/ \E n \in Fresh : \E u : owner' = [owner EXCEPT ![n] = u]
  BY DEF Raw
<1>3. \A n \in Fresh : store[n].user = Nil
  BY FreshIsFree
<1>4. \A s \in Sids : store[s].user # Nil => owner'[s] = owner[s]
  BY <1>2, <1>3 DEF SInv, IInv, TypeOK
<1>5. \A s \in Sids : ~ Settling(obj[r], s)
  BY <1>1 DEF Settling
<1>. QED  BY <1>1, <1>4, <1>5, IdleTracks

(* user() of a renewal finds the login load stored: mapping comes next. *)
LEMMA LoadUserTracks ==
  ASSUME SInv, NEW r \in Reqs, LoadUser(r)
  PROVE  Tracks(r)
<1>. DEFINE c == obj[r]
            o == [c EXCEPT !.loaded = TRUE]
            u == store[o.sid].user
            f == [o EXCEPT !.user = u]
<1>. SUFFICES ASSUME faults' = 0, NEW s \in Sids, store'[s].user # Nil
              PROVE  Leaves(r, s)
  BY DEF Tracks
<1>1. c.pc = "user"
  BY DEF LoadUser, At
<1>2. /\ c \in Objects /\ c.op # "tryRenew" /\ store[c.sid] \in Hashes /\ c.sid \in Sids
      /\ Loyal(c, owner, issued)
  BY <1>1, Under
<1>3. o \in Objects
  BY <1>2, Assigned
<1>4. Alike(o, c)
  BY <1>2 DEF Alike, Objects
<1>5. u = store[c.sid].user /\ u \in Profiles \cup {Nil}
  BY <1>2, <1>4 DEF Alike, Hashes
<1>6. Await(r, store, umap, AfterUser(IF u = Nil THEN o ELSE f), AfterUser(o))
  BY DEF LoadUser, Ask
<1>. HIDE DEF o, u
<1>7. f \in Objects
  BY <1>3, <1>5, Assigned
<1>8. f.user = u /\ f.sid = c.sid /\ f.op = c.op
  BY <1>3, <1>4 DEF Alike, Objects
<1>. HIDE DEF f
<1>9. /\ store' = store /\ umap' = umap /\ owner' = owner
      /\ obj'[r] = AfterUser(IF u = Nil THEN o ELSE f)
  BY <1>6, Answered
<1>10. CASE c.op \in Logins /\ c.sid = s
  <2>1. Onward(AfterUser(f), f, {"sadd"}) /\ u # Nil
    BY <1>2, <1>5, <1>7, <1>8, <1>9, <1>10, AfterUserShape
  <2>2. Settling(obj'[r], s)
    BY <1>8, <1>9, <1>10, <2>1 DEF Settling, Onward, Alike
  <2>. QED  BY <1>1, <1>9, <2>2 DEF Leaves, Touching
<1>11. CASE ~ (c.op \in Logins /\ c.sid = s)
  <2>1. ~ Settling(c, s)
    BY <1>1, <1>11 DEF Settling
  <2>. QED  BY <1>1, <1>9, <2>1 DEF Leaves, Touching
<1>. QED  BY <1>10, <1>11

(* The application's field commands leave login and TTL as they are. *)
LEMMA FieldTracks ==
  ASSUME SInv, NEW r \in Reqs, SilentSet(r) \/ SilentGet(r) \/ SilentDel(r)
  PROVE  Tracks(r)
<1>. DEFINE o == obj[r]
            h == store[o.sid]
<1>. SUFFICES ASSUME faults' = 0, NEW s \in Sids, store'[s].user # Nil
              PROVE  Leaves(r, s)
  BY DEF Tracks
<1>1. o.pc \in {"set", "get", "del"}
  BY DEF SilentSet, SilentGet, SilentDel, At
<1>2. o.sid \in Sids /\ h \in Hashes
  BY <1>1, Under
<1>3. ~ Settling(o, s) /\ ~ Touching(o, s)
  BY <1>1 DEF Settling, Touching
<1>4. \E g \in {h, HSet(h, "data", o.arg), HDel(h, "data")} :
        store' = [store EXCEPT ![o.sid] = g] /\ umap' = umap /\ owner' = owner
  <2>1. store = [store EXCEPT ![o.sid] = h]
    BY <1>2 DEF SInv, IInv, TypeOK
  <2>2. CASE SilentSet(r)
    BY <2>2, Answered DEF SilentSet, Write
  <2>3. CASE SilentGet(r)
    BY <2>1, <2>3, Answered DEF SilentGet, Ask
  <2>4. CASE SilentDel(r)
    BY <2>4, Answered DEF SilentDel, Write
  <2>. QED  BY <2>2, <2>3, <2>4
<1>5. store[s].user # Nil /\ store'[s].ttl = store[s].ttl
  BY <1>2, <1>4, TtlKept DEF SInv, IInv, TypeOK
<1>. QED  BY <1>3, <1>4, <1>5 DEF Leaves

(* From touch on the login expires. *)
LEMMA TouchTracks ==
  ASSUME SInv, NEW r \in Reqs, Touch(r)
  PROVE  Tracks(r)
<1>. DEFINE o == obj[r]
            h == store[o.sid]
            p == [o EXCEPT !.touches = Bool(Exists(h))]
            x == AfterTouch(p)
<1>. SUFFICES ASSUME faults' = 0, NEW s \in Sids, store'[s].user # Nil
              PROVE  Leaves(r, s)
  BY DEF Tracks
<1>1. o.pc = "touch"
  BY DEF Touch, At
<1>2. /\ o \in Objects /\ o.sid \in Sids /\ o.op # "tryRenew" /\ o.ttl > 0 /\ o.ttl \in Nat
      /\ h \in Hashes
  BY <1>1, Under DEF Objects
<1>3. p \in Objects
  BY <1>2, Assigned, BoolType
<1>4. Alike(p, o)
  BY <1>2 DEF Alike, Objects
<1>5. /\ store' = [store EXCEPT ![o.sid] = Expire(h, o.ttl)] /\ umap' = umap /\ owner' = owner
      /\ obj'[r] = x
  BY Answered DEF Touch, Write
<1>. HIDE DEF p
<1>6. o.op \in Logins => Onward(x, o, {"user"})
  <2>1. o.op \in Logins => Onward(x, p, {"user"})
    BY <1>2, <1>3, <1>4, AfterTouchShape DEF Alike
  <2>. QED  BY <1>4, <2>1 DEF Onward, Alike, Listing
<1>. HIDE DEF x
<1>7. CASE s = o.sid
  <2>1. store'[s] = Expire(h, o.ttl)
    BY <1>2, <1>5, <1>7 DEF SInv, IInv, TypeOK
  <2>2. store[s].user # Nil /\ store'[s].ttl > 0
    BY <1>2, <1>7, <2>1, TtlKept
  <2>3. Settling(o, s) => Settling(x, s)
    BY <1>1, <1>6 DEF Settling, Onward, Alike
  <2>. QED  BY <1>5, <2>2, <2>3 DEF Leaves
<1>8. CASE s # o.sid
  <2>1. store'[s] = store[s] /\ ~ Settling(o, s) /\ ~ Touching(o, s)
    BY <1>1, <1>5, <1>8 DEF Settling, Touching, SInv, IInv, TypeOK
  <2>. QED  BY <1>5, <2>1 DEF Leaves
<1>. QED  BY <1>7, <1>8

(* load makes the login, and leaves its TTL and its mapping to do. *)
LEMMA LoadTracks ==
  ASSUME SInv, NEW r \in Reqs, Load(r)
  PROVE  Tracks(r)
<1>. DEFINE c == obj[r]
            o == [c EXCEPT !.raw = Missing]
            x == TryTouch(o)
            h == HMSet(store[c.sid], c.raw)
<1>. SUFFICES ASSUME faults' = 0, NEW s \in Sids, store'[s].user # Nil
              PROVE  Leaves(r, s)
  BY DEF Tracks
<1>1. c.pc = "load"
  BY DEF Load, At
<1>2. /\ c \in Objects /\ c.sid \in Sids /\ c.op # "tryRenew" /\ c.op \in Logins
      /\ c.touches = "none"
  BY <1>1, Under DEF Loyal, Steady
<1>3. o \in Objects
  BY <1>2, Assigned, MissingType
<1>4. Alike(o, c) /\ o.touches = c.touches
  BY <1>2 DEF Alike, Objects
<1>5. /\ store' = [store EXCEPT ![c.sid] = h] /\ umap' = umap /\ owner' = owner
      /\ obj'[r] = x
  <2>1. Write(r, c.sid, h, x)
    BY <1>4 DEF Load, Alike
  <2>. QED  BY <2>1, Answered DEF Write
<1>. HIDE DEF o, h
<1>6. Onward(x, o, {"touch"})
  BY <1>2, <1>3, <1>4, TryTouchShape DEF Alike
<1>. HIDE DEF x
<1>7. x.sid = c.sid /\ x.op \in Logins /\ x.pc = "touch"
  BY <1>2, <1>4, <1>6 DEF Onward, Alike
<1>8. ~ Settling(c, s) /\ ~ Touching(c, s)
  BY <1>1 DEF Settling, Touching
<1>9. CASE s = c.sid
  BY <1>5, <1>7, <1>9 DEF Leaves, Settling, Touching
<1>10. CASE s # c.sid
  <2>1. store'[s] = store[s]
    BY <1>5, <1>10 DEF SInv, IInv, TypeOK
  <2>. QED  BY <1>5, <1>8, <2>1 DEF Leaves
<1>. QED  BY <1>9, <1>10

(* mapping lists the new session for the user it is for. *)
LEMMA MappingTracks ==
  ASSUME SInv, NEW r \in Reqs, MappingAdd(r) \/ MappingExpire(r)
  PROVE  Tracks(r)
<1>. DEFINE o == obj[r]
            u == o.user.uid
<1>. SUFFICES ASSUME faults' = 0, NEW s \in Sids, store'[s].user # Nil
              PROVE  Leaves(r, s)
  BY DEF Tracks
<1>1. o.pc \in {"sadd", "mapexpire"}
  BY DEF MappingAdd, MappingExpire, At
<1>2. /\ o \in Objects /\ o.sid \in Sids /\ o.op \in Logins /\ o.user # Nil
      /\ u = owner[o.sid]
  BY <1>1, Under DEF Loyal, Serving, Serves
<1>3. u \in Uids
  BY <1>2, Constants DEF Objects
<1>4. umap[u] \in [sids : SUBSET Sids, ttl : Nat]
  BY <1>3 DEF SInv, IInv, TypeOK
<1>5. \E m \in {SAdd(umap[u], o.sid), ExpireSet(umap[u], MapTtl)} :
        /\ store' = store /\ umap' = [umap EXCEPT ![u] = m] /\ owner' = owner
        /\ o.pc = "sadd" => m = SAdd(umap[u], o.sid)
  <2>1. CASE MappingAdd(r)
    <3>1. Await(r, store, [umap EXCEPT ![u] = SAdd(umap[u], o.sid)],
                [o EXCEPT !.pc = "mapexpire"], AfterRenew(o))
      BY <2>1, <1>3 DEF MappingAdd, SInv, IInv, TypeOK
    <3>. QED  BY <3>1, Answered
  <2>2. CASE MappingExpire(r)
    <3>1. Await(r, store, [umap EXCEPT ![u] = ExpireSet(umap[u], MapTtl)],
                AfterRenew(o), AfterRenew(o))
      BY <2>2, <1>3 DEF MappingExpire, SInv, IInv, TypeOK
    <3>2. o.pc = "mapexpire"
      BY <2>2 DEF MappingExpire, At
    <3>. QED  BY <3>1, <3>2, Answered
  <2>. QED  BY <2>1, <2>2
<1>. HIDE DEF u
<1>6. PICK m \in {SAdd(umap[u], o.sid), ExpireSet(umap[u], MapTtl)} :
        /\ store' = store /\ umap' = [umap EXCEPT ![u] = m] /\ owner' = owner
        /\ o.pc = "sadd" => m = SAdd(umap[u], o.sid)
  BY <1>5
<1>7. umap[u].sids \subseteq m.sids /\ (o.pc = "sadd" => o.sid \in m.sids)
  BY <1>2, <1>4, <1>6, IndexTypes, Constants
<1>8. /\ s \in umap[owner[s]].sids => s \in umap'[owner'[s]].sids
      /\ Settling(o, s) => s \in umap'[owner'[s]].sids
  <2>1. umap'[u].sids = m.sids /\ \A v \in Uids \ {u} : umap'[v] = umap[v]
    BY <1>3, <1>6 DEF SInv, IInv, TypeOK
  <2>2. owner[s] \in Uids
    BY <1>6, LoginHasUser
  <2>. QED  BY <1>1, <1>2, <1>6, <1>7, <2>1, <2>2 DEF Settling
<1>9. ~ Touching(o, s)
  BY <1>1 DEF Touching
<1>. QED  BY <1>6, <1>8, <1>9 DEF Leaves

(***************************************************************************)
(* Unlisting a session comes right before deleting its login: the request  *)
(* then still has that to do.                                              *)
(***************************************************************************)
LEMMA UnlistingTracks ==
  ASSUME SInv, NEW r \in Reqs, NEW u \in Uids, NEW s \in Sids, NEW good, NEW bad,
         Await(r, store, [umap EXCEPT ![u] = SRem(umap[u], s)], good, bad),
         \A x \in Sids : ~ Settling(obj[r], x), Settling(good, s)
  PROVE  Tracks(r)
<1>. SUFFICES ASSUME faults' = 0, NEW x \in Sids, store'[x].user # Nil
              PROVE  Leaves(r, x)
  BY DEF Tracks
<1>1. /\ store' = store /\ umap' = [umap EXCEPT ![u] = SRem(umap[u], s)] /\ owner' = owner
      /\ obj'[r] = good
  BY Answered
<1>2. SRem(umap[u], s).sids = umap[u].sids \ {s}
  BY RemovesOne DEF SInv, IInv, TypeOK
<1>3. \A v \in Uids : umap'[v].sids = IF v = u THEN umap[u].sids \ {s} ELSE umap[v].sids
  BY <1>1, <1>2 DEF SInv, IInv, TypeOK
<1>4. owner[x] \in Uids
  BY <1>1, LoginHasUser
<1>5. ~ Touching(obj[r], x)
  BY DEF Touching, Settling
<1>. QED  BY <1>1, <1>3, <1>4, <1>5 DEF Leaves

LEMMA UnmappingTracks ==
  ASSUME SInv, NEW r \in Reqs, ClonedUnmapping(r) \/ Unmapping(r)
  PROVE  Tracks(r)
<1>. DEFINE o == obj[r]
<1>1. o.pc \in {"csrem", "srem"}
  BY DEF ClonedUnmapping, Unmapping, At
<1>2. o \in Objects /\ o.sid \in Sids /\ Loyal(o, owner, issued)
  BY <1>1, Under
<1>3. \A x \in Sids : ~ Settling(o, x)
  BY <1>1 DEF Settling
<1>4. CASE ClonedUnmapping(r)
  <2>. DEFINE good == [o EXCEPT !.pc = "cdel"]
              u == o.cuser.uid
  <2>1. u \in Uids /\ o.csid \in Sids
    BY <1>2, <1>4, Constants DEF ClonedUnmapping, At, Loyal, Objects
  <2>2. Await(r, store, [umap EXCEPT ![u] = SRem(umap[u], o.csid)], good, Return(o, "err"))
    BY <1>4, <2>1 DEF ClonedUnmapping, SInv, IInv, TypeOK
  <2>3. Settling(good, o.csid)
    BY <1>2 DEF Settling, Objects
  <2>. HIDE DEF u, good
  <2>. QED  BY <1>3, <2>1, <2>2, <2>3, UnlistingTracks
<1>5. CASE Unmapping(r)
  <2>. DEFINE good == IF o.op = "logout" THEN [o EXCEPT !.user = Nil, !.pc = "userdel"]
                                         ELSE [o EXCEPT !.pc = "destroydel"]
              u == o.user.uid
  <2>1. u \in Uids
    BY <1>2, <1>5, Constants DEF Unmapping, At, Loyal, Objects
  <2>2. Await(r, store, [umap EXCEPT ![u] = SRem(umap[u], o.sid)], good, Return(o, "err"))
    BY <1>5, <2>1 DEF Unmapping, SInv, IInv, TypeOK
  <2>3. Settling(good, o.sid)
    BY <1>2 DEF Settling, Objects
  <2>. HIDE DEF u, good
  <2>. QED  BY <1>2, <1>3, <2>1, <2>2, <2>3, UnlistingTracks
<1>. QED  BY <1>4, <1>5

(* What was left to delete is deleted. *)
LEMMA DeletingTracks ==
  ASSUME SInv, NEW r \in Reqs, ClonedDestroy(r) \/ LogoutDel(r) \/ DestroyDel(r)
  PROVE  Tracks(r)
<1>. DEFINE o == obj[r]
            k == IF o.pc = "cdel" THEN o.csid ELSE o.sid
<1>. SUFFICES ASSUME faults' = 0, NEW s \in Sids, store'[s].user # Nil
              PROVE  Leaves(r, s)
  BY DEF Tracks
<1>1. o.pc \in {"cdel", "userdel", "destroydel"}
  BY DEF ClonedDestroy, LogoutDel, DestroyDel, At
<1>2. o.sid \in Sids /\ o.csid \in Sids \cup {Nil} /\ store[o.sid] \in Hashes
  BY <1>1, Under DEF Objects
<1>3. \E h \in {Missing, HDel(store[o.sid], "user")} :
        store' = [store EXCEPT ![k] = h] /\ umap' = umap /\ owner' = owner
  <2>1. CASE ClonedDestroy(r)
    BY <2>1, Answered DEF ClonedDestroy, Write, At
  <2>2. CASE LogoutDel(r)
    BY <2>2, Answered DEF LogoutDel, Write, At
  <2>3. CASE DestroyDel(r)
    BY <2>3, Answered DEF DestroyDel, Write, At
  <2>. QED  BY <2>1, <2>2, <2>3
<1>4. Missing.user = Nil /\ HDel(store[o.sid], "user").user = Nil
  BY <1>2, MissingType, TtlKept
<1>5. s # k /\ store'[s] = store[s]
  BY <1>3, <1>4 DEF SInv, IInv, TypeOK
<1>6. ~ Settling(o, s) /\ ~ Touching(o, s)
  BY <1>1, <1>5 DEF Settling, Touching
<1>. QED  BY <1>3, <1>5, <1>6 DEF Leaves

-----------------------------------------------------------------------------
(* The index and the clock *)

(* A failure is never forgotten. *)
LEMMA FaultsStay ==
  ASSUME SInv, NEW r \in Reqs, Request(r), faults' = 0
  PROVE  faults = 0
<1>1. faults' = faults \/ faults' = faults + 1
  <2>1. CASE \/ \E s \in Sids : OpenWith(r, s) \/ \E t \in Ttls : OpenNew(r, s, t)
             \/ Close(r) \/ AnyCall(r) \/ Drop(r) \/ Raw(r)
    BY <2>1 DEF OpenWith, OpenNew, Close, AnyCall, CallUser, CallSet, CallGet, CallDel, CallTouch,
         CallLogin, CallAutoLogin, CallLogout, CallDestroy, CallSync, Call, Drop, Raw
  <2>2. \A st, um, good, bad : Await(r, st, um, good, bad) =>
          faults' = faults \/ faults' = faults + 1
    BY DEF Await
  <2>3. CASE Command(r) /\ ~ Raw(r)
    BY <2>2, <2>3 DEF Command, LoadUser, SilentSet, SilentGet, SilentDel, Touch, Load, MappingAdd,
         MappingExpire, ClonedUnmapping, ClonedDestroy, Unmapping, LogoutDel, DestroyDel,
         AllSid, FilterRemove, FilterExists, SyncSet, Ask, Write
  <2>. QED  BY <2>1, <2>3 DEF Request
<1>. QED  BY <1>1 DEF SInv, IInv, TypeOK

(* The commands on the index: only EXPIRE gives an entry a TTL. *)
LEMMA IndexYoung ==
  ASSUME SInv, Young(umap, clock), NEW r \in Reqs, NEW u \in Uids, NEW m, NEW good, NEW bad,
         Await(r, store, [umap EXCEPT ![u] = m], good, bad),
         m.ttl \in {0, MapTtl, umap[u].ttl}
  PROVE  Young(umap', clock')
<1>1. clock' = clock /\ umap' \in {umap, [umap EXCEPT ![u] = m]}
  BY DEF Await
<1>2. clock \in Nat /\ MapTtl \in Nat
  BY Constants DEF SInv, IInv, TypeOK
<1>. QED  BY <1>1, <1>2 DEF Young, SInv, IInv, TypeOK

LEMMA RequestYoung ==
  ASSUME SInv, Young(umap, clock), NEW r \in Reqs, Request(r)
  PROVE  Young(umap', clock')
<1>. DEFINE o == obj[r]
<1>1. \A u \in Uids : umap[u] \in [sids : SUBSET Sids, ttl : Nat]
  BY DEF SInv, IInv, TypeOK
<1>2. ASSUME NEW u \in Uids, NEW s
      PROVE  /\ SAdd(umap[u], s).ttl = umap[u].ttl
             /\ SRem(umap[u], s).ttl \in {0, umap[u].ttl}
             /\ ExpireSet(umap[u], MapTtl).ttl \in {MapTtl, umap[u].ttl}
  BY <1>1 DEF SAdd, SRem, ExpireSet, EmptySet
<1>3. \A u \in Uids : \A s : \A m \in {SAdd(umap[u], s), SRem(umap[u], s), ExpireSet(umap[u], MapTtl)} :
        m.ttl \in {0, MapTtl, umap[u].ttl}
  BY <1>2
<1>5. CASE MappingAdd(r) \/ MappingExpire(r) \/ Unmapping(r)
  <2>1. o.pc \in {"sadd", "mapexpire", "srem"}
    BY <1>5 DEF MappingAdd, MappingExpire, Unmapping, At
  <2>2. o.user.uid \in Uids
    BY <2>1, Under, Constants DEF Loyal, Objects
  <2>3. \E m \in {SAdd(umap[o.user.uid], o.sid), SRem(umap[o.user.uid], o.sid),
                  ExpireSet(umap[o.user.uid], MapTtl)} : \E good, bad :
          Await(r, store, [umap EXCEPT ![o.user.uid] = m], good, bad)
    BY <1>5, <2>2 DEF MappingAdd, MappingExpire, Unmapping, SInv, IInv, TypeOK
  <2>. HIDE DEF o
  <2>. QED  BY <1>3, <2>2, <2>3, IndexYoung
<1>6. CASE ClonedUnmapping(r)
  <2>1. o.pc = "csrem"
    BY <1>6 DEF ClonedUnmapping, At
  <2>2. o.cuser.uid \in Uids
    BY <2>1, Under, Constants DEF Loyal, Objects
  <2>3. \E good, bad :
          Await(r, store, [umap EXCEPT ![o.cuser.uid] = SRem(umap[o.cuser.uid], o.csid)], good, bad)
    BY <1>6, <2>2 DEF ClonedUnmapping, SInv, IInv, TypeOK
  <2>. HIDE DEF o
  <2>. QED  BY <1>3, <2>2, <2>3, IndexYoung
<1>8. CASE FilterRemove(r)
  <2>1. o.pc \in Listing
    BY <1>8 DEF FilterRemove, At, Listing
  <2>2. o.arg.uid \in Uids
    BY <2>1, Under, Constants DEF Loyal, Listing
  <2>3. \E good, bad :
          Await(r, store, [umap EXCEPT ![o.arg.uid] = SRem(umap[o.arg.uid], o.cur)], good, bad)
    BY <1>8, <2>2 DEF FilterRemove, SInv, IInv, TypeOK
  <2>. HIDE DEF o
  <2>. QED  BY <1>3, <2>2, <2>3, IndexYoung
<1>7. CASE ~ (MappingAdd(r) \/ MappingExpire(r) \/ Unmapping(r) \/ ClonedUnmapping(r)
              \/ FilterRemove(r))
  <2>2. \A st, good, bad : Await(r, st, umap, good, bad) => umap' = umap /\ clock' = clock
    BY DEF Await
  <2>3. umap' = umap /\ clock' = clock
    <3>1. CASE \/ \E s \in Sids : OpenWith(r, s) \/ \E t \in Ttls : OpenNew(r, s, t)
               \/ Close(r) \/ AnyCall(r) \/ Drop(r) \/ Raw(r)
      BY <3>1 DEF OpenWith, OpenNew, Close, AnyCall, CallUser, CallSet, CallGet, CallDel,
         CallTouch, CallLogin, CallAutoLogin, CallLogout, CallDestroy, CallSync, Call, Drop, Raw
    <3>2. CASE Command(r) /\ ~ Raw(r)
      BY <1>7, <2>2, <3>2 DEF Command, LoadUser, SilentSet, SilentGet, SilentDel, Touch,
         Load, ClonedDestroy, LogoutDel, DestroyDel, AllSid, FilterExists, SyncSet, Ask, Write
    <3>. QED  BY <3>1, <3>2 DEF Request
  <2>. QED  BY <2>3
<1>. QED  BY <1>5, <1>6, <1>7, <1>8

(* Until an index entry may expire, a tick leaves the index as it is. *)
LEMMA TickIndex ==
  ASSUME SInv, Young(umap, clock), Tick
  PROVE  /\ Young(umap', clock') /\ clock' <= MaxClock
         /\ MaxClock < MapTtl => \A u \in Uids : umap'[u].sids = umap[u].sids
<1>1. /\ clock \in Nat /\ clock' = clock + 1 /\ clock < MaxClock /\ MaxClock \in Nat
      /\ MapTtl \in Nat
  BY Constants, ConstantsOK DEF Tick, SInv, IInv, TypeOK
<1>2. ASSUME NEW u \in Uids
      PROVE  /\ umap'[u].ttl = 0 \/ umap'[u].ttl + clock' >= MapTtl
             /\ MaxClock < MapTtl => umap'[u].sids = umap[u].sids
  <2>. DEFINE m == umap[u]
  <2>1. m \in [sids : SUBSET Sids, ttl : Nat] /\ umap'[u] = Age(m, EmptySet)
    BY DEF Tick, SInv, IInv, TypeOK
  <2>2. m.ttl \in Nat /\ (m.ttl = 0 \/ m.ttl + clock >= MapTtl)
    BY <2>1 DEF Young
  <2>3. CASE m.ttl = 0
    BY <2>1, <2>3 DEF Age
  <2>4. CASE m.ttl = 1
    <3>1. umap'[u].ttl = 0
      BY <2>1, <2>4 DEF Age, EmptySet
    <3>2. ~ (MaxClock < MapTtl)
      BY <1>1, <2>2, <2>4
    <3>. QED  BY <3>1, <3>2
  <2>5. CASE m.ttl \notin {0, 1}
    <3>1. umap'[u] = [m EXCEPT !.ttl = m.ttl - 1]
      BY <2>1, <2>5 DEF Age
    <3>2. umap'[u].ttl = m.ttl - 1 /\ umap'[u].sids = m.sids
      BY <2>1, <3>1
    <3>. HIDE DEF m
    <3>3. umap'[u].ttl + clock' >= MapTtl
      BY <1>1, <2>2, <2>5, <3>2
    <3>. QED  BY <3>2, <3>3 DEF m
  <2>. QED  BY <2>2, <2>3, <2>4, <2>5
<1>. QED  BY <1>1, <1>2 DEF Young

(* A tick expires a login or leaves it as it is, with a TTL if it had one. *)
LEMMA TickLogin ==
  ASSUME SInv, Tick, NEW s \in Sids, store'[s].user # Nil
  PROVE  /\ store'[s].user = store[s].user /\ owner[s] \in Uids
         /\ store[s].ttl > 0 => store'[s].ttl > 0
<1>. DEFINE h == store[s]
<1>1. h \in Hashes /\ store'[s] = Age(h, Missing)
  BY DEF Tick, SInv, IInv, TypeOK
<1>2. h.ttl \in Nat
  BY <1>1 DEF Hashes
<1>3. h.user # Nil /\ store'[s].user = h.user
  BY <1>1, HashTypes
<1>4. CASE h.ttl = 1
  BY <1>1, <1>4, MissingType DEF Age
<1>5. CASE h.ttl # 1
  <2>1. h.ttl > 0 => store'[s] = [h EXCEPT !.ttl = h.ttl - 1]
    BY <1>1, <1>2, <1>5 DEF Age
  <2>2. h.ttl > 0 => store'[s].ttl = h.ttl - 1
    BY <1>1, <2>1 DEF Hashes
  <2>3. h.ttl > 0 => store'[s].ttl > 0
    BY <1>2, <1>5, <2>2
  <2>. QED  BY <1>3, <2>3, LoginHasUser
<1>. QED  BY <1>4, <1>5

LEMMA TickMInv ==
  ASSUME MInv, LInv', Tick
  PROVE  MInv'
<1>1. SInv /\ Young(umap, clock) /\ UNCHANGED <<obj, owner, faults>>
  BY DEF Tick, MInv, LInv
<1>2. ASSUME faults' = 0, NEW s \in Sids, store'[s].user # Nil
      PROVE  Tracked(s)'
  <2>1. store[s].user # Nil /\ owner[s] \in Uids /\ (store[s].ttl > 0 => store'[s].ttl > 0)
    BY <1>1, <1>2, TickLogin
  <2>2. Tracked(s)
    BY <1>1, <1>2 DEF MInv
  <2>3. MaxClock < MapTtl => umap'[owner[s]].sids = umap[owner[s]].sids
    BY <1>1, <2>1, TickIndex
  <2>. QED  BY <1>1, <2>1, <2>2, <2>3 DEF Tracked
<1>3. faults' = 0 => \A s \in Sids : Tracked(s)'
  BY <1>2 DEF Tracked
<1>. QED  BY <1>1, <1>3, TickIndex DEF MInv

-----------------------------------------------------------------------------
(* The theorems *)

LEMMA InitMInv == Init => MInv
<1>. SUFFICES ASSUME Init  PROVE MInv
  OBVIOUS
<1>1. clock <= MaxClock
  BY ConstantsOK DEF Init
<1>2. Young(umap, clock)
  BY DEF Init, Young, EmptySet
<1>3. \A s \in Sids : Tracked(s)
  BY DEF Init, Missing, Tracked
<1>. QED  BY <1>1, <1>2, <1>3, InitLInv DEF MInv

LEMMA RequestTracks ==
  ASSUME SInv, NEW r \in Reqs, Request(r), obj[r].pc \notin Listing
  PROVE  Tracks(r)
<1>1. CASE \/ \E s \in Sids : OpenWith(r, s) \/ \E t \in Ttls : OpenNew(r, s, t)
           \/ Close(r) \/ AnyCall(r) \/ Drop(r)
  BY <1>1, BetweenTracks, DropTracks
<1>2. CASE Command(r)
  <2>1. CASE LoadUser(r) \/ SilentSet(r) \/ SilentGet(r) \/ SilentDel(r) \/ Touch(r)
    BY <2>1, LoadUserTracks, FieldTracks, TouchTracks
  <2>2. CASE Raw(r) \/ Load(r) \/ MappingAdd(r) \/ MappingExpire(r)
    BY <2>2, RawTracks, LoadTracks, MappingTracks
  <2>3. CASE ClonedUnmapping(r) \/ Unmapping(r) \/ ClonedDestroy(r) \/ LogoutDel(r) \/ DestroyDel(r)
    BY <2>3, UnmappingTracks, DeletingTracks
  <2>4. ~ AllSid(r) /\ ~ FilterRemove(r) /\ \A s \in Sids : ~ FilterExists(r, s) /\ ~ SyncSet(r, s)
    BY DEF AllSid, FilterRemove, FilterExists, SyncSet, At, Listing
  <2>. QED  BY <1>2, <2>1, <2>2, <2>3, <2>4 DEF Command
<1>. QED  BY <1>1, <1>2 DEF Request

LEMMA NextMInv ==
  ASSUME "sync" \notin Ops
  PROVE  MInv /\ [Next]_vars => MInv'
<1>. SUFFICES ASSUME MInv, [Next]_vars  PROVE MInv'
  OBVIOUS
<1>1. LInv /\ LInv'
  BY NextLInv DEF MInv
<1>2. CASE UNCHANGED vars
  BY <1>1, <1>2 DEF vars, MInv, Young, Tracked
<1>3. CASE Tick
  BY <1>1, <1>3, TickMInv
<1>4. ASSUME NEW r \in Reqs, Request(r)
      PROVE  MInv'
  <2>1. Keeps(r)
    BY <1>1, <1>4, RequestKeeps DEF LInv
  <2>2. faults' = 0 => \A s \in Sids : Tracked(s)'
    BY <1>1, <1>4, <2>1, FaultsStay, RequestTracks, TracksStep DEF LInv, NoSync
  <2>3. Young(umap', clock') /\ clock' <= MaxClock
    BY <1>1, <1>4, <2>1, RequestYoung DEF MInv, LInv, Keeps, Within
  <2>. QED  BY <1>1, <2>2, <2>3 DEF MInv, Young
<1>. QED  BY <1>2, <1>3, <1>4 DEF Next

(* Nobody has anything left to do in a quiet state. *)
LEMMA QuietSettled ==
  ASSUME MInv, Quiet, faults = 0, NEW s \in Sids, store[s].user # Nil
  PROVE  store[s].ttl > 0 /\ (MaxClock < MapTtl => s \in umap[owner[s]].sids)
<1>1. \A r \in Reqs : ~ Touching(obj[r], s) /\ ~ Settling(obj[r], s)
  BY DEF Quiet, Idle, Touching, Settling
<1>. QED  BY <1>1 DEF MInv, Tracked

(***************************************************************************)
(* Without sync and without failures every stored login that no call is    *)
(* working on expires, whatever logins, logouts, touches and field writes  *)
(* overlapped (redis.rs load and try_touch, user.rs renew).                *)
(***************************************************************************)
THEOREM Expiring ==
  ASSUME "sync" \notin Ops
  PROVE  Spec => []LoginExpires
<1>1. Init => MInv
  BY InitMInv
<1>2. MInv /\ [Next]_vars => MInv'
  BY NextMInv
<1>3. MInv => LoginExpires
  BY QuietSettled DEF LoginExpires, Login
<1>. QED  BY <1>1, <1>2, <1>3, PTL DEF Spec

(***************************************************************************)
(* Without sync and without failures every stored login that no call is    *)
(* working on is in the index of its user, as long as the clock has not    *)
(* run for the lifetime of an index entry: mapping gives the entry its TTL *)
(* once, and touching the session does not prolong it (redis.rs mapping,   *)
(* try_touch).                                                             *)
(***************************************************************************)
THEOREM Mapped ==
  ASSUME "sync" \notin Ops, MaxClock < MapTtl
  PROVE  Spec => []LoginMapped
<1>1. Init => MInv
  BY InitMInv
<1>2. MInv /\ [Next]_vars => MInv'
  BY NextMInv
<1>3. MInv => LoginMapped
  <2>. SUFFICES ASSUME MInv, Quiet, faults = 0, NEW s \in Sids, store[s].user # Nil
                PROVE  s \in umap[store[s].user.uid].sids
    BY DEF LoginMapped, Login
  <2>1. s \in umap[owner[s]].sids
    BY QuietSettled
  <2>2. store[s].user.uid = owner[s]
    BY DEF MInv, LInv, SInv, IInv, StoreOwned
  <2>. QED  BY <2>1, <2>2
<1>. QED  BY <1>1, <1>2, <1>3, PTL DEF Spec

-----------------------------------------------------------------------------
(* sync, for requests that come one at a time *)

(* The points of sync after it has listed the ids. *)
Working == {"exists", "filtersrem", "hset"}

SyncOnly(o) == o.op = "sync" => o.pc \in Listing \cup {"ready"}

Told(o) == o.pc = "ready" /\ o.op = "sync" /\ o.ret = "true"

(***************************************************************************)
(* What sync has still to ask about or to write is listed; of the user's   *)
(* logins those it is done with have the profile; an id it takes out of    *)
(* the index is not logged in.                                             *)
(***************************************************************************)
Reaching(o, st, um, own) ==
  /\ o.pc \in Working =>
       o.todo \cap o.kept = {} /\ o.todo \cup o.kept \subseteq um[o.arg.uid].sids
  /\ o.pc = "filtersrem" => o.cur \notin o.todo \cup o.kept /\ st[o.cur].user = Nil
  /\ o.pc \in Working \/ Told(o) =>
       \A s \in Sids : st[s].user # Nil /\ own[s] = o.arg.uid =>
         s \in o.todo \cup o.kept \/ st[s].user = o.arg

Placed(s) ==
  store[s].user # Nil => s \in umap[owner[s]].sids \/ \E r \in Reqs : Settling(obj[r], s)

YInv ==
  /\ SInv
  /\ clock <= MaxClock
  /\ Young(umap, clock)
  /\ \A r \in Reqs : SyncOnly(obj[r])
  /\ faults = 0 => /\ \A s \in Sids : Placed(s)
                   /\ \A r \in Reqs : Reaching(obj[r], store, umap, owner)

(* sync goes on with the lists it has. *)
LEMMA SyncingIs ==
  ASSUME NEW o \in Objects
  PROVE  /\ Syncing(o).op = o.op /\ Syncing(o).arg = o.arg
         /\ Syncing(o).pc \in {"exists", "hset", "ready"}
         /\ Syncing(o).todo = o.todo /\ Syncing(o).kept = o.kept
<1>1. \A pc \in {"exists", "hset"} : LET x == [o EXCEPT !.pc = pc, !.cur = Nil] IN
        /\ x.op = o.op /\ x.arg = o.arg /\ x.pc = pc /\ x.todo = o.todo /\ x.kept = o.kept
  BY DEF Objects
<1>2. LET x == Return(o, "true") IN
        /\ x.op = o.op /\ x.arg = o.arg /\ x.pc = "ready" /\ x.todo = {} /\ x.kept = {}
  BY DEF Return, Objects
<1>3. CASE o.todo # {}
  BY <1>1, <1>3 DEF Syncing
<1>4. CASE o.todo = {} /\ o.kept # {}
  BY <1>1, <1>4 DEF Syncing
<1>5. CASE o.todo = {} /\ o.kept = {}
  BY <1>2, <1>5 DEF Syncing
<1>. QED  BY <1>3, <1>4, <1>5

(* Only the call of sync makes its commands. *)
Elsewhere(x, op) == x.op = op /\ x.pc \notin Listing

LEMMA OpStays ==
  ASSUME SInv, NEW r \in Reqs, Command(r), obj[r].pc \notin Listing
  PROVE  Elsewhere(obj'[r], obj[r].op)
<1>. DEFINE c == obj[r]
<1>1. c.pc # "closed" /\ c.pc # "ready"
  BY DEF Command, LoadUser, SilentSet, SilentGet, SilentDel, Touch, Raw, Load, MappingAdd,
     MappingExpire, ClonedUnmapping, ClonedDestroy, Unmapping, LogoutDel, DestroyDel, AllSid,
     FilterRemove, FilterExists, SyncSet, At
<1>2. /\ c \in Objects /\ c.op # "tryRenew" /\ store[c.sid] \in Hashes
      /\ Steady(c, store, issued, clock) /\ Loyal(c, owner, issued)
  BY <1>1, Under
<1>3. \A x : obj' = [obj EXCEPT ![r] = x] => obj'[r] = x
  BY DEF SInv, IInv, TypeOK
<1>4. \A st, um, good, bad : Await(r, st, um, good, bad) => obj'[r] \in {good, bad}
  BY <1>3 DEF Await
<1>5. \A v \in Rets : Elsewhere(Return(c, v), c.op)
  BY <1>2, ReturnShape DEF Onward, Alike, Elsewhere, Listing
<1>. SUFFICES Elsewhere(obj'[r], c.op)
  OBVIOUS
<1>. HIDE DEF c
<1>6. CASE LoadUser(r)
  <2>. DEFINE o == [c EXCEPT !.loaded = TRUE]
              u == store[o.sid].user
              f == [o EXCEPT !.user = u]
  <2>1. o \in Objects
    BY <1>2, Assigned
  <2>2. o.op = c.op /\ o.sid = c.sid
    BY <1>2 DEF Objects
  <2>3. u \in Profiles \cup {Nil}
    BY <1>2, <2>2 DEF Hashes
  <2>4. obj'[r] \in {AfterUser(o), AfterUser(f)}
    BY <1>4, <1>6 DEF LoadUser, Ask, c
  <2>. HIDE DEF o, u
  <2>5. f \in Objects
    BY <2>1, <2>3, Assigned
  <2>6. f.op = c.op
    BY <2>1, <2>2 DEF Objects
  <2>. HIDE DEF f
  <2>7. \A p \in Objects : p.op = c.op => Elsewhere(AfterUser(p), c.op)
    BY <1>2, AfterUserShape DEF Onward, Alike, Elsewhere, Listing
  <2>. QED  BY <2>1, <2>2, <2>4, <2>5, <2>6, <2>7
<1>7. CASE SilentSet(r) \/ SilentGet(r) \/ SilentDel(r)
  <2>1. c.op \notin Logins
    BY <1>2, <1>7 DEF SilentSet, SilentGet, SilentDel, At, Steady, c
  <2>2. Elsewhere(TryTouch(c), c.op)
    BY <1>2, <2>1, TryTouchShape DEF Onward, Alike, Elsewhere, Listing
  <2>3. obj'[r] \in {TryTouch(c)} \cup {Return(c, v) : v \in Rets}
    BY <1>4, <1>7 DEF SilentSet, SilentGet, SilentDel, Write, Ask, Rets, c
  <2>. QED  BY <1>5, <2>2, <2>3
<1>8. CASE Touch(r)
  <2>. DEFINE p == [c EXCEPT !.touches = Bool(Exists(store[c.sid]))]
  <2>1. p \in Objects
    BY <1>2, Assigned, BoolType
  <2>2. p.op = c.op
    BY <1>2 DEF Objects
  <2>3. obj'[r] \in {AfterTouch(p), Return(c, "err")}
    BY <1>4, <1>8 DEF Touch, Write, c
  <2>. HIDE DEF p
  <2>4. Elsewhere(AfterTouch(p), c.op)
    BY <1>2, <2>1, <2>2, AfterTouchShape DEF Onward, Alike, Elsewhere, Listing
  <2>. QED  BY <1>5, <2>3, <2>4 DEF Rets
<1>9. CASE Raw(r)
  <2>1. \A n, h : Elsewhere(Renewed(c, n, h), c.op)
    BY <1>2 DEF Renewed, Objects, Elsewhere, Listing
  <2>2. [c EXCEPT !.touches = "none"] \in Objects
    BY <1>2, Assigned
  <2>5. [c EXCEPT !.touches = "none"].op = c.op
    BY <1>2 DEF Objects
  <2>3. Elsewhere(Return([c EXCEPT !.touches = "none"], "err"), c.op)
    BY <2>2, <2>5, ReturnShape DEF Rets, Onward, Alike, Elsewhere, Listing
  <2>4. \/ \E n, h : obj'[r] = Renewed(c, n, h)
        \/ obj'[r] \in {Return([c EXCEPT !.touches = "none"], "err"), Return(c, "err")}
    BY <1>3, <1>9 DEF Raw, c
  <2>. QED  BY <1>5, <2>1, <2>3, <2>4 DEF Rets
<1>10. CASE Load(r)
  <2>. DEFINE o == [c EXCEPT !.raw = Missing]
  <2>1. c.pc = "load"
    BY <1>10 DEF Load, At, c
  <2>2. o \in Objects
    BY <1>2, Assigned, MissingType
  <2>3. o.op = c.op /\ o.touches = c.touches
    BY <1>2 DEF Objects
  <2>4. obj'[r] \in {TryTouch(o), Return(c, "err")}
    BY <1>4, <1>10 DEF Load, Write, c
  <2>. HIDE DEF o
  <2>5. Elsewhere(TryTouch(o), c.op)
    BY <1>2, <2>1, <2>2, <2>3, TryTouchShape DEF Steady, Onward, Alike, Elsewhere, Listing
  <2>. QED  BY <1>5, <2>4, <2>5 DEF Rets
<1>11. CASE MappingAdd(r) \/ MappingExpire(r) \/ ClonedUnmapping(r)
  <2>1. Elsewhere(AfterRenew(c), c.op)
    BY <1>2, AfterRenewShape DEF Onward, Alike, Elsewhere, Listing
  <2>2. \A pc \in Points \ Listing : Elsewhere([c EXCEPT !.pc = pc], c.op)
    BY <1>2, MoveShape DEF Onward, Alike, Elsewhere
  <2>3. obj'[r] \in {AfterRenew(c), Return(c, "err"), [c EXCEPT !.pc = "mapexpire"],
                     [c EXCEPT !.pc = "cdel"]}
    BY <1>4, <1>11 DEF MappingAdd, MappingExpire, ClonedUnmapping, c
  <2>. QED  BY <1>5, <2>1, <2>2, <2>3, PointsReached DEF Rets, Listing
<1>12. CASE ClonedDestroy(r) \/ LogoutDel(r) \/ DestroyDel(r)
  <2>1. obj'[r] \in {Return(c, v) : v \in Rets}
    BY <1>4, <1>12, BoolType DEF ClonedDestroy, LogoutDel, DestroyDel, Write, Rets, c
  <2>. QED  BY <1>5, <2>1
<1>13. CASE Unmapping(r)
  <2>1. /\ Elsewhere([c EXCEPT !.user = Nil, !.pc = "userdel"], c.op)
        /\ Elsewhere([c EXCEPT !.pc = "destroydel"], c.op)
    BY <1>2 DEF Objects, Elsewhere, Listing
  <2>2. obj'[r] \in {[c EXCEPT !.user = Nil, !.pc = "userdel"], [c EXCEPT !.pc = "destroydel"],
                     Return(c, "err")}
    BY <1>4, <1>13 DEF Unmapping, c
  <2>. QED  BY <1>5, <2>1, <2>2 DEF Rets
<1>14. ~ AllSid(r) /\ ~ FilterRemove(r) /\ \A s \in Sids : ~ FilterExists(r, s) /\ ~ SyncSet(r, s)
  BY DEF AllSid, FilterRemove, FilterExists, SyncSet, At, Listing
<1>. QED  BY <1>6, <1>7, <1>8, <1>9, <1>10, <1>11, <1>12, <1>13, <1>14 DEF Command

(* A call begins with nothing told, and only that of sync as a sync. *)
Apart(x) == x.op # "sync" /\ x.pc \notin Listing

LEMMA Begun ==
  ASSUME SInv, NEW r \in Reqs,
         \/ \E s \in Sids, t \in Ttls : OpenNew(r, s, t)
         \/ \E s \in Sids : OpenWith(r, s)
         \/ Close(r) \/ Drop(r) \/ AnyCall(r)
  PROVE  Apart(obj'[r]) \/ obj'[r].pc = "smembers"
<1>1. \A x : obj' = [obj EXCEPT ![r] = x] => obj'[r] = x
  BY DEF SInv, IInv, TypeOK
<1>2. CASE (\E s \in Sids, t \in Ttls : OpenNew(r, s, t)) \/ \E s \in Sids : OpenWith(r, s)
  BY <1>1, <1>2 DEF OpenNew, OpenWith, Object, Apart, Listing
<1>3. CASE Close(r) \/ Drop(r)
  BY <1>1, <1>3 DEF Close, Drop, Closed, Object, Apart, Listing
<1>4. CASE AnyCall(r)
  <2>. DEFINE B(op) == Begin(obj[r], op)
  <2>1. obj[r].pc = "ready"
    BY <1>4 DEF AnyCall, CallUser, CallSet, CallGet, CallDel, CallTouch, CallLogin, CallAutoLogin,
                CallLogout, CallDestroy, CallSync, Call
  <2>2. \A op \in Calls \ {"tryRenew", "condemn"} :
          B(op) \in Objects /\ B(op).op = op /\ B(op).op # "tryRenew"
    BY <2>1, BeginShape
  <2>. HIDE DEF B
  <2>3. \A op \in {"user", "logout", "destroy"} : Apart(User(B(op)))
    BY <2>2, UserShape DEF Calls, Logins, Onward, Alike, Apart, Listing
  <2>4. Apart(TryTouch(B("touch")))
    BY <2>2, TryTouchShape DEF Calls, Logins, Onward, Alike, Apart, Listing
  <2>5. CASE CallUser(r) \/ CallLogout(r) \/ CallDestroy(r) \/ CallTouch(r)
    BY <1>1, <2>3, <2>4, <2>5 DEF CallUser, CallLogout, CallDestroy, CallTouch, Call, B
  <2>6. CASE CallGet(r) \/ CallDel(r)
    <3>1. Apart([B("get") EXCEPT !.pc = "get"]) /\ Apart([B("del") EXCEPT !.pc = "del"])
      BY <2>2 DEF Objects, Calls, Apart, Listing
    <3>2. obj'[r] \in {[B("get") EXCEPT !.pc = "get"], [B("del") EXCEPT !.pc = "del"]}
      BY <1>1, <2>6 DEF CallGet, CallDel, Call, B
    <3>. QED  BY <3>1, <3>2
  <2>7. ASSUME NEW d \in Datas, CallSet(r, d)
        PROVE  Apart(obj'[r])
    <3>1. Apart([B("set") EXCEPT !.arg = d, !.pc = "set"])
      BY <2>2 DEF Objects, Calls, Apart, Listing
    <3>2. obj'[r] = [B("set") EXCEPT !.arg = d, !.pc = "set"]
      BY <1>1, <2>7 DEF CallSet, Call, B
    <3>. QED  BY <3>1, <3>2
  <2>8. ASSUME NEW p \in Profiles, CallSync(r, p)
        PROVE  obj'[r].pc = "smembers"
    <3>1. [B("sync") EXCEPT !.arg = p, !.pc = "smembers"].pc = "smembers"
      BY <2>2 DEF Objects, Calls, Apart, Listing
    <3>2. obj'[r] = [B("sync") EXCEPT !.arg = p, !.pc = "smembers"]
      BY <1>1, <2>8 DEF CallSync, Call, B
    <3>. QED  BY <3>1, <3>2
  <2>9. CASE CallAutoLogin(r)
    <3>1. Apart(LogIn(B("autoLogin")))
      BY <2>2 DEF LogIn, Objects, Calls, Apart, Listing
    <3>2. obj'[r] = LogIn(B("autoLogin"))
      BY <1>1, <2>9 DEF CallAutoLogin, Call, B
    <3>. QED  BY <3>1, <3>2
  <2>10. ASSUME NEW p \in Profiles, NEW t \in Ttls, CallLogin(r, p, t)
         PROVE  Apart(obj'[r])
    <3>1. Apart([LogIn(B("login")) EXCEPT !.user = p, !.ttl = t])
      BY <2>2 DEF LogIn, Objects, Calls, Apart, Listing
    <3>2. obj'[r] = [LogIn(B("login")) EXCEPT !.user = p, !.ttl = t]
      BY <1>1, <2>10 DEF CallLogin, Call, B
    <3>. QED  BY <3>1, <3>2, Zenon
  <2>. QED  BY <1>4, <2>5, <2>6, <2>7, <2>8, <2>9, <2>10 DEF AnyCall
<1>. QED  BY <1>2, <1>3, <1>4

(* No other command ends a sync. *)
LEMMA SyncOnlyStays ==
  ASSUME SInv, NEW r \in Reqs, SyncOnly(obj[r]), Request(r), obj[r].pc \notin Listing
  PROVE  Apart(obj'[r]) \/ obj'[r].pc = "smembers"
<1>1. CASE Command(r)
  <2>1. obj[r].pc # "ready"
    BY <1>1 DEF Command, LoadUser, SilentSet, SilentGet, SilentDel, Touch, Raw, Load, MappingAdd,
       MappingExpire, ClonedUnmapping, ClonedDestroy, Unmapping, LogoutDel, DestroyDel, AllSid,
       FilterRemove, FilterExists, SyncSet, At
  <2>. QED  BY <1>1, <2>1, OpStays DEF SyncOnly, Elsewhere, Apart
<1>2. CASE ~ Command(r)
  BY <1>2, Begun DEF Request
<1>. QED  BY <1>1, <1>2

(* The steps of sync itself. *)
LEMMA SyncReaches ==
  ASSUME OneAtATime, SInv, NEW r \in Reqs, NEW s \in Sids, faults' = 0,
         \A x \in Sids : Placed(x), Reaching(obj[r], store, umap, owner),
         AllSid(r) \/ FilterExists(r, s) \/ FilterRemove(r) \/ SyncSet(r, s)
  PROVE  /\ \A x \in Sids : Placed(x)'
         /\ Reaching(obj'[r], store', umap', owner')
<1>. DEFINE c == obj[r]
            Mine(x) == store[x].user # Nil /\ owner[x] = c.arg.uid
<1>1. c.pc \in Listing
  BY DEF AllSid, FilterExists, FilterRemove, SyncSet, At, Listing
<1>2. /\ c \in Objects /\ c.arg \in Profiles /\ Loyal(c, owner, issued) /\ c.arg.uid \in Uids
      /\ c.todo \cup c.kept \subseteq Owned(c.arg.uid, owner)
  BY <1>1, Under, Constants DEF Loyal, Listing
<1>3. c.todo \in SUBSET Sids /\ c.kept \in SUBSET Sids
  BY <1>2 DEF Objects
<1>4. \A x \in Sids : store[x].user # Nil => x \in umap[owner[x]].sids
  <2>1. \A x \in Sids : \A q \in Reqs : ~ Settling(obj[q], x)
    BY <1>1 DEF Settling, Listing, OneAtATime
  <2>. QED  BY <2>1 DEF Placed
<1>5. ASSUME store' = store, umap' = umap, owner' = owner
      PROVE  \A x \in Sids : Placed(x)'
  BY <1>4, <1>5 DEF Placed
<1>6. CASE AllSid(r)
  <2>. DEFINE o == [c EXCEPT !.todo = umap[c.arg.uid].sids]
  <2>1. umap[c.arg.uid].sids \in SUBSET Sids /\ c.pc = "smembers"
    BY <1>2, <1>6 DEF AllSid, At, SInv, IInv, TypeOK
  <2>2. o \in Objects
    BY <1>2, <2>1, Assigned
  <2>3. o.arg = c.arg /\ o.todo = umap[c.arg.uid].sids /\ o.kept = {}
    BY <1>2, <2>1 DEF Objects, Loyal
  <2>4. store' = store /\ umap' = umap /\ owner' = owner /\ obj'[r] = Syncing(o)
    BY <1>6, Answered DEF AllSid, Ask
  <2>. HIDE DEF o
  <2>5. Reaching(Syncing(o), store, umap, owner)
    BY <1>4, <2>2, <2>3, SyncingIs DEF Reaching
  <2>. QED  BY <1>5, <2>4, <2>5
<1>7. CASE FilterExists(r, s)
  <2>. DEFINE o == [c EXCEPT !.todo = c.todo \ {s}]
              k == [o EXCEPT !.kept = o.kept \cup {s}]
              g == [o EXCEPT !.cur = s, !.pc = "filtersrem"]
  <2>1. s \in c.todo /\ c.pc = "exists"
    BY <1>7 DEF FilterExists, At
  <2>2. o \in Objects
    BY <1>2, <1>3, Assigned
  <2>3. o.arg = c.arg /\ o.todo = c.todo \ {s} /\ o.kept = c.kept
    BY <1>2 DEF Objects
  <2>4. /\ store' = store /\ umap' = umap /\ owner' = owner
        /\ obj'[r] = IF Exists(store[s]) THEN Syncing(k) ELSE g
    BY <1>7, Answered DEF FilterExists, Ask
  <2>. HIDE DEF o
  <2>5. k \in Objects
    BY <1>3, <2>2, <2>3, Assigned
  <2>6. k.arg = c.arg /\ k.todo = c.todo \ {s} /\ k.kept = c.kept \cup {s}
    BY <2>2, <2>3 DEF Objects
  <2>7. /\ g.arg = c.arg /\ g.pc = "filtersrem" /\ g.cur = s
        /\ g.todo = c.todo \ {s} /\ g.kept = c.kept
    BY <2>2, <2>3 DEF Objects
  <2>. HIDE DEF k, g
  <2>8. /\ c.todo \cap c.kept = {} /\ c.todo \cup c.kept \subseteq umap[c.arg.uid].sids
        /\ \A x \in Sids : Mine(x) => x \in c.todo \cup c.kept \/ store[x].user = c.arg
    BY <2>1 DEF Reaching, Working
  <2>9. Reaching(Syncing(k), store, umap, owner)
    <3>. DEFINE y == Syncing(k)
    <3>1. /\ y.pc \in {"exists", "hset", "ready"} /\ y.arg = c.arg
          /\ y.todo = c.todo \ {s} /\ y.kept = c.kept \cup {s}
      BY <2>5, <2>6, SyncingIs
    <3>. HIDE DEF y
    <3>3. s \notin c.kept
      BY <2>1, <2>8
    <3>2. Reaching(y, store, umap, owner)
      BY <2>1, <2>8, <3>1, <3>3 DEF Reaching
    <3>. QED  BY <3>2 DEF y
  <2>10. ~ Exists(store[s]) => Reaching(g, store, umap, owner)
    <3>1. ~ Exists(store[s]) => store[s].user = Nil
      BY DEF Exists, Fields
    <3>. QED  BY <2>1, <2>7, <2>8, <3>1 DEF Reaching, Told
  <2>11. Reaching(obj'[r], store, umap, owner)
    BY <2>4, <2>9, <2>10
  <2>. QED  BY <1>5, <2>4, <2>11
<1>8. CASE FilterRemove(r)
  <2>. DEFINE u == c.arg.uid
              y == Syncing(c)
  <2>1. c.pc = "filtersrem" /\ c.cur \notin c.todo \cup c.kept /\ store[c.cur].user = Nil
    BY <1>8 DEF FilterRemove, At, Reaching
  <2>2. Await(r, store, [umap EXCEPT ![u] = SRem(umap[u], c.cur)], y, y)
    BY <1>2, <1>8 DEF FilterRemove, SInv, IInv, TypeOK
  <2>3. /\ store' = store /\ umap' = [umap EXCEPT ![u] = SRem(umap[u], c.cur)]
        /\ owner' = owner /\ obj'[r] = y
    BY <2>2, Answered
  <2>4. /\ y.pc \in {"exists", "hset", "ready"} /\ y.arg = c.arg
        /\ y.todo = c.todo /\ y.kept = c.kept
    BY <1>2, SyncingIs
  <2>. HIDE DEF y
  <2>5. SRem(umap[u], c.cur).sids = umap[u].sids \ {c.cur}
    BY <1>2, RemovesOne DEF SInv, IInv, TypeOK
  <2>6. \A v \in Uids : umap'[v].sids = IF v = u THEN umap[u].sids \ {c.cur} ELSE umap[v].sids
    BY <1>2, <2>3, <2>5 DEF SInv, IInv, TypeOK
  <2>7. \A x \in Sids : Placed(x)'
    <3>. SUFFICES ASSUME NEW x \in Sids, store[x].user # Nil  PROVE x \in umap'[owner[x]].sids
      BY <2>3 DEF Placed
    <3>1. owner[x] \in Uids
      BY LoginHasUser
    <3>. QED  BY <1>4, <2>1, <2>6, <3>1
  <2>8. /\ c.todo \cap c.kept = {} /\ c.todo \cup c.kept \subseteq umap[u].sids
        /\ \A x \in Sids : Mine(x) => x \in c.todo \cup c.kept \/ store[x].user = c.arg
    BY <2>1 DEF Reaching, Working
  <2>9. c.todo \cup c.kept \subseteq umap'[u].sids
    BY <1>2, <2>1, <2>6, <2>8
  <2>10. Reaching(y, store, umap', owner)
    BY <2>4, <2>8, <2>9 DEF Reaching
  <2>. QED  BY <2>3, <2>7, <2>10
<1>9. CASE SyncSet(r, s)
  <2>. DEFINE o == [c EXCEPT !.kept = c.kept \ {s}]
              y == Syncing(o)
              h == HSet(store[s], "user", c.arg)
  <2>1. c.pc = "hset" /\ s \in c.kept
    BY <1>9 DEF SyncSet, At
  <2>2. o \in Objects
    BY <1>2, <1>3, Assigned
  <2>3. o.arg = c.arg /\ o.todo = c.todo /\ o.kept = c.kept \ {s}
    BY <1>2 DEF Objects
  <2>4. h.user = c.arg
    BY <1>2 DEF HSet, SInv, IInv, TypeOK, Hashes
  <2>5. store' = [store EXCEPT ![s] = h] /\ umap' = umap /\ owner' = owner /\ obj'[r] = y
    BY <1>9, Answered DEF SyncSet, Write
  <2>. HIDE DEF o, h
  <2>6. /\ y.pc \in {"exists", "hset", "ready"} /\ y.arg = c.arg
        /\ y.todo = c.todo /\ y.kept = c.kept \ {s}
    BY <2>2, <2>3, SyncingIs
  <2>. HIDE DEF y
  <2>7. store'[s].user = c.arg /\ \A x \in Sids \ {s} : store'[x] = store[x]
    BY <2>4, <2>5 DEF SInv, IInv, TypeOK
  <2>8. /\ c.todo \cap c.kept = {} /\ c.todo \cup c.kept \subseteq umap[c.arg.uid].sids
        /\ \A x \in Sids : Mine(x) => x \in c.todo \cup c.kept \/ store[x].user = c.arg
    BY <2>1 DEF Reaching, Working
  <2>9. s \in umap[owner[s]].sids
    BY <1>2, <2>1, <2>8 DEF Owned
  <2>10. \A x \in Sids : Placed(x)'
    BY <1>4, <2>5, <2>7, <2>9 DEF Placed
  <2>11. \A x \in Sids : store'[x].user # Nil /\ owner[x] = c.arg.uid =>
           x \in y.todo \cup y.kept \/ store'[x].user = c.arg
    BY <2>6, <2>7, <2>8
  <2>12. Reaching(y, store', umap, owner)
    BY <2>6, <2>8, <2>11 DEF Reaching
  <2>. QED  BY <2>5, <2>10, <2>12
<1>. QED  BY <1>6, <1>7, <1>8, <1>9

(* A sync stays one until it is over. *)
LEMMA SyncStays ==
  ASSUME SInv, NEW r \in Reqs, NEW s \in Sids,
         AllSid(r) \/ FilterExists(r, s) \/ FilterRemove(r) \/ SyncSet(r, s)
  PROVE  obj'[r].pc \in Listing \cup {"ready"}
<1>. DEFINE c == obj[r]
            l == [c EXCEPT !.todo = umap[c.arg.uid].sids]
            p == [c EXCEPT !.todo = c.todo \ {s}]
            k == [p EXCEPT !.kept = p.kept \cup {s}]
            g == [p EXCEPT !.cur = s, !.pc = "filtersrem"]
            w == [c EXCEPT !.kept = c.kept \ {s}]
<1>1. c.pc \in Listing
  BY DEF AllSid, FilterExists, FilterRemove, SyncSet, At, Listing
<1>2. c \in Objects /\ c.arg \in Profiles /\ c.arg.uid \in Uids
  BY <1>1, Under, Constants DEF Loyal, Listing
<1>3. /\ umap[c.arg.uid].sids \in SUBSET Sids
      /\ c.todo \in SUBSET Sids /\ c.kept \in SUBSET Sids
  BY <1>2 DEF SInv, IInv, TypeOK, Objects
<1>4. l \in Objects /\ p \in Objects /\ w \in Objects
  BY <1>2, <1>3, Assigned
<1>5. p.kept \in SUBSET Sids /\ g.pc = "filtersrem"
  BY <1>4 DEF Objects
<1>6. \A x : obj' = [obj EXCEPT ![r] = x] => obj'[r] = x
  BY DEF SInv, IInv, TypeOK
<1>7. obj'[r] \in {Syncing(l), Syncing(k), Syncing(c), Syncing(w), g,
                   Return(c, "err"), Return(p, "err")}
  BY <1>6 DEF AllSid, FilterExists, FilterRemove, SyncSet, Ask, Write, Await
<1>. HIDE DEF p
<1>8. k \in Objects
  BY <1>4, <1>5, Assigned
<1>. HIDE DEF c, l, k, g, w
<1>9. \A x \in Objects : Syncing(x).pc \in Listing \cup {"ready"} /\ Return(x, "err").pc = "ready"
  BY SyncingIs, ReturnShape DEF Listing, Rets, Onward
<1>. QED  BY <1>2, <1>4, <1>5, <1>7, <1>8, <1>9 DEF Listing

-----------------------------------------------------------------------------
(* The theorem about sync *)

(* A step outside of sync keeps the index complete and begins no writing. *)
LEMMA ElsewherePlaced ==
  ASSUME OneAtATime, YInv, NEW r \in Reqs, Request(r), obj[r].pc \notin Listing, faults' = 0
  PROVE  /\ \A s \in Sids : Placed(s)'
         /\ Reaching(obj'[r], store', umap', owner')
<1>1. SInv /\ faults = 0 /\ SyncOnly(obj[r])
  BY FaultsStay DEF YInv
<1>2. Tracks(r)
  BY <1>1, RequestTracks
<1>3. \A s \in Sids : Placed(s)'
  <2>. SUFFICES ASSUME NEW s \in Sids, store'[s].user # Nil
                PROVE  s \in umap'[owner'[s]].sids \/ Settling(obj'[r], s)
    BY DEF Placed
  <2>1. Leaves(r, s)
    BY <1>2 DEF Tracks
  <2>2. Placed(s)
    BY <1>1 DEF YInv
  <2>3. store[s].user # Nil => s \in umap[owner[s]].sids \/ Settling(obj[r], s)
    BY <2>2 DEF Placed, OneAtATime
  <2>. QED  BY <2>1, <2>3 DEF Leaves
<1>4. Apart(obj'[r]) \/ obj'[r].pc = "smembers"
  BY <1>1, SyncOnlyStays
<1>. QED  BY <1>3, <1>4 DEF Reaching, Apart, Working, Listing, Told

LEMMA RequestYInv ==
  ASSUME OneAtATime, YInv, NEW r \in Reqs, Request(r)
  PROVE  /\ SyncOnly(obj'[r])
         /\ faults' = 0 => /\ \A s \in Sids : Placed(s)'
                           /\ Reaching(obj'[r], store', umap', owner')
<1>1. SInv /\ SyncOnly(obj[r])
  BY DEF YInv
<1>2. CASE obj[r].pc \notin Listing
  <2>1. SyncOnly(obj'[r])
    BY <1>1, <1>2, SyncOnlyStays DEF SyncOnly, Apart, Listing
  <2>. QED  BY <1>2, <2>1, ElsewherePlaced
<1>3. CASE obj[r].pc \in Listing /\ Command(r)
  <2>1. PICK s \in Sids : AllSid(r) \/ FilterExists(r, s) \/ FilterRemove(r) \/ SyncSet(r, s)
    <3>1. obj[r].sid \in Sids
      BY <1>1, <1>3, Under DEF Listing
    <3>. QED  BY <1>3, <3>1 DEF Command, LoadUser, SilentSet, SilentGet, SilentDel, Touch, Raw,
              Load, MappingAdd, MappingExpire, ClonedUnmapping, ClonedDestroy, Unmapping,
              LogoutDel, DestroyDel, At, Listing
  <2>2. SyncOnly(obj'[r])
    BY <1>1, <2>1, SyncStays DEF SyncOnly
  <2>3. faults' = 0 => faults = 0
    BY <1>1, FaultsStay
  <2>4. faults = 0 => Reaching(obj[r], store, umap, owner) /\ \A x \in Sids : Placed(x)
    BY DEF YInv
  <2>. QED  BY <1>1, <2>1, <2>2, <2>3, <2>4, SyncReaches
<1>4. CASE obj[r].pc \in Listing /\ ~ Command(r)
  <2>1. Drop(r)
    BY <1>4 DEF Request, OpenNew, OpenWith, Close, AnyCall, CallUser, CallSet, CallGet, CallDel,
       CallTouch, CallLogin, CallAutoLogin, CallLogout, CallDestroy, CallSync, Call, Listing
  <2>2. obj'[r] = Closed /\ faults' # 0
    BY <1>1, <2>1 DEF Drop, SInv, IInv, TypeOK
  <2>. QED  BY <2>2 DEF SyncOnly, Closed, Object
<1>. QED  BY <1>2, <1>3, <1>4

(* A tick takes logins away, and until MapTtl none of the index. *)
LEMMA TickYInv ==
  ASSUME YInv, SInv', Tick, MaxClock < MapTtl
  PROVE  YInv'
<1>1. SInv /\ Young(umap, clock) /\ UNCHANGED <<obj, owner, faults>>
  BY DEF Tick, YInv
<1>2. \A u \in Uids : umap'[u].sids = umap[u].sids
  BY <1>1, TickIndex
<1>3. \A s \in Sids : store'[s].user # Nil => store'[s].user = store[s].user /\ owner[s] \in Uids
  BY <1>1, TickLogin
<1>4. ASSUME faults = 0  PROVE \A s \in Sids : Placed(s)'
  <2>1. \A s \in Sids : Placed(s)
    BY <1>4 DEF YInv
  <2>. QED  BY <1>1, <1>2, <1>3, <2>1 DEF Placed
<1>5. ASSUME faults = 0, NEW r \in Reqs  PROVE Reaching(obj[r], store', umap', owner)
  <2>. DEFINE o == obj[r]
  <2>1. Reaching(o, store, umap, owner)
    BY <1>5 DEF YInv
  <2>2. o.pc \in Working => o.arg.uid \in Uids
    BY <1>1, Under, Constants DEF Loyal, Listing, Working
  <2>3. o.pc = "filtersrem" => o.cur \in Sids
    BY <1>1, Under DEF Loyal
  <2>4. o.pc = "filtersrem" => store'[o.cur].user = Nil
    BY <1>3, <2>1, <2>3 DEF Reaching
  <2>5. o.pc \in Working \/ Told(o) =>
          \A s \in Sids : store'[s].user # Nil /\ owner[s] = o.arg.uid =>
            s \in o.todo \cup o.kept \/ store'[s].user = o.arg
    BY <1>3, <2>1 DEF Reaching
  <2>. QED  BY <1>2, <2>1, <2>2, <2>4, <2>5 DEF Reaching
<1>. QED  BY <1>1, <1>4, <1>5, TickIndex DEF YInv

LEMMA NextYInv ==
  ASSUME OneAtATime, MaxClock < MapTtl
  PROVE  YInv /\ [Next]_vars => YInv'
<1>. SUFFICES ASSUME YInv, [Next]_vars  PROVE YInv'
  OBVIOUS
<1>1. SInv /\ SInv'
  BY NextSInv DEF YInv
<1>2. CASE UNCHANGED vars
  BY <1>1, <1>2 DEF vars, YInv, Young, Placed
<1>3. CASE Tick
  BY <1>1, <1>3, TickYInv
<1>4. ASSUME NEW r \in Reqs, Request(r)
      PROVE  YInv'
  <2>1. clock' = clock
    BY <1>1, <1>4, RequestKeeps DEF Keeps, Within
  <2>2. Young(umap', clock') /\ clock' <= MaxClock
    BY <1>1, <1>4, <2>1, RequestYoung DEF YInv
  <2>3. \A q \in Reqs : q = r
    BY DEF OneAtATime
  <2>. QED  BY <1>1, <1>4, <2>2, <2>3, RequestYInv DEF YInv
<1>. QED  BY <1>2, <1>3, <1>4 DEF Next

(***************************************************************************)
(* After sync has reported success every stored login of its user shows    *)
(* the profile it wrote, for requests that come one at a time and without  *)
(* failures, whatever calls came before: the index it goes by is complete, *)
(* and what it takes out of the index is no login (redis.rs sync,          *)
(* filter_sids and mapping).                                               *)
(***************************************************************************)
THEOREM Synced ==
  ASSUME OneAtATime, MaxClock < MapTtl
  PROVE  Spec => []SyncSticks
<1>1. Init => YInv
  <2>. SUFFICES ASSUME Init  PROVE YInv
    OBVIOUS
  <2>1. \A r \in Reqs : obj[r].pc = "closed" /\ obj[r].op = "none"
    BY DEF Init, Closed, Object
  <2>2. MInv
    BY InitMInv
  <2>3. \A s \in Sids : Placed(s)
    BY DEF Init, Missing, Placed
  <2>. QED  BY <2>1, <2>2, <2>3, InitSInv DEF YInv, MInv, SyncOnly, Reaching, Told, Working
<1>2. YInv => SyncSticks
  <2>. SUFFICES ASSUME YInv, faults = 0, NEW r \in Reqs, Told(obj[r]),
                       NEW s \in Sids, store[s].user # Nil, store[s].user.uid = obj[r].arg.uid
                PROVE  store[s].user = obj[r].arg
    BY DEF SyncSticks, Login, Told
  <2>. DEFINE o == obj[r]
  <2>1. o.todo = {} /\ o.kept = {}
    BY Under DEF YInv, Told, Loyal
  <2>2. owner[s] = o.arg.uid
    BY DEF YInv, SInv, IInv, StoreOwned
  <2>3. Reaching(o, store, umap, owner)
    BY DEF YInv
  <2>. QED  BY <2>1, <2>2, <2>3 DEF Reaching
<1>. QED  BY <1>1, <1>2, NextYInv, PTL DEF Spec
=============================================================================
