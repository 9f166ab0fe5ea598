---------------------------- MODULE UserSession ----------------------------
(***************************************************************************)
(* The session traits Session and User of crates/session as RedisSession   *)
(* implements them, run by several requests at once against one Redis.     *)
(*                                                                         *)
(* A request slot r holds one session object obj[r] (a RedisSession value  *)
(* with its Meta, UserMeta and cloned parts).  A call of the API is a      *)
(* sequence of awaits; every await is one Redis command and one action, so *)
(* that other requests, the clock and failures come between any two.       *)
(* obj[r].pc names the command the request sends next.                     *)
(***************************************************************************)
EXTENDS SessionStore, FiniteSets

CONSTANTS
  Reqs,         \* request slots; a slot serves any number of requests in turn
  Foreign,      \* well-formed session ids clients hold from before
  Uids, Roles,  \* a user is its id and the one attribute that may change
  Datas,        \* values of the application's own session field
  Ttls,         \* possible session TTLs, in ticks
  MapTtl,       \* MAPPING_TTL_SECONDS, in ticks
  Ops,          \* calls the instance explores
  MaxClock,     \* bound on the clock
  MaxFaults,    \* bound on failed commands and dropped requests
  LostReplies   \* whether a failed command may have taken effect

Profiles == [uid : Uids, role : Roles]

ASSUME ConstantsOK ==
  /\ Foreign \subseteq Sids
  /\ Nil \notin Sids \cup Uids \cup Datas \cup Profiles
  /\ Nil \notin [ttl : Nat, born : Nat]
  /\ Ttls \subseteq Nat \ {0} /\ Ttls # {}
  /\ MapTtl \in Nat \ {0} /\ MaxClock \in Nat /\ MaxFaults \in Nat
  /\ LostReplies \in BOOLEAN

(* The last calls are those of AutoRenew, which extends this module. *)
Calls == {"none", "user", "set", "get", "del", "touch", "login", "autoLogin",
          "logout", "destroy", "sync", "tryRenew", "condemn"}

(* The command a request sends next; ready: between calls. *)
Points == {"closed", "ready", "user", "set", "get", "del", "touch", "raw", "load",
           "sadd", "mapexpire", "csrem", "cdel", "srem", "userdel", "destroydel",
           "smembers", "exists", "filtersrem", "hset",
           "keep", "newid", "newttl", "oldttl", "ctouch", "csetnew"}

VARIABLES
  store,   \* session id -> hash in Redis
  umap,    \* user id -> set of the user's session ids in Redis
  issued,  \* session id -> the TTL and creation stamp encoded in it, Nil when never generated
  known,   \* session ids some client has received
  obj,     \* request slot -> session object and call in progress
  clock,
  faults,  \* failures so far
  owner    \* history: the user a session id was generated for

vars == <<store, umap, issued, known, obj, clock, faults, owner>>

-----------------------------------------------------------------------------
(* The session object *)

Object(s, t) ==
  [pc |-> "ready", op |-> "none", ret |-> "none", sid |-> s, ttl |-> t,
   touches |-> "none", user |-> Nil, loaded |-> FALSE, csid |-> Nil,
   cuser |-> Nil, raw |-> Missing, arg |-> Nil, todo |-> {}, kept |-> {},
   cur |-> Nil, mode |-> "none", tp |-> 0]

Closed == [Object(Nil, 0) EXCEPT !.pc = "closed"]

(* No call is in progress. *)
Idle(r) == obj[r].pc \in {"ready", "closed"}

Fresh == {s \in Sids : issued[s] = Nil}

Renewals == {"login", "autoLogin", "tryRenew"}

Begin(o, op) == [o EXCEPT !.op = op, !.ret = "none", !.arg = Nil, !.mode = "none"]

Return(o, v) == [o EXCEPT !.pc = "ready", !.ret = v, !.raw = Missing,
                          !.todo = {}, !.kept = {}, !.cur = Nil]

Bool(b) == IF b THEN "true" ELSE "false"

(***************************************************************************)
(* log_in after renew: cloned_unmapping sends SREM only when the clone had *)
(* its user cached, then the old key is deleted.  do_clone of AutoRenew    *)
(* goes on by touching the old key instead.                                *)
(***************************************************************************)
AfterRenew(o) ==
  [o EXCEPT !.pc = IF o.op = "tryRenew" THEN "ctouch"
                   ELSE IF o.cuser # Nil THEN "csrem" ELSE "cdel"]

(***************************************************************************)
(* The callers of user(): itself, and user_key in mapping and unmapping.   *)
(***************************************************************************)
Unmap(o) ==
  CASE o.user # Nil                    -> [o EXCEPT !.pc = "srem"]
    [] o.user = Nil /\ o.op = "logout" -> Return(o, "false")
    [] OTHER                           -> [o EXCEPT !.pc = "destroydel"]

AfterUser(o) ==
  CASE o.op = "user"     -> Return(o, Bool(o.user # Nil))
    [] o.op \in Renewals -> IF o.user = Nil THEN AfterRenew(o) ELSE [o EXCEPT !.pc = "sadd"]
    [] OTHER             -> Unmap(o)

User(o) == IF o.loaded THEN AfterUser(o) ELSE [o EXCEPT !.pc = "user"]

(***************************************************************************)
(* try_touch sends EXPIRE unless its result is cached, and returns it.     *)
(* user::renew goes on to mapping after it.                                *)
(***************************************************************************)
AfterTouch(o) ==
  CASE o.op \in Renewals -> [o EXCEPT !.loaded = FALSE, !.pc = "user"]
    [] o.op = "get"      -> Return(o, "true")
    [] OTHER             -> Return(o, Bool(o.touches = "true"))

TryTouch(o) == IF o.touches = "none" THEN [o EXCEPT !.pc = "touch"] ELSE AfterTouch(o)

-----------------------------------------------------------------------------
(* One await: the command succeeds, or the request sees an error *)

Await(r, newStore, newUmap, good, bad) ==
  /\ UNCHANGED <<issued, known, clock, owner>>
  /\ \/ /\ store' = newStore /\ umap' = newUmap
        /\ obj' = [obj EXCEPT ![r] = good]
        /\ UNCHANGED faults
     \/ /\ faults < MaxFaults /\ faults' = faults + 1
        /\ \/ UNCHANGED <<store, umap>>
           \/ LostReplies /\ store' = newStore /\ umap' = newUmap
        /\ obj' = [obj EXCEPT ![r] = bad]

Ask(r, good, bad) == Await(r, store, umap, good, bad)

Write(r, s, h, good) ==
  Await(r, [store EXCEPT ![s] = h], umap, good, Return(obj[r], "err"))

-----------------------------------------------------------------------------
(* Requests and calls *)

(* Mistake: an id that the generator may produce again. *)
OpenNewRepeats(r, s, t) ==
  /\ obj[r].pc = "closed" /\ s \in Fresh
  /\ obj' = [obj EXCEPT ![r] = Object(s, t)]
  /\ UNCHANGED <<store, umap, issued, known, clock, faults, owner>>

OpenNew(r, s, t) ==
  /\ obj[r].pc = "closed" /\ s \in Fresh
  /\ issued' = [issued EXCEPT ![s] = [ttl |-> t, born |-> clock]]
  /\ obj' = [obj EXCEPT ![r] = Object(s, t)]
  /\ UNCHANGED <<store, umap, known, clock, faults, owner>>

OpenWith(r, s) ==
  /\ obj[r].pc = "closed" /\ s \in known
  /\ obj' = [obj EXCEPT ![r] = Object(s, issued[s].ttl)]
  /\ UNCHANGED <<store, umap, issued, known, clock, faults, owner>>

(* The response carries the id of the session, unless the call failed. *)
Close(r) ==
  /\ obj[r].pc = "ready"
  /\ known' = IF obj[r].ret = "err" THEN known ELSE known \cup {obj[r].sid}
  /\ obj' = [obj EXCEPT ![r] = Closed]
  /\ UNCHANGED <<store, umap, issued, clock, faults, owner>>

Call(r, op, o) ==
  /\ obj[r].pc = "ready" /\ op \in Ops
  /\ obj' = [obj EXCEPT ![r] = o]
  /\ UNCHANGED <<store, umap, issued, known, clock, faults, owner>>

CallUser(r) == Call(r, "user", User(Begin(obj[r], "user")))

CallSet(r, d) == Call(r, "set", [Begin(obj[r], "set") EXCEPT !.arg = d, !.pc = "set"])

CallGet(r) == Call(r, "get", [Begin(obj[r], "get") EXCEPT !.pc = "get"])

CallDel(r) == Call(r, "del", [Begin(obj[r], "del") EXCEPT !.pc = "del"])

CallTouch(r) == Call(r, "touch", TryTouch(Begin(obj[r], "touch")))

(* log_in: the clone keeps the old id and the user cached before set_user. *)
LogIn(o) == [o EXCEPT !.csid = o.sid, !.cuser = o.user, !.pc = "raw"]

CallLogin(r, p, t) ==
  Call(r, "login", [LogIn(Begin(obj[r], "login")) EXCEPT !.user = p, !.ttl = t])

CallAutoLogin(r) == Call(r, "autoLogin", LogIn(Begin(obj[r], "autoLogin")))

CallLogout(r) == Call(r, "logout", User(Begin(obj[r], "logout")))

CallDestroy(r) == Call(r, "destroy", User(Begin(obj[r], "destroy")))

CallSync(r, p) == Call(r, "sync", [Begin(obj[r], "sync") EXCEPT !.arg = p, !.pc = "smembers"])

-----------------------------------------------------------------------------
(* The awaits, one per Redis command *)

At(r, pc) == obj[r].pc = pc

(* Mistake: an error is taken for a session without a user. *)
LoadUserForgets(r) ==
  LET o == [obj[r] EXCEPT !.loaded = TRUE]
      u == store[o.sid].user
  IN  /\ At(r, "user")
      /\ Ask(r, AfterUser(IF u = Nil THEN o ELSE [o EXCEPT !.user = u]),
             AfterUser([o EXCEPT !.user = Nil]))

(* user(): nothing stored, or an error, leaves the cached user as it is. *)
LoadUser(r) ==
  LET o == [obj[r] EXCEPT !.loaded = TRUE]
      u == store[o.sid].user
  IN  /\ At(r, "user")
      /\ Ask(r, AfterUser(IF u = Nil THEN o ELSE [o EXCEPT !.user = u]), AfterUser(o))

SilentSet(r) ==
  LET o == obj[r] IN
  /\ At(r, "set")
  /\ Write(r, o.sid, HSet(store[o.sid], "data", o.arg), TryTouch(o))

SilentGet(r) ==
  LET o == obj[r] IN
  /\ At(r, "get")
  /\ Ask(r, IF store[o.sid].data = Nil THEN Return(o, "err") ELSE TryTouch(o), Return(o, "err"))

SilentDel(r) ==
  LET o == obj[r] IN
  /\ At(r, "del")
  /\ Write(r, o.sid, HDel(store[o.sid], "data"),
           IF store[o.sid].data = Nil THEN Return(o, "false") ELSE TryTouch(o))

Touch(r) ==
  LET o == obj[r] IN
  /\ At(r, "touch")
  /\ Write(r, o.sid, Expire(store[o.sid], o.ttl),
           AfterTouch([o EXCEPT !.touches = Bool(Exists(store[o.sid]))]))

(* Mistakes: the new session starts from the cached user alone; the logged *)
(* new id is taken along.                                                  *)
FilteredToUser(o, h) == [Missing EXCEPT !.user = IF o.user # Nil THEN o.user ELSE h.user]

FilteredNothing(o, h) ==
  IF o.op # "tryRenew" /\ o.user # Nil THEN [h EXCEPT !.user = o.user] ELSE h

(***************************************************************************)
(* session::renew up to load: read the whole hash, put the cached user in  *)
(* (log_in) or take the logged new id out (AutoRenew, mode = "drop"), and  *)
(* take a new id.  With nothing to load it goes straight to mapping.  Sids *)
(* bounds the ids: generate_id fails when none is left.                    *)
(***************************************************************************)
Filtered(o, h) ==
  IF o.op = "tryRenew"
    THEN IF o.mode = "drop" THEN [h EXCEPT !.newid = Nil] ELSE h
    ELSE IF o.user # Nil THEN [h EXCEPT !.user = o.user] ELSE h

(* Mistakes: the touched mark outlives the id; the id outlives the login. *)
RenewedTouched(o, n, raw) ==
  LET fresh == [o EXCEPT !.sid = n]
  IN  IF Exists(raw) THEN [fresh EXCEPT !.raw = [raw EXCEPT !.ttl = 0], !.pc = "load"]
                     ELSE [fresh EXCEPT !.loaded = FALSE, !.pc = "user"]

RenewedInPlace(o, n, raw) ==
  LET same == [o EXCEPT !.touches = "none"]
  IN  IF Exists(raw) THEN [same EXCEPT !.raw = [raw EXCEPT !.ttl = 0], !.pc = "load"]
                     ELSE [same EXCEPT !.loaded = FALSE, !.pc = "user"]

Renewed(o, n, raw) ==
  LET fresh == [o EXCEPT !.sid = n, !.touches = "none"]
  IN  IF Exists(raw) THEN [fresh EXCEPT !.raw = [raw EXCEPT !.ttl = 0], !.pc = "load"]
                     ELSE [fresh EXCEPT !.loaded = FALSE, !.pc = "user"]

UidOf(p) == IF p = Nil THEN Nil ELSE p.uid

Raw(r) ==
  LET o == obj[r]
      raw == Filtered(o, store[o.sid])
  IN  /\ At(r, "raw")
      /\ UNCHANGED <<store, umap, known, clock>>
      /\ \/ \E n \in Fresh :
              /\ issued' = [issued EXCEPT ![n] = [ttl |-> o.ttl, born |-> clock]]
              /\ obj' = [obj EXCEPT ![r] = Renewed(o, n, raw)]
              /\ owner' = [owner EXCEPT ![n] = UidOf(IF raw.user = Nil THEN o.user ELSE raw.user)]
              /\ UNCHANGED faults
         \/ /\ Fresh = {}
            /\ obj' = [obj EXCEPT ![r] = Return([o EXCEPT !.touches = "none"], "err")]
            /\ UNCHANGED <<issued, owner, faults>>
         \/ /\ faults < MaxFaults /\ faults' = faults + 1
            /\ obj' = [obj EXCEPT ![r] = Return(o, "err")]
            /\ UNCHANGED <<issued, owner>>

(* Mistake: the result of load is dropped, as that of mapping is. *)
LoadIgnored(r) ==
  LET o == [obj[r] EXCEPT !.raw = Missing] IN
  /\ At(r, "load")
  /\ Await(r, [store EXCEPT ![o.sid] = HMSet(@, obj[r].raw)], umap, TryTouch(o), TryTouch(o))

Load(r) ==
  LET o == [obj[r] EXCEPT !.raw = Missing] IN
  /\ At(r, "load")
  /\ Write(r, o.sid, HMSet(store[o.sid], obj[r].raw), TryTouch(o))

(* Mistake: the new session is listed for the user of the clone. *)
MappingAddToClone(r) ==
  LET o == obj[r]
      u == IF o.cuser = Nil THEN o.user.uid ELSE o.cuser.uid
  IN  /\ At(r, "sadd")
      /\ Await(r, store, [umap EXCEPT ![u] = SAdd(@, o.sid)],
               [o EXCEPT !.pc = "mapexpire"], AfterRenew(o))

(* mapping: user::renew drops its result, so an error only skips the rest. *)
MappingAdd(r) ==
  LET o == obj[r] IN
  /\ At(r, "sadd")
  /\ Await(r, store, [umap EXCEPT ![o.user.uid] = SAdd(@, o.sid)],
           [o EXCEPT !.pc = "mapexpire"], AfterRenew(o))

MappingExpire(r) ==
  LET o == obj[r] IN
  /\ At(r, "mapexpire")
  /\ Await(r, store, [umap EXCEPT ![o.user.uid] = ExpireSet(@, MapTtl)],
           AfterRenew(o), AfterRenew(o))

(* Mistake: the id of the session in place of the clone's. *)
ClonedUnmappingNew(r) ==
  LET o == obj[r] IN
  /\ At(r, "csrem")
  /\ Await(r, store, [umap EXCEPT ![o.cuser.uid] = SRem(@, o.sid)],
           [o EXCEPT !.pc = "cdel"], Return(o, "err"))

ClonedUnmapping(r) ==
  LET o == obj[r] IN
  /\ At(r, "csrem")
  /\ Await(r, store, [umap EXCEPT ![o.cuser.uid] = SRem(@, o.csid)],
           [o EXCEPT !.pc = "cdel"], Return(o, "err"))

ClonedDestroy(r) ==
  /\ At(r, "cdel") /\ obj[r].op # "tryRenew"
  /\ Write(r, obj[r].csid, Missing, Return(obj[r], "true"))

(* unmapping, then the rest of its caller logout or destroy. *)
Unmapping(r) ==
  LET o == obj[r] IN
  /\ At(r, "srem")
  /\ Await(r, store, [umap EXCEPT ![o.user.uid] = SRem(@, o.sid)],
           IF o.op = "logout" THEN [o EXCEPT !.user = Nil, !.pc = "userdel"]
                              ELSE [o EXCEPT !.pc = "destroydel"],
           Return(o, "err"))

LogoutDel(r) ==
  LET o == obj[r] IN
  /\ At(r, "userdel")
  /\ Write(r, o.sid, HDel(store[o.sid], "user"), Return(o, Bool(store[o.sid].user # Nil)))

DestroyDel(r) ==
  LET o == obj[r] IN
  /\ At(r, "destroydel") /\ o.op = "destroy"
  /\ Write(r, o.sid, Missing, Return(o, Bool(Exists(store[o.sid]))))

(* sync: all_sid, filter_sids over the answer, then HSET on those kept. *)
Syncing(o) ==
  CASE o.todo # {}                -> [o EXCEPT !.pc = "exists", !.cur = Nil]
    [] o.todo = {} /\ o.kept # {} -> [o EXCEPT !.pc = "hset", !.cur = Nil]
    [] OTHER                      -> Return(o, "true")

AllSid(r) ==
  LET o == obj[r] IN
  /\ At(r, "smembers")
  /\ Ask(r, Syncing([o EXCEPT !.todo = umap[o.arg.uid].sids]), Return(o, "err"))

(* Mistake: an id that exists stays on the list to ask about. *)
FilterExistsAgain(r, s) ==
  LET o == [obj[r] EXCEPT !.todo = @ \ {s}] IN
  /\ At(r, "exists") /\ s \in obj[r].todo
  /\ Ask(r, IF Exists(store[s]) THEN Syncing([obj[r] EXCEPT !.kept = @ \cup {s}])
                                ELSE [o EXCEPT !.cur = s, !.pc = "filtersrem"],
         Return(o, "err"))

FilterExists(r, s) ==
  LET o == [obj[r] EXCEPT !.todo = @ \ {s}] IN
  /\ At(r, "exists") /\ s \in obj[r].todo
  /\ Ask(r, IF Exists(store[s]) THEN Syncing([o EXCEPT !.kept = @ \cup {s}])
                                ELSE [o EXCEPT !.cur = s, !.pc = "filtersrem"],
         Return(o, "err"))

FilterRemove(r) ==
  LET o == obj[r] IN
  /\ At(r, "filtersrem")
  /\ Await(r, store, [umap EXCEPT ![o.arg.uid] = SRem(@, o.cur)], Syncing(o), Syncing(o))

(* Mistake: returning from the loop after its first write. *)
SyncSetOnce(r, s) ==
  LET o == obj[r] IN
  /\ At(r, "hset") /\ s \in o.kept
  /\ Write(r, s, HSet(store[s], "user", o.arg), Return(o, "true"))

SyncSet(r, s) ==
  LET o == obj[r] IN
  /\ At(r, "hset") /\ s \in o.kept
  /\ Write(r, s, HSet(store[s], "user", o.arg), Syncing([o EXCEPT !.kept = @ \ {s}]))

-----------------------------------------------------------------------------
(* Time, and requests that are dropped *)

Tick ==
  /\ clock < MaxClock /\ clock' = clock + 1
  /\ store' = [s \in Sids |-> Age(store[s], Missing)]
  /\ umap' = [u \in Uids |-> Age(umap[u], EmptySet)]
  /\ UNCHANGED <<issued, known, obj, faults, owner>>

(***************************************************************************)
(* The server drops the future of a request at an await (the client hung   *)
(* up, or the process died): no later command of the call is sent.         *)
(***************************************************************************)
Drop(r) ==
  /\ ~ Idle(r)
  /\ faults < MaxFaults /\ faults' = faults + 1
  /\ obj' = [obj EXCEPT ![r] = Closed]
  /\ UNCHANGED <<store, umap, issued, known, clock, owner>>

-----------------------------------------------------------------------------

Init ==
  /\ store = [s \in Sids |-> Missing]
  /\ umap = [u \in Uids |-> EmptySet]
  /\ issued \in [Sids -> [ttl : Ttls, born : {0}] \cup {Nil}]
  /\ \A s \in Sids : issued[s] = Nil <=> s \notin Foreign
  /\ known = Foreign
  /\ obj = [r \in Reqs |-> Closed]
  /\ clock = 0 /\ faults = 0
  /\ owner = [s \in Sids |-> Nil]

(* Bound: a login starts only while the pool has an id left for it. *)
IdsLeft ==
  Cardinality(Fresh) > Cardinality({r \in Reqs : obj[r].op \in Renewals /\ ~ Idle(r)})

AnyCall(r) ==
  \/ CallUser(r) \/ CallGet(r) \/ CallDel(r) \/ CallTouch(r)
  \/ CallLogout(r) \/ CallDestroy(r)
  \/ IdsLeft /\ CallAutoLogin(r)
  \/ IdsLeft /\ \E p \in Profiles, t \in Ttls : CallLogin(r, p, t)
  \/ \E d \in Datas : CallSet(r, d)
  \/ \E p \in Profiles : CallSync(r, p)

Command(r) ==
  \/ LoadUser(r) \/ SilentSet(r) \/ SilentGet(r) \/ SilentDel(r) \/ Touch(r)
  \/ Raw(r) \/ Load(r) \/ MappingAdd(r) \/ MappingExpire(r)
  \/ ClonedUnmapping(r) \/ ClonedDestroy(r)
  \/ Unmapping(r) \/ LogoutDel(r) \/ DestroyDel(r)
  \/ AllSid(r) \/ FilterRemove(r)
  \/ \E s \in Sids : FilterExists(r, s) \/ SyncSet(r, s)

Request(r) ==
  \/ \E s \in Sids, t \in Ttls : OpenNew(r, s, t)
  \/ \E s \in Sids : OpenWith(r, s)
  \/ Close(r) \/ AnyCall(r) \/ Command(r) \/ Drop(r)

Next == Tick \/ \E r \in Reqs : Request(r)

Spec == Init /\ [][Next]_vars

-----------------------------------------------------------------------------
(* Properties *)

Hashes == [user : Profiles \cup {Nil}, data : Datas \cup {Nil},
           newid : Sids \cup {Nil}, server : {Nil}, ttl : Nat]

Objects ==
  [pc : Points, op : Calls, ret : {"none", "true", "false", "err"},
   sid : Sids \cup {Nil}, ttl : Nat, touches : {"none", "true", "false"},
   user : Profiles \cup {Nil}, loaded : BOOLEAN,
   csid : Sids \cup {Nil}, cuser : Profiles \cup {Nil}, raw : Hashes,
   arg : Profiles \cup Datas \cup {Nil}, todo : SUBSET Sids, kept : SUBSET Sids,
   cur : Sids \cup {Nil}, mode : {"none", "young", "judge", "drop"}, tp : Nat]

TypeOK ==
  /\ store \in [Sids -> Hashes]
  /\ umap \in [Uids -> [sids : SUBSET Sids, ttl : Nat]]
  /\ issued \in [Sids -> [ttl : Nat, born : Nat] \cup {Nil}]
  /\ known \subseteq Sids \ Fresh
  /\ obj \in [Reqs -> Objects]
  /\ clock \in Nat /\ faults \in Nat
  /\ owner \in [Sids -> Uids \cup {Nil}]

Login(s) == store[s].user # Nil

Quiet == \A r \in Reqs : Idle(r)

(***************************************************************************)
(* The index of a user lists no session of another user, whatever order    *)
(* logins, logouts, syncs, expiries and failures come in.  sync writes the *)
(* profile it is given into every listed session, so a foreign entry would *)
(* log its holder in as that user (redis.rs, sync and mapping).            *)
(***************************************************************************)
OneIdentity ==
  \A s \in Sids, u \in Uids : s \in umap[u].sids /\ Login(s) => store[s].user.uid = u

(***************************************************************************)
(* log_in deletes the old session last: while it is about to, the session  *)
(* that replaces it is stored, logged in as the user of the call, keeps    *)
(* the application's data and expires.  A failure or a dropped request at  *)
(* any await of log_in therefore leaves the user one of the two.           *)
(***************************************************************************)
SuccessorReady ==
  \A r \in Reqs : LET o == obj[r] IN
    o.pc \in {"csrem", "cdel"} /\ o.op # "tryRenew" /\ o.user # Nil
    /\ clock = issued[o.sid].born =>
      /\ Login(o.sid) /\ store[o.sid].user.uid = o.user.uid
      /\ store[o.sid].ttl > 0

(***************************************************************************)
(* The application's data moves with the login: when log_in is about to    *)
(* delete the old session, what it still holds is in the new one.  Only    *)
(* for requests that come one at a time; a set between raw and DEL is lost.*)
(***************************************************************************)
DataFollows ==
  \A r \in Reqs : LET o == obj[r] IN
    o.pc \in {"csrem", "cdel"} /\ o.op # "tryRenew" /\ clock = issued[o.sid].born
      => store[o.csid].data \in {Nil, store[o.sid].data}

(***************************************************************************)
(* Without failures, a stored login no call is working on is listed in the *)
(* index of its user, so that sync reaches it.                             *)
(***************************************************************************)
LoginMapped ==
  Quiet /\ faults = 0 => \A s \in Sids : Login(s) => s \in umap[store[s].user.uid].sids

(***************************************************************************)
(* Without failures, a stored login no call is working on expires.         *)
(***************************************************************************)
LoginExpires ==
  Quiet /\ faults = 0 => \A s \in Sids : Login(s) => store[s].ttl > 0

(***************************************************************************)
(* The ids of this store live as LoginLife says (as long as nobody calls   *)
(* sync): an id becomes a login by the one load of the renewal that        *)
(* generated it, and no late command of another request brings it back.    *)
(***************************************************************************)
Pending(s) == \E r \in Reqs : obj[r].pc = "load" /\ obj[r].sid = s

LifeOf(s) ==
  IF issued[s] = Nil THEN "unborn"
  ELSE IF Login(s) THEN "live" ELSE IF Pending(s) THEN "pending" ELSE "over"

Life == INSTANCE LoginLife WITH
  life <- [s \in Sids |-> LifeOf(s)],
  who <- [s \in Sids |-> UidOf(store[s].user)]

ImplementsLife == Life!Spec

(***************************************************************************)
(* An id whose login is over carries no login again (the same promise as a *)
(* step property, to be checked with sync).                                *)
(***************************************************************************)
NoRevival == [][\A s \in Sids : LifeOf(s) = "over" => ~ Login(s)']_vars

(***************************************************************************)
(* After sync has reported success, and while nothing else runs, every     *)
(* stored login of that user shows the profile it wrote.                   *)
(***************************************************************************)
SyncSticks ==
  Quiet /\ faults = 0 =>
    \A r \in Reqs : LET o == obj[r] IN
      o.pc = "ready" /\ o.op = "sync" /\ o.ret = "true" =>
        \A s \in Sids : Login(s) /\ store[s].user.uid = o.arg.uid => store[s].user = o.arg

(***************************************************************************)
(* Every call ends: no call waits for another request, and the loops of    *)
(* sync run out even when they overlap with calls that remap sessions.     *)
(***************************************************************************)
CallsEnd == \A r \in Reqs : ~ Idle(r) ~> Idle(r)
=============================================================================
