----------------------------- MODULE AutoRenew -----------------------------
(***************************************************************************)
(* AutoRenew of crates/session: try_renew, which replaces the id of a      *)
(* session that is old enough by a clone with a new id, keeps the old one  *)
(* for requests still under way, and on a later request with the old id    *)
(* decides by the idle times of the two which one to destroy.              *)
(***************************************************************************)
EXTENDS UserSession

CONSTANTS
  Interval,   \* renew_interval_seconds, in ticks
  Judgment,   \* original_judgment_seconds
  Inactive    \* cloned_inactive_judgment_seconds

ASSUME DurationsOK == Interval \in Nat /\ Judgment \in Nat /\ Inactive \in Nat

-----------------------------------------------------------------------------

(* try_touch, whatever it answers: the old id stays in use. *)
Keep(o) == IF o.touches = "none" THEN [o EXCEPT !.pc = "keep"] ELSE Return(o, "false")

DoClone(o, filter) ==
  [o EXCEPT !.csid = o.sid, !.cuser = o.user, !.mode = filter, !.pc = "raw"]

CallTryRenew(r) ==
  LET o == Begin(obj[r], "tryRenew")
      sinceRenew == clock - issued[o.sid].born - Interval
  IN  Call(r, "tryRenew",
              IF sinceRenew < 0 THEN Keep(o)
              ELSE [o EXCEPT !.pc = "newid",
                             !.mode = IF sinceRenew > Judgment THEN "judge" ELSE "young"])

KeepTouch(r) ==
  LET o == obj[r]
      h == store[o.sid]
  IN  /\ At(r, "keep")
      /\ Await(r, [store EXCEPT ![o.sid] = Expire(h, o.ttl)], umap,
               Return([o EXCEPT !.touches = Bool(Exists(h))], "false"), Return(o, "false"))

(* An error reads like a session without a new id, and starts a clone. *)
GetNewId(r) ==
  LET o == obj[r]
      n == store[o.sid].newid
  IN  /\ At(r, "newid")
      /\ Ask(r, CASE n = Nil                   -> DoClone(o, "none")
                  [] n # Nil /\ o.mode = "judge" -> [o EXCEPT !.csid = n, !.cuser = Nil, !.pc = "newttl"]
                  [] OTHER                     -> Keep(o),
             DoClone(o, "none"))

(* The u32 range in ticks, beyond every TTL and threshold of an instance. *)
Word == 1000

(* Mistake: a signed difference, one tick off. *)
PassedOff(o, s) == o.ttl - store[s].ttl - 1

(* ttl_passed of a key: its idle time, for a TTL above 0.  It is a u32 that *)
(* wraps (the release build) when the key lives longer than the object's id.*)
Passed(o, s) == (o.ttl - store[s].ttl) % Word

(* Mistake: an unknown idle time counts as none. *)
NewTtlOrZero(r) ==
  LET o == obj[r]
      tp == IF store[o.csid].ttl = 0 THEN 0 ELSE Passed(o, o.csid)
      judge(t) == IF t < Inactive THEN [o EXCEPT !.tp = t, !.pc = "oldttl"]
                                  ELSE [o EXCEPT !.pc = "cdel"]
  IN  At(r, "newttl") /\ Ask(r, judge(tp), judge(0))

NewTtl(r) ==
  LET o == obj[r]
      drop == [o EXCEPT !.pc = "cdel"]
  IN  /\ At(r, "newttl")
      /\ Ask(r, IF store[o.csid].ttl > 0 /\ Passed(o, o.csid) < Inactive
                  THEN [o EXCEPT !.tp = Passed(o, o.csid), !.pc = "oldttl"]
                  ELSE drop,
             drop)

(* self.destroy() of the old session, unmapping first. *)
Condemn(o) == User([o EXCEPT !.op = "condemn", !.tp = 0])

OldTtl(r) ==
  LET o == obj[r] IN
  /\ At(r, "oldttl")
  /\ Ask(r, IF store[o.sid].ttl > 0 /\ o.tp >= Passed(o, o.sid)
              THEN [o EXCEPT !.tp = 0, !.pc = "cdel"]
              ELSE Condemn(o),
         Condemn(o))

(* The request that destroyed its session fails. *)
CondemnedDel(r) ==
  LET o == obj[r] IN
  /\ At(r, "destroydel") /\ o.op = "condemn"
  /\ Write(r, o.sid, Missing, Return(o, "err"))

(* cloned_destroy of the newer one, then another clone without its id. *)
DropNewer(r) ==
  LET o == obj[r] IN
  /\ At(r, "cdel") /\ o.op = "tryRenew"
  /\ Write(r, o.csid, Missing, DoClone(o, "drop"))

(* Mistake: the old session goes with the clone, as it does in log_in. *)
CloneTouchDestroys(r) ==
  LET o == [obj[r] EXCEPT !.pc = "csetnew"] IN
  /\ At(r, "ctouch")
  /\ Await(r, [store EXCEPT ![o.csid] = Missing], umap, o, o)

CloneTouch(r) ==
  LET o == [obj[r] EXCEPT !.pc = "csetnew"] IN
  /\ At(r, "ctouch")
  /\ Await(r, [store EXCEPT ![o.csid] = Expire(@, o.ttl)], umap, o, o)

CloneSetNewId(r) ==
  LET o == obj[r] IN
  /\ At(r, "csetnew")
  /\ Write(r, o.csid, HSet(store[o.csid], "newid", o.sid), Return(o, "true"))

-----------------------------------------------------------------------------

TryRenew(r) ==
  \/ KeepTouch(r) \/ GetNewId(r) \/ NewTtl(r) \/ OldTtl(r) \/ CondemnedDel(r)
  \/ DropNewer(r) \/ CloneTouch(r) \/ CloneSetNewId(r)

RenewNext == Next \/ \E r \in Reqs : CallTryRenew(r) \/ TryRenew(r)

RenewSpec == Init /\ [][RenewNext]_vars

(* A request that has an answer from Redis goes on with its next command. *)
Goes == \A r \in Reqs : WF_vars(Command(r) \/ TryRenew(r))

-----------------------------------------------------------------------------
(* Properties *)

(***************************************************************************)
(* The id of a session's clone is logged in the session it was cloned      *)
(* from, never in the new one: a renewal that is complete leaves a session *)
(* that can itself be renewed.  do_clone after a judgment filters the      *)
(* field for this reason.                                                  *)
(***************************************************************************)
RenewedIsClean ==
  faults = 0 => \A r \in Reqs : LET o == obj[r] IN
    \/ o.pc \in {"ctouch", "csetnew"}
    \/ o.op \in {"login", "autoLogin"} /\ o.pc \in {"csrem", "cdel"}
    => store[o.sid].newid = Nil

(***************************************************************************)
(* try_renew destroys an old session only while the one that replaced it   *)
(* is there, unless its time has run out since: requests that come one at  *)
(* a time never lose both, whichever of the TTL reads fails.               *)
(***************************************************************************)
CondemnedHasSuccessor ==
  \A r \in Reqs : LET o == obj[r] IN
    o.op = "condemn" /\ ~ Idle(r) =>
      /\ o.csid # o.sid
      /\ clock < issued[o.csid].born + issued[o.csid].ttl => Exists(store[o.csid])
=============================================================================
