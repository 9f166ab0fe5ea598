---------------------------- MODULE SessionStore ----------------------------
(***************************************************************************)
(* The part of Redis that dce-session relies on, command by command: one   *)
(* hash per session id and one set of session ids per user.  Redis is not  *)
(* in the repository; every operator is one command as crates/session      *)
(* calls it.  A command is atomic: it takes the value of a key and yields  *)
(* the new value.                                                          *)
(*                                                                         *)
(* A key is absent when it has no field (no member): Redis removes a hash  *)
(* or a set with its last element.  ttl counts the ticks left, 0 means     *)
(* that the key never expires.                                             *)
(***************************************************************************)
EXTENDS Integers

CONSTANTS Nil, Sids

Fields == {"user", "data", "newid", "server"}

Missing == [user |-> Nil, data |-> Nil, newid |-> Nil, server |-> Nil, ttl |-> 0]

Exists(h) == \E f \in Fields : h[f] # Nil

HSet(h, f, v) == [h EXCEPT ![f] = v]

HDel(h, f) == LET g == [h EXCEPT ![f] = Nil] IN IF Exists(g) THEN g ELSE Missing

Expire(h, t) == IF Exists(h) THEN [h EXCEPT !.ttl = t] ELSE h

Over(v, w) == IF v = Nil THEN w ELSE v

HMSet(h, raw) ==
  [user |-> Over(raw.user, h.user), data |-> Over(raw.data, h.data),
   newid |-> Over(raw.newid, h.newid), server |-> Over(raw.server, h.server),
   ttl |-> h.ttl]

EmptySet == [sids |-> {}, ttl |-> 0]

SAdd(m, s) == [m EXCEPT !.sids = @ \cup {s}]

SRem(m, s) == IF m.sids \subseteq {s} THEN EmptySet ELSE [m EXCEPT !.sids = @ \ {s}]

ExpireSet(m, t) == IF m.sids = {} THEN m ELSE [m EXCEPT !.ttl = t]

(***************************************************************************)
(* One tick of the server's clock on one key.                              *)
(***************************************************************************)
Age(h, none) ==
  CASE h.ttl = 0 -> h
    [] h.ttl = 1 -> none
    [] OTHER     -> [h EXCEPT !.ttl = @ - 1]
=============================================================================
