CONSTANTS
  Nil = Nil
  s0 = s0
  s1 = s1
  s2 = s2
  r1 = r1
  u1 = u1
  d1 = d1
  Sids = {s0, s1, s2}
  Foreign = {s0}
  Reqs = {r1}
  Uids = {u1}
  Roles = {1, 2}
  Datas = {d1}
  Ttls = {1}
  MapTtl = 3
  Ops = {"user", "set", "get", "del", "touch", "login", "autoLogin", "logout", "destroy", "sync"}
  MaxClock = 1
  MaxFaults = 1
  LostReplies = TRUE
SPECIFICATION Spec
SYMMETRY Symmetry
INVARIANTS SyncSticks DataFollows
