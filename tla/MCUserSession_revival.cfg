CONSTANTS
  Nil = Nil
  s0 = s0
  s1 = s1
  s2 = s2
  r1 = r1
  r2 = r2
  u1 = u1
  Sids = {s0, s1, s2}
  Foreign = {s0}
  Reqs = {r1, r2}
  Uids = {u1}
  Roles = {1}
  Datas = {}
  Ttls = {1}
  MapTtl = 3
  Ops = {"login", "autoLogin", "sync"}
  MaxClock = 0
  MaxFaults = 0
  LostReplies = TRUE
SPECIFICATION Spec
SYMMETRY Symmetry
PROPERTIES NoRevival
