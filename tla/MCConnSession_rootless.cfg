CONSTANTS
  Nil = Nil
  s0 = s0
  s1 = s1
  s2 = s2
  r1 = r1
  u1 = u1
  a = a
  Sids = {s0, s1, s2}
  Foreign = {s0}
  Reqs = {r1}
  Uids = {u1}
  Roles = {1}
  Datas = {}
  Ttls = {2}
  MapTtl = 3
  Ops = {"user", "login", "logout"}
  MaxClock = 0
  MaxFaults = 0
  LostReplies = TRUE
  Interval = 1
  Judgment = 1
  Inactive = 2
  Servers = {a}
SPECIFICATION RootlessSpec
SYMMETRY Symmetry
INVARIANTS LoginSucceeds
