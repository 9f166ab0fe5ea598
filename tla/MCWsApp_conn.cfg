CONSTANTS
  Nil = Nil
  s0 = s0
  s1 = s1
  s2 = s2
  s3 = s3
  c1 = c1
  u1 = u1
  a = a
  b = b
  Sids = {s0, s1, s2, s3}
  Foreign = {s0}
  Reqs = {c1}
  Uids = {u1}
  Roles = {0}
  Datas = {}
  Ttls = {2}
  MapTtl = 3
  Ops = {"user", "tryRenew", "login", "autoLogin"}
  MaxClock = 2
  MaxFaults = 2
  LostReplies = TRUE
  Interval = 0
  Judgment = 0
  Inactive = 2
  Servers = {a, b}
  Routes = {"login", "profile"}
  Explicit = {"unbound"}
SPECIFICATION SpecWs
SYMMETRY WsSymmetry
INVARIANTS ConnTypeOK StaysBound RootServes NothingLeft
