CONSTANTS
  Nil = Nil
  s0 = s0
  s1 = s1
  s2 = s2
  r1 = r1
  r2 = r2
  u1 = u1
  u2 = u2
  Sids = {s0, s1, s2}
  Foreign = {s0}
  Reqs = {r1, r2}
  Uids = {u1, u2}
  Roles = {1}
  Datas = {}
  Ttls = {1}
  MapTtl = 3
  Ops = {"login", "autoLogin", "logout", "destroy"}
  MaxClock = 1
  MaxFaults = 1
  LostReplies = TRUE
SPECIFICATION Spec
SYMMETRY Symmetry
INVARIANTS TypeOK  LoginMapped LoginExpires
PROPERTIES ImplementsLife
