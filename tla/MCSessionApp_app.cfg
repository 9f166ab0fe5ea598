CONSTANTS
  Nil = Nil
  s0 = s0
  s1 = s1
  s2 = s2
  r1 = r1
  r2 = r2
  u1 = u1
  u2 = u2
  Sids = {s0, s1, s2}
  Foreign = {s0}
  Reqs = {r1, r2}
  Uids = {u1, u2}
  Roles = {0}
  Datas = {}
  Ttls = {2}
  MapTtl = 3
  Ops = {"user", "tryRenew", "sync", "autoLogin", "login"}
  MaxClock = 1
  MaxFaults = 1
  LostReplies = TRUE
  Interval = 0
  Judgment = 1
  Inactive = 1
  Routes = {"index", "login", "modify", "user"}
  AutoLogin = {TRUE, FALSE}
  Needs <- MCNeeds
SPECIFICATION SpecAppLoggedIn
CONSTRAINT Budget
SYMMETRY Symmetry
INVARIANTS  OneIdentity HasUser
