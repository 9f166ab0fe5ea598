CONSTANTS
  Nil = Nil
  s0 = s0
  s1 = s1
  s2 = s2
  s3 = s3
  r1 = r1
  u1 = u1
  Sids = {s0, s1, s2, s3}
  Foreign = {s0}
  Reqs = {r1}
  Uids = {u1}
  Roles = {1}
  Datas = {}
  Ttls = {4}
  MapTtl = 3
  Ops = {"user", "tryRenew"}
  MaxClock = 4
  MaxFaults = 1
  LostReplies = FALSE
  Interval = 1
  Judgment = 1
  Inactive = 2
  Routes = {"profile"}
  AutoLogin = {FALSE}
  Needs <- MCNeeds
SPECIFICATION SpecAppLoggedIn
SYMMETRY Symmetry
INVARIANTS CondemnedReplaced
