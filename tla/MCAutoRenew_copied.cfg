CONSTANTS
  Nil = Nil
  s0 = s0
  s1 = s1
  s2 = s2
  r1 = r1
  u1 = u1
  Sids = {s0, s1, s2}
  Foreign = {s0}
  Reqs = {r1}
  Uids = {u1}
  Roles = {1}
  Datas = {}
  Ttls = {4}
  MapTtl = 3
  Ops = {"tryRenew", "login"}
  MaxClock = 1
  MaxFaults = 0
  LostReplies = TRUE
  Interval = 1
  Judgment = 1
  Inactive = 2
SPECIFICATION SpecRenewing
SYMMETRY Symmetry
INVARIANTS RenewedIsClean
