CONSTANTS
  Nil = Nil
  s0 = s0
  s1 = s1
  s2 = s2
  r1 = r1
  u1 = u1
  Sids = {s0, s1, s2}
  Foreign = {s0}
  Reqs = {r1}
  Uids = {u1}
  Roles = {0}
  Datas = {}
  Ttls = {2}
  MapTtl = 3
  Ops = {"tryRenew", "sync"}
  MaxClock = 2
  MaxFaults = 1
  LostReplies = FALSE
  Interval = 0
  Judgment = 0
  Inactive = 2
SPECIFICATION FairRenewing
INVARIANTS  RenewedIsClean CondemnedHasSuccessor
 
