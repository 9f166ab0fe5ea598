CONSTANTS
  Nil = Nil
  Routers <- BelowTextRouters
  Raws <- FewRaws
  Codes <- MCCodes
  VarType <- MCVarType
  Rank <- MCRank
  Lower <- MCLower
SPECIFICATION Spec
INVARIANTS NoPanic
CHECK_DEADLOCK FALSE
