CONSTANTS
  Nil = Nil
  Routers <- DocumentedRouters
  Raws <- FewRaws
  Codes <- MCCodes
  VarType <- MCVarType
  Rank <- MCRank
  Lower <- MCLower
SPECIFICATION Spec
INVARIANTS OnlyDeclared
CHECK_DEADLOCK FALSE
