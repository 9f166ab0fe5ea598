CONSTANTS
  Nil = Nil
  Routers <- MCRouters
  Raws <- MCRaws
  Codes <- MCCodes
  VarType <- MCVarType
  Rank <- MCRank
  Lower <- MCLower
SPECIFICATION FairSpec
INVARIANTS PipeTypeOK TypeOK TreeBuilt Built   ComplexFirst SuffixFits
PROPERTIES ImplementsExchange Served
CHECK_DEADLOCK FALSE
