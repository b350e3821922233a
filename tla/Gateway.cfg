\* Every call of evaluate over two symbols, seven weights and three files.
SPECIFICATION Spec
CONSTANTS
  Spy = Spy
  Tlt = Tlt
  Symbols = {Spy, Tlt}
  Weights <- MCWeights
  NaN = NaN
  Unknown = Unknown
  Pending = Pending
  Tol = 1
  OrderEps = 1
  Proposals <- MCProposals
  States <- MCStates
  LimitsFiles <- ThreeFiles
  Whitelists <- BothWhitelists
INVARIANTS
  VerdictIsExact
  HoldIsApproved
  LooserLimitsApprove
\* A call returns once.
CHECK_DEADLOCK FALSE
