\* Three runs one after the other, none forced.  Runs end, so the system may stop.
CONSTANTS
  Symbols = {"SPY", "TLT"}
  Weights <- FundWeights
  NaN = NaN
  Unknown = Unknown
  Tol = 0
  OrderEps = 0
  Runs = {r1, r2, r3}
  None = None
  MaxTime = 3
  DayOf <- TwoDays
  MaxToolCalls = 1
  ToolsUsed = {"propose"}
  ProposedBooks <- FundBooks
  JournalSizes = {1}
  TokenTotals = {1, 9}
  LimitsFiles <- OneFile
  UniverseFiles <- OneUniverse
  DagFiles = {"dagV1"}
  Overlap = FALSE
  AllowForce = FALSE
  AllowDry = FALSE
SPECIFICATION Spec
SYMMETRY RunSymmetry
PROPERTY ImplementsDecisionLog
CHECK_DEADLOCK FALSE
