\* The universe is edited between two runs.
SPECIFICATION Spec
INVARIANT SameHashSameVerdict
CHECK_DEADLOCK FALSE
CONSTANTS
  Symbols = {"SPY", "TLT"}
  Weights <- MCWeights
  NaN = NaN
  Unknown = Unknown
  Tol = 0
  OrderEps = 0
  Runs = {r1, r2}
  None = None
  MaxTime = 3
  DayOf <- TwoDays
  MaxToolCalls = 1
  ToolsUsed = {"propose"}
  ProposedBooks <- FundBooks
  JournalSizes = {1}
  TokenTotals = {1}
  LimitsFiles <- OneFile
  UniverseFiles <- BothUniverses
  DagFiles = {"dagV1"}
  Overlap = FALSE
  AllowForce = FALSE
  AllowDry = FALSE
