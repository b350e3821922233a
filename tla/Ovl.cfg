\* Two runs that may overlap, NaN among the proposals, the limits edited at any
\* moment.  Runs end, so the system may stop.
CONSTANTS
  Symbols = {"SPY", "TLT"}
  Weights <- MCWeights
  NaN = NaN
  Unknown = Unknown
  Tol = 0
  OrderEps = 0
  Runs = {r1, r2}
  None = None
  MaxTime = 3
  DayOf <- TwoDays
  MaxToolCalls = 2
  ToolsUsed = {"propose", "dag", "other"}
  ProposedBooks <- MixedBooks
  JournalSizes = {1}
  TokenTotals = {1}
  LimitsFiles <- BothFiles
  UniverseFiles <- OneUniverse
  DagFiles = {"dagV1"}
  Overlap = TRUE
  AllowForce = FALSE
  AllowDry = TRUE
SPECIFICATION Spec
SYMMETRY RunSymmetry
INVARIANTS
  ReferentialIntegrity
  AuditTrail
  SuccessMeansDecided
  ApprovedWithinCaps
  BaselineWasApproved
PROPERTY HistoryIsKept
CHECK_DEADLOCK FALSE
