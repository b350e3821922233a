\* Two runs that may overlap, under fairness of the program; all files edited.
\* Runs end, so the system may stop.
CONSTANTS
  Symbols = {"SPY", "TLT"}
  Weights <- MCWeights
  NaN = NaN
  Unknown = Unknown
  Tol = 0
  OrderEps = 0
  Runs = {r1, r2}
  None = None
  MaxTime = 3
  DayOf <- TwoDays
  MaxToolCalls = 1
  ToolsUsed = {"propose"}
  ProposedBooks <- LiveBooks
  JournalSizes = {1}
  TokenTotals = {1}
  LimitsFiles <- BothFiles
  UniverseFiles <- BothUniverses
  DagFiles = {"dagV1"}
  Overlap = TRUE
  AllowForce = FALSE
  AllowDry = TRUE
SPECIFICATION FairSpec
PROPERTY AnswerIsRecorded
CHECK_DEADLOCK FALSE
