\* Two runs one after the other, the agent reading and proposing, the DAG file
\* edited at any moment.  Runs end, so the system may stop.
CONSTANTS
  Symbols = {"SPY", "TLT"}
  Weights <- MCWeights
  NaN = NaN
  Unknown = Unknown
  Tol = 0
  OrderEps = 0
  Runs = {r1, r2}
  None = None
  MaxTime = 3
  DayOf <- TwoDays
  MaxToolCalls = 2
  ToolsUsed = {"propose", "portfolio", "journal", "dag"}
  ProposedBooks <- MixedVerdicts
  JournalSizes = {1}
  TokenTotals = {1}
  LimitsFiles <- OneFile
  UniverseFiles <- OneUniverse
  DagFiles = {"dagV1", "dagV2"}
  Overlap = FALSE
  AllowForce = TRUE
  AllowDry = FALSE
SPECIFICATION Spec
SYMMETRY RunSymmetry
INVARIANTS
  TypeOK
  OneDecisionPerDay
  ApprovedChain
  NoLookahead
  AgentAndGatewayAgree
  OneSnapshotPerDay
  SnapshotIsWhatTheAgentSaw
CHECK_DEADLOCK FALSE
