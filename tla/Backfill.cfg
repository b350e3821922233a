\* Two backfills that may overlap, crash and be resumed.
\* Backfills end, so the system may stop.
CONSTANTS
  b1 = b1
  b2 = b2
  Backfills = {b1, b2}
  Vintaged = {"GDP"}
  Current = {"FEDFUNDS"}
  Symbols = {"SPY"}
  Arguments <- MCArguments
  None = None
  MaxTime = 5
  DayOf <- MCDays
  Noon <- MCNoons
  Lag <- MCLags
  Withheld <- MCWithheld
  NoSuchDate <- MCLeap
  MaxRetries = 2
  MaxReleases = 2
SPECIFICATION FairSpec
INVARIANTS
  TypeOK
  HistoryIsAsPublished
  NoStaleWinner
  AnswerIsUnambiguous
PROPERTIES
  SettledViewIsFixed
  EveryStepIsProgress
  BackfillEnds
CHECK_DEADLOCK FALSE
