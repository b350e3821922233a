\* Every table of two symbols over four days in three months.
\* A call returns once and batches are committed once.
CONSTANTS
  Aaa = Aaa
  Bbb = Bbb
  Symbols = {Aaa, Bbb}
  MaxDay = 4
  MonthOf <- MCMonths
  Moments = {1, 2, 3, 4, 5}
  Prices = {1, 2, 4}
  NoPrice = NoPrice
  Whole = 4
  Calls <- MCCalls
  Tables <- MCTables
  Batches <- MCBatches
  InitialCash = 65536
SPECIFICATION Spec
INVARIANTS
  TypeOK
  PanelIsReproducible
  WealthIsExact
  CurvesAgree
CHECK_DEADLOCK FALSE
