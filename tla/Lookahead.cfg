\* A backtest that reads a restatement from after the day it simulates.
\* A call returns once.
CONSTANTS
  Aaa = Aaa
  Bbb = Bbb
  Symbols = {Aaa, Bbb}
  MaxDay = 4
  MonthOf <- MCMonths
  Moments = {1, 2, 3, 4, 5}
  Prices = {1, 2, 4}
  NoPrice = NoPrice
  Whole = 4
  Calls <- MCCalls
  Tables <- MCTables
  Batches <- MCBatches
  InitialCash = 65536
SPECIFICATION Spec
INVARIANT SeesOnlyThePast
CHECK_DEADLOCK FALSE
