----------------------------- MODULE MCBacktest -----------------------------
(***************************************************************************)
(* An instance of Backtest for TLC, after tests/test_backtest_as_of.py:    *)
(* prices known on their day and a restatement that comes late.  Prices    *)
(* are powers of 2 and InitialCash a large one, so that no division leaves *)
(* anything over.                                                          *)
(***************************************************************************)
EXTENDS Backtest, TLC

CONSTANTS Aaa, Bbb

Daily(s, series) ==
  {[dim |-> s, validFrom |-> d, asOf |-> d, value |-> series[d]] :
     d \in {e \in DOMAIN series : series[e] # 0}}

(* Every price series of one symbol, and of another that may have gaps.    *)
MCTables ==
  {Daily(Aaa, a) \cup Daily(Bbb, b) : a \in [Days -> {1, 2}], b \in [Days -> {0, 1, 4}]}

(* AAA doubles from the second day on; BBB loses a price.                  *)
Restated ==
  {[dim |-> Aaa, validFrom |-> d, asOf |-> 5, value |-> 4] : d \in 2 .. MaxDay}
Withdrawn == {[dim |-> Bbb, validFrom |-> 3, asOf |-> 4, value |-> NoPrice]}
MCBatches == {Restated, Withdrawn}

MCWeights == {(Aaa :> 3 @@ Bbb :> 1), (Aaa :> 2 @@ Bbb :> 1)}
MCCalls ==
  [weights : MCWeights, start : {1}, end : {MaxDay}, knownAsOf : {3, 4, 5}]
MCMonths == <<1, 1, 2, 3>>
=============================================================================
