----------------------------- MODULE MCDailyRun -----------------------------
(***************************************************************************)
(* Instances of DailyRun for TLC.  One unit of weight is a tenth of the    *)
(* portfolio; an order of less than a unit does not occur in the books     *)
(* below, so the tolerance and the epsilon are 0.                          *)
(***************************************************************************)
EXTENDS DailyRunClaims, DailyRunLog, DailyRunInv, TLC

(* universe.toml and risk_gateway.toml, and an edit of each.               *)
Listed == {"SPY", "TLT"}
Delisted == {"SPY"}
Phase1 ==
  [maxPosition |-> 4, maxGross |-> 10, maxNet |-> 10, minNet |-> 0,
   lossBreaker |-> 1, maxOrdersPerDay |-> 2, maxOrdersPerWeek |-> 3,
   maxTokens |-> 5]
Tightened == [Phase1 EXCEPT !.maxOrdersPerDay = 1, !.maxPosition = 3]

FundWeights == {3, 4}
MCWeights == {3, 4, 9, NaN}
OneFund == [s \in {"SPY"} |-> 4]
TwoFunds == [s \in {"SPY", "TLT"} |-> 3]
Concentrated == [s \in {"SPY"} |-> 9]
NotANumber == [s \in {"TLT"} |-> NaN]

FundBooks == {OneFund, TwoFunds}
LiveBooks == {OneFund, NotANumber}
MixedVerdicts == {OneFund, Concentrated}
MixedBooks == {OneFund, TwoFunds, Cash, NotANumber}

BothFiles == {Phase1, Tightened}
OneFile == {Phase1}
BothUniverses == {Listed, Delisted}
OneUniverse == {Listed}

(* Two readings of the clock on the first day and one on the second.       *)
TwoDays == <<1, 1, 2>>

RunSymmetry == Permutations(Runs)
=============================================================================
