---------------------------- MODULE MCIngestion -----------------------------
(***************************************************************************)
(* An instance of Ingestion for TLC.  One year back is one day back.       *)
(***************************************************************************)
EXTENDS Ingestion, TLC

CONSTANTS b1, b2

(* Two backfills of a vintage-tracked series, with a longer and a shorter  *)
(* window, the shorter one after another series; two of a series without   *)
(* vintages; two of prices.                                                *)
Asked(names, n) == [series |-> names, years |-> n]
Pairs ==
  {<<Asked(<<"GDP">>, 2), Asked(<<"FEDFUNDS", "GDP">>, 1)>>,
   <<Asked(<<"FEDFUNDS">>, 2), Asked(<<"FEDFUNDS">>, 1)>>,
   <<Asked(<<"SPY">>, 2), Asked(<<"SPY">>, 1)>>}
MCArguments == {(b1 :> pair[1] @@ b2 :> pair[2]) : pair \in Pairs}
MCDays == <<1, 2, 2, 3, 3>>
MCNoons == <<1, 2, 4>>
MCLags == [s \in Series |-> IF s \in Current THEN 1 ELSE 0]
MCLeap == {<<2, 1>>}
(* A figure that the second release of a series takes back.                *)
MCWithheld == {<<"GDP", 2, 1>>, <<"FEDFUNDS", 4, 1>>}
=============================================================================
