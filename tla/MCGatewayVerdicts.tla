------------------------- MODULE MCGatewayVerdicts -------------------------
(***************************************************************************)
(* An instance of GatewayVerdicts for TLC: two symbols, six weights and    *)
(* NaN, the two sides of every cap and of the tolerance.                   *)
(***************************************************************************)
EXTENDS GatewayVerdicts

CONSTANTS Spy, Tlt

MCWeights == {-4, -2, 1, 3, 4, 5} \cup {NaN}

(* Tolerance and epsilon are 1: a weight of 4 is beyond a cap of 3 and     *)
(* within the tolerance, one of 5 is not.                                  *)
Phase1 ==
  [maxPosition |-> 3, maxGross |-> 4, maxNet |-> 4, minNet |-> 0,
   lossBreaker |-> 2, maxOrdersPerDay |-> 2, maxOrdersPerWeek |-> 3, maxTokens |-> 5]
Wide ==
  [maxPosition |-> 4, maxGross |-> 9, maxNet |-> 5, minNet |-> -4,
   lossBreaker |-> 3, maxOrdersPerDay |-> 3, maxOrdersPerWeek |-> 3, maxTokens |-> 6]
Narrow == [Phase1 EXCEPT !.minNet = 1, !.maxNet = 2, !.lossBreaker = -2,
                          !.maxOrdersPerDay = 1]
ThreeFiles == {Phase1, Wide, Narrow}

MCProposals == [book : Book, tokens : {5, 6}]
CurrentBooks ==
  {b \in Book : \A s \in DOMAIN b : b[s] \in {-2, 3, 4}}
MCStates ==
  [book : CurrentBooks, ordersToday : {0, 1}, ordersThisWeek : {1, 2},
   pnl : {Unknown, -2, -3}]
BothWhitelists == {{Spy}, {Spy, Tlt}}
=============================================================================
