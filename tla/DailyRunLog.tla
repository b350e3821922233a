---------------------------- MODULE DailyRunLog -----------------------------
(***************************************************************************)
(* The daily run implements DecisionLog as long as no run starts before    *)
(* the last one has ended and none is forced: the ledger is table          *)
(* portfolio_decisions by day, a decision is filed when its evaluation is  *)
(* linked, and the portfolio is what latest_approved_decision returns.     *)
(***************************************************************************)
EXTENDS DailyRun

Days == {DayOf[t] : t \in Time}

(* A later reading of the clock is not of an earlier date.                 *)
ASSUME DaysAssumption == \A t, u \in Time : t <= u => DayOf[t] <= DayOf[u]

ASSUME EntryAssumption == None \notin [book : Book, result : DecisionType, filed : BOOLEAN]

DecidedOn(d) == {q \in Decided : DayOf[decisions[q].proposedAt] = d}

Entry(q) ==
  [book |-> decisions[q].book, result |-> decisions[q].result,
   filed |-> decisions[q].eval # None]

Ledger ==
  [d \in Days |-> IF DecidedOn(d) = {} THEN None ELSE Entry(Latest(DecidedOn(d)))]

Log == INSTANCE DecisionLog WITH ledger <- Ledger, portfolio <- CurrentBook

(* Every step of a daily run is a step of the ledger or leaves it alone,   *)
(* across crashes at any point and runs that follow them.                  *)
ImplementsDecisionLog == Log!Spec
=============================================================================
