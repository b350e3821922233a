---------------------------- MODULE DecisionLog -----------------------------
(***************************************************************************)
(* What the daily run promises, without runs, crashes or tables: a ledger  *)
(* with at most one decision a day, entered in the order of the days, each *)
(* judged against the portfolio the ones before it have led to.  The       *)
(* evaluation is filed after the decision, and only while the decision is  *)
(* the last one.                                                           *)
(***************************************************************************)
EXTENDS RiskGateway

CONSTANTS Days, None, LimitsFiles

VARIABLES
  ledger,     \* the decision of each day
  portfolio   \* the book the approved decisions have led to

Entry == [book : Book, result : DecisionType, filed : BOOLEAN]

Init ==
  /\ ledger = [d \in Days |-> None]
  /\ portfolio = Cash

Decide(d, book, result) ==
  /\ \A e \in Days : ledger[e] # None => e < d
  /\ ledger' = [ledger EXCEPT ![d] = [book |-> book, result |-> result, filed |-> FALSE]]
  /\ portfolio' = IF result = "approved" THEN book ELSE portfolio
  /\ result = "approved" =>
       \E limits \in LimitsFiles : WithinLimits(book, portfolio, limits)

File(d) ==
  /\ ledger[d] # None
  /\ ~ledger[d].filed
  /\ \A e \in Days : ledger[e] # None => e <= d
  /\ ledger' = [ledger EXCEPT ![d].filed = TRUE]
  /\ UNCHANGED portfolio

Next ==
  \E d \in Days :
    \/ \E book \in Book, result \in DecisionType : Decide(d, book, result)
    \/ File(d)

Spec == Init /\ [][Next]_<<ledger, portfolio>>
=============================================================================
