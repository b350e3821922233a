-------------------------- MODULE GatewayVerdicts --------------------------
(***************************************************************************)
(* One call of evaluate on any input: the caller's proposal, its view of   *)
(* the portfolio, and the contents of the two files behind                 *)
(* RiskGatewayConfig.  The verdict is compared with a statement of the     *)
(* gateway's docstring that shares no definition with it.                  *)
(***************************************************************************)
EXTENDS RiskGateway, FiniteSetsExt

CONSTANTS
  Proposals,    \* the calls: proposals,
  States,       \* portfolios,
  LimitsFiles,  \* limits
  Whitelists,   \* and universes
  Pending       \* no verdict yet

ASSUME InputsAssumption ==
  /\ Proposals \subseteq PortfolioProposal
  /\ States \subseteq PortfolioState
  /\ LimitsFiles \subseteq LimitsType
  /\ Whitelists \subseteq SUBSET Symbols
ASSUME PendingAssumption ==
  Pending \notin [result : DecisionType, blocking : SUBSET (HardChecks \cup SoftChecks)]

VARIABLES proposal, state, limits, whitelist, decision

inputs == <<proposal, state, limits, whitelist>>

Init ==
  /\ proposal \in Proposals
  /\ state \in States
  /\ limits \in LimitsFiles
  /\ whitelist \in Whitelists
  /\ decision = Pending

Judge ==
  /\ decision = Pending
  /\ decision' = evaluate(proposal, state, limits, whitelist)
  /\ UNCHANGED inputs

Next == Judge
Spec == Init /\ [][Next]_<<inputs, decision>>

Judged == decision # Pending
ApprovedNow == Judged /\ decision.result = "approved"

----------------------------------------------------------------------------
TypeOK ==
  /\ proposal \in Proposals /\ state \in States
  /\ limits \in LimitsFiles /\ whitelist \in Whitelists
  /\ decision \in {Pending} \cup
       [result : DecisionType, blocking : SUBSET (HardChecks \cup SoftChecks)]

(* The docstring, for books of numbers: the long and the short side of the *)
(* book, and the trades that lead to it.                                   *)
Longs == {s \in DOMAIN proposal.book : proposal.book[s] > 0}
Shorts == {s \in DOMAIN proposal.book : proposal.book[s] < 0}
Size(S) == MapThenSumSet(LAMBDA s : proposal.book[s], S)
Held(s) == IF s \in DOMAIN state.book THEN state.book[s] ELSE 0
Wanted(s) == IF s \in DOMAIN proposal.book THEN proposal.book[s] ELSE 0
Trades ==
  {s \in Symbols : Wanted(s) \notin Held(s) - OrderEps .. Held(s) + OrderEps}

Violated ==
  LET cap == limits.maxPosition + Tol
      gross == Size(Longs) - Size(Shorts)
      net == Size(Longs) + Size(Shorts)
      room == {limits.maxOrdersPerDay - state.ordersToday,
               limits.maxOrdersPerWeek - state.ordersThisWeek}
  IN  {c \in HardChecks \cup SoftChecks :
        \/ c = "position_size"
             /\ \E s \in Longs \cup Shorts : proposal.book[s] \notin -cap .. cap
        \/ c = "gross_exposure" /\ gross - limits.maxGross > Tol
        \/ c = "net_exposure"
             /\ net \notin limits.minNet - Tol .. limits.maxNet + Tol
        \/ c = "whitelist" /\ DOMAIN proposal.book \ whitelist # {}
        \/ c = "order_frequency" /\ \E n \in room : Cardinality(Trades) > n
        \/ c = "daily_loss_circuit_breaker" /\ state.pnl # Unknown
             /\ \A b \in {limits.lossBreaker, -limits.lossBreaker} : state.pnl < b
        \/ c = "token_budget" /\ limits.maxTokens < proposal.tokens}

(* The verdict on a book of numbers, and the checks it names, are those of *)
(* the docstring: nothing is missed at the tolerances, for a short side,   *)
(* for a symbol that only one of the two books names, or when several      *)
(* checks fail at once.                                                    *)
VerdictIsExact ==
  Judged /\ Numeric(proposal.book) /\ Numeric(state.book) =>
    /\ decision.blocking = Violated
    /\ (decision.result = "rejected") = (Violated \cap HardChecks # {})
    /\ (decision.result = "approved") = (Violated = {})

(* Holding what was approved is approved: the same book, proposed from     *)
(* itself on the same day, is not blocked (evaluate counts no order).      *)
HoldIsApproved ==
  ApprovedNow =>
    evaluate(proposal, [state EXCEPT !.book = proposal.book], limits,
             whitelist).result = "approved"

(* A file with no limit tighter approves what a tighter one approves, and  *)
(* so does a longer whitelist.                                             *)
Looser(l) ==
  /\ \A f \in DOMAIN limits \ {"minNet", "lossBreaker"} : l[f] >= limits[f]
  /\ l.minNet <= limits.minNet
  /\ Abs(l.lossBreaker) >= Abs(limits.lossBreaker)
LooserLimitsApprove ==
  ApprovedNow =>
    \A l \in LimitsFiles, w \in Whitelists :
      Looser(l) /\ whitelist \subseteq w =>
        evaluate(proposal, state, l, w).result = "approved"
=============================================================================
