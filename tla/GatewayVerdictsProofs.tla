----------------------- MODULE GatewayVerdictsProofs -----------------------
(***************************************************************************)
(* Theorems about the calls of evaluate, for every value of the constants. *)
(***************************************************************************)
EXTENDS GatewayVerdicts, RiskGatewayProofs

(* The verdict is a function of the inputs, which a call leaves alone.     *)
Pure == TypeOK /\ (Judged => decision = evaluate(proposal, state, limits, whitelist))

(* Once a call has returned, its verdict is what evaluate says of its      *)
(* inputs.                                                                 *)
LEMMA PureHolds == Spec => []Pure
<1>1. Init => Pure
  BY DEF Init, Pure, TypeOK, Judged
<1>2. Pure /\ [Next]_<<inputs, decision>> => Pure'
  <2> SUFFICES ASSUME Pure, [Next]_<<inputs, decision>> PROVE Pure'
    OBVIOUS
  <2>1. CASE Judge
    <3>1. decision' = evaluate(proposal, state, limits, whitelist)
      BY <2>1 DEF Judge
    <3>2. decision' \in
            [result : DecisionType, blocking : SUBSET (HardChecks \cup SoftChecks)]
      BY <3>1 DEF evaluate, Resolve, DecisionType
    <3> QED
      BY <2>1, <3>1, <3>2 DEF Pure, TypeOK, Judge, inputs
  <2>2. CASE UNCHANGED <<inputs, decision>>
    BY <2>2 DEF Pure, TypeOK, Judged, inputs
  <2> QED  BY <2>1, <2>2 DEF Next
<1> QED  BY <1>1, <1>2, PTL DEF Spec

(* Whatever the limits and the book, what evaluate approved may be held.   *)
THEOREM HoldApproved == Spec => []HoldIsApproved
<1>1. Pure => HoldIsApproved
  <2> SUFFICES ASSUME Pure, ApprovedNow
               PROVE  evaluate(proposal, [state EXCEPT !.book = proposal.book],
                               limits, whitelist).result = "approved"
    BY DEF HoldIsApproved
  <2>1. evaluate(proposal, state, limits, whitelist).result = "approved"
    BY DEF Pure, ApprovedNow
  <2>2. /\ proposal \in PortfolioProposal /\ state \in PortfolioState
        /\ limits \in LimitsType
    BY InputsAssumption DEF Pure, TypeOK
  <2> QED  BY <2>1, <2>2, HoldingIsApproved
<1> QED  BY <1>1, PureHolds, PTL

(* No limit that is loosened, and no symbol added to the universe, turns   *)
(* an approval into something else.                                        *)
THEOREM LooserHolds == Spec => []LooserLimitsApprove
<1>1. Pure => LooserLimitsApprove
  <2> SUFFICES ASSUME Pure, ApprovedNow, NEW l \in LimitsFiles, NEW w \in Whitelists,
                      Looser(l), whitelist \subseteq w
               PROVE  evaluate(proposal, state, l, w).result = "approved"
    BY DEF LooserLimitsApprove
  <2>1. evaluate(proposal, state, limits, whitelist).result = "approved"
    BY DEF Pure, ApprovedNow
  <2>2. /\ proposal \in PortfolioProposal /\ state \in PortfolioState
        /\ limits \in LimitsType /\ l \in LimitsType
    BY InputsAssumption DEF Pure, TypeOK
  <2>3. /\ \A f \in DOMAIN limits \ {"minNet", "lossBreaker"} : l[f] >= limits[f]
        /\ l.minNet <= limits.minNet
        /\ Abs(l.lossBreaker) >= Abs(limits.lossBreaker)
    BY DEF Looser
  <2> QED  BY <2>1, <2>2, <2>3, LooserIsApproved
<1> QED  BY <1>1, PureHolds, PTL

----------------------------------------------------------------------------
(* The library's two names for the sum of a book over some symbols.        *)
LEMMA SizeIsSum == ASSUME NEW S PROVE Size(S) = SumFunctionOnSet(proposal.book, S)
BY DEF Size, MapThenSumSet, SumFunctionOnSet, FoldFunctionOnSet

(* On books of numbers, a check fires when the docstring says so.          *)
LEMMA FiresAsDocumented ==
  ASSUME proposal \in PortfolioProposal, state \in PortfolioState, limits \in LimitsType,
         Numeric(proposal.book), Numeric(state.book)
  PROVE  \A c \in HardChecks \cup SoftChecks :
           Fires(proposal, state, limits, whitelist)[c] <=> c \in Violated
<1> DEFINE book == proposal.book
           fires == Fires(proposal, state, limits, whitelist)
           cap == limits.maxPosition + Tol
           gross == Size(Longs) - Size(Shorts)
           net == Size(Longs) + Size(Shorts)
           room == {limits.maxOrdersPerDay - state.ordersToday,
                    limits.maxOrdersPerWeek - state.ordersThisWeek}
<1>1. /\ book \in Book /\ proposal.tokens \in Nat /\ state.book \in Book
      /\ state.ordersToday \in Nat /\ state.ordersThisWeek \in Nat
      /\ state.pnl \in Int \cup {Unknown}
  BY DEF PortfolioProposal, PortfolioState
<1>2. /\ limits.maxPosition \in Nat /\ limits.maxGross \in Nat /\ limits.maxNet \in Int
      /\ limits.minNet \in Int /\ limits.lossBreaker \in Int
      /\ limits.maxOrdersPerDay \in Nat /\ limits.maxOrdersPerWeek \in Nat
      /\ limits.maxTokens \in Nat /\ Tol \in Nat
  BY ToleranceAssumption DEF LimitsType
<1>3. gross \in Int /\ net \in Int /\ Gross(book) = gross /\ Net(book) = net
  <2>1. /\ Longs \in SUBSET DOMAIN book /\ Shorts \in SUBSET DOMAIN book
        /\ \A s \in DOMAIN book : /\ s \in Longs <=> book[s] > 0
                                  /\ s \in Shorts <=> book[s] < 0
    BY DEF Longs, Shorts
  <2>2. Size(Longs) = SumFunctionOnSet(book, Longs) /\ Size(Shorts) = SumFunctionOnSet(book, Shorts)
    BY SizeIsSum
  <2> HIDE DEF book
  <2> QED  BY <1>1, <2>1, <2>2, ExposuresOfSides DEF book
<1>4. order_count(state.book, book) = Cardinality(Trades) /\ Cardinality(Trades) \in Nat
  <2>1. Ordered(state.book, book) = Trades
    BY <1>1, OrderedAreMoved DEF Trades, Wanted, Held, WeightOf
  <2> QED  BY <1>1, <2>1, OrderCountType DEF order_count
<1> HIDE DEF gross, net
<1>5. fires.position_size <=> \E s \in Longs \cup Shorts : book[s] \notin -cap .. cap
  <2>1. \A s \in DOMAIN book : book[s] \in Int
    BY <1>1, BookType
  <2>2. cap \in Nat
    BY <1>2
  <2>3. \A s \in DOMAIN book :
          Above(Abs(book[s]), cap) <=> s \in Longs \cup Shorts /\ book[s] \notin -cap .. cap
    <3> TAKE s \in DOMAIN book
    <3> HIDE DEF cap
    <3>1. /\ Above(Abs(book[s]), cap) <=> book[s] \notin -cap .. cap
          /\ book[s] \notin -cap .. cap => book[s] > 0 \/ book[s] < 0
      BY <2>1, <2>2, AboveAbs
    <3> QED  BY <3>1 DEF Longs, Shorts
  <2>4. fires.position_size <=> \E s \in DOMAIN book : Above(Abs(book[s]), cap)
    BY DEF Fires
  <2>5. Longs \cup Shorts \subseteq DOMAIN book
    BY DEF Longs, Shorts
  <2> HIDE DEF fires, cap
  <2> QED  BY <2>3, <2>4, <2>5
<1>6. fires.gross_exposure <=> gross - limits.maxGross > Tol
  <2>1. fires.gross_exposure <=> Above(gross, limits.maxGross + Tol)
    BY <1>3 DEF Fires
  <2> QED  BY <1>2, <1>3, <2>1, NaNAssumption DEF Above
<1>7. fires.net_exposure <=> net \notin limits.minNet - Tol .. limits.maxNet + Tol
  <2>1. fires.net_exposure
          <=> Above(net, limits.maxNet + Tol) \/ Above(limits.minNet - Tol, net)
    BY <1>3 DEF Fires
  <2> HIDE DEF fires
  <2> QED  BY <1>2, <1>3, <2>1, NaNAssumption DEF Above
<1>8. fires.whitelist <=> DOMAIN book \ whitelist # {}
  BY DEF Fires
<1>9. fires.order_frequency <=> \E n \in room : Cardinality(Trades) > n
  BY <1>1, <1>2, <1>4 DEF Fires
<1>10. fires.daily_loss_circuit_breaker
         <=> /\ state.pnl # Unknown
             /\ \A b \in {limits.lossBreaker, -limits.lossBreaker} : state.pnl < b
  <2>1. fires.daily_loss_circuit_breaker
          <=> state.pnl # Unknown /\ state.pnl < -Abs(limits.lossBreaker)
    BY DEF Fires
  <2> HIDE DEF fires
  <2> QED  BY <1>1, <1>2, <2>1, NaNAssumption DEF Abs
<1>11. fires.token_budget <=> limits.maxTokens < proposal.tokens
  BY <1>1, <1>2 DEF Fires
<1> HIDE DEF fires, cap, room, book
<1>12. Violated =
  {c \in HardChecks \cup SoftChecks :
        \/ c = "position_size" /\ \E s \in Longs \cup Shorts : book[s] \notin -cap .. cap
        \/ c = "gross_exposure" /\ gross - limits.maxGross > Tol
        \/ c = "net_exposure" /\ net \notin limits.minNet - Tol .. limits.maxNet + Tol
        \/ c = "whitelist" /\ DOMAIN book \ whitelist # {}
        \/ c = "order_frequency" /\ \E n \in room : Cardinality(Trades) > n
        \/ c = "daily_loss_circuit_breaker" /\ state.pnl # Unknown
             /\ \A b \in {limits.lossBreaker, -limits.lossBreaker} : state.pnl < b
        \/ c = "token_budget" /\ limits.maxTokens < proposal.tokens}
  BY DEF Violated, book, cap, gross, net, room
<1> QED
  BY <1>5, <1>6, <1>7, <1>8, <1>9, <1>10, <1>11, <1>12 DEF HardChecks, SoftChecks, fires

(* For every book of numbers, the gateway's arithmetic gives the verdict   *)
(* of the docstring, with exactly the checks that the book violates.       *)
THEOREM VerdictHolds == Spec => []VerdictIsExact
<1>1. Pure => VerdictIsExact
  <2> SUFFICES ASSUME Pure, Judged, Numeric(proposal.book), Numeric(state.book)
               PROVE  /\ decision.blocking = Violated
                      /\ (decision.result = "rejected") = (Violated \cap HardChecks # {})
                      /\ (decision.result = "approved") = (Violated = {})
    BY DEF VerdictIsExact
  <2> DEFINE fires == Fires(proposal, state, limits, whitelist)
  <2>1. decision = Resolve(fires)
    BY DEF Pure, evaluate
  <2>2. \A c \in HardChecks \cup SoftChecks : fires[c] <=> c \in Violated
    BY InputsAssumption, FiresAsDocumented DEF Pure, TypeOK
  <2>3. Violated \subseteq HardChecks \cup SoftChecks
    BY DEF Violated
  <2> HIDE DEF fires
  <2>4. /\ {c \in HardChecks : fires[c]} = Violated \cap HardChecks
        /\ {c \in SoftChecks : fires[c]} = Violated \cap SoftChecks
    BY <2>2
  <2> QED  BY <2>1, <2>3, <2>4 DEF Resolve
<1> QED  BY <1>1, PureHolds, PTL
=============================================================================
