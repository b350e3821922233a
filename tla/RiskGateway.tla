---------------------------- MODULE RiskGateway ----------------------------
(***************************************************************************)
(* The deterministic risk gateway: substrate/risk_gateway/gateway.py,      *)
(* `evaluate', and substrate/risk_gateway/types.py, `order_count'.         *)
(*                                                                         *)
(* A book is a Python dict from symbols to weights: a function whose       *)
(* domain is the set of symbols the dict names.  Weights are integers in a *)
(* fixed unit of the portfolio, or NaN: json.loads and float() both accept *)
(* it, so a proposal may carry one.  The tolerance 1e-9 of the exposure    *)
(* checks and the epsilon 1e-4 of order_count are constants of the same    *)
(* unit.                                                                   *)
(***************************************************************************)
EXTENDS Integers, FiniteSets, Functions

CONSTANTS
  Symbols,    \* every ticker a book may name, listed in universe.toml or not
  Weights,    \* the weights a book may give it: integers, or NaN
  NaN,        \* the float that compares false with everything
  Unknown,    \* None, as the value of last_settled_pnl_pct
  Tol,        \* the tolerance of the exposure checks
  OrderEps    \* the epsilon of order_count

ASSUME NaNAssumption == NaN \notin Int /\ Unknown \notin Int
ASSUME SymbolsAssumption == IsFiniteSet(Symbols)
ASSUME WeightsAssumption == Weights \ {NaN} \subseteq Int
ASSUME ToleranceAssumption == Tol \in Nat /\ OrderEps \in Nat

Book == UNION {[S -> Weights] : S \in SUBSET Symbols}
Numeric(book) == \A s \in DOMAIN book : book[s] # NaN

Cash == [s \in {} |-> 0]    \* the empty dict

(* The contents of config/risk_gateway.toml.                               *)
LimitsType ==
  [maxPosition : Nat, maxGross : Nat, maxNet : Int, minNet : Int,
   lossBreaker : Int, maxOrdersPerDay : Nat, maxOrdersPerWeek : Nat,
   maxTokens : Nat]

PortfolioProposal == [book : Book, tokens : Nat]
PortfolioState ==
  [book : Book, ordersToday : Nat, ordersThisWeek : Nat,
   pnl : Int \cup {Unknown}]

DecisionType == {"approved", "rejected", "requires_approval"}
(* Mutation: a check that fires and is forgotten when the verdict is made. *)
HardChecksButPosition ==
  {"gross_exposure", "net_exposure", "whitelist", "order_frequency"}

HardChecks == {"position_size", "gross_exposure", "net_exposure",
               "whitelist", "order_frequency"}
SoftChecks == {"daily_loss_circuit_breaker", "token_budget"}

----------------------------------------------------------------------------
(* Float arithmetic: an order comparison with NaN is false, abs and sum    *)
(* propagate it.                                                           *)
Above(x, y) == x # NaN /\ y # NaN /\ x > y
Abs(x) == IF x = NaN THEN NaN ELSE IF x < 0 THEN -x ELSE x
Minus(x, y) == IF x = NaN \/ y = NaN THEN NaN ELSE x - y

FloatSum(f) == IF Numeric(f) THEN SumFunction(f) ELSE NaN
(* Mutation: shorts are taken from the longs.                              *)
SignedGross(book) == FloatSum(book)

Gross(book) == FloatSum([s \in DOMAIN book |-> Abs(book[s])])
Net(book) == FloatSum(book)

(* dict.get(s, 0.0)                                                        *)
WeightOf(book, s) == IF s \in DOMAIN book THEN book[s] ELSE 0

(* Mutation: the current weight is added to the target, not taken off it.  *)
OrderedBySum(current, target) ==
  {s \in DOMAIN current \cup DOMAIN target :
     Above(Abs(Minus(WeightOf(target, s), -WeightOf(current, s))), OrderEps)}

Ordered(current, target) ==
  {s \in DOMAIN current \cup DOMAIN target :
     Above(Abs(Minus(WeightOf(target, s), WeightOf(current, s))), OrderEps)}

order_count(current, target) == Cardinality(Ordered(current, target))

----------------------------------------------------------------------------
(* The seven checks of evaluate, each by the name it puts in               *)
(* blocking_checks.                                                        *)
Fires(proposal, state, limits, whitelist) ==
  LET book == proposal.book
      net == Net(book)
      new == order_count(state.book, book)
  IN  [position_size |->
         \E s \in DOMAIN book : Above(Abs(book[s]), limits.maxPosition + Tol),
       gross_exposure |-> Above(Gross(book), limits.maxGross + Tol),
       net_exposure |->
         Above(net, limits.maxNet + Tol) \/ Above(limits.minNet - Tol, net),
       whitelist |-> \E s \in DOMAIN book : s \notin whitelist,
       order_frequency |->
         \/ new + state.ordersToday > limits.maxOrdersPerDay
         \/ new + state.ordersThisWeek > limits.maxOrdersPerWeek,
       daily_loss_circuit_breaker |->
         state.pnl # Unknown /\ state.pnl < -Abs(limits.lossBreaker),
       token_budget |-> proposal.tokens > limits.maxTokens]

(* A failed hard check rejects whatever the soft ones say; all the checks  *)
(* that fired are reported.                                                *)
Resolve(fires) ==
  LET hard == {c \in HardChecks : fires[c]}
      soft == {c \in SoftChecks : fires[c]}
  IN  [result |-> IF hard # {} THEN "rejected"
                  ELSE IF soft # {} THEN "requires_approval"
                  ELSE "approved",
       blocking |-> hard \cup soft]

(* Mutation: the two ends of the net band are swapped.                     *)
evaluateSwapped(proposal, state, limits, whitelist) ==
  Resolve(Fires(proposal, state,
                [limits EXCEPT !.minNet = limits.maxNet, !.maxNet = limits.minNet],
                whitelist))

evaluate(proposal, state, limits, whitelist) ==
  Resolve(Fires(proposal, state, limits, whitelist))

----------------------------------------------------------------------------
(* What an approval promises of a book that replaces another one: no NaN,  *)
(* every position, the gross and the net exposure and the number of orders *)
(* within the limits.                                                      *)
WithinLimits(book, current, limits) ==
  /\ Numeric(book)
  /\ \A s \in DOMAIN book : ~Above(Abs(book[s]), limits.maxPosition + Tol)
  /\ ~Above(Gross(book), limits.maxGross + Tol)
  /\ ~Above(Net(book), limits.maxNet + Tol)
  /\ ~Above(limits.minNet - Tol, Net(book))
  /\ order_count(current, book) <= limits.maxOrdersPerDay
=============================================================================
