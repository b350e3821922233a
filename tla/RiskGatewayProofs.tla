------------------------- MODULE RiskGatewayProofs -------------------------
(***************************************************************************)
(* What evaluate guarantees of any books, limits and whitelist.            *)
(***************************************************************************)
EXTENDS RiskGateway, SumTheorems

(* Two books differ in finitely many symbols: order_count is a number.     *)
LEMMA OrderCountType ==
  ASSUME NEW current \in Book, NEW target \in Book
  PROVE  order_count(current, target) \in Nat
<1>1. Ordered(current, target) \subseteq Symbols
  BY DEF Ordered, Book
<1> QED
  BY <1>1, SymbolsAssumption, FS_Subset, FS_CardinalityType DEF order_count

(* To hold a book takes no order, even one with a NaN in it.               *)
LEMMA HoldTakesNoOrder ==
  ASSUME NEW book \in Book
  PROVE  order_count(book, book) = 0
<1>1. ASSUME NEW s \in DOMAIN book
      PROVE  ~Above(Abs(Minus(WeightOf(book, s), WeightOf(book, s))), OrderEps)
  <2>1. book[s] \in Weights
    BY DEF Book
  <2>2. CASE book[s] = NaN
    BY <1>1, <2>2 DEF Above, Abs, Minus, WeightOf
  <2>3. CASE book[s] # NaN
    <3>1. book[s] \in Int
      BY <2>1, <2>3, WeightsAssumption
    <3>2. Minus(WeightOf(book, s), WeightOf(book, s)) = 0
      BY <1>1, <2>3, <3>1 DEF Minus, WeightOf
    <3> QED  BY <3>2, NaNAssumption, ToleranceAssumption DEF Abs, Above
  <2> QED  BY <2>2, <2>3
<1>2. Ordered(book, book) = {}
  BY <1>1 DEF Ordered
<1> QED  BY <1>2, FS_EmptySet DEF order_count

(* What the gateway promises of the book it approves, when the caller      *)
(* counts no earlier orders, as main does.                                 *)
LEMMA ApprovedIsWithinLimits ==
  ASSUME NEW book \in Book, NEW current \in Book, NEW limits \in LimitsType,
         NEW tokens, NEW whitelist, Numeric(book),
         evaluate([book |-> book, tokens |-> tokens],
                  [book |-> current, ordersToday |-> 0, ordersThisWeek |-> 0,
                   pnl |-> Unknown], limits, whitelist).result = "approved"
  PROVE  WithinLimits(book, current, limits)
<1> DEFINE proposal == [book |-> book, tokens |-> tokens]
           state == [book |-> current, ordersToday |-> 0, ordersThisWeek |-> 0,
                     pnl |-> Unknown]
           fires == Fires(proposal, state, limits, whitelist)
<1>1. \A c \in HardChecks : ~fires[c]
  BY DEF evaluate, Resolve
<1>2. /\ ~fires.position_size /\ ~fires.gross_exposure
      /\ ~fires.net_exposure /\ ~fires.order_frequency
  <2> HIDE DEF fires
  <2> QED  BY <1>1 DEF HardChecks
<1>3. order_count(current, book) \in Nat
  BY OrderCountType
<1>4. ~(order_count(current, book) + 0 > limits.maxOrdersPerDay)
  BY <1>2 DEF Fires
<1>5. order_count(current, book) <= limits.maxOrdersPerDay
  BY <1>3, <1>4 DEF LimitsType
<1>6. /\ \A s \in DOMAIN book : ~Above(Abs(book[s]), limits.maxPosition + Tol)
      /\ ~Above(Gross(book), limits.maxGross + Tol)
      /\ ~Above(Net(book), limits.maxNet + Tol)
      /\ ~Above(limits.minNet - Tol, Net(book))
  BY <1>2 DEF Fires
<1> QED  BY <1>5, <1>6 DEF WithinLimits

(* Approval survives the approved book becoming the current one.           *)
LEMMA HoldingIsApproved ==
  ASSUME NEW p \in PortfolioProposal, NEW s \in PortfolioState,
         NEW l \in LimitsType, NEW w,
         evaluate(p, s, l, w).result = "approved"
  PROVE  evaluate(p, [s EXCEPT !.book = p.book], l, w).result = "approved"
<1> DEFINE held == [s EXCEPT !.book = p.book]
           old == Fires(p, s, l, w)
           new == Fires(p, held, l, w)
<1>1. /\ p.book \in Book /\ s.book \in Book
      /\ s.ordersToday \in Nat /\ s.ordersThisWeek \in Nat
      /\ l.maxOrdersPerDay \in Nat /\ l.maxOrdersPerWeek \in Nat
  BY DEF PortfolioProposal, PortfolioState, LimitsType
<1>2. /\ held.book = p.book /\ held.ordersToday = s.ordersToday
      /\ held.ordersThisWeek = s.ordersThisWeek /\ held.pnl = s.pnl
  BY DEF PortfolioState
<1>3. \A c \in HardChecks \cup SoftChecks : ~old[c]
  BY DEF evaluate, Resolve
<1>4. ~new.order_frequency
  <2>1. order_count(s.book, p.book) \in Nat /\ order_count(held.book, p.book) = 0
    BY <1>1, <1>2, OrderCountType, HoldTakesNoOrder
  <2>2. ~old.order_frequency
    BY <1>3 DEF HardChecks
  <2>3. /\ ~(order_count(s.book, p.book) + s.ordersToday > l.maxOrdersPerDay)
        /\ ~(order_count(s.book, p.book) + s.ordersThisWeek > l.maxOrdersPerWeek)
    BY <2>2 DEF Fires
  <2>4. /\ ~(order_count(held.book, p.book) + held.ordersToday > l.maxOrdersPerDay)
        /\ ~(order_count(held.book, p.book) + held.ordersThisWeek > l.maxOrdersPerWeek)
    BY <1>1, <1>2, <2>1, <2>3
  <2> QED  BY <2>4 DEF Fires
<1>5. /\ new.position_size = old.position_size
      /\ new.gross_exposure = old.gross_exposure
      /\ new.net_exposure = old.net_exposure
      /\ new.whitelist = old.whitelist
      /\ new.daily_loss_circuit_breaker = old.daily_loss_circuit_breaker
      /\ new.token_budget = old.token_budget
  BY <1>2 DEF Fires
<1>6. \A c \in HardChecks \cup SoftChecks : ~new[c]
  <2> HIDE DEF old, new
  <2> QED  BY <1>3, <1>4, <1>5 DEF HardChecks, SoftChecks
<1> QED  BY <1>6 DEF evaluate, Resolve

(* The books, and the sums over them.                                      *)
LEMMA BookType ==
  ASSUME NEW book \in Book
  PROVE  /\ DOMAIN book \subseteq Symbols /\ IsFiniteSet(DOMAIN book)
         /\ Numeric(book) => \A s \in DOMAIN book : book[s] \in Int
<1>1. DOMAIN book \subseteq Symbols /\ \A s \in DOMAIN book : book[s] \in Weights
  BY DEF Book
<1> QED  BY <1>1, SymbolsAssumption, WeightsAssumption, FS_Subset DEF Numeric

(* The exposures of a book are numbers, or NaN.                            *)
LEMMA ExposureType ==
  ASSUME NEW book \in Book
  PROVE  Gross(book) \in Int \cup {NaN} /\ Net(book) \in Int \cup {NaN}
<1> DEFINE size == [s \in DOMAIN book |-> Abs(book[s])]
<1>1. IsFiniteSet(DOMAIN book) /\ (Numeric(book) => \A s \in DOMAIN book : book[s] \in Int)
  BY BookType
<1>2. Net(book) \in Int \cup {NaN}
  <2>1. Numeric(book) => SumFunctionOnSet(book, DOMAIN book) \in Int
    BY <1>1, SumType
  <2> QED  BY <2>1 DEF Net, FloatSum, SumFunction
<1>3. Gross(book) \in Int \cup {NaN}
  <2>1. Numeric(size) => Numeric(book)
    BY DEF Numeric, Abs
  <2>2. Numeric(book) => \A s \in DOMAIN book : size[s] \in Int
    BY <1>1, NaNAssumption DEF Abs
  <2>3. DOMAIN size = DOMAIN book
    OBVIOUS
  <2> HIDE DEF size
  <2>4. Numeric(size) => SumFunctionOnSet(size, DOMAIN size) \in Int
    BY <1>1, <2>1, <2>2, <2>3, SumType
  <2> QED  BY <2>4 DEF Gross, FloatSum, SumFunction, size
<1> QED  BY <1>2, <1>3

(* What evaluate approves it approves under limits none of which is        *)
(* tighter and with a longer whitelist.                                    *)
LEMMA LooserIsApproved ==
  ASSUME NEW p \in PortfolioProposal, NEW s \in PortfolioState,
         NEW l \in LimitsType, NEW m \in LimitsType, NEW w, NEW v, w \subseteq v,
         \A f \in DOMAIN l \ {"minNet", "lossBreaker"} : m[f] >= l[f],
         m.minNet <= l.minNet, Abs(m.lossBreaker) >= Abs(l.lossBreaker),
         evaluate(p, s, l, w).result = "approved"
  PROVE  evaluate(p, s, m, v).result = "approved"
<1> DEFINE old == Fires(p, s, l, w)
           new == Fires(p, s, m, v)
           orders == order_count(s.book, p.book)
<1>1. /\ p.book \in Book /\ p.tokens \in Nat /\ s.book \in Book
      /\ s.ordersToday \in Nat /\ s.ordersThisWeek \in Nat /\ s.pnl \in Int \cup {Unknown}
  BY DEF PortfolioProposal, PortfolioState
<1>2. \A k \in {l, m} :
        /\ k.maxPosition \in Nat /\ k.maxGross \in Nat /\ k.maxNet \in Int
        /\ k.minNet \in Int /\ k.lossBreaker \in Int /\ k.maxOrdersPerDay \in Nat
        /\ k.maxOrdersPerWeek \in Nat /\ k.maxTokens \in Nat
  BY DEF LimitsType
<1>3. /\ m.maxPosition >= l.maxPosition /\ m.maxGross >= l.maxGross
      /\ m.maxNet >= l.maxNet /\ m.maxOrdersPerDay >= l.maxOrdersPerDay
      /\ m.maxOrdersPerWeek >= l.maxOrdersPerWeek /\ m.maxTokens >= l.maxTokens
  BY DEF LimitsType
<1>4. \A c \in HardChecks \cup SoftChecks : ~old[c]
  BY DEF evaluate, Resolve
<1>5. /\ ~old.position_size /\ ~old.gross_exposure /\ ~old.net_exposure /\ ~old.whitelist
      /\ ~old.order_frequency /\ ~old.daily_loss_circuit_breaker /\ ~old.token_budget
  <2> HIDE DEF old
  <2> QED  BY <1>4 DEF HardChecks, SoftChecks
<1>6. ASSUME NEW x \in Int \cup {NaN}, NEW a \in Int, NEW b \in Int, a <= b
      PROVE  (~Above(x, a) => ~Above(x, b)) /\ (~Above(b, x) => ~Above(a, x))
  BY <1>6, NaNAssumption DEF Above
<1>7. ~new.position_size
  <2>1. \A t \in DOMAIN p.book : ~Above(Abs(p.book[t]), l.maxPosition + Tol)
    BY <1>5 DEF Fires
  <2>2. \A t \in DOMAIN p.book : Abs(p.book[t]) \in Int \cup {NaN}
    <3>1. \A t \in DOMAIN p.book : p.book[t] \in Weights
      BY <1>1 DEF Book
    <3> QED  BY <3>1, WeightsAssumption, NaNAssumption DEF Abs
  <2>3. l.maxPosition + Tol \in Int /\ m.maxPosition + Tol \in Int
        /\ l.maxPosition + Tol <= m.maxPosition + Tol
    BY <1>2, <1>3, ToleranceAssumption
  <2>4. \A t \in DOMAIN p.book : ~Above(Abs(p.book[t]), m.maxPosition + Tol)
    BY <1>6, <2>1, <2>2, <2>3
  <2> QED  BY <2>4 DEF Fires
<1>8. ~new.gross_exposure
  <2>1. ~Above(Gross(p.book), l.maxGross + Tol)
    BY <1>5 DEF Fires
  <2>2. l.maxGross + Tol \in Int /\ m.maxGross + Tol \in Int
        /\ l.maxGross + Tol <= m.maxGross + Tol
    BY <1>2, <1>3, ToleranceAssumption
  <2>3. ~Above(Gross(p.book), m.maxGross + Tol)
    BY <1>1, <1>6, <2>1, <2>2, ExposureType
  <2> QED  BY <2>3 DEF Fires
<1>9. ~new.net_exposure
  <2>1. ~Above(Net(p.book), l.maxNet + Tol) /\ ~Above(l.minNet - Tol, Net(p.book))
    BY <1>5 DEF Fires
  <2>2. /\ l.maxNet + Tol \in Int /\ m.maxNet + Tol \in Int
        /\ l.maxNet + Tol <= m.maxNet + Tol
        /\ l.minNet - Tol \in Int /\ m.minNet - Tol \in Int
        /\ m.minNet - Tol <= l.minNet - Tol
    BY <1>2, <1>3, ToleranceAssumption
  <2>3. ~Above(Net(p.book), m.maxNet + Tol) /\ ~Above(m.minNet - Tol, Net(p.book))
    BY <1>1, <1>6, <2>1, <2>2, ExposureType
  <2> QED  BY <2>3 DEF Fires
<1>10. ~new.whitelist
  BY <1>5 DEF Fires
<1>11. ~new.order_frequency
  <2>1. /\ ~(orders + s.ordersToday > l.maxOrdersPerDay)
        /\ ~(orders + s.ordersThisWeek > l.maxOrdersPerWeek)
    BY <1>5 DEF Fires
  <2>2. orders \in Nat
    BY <1>1, OrderCountType
  <2> HIDE DEF orders
  <2>3. /\ ~(orders + s.ordersToday > m.maxOrdersPerDay)
        /\ ~(orders + s.ordersThisWeek > m.maxOrdersPerWeek)
    BY <1>1, <1>2, <1>3, <2>1, <2>2
  <2> QED  BY <2>3 DEF Fires, orders
<1>12. ~new.daily_loss_circuit_breaker
  <2>1. ~(s.pnl # Unknown /\ s.pnl < -Abs(l.lossBreaker))
    BY <1>5 DEF Fires
  <2>2. Abs(l.lossBreaker) \in Int /\ Abs(m.lossBreaker) \in Int
    BY <1>2, NaNAssumption DEF Abs
  <2>3. ~(s.pnl # Unknown /\ s.pnl < -Abs(m.lossBreaker))
    BY <1>1, <2>1, <2>2
  <2> QED  BY <2>3 DEF Fires
<1>13. ~new.token_budget
  <2>1. ~(p.tokens > l.maxTokens)
    BY <1>5 DEF Fires
  <2>2. ~(p.tokens > m.maxTokens)
    BY <1>1, <1>2, <1>3, <2>1
  <2> QED  BY <2>2 DEF Fires
<1>14. \A c \in HardChecks \cup SoftChecks : ~new[c]
  <2> HIDE DEF old, new
  <2> QED
    BY <1>7, <1>8, <1>9, <1>10, <1>11, <1>12, <1>13 DEF HardChecks, SoftChecks
<1> QED  BY <1>14 DEF evaluate, Resolve

(* The net exposure of a book of numbers is the sum of its two sides, the  *)
(* gross exposure their difference.                                        *)
LEMMA ExposuresOfSides ==
  ASSUME NEW book \in Book, Numeric(book),
         NEW P \in SUBSET DOMAIN book, NEW N \in SUBSET DOMAIN book,
         \A s \in DOMAIN book : (s \in P <=> book[s] > 0) /\ (s \in N <=> book[s] < 0)
  PROVE  /\ SumFunctionOnSet(book, P) \in Int /\ SumFunctionOnSet(book, N) \in Int
         /\ Net(book) = SumFunctionOnSet(book, P) + SumFunctionOnSet(book, N)
         /\ Gross(book) = SumFunctionOnSet(book, P) - SumFunctionOnSet(book, N)
<1> DEFINE size == [s \in DOMAIN book |-> Abs(book[s])]
           D == DOMAIN book
<1>1. IsFiniteSet(D) /\ \A s \in D : book[s] \in Int
  BY BookType
<1>2. D \cap P = P /\ D \cap N = N /\ IsFiniteSet(P) /\ IsFiniteSet(N)
  BY <1>1, FS_Subset
<1>3. AreParts(book, size, D, P, N)
  BY <1>1, NaNAssumption DEF Abs, AreParts
<1>4. DOMAIN size = D /\ Numeric(size)
  BY <1>1, NaNAssumption DEF Abs, Numeric
<1> HIDE DEF size, D
<1>5. /\ SumFunctionOnSet(book, D)
           = SumFunctionOnSet(book, P) + SumFunctionOnSet(book, N)
      /\ SumFunctionOnSet(size, D)
           = SumFunctionOnSet(book, P) - SumFunctionOnSet(book, N)
  <2>1. /\ SumFunctionOnSet(book, D)
             = SumFunctionOnSet(book, D \cap P) + SumFunctionOnSet(book, D \cap N)
        /\ SumFunctionOnSet(size, D)
             = SumFunctionOnSet(book, D \cap P) - SumFunctionOnSet(book, D \cap N)
    BY <1>1, <1>3, SumOfParts
  <2> QED  BY <1>2, <2>1
<1>6. SumFunctionOnSet(book, P) \in Int /\ SumFunctionOnSet(book, N) \in Int
  BY <1>1, <1>2, SumType DEF D
<1>7. Net(book) = SumFunctionOnSet(book, D)
  BY DEF Net, FloatSum, SumFunction, D
<1>8. Gross(book) = SumFunctionOnSet(size, D)
  BY <1>4 DEF Gross, FloatSum, SumFunction, size, D
<1> QED  BY <1>5, <1>6, <1>7, <1>8

(* The weight of a symbol in a book of numbers is a number.                *)
LEMMA WeightOfType ==
  ASSUME NEW book \in Book, Numeric(book), NEW s
  PROVE  WeightOf(book, s) \in Int
BY BookType DEF WeightOf

(* A size is above a bound when the number is outside the interval.        *)
LEMMA AboveAbs ==
  ASSUME NEW x \in Int, NEW cap \in Nat
  PROVE  /\ Above(Abs(x), cap) <=> x \notin -cap .. cap
         /\ x \notin -cap .. cap => x > 0 \/ x < 0
BY NaNAssumption DEF Above, Abs

(* The symbols order_count counts are those whose weight moves by more     *)
(* than the epsilon, whichever book names them.                            *)
LEMMA OrderedAreMoved ==
  ASSUME NEW current \in Book, NEW target \in Book, Numeric(current), Numeric(target)
  PROVE  Ordered(current, target)
           = {s \in Symbols : WeightOf(target, s) \notin
                WeightOf(current, s) - OrderEps .. WeightOf(current, s) + OrderEps}
<1>1. DOMAIN current \cup DOMAIN target \subseteq Symbols
  BY BookType
<1>2. ASSUME NEW s
      PROVE  Above(Abs(Minus(WeightOf(target, s), WeightOf(current, s))), OrderEps)
               <=> WeightOf(target, s) \notin
                     WeightOf(current, s) - OrderEps .. WeightOf(current, s) + OrderEps
  <2> DEFINE x == WeightOf(target, s)
             y == WeightOf(current, s)
  <2>1. x \in Int /\ y \in Int
    BY WeightOfType
  <2> HIDE DEF x, y
  <2>2. Minus(x, y) = x - y
    BY <2>1, NaNAssumption DEF Minus
  <2>3. Above(Abs(x - y), OrderEps) <=> x - y \notin -OrderEps .. OrderEps
    BY <2>1, AboveAbs, ToleranceAssumption
  <2>4. x - y \in -OrderEps .. OrderEps <=> x \in y - OrderEps .. y + OrderEps
    BY <2>1, ToleranceAssumption
  <2> QED  BY <2>2, <2>3, <2>4 DEF x, y
<1>3. ASSUME NEW s, s \notin DOMAIN current \cup DOMAIN target
      PROVE  WeightOf(target, s) \in
               WeightOf(current, s) - OrderEps .. WeightOf(current, s) + OrderEps
  BY <1>3, ToleranceAssumption DEF WeightOf
<1> QED  BY <1>1, <1>2, <1>3 DEF Ordered
=============================================================================
