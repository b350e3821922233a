--------------------------- MODULE BacktestProofs ---------------------------
(***************************************************************************)
(* Theorems about Backtest, for every table, call and stream of batches.   *)
(* What a panel contains is protected by as_of, not by a transaction.      *)
(***************************************************************************)
EXTENDS Backtest, SumTheorems

(* The answers to a query are rows, of days in the window.                 *)
LEMMA AnswerLemma ==
  ASSUME NEW table \in SUBSET Row, NEW s, NEW from, NEW to, NEW known,
         NEW answer \in point_in_time(table, s, from, to, known)
  PROVE  \A d \in DOMAIN answer : answer[d] \in Row
<1>1. \A d \in DOMAIN answer : answer[d] \in Known(table, s, from, to, known)
  BY DEF point_in_time
<1> QED  BY <1>1 DEF Known, FirstRanked, Eligible

(* Every step keeps the types.                                             *)
LEMMA TypeStep ==
  ASSUME TypeOK, [Next]_vars
  PROVE  TypeOK'
<1>1. ASSUME NEW s \in Symbols, Query(s) PROVE TypeOK'
  <2>1. PICK answer \in point_in_time(facts, s, call.start, call.end, call.knownAsOf) :
          frames' = [r \in DOMAIN frames \cup {s} |-> IF r = s THEN answer ELSE frames[r]]
    BY <1>1 DEF Query
  <2>2. \A d \in DOMAIN answer : answer[d] \in Row
    BY AnswerLemma DEF TypeOK
  <2>3. DOMAIN frames' = DOMAIN frames \cup {s}
    BY <2>1
  <2>4. ASSUME NEW r \in DOMAIN frames' PROVE \A d \in DOMAIN frames'[r] : frames'[r][d] \in Row
    <3>1. CASE r = s
      BY <2>1, <2>2, <3>1
    <3>2. CASE r # s
      BY <2>1, <2>3, <3>2 DEF TypeOK
    <3> QED  BY <3>1, <3>2
  <2> QED  BY <1>1, <2>3, <2>4 DEF Query, TypeOK
<1>2. CASE Simulate
  <2>1. equity' = equity \/ DOMAIN equity' \subseteq Days
    BY <1>2 DEF Simulate, EquityCurve, PanelDays
  <2> QED  BY <1>2, <2>1 DEF Simulate, TypeOK
<1>3. ASSUME NEW batch \in Batches, Ingest(batch) PROVE TypeOK'
  BY <1>3, InputsAssumption DEF Ingest, bulk_insert_facts, TypeOK
<1>4. CASE UNCHANGED vars
  BY <1>4 DEF vars, TypeOK
<1> QED  BY <1>1, <1>2, <1>3, <1>4 DEF Next

(* Every variable of a call has its type.                                  *)
THEOREM TypeCorrect == Spec => []TypeOK
<1>1. Init => TypeOK
  BY InputsAssumption DEF Init, TypeOK
<1>2. TypeOK /\ [Next]_vars => TypeOK'
  BY TypeStep
<1> QED  BY <1>1, <1>2, PTL DEF Spec

(* A batch whose rows are known only later changes no answer.              *)
LEMMA PanelStep ==
  ASSUME TypeOK, TypeOK', PanelIsReproducible, [Next]_vars
  PROVE  PanelIsReproducible'
<1> DEFINE answers(table, s) ==
      point_in_time(table, s, call.start, call.end, call.knownAsOf)
<1>0. call' = call /\ atStart' = atStart /\ facts \subseteq facts' /\ atStart \subseteq facts
  BY DEF Next, Query, Simulate, Ingest, bulk_insert_facts, vars, TypeOK
<1> SUFFICES ASSUME \A f \in facts' \ atStart : f.asOf > call.knownAsOf,
                    NEW s \in DOMAIN frames'
             PROVE  frames'[s] \in answers(facts', s)
  BY <1>0 DEF PanelIsReproducible
<1>1. \A r \in DOMAIN frames : frames[r] \in answers(facts, r)
  BY <1>0 DEF PanelIsReproducible
<1>2. ASSUME NEW r \in Symbols, Query(r) PROVE frames'[s] \in answers(facts', s)
  <2>1. PICK answer \in answers(facts, r) :
          frames' = [q \in DOMAIN frames \cup {r} |-> IF q = r THEN answer ELSE frames[q]]
    BY <1>2 DEF Query
  <2>2. facts' = facts
    BY <1>2 DEF Query
  <2> HIDE DEF answers
  <2>3. CASE s = r
    BY <2>1, <2>2, <2>3
  <2>4. CASE s # r
    BY <1>1, <2>1, <2>2, <2>4
  <2> QED  BY <2>3, <2>4
<1>3. ASSUME NEW batch \in Batches, Ingest(batch) PROVE frames'[s] \in answers(facts', s)
  <2>1. facts' = facts \cup batch /\ frames' = frames
    BY <1>3 DEF Ingest, bulk_insert_facts
  <2>2. ASSUME NEW f \in batch \ facts PROVE ~ (f.asOf <= call.knownAsOf)
    <3>1. f \in facts' \ atStart /\ f \in Row
      BY <1>0, <2>1, InputsAssumption
    <3>2. f.asOf \in Nat /\ call.knownAsOf \in Nat
      BY <3>1, InputsAssumption, DaysAssumption DEF Row, IsCall, TypeOK
    <3>3. f.asOf > call.knownAsOf
      BY <3>1
    <3> QED  BY <3>2, <3>3
  <2>3. answers(facts \cup batch, s) = answers(facts, s)
    <3>1. Eligible(facts \cup batch, s, call.start, call.end, call.knownAsOf)
            = Eligible(facts, s, call.start, call.end, call.knownAsOf)
      BY <2>2 DEF Eligible
    <3> QED  BY <3>1 DEF point_in_time, Known
  <2> QED  BY <1>1, <2>1, <2>3
<1>4. CASE Simulate \/ UNCHANGED vars
  BY <1>1, <1>4 DEF Simulate, vars
<1> QED  BY <1>2, <1>3, <1>4 DEF Next

(* However ingestion interleaves with the queries, each of which is a      *)
(* transaction of its own, and however often the panel is loaded again, it *)
(* is the same, unless rows known by known_as_of come late.                *)
THEOREM PanelTheorem == Spec => []PanelIsReproducible
<1>1. Init => PanelIsReproducible
  BY DEF Init, PanelIsReproducible
<1>2. TypeOK /\ TypeOK' /\ PanelIsReproducible /\ [Next]_vars => PanelIsReproducible'
  BY PanelStep
<1> QED  BY <1>1, <1>2, TypeCorrect, PTL DEF Spec

----------------------------------------------------------------------------
(* Books, as a recursion over the days: the book of a day comes from that  *)
(* of the day before.                                                      *)
PriceOn(views, d) == [s \in Columns(views) |-> views[s][d].value]
Nothing(views) == [shares |-> [s \in Columns(views) |-> 0], cash |-> 0]
Worth(book, d, views) ==
  IF \E e \in PanelDays(views) : e < d
    THEN Value(book.shares, PriceOn(views, d)) + book.cash
    ELSE InitialCash
After(book, d, views, weights) ==
  IF d \notin RebalanceDays(PanelDays(views)) THEN book
  ELSE Rebalanced(Worth(book, d, views), weights, PriceOn(views, d))
BooksUpTo(n, book, views, weights) ==
  [d \in 0 .. n |-> IF d = 0 THEN Nothing(views) ELSE After(book[d - 1], d, views, weights)]

(* Books is the function this recursion defines.                           *)
LEMMA BooksIsFcn ==
  ASSUME NEW views, NEW weights
  PROVE  Books(views, weights) = CHOOSE b : b = BooksUpTo(MaxDay, b, views, weights)
BY DEF Books, BooksUpTo, Nothing, After, Worth, PriceOn

(* There is such a function for every number of days.                      *)
LEMMA BooksExist ==
  ASSUME NEW views, NEW weights, NEW n \in Nat
  PROVE  \E b : b = BooksUpTo(n, b, views, weights)
<1> DEFINE B == {k \in Nat : ~ \E b : b = BooksUpTo(k, b, views, weights)}
<1> SUFFICES ASSUME B # {} PROVE FALSE
  OBVIOUS
<1>1. PICK k \in B : \A t \in B : k <= t
  <2>1. B \in SUBSET Nat
    OBVIOUS
  <2> HIDE DEF B
  <2> QED  BY <2>1, SmallestNat
<1>2. k # 0
  <2> SUFFICES ASSUME k = 0 PROVE FALSE
    OBVIOUS
  <2> DEFINE b == [d \in 0 .. 0 |-> Nothing(views)]
  <2>1. b = BooksUpTo(0, b, views, weights)
    BY DEF BooksUpTo
  <2> QED  BY <2>1
<1>3. k \in Nat /\ k - 1 \in Nat /\ k - 1 \notin B
  BY <1>1, <1>2
<1>4. PICK b : b = BooksUpTo(k - 1, b, views, weights)
  BY <1>3
<1> DEFINE next == [d \in 0 .. k |-> IF d = k THEN After(b[k - 1], k, views, weights)
                                     ELSE b[d]]
<1>5. \A d \in 0 .. k - 1 : next[d] = b[d]
  BY <1>3
<1>6. ASSUME NEW d \in 0 .. k
      PROVE  next[d] = IF d = 0 THEN Nothing(views) ELSE After(next[d - 1], d, views, weights)
  <2>1. CASE d = k
    <3>1. k - 1 \in 0 .. k - 1 /\ next[k] = After(b[k - 1], k, views, weights)
      BY <1>3
    <3> HIDE DEF next
    <3> QED  BY <1>2, <1>5, <2>1, <3>1
  <2>2. CASE d # k
    <3>1. d \in 0 .. k - 1 /\ (d # 0 => d - 1 \in 0 .. k - 1)
      BY <1>3, <2>2
    <3>2. BooksUpTo(k - 1, b, views, weights)[d]
            = IF d = 0 THEN Nothing(views) ELSE After(b[d - 1], d, views, weights)
      BY <3>1 DEF BooksUpTo
    <3> HIDE DEF next
    <3> QED  BY <1>4, <1>5, <3>1, <3>2
  <2> QED  BY <2>1, <2>2
<1>7. next = BooksUpTo(k, next, views, weights)
  <2>1. next = [d \in 0 .. k |-> next[d]]
    OBVIOUS
  <2> HIDE DEF next
  <2> QED  BY <1>6, <2>1 DEF BooksUpTo
<1> QED  BY <1>7

(* The recursion equation of Books.                                        *)
LEMMA BooksEquation ==
  ASSUME NEW views, NEW weights, NEW d \in 0 .. MaxDay
  PROVE  Books(views, weights)[d]
           = IF d = 0 THEN Nothing(views)
             ELSE After(Books(views, weights)[d - 1], d, views, weights)
<1> DEFINE book == Books(views, weights)
<1>1. book = BooksUpTo(MaxDay, book, views, weights)
  BY BooksIsFcn, BooksExist, DaysAssumption
<1>2. BooksUpTo(MaxDay, book, views, weights)[d]
        = IF d = 0 THEN Nothing(views) ELSE After(book[d - 1], d, views, weights)
  BY DEF BooksUpTo
<1> HIDE DEF book
<1> QED  BY <1>1, <1>2 DEF book

----------------------------------------------------------------------------
(* Two panels that have the same prices up to day d, a day of both.        *)
SameUpTo(f, g, d) ==
  /\ DOMAIN f = DOMAIN g
  /\ \A s \in DOMAIN f : \A e \in 1 .. d :
       /\ e \in DOMAIN f[s] <=> e \in DOMAIN g[s]
       /\ e \in DOMAIN f[s] => f[s][e].value = g[s][e].value
Meet(f, g, d) ==
  /\ d \in PanelDays(f) /\ d \in PanelDays(g)
  /\ SameUpTo(f, g, d)

(* They have the same columns: each has a price on day d.                  *)
LEMMA SameColumns ==
  ASSUME NEW f, NEW g, NEW d \in Days, Meet(f, g, d)
  PROVE  Columns(f) = Columns(g)
<1>1. d \in 1 .. d
  BY DaysAssumption DEF Days
<1>2. \A s \in DOMAIN f : d \in DOMAIN f[s] <=> d \in DOMAIN g[s]
  BY <1>1 DEF Meet, SameUpTo
<1>3. \A s \in Columns(f) : d \in DOMAIN f[s]
  BY DEF Meet, PanelDays
<1>4. \A s \in Columns(g) : d \in DOMAIN g[s]
  BY DEF Meet, PanelDays
<1> QED  BY <1>2, <1>3, <1>4 DEF Meet, SameUpTo, Columns

(* They have the same days up to d, and the same prices on them.           *)
LEMMA SameDays ==
  ASSUME NEW f, NEW g, NEW d \in Days, Meet(f, g, d), NEW e \in 1 .. d
  PROVE  /\ e \in PanelDays(f) <=> e \in PanelDays(g)
         /\ e \in PanelDays(f) => PriceOn(f, e) = PriceOn(g, e)
<1>1. Columns(f) = Columns(g)
  BY SameColumns
<1>2. \A s \in Columns(f) : /\ e \in DOMAIN f[s] <=> e \in DOMAIN g[s]
                            /\ e \in DOMAIN f[s] => f[s][e].value = g[s][e].value
  BY DEF Meet, SameUpTo, Columns
<1>3. e \in PanelDays(f) <=> e \in PanelDays(g)
  BY <1>1, <1>2 DEF PanelDays
<1>4. ASSUME e \in PanelDays(f) PROVE PriceOn(f, e) = PriceOn(g, e)
  <2>1. \A s \in Columns(f) : e \in DOMAIN f[s]
    BY <1>4 DEF PanelDays
  <2> QED  BY <1>1, <1>2, <2>1 DEF PriceOn
<1> QED  BY <1>3, <1>4

(* They are rebalanced on the same days up to d.                           *)
LEMMA SameRebalances ==
  ASSUME NEW f, NEW g, NEW d \in Days, Meet(f, g, d), NEW e \in 1 .. d
  PROVE  /\ e \in RebalanceDays(PanelDays(f)) <=> e \in RebalanceDays(PanelDays(g))
         /\ (\E x \in PanelDays(f) : x < e) <=> (\E x \in PanelDays(g) : x < e)
<1>1. \A x \in 1 .. d : x \in PanelDays(f) <=> x \in PanelDays(g)
  BY SameDays
<1>2. d \in Int /\ e \in Int /\ e <= d
  BY DEF Days
<1>3. \A x \in PanelDays(f) \cup PanelDays(g) : x \in Int /\ 1 <= x
  BY DEF PanelDays, Days
<1>4. ASSUME NEW x, x < e
      PROVE  x \in PanelDays(f) <=> x \in PanelDays(g)
  <2>1. x \in PanelDays(f) \cup PanelDays(g) => x \in 1 .. d
    BY <1>2, <1>3, <1>4
  <2> QED  BY <1>1, <2>1
<1>5. ASSUME NEW P, NEW Q, \A x \in P \cup Q : x \in Int,
             e \in P <=> e \in Q, \A x : x < e => (x \in P <=> x \in Q),
             e \in RebalanceDays(P)
      PROVE  e \in RebalanceDays(Q)
  <2>1. e \in Q /\ \A x \in P : MonthOf[x] = MonthOf[e] => e <= x
    BY <1>5 DEF RebalanceDays
  <2>2. ASSUME NEW x \in Q, MonthOf[x] = MonthOf[e] PROVE e <= x
    <3> SUFFICES ASSUME x < e PROVE FALSE
      BY <1>2, <1>5
    <3>1. x \in P
      BY <1>5
    <3> QED  BY <1>2, <1>5, <2>1, <2>2, <3>1
  <2> QED  BY <2>1, <2>2 DEF RebalanceDays
<1>6. e \in RebalanceDays(PanelDays(f)) <=> e \in RebalanceDays(PanelDays(g))
  BY <1>1, <1>3, <1>4, <1>5
<1> QED  BY <1>4, <1>6

(* So they have the same books up to d.                                    *)
LEMMA SameBooks ==
  ASSUME NEW f, NEW g, NEW weights, NEW d \in Days, Meet(f, g, d)
  PROVE  \A e \in 0 .. d : Books(f, weights)[e] = Books(g, weights)[e]
<1> DEFINE B == {e \in 0 .. d : Books(f, weights)[e] # Books(g, weights)[e]}
<1> SUFFICES ASSUME B # {} PROVE FALSE
  OBVIOUS
<1>1. d \in Nat /\ 0 .. d \subseteq Nat /\ \A e \in 0 .. d : e \in 0 .. MaxDay
  BY DaysAssumption DEF Days
<1>2. PICK e \in B : \A t \in B : e <= t
  <2>1. B \in SUBSET Nat
    BY <1>1
  <2> HIDE DEF B
  <2> QED  BY <2>1, SmallestNat
<1>3. e \in 0 .. d /\ e \in 0 .. MaxDay /\ Books(f, weights)[e] # Books(g, weights)[e]
  BY <1>1
<1>4. Columns(f) = Columns(g)
  BY SameColumns
<1>5. e # 0
  BY <1>3, <1>4, BooksEquation DEF Nothing
<1>6. e \in 1 .. d /\ e - 1 \in 0 .. d /\ e - 1 \notin B
  BY <1>1, <1>2, <1>3, <1>5
<1> DEFINE last == Books(f, weights)[e - 1]
<1>7. last = Books(g, weights)[e - 1]
  BY <1>6
<1>8. /\ Books(f, weights)[e] = After(last, e, f, weights)
      /\ Books(g, weights)[e] = After(last, e, g, weights)
  BY <1>3, <1>5, <1>7, BooksEquation
<1> HIDE DEF B, last
<1>9. CASE e \notin RebalanceDays(PanelDays(f))
  <2>1. e \notin RebalanceDays(PanelDays(g))
    BY <1>6, <1>9, SameRebalances
  <2> QED  BY <1>3, <1>8, <1>9, <2>1 DEF After
<1>10. CASE e \in RebalanceDays(PanelDays(f))
  <2>1. e \in RebalanceDays(PanelDays(g)) /\ e \in PanelDays(f)
    BY <1>6, <1>10, SameRebalances DEF RebalanceDays
  <2>2. PriceOn(f, e) = PriceOn(g, e)
    BY <1>6, <2>1, SameDays
  <2>3. Worth(last, e, f) = Worth(last, e, g)
    BY <1>6, <2>2, SameRebalances DEF Worth
  <2> QED  BY <1>3, <1>8, <1>10, <2>1, <2>2, <2>3 DEF After
<1> QED  BY <1>9, <1>10

(* And the same equity on day d.                                           *)
LEMMA SameEquity ==
  ASSUME NEW f, NEW g, NEW weights, NEW d \in Days, Meet(f, g, d)
  PROVE  EquityCurve(f, weights)[d] = EquityCurve(g, weights)[d]
<1>1. d \in 0 .. d /\ d \in 1 .. d
  BY DEF Days
<1>2. Books(f, weights)[d] = Books(g, weights)[d]
  BY <1>1, SameBooks
<1>3. PriceOn(f, d) = PriceOn(g, d)
  BY <1>1, SameDays DEF Meet
<1>4. ASSUME NEW h, d \in PanelDays(h)
      PROVE  EquityCurve(h, weights)[d]
               = Value(Books(h, weights)[d].shares, PriceOn(h, d)) + Books(h, weights)[d].cash
  BY <1>4 DEF EquityCurve, PriceOn
<1> QED  BY <1>2, <1>3, <1>4 DEF Meet

----------------------------------------------------------------------------
(* A query has an answer, and each is of days in the window.               *)
LEMMA AnswerWindow ==
  ASSUME NEW table \in SUBSET Row, NEW s, NEW from, NEW to, NEW known,
         NEW answer \in point_in_time(table, s, from, to, known)
  PROVE  \A d \in DOMAIN answer : d \in Days /\ from <= d
<1>1. ASSUME NEW d \in DOMAIN answer PROVE d \in Days /\ from <= d
  <2>1. answer[d] \in Known(table, s, from, to, known) /\ answer[d].validFrom = d
    BY DEF point_in_time
  <2>2. answer[d] \in Row /\ from <= answer[d].validFrom
    BY <2>1 DEF Known, FirstRanked, Eligible
  <2> QED  BY <2>1, <2>2 DEF Row
<1> QED  BY <1>1

(* Every query has an answer.                                              *)
LEMMA AnswerExists ==
  ASSUME NEW table, NEW s, NEW from, NEW to, NEW known
  PROVE  point_in_time(table, s, from, to, known) # {}
<1> DEFINE first == Known(table, s, from, to, known)
           answer == [p \in {f.validFrom : f \in first} |->
                        CHOOSE f \in first : f.validFrom = p]
<1>1. \A p \in DOMAIN answer : answer[p] \in first /\ answer[p].validFrom = p
  <2> TAKE p \in DOMAIN answer
  <2>1. \E f \in first : f.validFrom = p
    OBVIOUS
  <2> HIDE DEF first
  <2> QED  BY <2>1
<1>2. answer \in [{f.validFrom : f \in first} -> first]
  BY <1>1
<1> HIDE DEF first
<1> QED  BY <1>1, <1>2 DEF point_in_time, first

(* What is shown is the curve of the panel, whose days are in the window.  *)
CurveInv ==
  /\ TypeOK
  /\ \A s \in DOMAIN frames : \A d \in DOMAIN frames[s] : d \in Days /\ call.start <= d
  /\ pc = "done" => /\ DOMAIN frames = DOMAIN call.weights
                    /\ equity = EquityCurve(frames, call.weights)

(* Every step keeps CurveInv.                                              *)
LEMMA CurveStep ==
  ASSUME CurveInv, TypeOK', [Next]_vars
  PROVE  CurveInv'
<1>1. ASSUME NEW r \in Symbols, Query(r) PROVE CurveInv'
  <2>1. PICK answer \in point_in_time(facts, r, call.start, call.end, call.knownAsOf) :
          frames' = [q \in DOMAIN frames \cup {r} |-> IF q = r THEN answer ELSE frames[q]]
    BY <1>1 DEF Query
  <2>2. \A d \in DOMAIN answer : d \in Days /\ call.start <= d
    BY AnswerWindow DEF CurveInv, TypeOK
  <2>3. call' = call /\ pc' # "done"
    BY <1>1 DEF Query
  <2>4. ASSUME NEW s \in DOMAIN frames', NEW d \in DOMAIN frames'[s]
        PROVE  d \in Days /\ call.start <= d
    <3>1. CASE s = r
      BY <2>1, <2>2, <2>4, <3>1
    <3>2. CASE s # r
      BY <2>1, <2>4, <3>2 DEF CurveInv
    <3> QED  BY <3>1, <3>2
  <2> QED  BY <2>3, <2>4 DEF CurveInv
<1>2. CASE Simulate
  <2>1. frames' = frames /\ call' = call
    BY <1>2 DEF Simulate
  <2>2. pc' = "done" => /\ DOMAIN frames = DOMAIN call.weights
                        /\ equity' = EquityCurve(frames, call.weights)
    BY <1>2 DEF Simulate
  <2> QED  BY <2>1, <2>2 DEF CurveInv
<1>3. ASSUME NEW batch \in Batches, Ingest(batch) PROVE CurveInv'
  BY <1>3 DEF Ingest, CurveInv
<1>4. CASE UNCHANGED vars
  BY <1>4 DEF vars, CurveInv
<1> QED  BY <1>1, <1>2, <1>3, <1>4 DEF Next

(* It holds of every behaviour.                                            *)
LEMMA CurveHolds == Spec => []CurveInv
<1>1. Init => CurveInv
  BY InputsAssumption DEF Init, CurveInv, TypeOK
<1>2. CurveInv /\ TypeOK' /\ [Next]_vars => CurveInv'
  BY CurveStep
<1> QED  BY <1>1, <1>2, TypeCorrect, PTL DEF Spec

(* No price of a later day has a say in what a backtest shows of a day:    *)
(* for every table, call and month structure, the curve of another call    *)
(* that sees the same prices up to the day agrees with it there.           *)
THEOREM CurvesTheorem == Spec => []CurvesAgree
<1>1. CurveInv => CurvesAgree
  <2> SUFFICES ASSUME CurveInv, pc = "done", NEW end \in Days, NEW known \in Moments
      PROVE
        LET views == [s \in DOMAIN call.weights |->
                        CHOOSE answer \in point_in_time(facts, s, call.start, end, known) : TRUE]
            SameUntil(d) ==
              \A s \in DOMAIN frames, e \in call.start .. d :
                /\ e \in DOMAIN frames[s] <=> e \in DOMAIN views[s]
                /\ e \in DOMAIN frames[s] => frames[s][e].value = views[s][e].value
        IN  Columns(views) # {} =>
              \A d \in DOMAIN equity \cap PanelDays(views) :
                SameUntil(d) => EquityCurve(views, call.weights)[d] = equity[d]
    BY DEF CurvesAgree
  <2> DEFINE views == [s \in DOMAIN call.weights |->
                         CHOOSE answer \in point_in_time(facts, s, call.start, end, known) : TRUE]
  <2>1. /\ DOMAIN frames = DOMAIN call.weights
        /\ equity = EquityCurve(frames, call.weights)
        /\ DOMAIN views = DOMAIN call.weights
        /\ call.start \in Days /\ facts \subseteq Row
    BY InputsAssumption DEF CurveInv, TypeOK, IsCall
  <2>2. \A s \in DOMAIN views : \A d \in DOMAIN views[s] : d \in Days /\ call.start <= d
    <3> TAKE s \in DOMAIN views
    <3>1. views[s] \in point_in_time(facts, s, call.start, end, known)
      BY AnswerExists
    <3> HIDE DEF views
    <3> QED  BY <2>1, <3>1, AnswerWindow
  <2>3. \A s \in DOMAIN frames : \A d \in DOMAIN frames[s] : d \in Days /\ call.start <= d
    BY DEF CurveInv
  <2> HIDE DEF views
  <2>4. ASSUME NEW d \in DOMAIN equity \cap PanelDays(views),
               \A s \in DOMAIN frames, e \in call.start .. d :
                 /\ e \in DOMAIN frames[s] <=> e \in DOMAIN views[s]
                 /\ e \in DOMAIN frames[s] => frames[s][e].value = views[s][e].value
        PROVE  EquityCurve(views, call.weights)[d] = equity[d]
    <3>1. d \in PanelDays(frames) /\ d \in PanelDays(views) /\ d \in Days
      BY <2>1 DEF EquityCurve, PanelDays
    <3>2. ASSUME NEW s \in DOMAIN frames, NEW e \in 1 .. d
          PROVE  /\ e \in DOMAIN frames[s] <=> e \in DOMAIN views[s]
                 /\ e \in DOMAIN frames[s] => frames[s][e].value = views[s][e].value
      <4>1. CASE e \in call.start .. d
        BY <2>4, <4>1
      <4>2. CASE e \notin call.start .. d
        <5>1. ~ (call.start <= e)
          BY <2>1, <4>2, <3>1 DEF Days
        <5> QED  BY <2>1, <2>2, <2>3, <5>1
      <4> QED  BY <4>1, <4>2
    <3>3. Meet(views, frames, d)
      BY <2>1, <3>1, <3>2 DEF Meet, SameUpTo
    <3> QED  BY <2>1, <3>1, <3>3, SameEquity
  <2> QED  BY <2>4 DEF views
<1> QED  BY <1>1, CurveHolds, PTL

----------------------------------------------------------------------------
(* The bookkeeping of a simulation, over a panel f and weights.            *)
IsPanel(f, weights) ==
  /\ IsFiniteSet(DOMAIN f) /\ weights \in [DOMAIN f -> Nat]
  /\ \A s \in DOMAIN f : \A d \in DOMAIN f[s] : f[s][d] \in Row
IsBook(book, f) == book.shares \in [Columns(f) -> Int] /\ book.cash \in Int

(* The columns of a panel are finitely many, and each has a weight.        *)
LEMMA ColumnsAreFinite ==
  ASSUME NEW f, NEW weights, IsPanel(f, weights)
  PROVE  IsFiniteSet(Columns(f)) /\ \A s \in Columns(f) : weights[s] \in Nat
BY FS_Subset DEF IsPanel, Columns

(* On a day of the panel every column has a price, and it is positive.     *)
LEMMA PriceType ==
  ASSUME NEW f, NEW weights, IsPanel(f, weights), NEW d \in PanelDays(f)
  PROVE  PriceOn(f, d) \in [Columns(f) -> Nat \ {0}]
<1>1. ASSUME NEW s \in Columns(f) PROVE f[s][d].value \in Nat \ {0}
  <2>1. f[s][d] \in Row /\ f[s][d].value # NoPrice
    BY DEF IsPanel, PanelDays, Columns
  <2> QED  BY <2>1, PricesAssumption DEF Row
<1> QED  BY <1>1 DEF PriceOn

(* What some shares are worth is a sum.                                    *)
ValueOf(shares, price) == [s \in DOMAIN shares |-> shares[s] * price[s]]
LEMMA ValueIsSum ==
  ASSUME NEW shares, NEW price
  PROVE  Value(shares, price) = SumFunctionOnSet(ValueOf(shares, price), DOMAIN shares)
<1> DEFINE S == DOMAIN shares
           f == ValueOf(shares, price)
           Raw(g) == [s \in SUBSET S |->
                        IF s = {} THEN 0
                        ELSE LET x == CHOOSE x \in s : TRUE
                             IN  shares[x] * price[x] + g[s \ {x}]]
           iter == CHOOSE g : g = Raw(g)
<1>1. Value(shares, price) = iter[S]
  BY DEF Value, MapThenSumSet, MapThenFoldSet
<1>2. ASSUME NEW g PROVE Raw(g) = SumRec(f, g, S)
  <2>1. \A s \in SUBSET S : s # {} =>
          f[CHOOSE x \in s : TRUE]
            = shares[CHOOSE x \in s : TRUE] * price[CHOOSE x \in s : TRUE]
    BY DEF ValueOf
  <2> HIDE DEF f, S
  <2> QED  BY <2>1 DEF SumRec
<1> HIDE DEF Raw
<1>3. iter = SumFcn(f, S)
  BY <1>2 DEF SumFcn
<1> QED  BY <1>1, <1>3, SumIsFcn

(* It is an integer.                                                       *)
LEMMA ValueType ==
  ASSUME NEW S, IsFiniteSet(S), NEW shares \in [S -> Int], NEW price \in [S -> Int]
  PROVE  Value(shares, price) \in Int
<1>1. DOMAIN shares = S /\ \A s \in S : ValueOf(shares, price)[s] \in Int
  BY DEF ValueOf
<1> QED  BY <1>1, SumType, ValueIsSum

(* A rebalance neither makes nor loses money, whatever the division leaves *)
(* over.                                                                   *)
LEMMA RebalanceKeepsWorth ==
  ASSUME NEW S, IsFiniteSet(S), NEW worth \in Int, NEW weights, NEW price \in [S -> Nat \ {0}],
         \A s \in S : weights[s] \in Nat
  PROVE  LET book == Rebalanced(worth, weights, price)
         IN  /\ book.shares \in [S -> Int] /\ book.cash \in Int
             /\ book.shares = [s \in S |-> (weights[s] * worth) \div (Whole * price[s])]
             /\ book.cash = worth - Value(book.shares, price)
             /\ Value(book.shares, price) + book.cash = worth
<1> DEFINE shares == [s \in S |-> (weights[s] * worth) \div (Whole * price[s])]
           book == Rebalanced(worth, weights, price)
<1>1. \A s \in S : (weights[s] * worth) \div (Whole * price[s]) \in Int
  <2> TAKE s \in S
  <2>1. Whole \in Nat \ {0} /\ price[s] \in Nat \ {0} /\ weights[s] * worth \in Int
    BY PricesAssumption
  <2>2. Whole * price[s] \in Nat \ {0}
    BY <2>1
  <2> QED  BY <2>1, <2>2
<1>2. shares \in [S -> Int]
  BY <1>1
<1>3. book.shares = shares /\ book.cash = worth - Value(shares, price)
  BY DEF Rebalanced
<1> HIDE DEF shares
<1>4. Value(shares, price) \in Int
  BY <1>2, ValueType
<1> HIDE DEF book
<1>5. book.cash \in Int /\ Value(shares, price) + book.cash = worth
  BY <1>3, <1>4
<1> QED  BY <1>2, <1>3, <1>5 DEF shares, book

(* What a book is worth on a day of the panel is an integer.               *)
LEMMA WorthType ==
  ASSUME NEW f, NEW weights, IsPanel(f, weights), NEW book, IsBook(book, f),
         NEW d \in PanelDays(f)
  PROVE  Worth(book, d, f) \in Int
<1>1. Value(book.shares, PriceOn(f, d)) \in Int
  <2>1. PriceOn(f, d) \in [Columns(f) -> Int]
    BY PriceType
  <2> QED  BY <2>1, ColumnsAreFinite, ValueType DEF IsBook
<1> QED  BY <1>1, PricesAssumption DEF Worth, IsBook

(* What a rebalance leaves is worth what it found.                         *)
Bought(f, weights, worth, m) ==
  [s \in Columns(f) |-> (weights[s] * worth) \div (Whole * PriceOn(f, m)[s])]
LEMMA AfterRebalance ==
  ASSUME NEW f, NEW weights, IsPanel(f, weights), NEW book, IsBook(book, f),
         NEW d \in RebalanceDays(PanelDays(f))
  PROVE  LET new == After(book, d, f, weights)
             worth == Worth(book, d, f)
         IN  /\ IsBook(new, f)
             /\ new.shares = Bought(f, weights, worth, d)
             /\ new.cash = worth - Value(new.shares, PriceOn(f, d))
             /\ Value(new.shares, PriceOn(f, d)) + new.cash = worth
<1> DEFINE new == After(book, d, f, weights)
           worth == Worth(book, d, f)
<1>1. d \in PanelDays(f)
  BY DEF RebalanceDays
<1>2. /\ worth \in Int /\ PriceOn(f, d) \in [Columns(f) -> Nat \ {0}]
      /\ IsFiniteSet(Columns(f)) /\ \A s \in Columns(f) : weights[s] \in Nat
  BY <1>1, WorthType, PriceType, ColumnsAreFinite
<1>3. new = Rebalanced(worth, weights, PriceOn(f, d))
  BY DEF After
<1> HIDE DEF new, worth
<1> QED  BY <1>2, <1>3, RebalanceKeepsWorth DEF IsBook, Bought, new, worth

(* On any day a book becomes a book.                                       *)
LEMMA AfterType ==
  ASSUME NEW f, NEW weights, IsPanel(f, weights), NEW book, IsBook(book, f), NEW d
  PROVE  IsBook(After(book, d, f, weights), f)
BY AfterRebalance DEF After

(* So the books are books.                                                 *)
LEMMA BooksType ==
  ASSUME NEW f, NEW weights, IsPanel(f, weights)
  PROVE  \A d \in 0 .. MaxDay : IsBook(Books(f, weights)[d], f)
<1> DEFINE B == {d \in 0 .. MaxDay : ~ IsBook(Books(f, weights)[d], f)}
<1> SUFFICES ASSUME B # {} PROVE FALSE
  OBVIOUS
<1>1. PICK d \in B : \A t \in B : d <= t
  <2>1. B \in SUBSET Nat
    BY DaysAssumption
  <2> HIDE DEF B
  <2> QED  BY <2>1, SmallestNat
<1>2. d \in 0 .. MaxDay /\ ~ IsBook(Books(f, weights)[d], f)
  OBVIOUS
<1>3. d # 0
  <2>1. IsBook(Nothing(f), f)
    BY DEF Nothing, IsBook
  <2> QED  BY <1>2, <2>1, BooksEquation
<1>4. d - 1 \in 0 .. MaxDay /\ d - 1 \notin B
  <2>1. d - 1 \in 0 .. MaxDay
    BY <1>2, <1>3, DaysAssumption
  <2> HIDE DEF B
  <2> QED  BY <1>1, <1>2, <2>1
<1>5. IsBook(Books(f, weights)[d - 1], f)
  BY <1>4
<1> HIDE DEF B
<1>6. Books(f, weights)[d] = After(Books(f, weights)[d - 1], d, f, weights)
  BY <1>2, <1>3, BooksEquation
<1> QED  BY <1>2, <1>5, <1>6, AfterType

(* What the curve shows of a day is what the book of the day before is     *)
(* worth then: the first day of the panel is a rebalance, the deposit.     *)
LEMMA EquityIsWorth ==
  ASSUME NEW f, NEW weights, IsPanel(f, weights), NEW d \in PanelDays(f)
  PROVE  /\ EquityCurve(f, weights)[d] = Worth(Books(f, weights)[d - 1], d, f)
         /\ EquityCurve(f, weights)[d] \in Int
<1> DEFINE last == Books(f, weights)[d - 1]
           book == Books(f, weights)[d]
<1>1. d \in 0 .. MaxDay /\ d - 1 \in 0 .. MaxDay /\ d # 0
  BY DaysAssumption DEF PanelDays, Days
<1>2. book = After(last, d, f, weights)
  BY <1>1, BooksEquation
<1>3. EquityCurve(f, weights)[d] = Value(book.shares, PriceOn(f, d)) + book.cash
  BY DEF EquityCurve, PriceOn
<1>4. IsBook(last, f)
  BY <1>1, BooksType
<1> HIDE DEF last, book
<1>5. CASE d \in RebalanceDays(PanelDays(f))
  <2>1. Value(book.shares, PriceOn(f, d)) + book.cash = Worth(last, d, f)
    BY <1>2, <1>4, <1>5, AfterRebalance
  <2> QED  BY <1>3, <1>4, <2>1, WorthType DEF last
<1>6. CASE d \notin RebalanceDays(PanelDays(f))
  <2>1. PICK e \in PanelDays(f) : ~ (d <= e)
    BY <1>6 DEF RebalanceDays
  <2>2. e < d
    BY <2>1 DEF PanelDays, Days
  <2>3. book = last
    BY <1>2, <1>6 DEF After
  <2> QED  BY <1>3, <1>4, <2>2, <2>3, WorthType DEF Worth, last
<1> QED  BY <1>5, <1>6

(* Between rebalances nothing is traded.                                   *)
NoneBetween(f, m, d) == \A r \in RebalanceDays(PanelDays(f)) : ~ (m < r /\ r < d)
LEMMA HeldSince ==
  ASSUME NEW f, NEW weights, NEW m \in Days, NEW d \in Days, m < d, NoneBetween(f, m, d)
  PROVE  Books(f, weights)[d - 1] = Books(f, weights)[m]
<1> DEFINE B == {e \in m .. d - 1 : Books(f, weights)[e] # Books(f, weights)[m]}
<1>1. /\ m \in Nat /\ d \in Nat /\ d - 1 \in m .. d - 1 /\ m > 0
      /\ \A e \in m .. d - 1 : e \in 0 .. MaxDay /\ e \in Nat
  BY DaysAssumption DEF Days
<1> SUFFICES ASSUME B # {} PROVE FALSE
  BY <1>1
<1>2. PICK e \in B : \A t \in B : e <= t
  <2>1. B \in SUBSET Nat
    BY <1>1
  <2> HIDE DEF B
  <2> QED  BY <2>1, SmallestNat
<1>3. e \in m .. d - 1 /\ e # m /\ Books(f, weights)[e] # Books(f, weights)[m]
  OBVIOUS
<1>4. e - 1 \in m .. d - 1 /\ e - 1 \notin B
  BY <1>1, <1>2, <1>3
<1>5. Books(f, weights)[e - 1] = Books(f, weights)[m]
  BY <1>4
<1> HIDE DEF B
<1>6. e \in 0 .. MaxDay /\ e # 0 /\ m < e /\ e < d
  BY <1>1, <1>3
<1>7. e \notin RebalanceDays(PanelDays(f))
  BY <1>6 DEF NoneBetween
<1>8. Books(f, weights)[e] = Books(f, weights)[e - 1]
  BY <1>6, <1>7, BooksEquation DEF After
<1> QED  BY <1>3, <1>5, <1>8

(* Since the last rebalance, the equity has moved by what the shares       *)
(* bought then have moved, and by nothing else.                            *)
LEMMA EquityMoves ==
  ASSUME NEW f, NEW weights, IsPanel(f, weights), NEW m \in RebalanceDays(PanelDays(f)),
         NEW d \in PanelDays(f), m < d, NoneBetween(f, m, d)
  PROVE  LET shares == Bought(f, weights, EquityCurve(f, weights)[m], m)
         IN  /\ shares \in [Columns(f) -> Int]
             /\ EquityCurve(f, weights)[d]
                  = EquityCurve(f, weights)[m]
                    + (Value(shares, PriceOn(f, d)) - Value(shares, PriceOn(f, m)))
<1> DEFINE worth == EquityCurve(f, weights)[m]
           shares == Bought(f, weights, worth, m)
           book == Books(f, weights)[m]
<1>1. m \in PanelDays(f) /\ m \in Days /\ d \in Days
  BY DEF RebalanceDays, PanelDays
<1>2. m \in 0 .. MaxDay /\ m - 1 \in 0 .. MaxDay /\ m # 0
  BY <1>1, DaysAssumption DEF Days
<1>3. worth = Worth(Books(f, weights)[m - 1], m, f) /\ worth \in Int
  BY <1>1, EquityIsWorth
<1>4. book = After(Books(f, weights)[m - 1], m, f, weights)
  BY <1>2, BooksEquation
<1>5. IsBook(Books(f, weights)[m - 1], f) /\ IsBook(book, f)
  BY <1>2, BooksType
<1>6. book.shares = shares /\ book.cash = worth - Value(shares, PriceOn(f, m))
  BY <1>3, <1>4, <1>5, AfterRebalance
<1>7. EquityCurve(f, weights)[d] = Value(book.shares, PriceOn(f, d)) + book.cash
  <2>1. Books(f, weights)[d - 1] = book
    BY <1>1, HeldSince
  <2>2. EquityCurve(f, weights)[d] = Worth(book, d, f)
    BY <2>1, EquityIsWorth
  <2> HIDE DEF book
  <2> QED  BY <1>1, <2>2 DEF Worth
<1> HIDE DEF book, shares, worth
<1>8. shares \in [Columns(f) -> Int]
  BY <1>5, <1>6 DEF IsBook
<1>9. Value(shares, PriceOn(f, d)) \in Int /\ Value(shares, PriceOn(f, m)) \in Int
  <2>1. PriceOn(f, d) \in [Columns(f) -> Int] /\ PriceOn(f, m) \in [Columns(f) -> Int]
    BY <1>1, PriceType
  <2> QED  BY <1>8, <2>1, ColumnsAreFinite, ValueType
<1>10. EquityCurve(f, weights)[d]
         = worth + (Value(shares, PriceOn(f, d)) - Value(shares, PriceOn(f, m)))
  BY <1>3, <1>6, <1>7, <1>9
<1> QED  BY <1>8, <1>10 DEF shares, worth

----------------------------------------------------------------------------
(* The operators of WealthIsExact, as sums and products over the columns.  *)
LEMMA BaseIsProduct ==
  ASSUME NEW f, NEW m
  PROVE  Base(f, m) = ProductFcn(PriceOn(f, m), Columns(f))[Columns(f)]
<1> DEFINE S == Columns(f)
           price == PriceOn(f, m)
           Raw(g) == [s \in SUBSET S |->
                        IF s = {} THEN 1
                        ELSE LET x == CHOOSE x \in s : TRUE
                             IN  g[s \ {x}] * f[x][m].value]
           iter == CHOOSE g : g = Raw(g)
<1>1. Base(f, m) = iter[S]
  BY DEF Base, FoldSet, MapThenFoldSet
<1>2. ASSUME NEW g PROVE Raw(g) = ProductRec(price, g, S)
  <2>1. \A s \in SUBSET S : s # {} =>
          price[CHOOSE x \in s : TRUE] = f[CHOOSE x \in s : TRUE][m].value
    BY DEF PriceOn
  <2> HIDE DEF price, S
  <2> QED  BY <2>1 DEF ProductRec
<1> HIDE DEF Raw
<1>3. iter = ProductFcn(price, S)
  BY <1>2 DEF ProductFcn
<1> QED  BY <1>1, <1>3

Invested(f, weights) == [s \in Columns(f) |-> weights[s]]
Grown(f, weights, m, d) ==
  [s \in Columns(f) |-> (weights[s] * f[s][d].value * Base(f, m)) \div f[s][m].value]

(* The weight that columns hold is a sum.                                  *)
LEMMA InvestedIsSum ==
  ASSUME NEW f, NEW weights
  PROVE  MapThenSumSet(LAMBDA s : weights[s], Columns(f))
           = SumFunctionOnSet(Invested(f, weights), Columns(f))
<1> DEFINE S == Columns(f)
           h == Invested(f, weights)
           Raw(g) == [s \in SUBSET S |->
                        IF s = {} THEN 0
                        ELSE LET x == CHOOSE x \in s : TRUE
                             IN  weights[x] + g[s \ {x}]]
           iter == CHOOSE g : g = Raw(g)
<1>1. MapThenSumSet(LAMBDA s : weights[s], S) = iter[S]
  BY DEF MapThenSumSet, MapThenFoldSet
<1>2. ASSUME NEW g PROVE Raw(g) = SumRec(h, g, S)
  <2>1. \A s \in SUBSET S : s # {} =>
          h[CHOOSE x \in s : TRUE] = weights[CHOOSE x \in s : TRUE]
    BY DEF Invested
  <2> HIDE DEF h, S
  <2> QED  BY <2>1 DEF SumRec
<1> HIDE DEF Raw
<1>3. iter = SumFcn(h, S)
  BY <1>2 DEF SumFcn
<1> QED  BY <1>1, <1>3, SumIsFcn

(* What it has grown to is a sum.                                          *)
LEMMA GrownIsSum ==
  ASSUME NEW f, NEW weights, NEW m, NEW d
  PROVE  MapThenSumSet(
           LAMBDA s : (weights[s] * f[s][d].value * Base(f, m)) \div f[s][m].value, Columns(f))
           = SumFunctionOnSet(Grown(f, weights, m, d), Columns(f))
<1> DEFINE S == Columns(f)
           h == Grown(f, weights, m, d)
           term(x) == (weights[x] * f[x][d].value * Base(f, m)) \div f[x][m].value
           Raw(g) == [s \in SUBSET S |->
                        IF s = {} THEN 0
                        ELSE LET x == CHOOSE x \in s : TRUE
                             IN  term(x) + g[s \ {x}]]
           iter == CHOOSE g : g = Raw(g)
<1>1. MapThenSumSet(
        LAMBDA s : (weights[s] * f[s][d].value * Base(f, m)) \div f[s][m].value, S) = iter[S]
  BY DEF MapThenSumSet, MapThenFoldSet
<1>2. ASSUME NEW g PROVE Raw(g) = SumRec(h, g, S)
  <2>1. \A s \in SUBSET S : s # {} =>
          h[CHOOSE x \in s : TRUE] = term(CHOOSE x \in s : TRUE)
    BY DEF Grown
  <2> HIDE DEF h, S, term
  <2> QED  BY <2>1 DEF SumRec
<1> HIDE DEF Raw
<1>3. iter = SumFcn(h, S)
  BY <1>2 DEF SumFcn
<1> QED  BY <1>1, <1>3, SumIsFcn

(* So the growth is that of the sums.                                      *)
LEMMA GrowthIsSum ==
  ASSUME NEW f, NEW weights, NEW m, NEW d
  PROVE  Growth(f, weights, m, d)
           = (Whole - SumFunctionOnSet(Invested(f, weights), Columns(f))) * Base(f, m)
             + SumFunctionOnSet(Grown(f, weights, m, d), Columns(f))
BY InvestedIsSum, GrownIsSum DEF Growth

----------------------------------------------------------------------------
(* Arithmetic.  A column has w parts, bought at price p with worth e, and  *)
(* grows to price r; the base is p * q.  First, a division without rest.   *)
LEMMA ExactQuotient ==
  ASSUME NEW a \in Int, NEW b \in Nat \ {0}, a % b = 0
  PROVE  (a \div b) * b = a /\ a \div b \in Int
<1>1. a = b * (a \div b) + (a % b) /\ a \div b \in Int
  OBVIOUS
<1> QED  BY <1>1

(* Its growth, over the base, is exact.                                    *)
LEMMA MultipleQuotient ==
  ASSUME NEW w \in Nat, NEW r \in Nat, NEW p \in Nat \ {0}, NEW q \in Nat
  PROVE  (w * r * (p * q)) \div p = w * r * q
<1> DEFINE n == w * r * q
<1>1. n \in Nat /\ w * r * (p * q) = p * n
  <2>1. w * r \in Nat /\ p \in Nat
    OBVIOUS
  <2> QED  BY <2>1
<1> HIDE DEF n
<1>2. (p * n) \div p = n
  BY <1>1
<1> QED  BY <1>1, <1>2 DEF n

(* Its shares, valued at price r and at the price they were bought at.     *)
LEMMA ColumnArithmetic ==
  ASSUME NEW w \in Nat, NEW r \in Nat, NEW p \in Nat \ {0}, NEW q \in Nat,
         NEW e \in Int, NEW shares \in Int, shares * (Whole * p) = w * e
  PROVE  /\ (Whole * (p * q)) * (shares * r) = e * (w * r * q)
         /\ (Whole * (p * q)) * (shares * p) = (e * (p * q)) * w
<1>1. Whole \in Int /\ p \in Int /\ w \in Int /\ r \in Int /\ q \in Int
  BY PricesAssumption
<1>2. (Whole * (p * q)) * (shares * r) = (shares * (Whole * p)) * (q * r)
  BY <1>1
<1>3. (w * e) * (q * r) = e * (w * r * q)
  BY <1>1
<1>4. (Whole * (p * q)) * (shares * p) = (shares * (Whole * p)) * (p * q)
  BY <1>1
<1>5. (w * e) * (p * q) = (e * (p * q)) * w
  BY <1>1
<1> QED  BY <1>2, <1>3, <1>4, <1>5

(* And of the book: from the worth of the shares, then and now.            *)
LEMMA BookArithmetic ==
  ASSUME NEW e \in Int, NEW new \in Int, NEW old \in Int, NEW base \in Int,
         NEW parts \in Int, NEW grown \in Int,
         (Whole * base) * new = e * grown,
         (Whole * base) * old = (e * base) * parts
  PROVE  (e + (new - old)) * Whole * base = e * ((Whole - parts) * base + grown)
<1>1. Whole \in Int
  BY PricesAssumption
<1>2. (e + (new - old)) * Whole * base
        = (e * base) * Whole + (Whole * base) * new - (Whole * base) * old
  BY <1>1
<1>3. e * ((Whole - parts) * base + grown) = (e * base) * Whole - (e * base) * parts + e * grown
  BY <1>1
<1>4. /\ (e * base) * Whole \in Int /\ (e * base) * parts \in Int /\ e * grown \in Int
  BY <1>1
<1> QED  BY <1>2, <1>3, <1>4

(* The divisions of a rebalance on day m with worth e leave nothing over.  *)
DividesExactly(f, weights, e, m) ==
  \A s \in Columns(f) : (weights[s] * e) % (Whole * PriceOn(f, m)[s]) = 0

(* Since such a rebalance, equity has grown as the columns have.           *)
LEMMA GrowsExactly ==
  ASSUME NEW f, NEW weights, IsPanel(f, weights), NEW m \in RebalanceDays(PanelDays(f)),
         NEW d \in PanelDays(f), m < d, NoneBetween(f, m, d),
         DividesExactly(f, weights, EquityCurve(f, weights)[m], m)
  PROVE  EquityCurve(f, weights)[d] * Whole * Base(f, m)
           = EquityCurve(f, weights)[m] * Growth(f, weights, m, d)
<1> DEFINE S == Columns(f)
           e == EquityCurve(f, weights)[m]
           base == Base(f, m)
           shares == Bought(f, weights, e, m)
           old == PriceOn(f, m)
           new == PriceOn(f, d)
           then == Value(shares, old)
           now == Value(shares, new)
           parts == SumFunctionOnSet(Invested(f, weights), S)
           grown == SumFunctionOnSet(Grown(f, weights, m, d), S)
<1>1. m \in PanelDays(f)
  BY DEF RebalanceDays
<1>2. /\ e \in Int /\ shares \in [S -> Int]
      /\ EquityCurve(f, weights)[d] = e + (now - then)
  BY <1>1, EquityIsWorth, EquityMoves
<1>3. /\ IsFiniteSet(S) /\ \A s \in S : weights[s] \in Nat
      /\ old \in [S -> Nat \ {0}] /\ new \in [S -> Nat \ {0}]
  BY <1>1, ColumnsAreFinite, PriceType
<1>4. base \in Nat /\ \A s \in S : \E q \in Nat : base = old[s] * q
  <2>1. \A s \in S : old[s] \in Nat \ {0}
    BY <1>3
  <2> HIDE DEF old, S
  <2>2. ProductFcn(old, S)[S] \in Nat /\ \A s \in S : \E q \in Nat : ProductFcn(old, S)[S] = old[s] * q
    BY <1>3, <2>1, ProductIsMultiple
  <2> QED  BY <2>2, BaseIsProduct DEF old, S
<1>5. \A s \in S : shares[s] = (weights[s] * e) \div (Whole * old[s])
  BY DEF Bought
<1>6. \A s \in S : (weights[s] * e) % (Whole * old[s]) = 0
  BY DEF DividesExactly
<1>7. \A s \in S : Grown(f, weights, m, d)[s] = (weights[s] * new[s] * base) \div old[s]
  BY DEF Grown, PriceOn
<1> HIDE DEF e, base, old, new
<1>8. ASSUME NEW s \in S
      PROVE  /\ Grown(f, weights, m, d)[s] \in Int
             /\ (Whole * base) * (shares[s] * new[s]) = e * Grown(f, weights, m, d)[s]
             /\ (Whole * base) * (shares[s] * old[s]) = (e * base) * weights[s]
  <2> DEFINE w == weights[s]
             p == old[s]
             r == new[s]
             n == shares[s]
  <2>1. w \in Nat /\ p \in Nat \ {0} /\ r \in Nat /\ n \in Int /\ Whole \in Nat \ {0}
    BY <1>2, <1>3, PricesAssumption
  <2>2. PICK q \in Nat : base = p * q
    BY <1>4
  <2>3. n = (w * e) \div (Whole * p) /\ (w * e) % (Whole * p) = 0
    BY <1>5, <1>6
  <2>4. Grown(f, weights, m, d)[s] = (w * r * base) \div p
    BY <1>7
  <2> HIDE DEF w, p, r, n
  <2>5. w * e \in Int /\ Whole * p \in Nat \ {0}
    BY <1>2, <2>1
  <2>6. n * (Whole * p) = w * e
    BY <2>3, <2>5, ExactQuotient
  <2>7. Grown(f, weights, m, d)[s] = w * r * q /\ w * r * q \in Int
    BY <2>1, <2>2, <2>4, MultipleQuotient
  <2>8. /\ (Whole * (p * q)) * (n * r) = e * (w * r * q)
        /\ (Whole * (p * q)) * (n * p) = (e * (p * q)) * w
    BY <1>2, <2>1, <2>6, ColumnArithmetic
  <2> QED  BY <2>2, <2>7, <2>8 DEF w, p, r, n
<1>9. Whole * base \in Int /\ e * base \in Int
  BY <1>2, <1>4, PricesAssumption
<1>10. (Whole * base) * now = e * grown /\ now \in Int /\ grown \in Int
  <2> DEFINE values == ValueOf(shares, new)
             growns == Grown(f, weights, m, d)
  <2>1. \A s \in S : values[s] = shares[s] * new[s] /\ values[s] \in Int
    BY <1>2, <1>3 DEF ValueOf
  <2>2. \A s \in S : /\ values[s] \in Int /\ growns[s] \in Int
                     /\ (Whole * base) * values[s] = e * growns[s]
    BY <1>8, <2>1
  <2>3. now = SumFunctionOnSet(values, S)
    BY <1>2, ValueIsSum
  <2> HIDE DEF values, growns
  <2>4. (Whole * base) * SumFunctionOnSet(values, S) = e * SumFunctionOnSet(growns, S)
    <3> DEFINE a == Whole * base
    <3>1. /\ IsFiniteSet(S) /\ a \in Int /\ e \in Int
          /\ \A s \in S : values[s] \in Int /\ growns[s] \in Int /\ a * values[s] = e * growns[s]
      BY <1>2, <1>3, <1>9, <2>2
    <3> HIDE DEF a, S
    <3>2. a * SumFunctionOnSet(values, S) = e * SumFunctionOnSet(growns, S)
      BY <3>1, SumInProportion
    <3> QED  BY <3>2 DEF a
  <2>5. SumFunctionOnSet(values, S) \in Int /\ SumFunctionOnSet(growns, S) \in Int
    BY <1>3, <2>2, SumType
  <2> QED  BY <2>3, <2>4, <2>5 DEF growns
<1>11. (Whole * base) * then = (e * base) * parts /\ then \in Int /\ parts \in Int
  <2> DEFINE values == ValueOf(shares, old)
             invested == Invested(f, weights)
  <2>1. \A s \in S : values[s] = shares[s] * old[s] /\ values[s] \in Int
    BY <1>2, <1>3 DEF ValueOf
  <2>2. \A s \in S : invested[s] = weights[s] /\ invested[s] \in Int
    BY <1>3 DEF Invested
  <2>3. \A s \in S : /\ values[s] \in Int /\ invested[s] \in Int
                     /\ (Whole * base) * values[s] = (e * base) * invested[s]
    BY <1>8, <2>1, <2>2
  <2>4. then = SumFunctionOnSet(values, S)
    BY <1>2, ValueIsSum
  <2> HIDE DEF values, invested
  <2>5. (Whole * base) * SumFunctionOnSet(values, S) = (e * base) * SumFunctionOnSet(invested, S)
    <3> DEFINE a == Whole * base
               b == e * base
    <3>1. /\ IsFiniteSet(S) /\ a \in Int /\ b \in Int
          /\ \A s \in S : values[s] \in Int /\ invested[s] \in Int /\ a * values[s] = b * invested[s]
      BY <1>3, <1>9, <2>3
    <3> HIDE DEF a, b, S
    <3>2. a * SumFunctionOnSet(values, S) = b * SumFunctionOnSet(invested, S)
      BY <3>1, SumInProportion
    <3> QED  BY <3>2 DEF a, b
  <2>6. SumFunctionOnSet(values, S) \in Int /\ SumFunctionOnSet(invested, S) \in Int
    BY <1>3, <2>3, SumType
  <2> QED  BY <2>4, <2>5, <2>6 DEF invested
<1> HIDE DEF now, then, parts, grown
<1>12. (e + (now - then)) * Whole * base = e * ((Whole - parts) * base + grown)
  BY <1>2, <1>4, <1>10, <1>11, BookArithmetic
<1>13. Growth(f, weights, m, d) = (Whole - parts) * base + grown
  BY GrowthIsSum DEF parts, grown, base
<1> QED  BY <1>2, <1>12, <1>13 DEF e, base

----------------------------------------------------------------------------
(* Some days have a last one.                                              *)
LEMMA LastDay ==
  ASSUME NEW P \in SUBSET Days, P # {}
  PROVE  Max(P) \in P /\ \A x \in P : x <= Max(P)
<1> DEFINE B == {MaxDay - x : x \in P}
<1>1. \A x \in P : x \in Int /\ MaxDay - x \in Nat /\ MaxDay \in Nat
  BY DaysAssumption DEF Days
<1>2. PICK k \in B : \A t \in B : k <= t
  <2>1. B \in SUBSET Nat /\ B # {}
    BY <1>1
  <2> HIDE DEF B
  <2> QED  BY <2>1, SmallestNat
<1>3. PICK x \in P : k = MaxDay - x
  OBVIOUS
<1>4. ASSUME NEW y \in P PROVE x >= y
  <2>1. MaxDay - x <= MaxDay - y
    BY <1>2, <1>3
  <2> QED  BY <1>1, <2>1
<1> HIDE DEF B
<1>5. Max(P) \in P /\ \A y \in P : Max(P) >= y
  BY <1>3, <1>4 DEF Max
<1> QED  BY <1>1, <1>5

(* The rebalances before a day of a panel, and the last of them.  A day    *)
(* without one is the first of the panel, that of the deposit.             *)
LEMMA PastRebalances ==
  ASSUME NEW f, NEW d \in PanelDays(f)
  PROVE  LET past == Rebalances(PanelDays(f), d)
         IN  /\ past = {} => ~ \E x \in PanelDays(f) : x < d
             /\ past # {} => /\ Max(past) \in RebalanceDays(PanelDays(f))
                             /\ Max(past) < d
                             /\ NoneBetween(f, Max(past), d)
<1> DEFINE days == PanelDays(f)
           past == Rebalances(days, d)
<1>1. days \in SUBSET Days /\ \A x \in days : x \in Nat
  BY DEF PanelDays, Days
<1> HIDE DEF days
<1>2. past = {m \in RebalanceDays(days) : m < d} /\ past \in SUBSET Days
  BY <1>1 DEF Rebalances, RebalanceDays
<1>3. ASSUME NEW x \in days, x < d PROVE past # {}
  <2>1. PICK y \in days : \A z \in days : y <= z
    BY <1>1, SmallestNat
  <2>2. y < d /\ y \in RebalanceDays(days)
    BY <1>1, <1>3, <2>1 DEF RebalanceDays, days
  <2> QED  BY <1>2, <2>2
<1>4. ASSUME past # {}
      PROVE  Max(past) \in RebalanceDays(days) /\ Max(past) < d /\ NoneBetween(f, Max(past), d)
  <2>1. Max(past) \in past /\ \A x \in past : x <= Max(past)
    BY <1>2, <1>4, LastDay
  <2> HIDE DEF past
  <2>2. ASSUME NEW r \in RebalanceDays(days), Max(past) < r, r < d PROVE FALSE
    <3>1. r \in past /\ r \in Nat /\ Max(past) \in Nat
      BY <1>1, <1>2, <2>1, <2>2 DEF RebalanceDays
    <3> QED  BY <2>1, <2>2, <3>1
  <2> QED  BY <1>2, <2>1, <2>2 DEF NoneBetween, days
<1> QED  BY <1>3, <1>4 DEF days

(* What a simulation is done on is a panel.                                *)
LEMMA DoneOnPanel ==
  ASSUME CurveInv, pc = "done"
  PROVE  /\ IsPanel(frames, call.weights)
         /\ equity = EquityCurve(frames, call.weights)
         /\ DOMAIN equity = PanelDays(frames)
<1>1. DOMAIN frames = DOMAIN call.weights /\ equity = EquityCurve(frames, call.weights)
  BY DEF CurveInv
<1>2. IsCall(call)
  BY InputsAssumption DEF CurveInv, TypeOK
<1>3. DOMAIN equity = PanelDays(frames)
  BY <1>1 DEF EquityCurve
<1>4. IsFiniteSet(DOMAIN frames) /\ call.weights \in [DOMAIN frames -> Nat]
  BY <1>1, <1>2 DEF IsCall
<1> QED  BY <1>1, <1>3, <1>4 DEF IsPanel, CurveInv, TypeOK

(* Between two rebalances, the equity moves with the prices of the shares  *)
(* bought at the first, and by nothing else: whatever the divisions of a   *)
(* rebalance leave over stays in cash, and none of it is lost or made.     *)
MovesWithPrices ==
  pc = "done" =>
    \A m \in RebalanceDays(DOMAIN equity) : \A d \in DOMAIN equity :
      m < d /\ NoneBetween(frames, m, d) =>
        LET shares == Bought(frames, call.weights, equity[m], m)
        IN  equity[d] = equity[m] + (Value(shares, PriceOn(frames, d))
                                       - Value(shares, PriceOn(frames, m)))

(* So it is after every call, over whatever table and with any weights.    *)
THEOREM AccountsTheorem == Spec => []MovesWithPrices
<1>1. CurveInv => MovesWithPrices
  <2> SUFFICES ASSUME CurveInv, pc = "done", NEW m \in RebalanceDays(DOMAIN equity),
                      NEW d \in DOMAIN equity, m < d, NoneBetween(frames, m, d)
      PROVE  equity[d] = equity[m]
               + (Value(Bought(frames, call.weights, equity[m], m), PriceOn(frames, d))
                    - Value(Bought(frames, call.weights, equity[m], m), PriceOn(frames, m)))
    BY DEF MovesWithPrices
  <2> QED  BY DoneOnPanel, EquityMoves
<1> QED  BY <1>1, CurveHolds, PTL

(* The shares bought at each rebalance come out whole, as the fractional   *)
(* shares of the code do.                                                  *)
DivisionsAreExact ==
  \A m \in RebalanceDays(DOMAIN equity) : DividesExactly(frames, call.weights, equity[m], m)

(* Since the last rebalance each column has grown with its price from its  *)
(* weight, and the rest has stayed as it was; before the second month the  *)
(* first day shows the deposit.  For every panel, weights and months.      *)
THEOREM WealthTheorem == Spec => [](DivisionsAreExact => WealthIsExact)
<1>1. CurveInv => (DivisionsAreExact => WealthIsExact)
  <2> SUFFICES ASSUME CurveInv, DivisionsAreExact, pc = "done", NEW d \in DOMAIN equity
      PROVE  LET past == Rebalances(DOMAIN equity, d)
                 m == Max(past)
             IN  IF past = {} THEN equity[d] = InitialCash
                 ELSE equity[d] * Whole * Base(frames, m)
                        = equity[m] * Growth(frames, call.weights, m, d)
    BY DEF WealthIsExact
  <2> DEFINE past == Rebalances(DOMAIN equity, d)
             m == Max(past)
  <2>1. /\ IsPanel(frames, call.weights)
        /\ equity = EquityCurve(frames, call.weights)
        /\ DOMAIN equity = PanelDays(frames)
    BY DoneOnPanel
  <2>2. ASSUME past = {} PROVE equity[d] = InitialCash
    <3>1. ~ \E x \in PanelDays(frames) : x < d
      BY <2>1, <2>2, PastRebalances
    <3>2. equity[d] = Worth(Books(frames, call.weights)[d - 1], d, frames)
      BY <2>1, EquityIsWorth
    <3> QED  BY <3>1, <3>2 DEF Worth
  <2>3. ASSUME past # {}
        PROVE  equity[d] * Whole * Base(frames, m) = equity[m] * Growth(frames, call.weights, m, d)
    <3>1. m \in RebalanceDays(PanelDays(frames)) /\ m < d /\ NoneBetween(frames, m, d)
      BY <2>1, <2>3, PastRebalances
    <3> HIDE DEF m, past
    <3>2. DividesExactly(frames, call.weights, equity[m], m)
      BY <2>1, <3>1 DEF DivisionsAreExact
    <3> QED  BY <2>1, <3>1, <3>2, GrowsExactly
  <2> QED  BY <2>2, <2>3
<1> QED  BY <1>1, CurveHolds, PTL
=============================================================================
