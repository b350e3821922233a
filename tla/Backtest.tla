------------------------------ MODULE Backtest ------------------------------
(***************************************************************************)
(* One call of run_monthly_rebalance in substrate/backtest/harness.py, over*)
(* the table of prices, to which price backfills add rows meanwhile.  The  *)
(* panel is loaded by one query per symbol, each in its own transaction;   *)
(* the rest is arithmetic.  Shares and dollars are integers, a weight is a *)
(* number of parts of Whole, and what a division leaves over stays in cash.*)
(***************************************************************************)
EXTENDS Bitemporal, FiniteSetsExt

CONSTANTS
  Symbols,      \* what a weight or a price may be of
  MaxDay,       \* bound: trading days 1 .. MaxDay
  MonthOf,      \* the (year, month) of each day
  Moments,      \* when a price may become known
  Prices,       \* the prices of a day
  NoPrice,      \* an adj_close that is NULL
  Whole,        \* a weight of 1
  Calls,        \* the arguments a call may have
  Tables,       \* what the table of prices may hold at first
  Batches,      \* the transactions price backfills commit meanwhile
  InitialCash   \* initial_cash

Days == 1 .. MaxDay
Row == [dim : Symbols, validFrom : Days, asOf : Moments, value : Prices \cup {NoPrice}]
IsCall(c) ==
  /\ DOMAIN c.weights \subseteq Symbols /\ IsFiniteSet(DOMAIN c.weights)
  /\ c.weights \in [DOMAIN c.weights -> Nat]
  /\ c.start \in Days /\ c.end \in Days /\ c.knownAsOf \in Moments

ASSUME DaysAssumption == MaxDay \in Nat /\ MonthOf \in [Days -> Nat] /\ Moments \subseteq Nat
ASSUME PricesAssumption ==
  /\ Prices \subseteq Nat \ {0} /\ NoPrice \notin Prices
  /\ Whole \in Nat \ {0} /\ InitialCash \in Nat \ {0}
ASSUME InputsAssumption ==
  (\A c \in Calls : IsCall(c)) /\ Tables \subseteq SUBSET Row /\ Batches \subseteq SUBSET Row

VARIABLES
  facts,    \* table bitemporal_market_prices
  atStart,  \* the table when the call began
  call,     \* the arguments
  pc,       \* "loading", "done" or "failed"
  frames,   \* the answers of the queries so far
  equity    \* equity_curve, by day

vars == <<facts, atStart, call, pc, frames, equity>>

----------------------------------------------------------------------------
(* The symbols that have any row.  One without is left out silently.       *)
Columns(views) == {s \in DOMAIN views : DOMAIN views[s] # {}}

(* panel.dropna(how="any"): the days on which every column has a price.    *)
PanelDays(views) ==
  {d \in Days : \A s \in Columns(views) :
                  d \in DOMAIN views[s] /\ views[s][d].value # NoPrice}

(* Mutation: month-end rebalancing.                                        *)
MonthEnds(days) ==
  {d \in days : \A e \in days : MonthOf[e] = MonthOf[d] => e <= d}

(* rebal_dates: the first day of the panel in each month.                  *)
RebalanceDays(days) ==
  {d \in days : \A e \in days : MonthOf[e] = MonthOf[d] => d <= e}

Value(shares, price) == MapThenSumSet(LAMBDA s : shares[s] * price[s], DOMAIN shares)

(* Mutation: what is not invested is not kept.                             *)
InvestedOnly(worth, weights, price) ==
  [shares |-> [s \in DOMAIN price |-> (weights[s] * worth) \div (Whole * price[s])],
   cash |-> 0]

(* The book of a given worth that is set to the target.                    *)
Rebalanced(worth, weights, price) ==
  LET shares == [s \in DOMAIN price |-> (weights[s] * worth) \div (Whole * price[s])]
  IN  [shares |-> shares, cash |-> worth - Value(shares, price)]

(* The book after each day: set to the target at a rebalance, the first of *)
(* which is the deposit, and left alone on the other days.                 *)
Books(views, weights) ==
  LET columns == Columns(views)
      days == PanelDays(views)
      price(d) == [s \in columns |-> views[s][d].value]
      book[d \in 0 .. MaxDay] ==
        IF d = 0 THEN [shares |-> [s \in columns |-> 0], cash |-> 0]
        ELSE IF d \notin RebalanceDays(days) THEN book[d - 1]
        ELSE LET worth == IF \E e \in days : e < d
                            THEN Value(book[d - 1].shares, price(d)) + book[d - 1].cash
                            ELSE InitialCash
             IN  Rebalanced(worth, weights, price(d))
  IN  book

EquityCurve(views, weights) ==
  LET book == Books(views, weights)
  IN  [d \in PanelDays(views) |->
         Value(book[d].shares, [s \in Columns(views) |-> views[s][d].value])
           + book[d].cash]

Init ==
  /\ facts \in Tables
  /\ atStart = facts
  /\ call \in Calls
  /\ pc = "loading"
  /\ frames = <<>>
  /\ equity = <<>>

(* A query of load_price_panel; in which order is of no consequence.       *)
Query(s) ==
  /\ pc = "loading" /\ s \in DOMAIN call.weights \ DOMAIN frames
  /\ \E answer \in point_in_time(facts, s, call.start, call.end, call.knownAsOf) :
       frames' = [r \in DOMAIN frames \cup {s} |-> IF r = s THEN answer ELSE frames[r]]
  /\ UNCHANGED <<facts, atStart, call, pc, equity>>

(* run_monthly_rebalance from the panel on: an error if it has no column   *)
(* or no day.                                                              *)
Simulate ==
  /\ pc = "loading" /\ DOMAIN frames = DOMAIN call.weights
  /\ IF Columns(frames) = {} \/ PanelDays(frames) = {}
       THEN pc' = "failed" /\ UNCHANGED equity
       ELSE pc' = "done" /\ equity' = EquityCurve(frames, call.weights)
  /\ UNCHANGED <<facts, atStart, call, frames>>

(* Mutation: a restatement takes the place of the row it restates.         *)
IngestInPlace(batch) ==
  /\ ~ batch \subseteq facts
  /\ facts' = batch \cup {f \in facts : ~ \E g \in batch :
                                          f.dim = g.dim /\ f.validFrom = g.validFrom}
  /\ UNCHANGED <<atStart, call, pc, frames, equity>>

(* A price backfill commits.                                               *)
Ingest(batch) ==
  /\ ~ batch \subseteq facts
  /\ facts' = bulk_insert_facts(facts, batch)
  /\ UNCHANGED <<atStart, call, pc, frames, equity>>

Next == (\E s \in Symbols : Query(s)) \/ Simulate \/ (\E batch \in Batches : Ingest(batch))
Spec == Init /\ [][Next]_vars

----------------------------------------------------------------------------
TypeOK ==
  /\ facts \subseteq Row /\ atStart \subseteq facts
  /\ call \in Calls
  /\ pc \in {"loading", "done", "failed"}
  /\ DOMAIN frames \subseteq DOMAIN call.weights
  /\ \A s \in DOMAIN frames : \A d \in DOMAIN frames[s] : frames[s][d] \in Row
  /\ DOMAIN equity \subseteq Days

(* The panel is that of one moment, though its queries are several: asked  *)
(* again after any number of later ingestions, the queries still give it,  *)
(* unless rows known by known_as_of have come late.                        *)
PanelIsReproducible ==
  (\A f \in facts \ atStart : f.asOf > call.knownAsOf) =>
    \A s \in DOMAIN frames :
      frames[s] \in point_in_time(facts, s, call.start, call.end, call.knownAsOf)

(* The days before d that were the first of their month.                   *)
Rebalances(days, d) ==
  {m \in days : m < d /\ ~ \E e \in days : e < m /\ MonthOf[e] = MonthOf[m]}

(* A common multiple of the prices of day m.                               *)
Base(views, m) ==
  FoldSet(LAMBDA s, product : product * views[s][m].value, 1, Columns(views))

(* What Whole times the base, set to the target on day m, is on day d.     *)
Growth(views, weights, m, d) ==
  LET idle == Whole - MapThenSumSet(LAMBDA s : weights[s], Columns(views))
  IN  idle * Base(views, m) + MapThenSumSet(
        LAMBDA s : (weights[s] * views[s][d].value * Base(views, m)) \div views[s][m].value,
        Columns(views))

(* The bookkeeping of shares and cash gives the growth of a monthly        *)
(* rebalanced book: since the last rebalance, each column has grown with   *)
(* its price from its weight, and what no column holds, the weight of a    *)
(* symbol without prices included, has stayed as it was.  Nothing is lost  *)
(* or made at a rebalance.                                                 *)
WealthIsExact ==
  pc = "done" =>
    \A d \in DOMAIN equity :
      LET past == Rebalances(DOMAIN equity, d)
          m == Max(past)
      IN  IF past = {} THEN equity[d] = InitialCash
          ELSE equity[d] * Whole * Base(frames, m)
                 = equity[m] * Growth(frames, call.weights, m, d)

(* No price has a say in what a backtest shows of an earlier day: a call   *)
(* with another end or another known_as_of, that is answered the same up   *)
(* to some day, has the same curve up to it on the days both have.         *)
CurvesAgree ==
  pc = "done" =>
    \A end \in Days, known \in Moments :
      LET views == [s \in DOMAIN call.weights |->
                      CHOOSE answer \in point_in_time(facts, s, call.start, end, known) : TRUE]
          SameUntil(d) ==
            \A s \in DOMAIN frames, e \in call.start .. d :
              /\ e \in DOMAIN frames[s] <=> e \in DOMAIN views[s]
              /\ e \in DOMAIN frames[s] => frames[s][e].value = views[s][e].value
      IN  Columns(views) # {} =>
            \A d \in DOMAIN equity \cap PanelDays(views) :
              SameUntil(d) => EquityCurve(views, call.weights)[d] = equity[d]

(* "At simulation date T, the backtest sees only data with as_of <= T"     *)
(* (harness.py:4-5).                                                       *)
SeesOnlyThePast ==
  pc = "done" => \A d \in DOMAIN equity, s \in Columns(frames) : frames[s][d].asOf <= d
=============================================================================
