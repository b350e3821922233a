------------------------------ MODULE Ingestion ------------------------------
(***************************************************************************)
(* The two backfill scripts: substrate/ingest/macro.py and                 *)
(* substrate/ingest/prices.py, with scripts/backfill_macro.py and          *)
(* scripts/backfill_prices.py.                                             *)
(*                                                                         *)
(* A process is one invocation of a script.  It takes one step per answer  *)
(* of the remote service and one per database call.  Invocations may       *)
(* overlap; nothing in the program prevents it.                            *)
(*                                                                         *)
(* The services publish by themselves.  A release of a series revises all  *)
(* the periods it has a figure for, and the value it gives them is named   *)
(* by the moment of the release.                                           *)
(***************************************************************************)
EXTENDS Bitemporal, Sequences, FiniteSets

CONSTANTS
  Backfills,   \* the invocations
  Vintaged,    \* macro series with vintage_tracked = true
  Current,     \* the other macro series
  Symbols,     \* the symbols of universe.toml
  Arguments,   \* what the invocations may be asked for: series and --years
  None,        \* no reading yet
  MaxTime,     \* bound: the clock reads 1 .. MaxTime
  DayOf,       \* the UTC date of each reading of the clock
  Noon,        \* noon UTC of each date, on the scale of the readings
  Lag,         \* how many days a figure comes out after its period
  Withheld,    \* <<series, release, period>>: the figure is given as "."
  NoSuchDate,  \* <<day, years>>: 29 February, and no such day that many years ago
  MaxRetries,  \* _MAX_RETRIES
  MaxReleases  \* bound: releases in all

Series == Vintaged \cup Current \cup Symbols
Time == 1 .. MaxTime
Day == {DayOf[t] : t \in Time}

ASSUME TimeAssumption ==
  /\ MaxTime \in Nat /\ None \notin Time
  /\ DayOf \in [Time -> Nat] /\ Noon \in [Day -> Nat]
  /\ \A t, u \in Time : t <= u => DayOf[t] <= DayOf[u]
  /\ \A d, e \in Day : d < e => Noon[d] < Noon[e]
  /\ \A t \in Time, d \in Day :
       (DayOf[t] < d => t < Noon[d]) /\ (d < DayOf[t] => Noon[d] < t)
ASSUME SeriesAssumption ==
  /\ Lag \in [Series -> Nat]
  /\ Vintaged \cap Current = {} /\ (Vintaged \cup Current) \cap Symbols = {}
  /\ Withheld \subseteq (Vintaged \cup Current) \X Time \X Day
ASSUME ArgumentsAssumption ==
  /\ Arguments \subseteq
       [Backfills -> [series : Seq(Vintaged \cup Current) \cup Seq(Symbols), years : Nat]]
  /\ \A asked \in Arguments, b \in Backfills : asked[b].series # <<>>
  /\ NoSuchDate \subseteq Day \X Nat
  /\ MaxRetries \in Nat \ {0} /\ MaxReleases \in Nat

VARIABLES
  now,        \* the last reading of the clock
  published,  \* the releases of each series so far
  facts,      \* the two bitemporal tables
  pc,         \* where each invocation is
  left,       \* the series it has not finished, the one at work first
  years,      \* its --years
  begun,      \* a reading taken by ingest_universe before the first symbol
  stamp,      \* the reading taken for each series: end, or as_of of a symbol
  todo,       \* to_fetch: the vintages not asked for yet
  obs,        \* the rows made from the last answer
  attempt     \* how often the request under way has failed

process == <<pc, left, years, begun, stamp, todo, obs, attempt>>
vars == <<now, published, facts, process>>

----------------------------------------------------------------------------
Row == [dim : Series, validFrom : Day, asOf : Nat, value : Time]
Requesting == {"discover", "snapshot", "current"}
Ended == {"done", "failed"}

Reads(t) == now <= t /\ now' = t

(* The first day asked for: end.replace(year=end.year - years).            *)
FirstDay(b, s) ==
  DayOf[IF s \in Symbols THEN begun[b] ELSE stamp[b][s]] - years[b]

(* The periods a release at t gives a value.  A figure given as "." makes  *)
(* no row; what an earlier release said of the period is not withdrawn.    *)
Covered(s, t) ==
  {p \in Day : p + Lag[s] <= DayOf[t] /\ <<s, t, p>> \notin Withheld}

(* The last of some releases, if there is any.                             *)
LastRelease(S) == {t \in S : \A u \in S : u <= t}

(* The rows of an answer that shows the series as of the release t: macro  *)
(* requests end at the day of the stamp, downloads of prices are open.     *)
Rows(b, s, t, asOf) ==
  {r \in [dim : {s}, validFrom : Covered(s, t), asOf : {asOf}, value : {t}] :
     /\ FirstDay(b, s) <= r.validFrom
     /\ s \notin Symbols => r.validFrom <= DayOf[stamp[b][s]]}

Init ==
  /\ now = 0
  /\ published = [s \in Series |-> {}]
  /\ facts = {}
  /\ pc = [b \in Backfills |-> "idle"]
  /\ \E asked \in Arguments :
       /\ left = [b \in Backfills |-> asked[b].series]
       /\ years = [b \in Backfills |-> asked[b].years]
  /\ begun = [b \in Backfills |-> None]
  /\ stamp = [b \in Backfills |-> [s \in Series |-> None]]
  /\ todo = [b \in Backfills |-> {}]
  /\ obs = [b \in Backfills |-> {}]
  /\ attempt = [b \in Backfills |-> 0]

----------------------------------------------------------------------------
(* FRED and Yahoo publish.  ALFRED tells vintages apart by their date.     *)
Release(s, t) ==
  /\ Cardinality({r \in Series \X Time : r[2] \in published[r[1]]}) < MaxReleases
  /\ now < t /\ now' = t
  /\ s \in Vintaged => \A u \in published[s] : DayOf[u] # DayOf[t]
  /\ published' = [published EXCEPT ![s] = @ \cup {t}]
  /\ UNCHANGED <<facts, process>>

(* The loop over the series goes on with the next one.                     *)
FinishSeries(b) ==
  /\ left' = [left EXCEPT ![b] = Tail(@)]
  /\ pc' = [pc EXCEPT ![b] = IF Len(left[b]) = 1 THEN "done" ELSE "series"]

(* The process is gone, and its memory with it.                            *)
Fail(b) ==
  /\ pc' = [pc EXCEPT ![b] = "failed"]
  /\ todo' = [todo EXCEPT ![b] = {}]
  /\ obs' = [obs EXCEPT ![b] = {}]
  /\ attempt' = [attempt EXCEPT ![b] = 0]

(* scripts/backfill_macro.py.                                              *)
backfill_macro(b) ==
  /\ pc[b] = "idle" /\ Head(left[b]) \notin Symbols
  /\ pc' = [pc EXCEPT ![b] = "series"]
  /\ UNCHANGED <<now, published, facts, left, years, begun, stamp, todo, obs, attempt>>

(* scripts/backfill_prices.py and ingest_universe: the first day is fixed  *)
(* here for all symbols.  It raises on 29 February.                        *)
ingest_universe(b, t) ==
  /\ pc[b] = "idle" /\ Head(left[b]) \in Symbols
  /\ Reads(t)
  /\ begun' = [begun EXCEPT ![b] = t]
  /\ pc' = [pc EXCEPT ![b] = IF <<DayOf[t], years[b]>> \in NoSuchDate
                               THEN "failed" ELSE "series"]
  /\ UNCHANGED <<published, facts, left, years, stamp, todo, obs, attempt>>

(* The head of ingest_vintages and of ingest_latest.  as_of of the latter  *)
(* is this reading, and readings are not repeated.                         *)
BeginSeries(b, t) ==
  LET s == Head(left[b]) IN
  /\ pc[b] = "series" /\ s \notin Symbols
  /\ Reads(t)
  /\ s \in Current => now < t
  /\ IF <<DayOf[t], years[b]>> \in NoSuchDate
       THEN Fail(b) /\ UNCHANGED stamp
       ELSE /\ stamp' = [stamp EXCEPT ![b][s] = t]
            /\ pc' = [pc EXCEPT ![b] = IF s \in Vintaged THEN "discover" ELSE "current"]
            /\ UNCHANGED <<todo, obs, attempt>>
  /\ UNCHANGED <<published, facts, left, years, begun>>

(* ingest_symbol stamps as_of before it downloads.                         *)
BeginSymbol(b, t) ==
  LET s == Head(left[b]) IN
  /\ pc[b] = "series" /\ s \in Symbols
  /\ now < t /\ now' = t
  /\ stamp' = [stamp EXCEPT ![b][s] = t]
  /\ pc' = [pc EXCEPT ![b] = "download"]
  /\ UNCHANGED <<published, facts, left, years, begun, todo, obs, attempt>>

----------------------------------------------------------------------------
(* _request_with_retry.  A timeout, a lost connection, 429 or 5xx is tried *)
(* again, up to MaxRetries attempts; then, or at any other error, the      *)
(* request raises and the script ends.                                     *)
(* Mutation: the bound is off by one.                                      *)
RetriesOnceMore(b) ==
  /\ pc[b] \in Requesting
  /\ attempt[b] < MaxRetries
  /\ attempt' = [attempt EXCEPT ![b] = @ + 1]
  /\ UNCHANGED <<now, published, facts, pc, left, years, begun, stamp, todo, obs>>

(* Mutation: after the last attempt the backoff starts over.               *)
RetriesForever(b) ==
  /\ pc[b] \in Requesting
  /\ attempt' = [attempt EXCEPT ![b] = (@ + 1) % MaxRetries]
  /\ UNCHANGED <<now, published, facts, pc, left, years, begun, stamp, todo, obs>>

RequestRetries(b) ==
  /\ pc[b] \in Requesting
  /\ attempt[b] + 1 < MaxRetries
  /\ attempt' = [attempt EXCEPT ![b] = @ + 1]
  /\ UNCHANGED <<now, published, facts, pc, left, years, begun, stamp, todo, obs>>

RequestRaises(b) ==
  /\ pc[b] \in Requesting
  /\ Fail(b)
  /\ UNCHANGED <<now, published, facts, left, years, begun, stamp>>

Answered(b) == attempt' = [attempt EXCEPT ![b] = 0]

(* /series/vintagedates answers with the dates of the releases.            *)
Discover(b) ==
  LET s == Head(left[b])
      vintage_dates == {d \in {DayOf[t] : t \in published[s]} :
                          FirstDay(b, s) <= d /\ d <= DayOf[stamp[b][s]]}
  IN
  /\ pc[b] = "discover"
  /\ IF vintage_dates = {}
       THEN FinishSeries(b) /\ UNCHANGED todo
       ELSE /\ todo' = [todo EXCEPT ![b] = vintage_dates]
            /\ pc' = [pc EXCEPT ![b] = "resume"]
            /\ UNCHANGED left
  /\ Answered(b)
  /\ UNCHANGED <<now, published, facts, years, begun, stamp, obs>>

(* Column vintage_date, the day of the release a value is from.            *)
_existing_vintage_dates(s) == {DayOf[f.value] : f \in {g \in facts : g.dim = s}}

(* The next vintage, or the next series.                                   *)
NextVintage(b, remaining) ==
  IF remaining = {}
    THEN FinishSeries(b)
    ELSE pc' = [pc EXCEPT ![b] = "snapshot"] /\ UNCHANGED left

Resume(b) ==
  LET to_fetch == todo[b] \ _existing_vintage_dates(Head(left[b])) IN
  /\ pc[b] = "resume"
  /\ todo' = [todo EXCEPT ![b] = to_fetch]
  /\ NextVintage(b, to_fetch)
  /\ UNCHANGED <<now, published, facts, years, begun, stamp, obs, attempt>>

(* The series as it was on the day vd, known as of noon of that day; FRED  *)
(* decides on the order of the days.                                       *)
(* Mutation: known as of the day of the backfill, not of the release.      *)
SnapshotOfToday(b) ==
  LET s == Head(left[b]) IN
  /\ pc[b] = "snapshot"
  /\ \E vd \in todo[b], t \in published[s] :
       /\ DayOf[t] = vd
       /\ todo' = [todo EXCEPT ![b] = @ \ {vd}]
       /\ obs' = [obs EXCEPT ![b] = Rows(b, s, t, Noon[DayOf[stamp[b][s]]])]
  /\ pc' = [pc EXCEPT ![b] = "store"]
  /\ Answered(b)
  /\ UNCHANGED <<now, published, facts, left, years, begun, stamp>>

Snapshot(b) ==
  LET s == Head(left[b]) IN
  /\ pc[b] = "snapshot"
  /\ \E vd \in todo[b], t \in published[s] :
       /\ DayOf[t] = vd
       /\ todo' = [todo EXCEPT ![b] = @ \ {vd}]
       /\ obs' = [obs EXCEPT ![b] = Rows(b, s, t, Noon[vd])]
  /\ pc' = [pc EXCEPT ![b] = "store"]
  /\ Answered(b)
  /\ UNCHANGED <<now, published, facts, left, years, begun, stamp>>

(* Mutation: every row in a transaction of its own.                        *)
StoreRowByRow(b) ==
  /\ pc[b] = "store"
  /\ IF obs[b] = {}
       THEN NextVintage(b, todo[b]) /\ UNCHANGED <<facts, obs>>
       ELSE /\ \E r \in obs[b] : /\ facts' = bulk_insert_facts(facts, {r})
                                 /\ obs' = [obs EXCEPT ![b] = @ \ {r}]
            /\ UNCHANGED <<pc, left>>
  /\ UNCHANGED <<now, published, years, begun, stamp, todo, attempt>>

Store(b) ==
  /\ pc[b] = "store"
  /\ facts' = bulk_insert_facts(facts, obs[b])
  /\ obs' = [obs EXCEPT ![b] = {}]
  /\ NextVintage(b, todo[b])
  /\ UNCHANGED <<now, published, years, begun, stamp, todo, attempt>>

(* ingest_latest and ingest_symbol: today's view, known as of the stamp.   *)
(* Mutation: the stamp is a date, as that of a vintage.                    *)
TodaysViewAtNoon(b) ==
  LET s == Head(left[b]) IN
  UNION {Rows(b, s, t, Noon[DayOf[stamp[b][s]]]) : t \in LastRelease(published[s])}

TodaysView(b) ==
  LET s == Head(left[b]) IN
  UNION {Rows(b, s, t, stamp[b][s]) : t \in LastRelease(published[s])}

FetchLatest(b) ==
  /\ pc[b] = "current"
  /\ obs' = [obs EXCEPT ![b] = TodaysView(b)]
  /\ pc' = [pc EXCEPT ![b] = "keep"]
  /\ Answered(b)
  /\ UNCHANGED <<now, published, facts, left, years, begun, stamp, todo>>

(* yfinance reports an error as an empty frame: the symbol is left out and *)
(* the script goes on.                                                     *)
Download(b) ==
  /\ pc[b] = "download"
  /\ \/ /\ obs' = [obs EXCEPT ![b] = TodaysView(b)]
        /\ pc' = [pc EXCEPT ![b] = "keep"]
        /\ UNCHANGED left
     \/ FinishSeries(b) /\ UNCHANGED obs
  /\ UNCHANGED <<now, published, facts, years, begun, stamp, todo, attempt>>

(* Mutation: as_of is stamped when the rows are written.                   *)
StoreLatestStamped(b) ==
  /\ pc[b] = "keep"
  /\ \E t \in Time :
       /\ Reads(t)
       /\ facts' = bulk_insert_facts(facts, {[r EXCEPT !.asOf = t] : r \in obs[b]})
  /\ obs' = [obs EXCEPT ![b] = {}]
  /\ FinishSeries(b)
  /\ UNCHANGED <<published, years, begun, stamp, todo, attempt>>

StoreLatest(b) ==
  /\ pc[b] = "keep"
  /\ facts' = bulk_insert_facts(facts, obs[b])
  /\ obs' = [obs EXCEPT ![b] = {}]
  /\ FinishSeries(b)
  /\ UNCHANGED <<now, published, years, begun, stamp, todo, attempt>>

(* A kill, or a database call that raises: its transaction is rolled back. *)
Crash(b) ==
  /\ pc[b] \notin Ended \cup {"idle"}
  /\ Fail(b)
  /\ UNCHANGED <<now, published, facts, left, years, begun, stamp>>

----------------------------------------------------------------------------
Invoke(b) == backfill_macro(b) \/ \E t \in Time : ingest_universe(b, t)
Begin(b) == \E t \in Time : BeginSeries(b, t) \/ BeginSymbol(b, t)

(* What the script does by itself; every request is answered or times out. *)
ProgramStep(b) ==
  \/ Begin(b)
  \/ RequestRetries(b) \/ RequestRaises(b)
  \/ Discover(b) \/ Resume(b) \/ Snapshot(b) \/ Store(b)
  \/ FetchLatest(b) \/ Download(b) \/ StoreLatest(b)

Next ==
  \/ \E s \in Series, t \in Time : Release(s, t)
  \/ \E b \in Backfills : Invoke(b) \/ ProgramStep(b) \/ Crash(b)

Spec == Init /\ [][Next]_vars
FairSpec == Spec /\ \A b \in Backfills : WF_vars(ProgramStep(b))

----------------------------------------------------------------------------
TypeOK ==
  /\ now \in Time \cup {0}
  /\ published \in [Series -> SUBSET Time]
  /\ facts \subseteq Row
  /\ pc \in [Backfills -> Requesting \cup Ended \cup
                          {"idle", "series", "resume", "store", "download", "keep"}]
  /\ left \in [Backfills -> Seq(Series)]
  /\ years \in [Backfills -> Nat]
  /\ begun \in [Backfills -> Time \cup {None}]
  /\ stamp \in [Backfills -> [Series -> Time \cup {None}]]
  /\ todo \in [Backfills -> SUBSET Day]
  /\ obs \in [Backfills -> SUBSET Row]
  /\ attempt \in [Backfills -> 0 .. MaxRetries - 1]

Began(b, s) == stamp[b][s] # None
Finished(b, s) == Began(b, s) /\ \A i \in DOMAIN left[b] : left[b][i] # s

(* The values a caller of point_in_time may get for one period.            *)
Served(s, p, k) == {f.value : f \in Known(facts, s, p, p, k)}

(* Once a backfill has got through a vintage-tracked series, the query     *)
(* answers for every earlier day with what was public at the time: neither *)
(* a later revision nor a superseded one, and nothing where there was      *)
(* nothing.  Crashed, resumed and overlapping backfills leave no vintage   *)
(* out or in half.  A period before the first day of some backfill may     *)
(* have been left out by that one, and resumption does not come back to it.*)
HistoryIsAsPublished ==
  \A b \in Backfills, s \in Vintaged : Finished(b, s) =>
    \A k \in Time, p \in Day :
      LET public == {t \in published[s] : Noon[DayOf[t]] <= k /\ p \in Covered(s, t)}
      IN  /\ DayOf[k] < DayOf[stamp[b][s]]
          /\ \A c \in Backfills : Began(c, s) => FirstDay(c, s) <= p
          => Served(s, p, k) = LastRelease(public)

(* Of the views stored of a series that keeps no vintages, the one with    *)
(* the latest as_of wins, and it is never staler than another: it has what *)
(* was public when any view known by then was stamped.  This is what a     *)
(* stamp taken before the fetch is for.                                    *)
NoStaleWinner ==
  \A s \in Current \cup Symbols, k \in Time, p \in Day :
    \A v \in Served(s, p, k) :
      \A f \in facts : f.dim = s /\ f.validFrom = p /\ f.asOf <= k =>
        ~ \E t \in published[s] : v < t /\ t <= f.asOf /\ p \in Covered(s, t)

(* Rows that tie, as those of two backfills of one vintage do, carry the   *)
(* same value: it does not matter which one the query returns.             *)
AnswerIsUnambiguous ==
  \A s \in Series, k \in Time, p \in Day :
    \A one, other \in point_in_time(facts, s, p, p, k) :
      \A q \in DOMAIN one : one[q].value = other[q].value

(* What was known at k of a series without vintages does not change any    *)
(* more once the views stamped by then are stored, whatever is ingested    *)
(* later: a decision can be traced to what it was based on.                *)
Unstored(b, s, k) ==
  /\ pc[b] \in {"current", "download", "keep"}
  /\ Head(left[b]) = s /\ stamp[b][s] <= k
SettledViewIsFixed ==
  [][facts' # facts =>
     \A s \in Current \cup Symbols, k \in 1 .. now, p \in Day :
       (\A b \in Backfills : ~ Unstored(b, s, k)) => Served(s, p, k)' = Served(s, p, k)]_vars

(* The most steps an invocation has left.  A request takes MaxRetries, and *)
(* a vintage a request and a transaction; a series may have a vintage for  *)
(* each day, and a request to find them.                                   *)
Vintage == MaxRetries + 1
Vintages == Cardinality(Day) * Vintage
PerSeries == Vintages + MaxRetries + 2
StepsInSeries(b) ==
  CASE pc[b] = "idle" -> PerSeries + 1
    [] pc[b] = "series" -> PerSeries
    [] pc[b] \in {"discover", "current", "download"} -> Vintages + Vintage - attempt[b]
    [] pc[b] \in {"resume", "keep"} -> Vintages + 1
    [] pc[b] = "snapshot" -> Cardinality(todo[b]) * Vintage - attempt[b]
    [] OTHER -> Cardinality(todo[b]) * Vintage + 1
StepsLeft(b) ==
  IF pc[b] \in Ended THEN 0 ELSE (Len(left[b]) - 1) * PerSeries + StepsInSeries(b)

(* Every step of an invocation uses up one of them at least, and nothing   *)
(* that the services, the clock or other invocations do gives it more:     *)
(* vintages found late, failed attempts and resumption included.  An       *)
(* invocation makes no more steps, and so no more requests, than StepsLeft *)
(* says at its start.                                                      *)
StateOf(b) ==
  <<pc[b], left[b], years[b], begun[b], stamp[b], todo[b], obs[b], attempt[b]>>
EveryStepIsProgress ==
  [][\A b \in Backfills :
       StateOf(b)' # StateOf(b) => StepsLeft(b)' \in 0 .. StepsLeft(b) - 1]_vars

(* Whatever the services answer, a backfill gets to an end: its retries    *)
(* are bounded, and resumption leaves it finitely many vintages.  (The     *)
(* model's clock may have no reading left for the next series.)            *)
BackfillEnds ==
  \A b \in Backfills :
    pc[b] # "idle" ~> pc[b] \in Ended \/ (pc[b] = "series" /\ now = MaxTime)
=============================================================================
