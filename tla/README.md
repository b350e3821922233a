# A TLA+ model of autonomous-investor

autonomous-investor runs a language-model agent once a day. The agent reads
prices, macro series, a causal DAG and its own past decisions, and proposes the
weights of a portfolio; a deterministic risk gateway approves or rejects the
proposal; three records (trace, decision, evaluation) are written to Postgres.
Two backfill scripts fill the bitemporal tables of prices and macro series the
agent reads, and a backtest harness reads the prices back. This directory models
what decides and records, what ingests and what answers queries; it checks the
models with TLC on small instances and proves their main properties with TLAPS
for every number of runs, backfills, days, books and files. Paths below are
relative to `src/`.

## 1. Inventory

| Component | State it keeps | Operations | What makes it correct |
|---|---|---|---|
| Risk gateway (`substrate/risk_gateway`) | none | `evaluate`, `order_count` | the verdict and the named checks are those of its docstring, at every tolerance and sign; holding what was approved is approved; looser files approve more |
| Daily run (`scripts/daily_run.py`) | argument flags, `now`, trace, evaluation, decision (local) | check of the day, agent, dry-run return, marker branch, evaluation, six writes | one decision a day; exit 0 means the day has a decision; the three records agree; the approved books form one chain |
| Run store (`instrumentation/store.py`, `journal.py`, `dag.py`) | tables `agent_traces`, `portfolio_decisions`, `risk_gateway_evaluations`, `causal_dag_snapshots` | two upserts, two inserts, latest approved, exists for day, recent decisions | no row names a missing row; what was committed is not rewritten; one snapshot a day per content |
| Monolithic agent (`agents/monolithic`) | the RunContext: `as_of`, tool calls, proposal, snapshot id | nine tools, a session that returns or raises | the agent sees nothing later than `as_of`; the trace names what it was shown |
| Configuration (`substrate/config.py`, `config/`) | `risk_gateway.toml`, `universe.toml`, `dag/macro.yaml`, ... | loads, edits by hand | the persisted hash tells the limits a verdict was made with |
| Bitemporal query (`substrate/bitemporal/query.py`) | tables `bitemporal_market_prices`, `bitemporal_macro_observations`; rows are only added | `point_in_time`, `insert_fact`, `bulk_insert_facts` | the latest value known by a time, per period; one answer, however rows tie |
| Macro ingestion (`substrate/ingest/macro.py`, `scripts/backfill_macro.py`) | the vintages still to fetch, the rows of one answer (local) | discovery, resumption, one request and one transaction per vintage; today's view of the other series; retry with a bound | every past day is answered with what was public on it, whatever crashed and was resumed; a stale view never wins; the backfill ends |
| Price ingestion (`substrate/ingest/prices.py`, `scripts/backfill_prices.py`) | the symbols left (local) | stamp, download, insert, per symbol | as for the macro series without vintages |
| Backtest (`substrate/backtest/harness.py`) | the panel (local) | one query per symbol, the monthly rebalance | the panel is that of one moment; no rebalance makes or loses money; later prices do not change earlier days |
| Migrations (`scripts/run_migrations.py`) | `schema_migrations` | apply what is missing | each migration once, a crash leaves a prefix |
| Trace viewer, deployment | none | SELECTs, container | not modelled: no state of the program |

How they interact: cron starts the script; the script calls the store, the agent
and the gateway; the tools call `journal.py`, `dag.py`, `store.py`, the bitemporal
query and the backtest. The backfills call FRED, ALFRED and Yahoo and insert
facts; the backtest loads its panel with one query per symbol. Everything that
outlives a process is in Postgres, and every store function and every query opens
its own connection and commits before it returns (`store.py:30-33`): the unit of
atomicity is one call. Nothing prevents two invocations of one script from running
at the same time; no constraint of the schema limits the decisions of a day or the
rows of a vintage.

What is hard: the minutes between the check of the day and the decision it
guards; a crash between any two of the commits; three reads of the "current
portfolio" at three moments; two upserts that change a fixed list of columns;
hand edits of the files while a run is under way; NaN in a proposal. In ingestion:
services that publish between discovery and fetch, a stamp taken before a download
that may take minutes, a backfill that resumes what another one has left half
done, two of them at once. In the backtest: a panel read in several transactions,
restatements, gaps. `hazards` in PROJECT.json lists these, line by line, with the
properties aimed at them.

## 2. Modules

| Module | Models or states |
|---|---|
| `RiskGateway` | `gateway.py` and `types.py` as operators: `Fires` (the seven checks), `Resolve` (hard checks reject, soft ones ask), `evaluate`, `order_count`, and `WithinLimits`, what an approval promises |
| `GatewayVerdicts` | one call of `evaluate` on any input, and a second statement of the docstring to compare it with |
| `DailyRun` | the invocations, the four tables, the three files; its invariants |
| `DecisionLog` | the abstract specification: a ledger with one judged decision a day |
| `DailyRunLog` | the refinement mapping from `DailyRun` to `DecisionLog` |
| `DailyRunClaims` | sentences of the repository that its code contradicts |
| `DailyRunInv` | the inductive invariants |
| `Bitemporal` | `query.py` as operators on the set of rows: `point_in_time` is the set of answers a call may give, ties included |
| `Ingestion` | the invocations of the two backfill scripts, the two tables, and the services that publish meanwhile; over `Bitemporal` |
| `IngestionInv` | its inductive invariant |
| `Backtest` | one call of `run_monthly_rebalance` while prices are ingested; over `Bitemporal`; a sentence that it contradicts is at its end |
| `MCDailyRun`, `MCGatewayVerdicts`, `MCIngestion`, `MCBacktest` | instances for TLC |
| `SumTheorems` | sums and products over finite sets: lemmas, of no part of the system |
| `RiskGatewayProofs`, `GatewayVerdictsProofs`, `DailyRunProofs`, `BetweenRunsProofs`, `LedgerProofs`, `IngestionProofs`, `BacktestProofs` | theorems |

`DailyRun` composes the script, the store, the agent and the gateway (`RiskGateway`
by EXTENDS); `Ingestion` and `Backtest` are composed with the query they depend on.
Definitions marked "Mutation" are wrong variants of the definition after them, kept
to see that each property notices such a mistake; no specification uses them.

### DailyRun and the code

An invocation is a process `r`; `pc[r]` says which store call comes next.

| `pc` | code | action |
|---|---|---|
| `idle` | not started | `Invoke`: arguments, `now` |
| `checking` | `daily_run.py:59` | `CheckDay` |
| `agent` | `run_agent` | the tools, `AgentReturns`, `AgentRaises` |
| `dag` | inside `read_causal_dag`, the file read and no snapshot of the day found | `InsertSnapshot`, `InsertSnapshotFails` |
| `returned` | line 72 | `EndDryRun`, `PersistTrace` |
| `traced` | line 83 | `BuildMarker` (no proposal) or `Evaluate` |
| `evaluated`, `decided`, `audited` | lines 98-103, 154-157 | `WriteDecision`, `WriteEvaluation`, `LinkEvaluation` |
| `linked` | lines 159-161 | `RelinkTrace` |
| `skipped`, `done`, `failed`, `crashed` | exit 0, exit 0, an exception, a kill | none |

Choices worth knowing:

* `run[r]` holds the RunContext and the locals of `main`. `viewed`, `seen` and
  `shown` record what the tools returned to the agent; no guard reads them.
* A table is a function from runs to the row of that run, since each run makes
  one fresh uuid for its trace, its decision and its evaluation. `write_trace`
  and `write_decision` are upserts that change only the columns of the `SET`
  clause.
* `proposed_at` is `now` of the invocation, a reading of the clock. Readings
  increase, also between runs that overlap. `DayOf` gives the UTC date of each.
  `proposed_at::date` in SQL uses the time zone of the session; the model takes
  it to be UTC.
* Books are functions from symbols to integer weights or `NaN`. `json.loads` and
  `float()` accept NaN; Postgres refuses it in a jsonb column, so a trace that
  carries one cannot be written (`storable`). An infinite weight is not a value
  of the model: `abs` of it is above every cap, so it is rejected by the position
  check, and for storage it is like a NaN.
* `evaluate` is given the order counts as 0 and the pnl as None, as `main` does.
* `Evaluate` reads the two configuration files and the table in one step,
  where the code has three reads. The files can be edited and edited back
  between any two steps, so every combination the three reads can return is one
  this step can see.
* A crash ends the process at any point. A store call that raises is the same
  to the database: its transaction is rolled back.
* The agent is a nondeterministic choice of at most `MaxToolCalls` tools. The
  read-only data tools are `OtherTool`: what they return does not reach any state
  of the program.

### Ingestion and the code

An invocation of `scripts/backfill_macro.py` or `scripts/backfill_prices.py` is a
process `b`; `left[b]` are the series its loop has not finished.

| `pc` | code | action |
|---|---|---|
| `idle` | not started | `backfill_macro`, `ingest_universe` (takes the date all symbols start from, `prices.py:82`) |
| `series` | head of the loop | `BeginSeries` (`macro.py:114-117`, `148-155`), `BeginSymbol` (`prices.py:52`): the reading of the clock, and the error of 29 February |
| `discover` | `macro.py:158-171` | `Discover`: the dates of the vintages |
| `resume` | `macro.py:173-176` | `Resume`: less those the table has |
| `snapshot` | `macro.py:180-201` | `Snapshot`: the series as it was on one date, stamped noon UTC |
| `store` | `macro.py:203` | `Store`: one transaction, then the next vintage or the next series |
| `current`, `keep` | `macro.py:119-131` | `FetchLatest`, `StoreLatest`: today's view, stamped with the reading of `BeginSeries` |
| `download`, `keep` | `prices.py:54-79` | `Download`, which may come back empty, and `StoreLatest` |
| `done`, `failed` | exit 0, an exception or a kill | none |

`RequestRetries` and `RequestRaises` are `_request_with_retry` at each request;
`Crash` is a kill or a failed database call at any point; `Release` is a service
that publishes. Choices worth knowing:

* The value of a row is named by the release it is from: a release revises every
  period it covers, and periods get their first figure `Lag` days after them.
  A figure that a release gives as "." (`Withheld`), or not as a number, makes no row
  (`macro.py:242-247`): the figure of an earlier release, if there is one, goes on
  being served. `vintage_date`, a column of the macro table, is then the day of the value.
* Vintages are told apart by their date (`macro.py:174`), so the model lets a
  vintage-tracked series be released once a day at most.
* A reading of the clock that becomes an `as_of` is not repeated: readings have
  microseconds. `Noon` places noon UTC of each day between the readings.
* A year back is a number of days back; `NoSuchDate` says when
  `replace(year=...)` raises.
* The table is a set: rows equal in every column are one, since no query counts.
* Backoff and throttling are delays only, and are left out.

### Backtest and the code

`Query(s)` is one call of `point_in_time` in `load_price_panel` (`harness.py:46-58`),
in any order; `Ingest` is the commit of a price backfill between two of them;
`Simulate` is the rest of `run_monthly_rebalance`: the two errors, the rebalance days,
and the recursion over the days that keeps shares and cash (`Books`), with the
first rebalance replaced by the deposit. Weights are numbers of parts, not
negative; shares and dollars are integers, and what a division leaves over stays
in cash, as it does in the code with floats up to rounding.

## 3. Runs, bounds, and what they show

| Run | Instance | Shows |
|---|---|---|
| `Seq` | 2 runs, one after the other, `--force` possible, 3 readings of the clock over 2 days, 2 tool calls out of propose, portfolio, journal, DAG; 2 contents of the DAG file | `TypeOK`, `OneDecisionPerDay`, `ApprovedChain`, `NoLookahead`, `AgentAndGatewayAgree`, `OneSnapshotPerDay`, `SnapshotIsWhatTheAgentSaw` |
| `Ovl` | 2 runs that may overlap, `--dry-run` possible, proposals approved, rejected, all cash and NaN, limits tightened and loosened at any moment | `ReferentialIntegrity`, `AuditTrail`, `SuccessMeansDecided`, `ApprovedWithinCaps`, `BaselineWasApproved`, and the action property `HistoryIsKept` |
| `Ledger` | 3 unforced runs, one after the other | `DailyRun` implements `DecisionLog` |
| `Live` | 2 runs that may overlap, both files edited, fairness | `AnswerIsRecorded` |
| `Gateway` | every call over 2 symbols, 6 weights and NaN, 3 limit files, 2 whitelists | `VerdictIsExact`, `HoldIsApproved`, `LooserLimitsApprove` |
| `Backfill` | 2 backfills, of one vintage-tracked series (a longer window, and a shorter one that does another series first), of one without vintages, or of one symbol; 5 readings over 3 days, 2 releases, of which the second may take a figure back, 2 attempts per request; fairness | `TypeOK`, `HistoryIsAsPublished`, `NoStaleWinner`, `AnswerIsUnambiguous`, the action properties `SettledViewIsFixed` and `EveryStepIsProgress`, the liveness property `BackfillEnds` |
| `Backtest` | every table of 2 symbols over 4 days in 3 months, one with gaps; a restatement and a withdrawn price ingested at any moment; 2 books, 3 values of `known_as_of` | `TypeOK`, `PanelIsReproducible`, `WealthIsExact`, `CurvesAgree` |

Why the bounds are enough: a pair of runs is what each property of `Seq` and `Ovl`
relates (a decision and the one before it, a snapshot and its duplicate, a verdict
and its baseline); three readings over two days contain "same day" and "next day"
for the same pair. `Ledger` has two days and no `--force`, so at most two decisions,
and each day can have a run that crashes on the way and one that does it again. Two
tool calls contain "propose twice", "propose after having looked", "read the DAG
twice with an edit in between". In `Gateway` the weights lie on both sides of
every cap, of the tolerance and of the order epsilon. In `Backfill` two releases are
a figure and its revision, or its withdrawal, two backfills are a crashed one and the
one that resumes it, or two at once; three days are the least in which a revision, its backfill and
a day before both are apart, and there are days with two readings, one of them
before noon. In `Backtest` the months have one and two days, so a month has a day
that is not a rebalance, and the gaps put the first common day in any of them.
Prices are powers of 2 and `InitialCash` a large one, so no division leaves
anything over and `WealthIsExact` can be an equation. The theorems of section 4 hold
without any of these bounds. Deadlock is not checked anywhere: invocations end,
and a system in which all have ended stops.

What the less obvious properties say:

* `HistoryIsAsPublished` is the contract of the vintages (`macro.py:190-195`): once a
  backfill has got through a series, asking for a period as known on an earlier
  day gives exactly what was public on that day, nothing if it was nothing; a figure
  given as "." leaves public what was. The day begins at its noon. It excuses periods
  before the first day of some backfill, because resumption goes by date alone: a vintage fetched with a short `--years` counts as done for a longer
  one (`macro.py:174`). Without the excuse TLC shows the hole.
* `NoStaleWinner` is why `as_of` is read before the fetch: a view that wins has all
  that was public when any view known by then was stamped.
* `SettledViewIsFixed` is why it must not be read *long* before: until the views
  stamped by `k` are stored, what was known at `k` changes.
* `EveryStepIsProgress` bounds the steps of an invocation, and with them its requests, by a
  number known when it starts. `StepsLeft` allows a request `MaxRetries` attempts, a series
  one request for its vintages and one, with a transaction, for each day. Each own step
  uses up one of these at least, whatever a discovery, a failed attempt or the work of
  another backfill turns up, and no other step gives any back.
* `WealthIsExact` compares the bookkeeping with the growth of the weights, written
  without shares or cash.
* `CurvesAgree` compares two calls: no price of a later day, and none the two calls
  see alike, has a say in an earlier part of the curve.

Fairness. `FairSpec` is weak fairness of `ProgramStep(r)` for each run: the code
between two store calls is straight-line, the calls are synchronous, and a step,
once enabled, stays enabled until it is taken or the run crashes. The agent is not
assumed fair: `query()` has no timeout (`agent.py:88`), and a session that never
ends holds its run for ever. `AnswerIsRecorded` starts at the end of the session.
For `Ingestion` it is weak fairness of `ProgramStep(b)`, a step of the script itself: a
request is answered or times out after 60 s (`macro.py:55`), each alternative is one
of its disjuncts, and it stays enabled until it is taken or the process crashes.
Nothing is assumed of the services, which need never publish nor answer.
`BackfillEnds` excepts a clock that has reached `MaxTime`, the bound of the model.

### Disagreements between the code and its documentation

Five runs refute a sentence of the repository; PROJECT.json quotes them.

* `RelinkLost`: the last write of `main` sets `parent_decision_id`, and the upsert
  of `write_trace` does not list that column. No trace ever names its decision.
* `CashProposal`: a proposal of all cash, `{}`, is falsy: it is recorded as "no
  proposal" and the invested book stays the current one.
* `HiddenDrift`: the hash in an evaluation covers `risk_gateway.toml` but not
  `universe.toml`, which holds the whitelist.
* `OverlapDecides`: two invocations that overlap decide the same day twice.
* `Lookahead`: "at simulation date T, the backtest sees only data with `as_of <= T`"
  (`harness.py:3-5`). One `known_as_of` serves the whole call, so earlier days are computed
  from restatements that came after them.

Others were seen while modelling and have no run:

* a dry run whose agent reads the DAG inserts a snapshot (`dag.py:34`; the help at
  `daily_run.py:45` says that nothing is persisted);
* a session that raises leaves no trace (`agent.py:87`; `PROJECT_CHARTER.md:54` says
  every invocation produces one);
* the weekly order cap of `risk_gateway.toml` is not enforced: the counts are
  given as 0 (`daily_run.py:121`);
* `evaluate` alone approves a book with a NaN weight (`gateway.py:48-66`); the run as a
  whole does not record one, because the trace is written first and fails
  (`ApprovedWithinCaps`);
* a short position beside a long one is approved, though `risk_gateway.toml:11-12` says
  "Long-only Phase 1";
* invocations that overlap let an agent read a decision made after its `as_of`
  (`journal.py:24`; compare `catalog.py:4-5`), and insert two snapshots of one content
  on one day (`dag.py:21`; compare `dag.py:3-5`). `NoLookahead` and `OneSnapshotPerDay` are
  therefore checked and proved of runs one after the other; so is the agreement of
  the two reads of the portfolio;
* noon UTC of the day of a vintage (`macro.py:193`) is before the hours in which US
  figures come out: between the two, a reader is served what is not public yet, though
  "the value returned is the one that was PUBLISHED" by `as_of` (`catalog.py:156-157`);
* `as_of` of a symbol is read before its download (`prices.py:52`), so a price that comes in
  during the two is served as known before it was (`catalog.py:97-98`);
* a vintage is stamped with the day of its release, whenever it is stored: a later
  backfill changes what the table says was known at a decision's `as_of`, and the
  decision is no longer "reconstructable using exactly the information the system
  had" (`PROJECT_CHARTER.md:50`) from the tables;
* a weight of a symbol that has no rows is left in cash without a word
  (`harness.py:51-52`), though `harness.py:85` says "require all symbols available";
* price rows are stamped with the moment of ingestion, so a historical `known_as_of`,
  the default of `run_baseline_60_40` among them (`harness.py:163-164`), finds no price that
  was backfilled later;
* a later row whose `adj_close` is NULL hides an earlier price of its day;
* an error in one series, 29 February included (`macro.py:155`), ends the loop over all of
  them, and a download that failed leaves its symbol out with exit status 0;
* "every proposed order, from backtest, from agent" passes the gateway, says
  `gateway.py:3-4`; the backtest does not call it;
* the predicate in the header of `query.py:3-6` has `valid_to`; the query does not read it,
  nor `superseded_by`.

## 4. Proofs

`DailyRunProofs` proves that `Inv` of `DailyRunInv` is inductive, for any set of runs, any
clock, any files, with overlapping runs, crashes and edits, and derives from it:

* `TypeCorrect`: `TypeOK`;
* `ReferencesHold`: `ReferentialIntegrity`, whatever the order of the commits of several runs;
* `AuditTrailHolds`: `AuditTrail`, trace, decision and evaluation of a run agree;
* `ApprovalsAreWithinCaps`: `ApprovedWithinCaps`, for every proposal and every edit;
* `SnapshotsAreFaithful`: `SnapshotIsWhatTheAgentSaw`;
* `HistoryHolds`: the action property `HistoryIsKept`.

Why `Inv` is needed: none of the properties is inductive. `AuditTrail` after
`LinkEvaluation` needs that the row in the table is the row in the local variables
(`DecisionInv`); that needs that the evaluation in memory was made from the proposal
the trace was written from (`TraceInv`, `VerdictInv`); `ApprovedWithinCaps` needs that
a proposal with NaN has `storable` false, so that its run never gets to `Evaluate`.
`SnapshotInv` carries the snapshot from the look-up to the trace. Each part speaks of
one run; `OthersKeepInv` shows once and for all that the steps of another run keep
it, because no action touches a row that is not its own and snapshots are only
added. This is why the theorems need no assumption on the schedule.

Assumptions: those of `RiskGateway` and `DailyRun` on the constants: finitely many
symbols, `NaN` and `None` different from the data, weights and limits integers, `DayOf`
a function of the readings. `LimitsType` bounds no limit from above.

`BetweenRunsProofs` adds what relates the runs to each other:

* `SuccessHolds`: `SuccessMeansDecided`, with overlap. It needs that a skipped run found a
  decision of its day (`SkippedInv`) and that decisions stay (`HistoryIsKept`);
* `BaselineHolds`: `BaselineWasApproved`, with overlap. The invariant speaks of the
  evaluation in memory, before it is written (`BaselineInv`);
* `SequentialHolds`, and from it `OneDecisionHolds` (`OneDecisionPerDay`) and `NoLookaheadHolds`
  (`NoLookahead`), under the assumption `~Overlap`. The run `OverlapDecides` shows that the
  assumption is needed. The invariant `SequentialInv` says that the run under way is
  alone and the last to have read the clock (`OneAtATime`), and that the day it has
  found free stays free until it decides (`DayIsFree`): without the latter, the
  check of the day says nothing about the moment of the write.

Its second half strengthens `SequentialInv` by what a run has read (`CurrentInv`), under
`~Overlap` again:

* `CurrentHolds`: `CurrentInv` is inductive together with `SequentialInv`. Its parts say that the
  snapshot a run is about to insert is still missing (`SnapshotIsNew`), that the
  portfolio the agent was shown is still the current one or already the baseline
  (`ViewIsCurrent`), and that the baseline is the last book approved by an earlier run
  (`BaselineIsLast`). One lemma carries all three: while a run is under way, no step but
  its own changes a table (`OthersWait`);
* `OneSnapshotHolds` (`OneSnapshotPerDay`), `AgreementHolds` (`AgentAndGatewayAgree`) and `ChainHolds`
  (`ApprovedChain`) follow. For the chain, `EarlierStays` shows that the set of books approved
  by earlier runs, which the baseline was taken from, is what it was.

`RiskGatewayProofs` proves of the operators what the theorems use: `order_count` is a
number, holding a book takes no order, an approved numeric book is within its limits,
approval is monotone in the limits. `GatewayVerdictsProofs` states the gateway's contract for
every finite set of symbols, all weights and all files:

* `VerdictHolds` (`VerdictIsExact`): the verdict and the names of the checks that fired are those
  of the docstring. The code's gross is a sum of magnitudes and its net a sum; the
  docstring speaks of a long side and a short side. `SumOfParts` is the bridge, and
  `FiresAsDocumented` goes through the seven checks, tolerances included;
* `LooserHolds` (`LooserLimitsApprove`): raising limits and adding symbols keeps an approval;
* `HoldApproved` (`HoldIsApproved`): what was approved is approved again when held.

`SumTheorems` is what these and the backtest need of sums. The induction theorems of the
library have an operator as parameter and cannot be used here, but their content can be
said of sets: a nonempty set of naturals has a least member (`SmallestNat`), a nonempty set
of subsets of a finite set a minimal one (`SubsetMin`), both from `WFMin`. A claim about
every subset, or every day, is proved from the smallest of its counterexamples. In this
way `SumExists` shows that the recursion in the definition of the library's sum has a
solution at all, `SumUnique` that it has one, and `SumElement` that the sum does not depend
on the element the CHOOSE takes out first; `SumOfParts`, `SumInProportion` and
`ProductIsMultiple` follow.

`LedgerProofs` proves the refinement, `LedgerImplements`: under `~Overlap` and `~AllowForce`, `Spec`
implies `ImplementsDecisionLog`. `Init` maps to `Init`; `Writers` shows that two actions touch the
table; `DecideStep` maps `WriteDecision` to `Decide` (the day is later than every day decided,
by `DayIsFree` and the order of the clock; the verdict was made against the portfolio of
the ledger, by `BaselineIsLast`; within limits, by `VerdictInv`), and `FileStep` maps
`LinkEvaluation` to `File` (the run under way is the one that decided last); everything
else is a stutter. The one assumption it adds is that a later reading of the clock is
not of an earlier date.

`IngestionProofs` proves, for any number of backfills, series, releases and days, with
crashes, failures and overlap, that `Inv` of `IngestionInv` is inductive
(`InductiveInvariant`), and from it every safety property of `Backfill`: `TypeCorrect`,
`HistoryTheorem`, `NoStaleTheorem`, `UnambiguousTheorem`, `SettledTheorem`. The argument: the clock, the
releases, the rows and the stamps only grow (`NextGrows`, `StampsGrow`), so what is true of a
row stays true (`RowStays`) and a vintage that has all its rows keeps them (`KeptStays`). A
vintage that has one row has all of them (`WholeInv`), because `Store` is one transaction:
that is what resumption by date rests on (`ExistingIsKept`). Each process still has to ask
for, holds, or has stored every early vintage of its series (`ProgressInv`); and a release
that comes while it is at work is not early (`LateRelease`). `StampInv` keeps the stamps of
views apart, which gives `TieInv`. The invariant was model-checked on the instance of
`Backfill` before it was proved.

`ProgressTheorem` (`EveryStepIsProgress`) is the half of `BackfillEnds` that needs no fairness:
from any state, an invocation makes at most `StepsLeft` more steps, a natural number, however
the services answer and whatever others store. Each step is one of the kinds `StepMoves`
lists, by what it does to `pc`, `left`, `todo` and `attempt`; `MovesAreProgress` computes that each
kind lowers the number, `todo` being a set of days (`Allowances`, `InSeries`) and a failed attempt
coming before the last (`MaxRetries`). What is left to TLC is that an invocation is never
stuck before its end.

`BacktestProofs` proves, for every table, stream of batches, call and calendar of months:

* `TypeCorrect`, and `PanelTheorem` (`PanelIsReproducible`): a row known after `known_as_of` is no
  candidate for the query (`PanelStep`), so the answers of earlier queries are answers still;
* `CurvesTheorem` (`CurvesAgree`): two panels that meet up to a day have the same columns, days,
  rebalances and prices up to it, hence the same books, day by day (`SameBooks`), and the
  same equity. `BooksEquation` shows that the recursive function over the days exists and
  satisfies its equation;
* `AccountsTheorem` (`MovesWithPrices`): between two rebalances the equity moves by what the
  shares bought at the first one move, and by nothing else. It holds of any rounding: what
  the divisions leave over is cash;
* `WealthTheorem` (`WealthIsExact`), wherever the divisions of the rebalances leave nothing over
  (`DivisionsAreExact`). In the code a share is a float and is divided; with whole shares
  the equality of `WealthIsExact` is false as soon as one quotient is rounded, so the theorem
  says where it holds. Every state of the instance of `Backtest` satisfies the condition,
  since its prices are powers of 2. `GrowsExactly` brings both sides over the common
  multiple of the prices and uses `SumInProportion` twice.

Assumptions of these: those on the constants stated in `Ingestion` (days and noons in the
order of the clock, disjoint kinds of series, any figures withheld) and `Backtest` (a call weighs finitely many
symbols, as a dict does; prices, `Whole` and `InitialCash` are positive).

Every safety property of the runs that pass is proved, under the conditions named above.
Only model-checked: `AnswerIsRecorded` and `BackfillEnds`, since liveness under fairness and
ENABLED are out of the provers' reach; of the latter, that the number of steps is bounded
is proved.

## 5. What is not modelled

* Migrations: there is one, and it and its mark are one transaction. Of two runners
  the second fails on the table the first has created and is rolled back. No
  order of steps leads anywhere else.
* The trace viewer: SELECTs and text layout.
* The container, cron and secrets; the schedule is "invocations at increasing times".
* Prompt text, the model's reasoning, costs, the wording of reasons, pydantic's
  validation, `models.toml`, the parsing of the configuration files.
* What the read-only data tools return to the agent: it reaches no state of the
  program. The query behind them is `Bitemporal`.
* Sharpe ratio, drawdown and daily returns: float arithmetic with roots.
* Floats are integers of a fixed unit with NaN: rounding inside a sum is not
  modelled; the tolerances are.
* Delays: the backoff, the throttle, the length of a download.

## 6. Plan

Done: `RiskGateway`, `GatewayVerdicts`, `DailyRun`, `DecisionLog` and its refinement, `Bitemporal`,
`Ingestion`, `Backtest`, and the theorems of section 4.

Left, in this order:

1. the agent's data tools over `Bitemporal`, composed with `Ingestion`: what an agent was
   shown at `as_of` against what the table later says was known then;
2. `Migrations`, once there is a second one;
3. counts of orders taken from the table, once `main` computes them, with a bound on
   what a week of approvals can move.
