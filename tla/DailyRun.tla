------------------------------ MODULE DailyRun ------------------------------
(***************************************************************************)
(* The daily run: scripts/daily_run.py, with the parts of                  *)
(* agents/monolithic, instrumentation/store.py, instrumentation/dag.py and *)
(* instrumentation/journal.py it drives.                                   *)
(*                                                                         *)
(* A process is one invocation of the script.  Every store function opens  *)
(* its own connection and commits before it returns, so the invocation     *)
(* takes one step per store call and the database is what the invocations  *)
(* share.  The three configuration files are read when they are needed and *)
(* may be edited at any moment.                                            *)
(*                                                                         *)
(* The uuids of the trace, the decision and the evaluation of invocation r *)
(* are fresh: each table is a function from invocations to its row.        *)
(***************************************************************************)
EXTENDS RiskGateway

CONSTANTS
  Runs,           \* the invocations of daily_run.py
  None,           \* a missing row, an absent value
  MaxTime,        \* bound: the clock reads 1 .. MaxTime when a run starts
  DayOf,          \* the UTC date of each reading of the clock
  MaxToolCalls,   \* bound: tool calls of one agent session
  ToolsUsed,      \* the tools the agent calls, by their kind
  ProposedBooks,  \* the weights it passes to propose_portfolio
  JournalSizes,   \* the n_recent it passes to read_decision_journal
  TokenTotals,    \* token_usage.total of a session
  LimitsFiles,    \* the contents risk_gateway.toml may have
  UniverseFiles,  \* the ticker sets universe.toml may have
  DagFiles,       \* the contents dag/macro.yaml may have
  Overlap,        \* may a run start while another one is running?
  AllowForce,     \* is --force ever given?
  AllowDry        \* is --dry-run ever given?

Time == 1 .. MaxTime
ToolKinds == {"journal", "portfolio", "dag", "propose", "other"}

ASSUME RunsAssumption == None \notin Runs /\ None \notin Book
ASSUME TimeAssumption == MaxTime \in Nat /\ DayOf \in [Time -> Nat]
ASSUME AgentAssumption ==
  /\ MaxToolCalls \in Nat
  /\ ToolsUsed \subseteq ToolKinds
  /\ ProposedBooks \subseteq Book
  /\ JournalSizes \subseteq Nat
  /\ TokenTotals \subseteq Nat
ASSUME FilesAssumption ==
  /\ LimitsFiles \subseteq LimitsType
  /\ UniverseFiles \subseteq SUBSET Symbols
  /\ None \notin LimitsFiles /\ None \notin DagFiles
ASSUME FlagsAssumption == {Overlap, AllowForce, AllowDry} \subseteq BOOLEAN

VARIABLES
  clock,         \* the last reading of the clock
  pc,            \* where each invocation is
  run,           \* the local state of each invocation
  traces,        \* table agent_traces
  decisions,     \* table portfolio_decisions
  evals,         \* table risk_gateway_evaluations
  snapshots,     \* table causal_dag_snapshots
  limitsFile,    \* config/risk_gateway.toml
  universeFile,  \* config/universe.toml
  dagFile        \* config/dag/macro.yaml

tables == <<traces, decisions, evals, snapshots>>
files == <<limitsFile, universeFile, dagFile>>
vars == <<clock, pc, run, tables, files>>

----------------------------------------------------------------------------
Working == {"checking", "agent", "dag", "returned", "traced", "evaluated",
            "decided", "audited", "linked"}
Ended == {"skipped", "done", "failed", "crashed"}

(* A snapshot is named by its unique index (source_file_hash, as_of); a    *)
(* hash stands for the content it is the hash of.                          *)
Snapshot == [hash : DagFiles, asOf : Time]

(* A RiskGatewayEvaluation.  The marker of a run without a proposal has    *)
(* the hash "no-eval" and an empty input_state: None in both places.       *)
Evaluation ==
  [book : Book, tokens : Nat, baseline : Book \cup {None},
   hash : LimitsFiles \cup {None}, result : DecisionType,
   blocking : SUBSET (HardChecks \cup SoftChecks \cup {"no_proposal"})]

(* agent_trace_id is the trace of the same run, and is left out.           *)
DecisionRow ==
  [proposedAt : Time, book : Book, result : DecisionType,
   eval : Runs \cup {None}]

TraceRow ==
  [asOf : Time, proposal : Book \cup {None}, tokens : Nat,
   dag : Snapshot \cup {None}, parent : Runs \cup {None}]

(* The arguments, the RunContext and the local variables of main.          *)
RunType ==
  [asOf : Time \cup {0}, force : BOOLEAN, dry : BOOLEAN,
   calls : 0 .. MaxToolCalls,
   storable : BOOLEAN,              \* are the tool calls valid jsonb?
   proposal : Book \cup {None},     \* ctx._proposal
   viewed : Book \cup {None},       \* the portfolio the agent was shown
   seen : SUBSET Runs,              \* the decisions the agent was shown
   loaded : DagFiles \cup {None},   \* the DAG content read from the file
   shown : DagFiles \cup {None},    \* the DAG content the agent was shown
   dag : Snapshot \cup {None},      \* ctx.dag_snapshot_id
   tokens : Nat,
   ev : Evaluation \cup {None}]

NewRun(t, force, dry) ==
  [asOf |-> t, force |-> force, dry |-> dry, calls |-> 0,
   storable |-> TRUE, proposal |-> None, viewed |-> None, seen |-> {},
   loaded |-> None, shown |-> None, dag |-> None, tokens |-> 0, ev |-> None]

ASSUME NoneAssumption ==
  None \notin Snapshot /\ None \notin TraceRow /\ None \notin DecisionRow
    /\ None \notin Evaluation

Init ==
  /\ clock = 0
  /\ pc = [r \in Runs |-> "idle"]
  /\ run = [r \in Runs |-> NewRun(0, FALSE, FALSE)]
  /\ traces = [r \in Runs |-> None]
  /\ decisions = [r \in Runs |-> None]
  /\ evals = [r \in Runs |-> None]
  /\ snapshots = {}
  /\ limitsFile \in LimitsFiles
  /\ universeFile \in UniverseFiles
  /\ dagFile \in DagFiles

----------------------------------------------------------------------------
(* Queries.                                                                *)
Running(r) == pc[r] \in Working
Decided == {q \in Runs : decisions[q] # None}
Approved == {q \in Decided : decisions[q].result = "approved"}

(* ORDER BY proposed_at DESC LIMIT 1                                       *)
Latest(S) ==
  CHOOSE q \in S : \A p \in S : decisions[p].proposedAt <= decisions[q].proposedAt

(* The rows of portfolio_decisions proposed after p's, and the n most      *)
(* recent of all.                                                          *)
NewerThan(p) == {q \in Decided : decisions[q].proposedAt > decisions[p].proposedAt}
Recent(n) == {p \in Decided : Cardinality(NewerThan(p)) < n}

(* Mutations: the latest decision whatever its verdict, and an idempotency *)
(* check that looks for an approved one.                                   *)
LatestBook == IF Decided = {} THEN Cash ELSE decisions[Latest(Decided)].book
approved_for_day(t) ==
  \E q \in Approved : DayOf[decisions[q].proposedAt] = DayOf[t]

(* latest_approved_decision, read as a portfolio.                          *)
CurrentBook == IF Approved = {} THEN Cash ELSE decisions[Latest(Approved)].book

decision_exists_for_day(t) ==
  \E q \in Decided : DayOf[decisions[q].proposedAt] = DayOf[t]

(* INSERT ... ON CONFLICT DO UPDATE: only the columns of the SET clause    *)
(* change when the row is there, whatever row was given.                   *)
write_trace(r, row) ==
  traces' = [traces EXCEPT ![r] =
               IF traces[r] = None THEN row
               ELSE [traces[r] EXCEPT !.proposal = row.proposal,
                                      !.tokens = row.tokens, !.dag = row.dag]]

write_decision(r, row) ==
  decisions' = [decisions EXCEPT ![r] =
                  IF decisions[r] = None THEN row
                  ELSE [decisions[r] EXCEPT !.result = row.result,
                                            !.eval = row.eval]]

----------------------------------------------------------------------------
(* main: the command line, and now = _utcnow().                            *)
Invoke(r, t, force, dry) ==
  /\ pc[r] = "idle"
  /\ Overlap \/ \A q \in Runs : ~Running(q)
  /\ t > clock
  /\ force => AllowForce
  /\ dry => AllowDry
  /\ clock' = t
  /\ run' = [run EXCEPT ![r] = NewRun(t, force, dry)]
  /\ pc' = [pc EXCEPT ![r] = "checking"]
  /\ UNCHANGED <<tables, files>>

CheckDay(r) ==
  /\ pc[r] = "checking"
  /\ pc' = [pc EXCEPT ![r] =
              IF ~run[r].force /\ decision_exists_for_day(run[r].asOf)
              THEN "skipped" ELSE "agent"]
  /\ UNCHANGED <<clock, run, tables, files>>

----------------------------------------------------------------------------
(* The agent's session.  A tool call blocks the event loop until it        *)
(* returns, so a call is one step, or one step per store call it makes.    *)
Call(r, tool) ==
  /\ pc[r] = "agent"
  /\ tool \in ToolsUsed
  /\ run[r].calls < MaxToolCalls

read_decision_journal(r, n) ==
  /\ Call(r, "journal")
  /\ run' = [run EXCEPT ![r] =
               [run[r] EXCEPT !.calls = @ + 1, !.seen = @ \cup Recent(n)]]
  /\ UNCHANGED <<clock, pc, tables, files>>

(* Mutation: the agent is shown the latest decision of any verdict.        *)
read_latest_portfolio(r) ==
  /\ Call(r, "portfolio")
  /\ run' = [run EXCEPT ![r] =
               [run[r] EXCEPT !.calls = @ + 1, !.viewed = LatestBook]]
  /\ UNCHANGED <<clock, pc, tables, files>>

read_current_portfolio(r) ==
  /\ Call(r, "portfolio")
  /\ run' = [run EXCEPT ![r] =
               [run[r] EXCEPT !.calls = @ + 1, !.viewed = CurrentBook,
                  !.seen = @ \cup IF Approved = {} THEN {} ELSE {Latest(Approved)}]]
  /\ UNCHANGED <<clock, pc, tables, files>>

(* Mutations: the same instant for the same day, and any content of the    *)
(* day for the same content.                                               *)
SameInstantSnapshots(r) ==
  {s \in snapshots : s.hash = dagFile /\ s.asOf = run[r].asOf}
AnySnapshots(r) == {s \in snapshots : DayOf[s.asOf] = DayOf[run[r].asOf]}

(* read_causal_dag reads the file; upsert_dag_snapshot looks for a         *)
(* snapshot of the same content and day, and inserts one if it saw none.   *)
SameDaySnapshots(r) ==
  {s \in snapshots : s.hash = dagFile /\ DayOf[s.asOf] = DayOf[run[r].asOf]}

read_causal_dag(r) ==
  /\ Call(r, "dag")
  /\ IF SameDaySnapshots(r) = {}
     THEN /\ pc' = [pc EXCEPT ![r] = "dag"]
          /\ run' = [run EXCEPT ![r] =
                       [run[r] EXCEPT !.calls = @ + 1, !.loaded = dagFile]]
     ELSE /\ pc' = pc
          /\ run' = [run EXCEPT ![r] =
                       [run[r] EXCEPT !.calls = @ + 1, !.loaded = dagFile,
                          !.shown = dagFile,
                          !.dag = CHOOSE s \in SameDaySnapshots(r) :
                            \A z \in SameDaySnapshots(r) : z.asOf <= s.asOf]]
  /\ UNCHANGED <<clock, tables, files>>

(* Mutation: an upsert on the hash alone, that moves the snapshot.         *)
MoveSnapshot(r) ==
  LET snapshot == [hash |-> run[r].loaded, asOf |-> run[r].asOf]
  IN  /\ pc[r] = "dag"
      /\ snapshots' = {s \in snapshots : s.hash # snapshot.hash} \cup {snapshot}
      /\ run' = [run EXCEPT ![r] = [run[r] EXCEPT !.shown = run[r].loaded, !.dag = snapshot]]
      /\ pc' = [pc EXCEPT ![r] = "agent"]
      /\ UNCHANGED <<clock, traces, decisions, evals, files>>

InsertSnapshot(r) ==
  LET snapshot == [hash |-> run[r].loaded, asOf |-> run[r].asOf]
  IN  /\ pc[r] = "dag"
      /\ snapshots' = snapshots \cup {snapshot}
      /\ run' = [run EXCEPT ![r] = [run[r] EXCEPT !.shown = run[r].loaded, !.dag = snapshot]]
      /\ pc' = [pc EXCEPT ![r] = "agent"]
      /\ UNCHANGED <<clock, traces, decisions, evals, files>>

(* An exception in a tool goes to the agent as the result of the call.     *)
InsertSnapshotFails(r) ==
  /\ pc[r] = "dag"
  /\ pc' = [pc EXCEPT ![r] = "agent"]
  /\ UNCHANGED <<clock, run, tables, files>>

(* A later proposal replaces an earlier one.  A NaN weight makes the       *)
(* recorded call, and the trace with it, text that is not JSON.            *)
propose_portfolio(r, book) ==
  /\ Call(r, "propose")
  /\ run' = [run EXCEPT ![r] =
               [run[r] EXCEPT !.calls = @ + 1, !.proposal = book,
                  !.storable = @ /\ Numeric(book)]]
  /\ UNCHANGED <<clock, pc, tables, files>>

(* The read-only tools, and every call that fails: a proposal that does    *)
(* not parse, an unknown symbol.  A backtest of infinite weights records   *)
(* results that are NaN.                                                   *)
OtherTool(r, storable) ==
  /\ Call(r, "other")
  /\ run' = [run EXCEPT ![r] =
               [run[r] EXCEPT !.calls = @ + 1, !.storable = @ /\ storable]]
  /\ UNCHANGED <<clock, pc, tables, files>>

(* Mutation: a ResultMessage without usage leaves no count.                *)
AgentReturnsNoUsage(r, tokens) ==
  /\ pc[r] = "agent"
  /\ run' = [run EXCEPT ![r] = [run[r] EXCEPT !.tokens = None]]
  /\ pc' = [pc EXCEPT ![r] = "returned"]
  /\ UNCHANGED <<clock, tables, files>>

(* query() ends with a ResultMessage, or raises out of main.               *)
AgentReturns(r, tokens) ==
  /\ pc[r] = "agent"
  /\ run' = [run EXCEPT ![r] = [run[r] EXCEPT !.tokens = tokens]]
  /\ pc' = [pc EXCEPT ![r] = "returned"]
  /\ UNCHANGED <<clock, tables, files>>

AgentRaises(r) ==
  /\ pc[r] = "agent"
  /\ pc' = [pc EXCEPT ![r] = "failed"]
  /\ UNCHANGED <<clock, run, tables, files>>

----------------------------------------------------------------------------
(* main, after the agent.                                                  *)
EndDryRun(r) ==
  /\ pc[r] = "returned"
  /\ run[r].dry
  /\ pc' = [pc EXCEPT ![r] = "done"]
  /\ UNCHANGED <<clock, run, tables, files>>

TraceOf(r, parent) ==
  [asOf |-> run[r].asOf, proposal |-> run[r].proposal, tokens |-> run[r].tokens,
   dag |-> run[r].dag, parent |-> parent]

PersistTrace(r) ==
  /\ pc[r] = "returned"
  /\ ~run[r].dry
  /\ IF run[r].storable
     THEN /\ write_trace(r, TraceOf(r, None))
          /\ pc' = [pc EXCEPT ![r] = "traced"]
     ELSE /\ pc' = [pc EXCEPT ![r] = "failed"]
          /\ traces' = traces
  /\ UNCHANGED <<clock, run, decisions, evals, snapshots, files>>

(* not proposal or not proposal.get("weights"): an all-cash proposal {} is *)
(* taken for no proposal at all.                                           *)
NoProposal(r) == run[r].proposal \in {None, Cash}

(* Mutation: no proposal, nothing to record.                               *)
ReturnUndecided(r) ==
  /\ pc[r] = "traced"
  /\ NoProposal(r)
  /\ pc' = [pc EXCEPT ![r] = "done"]
  /\ UNCHANGED <<clock, run, tables, files>>

BuildMarker(r) ==
  /\ pc[r] = "traced"
  /\ NoProposal(r)
  /\ run' = [run EXCEPT ![r] = [run[r] EXCEPT !.ev =
               [book |-> Cash, tokens |-> 0, baseline |-> None, hash |-> None,
                result |-> "rejected", blocking |-> {"no_proposal"}]]]
  /\ pc' = [pc EXCEPT ![r] = "evaluated"]
  /\ UNCHANGED <<clock, tables, files>>

(* load_risk_gateway_config, latest_approved_decision and evaluate.  The   *)
(* order counts are given as 0 and the pnl as None.                        *)
Evaluate(r) ==
  LET proposal == [book |-> run[r].proposal, tokens |-> run[r].tokens]
      state == [book |-> CurrentBook, ordersToday |-> 0, ordersThisWeek |-> 0,
                pnl |-> Unknown]
      verdict == evaluate(proposal, state, limitsFile, universeFile)
  IN  /\ pc[r] = "traced"
      /\ ~NoProposal(r)
      /\ run' = [run EXCEPT ![r] = [run[r] EXCEPT !.ev =
                   [book |-> proposal.book, tokens |-> proposal.tokens,
                    baseline |-> state.book, hash |-> limitsFile,
                    result |-> verdict.result, blocking |-> verdict.blocking]]]
      /\ pc' = [pc EXCEPT ![r] = "evaluated"]
      /\ UNCHANGED <<clock, tables, files>>

(* Mutation: a decision is dated by the end of its day.                    *)
EndOfDayDecision(r, eval) ==
  [proposedAt |-> CHOOSE t \in Time : /\ DayOf[t] = DayOf[run[r].asOf]
                                      /\ \A u \in Time : DayOf[u] = DayOf[t] => u <= t,
   book |-> run[r].ev.book, result |-> run[r].ev.result, eval |-> eval]

(* Decision first, then the evaluation that refers to it, then the         *)
(* decision again with the evaluation's id.                                *)
DecisionOf(r, eval) ==
  [proposedAt |-> run[r].asOf, book |-> run[r].ev.book,
   result |-> run[r].ev.result, eval |-> eval]

(* Mutation: the decision is written once, with the id of the evaluation   *)
(* to come.                                                                *)
WriteLinkedDecision(r) ==
  /\ pc[r] = "evaluated"
  /\ write_decision(r, DecisionOf(r, r))
  /\ pc' = [pc EXCEPT ![r] = "decided"]
  /\ UNCHANGED <<clock, run, traces, evals, snapshots, files>>

WriteDecision(r) ==
  /\ pc[r] = "evaluated"
  /\ write_decision(r, DecisionOf(r, None))
  /\ pc' = [pc EXCEPT ![r] = "decided"]
  /\ UNCHANGED <<clock, run, traces, evals, snapshots, files>>

WriteEvaluation(r) ==
  /\ pc[r] = "decided"
  /\ evals' = [evals EXCEPT ![r] = run[r].ev]
  /\ pc' = [pc EXCEPT ![r] = "audited"]
  /\ UNCHANGED <<clock, run, traces, decisions, snapshots, files>>

(* Mutation: the branch of the marker returns before the second write.     *)
LinkJudged(r) ==
  /\ pc[r] = "audited"
  /\ IF NoProposal(r) THEN decisions' = decisions
                      ELSE write_decision(r, DecisionOf(r, r))
  /\ pc' = [pc EXCEPT ![r] = IF NoProposal(r) THEN "done" ELSE "linked"]
  /\ UNCHANGED <<clock, run, traces, evals, snapshots, files>>

(* The branch of the marker returns here; the other one has the trace left *)
(* to write again.                                                         *)
LinkEvaluation(r) ==
  /\ pc[r] = "audited"
  /\ write_decision(r, DecisionOf(r, r))
  /\ pc' = [pc EXCEPT ![r] = IF NoProposal(r) THEN "done" ELSE "linked"]
  /\ UNCHANGED <<clock, run, traces, evals, snapshots, files>>

RelinkTrace(r) ==
  /\ pc[r] = "linked"
  /\ write_trace(r, TraceOf(r, r))
  /\ pc' = [pc EXCEPT ![r] = "done"]
  /\ UNCHANGED <<clock, run, decisions, evals, snapshots, files>>

(* The process is killed, or a store call raises: the transaction of the   *)
(* step under way is rolled back, the committed ones stay.                 *)
Crash(r) ==
  /\ Running(r)
  /\ pc' = [pc EXCEPT ![r] = "crashed"]
  /\ UNCHANGED <<clock, run, tables, files>>

----------------------------------------------------------------------------
(* Hand edits of the configuration files.                                  *)
EditLimits ==
  /\ limitsFile' \in LimitsFiles \ {limitsFile}
  /\ UNCHANGED <<clock, pc, run, tables, universeFile, dagFile>>
EditUniverse ==
  /\ universeFile' \in UniverseFiles \ {universeFile}
  /\ UNCHANGED <<clock, pc, run, tables, limitsFile, dagFile>>
EditDag ==
  /\ dagFile' \in DagFiles \ {dagFile}
  /\ UNCHANGED <<clock, pc, run, tables, limitsFile, universeFile>>

AgentStep(r) ==
  \/ \E n \in JournalSizes : read_decision_journal(r, n)
  \/ read_current_portfolio(r)
  \/ read_causal_dag(r)
  \/ \E book \in ProposedBooks : propose_portfolio(r, book)
  \/ \E storable \in BOOLEAN : OtherTool(r, storable)
  \/ \E tokens \in TokenTotals : AgentReturns(r, tokens)
  \/ AgentRaises(r)

ProgramStep(r) ==
  \/ CheckDay(r)
  \/ InsertSnapshot(r)
  \/ InsertSnapshotFails(r)
  \/ EndDryRun(r)
  \/ PersistTrace(r)
  \/ BuildMarker(r)
  \/ Evaluate(r)
  \/ WriteDecision(r)
  \/ WriteEvaluation(r)
  \/ LinkEvaluation(r)
  \/ RelinkTrace(r)

Next ==
  \/ \E r \in Runs :
       \/ \E t \in Time, force \in BOOLEAN, dry \in BOOLEAN : Invoke(r, t, force, dry)
       \/ AgentStep(r)
       \/ ProgramStep(r)
       \/ Crash(r)
  \/ EditLimits
  \/ EditUniverse
  \/ EditDag

Spec == Init /\ [][Next]_vars

(* An invocation whose next step is its own keeps taking steps until it    *)
(* crashes.  Nothing makes the agent answer: query() has no timeout.       *)
FairSpec == Spec /\ \A r \in Runs : WF_vars(ProgramStep(r))

----------------------------------------------------------------------------
TypeOK ==
  /\ clock \in Time \cup {0}
  /\ pc \in [Runs -> Working \cup Ended \cup {"idle"}]
  /\ run \in [Runs -> RunType]
  /\ traces \in [Runs -> TraceRow \cup {None}]
  /\ decisions \in [Runs -> DecisionRow \cup {None}]
  /\ evals \in [Runs -> Evaluation \cup {None}]
  /\ snapshots \subseteq Snapshot
  /\ limitsFile \in LimitsFiles
  /\ universeFile \in UniverseFiles
  /\ dagFile \in DagFiles

(* The foreign keys of the schema hold, and so does the reference to a     *)
(* snapshot that a trace carries in its output column and no constraint    *)
(* guards: whatever the order of the commits and wherever a run stops, no  *)
(* row names a row that is not there.                                      *)
ReferentialIntegrity ==
  \A r \in Runs :
    /\ decisions[r] # None => traces[r] # None
    /\ evals[r] # None => decisions[r] # None
    /\ decisions[r] # None /\ decisions[r].eval # None =>
         evals[decisions[r].eval] # None
    /\ traces[r] # None /\ traces[r].dag # None => traces[r].dag \in snapshots

(* The three records of one run tell one story.  A decision is the book    *)
(* the traced agent proposed, with the verdict of its own evaluation; and  *)
(* one without an evaluation is the mark of a run that has not finished or *)
(* never will: no run that returned 0 leaves one.                          *)
AuditTrail ==
  \A r \in Decided :
    /\ decisions[r].proposedAt = traces[r].asOf
    /\ decisions[r].book = IF traces[r].proposal = None THEN Cash
                           ELSE traces[r].proposal
    /\ IF decisions[r].eval = None
       THEN pc[r] \in {"decided", "audited", "crashed"}
       ELSE /\ evals[decisions[r].eval].book = decisions[r].book
            /\ evals[decisions[r].eval].result = decisions[r].result

(* No book on disk is approved beyond the limits it was judged by, and     *)
(* none holds a NaN: the gateway would let one pass, but the trace that    *)
(* has to be written first cannot carry it.                                *)
ApprovedWithinCaps ==
  \A r \in Approved :
    /\ run[r].ev.hash \in LimitsFiles
    /\ WithinLimits(decisions[r].book, run[r].ev.baseline, run[r].ev.hash)

(* The portfolio a verdict was based on is all cash or a book the gateway  *)
(* had approved and committed, never one of a run that did not get so far. *)
BaselineWasApproved ==
  \A r \in Runs :
    evals[r] # None /\ evals[r].hash # None =>
      \/ evals[r].baseline = Cash
      \/ \E q \in Approved \ {r} : decisions[q].book = evals[r].baseline

(* An exit status of 0 is not a lost day: a run that returned 0, other     *)
(* than a dry one, leaves a decision for its day in the table, its own or  *)
(* the one that made it skip.                                              *)
SuccessMeansDecided ==
  \A r \in Runs :
    pc[r] \in {"skipped", "done"} /\ ~(run[r].dry /\ pc[r] = "done") =>
      decision_exists_for_day(run[r].asOf)

(* The content the agent was shown is the content of the snapshot the      *)
(* trace names, of the day of the run, whatever edits of the file and      *)
(* snapshots of other runs came in between.                                *)
SnapshotIsWhatTheAgentSaw ==
  \A r \in Runs :
    traces[r] # None /\ run[r].shown # None =>
      /\ traces[r].dag.hash = run[r].shown
      /\ DayOf[traces[r].dag.asOf] = DayOf[traces[r].asOf]

----------------------------------------------------------------------------
(* What holds when no run starts before the last one has ended, wherever   *)
(* the runs before it crashed.                                             *)

Before(q, r) == decisions[q].proposedAt < decisions[r].proposedAt

(* A day has one decision; another one is there only if --force asked for  *)
(* it (the idempotency check of main).                                     *)
OneDecisionPerDay ==
  \A q, r \in Decided :
    Before(q, r) /\ DayOf[decisions[q].proposedAt] = DayOf[decisions[r].proposedAt]
      => run[r].force

(* Each approved book was judged against the one approved before it: the   *)
(* approved decisions form one chain of portfolios.                        *)
ApprovedBefore(r) == {q \in Approved : Before(q, r)}
ApprovedChain ==
  \A r \in Approved :
    run[r].ev.baseline = IF ApprovedBefore(r) = {} THEN Cash
                         ELSE decisions[Latest(ApprovedBefore(r))].book

(* The agent of a run sees no decision made after the run's as_of, though  *)
(* neither the journal nor the portfolio is queried with it.               *)
NoLookahead ==
  \A r \in Runs : \A q \in run[r].seen :
    decisions[q] # None /\ decisions[q].proposedAt < run[r].asOf

(* The portfolio the agent was shown is the one the gateway takes for the  *)
(* current one, though the two read the table at different times.          *)
AgentAndGatewayAgree ==
  \A r \in Runs :
    evals[r] # None /\ evals[r].hash # None /\ run[r].viewed # None =>
      evals[r].baseline = run[r].viewed

(* A content of the DAG has one snapshot a day.                            *)
OneSnapshotPerDay ==
  \A s, z \in snapshots :
    s.hash = z.hash /\ DayOf[s.asOf] = DayOf[z.asOf] => s = z

----------------------------------------------------------------------------
(* A decision that was committed keeps its book, its time and its verdict, *)
(* and its reference to an evaluation is set once; evaluations and         *)
(* snapshots are never changed.                                            *)
HistoryIsKept ==
  [][/\ \A r \in Decided :
          /\ decisions'[r] # None
          /\ [decisions'[r] EXCEPT !.eval = None]
               = [decisions[r] EXCEPT !.eval = None]
          /\ decisions[r].eval \in {None, decisions'[r].eval}
     /\ \A r \in Runs : evals[r] \in {None, evals'[r]}
     /\ snapshots \subseteq snapshots']_vars

(* An answer of the agent that can be stored is in the end recorded as a   *)
(* decision with its evaluation, unless the run crashes.                   *)
Recorded(r) == decisions[r] # None /\ decisions[r].eval # None
AnswerIsRecorded ==
  \A r \in Runs :
    pc[r] = "returned" /\ ~run[r].dry /\ run[r].storable
      ~> Recorded(r) \/ pc[r] = "crashed"
=============================================================================
