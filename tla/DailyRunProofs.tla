--------------------------- MODULE DailyRunProofs ---------------------------
(***************************************************************************)
(* Theorems about DailyRun, for every value of its constants.              *)
(***************************************************************************)
EXTENDS DailyRunInv, RiskGatewayProofs

(* A nonempty set of readings of the clock has a last one: what ORDER BY   *)
(* ... DESC LIMIT 1 returns is well defined.                               *)
LEMMA LastTime ==
  ASSUME NEW T, T \subseteq Time, T # {}
  PROVE  \E last \in T : \A t \in T : t <= last
<1> DEFINE Left == {MaxTime - t : t \in T}
<1>1. \A t \in T : t \in Nat /\ MaxTime - t \in Nat
  BY TimeAssumption DEF Time
<1>2. PICK x \in Left : \A y \in Left : x <= y
  <2>1. Left \in SUBSET Nat /\ Left # {}
    BY <1>1
  <2> HIDE DEF Left
  <2> QED  BY <2>1, SmallestNat
<1>3. PICK last \in T : x = MaxTime - last
  OBVIOUS
<1>4. ASSUME NEW t \in T PROVE t <= last
  <2>1. MaxTime - last <= MaxTime - t
    BY <1>2, <1>3
  <2> QED  BY <1>1, <2>1, TimeAssumption
<1> QED  BY <1>4

(* What Latest chooses is in the set, and no row of the set is later.      *)
LEMMA LatestIsLast ==
  ASSUME TypeOK, NEW S, S \subseteq Decided, S # {}
  PROVE  /\ Latest(S) \in S
         /\ \A p \in S : decisions[p].proposedAt <= decisions[Latest(S)].proposedAt
<1> DEFINE T == {decisions[p].proposedAt : p \in S}
<1>1. T \subseteq Time /\ T # {}
  BY DEF TypeOK, Decided, DecisionRow
<1>2. PICK last \in T : \A t \in T : t <= last
  <2> HIDE DEF T
  <2> QED  BY <1>1, LastTime
<1>3. \E q \in S : \A p \in S : decisions[p].proposedAt <= decisions[q].proposedAt
  BY <1>2
<1> QED  BY <1>3 DEF Latest

(* What latest_approved_decision returns, read as a portfolio, is a book.  *)
LEMMA CurrentBookType == TypeOK => CurrentBook \in Book
<1> SUFFICES ASSUME TypeOK PROVE CurrentBook \in Book
  OBVIOUS
<1>1. Cash \in Book
  BY DEF Cash, Book
<1>2. CASE Approved = {}
  BY <1>1, <1>2 DEF CurrentBook
<1>3. CASE Approved # {}
  <2>1. Latest(Approved) \in Approved
    BY <1>3, LatestIsLast DEF Approved
  <2> QED  BY <1>3, <2>1 DEF CurrentBook, Approved, Decided, TypeOK, DecisionRow
<1> QED  BY <1>2, <1>3

(* The gateway returns one of its three results and names its own checks.  *)
LEMMA VerdictType ==
  ASSUME NEW p, NEW s, NEW l, NEW w
  PROVE  /\ evaluate(p, s, l, w).result \in DecisionType
         /\ evaluate(p, s, l, w).blocking \subseteq HardChecks \cup SoftChecks
  BY DEF evaluate, Resolve, DecisionType

(* The empty database, and whatever the files hold, are of their types.    *)
LEMMA InitType == Init => TypeOK
  BY TimeAssumption, AgentAssumption DEF Init, TypeOK, NewRun, RunType, Time

(* Type correctness, one step per action.  An action that changes the      *)
(* local state of r replaces its record.                                   *)
LEMMA RunUpdate ==
  ASSUME TypeOK, NEW r \in Runs, NEW new \in RunType
  PROVE  [run EXCEPT ![r] = new] \in [Runs -> RunType]
  BY DEF TypeOK

(* The command line fills the local state of a run.                        *)
LEMMA InvokeType ==
  ASSUME TypeOK, NEW r \in Runs, NEW t \in Time,
         NEW force \in BOOLEAN, NEW dry \in BOOLEAN, Invoke(r, t, force, dry)
  PROVE  TypeOK'
  BY AgentAssumption DEF TypeOK, Invoke, NewRun, RunType, Working, tables, files

(* The tools of the agent and the end of its session.                      *)
LEMMA AgentType ==
  ASSUME TypeOK, NEW r \in Runs, AgentStep(r)
  PROVE  TypeOK'
<1> DEFINE local == run[r]
<1>1. local \in RunType
  BY DEF TypeOK
<1>2. ASSUME NEW tool, Call(r, tool) PROVE local.calls + 1 \in 0 .. MaxToolCalls
  <2>1. local.calls \in 0 .. MaxToolCalls /\ local.calls < MaxToolCalls
    BY <1>1, <1>2 DEF RunType, Call
  <2> QED  BY <2>1, AgentAssumption
<1> HIDE DEF local
<1>3. ASSUME NEW n \in JournalSizes, read_decision_journal(r, n) PROVE TypeOK'
  <2> DEFINE new == [local EXCEPT !.calls = @ + 1, !.seen = @ \cup Recent(n)]
  <2>1. new \in RunType
    BY <1>1, <1>2, <1>3 DEF read_decision_journal, RunType, Recent, Decided
  <2>2. run' = [run EXCEPT ![r] = new]
    BY <1>3 DEF read_decision_journal, local, TypeOK
  <2> QED
    BY <1>3, <2>1, <2>2, RunUpdate DEF TypeOK, read_decision_journal, tables, files
<1>4. ASSUME read_current_portfolio(r) PROVE TypeOK'
  <2> DEFINE read == IF Approved = {} THEN {} ELSE {Latest(Approved)}
             new == [local EXCEPT !.calls = @ + 1, !.viewed = CurrentBook,
                                  !.seen = @ \cup read]
  <2>1. read \subseteq Runs
    BY LatestIsLast DEF Approved, Decided
  <2>2. run' = [run EXCEPT ![r] = new]
    BY <1>4 DEF read_current_portfolio, local, TypeOK
  <2> HIDE DEF read
  <2>3. new \in RunType
    BY <1>1, <1>2, <1>4, <2>1, CurrentBookType DEF read_current_portfolio, RunType
  <2> QED
    BY <1>4, <2>2, <2>3, RunUpdate DEF TypeOK, read_current_portfolio, tables, files
<1>5. ASSUME read_causal_dag(r) PROVE TypeOK'
  <2> DEFINE S == SameDaySnapshots(r)
             last == CHOOSE s \in S : \A z \in S : z.asOf <= s.asOf
  <2>1. dagFile \in DagFiles /\ local.calls + 1 \in 0 .. MaxToolCalls
    BY <1>2, <1>5 DEF TypeOK, read_causal_dag
  <2>2. CASE S = {}
    <3> DEFINE new == [local EXCEPT !.calls = @ + 1, !.loaded = dagFile]
    <3>1. new \in RunType
      BY <1>1, <2>1 DEF RunType
    <3>2. run' = [run EXCEPT ![r] = new] /\ pc' = [pc EXCEPT ![r] = "dag"]
      BY <1>5, <2>2 DEF read_causal_dag, local, TypeOK
    <3> HIDE DEF new
    <3> QED
      BY <1>5, <3>1, <3>2, RunUpdate
      DEF TypeOK, read_causal_dag, Working, tables, files
  <2>3. CASE S # {}
    <3> DEFINE new == [local EXCEPT !.calls = @ + 1, !.loaded = dagFile,
                         !.shown = dagFile, !.dag = last]
    <3>1. {s.asOf : s \in S} \subseteq Time /\ {s.asOf : s \in S} # {}
      BY <2>3 DEF TypeOK, SameDaySnapshots, Snapshot
    <3>2. \E s \in S : \A z \in S : z.asOf <= s.asOf
      BY <3>1, LastTime
    <3>3. last \in Snapshot
      BY <3>2 DEF TypeOK, SameDaySnapshots
    <3>4. run' = [run EXCEPT ![r] = new] /\ pc' = pc
      BY <1>5, <2>3 DEF read_causal_dag, local, TypeOK
    <3> HIDE DEF last
    <3>5. new \in RunType
      BY <1>1, <2>1, <3>3 DEF RunType
    <3> HIDE DEF new
    <3> QED
      BY <1>5, <3>4, <3>5, RunUpdate DEF TypeOK, read_causal_dag, tables, files
  <2> QED  BY <2>2, <2>3
<1>6. ASSUME NEW book \in ProposedBooks, propose_portfolio(r, book) PROVE TypeOK'
  <2> DEFINE ok == local.storable /\ Numeric(book)
             new == [local EXCEPT !.calls = @ + 1, !.proposal = book, !.storable = ok]
  <2>1. book \in Book /\ ok \in BOOLEAN
    BY AgentAssumption
  <2>2. run' = [run EXCEPT ![r] = new]
    BY <1>6 DEF propose_portfolio, local, TypeOK
  <2> HIDE DEF ok
  <2>3. new \in RunType
    BY <1>1, <1>2, <1>6, <2>1 DEF propose_portfolio, RunType
  <2> HIDE DEF new
  <2> QED
    BY <1>6, <2>2, <2>3, RunUpdate DEF TypeOK, propose_portfolio, tables, files
<1>7. ASSUME NEW storable \in BOOLEAN, OtherTool(r, storable) PROVE TypeOK'
  <2> DEFINE ok == local.storable /\ storable
             new == [local EXCEPT !.calls = @ + 1, !.storable = ok]
  <2>1. ok \in BOOLEAN
    OBVIOUS
  <2>2. run' = [run EXCEPT ![r] = new]
    BY <1>7 DEF OtherTool, local, TypeOK
  <2> HIDE DEF ok
  <2>3. new \in RunType
    BY <1>1, <1>2, <1>7, <2>1 DEF OtherTool, RunType
  <2> HIDE DEF new
  <2> QED
    BY <1>7, <2>2, <2>3, RunUpdate DEF TypeOK, OtherTool, tables, files
<1>8. ASSUME NEW tokens \in TokenTotals, AgentReturns(r, tokens) PROVE TypeOK'
  <2> DEFINE new == [local EXCEPT !.tokens = tokens]
  <2>1. new \in RunType
    BY <1>1, AgentAssumption DEF RunType
  <2>2. run' = [run EXCEPT ![r] = new]
    BY <1>8 DEF AgentReturns, local, TypeOK
  <2> HIDE DEF new
  <2> QED
    BY <1>8, <2>1, <2>2, RunUpdate DEF TypeOK, AgentReturns, Working, tables, files
<1>9. ASSUME AgentRaises(r) PROVE TypeOK'
  BY <1>9 DEF TypeOK, AgentRaises, Ended, tables, files
<1> QED
  BY <1>3, <1>4, <1>5, <1>6, <1>7, <1>8, <1>9 DEF AgentStep

(* The evaluation main builds from a verdict fits the schema.              *)
LEMMA EvaluationType ==
  ASSUME TypeOK, NEW r \in Runs, Evaluate(r)
  PROVE  run'[r].ev \in Evaluation /\ run'[r] \in RunType
<1> DEFINE proposal == [book |-> run[r].proposal, tokens |-> run[r].tokens]
           state == [book |-> CurrentBook, ordersToday |-> 0,
                     ordersThisWeek |-> 0, pnl |-> Unknown]
           verdict == evaluate(proposal, state, limitsFile, universeFile)
           ev == [book |-> run[r].proposal, tokens |-> run[r].tokens,
                  baseline |-> CurrentBook, hash |-> limitsFile,
                  result |-> verdict.result, blocking |-> verdict.blocking]
<1>1. run[r] \in RunType /\ limitsFile \in LimitsFiles
  BY DEF TypeOK
<1>2. run[r].proposal \in Book /\ run[r].tokens \in Nat
  BY <1>1 DEF RunType, Evaluate, NoProposal
<1>3. verdict.result \in DecisionType /\ verdict.blocking \subseteq HardChecks \cup SoftChecks
  BY VerdictType
<1>4. run' = [run EXCEPT ![r] = [run[r] EXCEPT !.ev = ev]]
  BY DEF Evaluate
<1> HIDE DEF verdict
<1>5. ev \in Evaluation
  BY <1>1, <1>2, <1>3, CurrentBookType DEF Evaluation
<1> HIDE DEF ev
<1>6. [run[r] EXCEPT !.ev = ev] \in RunType /\ [run[r] EXCEPT !.ev = ev].ev = ev
  BY <1>1, <1>5 DEF RunType
<1>7. run'[r] = [run[r] EXCEPT !.ev = ev]
  BY <1>4 DEF TypeOK
<1> QED  BY <1>5, <1>6, <1>7

(* The steps of main and of upsert_dag_snapshot.                           *)
LEMMA ProgramType ==
  ASSUME Inv, NEW r \in Runs, ProgramStep(r) \/ Crash(r)
  PROVE  TypeOK'
<1>1. TypeOK /\ RunInv(r) /\ run[r] \in RunType
  BY DEF Inv, TypeOK
<1>2. CASE CheckDay(r)
  BY <1>1, <1>2 DEF TypeOK, CheckDay, Working, Ended, tables, files
<1>3. CASE InsertSnapshot(r)
  <2> DEFINE snapshot == [hash |-> run[r].loaded, asOf |-> run[r].asOf]
             new == [run[r] EXCEPT !.shown = run[r].loaded, !.dag = snapshot]
  <2>1. run[r].loaded \in DagFiles /\ snapshot \in Snapshot
    BY <1>1, <1>3 DEF InsertSnapshot, RunInv, LocalsInv, RunType, Snapshot
  <2>2. run' = [run EXCEPT ![r] = new] /\ snapshots' = snapshots \cup {snapshot}
    BY <1>3 DEF InsertSnapshot
  <2> HIDE DEF snapshot
  <2>3. new \in RunType
    BY <1>1, <2>1 DEF RunType
  <2> HIDE DEF new
  <2> QED
    BY <1>1, <1>3, <2>1, <2>2, <2>3, RunUpdate
    DEF TypeOK, InsertSnapshot, Working, files
<1>4. CASE InsertSnapshotFails(r)
  BY <1>1, <1>4 DEF TypeOK, InsertSnapshotFails, Working, tables, files
<1>5. CASE EndDryRun(r)
  BY <1>1, <1>5 DEF TypeOK, EndDryRun, Ended, tables, files
<1>6. CASE PersistTrace(r)
  <2>1. TraceOf(r, None) \in TraceRow
    BY <1>1, <1>6 DEF PersistTrace, RunInv, LocalsInv, RunType, TraceOf, TraceRow
  <2>2. traces[r] = None
    BY <1>1, <1>6 DEF PersistTrace, RunInv, TraceInv, Traced, Answered
  <2>3. traces' \in [Runs -> TraceRow \cup {None}]
    BY <1>1, <1>6, <2>1, <2>2 DEF PersistTrace, write_trace, TypeOK
  <2> QED
    BY <1>1, <1>6, <2>3 DEF TypeOK, PersistTrace, Working, Ended, files
<1>7. CASE BuildMarker(r)
  <2> DEFINE ev == [book |-> Cash, tokens |-> 0, baseline |-> None, hash |-> None,
                    result |-> "rejected", blocking |-> {"no_proposal"}]
  <2>0. Cash \in Book
    BY DEF Cash, Book
  <2>1. ev \in Evaluation
    BY <2>0 DEF Evaluation, DecisionType
  <2>2. run' = [run EXCEPT ![r] = [run[r] EXCEPT !.ev = ev]]
    BY <1>7 DEF BuildMarker
  <2> HIDE DEF ev
  <2>3. [run[r] EXCEPT !.ev = ev] \in RunType
    BY <1>1, <2>1 DEF RunType
  <2>4. run' \in [Runs -> RunType]
    BY <1>1, <2>2, <2>3, RunUpdate
  <2> QED
    BY <1>1, <1>7, <2>4 DEF TypeOK, BuildMarker, Working, tables, files
<1>8. CASE Evaluate(r)
  <2>1. run'[r] \in RunType /\ run' = [run EXCEPT ![r] = run'[r]]
    BY <1>1, <1>8, EvaluationType DEF Evaluate, TypeOK
  <2>2. run' \in [Runs -> RunType]
    BY <1>1, <2>1, RunUpdate
  <2> QED
    BY <1>1, <1>8, <2>2 DEF TypeOK, Evaluate, Working, tables, files
<1>9. CASE WriteDecision(r)
  <2>1. DecisionOf(r, None) \in DecisionRow /\ decisions[r] = None
    BY <1>1, <1>9 DEF WriteDecision, RunInv, LocalsInv, DecisionInv, Evaluated, Written,
      Traced, Answered, RunType, Evaluation, DecisionOf, DecisionRow
  <2>2. decisions' \in [Runs -> DecisionRow \cup {None}]
    BY <1>1, <1>9, <2>1 DEF WriteDecision, write_decision, TypeOK
  <2> QED
    BY <1>1, <1>9, <2>2 DEF TypeOK, WriteDecision, Working, files
<1>10. CASE WriteEvaluation(r)
  <2>1. run[r].ev \in Evaluation
    BY <1>1, <1>10 DEF WriteEvaluation, RunInv, LocalsInv, RunType, Evaluated, Traced, Answered
  <2> QED
    BY <1>1, <1>10, <2>1 DEF TypeOK, WriteEvaluation, Working, files
<1>11. CASE LinkEvaluation(r)
  <2>1. decisions[r] \in DecisionRow /\ run[r].ev \in Evaluation
    BY <1>1, <1>11 DEF LinkEvaluation, RunInv, LocalsInv, DecisionInv, RunType, TypeOK,
      Written, Evaluated, Traced, Answered
  <2>2. DecisionOf(r, r).result \in DecisionType /\ DecisionOf(r, r).eval = r
    BY <2>1 DEF DecisionOf, Evaluation
  <2>3. [decisions[r] EXCEPT !.result = DecisionOf(r, r).result,
                             !.eval = DecisionOf(r, r).eval] \in DecisionRow
    BY <2>1, <2>2 DEF DecisionRow
  <2>4. decisions[r] # None
    BY <1>1, <1>11 DEF LinkEvaluation, RunInv, DecisionInv,
      Written, Evaluated, Traced, Answered
  <2>5. decisions' \in [Runs -> DecisionRow \cup {None}]
    BY <1>1, <1>11, <2>3, <2>4 DEF LinkEvaluation, write_decision, TypeOK
  <2> QED
    BY <1>1, <1>11, <2>5 DEF TypeOK, LinkEvaluation, Working, Ended, files
<1>12. CASE RelinkTrace(r)
  <2>1. traces[r] \in TraceRow /\ traces[r] = TraceOf(r, None) /\ traces[r] # None
    BY <1>1, <1>12 DEF RelinkTrace, RunInv, TraceInv, Traced, Answered, TypeOK
  <2>2. /\ traces[r].proposal = TraceOf(r, r).proposal
        /\ traces[r].tokens = TraceOf(r, r).tokens
        /\ traces[r].dag = TraceOf(r, r).dag
    BY <2>1 DEF TraceOf
  <2>3. traces' = [traces EXCEPT ![r] = traces[r]]
    BY <1>12, <2>1, <2>2 DEF RelinkTrace, write_trace, TraceRow
  <2>4. traces' \in [Runs -> TraceRow \cup {None}]
    BY <1>1, <2>1, <2>3 DEF TypeOK
  <2> QED
    BY <1>1, <1>12, <2>4 DEF TypeOK, RelinkTrace, Ended, files
<1>13. CASE Crash(r)
  BY <1>1, <1>13 DEF TypeOK, Crash, Ended, tables, files
<1> QED
  BY <1>2, <1>3, <1>4, <1>5, <1>6, <1>7, <1>8, <1>9, <1>10, <1>11, <1>12, <1>13
  DEF ProgramStep

(* Hand edits put one known content of a file in the place of another.     *)
LEMMA EditType ==
  ASSUME TypeOK, EditLimits \/ EditUniverse \/ EditDag
  PROVE  TypeOK'
  BY DEF TypeOK, EditLimits, EditUniverse, EditDag, tables

----------------------------------------------------------------------------
(* A step of one run leaves the rows of the others alone, and what Inv     *)
(* says of them.                                                           *)
OnlyRun(r) ==
  /\ \A q \in Runs \ {r} :
       /\ pc'[q] = pc[q] /\ run'[q] = run[q]
       /\ traces'[q] = traces[q] /\ decisions'[q] = decisions[q] /\ evals'[q] = evals[q]
  /\ snapshots \subseteq snapshots'

(* What Inv says of a run is kept by the steps of the other ones.          *)
LEMMA OthersKeepInv ==
  ASSUME Inv, NEW r \in Runs, OnlyRun(r), NEW q \in Runs \ {r}
  PROVE  RunInv(q)'
<1>1. /\ pc'[q] = pc[q] /\ run'[q] = run[q]
      /\ traces'[q] = traces[q] /\ decisions'[q] = decisions[q] /\ evals'[q] = evals[q]
      /\ snapshots \subseteq snapshots'
  BY DEF OnlyRun
<1>2. RunInv(q)
  BY DEF Inv
<1>3. LocalsInv(q)'
  BY <1>1, <1>2 DEF RunInv, LocalsInv
<1>4. TraceInv(q)'
  BY <1>1, <1>2 DEF RunInv, TraceInv, TraceOf
<1>5. DecisionInv(q)'
  BY <1>1, <1>2 DEF RunInv, DecisionInv, DecisionOf
<1>6. EvaluationInv(q)'
  BY <1>1, <1>2 DEF RunInv, EvaluationInv
<1>7. VerdictInv(q)'
  BY <1>1, <1>2 DEF RunInv, VerdictInv
<1>8. SnapshotInv(q)'
  BY <1>1, <1>2 DEF RunInv, SnapshotInv
<1> QED
  BY <1>3, <1>4, <1>5, <1>6, <1>7, <1>8 DEF RunInv

(* Every step but the edits is a step of one run only.                     *)
LEMMA StepIsOfOneRun ==
  ASSUME Inv, NEW r \in Runs,
         \/ \E t \in Time, force \in BOOLEAN, dry \in BOOLEAN : Invoke(r, t, force, dry)
         \/ AgentStep(r) \/ ProgramStep(r) \/ Crash(r)
  PROVE  OnlyRun(r)
<1>1. TypeOK
  BY DEF Inv
<1>2. CASE \E t \in Time, force \in BOOLEAN, dry \in BOOLEAN : Invoke(r, t, force, dry)
  BY <1>1, <1>2 DEF OnlyRun, TypeOK, Invoke, tables
<1>3. CASE AgentStep(r)
  BY <1>1, <1>3 DEF OnlyRun, TypeOK, AgentStep, read_decision_journal,
    read_current_portfolio, read_causal_dag, propose_portfolio, OtherTool,
    AgentReturns, AgentRaises, tables
<1>4. CASE Crash(r)
  BY <1>1, <1>4 DEF OnlyRun, TypeOK, Crash, tables
<1>5. CASE ProgramStep(r)
  BY <1>1, <1>5 DEF OnlyRun, TypeOK, ProgramStep, CheckDay, InsertSnapshot,
    InsertSnapshotFails, EndDryRun, PersistTrace, BuildMarker, Evaluate,
    WriteDecision, WriteEvaluation, LinkEvaluation, RelinkTrace, write_trace,
    write_decision, tables
<1> QED  BY <1>2, <1>3, <1>4, <1>5

(* What a step does to the run that takes it.                              *)
LEMMA InvokeInv ==
  ASSUME Inv, NEW r \in Runs, NEW t \in Time,
         NEW force \in BOOLEAN, NEW dry \in BOOLEAN, Invoke(r, t, force, dry)
  PROVE  RunInv(r)'
<1>1. TypeOK /\ RunInv(r) /\ pc[r] = "idle"
  BY DEF Inv, Invoke
<1>2. traces[r] = None /\ decisions[r] = None /\ evals[r] = None
  BY <1>1 DEF RunInv, TraceInv, DecisionInv, EvaluationInv, Traced, Answered, Written,
    Evaluated
<1>3. pc'[r] = "checking" /\ run'[r] = NewRun(t, force, dry) /\ tables' = tables
  BY <1>1 DEF Invoke, TypeOK
<1> QED
  BY <1>2, <1>3 DEF RunInv, LocalsInv, TraceInv, DecisionInv, EvaluationInv, VerdictInv,
    SnapshotInv, NewRun, Traced, Answered, Written, Evaluated, tables

(* What the agent's calls may do to the local state of the run.            *)
AgentEffect(r) ==
  /\ pc[r] = "agent" /\ tables' = tables /\ clock' = clock
  /\ pc'[r] \in {"agent", "dag", "returned", "failed"}
  /\ pc'[r] = "dag" => run'[r].loaded = dagFile
  /\ run'[r].asOf = run[r].asOf /\ run'[r].force = run[r].force
  /\ run'[r].dry = run[r].dry /\ run'[r].ev = run[r].ev
  /\ run'[r].storable => run[r].storable
  /\ \/ run'[r].proposal = run[r].proposal
     \/ run'[r].storable => Numeric(run'[r].proposal)
  /\ \/ run'[r].shown = run[r].shown /\ run'[r].dag = run[r].dag
     \/ /\ run'[r].dag \in snapshots
        /\ run'[r].shown = run'[r].dag.hash
        /\ DayOf[run'[r].dag.asOf] = DayOf[run[r].asOf]
  /\ run'[r].seen \subseteq run[r].seen \cup Decided

(* Each tool, and each end of the session, has no other effect.            *)
LEMMA AgentStepEffect ==
  ASSUME TypeOK, NEW r \in Runs, AgentStep(r)
  PROVE  AgentEffect(r)
<1> DEFINE local == run[r]
<1>1. run \in [Runs -> RunType] /\ pc \in [Runs -> Working \cup Ended \cup {"idle"}]
  BY DEF TypeOK
<1>2. local \in RunType
  BY <1>1
<1>3. ASSUME NEW n \in JournalSizes, read_decision_journal(r, n) PROVE AgentEffect(r)
  BY <1>1, <1>2, <1>3
  DEF AgentEffect, read_decision_journal, Call, RunType, Recent, tables
<1>4. ASSUME read_current_portfolio(r) PROVE AgentEffect(r)
  <2>1. (IF Approved = {} THEN {} ELSE {Latest(Approved)}) \subseteq Decided
    BY LatestIsLast DEF Approved
  <2> QED
    BY <1>1, <1>2, <1>4, <2>1
    DEF AgentEffect, read_current_portfolio, Call, RunType, tables
<1>5. ASSUME read_causal_dag(r) PROVE AgentEffect(r)
  <2> DEFINE S == SameDaySnapshots(r)
             last == CHOOSE s \in S : \A z \in S : z.asOf <= s.asOf
  <2>1. CASE S = {}
    <3>1. /\ run' = [run EXCEPT ![r] = [run[r] EXCEPT !.calls = @ + 1, !.loaded = dagFile]]
          /\ pc' = [pc EXCEPT ![r] = "dag"]
      BY <1>5, <2>1 DEF read_causal_dag
    <3> QED
      BY <1>1, <1>2, <1>5, <3>1 DEF AgentEffect, read_causal_dag, Call, RunType, tables
  <2>2. CASE S # {}
    <3>1. {s.asOf : s \in S} \subseteq Time /\ {s.asOf : s \in S} # {}
      BY <2>2 DEF TypeOK, SameDaySnapshots, Snapshot
    <3>2. \E s \in S : \A z \in S : z.asOf <= s.asOf
      BY <3>1, LastTime
    <3>3. last \in S
      BY <3>2
    <3>4. /\ run' = [run EXCEPT ![r] = [run[r] EXCEPT !.calls = @ + 1,
                       !.loaded = dagFile, !.shown = dagFile, !.dag = last]]
          /\ pc' = pc
      BY <1>5, <2>2 DEF read_causal_dag
    <3>5. last \in snapshots /\ last.hash = dagFile /\ DayOf[last.asOf] = DayOf[run[r].asOf]
      BY <3>3 DEF SameDaySnapshots
    <3> HIDE DEF last
    <3> QED
      BY <1>1, <1>2, <1>5, <3>4, <3>5 DEF AgentEffect, read_causal_dag, Call, RunType, tables
  <2> QED  BY <2>1, <2>2
<1>6. ASSUME NEW book \in ProposedBooks, propose_portfolio(r, book) PROVE AgentEffect(r)
  <2> DEFINE ok == run[r].storable /\ Numeric(book)
             new == [run[r] EXCEPT !.calls = @ + 1, !.proposal = book, !.storable = ok]
  <2>1. run'[r] = new
    BY <1>1, <1>6 DEF propose_portfolio
  <2>2. /\ new.asOf = local.asOf /\ new.force = local.force /\ new.dry = local.dry
        /\ new.ev = local.ev /\ new.proposal = book /\ new.storable = ok
        /\ new.shown = local.shown /\ new.dag = local.dag /\ new.seen = local.seen
    BY <1>2 DEF RunType
  <2>3. ok => local.storable /\ Numeric(book)
    OBVIOUS
  <2> HIDE DEF new, ok
  <2> QED
    BY <1>1, <1>2, <1>6, <2>1, <2>2, <2>3 DEF AgentEffect, propose_portfolio, Call, tables
<1>7. ASSUME NEW storable \in BOOLEAN, OtherTool(r, storable) PROVE AgentEffect(r)
  <2> DEFINE ok == run[r].storable /\ storable
             new == [run[r] EXCEPT !.calls = @ + 1, !.storable = ok]
  <2>1. run'[r] = new
    BY <1>1, <1>7 DEF OtherTool
  <2>2. /\ new.asOf = local.asOf /\ new.force = local.force /\ new.dry = local.dry
        /\ new.ev = local.ev /\ new.proposal = local.proposal /\ new.storable = ok
        /\ new.shown = local.shown /\ new.dag = local.dag /\ new.seen = local.seen
    BY <1>2 DEF RunType
  <2>3. ok => local.storable
    OBVIOUS
  <2> HIDE DEF new, ok
  <2> QED
    BY <1>1, <1>2, <1>7, <2>1, <2>2, <2>3 DEF AgentEffect, OtherTool, Call, tables
<1>8. ASSUME NEW tokens \in TokenTotals, AgentReturns(r, tokens) PROVE AgentEffect(r)
  BY <1>1, <1>2, <1>8 DEF AgentEffect, AgentReturns, RunType
<1>9. ASSUME AgentRaises(r) PROVE AgentEffect(r)
  BY <1>1, <1>2, <1>9 DEF AgentEffect, AgentRaises, RunType
<1> QED
  BY <1>3, <1>4, <1>5, <1>6, <1>7, <1>8, <1>9 DEF AgentStep

(* The session of the agent keeps the invariant of its run.                *)
LEMMA AgentInv ==
  ASSUME Inv, NEW r \in Runs, AgentStep(r)
  PROVE  RunInv(r)'
<1>1. TypeOK /\ RunInv(r) /\ AgentEffect(r) /\ run[r] \in RunType
  BY AgentStepEffect DEF Inv, TypeOK
<1>2. traces[r] = None /\ decisions[r] = None /\ evals[r] = None /\ run[r].ev = None
  BY <1>1 DEF RunInv, AgentEffect, TraceInv, DecisionInv, EvaluationInv, VerdictInv,
    Traced, Answered, Written, Evaluated
<1>3. dagFile # None
  BY <1>1, FilesAssumption DEF TypeOK
<1>4. LocalsInv(r)' /\ TraceInv(r)' /\ DecisionInv(r)' /\ EvaluationInv(r)'
  BY <1>1, <1>2, <1>3 DEF RunInv, AgentEffect, LocalsInv, TraceInv, DecisionInv,
    EvaluationInv, Traced, Answered, Written, Evaluated, tables
<1>5. VerdictInv(r)'
  BY <1>1, <1>2 DEF RunInv, AgentEffect, VerdictInv
<1>6. SnapshotInv(r)'
  <2>1. run'[r].dag \in snapshots => run'[r].dag # None
    BY <1>1, NoneAssumption DEF TypeOK
  <2> QED
    BY <1>1, <2>1 DEF RunInv, AgentEffect, SnapshotInv, tables
<1> QED  BY <1>4, <1>5, <1>6 DEF RunInv

----------------------------------------------------------------------------
(* What the upserts make of a row that is there.                           *)
LEMMA TraceUpsert ==
  ASSUME NEW row \in TraceRow
  PROVE  [row EXCEPT !.proposal = row.proposal, !.tokens = row.tokens,
                     !.dag = row.dag] = row
  BY DEF TraceRow

(* The row that write_decision leaves is the row it was given, when the    *)
(* two differ in the columns of the SET clause only.                       *)
LEMMA DecisionUpsert ==
  ASSUME NEW row \in DecisionRow, NEW result, NEW eval
  PROVE  [row EXCEPT !.result = result, !.eval = eval]
           = [proposedAt |-> row.proposedAt, book |-> row.book,
              result |-> result, eval |-> eval]
<1> DEFINE new == [row EXCEPT !.result = result, !.eval = eval]
           literal == [proposedAt |-> row.proposedAt, book |-> row.book,
                       result |-> result, eval |-> eval]
           Type == [proposedAt : Time, book : Book, result : {result}, eval : {eval}]
<1>1. new \in Type /\ literal \in Type
  BY DEF DecisionRow
<1>2. /\ new.proposedAt = literal.proposedAt /\ new.book = literal.book
      /\ new.result = literal.result /\ new.eval = literal.eval
  BY DEF DecisionRow
<1>3. new = literal
  <2> HIDE DEF new, literal
  <2> QED  BY <1>1, <1>2
<1> QED  BY <1>3

(* The steps of main after its session, one by one.                        *)
LEMMA ProgramInv ==
  ASSUME Inv, NEW r \in Runs, ProgramStep(r) \/ Crash(r)
  PROVE  RunInv(r)'
<1>1. TypeOK /\ RunInv(r) /\ run[r] \in RunType
  BY DEF Inv, TypeOK
<1>2. CASE Crash(r)
  <2>1. /\ pc'[r] = "crashed" /\ pc[r] \in Working
        /\ run'[r] = run[r] /\ tables' = tables
    BY <1>1, <1>2 DEF Crash, Running, TypeOK
  <2> QED
    BY <1>1, <2>1 DEF RunInv, LocalsInv, TraceInv, DecisionInv, EvaluationInv, VerdictInv,
      SnapshotInv, TraceOf, DecisionOf, Traced, Answered, Written, Evaluated, Working, tables
<1>3. CASE CheckDay(r)
  <2>1. /\ pc[r] = "checking" /\ pc'[r] \in {"skipped", "agent"}
        /\ run'[r] = run[r] /\ tables' = tables
    BY <1>1, <1>3 DEF CheckDay, TypeOK
  <2> QED
    BY <1>1, <2>1 DEF RunInv, LocalsInv, TraceInv, DecisionInv, EvaluationInv, VerdictInv,
      SnapshotInv, Traced, Answered, Written, Evaluated, tables
<1>4. CASE InsertSnapshot(r)
  <2> DEFINE snapshot == [hash |-> run[r].loaded, asOf |-> run[r].asOf]
  <2>1. /\ pc[r] = "dag" /\ pc'[r] = "agent"
        /\ run' = [run EXCEPT ![r] = [run[r] EXCEPT !.shown = run[r].loaded, !.dag = snapshot]]
        /\ snapshots' = snapshots \cup {snapshot}
        /\ traces' = traces /\ decisions' = decisions /\ evals' = evals
    BY <1>1, <1>4 DEF InsertSnapshot, TypeOK
  <2>2. snapshot \in Snapshot
    BY <1>1, <2>1 DEF RunInv, LocalsInv, RunType, Snapshot
  <2>3. snapshot # None /\ snapshot.hash = run[r].loaded /\ snapshot.asOf = run[r].asOf
    BY <2>2, NoneAssumption
  <2> HIDE DEF snapshot
  <2>4. /\ run'[r].asOf = run[r].asOf /\ run'[r].dry = run[r].dry
        /\ run'[r].ev = run[r].ev /\ run'[r].proposal = run[r].proposal
        /\ run'[r].storable = run[r].storable
        /\ run'[r].shown = run[r].loaded /\ run'[r].dag = snapshot
    BY <1>1, <2>1 DEF RunType, TypeOK
  <2>5. traces[r] = None /\ decisions[r] = None /\ evals[r] = None /\ run[r].ev = None
    BY <1>1, <2>1 DEF RunInv, TraceInv, DecisionInv, EvaluationInv, VerdictInv,
      Traced, Answered, Written, Evaluated
  <2> QED
    BY <1>1, <2>1, <2>3, <2>4, <2>5 DEF RunInv, LocalsInv, TraceInv, DecisionInv,
      EvaluationInv, VerdictInv, SnapshotInv, Traced, Answered, Written, Evaluated
<1>5. CASE InsertSnapshotFails(r) \/ EndDryRun(r)
  <2>1. /\ \/ pc[r] = "dag" /\ pc'[r] = "agent"
           \/ pc[r] = "returned" /\ pc'[r] = "done" /\ run[r].dry
        /\ run'[r] = run[r] /\ tables' = tables
    BY <1>1, <1>5 DEF InsertSnapshotFails, EndDryRun, TypeOK
  <2> QED
    BY <1>1, <2>1 DEF RunInv, LocalsInv, TraceInv, DecisionInv, EvaluationInv, VerdictInv,
      SnapshotInv, Traced, Answered, Written, Evaluated, tables
<1>6. CASE PersistTrace(r)
  <2>1. /\ pc[r] = "returned" /\ ~run[r].dry /\ run' = run /\ decisions' = decisions
        /\ evals' = evals /\ snapshots' = snapshots
    BY <1>6 DEF PersistTrace
  <2>2. traces[r] = None /\ decisions[r] = None /\ evals[r] = None /\ run[r].ev = None
    BY <1>1, <2>1 DEF RunInv, TraceInv, DecisionInv, EvaluationInv, VerdictInv,
      Traced, Answered, Written, Evaluated
  <2>3. \/ pc'[r] = "failed" /\ traces' = traces
        \/ pc'[r] = "traced" /\ run[r].storable /\ traces'[r] = TraceOf(r, None)
    BY <1>1, <1>6, <2>2 DEF PersistTrace, write_trace, TypeOK
  <2>4. TraceOf(r, None) \in TraceRow
    BY <1>1, <2>1 DEF RunInv, LocalsInv, RunType, TraceOf, TraceRow
  <2>5. TraceOf(r, None) # None
    BY <2>4, NoneAssumption
  <2> QED
    BY <1>1, <2>1, <2>2, <2>3, <2>5 DEF RunInv, LocalsInv, TraceInv, DecisionInv,
      EvaluationInv, VerdictInv, SnapshotInv, TraceOf, Traced, Answered, Written, Evaluated
<1>7. CASE BuildMarker(r)
  <2> DEFINE ev == [book |-> Cash, tokens |-> 0, baseline |-> None, hash |-> None,
                    result |-> "rejected", blocking |-> {"no_proposal"}]
  <2>1. /\ pc[r] = "traced" /\ pc'[r] = "evaluated" /\ tables' = tables
        /\ run[r].proposal \in {None, Cash}
        /\ run' = [run EXCEPT ![r] = [run[r] EXCEPT !.ev = ev]]
    BY <1>1, <1>7 DEF BuildMarker, NoProposal, TypeOK
  <2>2. Cash \in Book
    BY DEF Cash, Book
  <2>3. ev \in Evaluation /\ ev.book = Cash /\ ev.result # "approved"
    BY <2>2 DEF Evaluation, DecisionType
  <2>4. ev # None
    BY <2>3, NoneAssumption
  <2> HIDE DEF ev
  <2>5. run'[r] = [run[r] EXCEPT !.ev = ev] /\ run'[r].ev = ev
    BY <1>1, <2>1 DEF RunType, TypeOK
  <2> QED
    BY <1>1, <2>1, <2>3, <2>4, <2>5 DEF RunInv, LocalsInv, TraceInv, DecisionInv,
      EvaluationInv, VerdictInv, SnapshotInv, TraceOf, RunType, Traced, Answered, Written,
      Evaluated, tables
<1>8. CASE Evaluate(r)
  <2> DEFINE proposal == [book |-> run[r].proposal, tokens |-> run[r].tokens]
             state == [book |-> CurrentBook, ordersToday |-> 0,
                       ordersThisWeek |-> 0, pnl |-> Unknown]
             verdict == evaluate(proposal, state, limitsFile, universeFile)
             ev == [book |-> run[r].proposal, tokens |-> run[r].tokens,
                    baseline |-> CurrentBook, hash |-> limitsFile,
                    result |-> verdict.result, blocking |-> verdict.blocking]
  <2>1. /\ pc[r] = "traced" /\ pc'[r] = "evaluated" /\ tables' = tables
        /\ run[r].proposal \notin {None, Cash}
        /\ run' = [run EXCEPT ![r] = [run[r] EXCEPT !.ev = ev]]
    BY <1>1, <1>8 DEF Evaluate, NoProposal, TypeOK
  <2>2. run[r].proposal \in Book /\ Numeric(run[r].proposal)
    BY <1>1, <2>1 DEF RunType, RunInv, TraceInv, VerdictInv, Traced, Answered
  <2>3. limitsFile \in LimitsType /\ limitsFile # None
    BY <1>1, FilesAssumption DEF TypeOK
  <2>4. /\ ev.book = run[r].proposal /\ ev.hash = limitsFile
        /\ ev.baseline = CurrentBook /\ ev.result = verdict.result
    OBVIOUS
  <2>5. verdict.result = "approved" =>
          WithinLimits(run[r].proposal, CurrentBook, limitsFile)
    BY <1>1, <2>2, <2>3, CurrentBookType, ApprovedIsWithinLimits
  <2>6. run'[r].ev \in Evaluation
    BY <1>1, <1>8, EvaluationType
  <2> HIDE DEF verdict, ev
  <2>7. run'[r] = [run[r] EXCEPT !.ev = ev] /\ run'[r].ev = ev
    BY <1>1, <2>1 DEF RunType, TypeOK
  <2>8. ev # None
    BY <2>6, <2>7, NoneAssumption
  <2>9. VerdictInv(r)'
    BY <1>1, <2>1, <2>2, <2>3, <2>4, <2>5, <2>7, <2>8
    DEF RunInv, TraceInv, VerdictInv, RunType, Traced, Answered, Written, Evaluated, tables
  <2> QED
    BY <1>1, <2>1, <2>7, <2>8, <2>9 DEF RunInv, LocalsInv, TraceInv, DecisionInv,
      EvaluationInv, SnapshotInv, TraceOf, RunType, Traced, Answered, Written,
      Evaluated, tables
<1>9. CASE WriteDecision(r)
  <2>1. /\ pc[r] = "evaluated" /\ pc'[r] = "decided" /\ run' = run /\ traces' = traces
        /\ evals' = evals /\ snapshots' = snapshots
    BY <1>1, <1>9 DEF WriteDecision, TypeOK
  <2>2. decisions[r] = None /\ evals[r] = None /\ traces[r] # None /\ run[r].ev # None
    BY <1>1, <2>1 DEF RunInv, LocalsInv, TraceInv, DecisionInv, EvaluationInv, Traced,
      Answered, Written, Evaluated
  <2>3. decisions'[r] = DecisionOf(r, None)
    BY <1>1, <1>9, <2>2 DEF WriteDecision, write_decision, TypeOK
  <2>4. DecisionOf(r, None) \in DecisionRow
    BY <1>1, <2>1, <2>2 DEF RunInv, LocalsInv, RunType, Evaluation, DecisionOf, DecisionRow
  <2>5. decisions'[r] # None /\ decisions'[r].eval = None
    BY <2>3, <2>4, NoneAssumption DEF DecisionOf
  <2>6. DecisionInv(r)'
    <3>1. DecisionOf(r, None)' = DecisionOf(r, None)
      BY <2>1 DEF DecisionOf
    <3> QED
      BY <2>1, <2>2, <2>3, <2>5, <3>1, RunsAssumption
      DEF DecisionInv, Traced, Answered, Written, Evaluated
  <2> QED
    BY <1>1, <2>1, <2>2, <2>5, <2>6 DEF RunInv, LocalsInv, TraceInv, EvaluationInv,
      VerdictInv, SnapshotInv, TraceOf, Traced, Answered, Written, Evaluated
<1>10. CASE WriteEvaluation(r)
  <2>1. /\ pc[r] = "decided" /\ pc'[r] = "audited" /\ run' = run /\ traces' = traces
        /\ decisions' = decisions /\ snapshots' = snapshots /\ evals'[r] = run[r].ev
    BY <1>1, <1>10 DEF WriteEvaluation, TypeOK
  <2>2. run[r].ev # None /\ decisions[r] # None
    BY <1>1, <2>1 DEF RunInv, LocalsInv, DecisionInv, Traced, Answered, Written, Evaluated
  <2> QED
    BY <1>1, <2>1, <2>2 DEF RunInv, LocalsInv, TraceInv, DecisionInv, EvaluationInv,
      VerdictInv, SnapshotInv, TraceOf, DecisionOf, Traced, Answered, Written, Evaluated
<1>11. CASE LinkEvaluation(r)
  <2>1. /\ pc[r] = "audited" /\ pc'[r] \in {"done", "linked"} /\ run' = run
        /\ traces' = traces /\ evals' = evals /\ snapshots' = snapshots
    BY <1>1, <1>11 DEF LinkEvaluation, TypeOK
  <2>2. /\ decisions[r] # None /\ evals[r] # None /\ traces[r] # None /\ run[r].ev # None
        /\ decisions[r] = DecisionOf(r, decisions[r].eval)
    BY <1>1, <2>1 DEF RunInv, LocalsInv, TraceInv, DecisionInv, EvaluationInv, Traced,
      Answered, Written, Evaluated
  <2>3. decisions'[r] = [decisions[r] EXCEPT !.result = DecisionOf(r, r).result,
                                             !.eval = DecisionOf(r, r).eval]
    BY <1>1, <1>11, <2>2 DEF LinkEvaluation, write_decision, TypeOK
  <2>4. decisions'[r] = DecisionOf(r, r)
    <3>1. decisions[r] \in DecisionRow
      BY <1>1, <2>2 DEF TypeOK
    <3>2. /\ decisions[r].proposedAt = run[r].asOf
          /\ decisions[r].book = run[r].ev.book
          /\ DecisionOf(r, r).result = run[r].ev.result /\ DecisionOf(r, r).eval = r
      BY <2>2 DEF DecisionOf
    <3>3. decisions'[r] = [proposedAt |-> run[r].asOf, book |-> run[r].ev.book,
                           result |-> run[r].ev.result, eval |-> r]
      BY <2>3, <3>1, <3>2, DecisionUpsert
    <3> QED  BY <3>3 DEF DecisionOf
  <2>5. decisions'[r] # None
    <3>1. DecisionOf(r, r) \in DecisionRow
      BY <1>1, <2>1, <2>2 DEF RunInv, LocalsInv, RunType, Evaluation, DecisionOf, DecisionRow
    <3> QED  BY <2>4, <3>1, NoneAssumption
  <2>6. DecisionInv(r)'
    BY <2>1, <2>2, <2>4, <2>5, RunsAssumption
    DEF DecisionInv, DecisionOf, Traced, Answered, Written, Evaluated
  <2> QED
    BY <1>1, <2>1, <2>2, <2>5, <2>6 DEF RunInv, LocalsInv, TraceInv, EvaluationInv,
      VerdictInv, SnapshotInv, TraceOf, Traced, Answered, Written, Evaluated
<1>12. CASE RelinkTrace(r)
  <2>1. /\ pc[r] = "linked" /\ pc'[r] = "done" /\ run' = run /\ decisions' = decisions
        /\ evals' = evals /\ snapshots' = snapshots
    BY <1>1, <1>12 DEF RelinkTrace, TypeOK
  <2>2. traces[r] # None /\ traces[r] = TraceOf(r, None)
    BY <1>1, <2>1 DEF RunInv, TraceInv, Traced, Answered
  <2>3. traces'[r] = [traces[r] EXCEPT !.proposal = TraceOf(r, r).proposal,
                        !.tokens = TraceOf(r, r).tokens, !.dag = TraceOf(r, r).dag]
    BY <1>1, <1>12, <2>2 DEF RelinkTrace, write_trace, TypeOK
  <2>4. traces'[r] = traces[r]
    <3>1. traces[r] \in TraceRow
      BY <1>1, <2>2 DEF TypeOK
    <3>2. /\ traces[r].proposal = TraceOf(r, r).proposal
          /\ traces[r].tokens = TraceOf(r, r).tokens
          /\ traces[r].dag = TraceOf(r, r).dag
      BY <2>2 DEF TraceOf
    <3> QED  BY <2>3, <3>1, <3>2, TraceUpsert
  <2>5. decisions[r] # None /\ decisions[r].eval # None
    BY <1>1, <2>1 DEF RunInv, DecisionInv, Written, Evaluated, Traced, Answered
  <2> QED
    BY <1>1, <2>1, <2>2, <2>4, <2>5 DEF RunInv, LocalsInv, TraceInv, DecisionInv,
      EvaluationInv, VerdictInv, SnapshotInv, TraceOf, DecisionOf, Traced, Answered,
      Written, Evaluated
<1> QED
  BY <1>2, <1>3, <1>4, <1>5, <1>6, <1>7, <1>8, <1>9, <1>10, <1>11, <1>12 DEF ProgramStep

----------------------------------------------------------------------------
(* Before the first invocation no run has left anything.                   *)
LEMMA InitInv == Init => Inv
<1> SUFFICES ASSUME Init PROVE Inv
  OBVIOUS
<1>1. TypeOK
  BY InitType
<1>2. ASSUME NEW r \in Runs PROVE RunInv(r)
  BY DEF Init, NewRun, RunInv, LocalsInv, TraceInv, DecisionInv, EvaluationInv,
    VerdictInv, SnapshotInv, Traced, Answered, Written, Evaluated
<1> QED  BY <1>1, <1>2 DEF Inv

RunStep(r) ==
  \/ \E t \in Time, force \in BOOLEAN, dry \in BOOLEAN : Invoke(r, t, force, dry)
  \/ AgentStep(r)
  \/ ProgramStep(r)
  \/ Crash(r)

(* A step of one run keeps the invariant of all of them.                   *)
LEMMA RunStepInv ==
  ASSUME Inv, NEW r \in Runs, RunStep(r)
  PROVE  Inv'
<1>1. TypeOK'
  BY InvokeType, AgentType, ProgramType DEF RunStep, Inv
<1>2. RunInv(r)'
  BY InvokeInv, AgentInv, ProgramInv DEF RunStep
<1>3. \A q \in Runs \ {r} : RunInv(q)'
  BY StepIsOfOneRun, OthersKeepInv DEF RunStep
<1> QED  BY <1>1, <1>2, <1>3 DEF Inv

(* A step that touches neither the runs nor the tables.                    *)
LEMMA UntouchedInv ==
  ASSUME Inv, TypeOK', pc' = pc, run' = run, tables' = tables
  PROVE  Inv'
  BY DEF Inv, RunInv, LocalsInv, TraceInv, DecisionInv, EvaluationInv, VerdictInv,
    SnapshotInv, TraceOf, DecisionOf, tables

(* The invariant is inductive.                                             *)
LEMMA NextInv == Inv /\ [Next]_vars => Inv'
<1> SUFFICES ASSUME Inv, [Next]_vars PROVE Inv'
  OBVIOUS
<1>1. CASE \E r \in Runs : RunStep(r)
  BY <1>1, RunStepInv
<1>2. CASE EditLimits \/ EditUniverse \/ EditDag
  <2>1. TypeOK'
    BY <1>2, EditType DEF Inv
  <2> QED
    BY <1>2, <2>1, UntouchedInv DEF EditLimits, EditUniverse, EditDag
<1>3. CASE UNCHANGED vars
  <2>1. TypeOK'
    BY <1>3 DEF Inv, TypeOK, vars, tables, files
  <2> QED
    BY <1>3, <2>1, UntouchedInv DEF vars
<1> QED
  BY <1>1, <1>2, <1>3 DEF Next, RunStep

(* The inductive invariant holds of every behaviour of the daily run.      *)
THEOREM InvHolds == Spec => []Inv
  BY InitInv, NextInv, PTL DEF Spec

(* Every variable, the rows of the four tables included, keeps its type,   *)
(* whatever runs overlap and crash.                                        *)
THEOREM TypeCorrect == Spec => []TypeOK
<1>1. Inv => TypeOK
  BY DEF Inv
<1> QED  BY <1>1, InvHolds, PTL

(* The order of the commits of main never leaves a row that refers to a    *)
(* missing one.                                                            *)
THEOREM ReferencesHold == Spec => []ReferentialIntegrity
<1>1. Inv => ReferentialIntegrity
  <2> SUFFICES ASSUME Inv, NEW r \in Runs
               PROVE  /\ decisions[r] # None => traces[r] # None
                      /\ evals[r] # None => decisions[r] # None
                      /\ decisions[r] # None /\ decisions[r].eval # None =>
                           evals[decisions[r].eval] # None
                      /\ traces[r] # None /\ traces[r].dag # None =>
                           traces[r].dag \in snapshots
    BY DEF ReferentialIntegrity
  <2>1. RunInv(r)
    BY DEF Inv
  <2>2. traces[r] # None => traces[r].dag = run[r].dag
    BY <2>1 DEF RunInv, TraceInv, TraceOf
  <2> QED
    BY <2>1, <2>2 DEF RunInv, DecisionInv, EvaluationInv, SnapshotInv
<1> QED  BY <1>1, InvHolds, PTL

(* Trace, decision and evaluation of a run agree, and only a run that has  *)
(* not finished, or crashed, leaves a decision without an evaluation.      *)
THEOREM AuditTrailHolds == Spec => []AuditTrail
<1>1. Inv => AuditTrail
  <2> SUFFICES ASSUME Inv, NEW r \in Decided
               PROVE  /\ decisions[r].proposedAt = traces[r].asOf
                      /\ decisions[r].book = IF traces[r].proposal = None THEN Cash
                                             ELSE traces[r].proposal
                      /\ IF decisions[r].eval = None
                         THEN pc[r] \in {"decided", "audited", "crashed"}
                         ELSE /\ evals[decisions[r].eval].book = decisions[r].book
                              /\ evals[decisions[r].eval].result = decisions[r].result
    BY DEF AuditTrail
  <2>1. RunInv(r) /\ decisions[r] # None
    BY DEF Inv, Decided
  <2>2. /\ traces[r] # None /\ run[r].ev # None /\ decisions[r].eval \in {None, r}
        /\ decisions[r].eval = r => evals[r] # None
        /\ decisions[r].eval = None => pc[r] \in {"decided", "audited", "crashed"}
    BY <2>1 DEF RunInv, DecisionInv
  <2>3. traces[r].asOf = run[r].asOf /\ traces[r].proposal = run[r].proposal
    BY <2>1, <2>2 DEF RunInv, TraceInv, TraceOf
  <2>4. /\ decisions[r].proposedAt = run[r].asOf /\ decisions[r].book = run[r].ev.book
        /\ decisions[r].result = run[r].ev.result
    BY <2>1 DEF RunInv, DecisionInv, DecisionOf
  <2>5. run[r].ev.book = IF run[r].proposal = None THEN Cash ELSE run[r].proposal
    BY <2>1, <2>2 DEF RunInv, VerdictInv
  <2>6. evals[r] # None => evals[r] = run[r].ev
    BY <2>1 DEF RunInv, EvaluationInv
  <2> QED  BY <2>2, <2>3, <2>4, <2>5, <2>6
<1> QED  BY <1>1, InvHolds, PTL

(* Whatever the agent proposes and whoever edits the limits, and when, no  *)
(* approved book on disk is beyond the limits of its verdict or holds NaN. *)
THEOREM ApprovalsAreWithinCaps == Spec => []ApprovedWithinCaps
<1>1. Inv => ApprovedWithinCaps
  <2> SUFFICES ASSUME Inv, NEW r \in Approved
               PROVE  /\ run[r].ev.hash \in LimitsFiles
                      /\ WithinLimits(decisions[r].book, run[r].ev.baseline,
                                      run[r].ev.hash)
    BY DEF ApprovedWithinCaps
  <2>1. RunInv(r) /\ r \in Runs /\ decisions[r] # None /\ decisions[r].result = "approved"
    BY DEF Inv, Approved, Decided
  <2>2. /\ run[r].ev # None /\ decisions[r].book = run[r].ev.book
        /\ run[r].ev.result = "approved"
    BY <2>1 DEF RunInv, DecisionInv, DecisionOf
  <2>3. run[r].ev \in Evaluation
    BY <2>1, <2>2 DEF Inv, TypeOK, RunType
  <2> QED
    BY <2>1, <2>2, <2>3 DEF RunInv, VerdictInv, Evaluation
<1> QED  BY <1>1, InvHolds, PTL

(* The snapshot a trace names has the content the agent was shown.         *)
THEOREM SnapshotsAreFaithful == Spec => []SnapshotIsWhatTheAgentSaw
<1>1. Inv => SnapshotIsWhatTheAgentSaw
  <2> SUFFICES ASSUME Inv, NEW r \in Runs, traces[r] # None, run[r].shown # None
               PROVE  /\ traces[r].dag.hash = run[r].shown
                      /\ DayOf[traces[r].dag.asOf] = DayOf[traces[r].asOf]
    BY DEF SnapshotIsWhatTheAgentSaw
  <2>1. RunInv(r)
    BY DEF Inv
  <2>2. traces[r].dag = run[r].dag /\ traces[r].asOf = run[r].asOf
    BY <2>1 DEF RunInv, TraceInv, TraceOf
  <2> QED  BY <2>1, <2>2 DEF RunInv, SnapshotInv
<1> QED  BY <1>1, InvHolds, PTL

----------------------------------------------------------------------------
(* The step formula of HistoryIsKept.                                      *)
Kept ==
  /\ \A r \in Decided :
       /\ decisions'[r] # None
       /\ [decisions'[r] EXCEPT !.eval = None] = [decisions[r] EXCEPT !.eval = None]
       /\ decisions[r].eval \in {None, decisions'[r].eval}
  /\ \A r \in Runs : evals[r] \in {None, evals'[r]}
  /\ snapshots \subseteq snapshots'

(* The rows of the run that takes the step.                                *)
OwnRowsKept(r) ==
  /\ \/ decisions'[r] = decisions[r]
     \/ decisions[r] = None
     \/ /\ pc[r] = "audited"
        /\ decisions'[r] = [decisions[r] EXCEPT !.result = run[r].ev.result, !.eval = r]
  /\ evals[r] \in {None, evals'[r]}

(* The run that takes a step keeps its rows, but for the link to its       *)
(* evaluation.                                                             *)
LEMMA RunStepKeepsOwnRows ==
  ASSUME Inv, NEW r \in Runs, RunStep(r)
  PROVE  OwnRowsKept(r)
<1>1. TypeOK /\ RunInv(r)
  BY DEF Inv
<1>2. CASE tables' = tables
  BY <1>2 DEF OwnRowsKept, tables
<1>3. CASE InsertSnapshot(r) \/ PersistTrace(r) \/ RelinkTrace(r)
  BY <1>3 DEF OwnRowsKept, InsertSnapshot, PersistTrace, RelinkTrace
<1>4. CASE WriteDecision(r)
  <2>1. decisions[r] = None /\ evals' = evals
    BY <1>1, <1>4 DEF WriteDecision, RunInv, DecisionInv, Traced, Answered, Written, Evaluated
  <2> QED  BY <2>1 DEF OwnRowsKept
<1>5. CASE WriteEvaluation(r)
  <2>1. evals[r] = None /\ decisions' = decisions
    BY <1>1, <1>5 DEF WriteEvaluation, RunInv, EvaluationInv
  <2> QED  BY <2>1 DEF OwnRowsKept
<1>6. CASE LinkEvaluation(r)
  <2>1. pc[r] = "audited" /\ evals' = evals /\ decisions[r] # None
    BY <1>1, <1>6 DEF LinkEvaluation, RunInv, DecisionInv, Traced, Answered, Written, Evaluated
  <2>2. DecisionOf(r, r).result = run[r].ev.result /\ DecisionOf(r, r).eval = r
    BY DEF DecisionOf
  <2>3. decisions'[r] = [decisions[r] EXCEPT !.result = run[r].ev.result, !.eval = r]
    BY <1>1, <1>6, <2>1, <2>2 DEF LinkEvaluation, write_decision, TypeOK
  <2> QED  BY <2>1, <2>3 DEF OwnRowsKept
<1> QED
  BY <1>2, <1>3, <1>4, <1>5, <1>6 DEF RunStep, AgentStep, ProgramStep, Invoke,
    read_decision_journal, read_current_portfolio, read_causal_dag, propose_portfolio,
    OtherTool, AgentReturns, AgentRaises, CheckDay, InsertSnapshotFails, EndDryRun,
    BuildMarker, Evaluate, Crash

(* A step of one run keeps all the rows.                                   *)
LEMMA RunStepKeeps ==
  ASSUME Inv, Inv', NEW r \in Runs, RunStep(r)
  PROVE  Kept
<1>1. OnlyRun(r) /\ OwnRowsKept(r) /\ RunInv(r) /\ TypeOK
  BY StepIsOfOneRun, RunStepKeepsOwnRows DEF RunStep, Inv
<1>2. \A q \in Runs : evals[q] \in {None, evals'[q]}
  BY <1>1 DEF OnlyRun, OwnRowsKept
<1>3. ASSUME NEW q \in Decided
      PROVE  /\ decisions'[q] # None
             /\ [decisions'[q] EXCEPT !.eval = None] = [decisions[q] EXCEPT !.eval = None]
             /\ decisions[q].eval \in {None, decisions'[q].eval}
  <2>1. decisions[q] # None
    BY DEF Decided
  <2>2. CASE decisions'[q] = decisions[q]
    BY <2>1, <2>2
  <2>3. CASE decisions'[q] # decisions[q]
    <3>1. q = r /\ pc[r] = "audited"
          /\ decisions'[r] = [decisions[r] EXCEPT !.result = run[r].ev.result, !.eval = r]
      BY <1>1, <2>1, <2>3 DEF OnlyRun, OwnRowsKept, Decided
    <3>2. decisions[r] \in DecisionRow /\ decisions[r].result = run[r].ev.result
      BY <1>1, <2>1, <3>1 DEF RunInv, DecisionInv, DecisionOf, TypeOK
    <3>3. decisions'[r] = [proposedAt |-> decisions[r].proposedAt,
                           book |-> decisions[r].book, result |-> decisions[r].result,
                           eval |-> r]
      <4>1. decisions'[r] = [decisions[r] EXCEPT !.result = decisions[r].result,
                                                 !.eval = r]
        BY <3>1, <3>2
      <4> QED  BY <3>2, <4>1, DecisionUpsert
    <3>4. decisions'[r] \in DecisionRow
      BY <3>2, <3>3 DEF DecisionRow
    <3>5. decisions[r].eval \in {None, r} /\ decisions'[r].eval = r
      BY <1>1, <2>1, <3>1, <3>3 DEF RunInv, DecisionInv
    <3>6. [decisions'[r] EXCEPT !.eval = None] = [decisions[r] EXCEPT !.eval = None]
      <4>1. /\ decisions'[r].proposedAt = decisions[r].proposedAt
            /\ decisions'[r].book = decisions[r].book
            /\ decisions'[r].result = decisions[r].result
        BY <3>3
      <4> QED  BY <3>2, <3>4, <4>1 DEF DecisionRow
    <3> QED  BY <3>1, <3>4, <3>5, <3>6, NoneAssumption
  <2> QED  BY <2>2, <2>3
<1> QED  BY <1>1, <1>2, <1>3 DEF Kept, OnlyRun

(* No step of any run, nor of two runs of one day, rewrites a decision, an *)
(* evaluation or a snapshot that was committed: the two upserts of main    *)
(* only fill the reference to the evaluation.                              *)
THEOREM HistoryHolds == Spec => HistoryIsKept
<1>1. Inv /\ Inv' /\ [Next]_vars => [Kept]_vars
  <2> SUFFICES ASSUME Inv, Inv', Next PROVE Kept
    OBVIOUS
  <2>1. CASE \E r \in Runs : RunStep(r)
    BY <2>1, RunStepKeeps
  <2>2. CASE EditLimits \/ EditUniverse \/ EditDag
    BY <2>2 DEF Kept, EditLimits, EditUniverse, EditDag, tables, Decided
  <2> QED  BY <2>1, <2>2 DEF Next, RunStep
<1>2. Spec => [][Kept]_vars
  BY <1>1, InvHolds, PTL DEF Spec
<1> QED  BY <1>2 DEF HistoryIsKept, Kept
=============================================================================
