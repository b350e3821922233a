---------------------------- MODULE LedgerProofs ----------------------------
(***************************************************************************)
(* The daily run implements DecisionLog: for any runs, days, books and     *)
(* files, crashes included, as long as no run starts before the last one   *)
(* has ended and none is forced.  Of the steps, WriteDecision is Decide,   *)
(* LinkEvaluation is File, and all others leave the ledger as it is.       *)
(***************************************************************************)
EXTENDS BetweenRunsProofs, DailyRunLog

(* What an instance of DecisionLog means by its words is what DailyRun     *)
(* means by them.                                                          *)
LEMMA SumIsSum == ASSUME NEW f PROVE Log!FloatSum(f) = FloatSum(f)
<1>1. Log!SumFunction(f) = SumFunction(f)
  BY DEF Log!SumFunction, SumFunction, Log!SumFunctionOnSet, SumFunctionOnSet,
    Log!FoldFunctionOnSet, FoldFunctionOnSet, Log!MapThenFoldSet, MapThenFoldSet
<1> QED  BY <1>1 DEF Log!FloatSum, FloatSum, Log!Numeric, Numeric

(* Its limits are those of the gateway.                                    *)
LEMMA LimitsAreLimits ==
  ASSUME NEW book, NEW current, NEW limits
  PROVE  Log!WithinLimits(book, current, limits) <=> WithinLimits(book, current, limits)
<1>1. Log!Gross(book) = Gross(book) /\ Log!Net(book) = Net(book)
  BY SumIsSum DEF Log!Net, Net, Log!Gross, Gross, Abs, Log!Abs
<1>2. Log!order_count(current, book) = order_count(current, book)
  BY DEF Log!order_count, order_count, Ordered, Log!Ordered, WeightOf, Log!WeightOf,
    Abs, Log!Abs, Above, Log!Above, Minus, Log!Minus, Log!Cardinality, Cardinality
<1> QED
  BY <1>1, <1>2 DEF Log!WithinLimits, WithinLimits, Abs, Log!Abs, Above, Log!Above,
    Log!Numeric, Numeric

----------------------------------------------------------------------------
Unforced == \A r \in Runs : ~run[r].force
LedgerInv == SequentialInv /\ CurrentInv /\ Unforced

(* No run is forced, where --force is never given.                         *)
LEMMA UnforcedStep ==
  ASSUME ~AllowForce, Inv, Unforced, [Next]_vars
  PROVE  Unforced'
<1>1. ASSUME NEW r \in Runs, RunStep(r) PROVE Unforced'
  <2>1. OnlyRun(r)
    BY <1>1, StepIsOfOneRun DEF RunStep
  <2>2. ~run'[r].force
    <3>1. CASE Progress(r)
      BY <3>1 DEF Progress, Unforced
    <3>2. ASSUME NEW t \in Time, NEW force \in BOOLEAN, NEW dry \in BOOLEAN,
                 Invoke(r, t, force, dry)
          PROVE  ~run'[r].force
      <4>1. run'[r] = NewRun(t, force, dry) /\ ~force
        BY <3>2, InvokeFresh DEF Invoke
      <4>2. NewRun(t, force, dry).force = force
        BY DEF NewRun
      <4> QED  BY <4>1, <4>2
    <3> QED  BY <1>1, <3>1, <3>2, RunStepProgress
  <2> QED  BY <2>1, <2>2 DEF OnlyRun, Unforced
<1>2. CASE \A r \in Runs : ~RunStep(r)
  BY <1>2, NotARunStep DEF Unforced
<1> QED  BY <1>1, <1>2

(* What every step of the proof may rely on.                               *)
LEMMA LedgerInvHolds ==
  ASSUME ~Overlap, ~AllowForce
  PROVE  Spec => []LedgerInv
<1>1. Init => Unforced
  BY DEF Init, NewRun, Unforced
<1>2. SequentialInv /\ Unforced /\ [Next]_vars => Unforced'
  BY UnforcedStep DEF SequentialInv
<1> QED  BY <1>1, <1>2, CurrentHolds, PTL DEF Spec, LedgerInv

----------------------------------------------------------------------------
(* The last of some decisions is the one of the latest run.                *)
OneLatest ==
  \A S \in SUBSET Decided : \A q \in S :
    (\A p \in S : run[p].asOf <= run[q].asOf) => Latest(S) = q

(* In a sequential history it is.                                          *)
LEMMA LatestIs == LedgerInv => OneLatest
<1> SUFFICES ASSUME LedgerInv, NEW S \in SUBSET Decided, NEW q \in S,
                    \A p \in S : run[p].asOf <= run[q].asOf
             PROVE  Latest(S) = q
  BY DEF OneLatest
<1>1. Inv /\ TypeOK /\ ReadingsDiffer
  BY DEF LedgerInv, SequentialInv, CurrentInv, Inv
<1>2. \A p \in S : /\ decisions[p].proposedAt = run[p].asOf /\ run[p].asOf \in Nat
                   /\ p \in Runs /\ pc[p] # "idle"
  BY <1>1, DecidedAt DEF Decided, Written, Evaluated, Traced, Answered
<1> DEFINE last == Latest(S)
<1>3. last \in S /\ decisions[q].proposedAt <= decisions[last].proposedAt
  BY <1>1, LatestIsLast
<1> HIDE DEF last
<1>4. run[q].asOf = run[last].asOf
  BY <1>2, <1>3
<1>5. q = last
  BY <1>1, <1>2, <1>3, <1>4 DEF ReadingsDiffer
<1> QED  BY <1>5 DEF last

(* A day has at most one decision, and the ledger has it.                  *)
LedgerIsTable ==
  /\ \A q \in Decided : /\ DayOf[run[q].asOf] \in Days
                        /\ Ledger[DayOf[run[q].asOf]] = Entry(q)
  /\ \A d \in Days : \/ Ledger[d] = None /\ \A q \in Decided : DayOf[run[q].asOf] # d
                     \/ \E q \in Decided : DayOf[run[q].asOf] = d

(* In a history of unforced sequential runs it has.                        *)
LEMMA LedgerIs == LedgerInv => LedgerIsTable
<1> SUFFICES ASSUME LedgerInv PROVE LedgerIsTable
  OBVIOUS
<1>1. Inv /\ TypeOK /\ OneDecisionPerDay /\ ReadingsDiffer /\ Unforced
  BY DEF LedgerInv, SequentialInv, CurrentInv, Inv
<1>2. \A q \in Decided : /\ decisions[q].proposedAt = run[q].asOf /\ run[q].asOf \in Nat
                         /\ q \in Runs /\ pc[q] # "idle" /\ run[q].asOf \in Time
  <2> TAKE q \in Decided
  <2>1. /\ decisions[q].proposedAt = run[q].asOf /\ run[q].asOf \in Nat
        /\ q \in Runs /\ pc[q] # "idle"
    BY <1>1, DecidedAt DEF Decided, Written, Evaluated, Traced, Answered
  <2>2. run[q].asOf \in Time
    BY <1>1, <2>1 DEF Inv, RunInv, LocalsInv
  <2> QED  BY <2>1, <2>2
<1>3. ASSUME NEW q \in Decided
      PROVE  /\ DayOf[run[q].asOf] \in Days
             /\ Ledger[DayOf[run[q].asOf]] = Entry(q)
  <2> DEFINE d == DayOf[run[q].asOf]
  <2>1. d \in Days
    BY <1>2 DEF Days
  <2>2. ASSUME NEW p \in DecidedOn(d) PROVE p = q
    <3>1. p \in Decided /\ DayOf[run[p].asOf] = d
      BY <1>2 DEF DecidedOn
    <3>2. ~ (run[q].asOf < run[p].asOf) /\ ~ (run[p].asOf < run[q].asOf)
      BY <1>1, <1>2, <3>1 DEF OneDecisionPerDay, Before, Unforced
    <3>3. run[p].asOf = run[q].asOf
      BY <1>2, <3>1, <3>2
    <3> QED  BY <1>1, <1>2, <3>1, <3>3 DEF ReadingsDiffer
  <2>3. DecidedOn(d) = {q}
    BY <1>2, <2>2 DEF DecidedOn
  <2>4. Latest({q}) = q
    BY <1>2, LatestIs DEF OneLatest
  <2>5. Ledger[d] = Entry(q)
    BY <2>1, <2>3, <2>4 DEF Ledger
  <2> QED  BY <2>1, <2>5
<1>4. ASSUME NEW d \in Days, \A q \in Decided : DayOf[run[q].asOf] # d
      PROVE  Ledger[d] = None
  <2>1. DecidedOn(d) = {}
    BY <1>2, <1>4 DEF DecidedOn
  <2> QED  BY <2>1 DEF Ledger
<1> QED  BY <1>3, <1>4 DEF LedgerIsTable

----------------------------------------------------------------------------
(* What does not touch table portfolio_decisions leaves the ledger alone.  *)
LEMMA SameTable ==
  ASSUME decisions' = decisions
  PROVE  Ledger' = Ledger /\ CurrentBook' = CurrentBook
BY DEF Ledger, Entry, DecidedOn, Latest, Decided, CurrentBook, Approved

(* Two steps write the table.                                              *)
LEMMA Writers ==
  ASSUME NEW r \in Runs, RunStep(r)
  PROVE  decisions' = decisions \/ WriteDecision(r) \/ LinkEvaluation(r)
<1>1. CASE AgentStep(r)
  BY <1>1 DEF AgentStep, read_decision_journal, read_current_portfolio, read_causal_dag,
    propose_portfolio, OtherTool, AgentReturns, AgentRaises, tables
<1>2. CASE ProgramStep(r)
  BY <1>2 DEF ProgramStep, CheckDay, InsertSnapshot, InsertSnapshotFails, EndDryRun,
    PersistTrace, BuildMarker, Evaluate, WriteEvaluation, RelinkTrace, tables
<1>3. CASE Crash(r) \/ \E t \in Time, force \in BOOLEAN, dry \in BOOLEAN : Invoke(r, t, force, dry)
  BY <1>3 DEF Crash, Invoke, tables
<1> QED  BY <1>1, <1>2, <1>3 DEF RunStep

(* The book of an instance is the book of DailyRun, its limits too.        *)
LEMMA SameWords ==
  Log!Book = Book /\ Log!DecisionType = DecisionType
BY DEF Log!Book, Book, Log!DecisionType, DecisionType

----------------------------------------------------------------------------
(* The decision of a run is the last one, and of a day of its own.         *)
LEMMA DayIsNew ==
  ASSUME LedgerInv, NEW r \in Runs, pc[r] = "evaluated"
  PROVE  /\ r \notin Decided /\ DayOf[run[r].asOf] \in Days
         /\ \A q \in Decided : /\ run[q].asOf < run[r].asOf
                              /\ DayOf[run[q].asOf] < DayOf[run[r].asOf]
<1>1. Inv /\ OneAtATime /\ DayIsFree /\ Unforced /\ TypeOK /\ RunInv(r)
  BY DEF LedgerInv, SequentialInv, Inv
<1>2. r \notin Decided
  BY <1>1 DEF RunInv, DecisionInv, Decided, Written, Evaluated, Traced, Answered
<1>3. run[r].asOf \in Time
  BY <1>1 DEF RunInv, LocalsInv
<1>4. ASSUME NEW q \in Decided
      PROVE  run[q].asOf < run[r].asOf /\ DayOf[run[q].asOf] < DayOf[run[r].asOf]
  <2>1. Running(r) /\ pc[r] \in Deciding
    BY DEF Running, Working, Deciding
  <2>2. run[q].asOf < run[r].asOf
    BY <1>1, <1>2, <2>1, RunsAlone
  <2>3. /\ decisions[q].proposedAt = run[q].asOf /\ q \in Runs /\ run[q].asOf \in Nat
        /\ pc[q] # "idle"
    BY <1>1, DecidedAt DEF Decided, Written, Evaluated, Traced, Answered
  <2>4. run[q].asOf \in Time
    BY <1>1, <2>3 DEF Inv, RunInv, LocalsInv
  <2>5. DayOf[run[q].asOf] # DayOf[run[r].asOf]
    BY <1>1, <2>1, <2>3 DEF DayIsFree, Unforced
  <2>6. DayOf[run[q].asOf] <= DayOf[run[r].asOf]
    BY <1>3, <2>2, <2>4, DaysAssumption, TimeAssumption DEF Time
  <2>7. DayOf[run[q].asOf] \in Nat /\ DayOf[run[r].asOf] \in Nat
    BY <1>3, <2>4, TimeAssumption
  <2> QED  BY <2>2, <2>5, <2>6, <2>7
<1> QED  BY <1>2, <1>3, <1>4 DEF Days

(* An approved verdict is based on the current portfolio, and within the   *)
(* limits of a file.                                                       *)
LEMMA JudgedByLimits ==
  ASSUME LedgerInv, NEW r \in Runs, pc[r] = "evaluated", run[r].ev.result = "approved"
  PROVE  \E limits \in LimitsFiles :
           Log!WithinLimits(run[r].ev.book, CurrentBook, limits)
<1>1. Inv /\ TypeOK /\ RunInv(r) /\ OneLatest /\ BaselineIsLast(r)
  BY LatestIs DEF LedgerInv, SequentialInv, CurrentInv, Inv
<1>2. run[r].ev # None
  BY <1>1 DEF RunInv, LocalsInv, Evaluated, Traced, Answered
<1>3. /\ run[r].ev.hash \in LimitsFiles /\ run[r].ev.hash # None
      /\ WithinLimits(run[r].ev.book, run[r].ev.baseline, run[r].ev.hash)
  BY <1>1, <1>2 DEF RunInv, VerdictInv, TypeOK, RunType, Evaluation
<1>4. Earlier(r) = Approved /\ Approved \subseteq Decided
  BY DayIsNew DEF Earlier, Approved
<1>5. ASSUME NEW q \in Approved, \A p \in Approved : run[p].asOf <= run[q].asOf,
             decisions[q].book = run[r].ev.baseline
      PROVE  run[r].ev.baseline = CurrentBook
  BY <1>1, <1>4, <1>5 DEF OneLatest, CurrentBook
<1>6. run[r].ev.baseline = CurrentBook
  <2>1. CASE Approved = {} /\ run[r].ev.baseline = Cash
    BY <2>1 DEF CurrentBook
  <2> QED  BY <1>1, <1>2, <1>3, <1>4, <1>5, <2>1 DEF BaselineIsLast
<1> QED  BY <1>3, <1>6, LimitsAreLimits

(* What WriteDecision does to the decisions.                               *)
LEMMA DecisionIsNew ==
  ASSUME LedgerInv, LedgerInv', NEW r \in Runs, WriteDecision(r)
  PROVE  /\ run' = run /\ pc[r] = "evaluated"
         /\ Decided' = Decided \cup {r}
         /\ \A q \in Decided : q # r /\ decisions'[q] = decisions[q]
         /\ decisions'[r] = DecisionOf(r, None)
         /\ Approved' = IF run[r].ev.result = "approved" THEN Approved \cup {r} ELSE Approved
<1>1. TypeOK /\ r \notin Decided /\ decisions[r] = None
  BY DayIsNew DEF WriteDecision, LedgerInv, SequentialInv, Inv, Decided
<1>2. /\ run' = run /\ pc[r] = "evaluated"
      /\ decisions' = [decisions EXCEPT ![r] = DecisionOf(r, None)]
  BY <1>1 DEF WriteDecision, write_decision
<1>3. decisions'[r] = DecisionOf(r, None) /\ \A q \in Runs \ {r} : decisions'[q] = decisions[q]
  BY <1>1, <1>2 DEF TypeOK
<1>4. DecisionOf(r, None) # None /\ DecisionOf(r, None).result = run[r].ev.result
  <2>1. TypeOK'
    BY DEF LedgerInv, SequentialInv, Inv
  <2>2. DecisionOf(r, None) = [proposedAt |-> run[r].asOf, book |-> run[r].ev.book,
                               result |-> run[r].ev.result, eval |-> None]
    BY DEF DecisionOf
  <2>3. DecisionOf(r, None).result = run[r].ev.result
    BY <2>2
  <2>4. DecisionOf(r, None) # None
    <3>1. pc'[r] = "decided" /\ RunInv(r)'
      BY <1>1 DEF TypeOK, LedgerInv, SequentialInv, Inv, WriteDecision
    <3> QED  BY <1>3, <3>1 DEF RunInv, DecisionInv, Written, Evaluated, Traced, Answered
  <2> QED  BY <2>3, <2>4
<1>5. Decided' = Decided \cup {r}
  BY <1>3, <1>4 DEF Decided
<1>6. \A q \in Decided : q # r /\ decisions'[q] = decisions[q]
  BY <1>1, <1>3 DEF Decided
<1>7. Approved' = IF run[r].ev.result = "approved" THEN Approved \cup {r} ELSE Approved
  BY <1>1, <1>3, <1>4, <1>5, <1>6 DEF Approved
<1> QED  BY <1>2, <1>3, <1>5, <1>6, <1>7

(* The portfolio changes with the approved decisions only.                 *)
LEMMA SamePortfolio ==
  ASSUME LedgerInv, LedgerInv', run' = run, Approved' = Approved,
         \A q \in Approved : decisions'[q].book = decisions[q].book
  PROVE  CurrentBook' = CurrentBook
<1>1. OneLatest'
  <2>1. LedgerInv' => OneLatest'
    BY LatestIs, PTL
  <2> QED  BY <2>1
<1>2. TypeOK /\ Inv /\ Approved \subseteq Decided /\ Approved' \subseteq Decided'
  BY DEF LedgerInv, SequentialInv, Inv, Approved
<1>3. CASE Approved = {}
  BY <1>3 DEF CurrentBook
<1>4. CASE Approved # {}
  <2> DEFINE last == Latest(Approved)
  <2>1. /\ last \in Approved
        /\ \A p \in Approved : decisions[p].proposedAt <= decisions[last].proposedAt
    BY <1>2, <1>4, LatestIsLast
  <2> HIDE DEF last
  <2>2. \A p \in Approved : decisions[p].proposedAt = run[p].asOf
    BY <1>2, DecidedAt
  <2>3. \A p \in Approved' : run'[p].asOf <= run'[last].asOf
    BY <2>1, <2>2
  <2>4. Latest(Approved)' = last
    BY <1>1, <1>2, <2>1, <2>3 DEF OneLatest
  <2> QED  BY <1>4, <2>1, <2>4 DEF CurrentBook, last
<1> QED  BY <1>3, <1>4

(* WriteDecision is Decide, on the day of the run.                         *)
LEMMA DecideStep ==
  ASSUME LedgerInv, LedgerInv', NEW r \in Runs, WriteDecision(r)
  PROVE  Log!Next
<1> DEFINE day == DayOf[run[r].asOf]
           ev == run[r].ev
           new == [book |-> ev.book, result |-> ev.result, filed |-> FALSE]
<1>1. /\ run' = run /\ pc[r] = "evaluated"
      /\ Decided' = Decided \cup {r}
      /\ \A q \in Decided : q # r /\ decisions'[q] = decisions[q]
      /\ decisions'[r] = DecisionOf(r, None)
      /\ Approved' = IF ev.result = "approved" THEN Approved \cup {r} ELSE Approved
  BY DecisionIsNew
<1>2. /\ r \notin Decided /\ day \in Days
      /\ \A q \in Decided : run[q].asOf < run[r].asOf /\ DayOf[run[q].asOf] < day
  BY <1>1, DayIsNew
<1>3. LedgerIsTable /\ LedgerIsTable'
  <2>1. LedgerInv' => LedgerIsTable'
    BY LedgerIs, PTL
  <2> QED  BY <2>1, LedgerIs
<1>4. OneLatest /\ OneLatest'
  <2>1. LedgerInv' => OneLatest'
    BY LatestIs, PTL
  <2> QED  BY <2>1, LatestIs
<1>5. TypeOK /\ Inv
  BY DEF LedgerInv, SequentialInv, Inv
<1>6. \A e \in Days : Ledger[e] # None => e < day
  BY <1>2, <1>3 DEF LedgerIsTable
<1>7. Ledger' = [Ledger EXCEPT ![day] = new]
  <2>1. Entry(r)' = new
    <3>1. /\ decisions'[r].book = ev.book /\ decisions'[r].result = ev.result
          /\ decisions'[r].eval = None
      BY <1>1 DEF DecisionOf
    <3>2. (decisions'[r].eval # None) = FALSE
      BY <3>1
    <3> HIDE DEF ev
    <3> QED  BY <3>1, <3>2, Zenon DEF Entry
  <2>2. \A q \in Decided : Entry(q)' = Entry(q)
    BY <1>1 DEF Entry
  <2>3. Ledger'[day] = new
    BY <1>1, <1>3, <2>1 DEF LedgerIsTable
  <2>4. ASSUME NEW e \in Days, e # day PROVE Ledger'[e] = Ledger[e]
    <3>1. CASE \E q \in Decided : DayOf[run[q].asOf] = e
      BY <1>1, <1>3, <2>2, <3>1 DEF LedgerIsTable
    <3>2. CASE \A q \in Decided : DayOf[run[q].asOf] # e
      <4>1. \A q \in Decided' : DayOf[run'[q].asOf] # e
        BY <1>1, <2>4, <3>2
      <4> QED  BY <1>3, <2>4, <3>2, <4>1 DEF LedgerIsTable
    <3> QED  BY <3>1, <3>2
  <2> HIDE DEF new, day
  <2> QED  BY <1>2, <2>3, <2>4 DEF Ledger
<1>8. CurrentBook' = IF ev.result = "approved" THEN ev.book ELSE CurrentBook
  <2>1. Approved \subseteq Decided /\ Approved' \subseteq Decided'
    BY DEF Approved
  <2>2. CASE ev.result = "approved"
    <3>1. r \in Approved' /\ \A p \in Approved' : run'[p].asOf <= run'[r].asOf
      <4>1. run[r].asOf \in Nat /\ \A p \in Decided : run[p].asOf \in Nat
        BY <1>5, TimeAssumption DEF TypeOK, RunType, Time, Decided
      <4>2. \A p \in Decided' : run'[p].asOf <= run'[r].asOf
        BY <1>1, <1>2, <4>1
      <4> QED  BY <1>1, <2>1, <2>2, <4>2
    <3>2. Latest(Approved)' = r
      BY <1>4, <2>1, <3>1 DEF OneLatest
    <3>3. decisions'[r].book = ev.book
      BY <1>1 DEF DecisionOf
    <3> QED  BY <2>2, <3>1, <3>2, <3>3 DEF CurrentBook
  <2>3. CASE ev.result # "approved"
    BY <1>1, <2>1, <2>3, SamePortfolio
  <2> QED  BY <2>2, <2>3
<1>9. ev.result = "approved" =>
        \E limits \in LimitsFiles : Log!WithinLimits(ev.book, CurrentBook, limits)
  BY <1>1, JudgedByLimits
<1>10. Log!Decide(day, ev.book, ev.result)
  BY <1>6, <1>7, <1>8, <1>9 DEF Log!Decide
<1>11. ev.book \in Log!Book /\ ev.result \in Log!DecisionType
  BY <1>1, <1>5, SameWords DEF Inv, RunInv, LocalsInv, Evaluated, Traced, Answered, TypeOK,
    RunType, Evaluation
<1> HIDE DEF day, ev
<1> QED  BY <1>2, <1>10, <1>11 DEF Log!Next

----------------------------------------------------------------------------
(* Filing an entry changes its mark only.                                  *)
LEMMA Filing ==
  ASSUME NEW book, NEW result
  PROVE  [[book |-> book, result |-> result, filed |-> FALSE] EXCEPT !.filed = TRUE]
           = [book |-> book, result |-> result, filed |-> TRUE]
<1> DEFINE old == [book |-> book, result |-> result, filed |-> FALSE]
           new == [old EXCEPT !.filed = TRUE]
           literal == [book |-> book, result |-> result, filed |-> TRUE]
           Type == [book : {book}, result : {result}, filed : BOOLEAN]
<1>1. old \in Type /\ new \in Type /\ literal \in Type
  OBVIOUS
<1>2. new.book = literal.book /\ new.result = literal.result /\ new.filed = literal.filed
  OBVIOUS
<1>3. new = literal
  <2> HIDE DEF new, literal
  <2> QED  BY <1>1, <1>2
<1> QED  BY <1>3

(* LinkEvaluation is File.                                                 *)
LEMMA FileStep ==
  ASSUME LedgerInv, LedgerInv', NEW r \in Runs, LinkEvaluation(r),
         decisions' # decisions
  PROVE  Log!Next
<1> DEFINE day == DayOf[run[r].asOf]
<1>1. TypeOK /\ Inv /\ RunInv(r) /\ OneAtATime
  BY DEF LedgerInv, SequentialInv, Inv
<1>2. /\ pc[r] = "audited" /\ run' = run /\ r \in Decided /\ r # None
      /\ decisions[r].result = run[r].ev.result
  <2>1. decisions[r] # None /\ decisions[r] = DecisionOf(r, decisions[r].eval)
    BY <1>1 DEF LinkEvaluation, RunInv, DecisionInv, Written, Evaluated, Traced, Answered
  <2>2. DecisionOf(r, decisions[r].eval).result = run[r].ev.result
    BY DEF DecisionOf
  <2> QED  BY <2>1, <2>2, RunsAssumption DEF LinkEvaluation, Decided
<1> DEFINE old == decisions[r]
           new == [old EXCEPT !.result = run[r].ev.result, !.eval = r]
<1>3. decisions' = [decisions EXCEPT ![r] = new] /\ old \in DecisionRow
  <2>1. DecisionOf(r, r).result = run[r].ev.result /\ DecisionOf(r, r).eval = r
    BY DEF DecisionOf
  <2>2. write_decision(r, DecisionOf(r, r)) /\ old # None
    BY <1>2 DEF LinkEvaluation, Decided
  <2> QED  BY <1>1, <1>2, <2>1, <2>2 DEF write_decision, Decided, TypeOK
<1>4. /\ new \in DecisionRow /\ new # None
      /\ new.book = old.book /\ new.result = old.result
      /\ new.eval = r /\ (old.eval = r => new = old)
  BY <1>2, <1>3, NoneAssumption DEF DecisionRow
<1> HIDE DEF new
<1>5. decisions'[r] = new /\ \A q \in Runs \ {r} : decisions'[q] = decisions[q]
  BY <1>1, <1>3 DEF TypeOK
<1>6. old.eval = None
  <2>1. CASE old.eval = r
    <3>1. decisions' = decisions
      BY <1>1, <1>3, <1>4, <2>1 DEF TypeOK
    <3> QED  BY <3>1
  <2> QED  BY <1>1, <1>2, <2>1 DEF RunInv, DecisionInv, Decided
<1>7. Decided' = Decided /\ Approved' = Approved
      /\ \A q \in Approved : decisions'[q].book = decisions[q].book
  <2>1. Decided' = Decided
    BY <1>2, <1>4, <1>5 DEF Decided
  <2> QED  BY <1>2, <1>4, <1>5, <2>1 DEF Approved, Decided
<1>8. LedgerIsTable /\ LedgerIsTable'
  <2>1. LedgerInv' => LedgerIsTable'
    BY LedgerIs, PTL
  <2> QED  BY <2>1, LedgerIs
<1>9. day \in Days /\ Ledger[day] = Entry(r) /\ Ledger'[day] = Entry(r)'
  BY <1>2, <1>7, <1>8 DEF LedgerIsTable
<1>10. Entry(r) = [book |-> old.book, result |-> old.result, filed |-> FALSE]
  <2>1. (old.eval # None) = FALSE
    BY <1>6
  <2> QED  BY <2>1, Zenon DEF Entry
<1>11. Entry(r)' = [book |-> old.book, result |-> old.result, filed |-> TRUE]
  <2>1. (decisions'[r].eval # None) = TRUE
    BY <1>2, <1>4, <1>5
  <2>2. decisions'[r].book = old.book /\ decisions'[r].result = old.result
    BY <1>4, <1>5
  <2> HIDE DEF old
  <2> QED  BY <2>1, <2>2, Zenon DEF Entry
<1>12. \A e \in Days : e # day => Ledger'[e] = Ledger[e]
  <2> SUFFICES ASSUME NEW e \in Days, e # day PROVE Ledger'[e] = Ledger[e]
    OBVIOUS
  <2>1. ASSUME NEW q \in Decided, DayOf[run[q].asOf] = e PROVE Ledger'[e] = Ledger[e]
    <3>1. q # r /\ q \in Runs
      BY <2>1 DEF Decided
    <3>2. Entry(q)' = Entry(q)
      BY <1>5, <3>1 DEF Entry
    <3> QED  BY <1>2, <1>7, <1>8, <2>1, <3>2 DEF LedgerIsTable
  <2>2. CASE \A q \in Decided : DayOf[run[q].asOf] # e
    BY <1>2, <1>7, <1>8, <2>2 DEF LedgerIsTable
  <2> QED  BY <2>1, <2>2
<1>13. Ledger' = [Ledger EXCEPT ![day].filed = TRUE]
  <2>1. Ledger'[day] = [Ledger[day] EXCEPT !.filed = TRUE]
    BY <1>9, <1>10, <1>11, Filing
  <2> HIDE DEF day
  <2> QED  BY <1>9, <1>12, <2>1 DEF Ledger
<1>14. \A e \in Days : Ledger[e] # None => e <= day
  <2> SUFFICES ASSUME NEW q \in Decided PROVE DayOf[run[q].asOf] <= day
    BY <1>8 DEF LedgerIsTable
  <2>1. q \in Runs /\ pc[q] # "idle" /\ Running(r)
    BY <1>1, <1>2, DecidedAt DEF Decided, Written, Evaluated, Traced, Answered, Running, Working
  <2>2. run[q].asOf \in Time /\ run[r].asOf \in Time
    BY <1>1, <1>2, <2>1 DEF Inv, RunInv, LocalsInv
  <2>3. run[q].asOf <= run[r].asOf
    BY <1>1, <2>1, <2>2, RunsAlone, TimeAssumption DEF Time
  <2> QED  BY <2>2, <2>3, DaysAssumption
<1>15. CurrentBook' = CurrentBook
  BY <1>2, <1>7, SamePortfolio
<1>16. Ledger[day] # None /\ ~Ledger[day].filed
  <2>1. ~Ledger[day].filed
    BY <1>9, <1>10
  <2>2. old.book \in Book /\ old.result \in DecisionType
    BY <1>3 DEF DecisionRow
  <2>3. Entry(r) \in [book : Book, result : DecisionType, filed : BOOLEAN]
    BY <1>10, <2>2
  <2> QED  BY <1>9, <2>1, <2>3, EntryAssumption
<1>17. Log!File(day)
  BY <1>13, <1>14, <1>15, <1>16 DEF Log!File
<1> HIDE DEF day
<1> QED  BY <1>9, <1>17 DEF Log!Next

----------------------------------------------------------------------------
(* As long as no run starts before the last one has ended and none is      *)
(* forced, table portfolio_decisions is the ledger of DecisionLog: one     *)
(* decision a day, in the order of the days, an approved one within the    *)
(* limits as seen from the portfolio the earlier ones have led to, filed   *)
(* after it was entered and while it is the last one.                      *)
THEOREM LedgerImplements ==
  ASSUME ~Overlap, ~AllowForce
  PROVE  Spec => ImplementsDecisionLog
<1>1. Init => Log!Init
  BY DEF Init, Log!Init, Ledger, DecidedOn, Decided, CurrentBook, Approved, Log!Cash, Cash
<1>2. LedgerInv /\ LedgerInv' /\ [Next]_vars => [Log!Next]_<<Ledger, CurrentBook>>
  <2> SUFFICES ASSUME LedgerInv, LedgerInv', [Next]_vars
               PROVE  Log!Next \/ (Ledger' = Ledger /\ CurrentBook' = CurrentBook)
    OBVIOUS
  <2>1. ASSUME NEW r \in Runs, RunStep(r), decisions' # decisions PROVE Log!Next
    BY <2>1, Writers, DecideStep, FileStep
  <2>2. CASE decisions' = decisions
    BY <2>2, SameTable
  <2>3. CASE \A r \in Runs : ~RunStep(r)
    BY <2>2, <2>3, NotARunStep DEF tables
  <2> QED  BY <2>1, <2>2, <2>3
<1> QED  BY <1>1, <1>2, LedgerInvHolds, PTL DEF Spec, ImplementsDecisionLog, Log!Spec
=============================================================================
