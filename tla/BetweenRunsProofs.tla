------------------------- MODULE BetweenRunsProofs -------------------------
(***************************************************************************)
(* Theorems about DailyRun that relate the runs to each other: what a day  *)
(* has, what a verdict was based on, and what holds when no run starts     *)
(* before the last one has ended.                                          *)
(***************************************************************************)
EXTENDS DailyRunProofs

(* A committed decision stays, with its book, its time and its verdict.    *)
LEMMA DecisionsStay ==
  ASSUME TypeOK, TypeOK', Kept, NEW q \in Decided
  PROVE  /\ q \in Decided'
         /\ decisions'[q].proposedAt = decisions[q].proposedAt
         /\ decisions'[q].book = decisions[q].book
         /\ decisions'[q].result = decisions[q].result
<1>1. /\ q \in Runs /\ decisions[q] \in DecisionRow
      /\ decisions'[q] \in DecisionRow
  BY DEF Decided, Kept, TypeOK
<1>2. [decisions'[q] EXCEPT !.eval = None] = [decisions[q] EXCEPT !.eval = None]
  BY DEF Kept
<1>3. ASSUME NEW row \in DecisionRow
      PROVE  /\ [row EXCEPT !.eval = None].proposedAt = row.proposedAt
             /\ [row EXCEPT !.eval = None].book = row.book
             /\ [row EXCEPT !.eval = None].result = row.result
  BY DEF DecisionRow
<1>4. /\ decisions'[q].proposedAt = decisions[q].proposedAt
      /\ decisions'[q].book = decisions[q].book
      /\ decisions'[q].result = decisions[q].result
  <2>1. /\ [decisions[q] EXCEPT !.eval = None].proposedAt = decisions[q].proposedAt
        /\ [decisions[q] EXCEPT !.eval = None].book = decisions[q].book
        /\ [decisions[q] EXCEPT !.eval = None].result = decisions[q].result
    BY <1>1, <1>3
  <2>2. /\ [decisions'[q] EXCEPT !.eval = None].proposedAt = decisions'[q].proposedAt
        /\ [decisions'[q] EXCEPT !.eval = None].book = decisions'[q].book
        /\ [decisions'[q] EXCEPT !.eval = None].result = decisions'[q].result
    BY <1>1, <1>3
  <2> QED  BY <1>2, <2>1, <2>2
<1>5. q \in Decided'
  BY <1>1, NoneAssumption DEF Decided
<1> QED  BY <1>4, <1>5

----------------------------------------------------------------------------
(* What the steps of a run after its start do to its progress, its         *)
(* arguments and what it has seen.                                         *)
Progress(r) ==
  /\ Running(r)
  /\ pc'[r] \in (Working \ {"checking"}) \cup Ended
  /\ clock' = clock
  /\ run'[r].asOf = run[r].asOf /\ run'[r].force = run[r].force
  /\ run'[r].dry = run[r].dry
  /\ run'[r].seen \subseteq run[r].seen \cup Decided
  /\ pc[r] # "agent" => run'[r].seen = run[r].seen
  /\ pc'[r] = "skipped" => decision_exists_for_day(run[r].asOf)
  /\ pc'[r] \in Deciding =>
       \/ pc[r] \in Deciding
       \/ run[r].force
       \/ ~decision_exists_for_day(run[r].asOf)
  /\ decisions'[r] # None => decisions[r] # None \/ pc[r] = "evaluated"
  /\ \/ run'[r].ev = run[r].ev
     \/ run'[r].ev.hash = None
     \/ pc[r] = "traced" /\ run'[r].ev.baseline = CurrentBook

(* The tools of the agent and the end of its session.                      *)
LEMMA AgentProgress ==
  ASSUME TypeOK, NEW r \in Runs, AgentStep(r)
  PROVE  Progress(r)
<1>1. AgentEffect(r)
  BY AgentStepEffect
<1> QED
  BY <1>1 DEF AgentEffect, Progress, Running, Working, Ended, Deciding, tables

(* The steps of main and of upsert_dag_snapshot, and a crash.              *)
LEMMA ProgramProgress ==
  ASSUME Inv, NEW r \in Runs, ProgramStep(r) \/ Crash(r)
  PROVE  Progress(r)
<1>1. TypeOK /\ RunInv(r) /\ run[r] \in RunType
  BY DEF Inv, TypeOK
<1>2. CASE Crash(r)
  BY <1>1, <1>2 DEF TypeOK, Crash, Progress, Working, Ended, Deciding, tables
<1>3. CASE CheckDay(r)
  BY <1>1, <1>3 DEF TypeOK, CheckDay, Progress, Running, Working, Ended, Deciding, tables
<1>4. CASE InsertSnapshot(r)
  <2>1. /\ run'[r].asOf = run[r].asOf /\ run'[r].force = run[r].force
        /\ run'[r].dry = run[r].dry /\ run'[r].seen = run[r].seen
        /\ run'[r].ev = run[r].ev
    BY <1>1, <1>4 DEF TypeOK, InsertSnapshot, RunType
  <2> QED
    BY <1>1, <1>4, <2>1 DEF TypeOK, InsertSnapshot, Progress, Running, Working, Ended, Deciding
<1>5. CASE \/ InsertSnapshotFails(r) \/ EndDryRun(r) \/ PersistTrace(r)
           \/ WriteEvaluation(r) \/ RelinkTrace(r)
  BY <1>1, <1>5 DEF TypeOK, InsertSnapshotFails, EndDryRun, PersistTrace, WriteEvaluation,
    RelinkTrace, Progress, Running, Working, Ended, Deciding, tables
<1>6. CASE BuildMarker(r)
  <2>1. /\ run'[r].asOf = run[r].asOf /\ run'[r].force = run[r].force
        /\ run'[r].dry = run[r].dry /\ run'[r].seen = run[r].seen
        /\ run'[r].ev.hash = None
    BY <1>1, <1>6 DEF TypeOK, BuildMarker, RunType
  <2> QED
    BY <1>1, <1>6, <2>1 DEF TypeOK, BuildMarker, Progress, Running, Working, Ended, Deciding, tables
<1>7. CASE Evaluate(r)
  <2>1. /\ run'[r].asOf = run[r].asOf /\ run'[r].force = run[r].force
        /\ run'[r].dry = run[r].dry /\ run'[r].seen = run[r].seen
        /\ run'[r].ev.baseline = CurrentBook
    BY <1>1, <1>7 DEF TypeOK, Evaluate, RunType
  <2>2. /\ pc[r] = "traced" /\ pc'[r] = "evaluated" /\ clock' = clock
        /\ decisions' = decisions
    BY <1>1, <1>7 DEF TypeOK, Evaluate, tables
  <2> QED
    BY <2>1, <2>2 DEF Progress, Running, Working, Ended, Deciding
<1>8. CASE WriteDecision(r)
  BY <1>1, <1>8 DEF TypeOK, WriteDecision, Progress, Running, Working, Ended, Deciding
<1>9. CASE LinkEvaluation(r)
  <2>1. /\ pc[r] = "audited" /\ pc'[r] \in {"done", "linked"}
        /\ clock' = clock /\ run' = run
    BY <1>1, <1>9 DEF TypeOK, LinkEvaluation
  <2>2. decisions[r] # None
    BY <1>1, <2>1 DEF RunInv, DecisionInv, Written, Evaluated, Traced, Answered
  <2> QED
    BY <2>1, <2>2 DEF Progress, Running, Working, Ended, Deciding
<1> QED
  BY <1>2, <1>3, <1>4, <1>5, <1>6, <1>7, <1>8, <1>9 DEF ProgramStep

(* A run that has ended does nothing more; an idle one can only start.     *)
LEMMA RunStepProgress ==
  ASSUME Inv, NEW r \in Runs, RunStep(r)
  PROVE  \/ Progress(r)
         \/ \E t \in Time, force \in BOOLEAN, dry \in BOOLEAN : Invoke(r, t, force, dry)
  BY AgentProgress, ProgramProgress DEF RunStep, Inv

(* What the first step of a run does.                                      *)
LEMMA InvokeFresh ==
  ASSUME Inv, NEW r \in Runs, NEW t \in Time, NEW force \in BOOLEAN,
         NEW dry \in BOOLEAN, Invoke(r, t, force, dry)
  PROVE  /\ pc[r] = "idle" /\ pc'[r] = "checking"
         /\ run'[r] = NewRun(t, force, dry)
         /\ t > clock /\ clock' = t
         /\ decisions' = decisions /\ evals' = evals
         /\ decisions[r] = None /\ evals[r] = None
         /\ Overlap \/ \A q \in Runs : ~Running(q)
<1>1. TypeOK /\ RunInv(r) /\ pc[r] = "idle"
  BY DEF Inv, Invoke
<1>2. decisions[r] = None /\ evals[r] = None
  BY <1>1 DEF RunInv, DecisionInv, EvaluationInv, Written, Evaluated, Traced, Answered
<1> QED  BY <1>1, <1>2 DEF Invoke, TypeOK, tables

----------------------------------------------------------------------------
SkippedInv ==
  \A r \in Runs : pc[r] = "skipped" =>
    \E p \in Decided : DayOf[decisions[p].proposedAt] = DayOf[run[r].asOf]

(* A run skips its day only when the day has a decision, and the day keeps *)
(* it.                                                                     *)
LEMMA SkippedStep ==
  ASSUME Inv, Inv', SkippedInv, NEW r \in Runs, RunStep(r)
  PROVE  SkippedInv'
<1>1. Kept /\ OnlyRun(r) /\ TypeOK /\ TypeOK'
  BY RunStepKeeps, StepIsOfOneRun DEF RunStep, Inv
<1>2. ASSUME NEW q \in Runs, pc'[q] = "skipped"
      PROVE  \E p \in Decided' : DayOf[decisions'[p].proposedAt] = DayOf[run'[q].asOf]
  <2>1. /\ run'[q].asOf = run[q].asOf
        /\ \E p \in Decided : DayOf[decisions[p].proposedAt] = DayOf[run[q].asOf]
    <3>1. CASE q # r
      BY <1>1, <1>2, <3>1 DEF OnlyRun, SkippedInv
    <3>2. CASE q = r /\ Progress(r)
      BY <1>2, <3>2 DEF Progress, decision_exists_for_day
    <3>3. CASE q = r /\ ~Progress(r)
      <4>1. pc'[r] = "checking"
        BY <3>3, RunStepProgress, InvokeFresh
      <4> QED  BY <1>2, <3>3, <4>1
    <3> QED  BY <3>1, <3>2, <3>3
  <2>2. PICK p \in Decided : DayOf[decisions[p].proposedAt] = DayOf[run[q].asOf]
    BY <2>1
  <2>3. p \in Decided' /\ decisions'[p].proposedAt = decisions[p].proposedAt
    BY <1>1, DecisionsStay
  <2> QED  BY <2>1, <2>2, <2>3
<1> QED  BY <1>2 DEF SkippedInv

(* An edit of a file changes none of the variables below.                  *)
LEMMA NotARunStep ==
  ASSUME [Next]_vars, \A r \in Runs : ~RunStep(r)
  PROVE  clock' = clock /\ pc' = pc /\ run' = run /\ tables' = tables
  BY DEF Next, RunStep, EditLimits, EditUniverse, EditDag, vars, tables

(* Every run that returned 0, other than a dry one, leaves a decision for  *)
(* its day, however the runs overlap and wherever the others crash.        *)
THEOREM SuccessHolds == Spec => []SuccessMeansDecided
<1>1. Init => SkippedInv
  BY DEF Init, SkippedInv
<1>2. Inv /\ Inv' /\ SkippedInv /\ [Next]_vars => SkippedInv'
  <2> SUFFICES ASSUME Inv, Inv', SkippedInv, [Next]_vars PROVE SkippedInv'
    OBVIOUS
  <2>1. CASE \E r \in Runs : RunStep(r)
    BY <2>1, SkippedStep
  <2>2. CASE \A r \in Runs : ~RunStep(r)
    BY <2>2, NotARunStep DEF SkippedInv, Decided, tables
  <2> QED  BY <2>1, <2>2
<1>3. Inv /\ SkippedInv => SuccessMeansDecided
  <2> SUFFICES ASSUME Inv, SkippedInv, NEW r \in Runs, pc[r] = "done", ~run[r].dry
               PROVE  decision_exists_for_day(run[r].asOf)
    BY DEF SuccessMeansDecided, SkippedInv, decision_exists_for_day
  <2>1. r \in Decided /\ decisions[r].proposedAt = run[r].asOf
    <3>1. RunInv(r)
      BY DEF Inv
    <3>2. decisions[r] # None /\ decisions[r] = DecisionOf(r, decisions[r].eval)
      BY <3>1 DEF RunInv, LocalsInv, DecisionInv
    <3>3. DecisionOf(r, decisions[r].eval).proposedAt = run[r].asOf
      BY DEF DecisionOf
    <3> QED  BY <3>2, <3>3 DEF Decided
  <2> QED  BY <2>1 DEF decision_exists_for_day
<1> QED  BY <1>1, <1>2, <1>3, InvHolds, PTL DEF Spec

----------------------------------------------------------------------------
(* The evaluation a run is about to write, or has written, is based on an  *)
(* approved book.                                                          *)
BasedOnApproved(r) ==
  run[r].ev # None /\ run[r].ev.hash # None =>
    \/ run[r].ev.baseline = Cash
    \/ \E q \in Approved \ {r} : decisions[q].book = run[r].ev.baseline

BaselineInv == \A r \in Runs : BasedOnApproved(r)

(* What is approved stays approved.                                        *)
LEMMA ApprovedStay ==
  ASSUME TypeOK, TypeOK', Kept, NEW q \in Approved
  PROVE  q \in Approved' /\ decisions'[q].book = decisions[q].book
  BY DecisionsStay DEF Approved

(* A baseline is taken from the approved decisions of other runs.          *)
LEMMA BaselineStep ==
  ASSUME Inv, Inv', BaselineInv, NEW r \in Runs, RunStep(r), NEW q \in Runs
  PROVE  BasedOnApproved(q)'
<1>1. Kept /\ OnlyRun(r) /\ TypeOK /\ TypeOK'
  BY RunStepKeeps, StepIsOfOneRun DEF RunStep, Inv
<1>2. CASE run'[q].ev = run[q].ev
  <2>1. BasedOnApproved(q)
    BY DEF BaselineInv
  <2> QED  BY <1>1, <1>2, <2>1, ApprovedStay DEF BasedOnApproved
<1>3. CASE run'[q].ev = None \/ run'[q].ev.hash = None
  BY <1>3 DEF BasedOnApproved
<1>4. CASE q = r /\ pc[r] = "traced" /\ run'[r].ev.baseline = CurrentBook
  <2>1. CASE Approved = {}
    BY <1>4, <2>1 DEF BasedOnApproved, CurrentBook
  <2>2. CASE Approved # {}
    <3>1. /\ Latest(Approved) \in Approved
          /\ CurrentBook = decisions[Latest(Approved)].book
      BY <1>1, <2>2, LatestIsLast DEF Approved, CurrentBook
    <3>2. decisions[r] = None
      BY <1>4 DEF Inv, RunInv, DecisionInv, Written, Evaluated, Traced, Answered
    <3>3. Latest(Approved) # r
      BY <3>1, <3>2 DEF Approved, Decided
    <3>4. /\ Latest(Approved) \in Approved'
          /\ decisions'[Latest(Approved)].book = decisions[Latest(Approved)].book
      BY <1>1, <3>1, ApprovedStay
    <3> QED  BY <1>4, <3>1, <3>3, <3>4 DEF BasedOnApproved
  <2> QED  BY <2>1, <2>2
<1>5. \/ run'[q].ev = run[q].ev
      \/ run'[q].ev = None \/ run'[q].ev.hash = None
      \/ q = r /\ pc[r] = "traced" /\ run'[r].ev.baseline = CurrentBook
  <2>1. CASE q # r
    BY <1>1, <2>1 DEF OnlyRun
  <2>2. CASE q = r /\ Progress(r)
    BY <2>2 DEF Progress
  <2>3. CASE q = r /\ ~Progress(r)
    <3>1. PICK t \in Time, force \in BOOLEAN, dry \in BOOLEAN :
            run'[r] = NewRun(t, force, dry)
      BY <2>3, RunStepProgress, InvokeFresh
    <3>2. run'[r].ev = None
      BY <3>1 DEF NewRun
    <3> QED  BY <2>3, <3>2
  <2> QED  BY <2>1, <2>2, <2>3
<1> QED  BY <1>2, <1>3, <1>4, <1>5

(* A verdict is based on all cash or on a book that is approved on disk,   *)
(* and stays there.                                                        *)
THEOREM BaselineHolds == Spec => []BaselineWasApproved
<1>1. Init => BaselineInv
  BY DEF Init, NewRun, BaselineInv, BasedOnApproved
<1>2. Inv /\ Inv' /\ BaselineInv /\ [Next]_vars => BaselineInv'
  <2> SUFFICES ASSUME Inv, Inv', BaselineInv, [Next]_vars PROVE BaselineInv'
    OBVIOUS
  <2>1. CASE \E r \in Runs : RunStep(r)
    BY <2>1, BaselineStep DEF BaselineInv
  <2>2. CASE \A r \in Runs : ~RunStep(r)
    BY <2>2, NotARunStep DEF BaselineInv, BasedOnApproved, Approved, Decided, tables
  <2> QED  BY <2>1, <2>2
<1>3. Inv /\ BaselineInv => BaselineWasApproved
  <2> SUFFICES ASSUME Inv, BaselineInv, NEW r \in Runs, evals[r] # None, evals[r].hash # None
               PROVE  \/ evals[r].baseline = Cash
                      \/ \E q \in Approved \ {r} : decisions[q].book = evals[r].baseline
    BY DEF BaselineWasApproved
  <2>1. evals[r] = run[r].ev
    BY DEF Inv, RunInv, EvaluationInv
  <2> QED  BY <2>1 DEF BaselineInv, BasedOnApproved
<1> QED  BY <1>1, <1>2, <1>3, InvHolds, PTL DEF Spec

----------------------------------------------------------------------------
(* A decision is dated by its run.                                         *)
LEMMA DecidedAt ==
  ASSUME Inv, NEW q \in Decided
  PROVE  /\ decisions[q].proposedAt = run[q].asOf
         /\ pc[q] \in Written \cup {"done", "crashed"}
         /\ run[q].asOf \in Nat
<1>1. q \in Runs /\ RunInv(q) /\ TypeOK /\ decisions[q] # None
  BY DEF Inv, Decided
<1>2. /\ decisions[q] = DecisionOf(q, decisions[q].eval)
      /\ pc[q] \in Written \cup {"done", "crashed"}
  BY <1>1 DEF RunInv, DecisionInv
<1>3. DecisionOf(q, decisions[q].eval).proposedAt = run[q].asOf
  BY DEF DecisionOf
<1>4. run[q].asOf \in Nat
  BY <1>1, TimeAssumption DEF TypeOK, RunType, Time
<1> QED  BY <1>2, <1>3, <1>4

(* The parts of SequentialInv that say who runs.                           *)
Alone == ClockInv /\ OneAtATime

(* While one run is under way, no other one is, and the decisions on disk  *)
(* are of earlier runs.                                                    *)
LEMMA RunsAlone ==
  ASSUME Inv, OneAtATime, NEW r \in Runs, Running(r)
  PROVE  /\ \A q \in Runs \ {r} : ~Running(q)
         /\ \A q \in Decided \ {r} : run[q].asOf < run[r].asOf
<1>1. \A q \in Runs \ {r} : pc[q] # "idle" => pc[q] \in Ended /\ run[q].asOf < run[r].asOf
  BY DEF OneAtATime
<1>2. \A q \in Runs \ {r} : ~Running(q)
  BY <1>1 DEF Running, Working, Ended
<1>3. \A q \in Decided : pc[q] # "idle" /\ q \in Runs
  BY DecidedAt DEF Decided, Written, Evaluated, Traced, Answered
<1> QED  BY <1>1, <1>2, <1>3

(* A run starts alone, with a later reading of the clock, and stays alone. *)
LEMMA AloneStep ==
  ASSUME ~Overlap, Inv, Alone, NEW r \in Runs, RunStep(r)
  PROVE  Alone'
<1>1. OnlyRun(r) /\ TypeOK
  BY StepIsOfOneRun DEF RunStep, Inv
<1>2. clock \in Nat /\ \A q \in Runs : run[q].asOf \in Nat
  BY <1>1, TimeAssumption DEF TypeOK, RunType, Time
<1>3. CASE Progress(r)
  <2>1. ClockInv'
    BY <1>1, <1>2, <1>3 DEF Alone, ClockInv, OnlyRun, Progress
  <2>2. \A q \in Runs \ {r} : ~Running(q) /\ pc'[q] = pc[q] /\ run'[q] = run[q]
    BY <1>1, <1>3, RunsAlone DEF Alone, OnlyRun, Progress
  <2>3. \A q \in Runs \ {r} : pc[q] # "idle" => pc[q] \in Ended /\ run[q].asOf < run[r].asOf
    BY <1>3 DEF Alone, OneAtATime, Progress
  <2>4. OneAtATime'
    BY <1>3, <2>2, <2>3 DEF OneAtATime, Progress, Running
  <2> QED  BY <2>1, <2>4 DEF Alone
<1>4. ASSUME NEW t \in Time, NEW force \in BOOLEAN, NEW dry \in BOOLEAN,
             Invoke(r, t, force, dry)
      PROVE  Alone'
  <2>1. /\ run'[r].asOf = t /\ t > clock /\ clock' = t
        /\ pc[r] = "idle" /\ pc'[r] = "checking"
        /\ \A q \in Runs : ~Running(q)
    <3>1. NewRun(t, force, dry).asOf = t
      BY DEF NewRun
    <3>2. ~\E q \in Runs : Running(q)
      BY <1>4, InvokeFresh
    <3> QED  BY <1>4, <3>1, <3>2, InvokeFresh
  <2>2. t \in Nat
    BY TimeAssumption DEF Time
  <2>3. \A q \in Runs \ {r} : pc'[q] = pc[q] /\ run'[q] = run[q]
    BY <1>1 DEF OnlyRun
  <2>4. \A q \in Runs : run[q].asOf < t
    BY <1>2, <2>1, <2>2 DEF Alone, ClockInv
  <2>5. ClockInv'
    BY <1>2, <2>1, <2>2, <2>3, <2>4 DEF ClockInv
  <2>6. \A q \in Runs \ {r} : pc[q] # "idle" => pc[q] \in Ended
    BY <1>1, <2>1 DEF TypeOK, Running
  <2>7. OneAtATime'
    BY <2>1, <2>3, <2>4, <2>6 DEF OneAtATime, Running
  <2> QED  BY <2>5, <2>7 DEF Alone
<1> QED  BY <1>3, <1>4, RunStepProgress

(* The decisions after a step: those before it, and at most one of the run *)
(* that takes it.                                                          *)
LEMMA DecidedStep ==
  ASSUME Inv, Inv', NEW r \in Runs, RunStep(r), NEW q \in Decided'
  PROVE  /\ run'[q].asOf = run[q].asOf /\ run'[q].force = run[q].force
         /\ decisions'[q].proposedAt = run[q].asOf
         /\ q \in Decided \/ (q = r /\ pc[r] = "evaluated" /\ Progress(r))
<1>1. OnlyRun(r)
  BY StepIsOfOneRun DEF RunStep
<1>2. q \in Runs /\ decisions'[q] # None
  BY DEF Decided
<1>3. decisions'[q].proposedAt = run'[q].asOf
  <2>1. RunInv(q)'
    BY <1>2 DEF Inv
  <2>2. decisions'[q] = DecisionOf(q, decisions[q].eval)'
    BY <1>2, <2>1 DEF RunInv, DecisionInv
  <2>3. DecisionOf(q, decisions[q].eval)'.proposedAt = run'[q].asOf
    BY DEF DecisionOf
  <2> QED  BY <2>2, <2>3
<1>4. CASE q # r
  BY <1>1, <1>2, <1>3, <1>4 DEF OnlyRun, Decided
<1>5. CASE q = r /\ Progress(r)
  BY <1>2, <1>3, <1>5 DEF Progress, Decided
<1>6. CASE q = r /\ ~Progress(r)
  <2>1. decisions'[r] = None
    BY <1>6, RunStepProgress, InvokeFresh
  <2> QED  BY <1>2, <1>6, <2>1
<1> QED  BY <1>4, <1>5, <1>6

(* The day a run has found free, or was forced into, is free until it      *)
(* decides.                                                                *)
LEMMA DayIsFreeStep ==
  ASSUME Inv, Inv', Alone, DayIsFree, NEW r \in Runs, RunStep(r)
  PROVE  DayIsFree'
<1>1. OnlyRun(r)
  BY StepIsOfOneRun DEF RunStep
<1>2. ASSUME NEW p \in Runs, pc'[p] \in Deciding, ~run'[p].force, NEW q \in Decided'
      PROVE  DayOf[decisions'[q].proposedAt] # DayOf[run'[p].asOf]
  <2>1. CASE p # r
    <3>1. pc[p] = pc'[p] /\ run'[p] = run[p] /\ Running(p)
      BY <1>1, <1>2, <2>1 DEF OnlyRun, Deciding, Running, Working
    <3>2. ~Running(r)
      BY <2>1, <3>1, RunsAlone DEF Alone
    <3>3. q \in Decided
      BY <3>2, DecidedStep DEF Progress
    <3> QED  BY <1>2, <3>1, <3>3, DecidedStep, DecidedAt DEF DayIsFree
  <2>2. CASE p = r
    <3>1. Progress(r)
      <4>1. SUFFICES ASSUME ~Progress(r) PROVE pc'[r] = "checking"
        BY <1>2, <2>2 DEF Deciding
      <4> QED  BY <4>1, RunStepProgress, InvokeFresh
    <3>2. q # r
      BY <1>2, <2>2, DecidedAt DEF Inv, RunInv, DecisionInv, Decided, Deciding, Written,
        Evaluated, Traced, Answered
    <3>3. q \in Decided /\ decisions'[q].proposedAt = decisions[q].proposedAt
      BY <3>2, DecidedStep, DecidedAt
    <3>4. run'[r].asOf = run[r].asOf /\ ~run[r].force
      BY <1>2, <2>2, <3>1 DEF Progress
    <3>5. pc[r] \in Deciding \/ ~decision_exists_for_day(run[r].asOf)
      BY <1>2, <2>2, <3>1, <3>4 DEF Progress
    <3> QED
      BY <2>2, <3>3, <3>4, <3>5 DEF DayIsFree, decision_exists_for_day
  <2> QED  BY <2>1, <2>2
<1> QED  BY <1>2 DEF DayIsFree

(* The run that decides has its day to itself, and no decision is later.   *)
LEMMA OneDecisionStep ==
  ASSUME Inv, Inv', Alone, DayIsFree, OneDecisionPerDay, NEW r \in Runs, RunStep(r)
  PROVE  OneDecisionPerDay'
<1>1. ASSUME NEW q \in Decided', NEW p \in Decided',
             decisions'[q].proposedAt < decisions'[p].proposedAt,
             DayOf[decisions'[q].proposedAt] = DayOf[decisions'[p].proposedAt]
      PROVE  run'[p].force
  <2>1. /\ decisions'[q].proposedAt = run[q].asOf
        /\ decisions'[p].proposedAt = run[p].asOf
        /\ run'[p].force = run[p].force
        /\ run[q].asOf \in Nat /\ run[p].asOf \in Nat
    <3>1. q \in Runs /\ p \in Runs
      BY DEF Decided
    <3>2. run[q] \in RunType /\ run[p] \in RunType
      BY <3>1 DEF Inv, TypeOK
    <3>3. run[q].asOf \in Nat /\ run[p].asOf \in Nat
      BY <3>2, TimeAssumption DEF RunType, Time
    <3> QED  BY <3>3, DecidedStep
  <2>2. CASE q \in Decided /\ p \in Decided
    BY <1>1, <2>1, <2>2, DecidedAt DEF OneDecisionPerDay, Before
  <2>3. CASE q \in Decided /\ p \notin Decided
    <3>1. p = r /\ pc[r] \in Deciding
      BY <2>3, DecidedStep DEF Deciding
    <3> QED  BY <1>1, <2>1, <2>3, <3>1, DecidedAt DEF DayIsFree
  <2>4. CASE q \notin Decided
    <3>1. q = r /\ Running(r)
      BY <2>4, DecidedStep DEF Progress
    <3>2. p # r
      BY <1>1, <2>1, <3>1
    <3>3. run[p].asOf < run[r].asOf
      BY <3>1, <3>2, DecidedStep, RunsAlone DEF Alone
    <3> QED  BY <1>1, <2>1, <3>1, <3>3
  <2> QED  BY <2>2, <2>3, <2>4
<1> QED  BY <1>1 DEF OneDecisionPerDay, Before

(* The agent is shown the decisions on disk: those of earlier runs.        *)
LEMMA NoLookaheadStep ==
  ASSUME Inv, Inv', Alone, NoLookahead, NEW r \in Runs, RunStep(r)
  PROVE  NoLookahead'
<1>1. OnlyRun(r) /\ Kept /\ TypeOK /\ TypeOK'
  BY StepIsOfOneRun, RunStepKeeps DEF RunStep, Inv
<1>2. ASSUME NEW p \in Runs, NEW q \in run'[p].seen
      PROVE  decisions'[q] # None /\ decisions'[q].proposedAt < run'[p].asOf
  <2>1. q \in Runs
    BY <1>1 DEF TypeOK, RunType
  <2>2. CASE q \in run[p].seen /\ run'[p].asOf = run[p].asOf
    <3>1. q \in Decided /\ decisions[q].proposedAt < run[p].asOf
      BY <2>1, <2>2 DEF NoLookahead, Decided
    <3> QED  BY <1>1, <2>2, <3>1, DecisionsStay DEF Decided
  <2>3. CASE p = r /\ Progress(r) /\ q \notin run[r].seen
    <3>1. /\ q \in Decided /\ pc[r] = "agent" /\ Running(r)
          /\ run'[r].asOf = run[r].asOf
      BY <1>2, <2>3 DEF Progress
    <3>2. q # r
      BY <3>1 DEF Inv, RunInv, DecisionInv, Decided, Written, Evaluated, Traced, Answered
    <3>3. decisions[q].proposedAt < run[r].asOf
      BY <3>1, <3>2, RunsAlone, DecidedAt DEF Alone
    <3> QED  BY <1>1, <2>3, <3>1, <3>3, DecisionsStay DEF Decided
  <2>4. CASE p # r
    BY <1>1, <1>2, <2>2, <2>4 DEF OnlyRun
  <2>5. CASE p = r /\ Progress(r)
    BY <1>2, <2>2, <2>3, <2>5 DEF Progress
  <2>6. CASE p = r /\ ~Progress(r)
    <3>1. PICK t \in Time, force \in BOOLEAN, dry \in BOOLEAN :
            run'[r] = NewRun(t, force, dry)
      BY <2>6, RunStepProgress, InvokeFresh
    <3>2. run'[r].seen = {}
      BY <3>1 DEF NewRun
    <3> QED  BY <1>2, <2>6, <3>2
  <2> QED  BY <2>4, <2>5, <2>6
<1> QED  BY <1>2 DEF NoLookahead

(* One run after the other: the invariant of DailyRunInv is inductive.     *)
THEOREM SequentialHolds ==
  ASSUME ~Overlap
  PROVE  Spec => []SequentialInv
<1>1. Init => SequentialInv
  <2> SUFFICES ASSUME Init PROVE SequentialInv
    OBVIOUS
  <2>1. /\ clock = 0 /\ Decided = {}
        /\ \A r \in Runs : /\ pc[r] = "idle" /\ run[r].asOf = 0
                           /\ run[r].seen = {}
    BY DEF Init, NewRun, Decided
  <2> QED
    BY <2>1, InitInv DEF SequentialInv, ClockInv, OneAtATime, DayIsFree, Running, Working,
      OneDecisionPerDay, NoLookahead
<1>2. SequentialInv /\ [Next]_vars => SequentialInv'
  <2> SUFFICES ASSUME SequentialInv, [Next]_vars PROVE SequentialInv'
    OBVIOUS
  <2>1. Inv /\ Inv' /\ Alone
    BY NextInv DEF SequentialInv, Alone
  <2>2. CASE \E r \in Runs : RunStep(r)
    BY <2>1, <2>2, AloneStep, DayIsFreeStep, OneDecisionStep, NoLookaheadStep
    DEF SequentialInv, Alone
  <2>3. CASE \A r \in Runs : ~RunStep(r)
    <3>1. clock' = clock /\ pc' = pc /\ run' = run /\ tables' = tables
      BY <2>3, NotARunStep
    <3> QED
      BY <2>1, <3>1 DEF SequentialInv, ClockInv, OneAtATime, DayIsFree, Running, Decided,
        OneDecisionPerDay, Before, NoLookahead, tables
  <2> QED  BY <2>2, <2>3
<1> QED  BY <1>1, <1>2, PTL DEF Spec

(* As long as no run starts before the last one has ended, a day has one   *)
(* decision, and another one only where --force asked for it.              *)
THEOREM OneDecisionHolds ==
  ASSUME ~Overlap
  PROVE  Spec => []OneDecisionPerDay
<1>1. SequentialInv => OneDecisionPerDay
  BY DEF SequentialInv
<1> QED  BY <1>1, SequentialHolds, PTL

(* Nor is the agent of a run shown a decision from after its as_of.        *)
THEOREM NoLookaheadHolds ==
  ASSUME ~Overlap
  PROVE  Spec => []NoLookahead
<1>1. SequentialInv => NoLookahead
  BY DEF SequentialInv
<1> QED  BY <1>1, SequentialHolds, PTL

----------------------------------------------------------------------------
(* What a run has read of the tables, when runs do not overlap: it is      *)
(* still so when it matters, wherever they crash.  Portfolios form a       *)
(* chain, agent and gateway start from the same one, and a content of the  *)
(* DAG has one snapshot a day.                                             *)

(* What the steps of a run after its start do to what it has read, and to  *)
(* the tables it has read it from.                                         *)
Reading(r) ==
  /\ \/ run'[r].viewed = run[r].viewed
     \/ pc[r] = "agent" /\ run'[r].viewed = CurrentBook
  /\ pc'[r] \in Looking => pc[r] \in Looking /\ decisions' = decisions
  /\ \/ snapshots' = snapshots
     \/ /\ pc[r] = "dag" /\ pc'[r] = "agent"
        /\ snapshots' = snapshots \cup {[hash |-> run[r].loaded, asOf |-> run[r].asOf]}
  /\ pc'[r] = "dag" =>
       /\ SameDaySnapshots(r) = {} /\ run'[r].loaded = dagFile
       /\ snapshots' = snapshots

(* The tools of the agent and the end of its session.                      *)
LEMMA AgentReading ==
  ASSUME TypeOK, NEW r \in Runs, AgentStep(r)
  PROVE  Reading(r)
<1> DEFINE local == run[r]
<1>0. /\ run \in [Runs -> RunType] /\ pc \in [Runs -> Working \cup Ended \cup {"idle"}]
      /\ local \in RunType
  BY DEF TypeOK
<1>1. AgentEffect(r)
  BY AgentStepEffect
<1>2. pc[r] = "agent" /\ decisions' = decisions /\ snapshots' = snapshots
  BY <1>1 DEF AgentEffect, tables
<1>3. pc[r] \in Looking
  BY <1>2 DEF Looking
<1>4. SUFFICES /\ run'[r].viewed = run[r].viewed \/ run'[r].viewed = CurrentBook
               /\ pc'[r] = "dag" => SameDaySnapshots(r) = {} /\ run'[r].loaded = dagFile
  BY <1>2, <1>3 DEF Reading
<1> DEFINE Goal == /\ run'[r].viewed = run[r].viewed \/ run'[r].viewed = CurrentBook
                   /\ pc'[r] = "dag" => SameDaySnapshots(r) = {} /\ run'[r].loaded = dagFile
<1>5. ASSUME NEW n \in JournalSizes, read_decision_journal(r, n) PROVE Goal
  BY <1>0, <1>2, <1>5 DEF read_decision_journal, RunType
<1>6. ASSUME read_current_portfolio(r) PROVE Goal
  BY <1>0, <1>2, <1>6 DEF read_current_portfolio, RunType
<1>7. ASSUME read_causal_dag(r) PROVE Goal
  <2>1. CASE SameDaySnapshots(r) = {}
    <3> DEFINE new == [run[r] EXCEPT !.calls = @ + 1, !.loaded = dagFile]
    <3>1. run' = [run EXCEPT ![r] = new]
      BY <1>7, <2>1 DEF read_causal_dag
    <3>2. new.viewed = local.viewed /\ new.loaded = dagFile
      BY <1>0 DEF RunType
    <3> HIDE DEF new
    <3> QED  BY <1>0, <2>1, <3>1, <3>2
  <2>2. CASE SameDaySnapshots(r) # {}
    <3> DEFINE last == CHOOSE s \in SameDaySnapshots(r) :
                         \A z \in SameDaySnapshots(r) : z.asOf <= s.asOf
    <3>1. /\ run' = [run EXCEPT ![r] = [run[r] EXCEPT !.calls = @ + 1,
                       !.loaded = dagFile, !.shown = dagFile, !.dag = last]]
          /\ pc' = pc
      BY <1>7, <2>2 DEF read_causal_dag
    <3> HIDE DEF last
    <3> QED  BY <1>0, <1>2, <3>1 DEF RunType
  <2> QED  BY <2>1, <2>2
<1>8. ASSUME NEW book \in ProposedBooks, propose_portfolio(r, book) PROVE Goal
  <2> DEFINE ok == run[r].storable /\ Numeric(book)
             new == [run[r] EXCEPT !.calls = @ + 1, !.proposal = book, !.storable = ok]
  <2>1. run'[r] = new /\ pc' = pc
    BY <1>0, <1>8 DEF propose_portfolio
  <2>2. new.viewed = local.viewed
    BY <1>0 DEF RunType
  <2> HIDE DEF new, ok
  <2> QED  BY <1>2, <2>1, <2>2
<1>9. ASSUME NEW storable \in BOOLEAN, OtherTool(r, storable) PROVE Goal
  <2> DEFINE ok == run[r].storable /\ storable
             new == [run[r] EXCEPT !.calls = @ + 1, !.storable = ok]
  <2>1. run'[r] = new /\ pc' = pc
    BY <1>0, <1>9 DEF OtherTool
  <2>2. new.viewed = local.viewed
    BY <1>0 DEF RunType
  <2> HIDE DEF new, ok
  <2> QED  BY <1>2, <2>1, <2>2
<1>10. ASSUME NEW tokens \in TokenTotals, AgentReturns(r, tokens) PROVE Goal
  BY <1>0, <1>10 DEF AgentReturns, RunType
<1>11. ASSUME AgentRaises(r) PROVE Goal
  BY <1>0, <1>11 DEF AgentRaises
<1> QED
  BY <1>5, <1>6, <1>7, <1>8, <1>9, <1>10, <1>11 DEF AgentStep

(* The steps of main and of upsert_dag_snapshot, and a crash.              *)
LEMMA ProgramReading ==
  ASSUME TypeOK, NEW r \in Runs, ProgramStep(r) \/ Crash(r)
  PROVE  Reading(r)
<1>0. /\ run \in [Runs -> RunType] /\ pc \in [Runs -> Working \cup Ended \cup {"idle"}]
      /\ run[r] \in RunType
  BY DEF TypeOK
<1>1. CASE \/ CheckDay(r) \/ InsertSnapshotFails(r) \/ EndDryRun(r) \/ PersistTrace(r)
           \/ WriteDecision(r) \/ WriteEvaluation(r) \/ LinkEvaluation(r)
           \/ RelinkTrace(r) \/ Crash(r)
  BY <1>0, <1>1 DEF CheckDay, InsertSnapshotFails, EndDryRun, PersistTrace, WriteDecision,
    WriteEvaluation, LinkEvaluation, RelinkTrace, Crash, Reading, Looking, tables
<1>2. CASE InsertSnapshot(r)
  <2>1. run'[r].viewed = run[r].viewed
    BY <1>0, <1>2 DEF InsertSnapshot, RunType
  <2> QED  BY <1>0, <1>2, <2>1 DEF InsertSnapshot, Reading, Looking
<1>3. CASE BuildMarker(r)
  <2>1. run'[r].viewed = run[r].viewed
    BY <1>0, <1>3 DEF BuildMarker, RunType
  <2> QED  BY <1>0, <1>3, <2>1 DEF BuildMarker, Reading, Looking, tables
<1>4. CASE Evaluate(r)
  <2>1. run'[r].viewed = run[r].viewed
    BY <1>0, <1>4 DEF Evaluate, RunType
  <2>2. pc'[r] = "evaluated" /\ snapshots' = snapshots
    BY <1>0, <1>4 DEF Evaluate, tables
  <2> QED  BY <2>1, <2>2 DEF Reading, Looking
<1> QED  BY <1>1, <1>2, <1>3, <1>4 DEF ProgramStep

----------------------------------------------------------------------------
(* The run that takes a step after its first, while it is alone.           *)
Sole(r) == Progress(r) /\ Reading(r)

(* A step of a run is its first one, when none is running, or it is the    *)
(* one that runs.                                                          *)
LEMMA RunStepReading ==
  ASSUME ~Overlap, Inv, NEW r \in Runs, RunStep(r)
  PROVE  \/ Sole(r)
         \/ \E t \in Time : /\ pc[r] = "idle" /\ pc'[r] = "checking"
                            /\ run'[r].asOf = t /\ run'[r].viewed = None
                            /\ run'[r].ev = None
                            /\ t > clock /\ tables' = tables
                            /\ \A q \in Runs : ~Running(q)
<1>1. TypeOK
  BY DEF Inv
<1>2. CASE AgentStep(r)
  BY <1>1, <1>2, AgentProgress, AgentReading DEF Sole
<1>3. CASE ProgramStep(r) \/ Crash(r)
  BY <1>1, <1>3, ProgramProgress, ProgramReading DEF Sole
<1>4. ASSUME NEW t \in Time, NEW force \in BOOLEAN, NEW dry \in BOOLEAN,
             Invoke(r, t, force, dry)
      PROVE  /\ pc[r] = "idle" /\ pc'[r] = "checking"
             /\ run'[r].asOf = t /\ run'[r].viewed = None
             /\ run'[r].ev = None
             /\ t > clock /\ tables' = tables
             /\ \A q \in Runs : ~Running(q)
  <2>1. run'[r] = NewRun(t, force, dry) /\ ~\E q \in Runs : Running(q)
    BY <1>4, InvokeFresh
  <2>2. NewRun(t, force, dry).asOf = t /\ NewRun(t, force, dry).viewed = None
        /\ NewRun(t, force, dry).ev = None
    BY DEF NewRun
  <2>3. pc[r] = "idle" /\ pc'[r] = "checking"
    BY <1>4, InvokeFresh
  <2> QED  BY <1>4, <2>1, <2>2, <2>3 DEF Invoke
<1> QED  BY <1>2, <1>3, <1>4 DEF RunStep

(* So nothing changes under a run that is running.                         *)
LEMMA OthersWait ==
  ASSUME ~Overlap, Inv, Alone, NEW r \in Runs, RunStep(r), NEW q \in Runs, Running(q)
  PROVE  q = r /\ Sole(r)
<1>1. Sole(r)
  BY RunStepReading
<1>2. Running(r)
  BY <1>1 DEF Sole, Progress
<1> QED  BY <1>1, <1>2, RunsAlone DEF Alone

(* No two runs have the same as_of.                                        *)
LEMMA ReadingsDifferStep ==
  ASSUME ~Overlap, Inv, Inv', Alone, ReadingsDiffer, NEW r \in Runs, RunStep(r)
  PROVE  ReadingsDiffer'
<1>1. OnlyRun(r)
  BY StepIsOfOneRun DEF RunStep
<1>2. CASE Sole(r)
  BY <1>1, <1>2 DEF OnlyRun, Sole, Progress, Running, Working, ReadingsDiffer
<1>3. ASSUME NEW t \in Time, run'[r].asOf = t, t > clock, pc'[r] = "checking"
      PROVE  ReadingsDiffer'
  <2>1. \A q \in Runs : run[q].asOf \in Nat /\ run[q].asOf <= clock
    BY TimeAssumption DEF Inv, TypeOK, RunType, Time, Alone, ClockInv
  <2>2. clock \in Nat /\ t \in Nat
    BY TimeAssumption DEF Inv, TypeOK, Time
  <2>3. \A q \in Runs : run[q].asOf # t
    BY <1>3, <2>1, <2>2
  <2> QED  BY <1>1, <1>3, <2>3 DEF OnlyRun, ReadingsDiffer
<1> QED  BY <1>2, <1>3, RunStepReading

----------------------------------------------------------------------------
(* The snapshot inserted is the one that was looked for and not found.     *)
LEMMA SnapshotStep ==
  ASSUME ~Overlap, Inv, Inv', Alone, OneSnapshotPerDay,
         \A q \in Runs : SnapshotIsNew(q), NEW r \in Runs, RunStep(r)
  PROVE  OneSnapshotPerDay' /\ \A q \in Runs : SnapshotIsNew(q)'
<1>1. OnlyRun(r)
  BY StepIsOfOneRun DEF RunStep
<1>2. OneSnapshotPerDay'
  <2>1. CASE snapshots' = snapshots
    BY <2>1 DEF OneSnapshotPerDay
  <2>2. CASE Sole(r) /\ snapshots' # snapshots
    <3> DEFINE new == [hash |-> run[r].loaded, asOf |-> run[r].asOf]
    <3>1. pc[r] = "dag" /\ snapshots' = snapshots \cup {new}
      BY <2>2 DEF Sole, Reading
    <3>2. \A s \in snapshots : s.hash = new.hash => DayOf[s.asOf] # DayOf[new.asOf]
      BY <3>1 DEF SnapshotIsNew
    <3> HIDE DEF new
    <3> QED  BY <3>1, <3>2 DEF OneSnapshotPerDay
  <2> QED  BY <2>1, <2>2, RunStepReading DEF tables
<1>3. ASSUME NEW q \in Runs, pc'[q] = "dag", NEW s \in snapshots', s.hash = run'[q].loaded
      PROVE  DayOf[s.asOf] # DayOf[run'[q].asOf]
  <2>1. CASE q = r
    <3>1. Sole(r)
      BY <1>3, <2>1, RunStepReading
    <3>2. /\ SameDaySnapshots(r) = {} /\ run'[r].loaded = dagFile
          /\ snapshots' = snapshots /\ run'[r].asOf = run[r].asOf
      BY <1>3, <2>1, <3>1 DEF Sole, Reading, Progress
    <3> QED  BY <1>3, <2>1, <3>2 DEF SameDaySnapshots
  <2>2. CASE q # r
    <3>1. Running(q)
      BY <1>1, <1>3, <2>2 DEF OnlyRun, Running, Working
    <3> QED  BY <2>2, <3>1, OthersWait
  <2> QED  BY <2>1, <2>2
<1> QED  BY <1>2, <1>3 DEF SnapshotIsNew

(* Nobody decides while the run that has looked at the portfolio is at it. *)
LEMMA ViewStep ==
  ASSUME ~Overlap, Inv, Inv', Alone, \A q \in Runs : ViewIsCurrent(q),
         NEW r \in Runs, RunStep(r), NEW q \in Runs
  PROVE  ViewIsCurrent(q)'
<1>1. OnlyRun(r)
  BY StepIsOfOneRun DEF RunStep
<1>2. SUFFICES ASSUME run'[q].viewed # None
               PROVE  /\ pc'[q] \in Looking => CurrentBook' = run'[q].viewed
                      /\ run'[q].ev # None /\ run'[q].ev.hash # None =>
                           run'[q].ev.baseline = run'[q].viewed
  BY DEF ViewIsCurrent
<1>3. CASE q # r
  <2>1. pc'[q] = pc[q] /\ run'[q] = run[q]
    BY <1>1, <1>3 DEF OnlyRun
  <2>2. pc[q] \notin Looking
    BY <1>3, OthersWait DEF Looking, Running, Working
  <2> QED  BY <1>2, <2>1, <2>2 DEF ViewIsCurrent
<1>4. CASE q = r
  <2>1. Progress(r) /\ Reading(r)
    BY <1>2, <1>4, RunStepReading DEF Sole
  <2>2. ASSUME pc'[r] \in Looking PROVE CurrentBook' = run'[r].viewed
    <3>1. pc[r] \in Looking /\ decisions' = decisions
      BY <2>1, <2>2 DEF Reading
    <3>2. CurrentBook' = CurrentBook
      BY <3>1 DEF CurrentBook, Approved, Decided, Latest
    <3>3. run'[r].viewed = run[r].viewed \/ run'[r].viewed = CurrentBook
      BY <2>1 DEF Reading
    <3> QED  BY <1>2, <1>4, <3>1, <3>2, <3>3 DEF ViewIsCurrent
  <2>3. ASSUME run'[r].ev # None, run'[r].ev.hash # None
        PROVE  run'[r].ev.baseline = run'[r].viewed
    <3>1. CASE pc[r] = "traced" /\ run'[r].ev.baseline = CurrentBook
      <4>1. run'[r].viewed = run[r].viewed
        BY <2>1, <3>1 DEF Reading
      <4> QED  BY <1>2, <1>4, <3>1, <4>1 DEF ViewIsCurrent, Looking
    <3>2. CASE run'[r].ev = run[r].ev
      <4>1. pc[r] # "agent"
        BY <2>3, <3>2 DEF Inv, RunInv, VerdictInv, Evaluated, Traced, Answered
      <4>2. run'[r].viewed = run[r].viewed
        BY <2>1, <4>1 DEF Reading
      <4> QED  BY <1>2, <1>4, <2>3, <3>2, <4>2 DEF ViewIsCurrent
    <3> QED  BY <2>1, <2>3, <3>1, <3>2 DEF Progress
  <2> QED  BY <1>4, <2>2, <2>3
<1> QED  BY <1>3, <1>4

----------------------------------------------------------------------------
(* What was approved by earlier runs does not change any more.             *)
LEMMA EarlierStays ==
  ASSUME ~Overlap, Inv, Inv', Alone, NEW r \in Runs, RunStep(r),
         NEW q \in Runs, pc[q] # "idle"
  PROVE  /\ run'[q].asOf = run[q].asOf
         /\ Earlier(q)' = Earlier(q)
         /\ \A p \in Earlier(q) : /\ run'[p].asOf = run[p].asOf
                                  /\ decisions'[p].book = decisions[p].book
<1>1. OnlyRun(r) /\ Kept /\ TypeOK /\ TypeOK'
  BY StepIsOfOneRun, RunStepKeeps DEF RunStep, Inv
<1>2. run'[q].asOf = run[q].asOf
  <2>1. CASE q # r
    BY <1>1, <2>1 DEF OnlyRun
  <2>2. CASE q = r
    BY <2>2, RunStepReading DEF Sole, Progress
  <2> QED  BY <2>1, <2>2
<1>3. ASSUME NEW p \in Earlier(q)
      PROVE  /\ p \in Earlier(q)' /\ run'[p].asOf = run[p].asOf
             /\ decisions'[p].book = decisions[p].book
  <2>1. p \in Approved /\ run[p].asOf < run[q].asOf
    BY DEF Earlier
  <2>2. p \in Approved' /\ decisions'[p].book = decisions[p].book
    BY <1>1, <2>1, ApprovedStay
  <2>3. run'[p].asOf = run[p].asOf
    BY <2>2, DecidedStep DEF Approved
  <2> QED  BY <1>2, <2>1, <2>2, <2>3 DEF Earlier
<1>4. ASSUME NEW p \in Earlier(q)' PROVE p \in Earlier(q)
  <2>1. p \in Approved' /\ p \in Decided' /\ p \in Runs /\ run'[p].asOf < run'[q].asOf
    BY DEF Earlier, Approved, Decided
  <2>2. run'[p].asOf = run[p].asOf /\ (p \in Decided \/ (p = r /\ Progress(r)))
    BY <2>1, DecidedStep
  <2>3. CASE p \in Decided
    <3>1. decisions'[p].result = decisions[p].result
      BY <1>1, <2>3, DecisionsStay
    <3> QED  BY <1>2, <2>1, <2>2, <2>3, <3>1 DEF Earlier, Approved
  <2>4. CASE p = r /\ Progress(r)
    <3>1. Running(r)
      BY <2>4 DEF Progress
    <3>2. q = r \/ run[q].asOf < run[r].asOf
      BY <3>1 DEF Alone, OneAtATime
    <3>3. run[q] \in RunType /\ run[r] \in RunType
      BY <1>1 DEF TypeOK
    <3>4. run[q].asOf \in Nat /\ run[r].asOf \in Nat
      BY <3>3, TimeAssumption DEF RunType, Time
    <3> QED  BY <1>2, <2>1, <2>2, <2>4, <3>2, <3>4
  <2> QED  BY <2>2, <2>3, <2>4
<1> QED  BY <1>2, <1>3, <1>4

(* The baseline is taken from the table when all approved decisions are of *)
(* earlier runs.                                                           *)
LEMMA BaselineTaken ==
  ASSUME Inv, Alone, NEW r \in Runs, Running(r), pc[r] = "traced"
  PROVE  \/ Earlier(r) = {} /\ CurrentBook = Cash
         \/ \E q \in Earlier(r) : /\ \A p \in Earlier(r) : run[p].asOf <= run[q].asOf
                                  /\ decisions[q].book = CurrentBook
<1>1. TypeOK /\ r \notin Decided
  BY DEF Inv, RunInv, DecisionInv, Decided, Written, Evaluated, Traced, Answered
<1>2. Earlier(r) = Approved
  BY <1>1, RunsAlone DEF Alone, Earlier, Approved
<1>3. CASE Approved = {}
  BY <1>2, <1>3 DEF CurrentBook
<1>4. CASE Approved # {}
  <2>1. Approved \subseteq Decided
    BY DEF Approved
  <2>2. /\ Latest(Approved) \in Approved
        /\ \A p \in Approved : decisions[p].proposedAt <= decisions[Latest(Approved)].proposedAt
    BY <1>1, <1>4, <2>1, LatestIsLast
  <2>3. \A p \in Approved : decisions[p].proposedAt = run[p].asOf
    BY <2>1, DecidedAt
  <2> QED  BY <1>2, <1>4, <2>2, <2>3 DEF CurrentBook
<1> QED  BY <1>3, <1>4

(* The baseline of every verdict stays the last book approved before it.   *)
LEMMA ChainStep ==
  ASSUME ~Overlap, Inv, Inv', Alone, \A q \in Runs : BaselineIsLast(q),
         NEW r \in Runs, RunStep(r), NEW q \in Runs
  PROVE  BaselineIsLast(q)'
<1>1. OnlyRun(r)
  BY StepIsOfOneRun DEF RunStep
<1>2. SUFFICES ASSUME run'[q].ev # None, run'[q].ev.hash # None
               PROVE  \/ Earlier(q)' = {} /\ run'[q].ev.baseline = Cash
                      \/ \E z \in Earlier(q)' :
                           /\ \A p \in Earlier(q)' : run'[p].asOf <= run'[z].asOf
                           /\ decisions'[z].book = run'[q].ev.baseline
  BY DEF BaselineIsLast
<1>3. pc[q] # "idle"
  <2>1. CASE q # r
    <3>1. run[q].ev # None
      BY <1>1, <1>2, <2>1 DEF OnlyRun
    <3> QED  BY <3>1 DEF Inv, RunInv, VerdictInv, Evaluated, Traced, Answered
  <2>2. CASE q = r
    BY <1>2, <2>2, RunStepReading DEF Sole, Progress, Running, Working
  <2> QED  BY <2>1, <2>2
<1>4. SUFFICES \/ Earlier(q) = {} /\ run'[q].ev.baseline = Cash
               \/ \E z \in Earlier(q) : /\ \A p \in Earlier(q) : run[p].asOf <= run[z].asOf
                                        /\ decisions[z].book = run'[q].ev.baseline
  BY <1>3, EarlierStays
<1>5. CASE run'[q].ev = run[q].ev
  BY <1>2, <1>5 DEF BaselineIsLast
<1>6. CASE q = r /\ pc[r] = "traced" /\ run'[r].ev.baseline = CurrentBook
  BY <1>6, BaselineTaken DEF Running, Working
<1>7. \/ run'[q].ev = run[q].ev
      \/ q = r /\ pc[r] = "traced" /\ run'[r].ev.baseline = CurrentBook
  <2>1. CASE q # r
    BY <1>1, <2>1 DEF OnlyRun
  <2>2. CASE q = r
    BY <1>2, <2>2, RunStepReading DEF Sole, Progress
  <2> QED  BY <2>1, <2>2
<1> QED  BY <1>5, <1>6, <1>7

----------------------------------------------------------------------------
(* One run after the other, what a run has read stays so.                  *)
THEOREM CurrentHolds ==
  ASSUME ~Overlap
  PROVE  Spec => [](SequentialInv /\ CurrentInv)
<1>1. Init => CurrentInv
  <2> SUFFICES ASSUME Init PROVE CurrentInv
    OBVIOUS
  <2>1. /\ snapshots = {}
        /\ \A r \in Runs : pc[r] = "idle" /\ run[r].viewed = None /\ run[r].ev = None
    BY DEF Init, NewRun
  <2> QED
    BY <2>1 DEF CurrentInv, ReadingsDiffer, OneSnapshotPerDay, SnapshotIsNew, ViewIsCurrent,
      BaselineIsLast
<1>2. SequentialInv /\ SequentialInv' /\ CurrentInv /\ [Next]_vars => CurrentInv'
  <2> SUFFICES ASSUME SequentialInv, SequentialInv', CurrentInv, [Next]_vars PROVE CurrentInv'
    OBVIOUS
  <2>1. Inv /\ Inv' /\ Alone
    BY DEF SequentialInv, Alone
  <2>2. CASE \E r \in Runs : RunStep(r)
    <3>1. PICK r \in Runs : RunStep(r)
      BY <2>2
    <3>2. ReadingsDiffer'
      BY <2>1, <3>1, ReadingsDifferStep DEF CurrentInv
    <3>3. OneSnapshotPerDay' /\ \A q \in Runs : SnapshotIsNew(q)'
      BY <2>1, <3>1, SnapshotStep DEF CurrentInv
    <3>4. \A q \in Runs : ViewIsCurrent(q)'
      BY <2>1, <3>1, ViewStep DEF CurrentInv
    <3>5. \A q \in Runs : BaselineIsLast(q)'
      BY <2>1, <3>1, ChainStep DEF CurrentInv
    <3> QED  BY <3>2, <3>3, <3>4, <3>5 DEF CurrentInv
  <2>3. CASE \A r \in Runs : ~RunStep(r)
    <3>1. clock' = clock /\ pc' = pc /\ run' = run /\ decisions' = decisions
          /\ snapshots' = snapshots
      BY <2>3, NotARunStep DEF tables
    <3>2. CurrentBook' = CurrentBook /\ Approved' = Approved
      BY <3>1 DEF CurrentBook, Approved, Decided, Latest
    <3> QED
      BY <3>1, <3>2 DEF CurrentInv, ReadingsDiffer, OneSnapshotPerDay, SnapshotIsNew,
        ViewIsCurrent, BaselineIsLast, Earlier
  <2> QED  BY <2>2, <2>3
<1> QED  BY <1>1, <1>2, SequentialHolds, PTL DEF Spec

(* A content of the DAG has one snapshot a day: between the look-up and    *)
(* the insert of a run, no other run inserts one.                          *)
THEOREM OneSnapshotHolds ==
  ASSUME ~Overlap
  PROVE  Spec => []OneSnapshotPerDay
<1>1. CurrentInv => OneSnapshotPerDay
  BY DEF CurrentInv
<1> QED  BY <1>1, CurrentHolds, PTL

(* The gateway judges against the portfolio the agent was shown, though    *)
(* minutes lie between the two reads.                                      *)
THEOREM AgreementHolds ==
  ASSUME ~Overlap
  PROVE  Spec => []AgentAndGatewayAgree
<1>1. Inv /\ CurrentInv => AgentAndGatewayAgree
  <2> SUFFICES ASSUME Inv, CurrentInv, NEW r \in Runs,
                      evals[r] # None, evals[r].hash # None, run[r].viewed # None
               PROVE  evals[r].baseline = run[r].viewed
    BY DEF AgentAndGatewayAgree
  <2>1. evals[r] = run[r].ev
    BY DEF Inv, RunInv, EvaluationInv
  <2> QED  BY <2>1 DEF CurrentInv, ViewIsCurrent
<1>2. SequentialInv => Inv
  BY DEF SequentialInv
<1> QED  BY <1>1, <1>2, CurrentHolds, PTL

(* The approved portfolios form one chain: each was judged against the one *)
(* approved before it, whatever was rejected or crashed in between.        *)
THEOREM ChainHolds ==
  ASSUME ~Overlap
  PROVE  Spec => []ApprovedChain
<1>1. Inv /\ CurrentInv => ApprovedChain
  <2> SUFFICES ASSUME Inv, CurrentInv, NEW r \in Approved
               PROVE  run[r].ev.baseline = IF ApprovedBefore(r) = {} THEN Cash
                                           ELSE decisions[Latest(ApprovedBefore(r))].book
    BY DEF ApprovedChain
  <2>1. r \in Decided /\ r \in Runs /\ RunInv(r) /\ TypeOK
    BY DEF Approved, Decided, Inv
  <2>2. run[r].ev # None /\ run[r].ev.hash # None
    <3>1. run[r].ev # None /\ decisions[r] = DecisionOf(r, decisions[r].eval)
      BY <2>1 DEF RunInv, DecisionInv, Decided
    <3>2. DecisionOf(r, decisions[r].eval).result = run[r].ev.result
      BY DEF DecisionOf
    <3>3. run[r].ev.result = "approved"
      BY <3>1, <3>2 DEF Approved
    <3> QED  BY <2>1, <3>1, <3>3 DEF RunInv, VerdictInv
  <2>3. \A q \in Approved : /\ decisions[q].proposedAt = run[q].asOf /\ run[q].asOf \in Nat
                            /\ pc[q] # "idle" /\ q \in Runs
    BY DecidedAt DEF Approved, Decided, Written, Evaluated, Traced, Answered
  <2>4. ApprovedBefore(r) = Earlier(r)
    BY <2>3 DEF ApprovedBefore, Before, Earlier
  <2>5. BaselineIsLast(r)
    BY <2>1 DEF CurrentInv
  <2>6. CASE Earlier(r) = {}
    BY <2>2, <2>4, <2>5, <2>6 DEF BaselineIsLast
  <2>7. CASE Earlier(r) # {}
    <3> DEFINE last == Latest(Earlier(r))
    <3>1. Earlier(r) \subseteq Decided /\ Earlier(r) \subseteq Approved
      BY DEF Earlier, Approved
    <3>2. last \in Earlier(r) /\ \A p \in Earlier(r) : decisions[p].proposedAt <= decisions[last].proposedAt
      BY <2>1, <2>7, <3>1, LatestIsLast
    <3>3. PICK q \in Earlier(r) : /\ \A p \in Earlier(r) : run[p].asOf <= run[q].asOf
                                  /\ decisions[q].book = run[r].ev.baseline
      BY <2>2, <2>5, <2>7 DEF BaselineIsLast
    <3>4. run[q].asOf = run[last].asOf
      <4> HIDE DEF last
      <4>1. run[q].asOf <= run[last].asOf /\ run[last].asOf <= run[q].asOf
        BY <2>3, <3>1, <3>2, <3>3
      <4> QED  BY <2>3, <3>1, <3>2, <3>3, <4>1
    <3>5. q = last
      <4> HIDE DEF last
      <4> QED  BY <2>3, <3>1, <3>2, <3>3, <3>4 DEF CurrentInv, ReadingsDiffer
    <3> QED  BY <2>4, <2>7, <3>3, <3>5
  <2> QED  BY <2>6, <2>7
<1>2. SequentialInv => Inv
  BY DEF SequentialInv
<1> QED  BY <1>1, <1>2, CurrentHolds, PTL
=============================================================================
