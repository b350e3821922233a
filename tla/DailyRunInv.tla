---------------------------- MODULE DailyRunInv -----------------------------
(***************************************************************************)
(* The inductive invariants behind the theorems of DailyRunProofs.  Each   *)
(* part speaks of one invocation and what its steps have left so far.      *)
(***************************************************************************)
EXTENDS DailyRun

Answered == {"returned", "traced", "evaluated", "decided", "audited", "linked"}
Traced == Answered \ {"returned"}
Evaluated == Traced \ {"traced"}
Written == Evaluated \ {"evaluated"}

(* What a run has in its local variables at each point.                    *)
LocalsInv(r) ==
  /\ pc[r] # "idle" => run[r].asOf \in Time
  /\ pc[r] = "dag" => run[r].loaded # None
  /\ pc[r] \in Evaluated => run[r].ev # None
  /\ pc[r] \in Traced => ~run[r].dry
  /\ pc[r] = "done" /\ ~run[r].dry => decisions[r] # None

(* A trace says what its run knows, and no decision: writing it again does *)
(* not change that.                                                        *)
TraceInv(r) ==
  /\ pc[r] \in Traced => traces[r] # None
  /\ traces[r] # None =>
       /\ pc[r] \in Traced \cup {"done", "crashed"}
       /\ run[r].storable
       /\ traces[r] = TraceOf(r, None)

(* The in-memory evaluation is there before the rows are written from it.  *)
DecisionInv(r) ==
  /\ pc[r] \in Written => decisions[r] # None
  /\ decisions[r] # None =>
       /\ pc[r] \in Written \cup {"done", "crashed"}
       /\ traces[r] # None
       /\ run[r].ev # None
       /\ decisions[r] = DecisionOf(r, decisions[r].eval)
       /\ decisions[r].eval \in {None, r}
       /\ decisions[r].eval = r => evals[r] # None
       /\ decisions[r].eval = None => pc[r] \in {"decided", "audited", "crashed"}

EvaluationInv(r) ==
  /\ pc[r] \in {"audited", "linked"} => evals[r] # None
  /\ evals[r] # None =>
       /\ pc[r] \in {"audited", "linked", "done", "crashed"}
       /\ decisions[r] # None
       /\ evals[r] = run[r].ev

(* The verdict is on the proposal in the trace, and is the gateway's.      *)
VerdictInv(r) ==
  /\ run[r].storable /\ run[r].proposal # None => Numeric(run[r].proposal)
  /\ run[r].ev # None =>
       /\ pc[r] \in Evaluated \cup {"done", "crashed"}
       /\ traces[r] # None
       /\ run[r].ev.book = IF run[r].proposal = None THEN Cash ELSE run[r].proposal
       /\ run[r].ev.result = "approved" =>
            /\ run[r].ev.hash # None
            /\ WithinLimits(run[r].ev.book, run[r].ev.baseline, run[r].ev.hash)

SnapshotInv(r) ==
  /\ run[r].dag # None =>
       /\ pc[r] # "idle"
       /\ run[r].dag \in snapshots
       /\ DayOf[run[r].dag.asOf] = DayOf[run[r].asOf]
  /\ run[r].shown # None => run[r].dag # None /\ run[r].dag.hash = run[r].shown

RunInv(r) ==
  /\ LocalsInv(r)
  /\ TraceInv(r)
  /\ DecisionInv(r)
  /\ EvaluationInv(r)
  /\ VerdictInv(r)
  /\ SnapshotInv(r)

Inv == TypeOK /\ \A r \in Runs : RunInv(r)

----------------------------------------------------------------------------
(* One run after the other: the one that is running is the last one that   *)
(* read the clock, whatever became of the others.                          *)
OneAtATime ==
  \A q, r \in Runs :
    Running(r) /\ q # r /\ pc[q] # "idle" =>
      pc[q] \in Ended /\ run[q].asOf < run[r].asOf

ClockInv == \A r \in Runs : run[r].asOf <= clock

(* Between its check and its decision, a run that was not forced has the   *)
(* day to itself.                                                          *)
Deciding == {"agent", "dag", "returned", "traced", "evaluated"}
DayIsFree ==
  \A r \in Runs :
    pc[r] \in Deciding /\ ~run[r].force =>
      \A q \in Decided : DayOf[decisions[q].proposedAt] # DayOf[run[r].asOf]

SequentialInv ==
  /\ Inv
  /\ ClockInv
  /\ OneAtATime
  /\ DayIsFree
  /\ OneDecisionPerDay
  /\ NoLookahead

----------------------------------------------------------------------------
(* One run after the other: what the run under way has read of the tables  *)
(* stays so until it writes.  Between the look-up and the insert, its      *)
(* snapshot stays the first of its content and day.                        *)
SnapshotIsNew(r) ==
  pc[r] = "dag" =>
    \A s \in snapshots : s.hash = run[r].loaded => DayOf[s.asOf] # DayOf[run[r].asOf]

(* The portfolio the agent was shown stays the current one until it is the *)
(* baseline of the verdict.                                                *)
Looking == {"checking", "agent", "dag", "returned", "traced"}
ViewIsCurrent(r) ==
  run[r].viewed # None =>
    /\ pc[r] \in Looking => CurrentBook = run[r].viewed
    /\ run[r].ev # None /\ run[r].ev.hash # None => run[r].ev.baseline = run[r].viewed

(* The baseline is the last book approved by a run before this one, and    *)
(* stays the last of them.                                                 *)
Earlier(r) == {q \in Approved : run[q].asOf < run[r].asOf}
BaselineIsLast(r) ==
  run[r].ev # None /\ run[r].ev.hash # None =>
    \/ Earlier(r) = {} /\ run[r].ev.baseline = Cash
    \/ \E q \in Earlier(r) : /\ \A p \in Earlier(r) : run[p].asOf <= run[q].asOf
                             /\ decisions[q].book = run[r].ev.baseline

ReadingsDiffer ==
  \A q, r \in Runs :
    pc[q] # "idle" /\ pc[r] # "idle" /\ q # r => run[q].asOf # run[r].asOf

CurrentInv ==
  /\ ReadingsDiffer
  /\ OneSnapshotPerDay
  /\ \A r \in Runs : SnapshotIsNew(r) /\ ViewIsCurrent(r) /\ BaselineIsLast(r)
=============================================================================
