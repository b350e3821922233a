--------------------------- MODULE DailyRunClaims ---------------------------
(***************************************************************************)
(* What the comments and documents of the repository say of the daily run  *)
(* and its code does not do: each property is refuted by a run of its own. *)
(* OneDecisionPerDay of DailyRun is refuted too, when runs may overlap.    *)
(***************************************************************************)
EXTENDS DailyRun

Judged(r) == evals[r] # None /\ evals[r].hash # None

(* daily_run.py:159, "Re-link trace to decision": once a run is over, its  *)
(* trace names the decision it led to.                                     *)
TraceNamesItsDecision ==
  \A r \in Runs : pc[r] = "done" /\ Judged(r) => traces[r].parent = r

(* daily_run.py:8-9, "If the agent produced a proposal: ... call risk      *)
(* gateway": whatever the agent proposed is judged.                        *)
ProposalIsJudged ==
  \A r \in Runs :
    pc[r] = "done" /\ ~run[r].dry /\ run[r].proposal # None => Judged(r)

(* risk_gateway.toml:1-3, "any config drift is detectable from the         *)
(* persisted records": evaluations with the same hash and the same inputs  *)
(* have the same verdict.                                                  *)
SameHashSameVerdict ==
  \A q, r \in Runs :
    /\ Judged(q) /\ Judged(r)
    /\ evals[q].hash = evals[r].hash
    /\ evals[q].book = evals[r].book /\ evals[q].tokens = evals[r].tokens
    /\ evals[q].baseline = evals[r].baseline
    => evals[q].result = evals[r].result
=============================================================================
