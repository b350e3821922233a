---------------------------- MODULE IngestionInv ----------------------------
(***************************************************************************)
(* The inductive invariant of Ingestion.                                   *)
(***************************************************************************)
EXTENDS Ingestion

At(b) == Head(left[b])
Walking == {"discover", "resume", "snapshot", "store"}
Pending == {"current", "download", "keep"}

(* The periods that no backfill of the series has asked to leave out.      *)
Common(s, p) == \A c \in Backfills : Began(c, s) => FirstDay(c, s) <= p

(* A vintage is kept when it has a row for each of them.                   *)
VintageRow(s, p, t) == [dim |-> s, validFrom |-> p, asOf |-> Noon[DayOf[t]], value |-> t]
Kept(s, t) == \A p \in Covered(s, t) : Common(s, p) => VintageRow(s, p, t) \in facts

ClockInv ==
  /\ \A s \in Series : \A t \in published[s] : t <= now
  /\ \A s \in Vintaged : \A t, u \in published[s] : DayOf[t] = DayOf[u] => t = u
  /\ \A b \in Backfills, s \in Series : Began(b, s) => stamp[b][s] <= now

(* What a row says is true: it has the value of a release, of noon of its  *)
(* day or, without vintages, not older than the last one before the stamp. *)
RowInv(r) ==
  /\ r \in Row
  /\ r.value \in published[r.dim]
  /\ r.validFrom \in Covered(r.dim, r.value)
  /\ r.dim \in Vintaged => r.asOf = Noon[DayOf[r.value]]
  /\ r.dim \notin Vintaged =>
       r.asOf <= now /\ \A t \in published[r.dim] : t <= r.asOf => t <= r.value

FactsInv == \A f \in facts : RowInv(f)

(* Where the process is, and what it holds.                                *)
PlaceInv(b) ==
  /\ pc[b] \notin Ended => left[b] # <<>>
  /\ pc[b] \in Walking => At(b) \in Vintaged /\ Began(b, At(b))
  /\ pc[b] \in Pending => At(b) \notin Vintaged /\ Began(b, At(b))
  /\ pc[b] = "snapshot" => todo[b] # {}

ObsInv(b) ==
  \A r \in obs[b] :
    /\ RowInv(r) /\ r.dim = At(b)
    /\ pc[b] \in {"store", "keep"}
    /\ pc[b] = "keep" => r.asOf = stamp[b][At(b)]
    /\ \A q \in obs[b] : q.value = r.value
    /\ pc[b] = "store" =>
         \A p \in Covered(At(b), r.value) :
           FirstDay(b, At(b)) <= p => VintageRow(At(b), p, r.value) \in obs[b]

(* A vintage of an earlier day that the process has discovered is still to *)
(* be asked for, in its hands, or kept.                                    *)
Held(b, t) ==
  \A p \in Covered(At(b), t) :
    FirstDay(b, At(b)) <= p => VintageRow(At(b), p, t) \in obs[b]
Early(b, s, t) == DayOf[t] < DayOf[stamp[b][s]] /\ FirstDay(b, s) <= DayOf[t]

ProgressInv(b) ==
  pc[b] \in {"resume", "snapshot", "store"} =>
    /\ \A d \in todo[b] : d <= DayOf[stamp[b][At(b)]]
    /\ \A t \in published[At(b)] : Early(b, At(b), t) =>
         \/ DayOf[t] \in todo[b]
         \/ Kept(At(b), t)
         \/ pc[b] = "store" /\ Held(b, t)

FinishedInv(b) ==
  \A s \in Vintaged : Finished(b, s) =>
    \A t \in published[s] : Early(b, s, t) => Kept(s, t)

ProcessInv(b) == PlaceInv(b) /\ ObsInv(b) /\ ProgressInv(b) /\ FinishedInv(b)

(* A vintage of which there is a row is kept: why resumption may go by the *)
(* dates it finds.                                                         *)
WholeInv == \A f \in facts : f.dim \in Vintaged => Kept(f.dim, f.value)

(* No two views of a series have one stamp.                                *)
StampInv ==
  \A b \in Backfills : pc[b] \in Pending =>
    /\ \A f \in facts : f.dim = At(b) => f.asOf # stamp[b][At(b)]
    /\ \A c \in Backfills \ {b} :
         pc[c] \in Pending /\ At(c) = At(b) => stamp[c][At(b)] # stamp[b][At(b)]

TieInv ==
  \A f, g \in facts :
    f.dim = g.dim /\ f.validFrom = g.validFrom /\ f.asOf = g.asOf => f.value = g.value

Inv ==
  /\ TypeOK
  /\ ClockInv
  /\ FactsInv
  /\ \A b \in Backfills : ProcessInv(b)
  /\ WholeInv
  /\ StampInv
  /\ TieInv
=============================================================================
