--------------------------- MODULE IngestionProofs ---------------------------
(***************************************************************************)
(* Theorems about Ingestion, for any number of backfills, series and days. *)
(* The argument: the clock, the releases, the rows and the stamps only     *)
(* grow, so what a row says stays true and what is kept stays kept; and    *)
(* the date of a vintage is found in the table only when its rows, stored  *)
(* in one transaction, are all there.                                      *)
(***************************************************************************)
EXTENDS IngestionInv, SequenceTheorems, FiniteSetTheorems, TLAPS

(* The constants and readings are what arithmetic is done with.            *)
LEMMA Sorts ==
  /\ \A t \in Time : t \in Nat
  /\ \A d \in Day : d \in Nat
  /\ \A t \in Time : DayOf[t] \in Day /\ DayOf[t] \in Nat
  /\ \A d \in Day : Noon[d] \in Nat
  /\ \A s \in Series : Lag[s] \in Nat
  /\ \A s \in Vintaged \cup Current : s \in Series /\ s \notin Symbols
  /\ \A s \in Vintaged : s \notin Current
  /\ \A s \in Series : \A t : \A p \in Covered(s, t) : p \in Day /\ p \in Nat
  /\ None \notin Time
BY TimeAssumption, SeriesAssumption DEF Time, Day, Series, Covered

(* The first day asked for is an integer.                                  *)
LEMMA FirstDayLemma ==
  ASSUME TypeOK, NEW c \in Backfills, NEW s \in Vintaged, Began(c, s)
  PROVE  /\ stamp[c][s] \in Time /\ years[c] \in Nat
         /\ FirstDay(c, s) = DayOf[stamp[c][s]] - years[c]
         /\ FirstDay(c, s) \in Int
<1>1. s \in Series /\ s \notin Symbols
  BY Sorts
<1>2. stamp[c][s] \in Time /\ years[c] \in Nat
  BY <1>1 DEF TypeOK, Began
<1>3. DayOf[stamp[c][s]] \in Nat
  BY <1>2, Sorts
<1>4. FirstDay(c, s) = DayOf[stamp[c][s]] - years[c]
  BY <1>1 DEF FirstDay
<1> QED  BY <1>2, <1>3, <1>4

(* What a loop over series leaves.                                         *)
LEMMA TailLemma ==
  ASSUME NEW S, NEW q \in Seq(S), q # <<>>
  PROVE  /\ Head(q) \in S
         /\ Tail(q) \in Seq(S)
         /\ Len(q) # 1 => Tail(q) # <<>>
         /\ \A x : x # Head(q) /\ (\A i \in DOMAIN Tail(q) : Tail(q)[i] # x)
                     => \A i \in DOMAIN q : q[i] # x
<1>1. Head(q) \in S /\ Tail(q) \in Seq(S) /\ Len(Tail(q)) = Len(q) - 1
  OBVIOUS
<1>2. Len(q) # 1 => Tail(q) # <<>>
  <2>1. Len(q) \in Nat /\ Len(<<>>) = 0
    BY EmptySeq, LenProperties
  <2>2. Tail(q) = <<>> => Len(Tail(q)) = Len(<<>>)
    BY Zenon
  <2> QED  BY <1>1, <2>1, <2>2
<1>3. ASSUME NEW x, x # Head(q), \A i \in DOMAIN Tail(q) : Tail(q)[i] # x,
             NEW i \in DOMAIN q
      PROVE  q[i] # x
  <2>1. CASE i = 1
    BY <2>1, <1>3
  <2>2. CASE i # 1
    <3>1. i - 1 \in DOMAIN Tail(q) /\ Tail(q)[i - 1] = q[i]
      BY <2>2, <1>3, <1>1
    <3> QED  BY <3>1, <1>3
  <2> QED  BY <2>1, <2>2
<1> QED  BY <1>1, <1>2, <1>3

(* The head is one of the elements.                                        *)
LEMMA HeadLemma ==
  ASSUME NEW S, NEW q \in Seq(S), q # <<>>
  PROVE  \E i \in DOMAIN q : q[i] = Head(q)
<1>1. 1 \in DOMAIN q /\ q[1] = Head(q)
  OBVIOUS
<1> QED  BY <1>1

(* Rows are rows.                                                          *)
LEMMA RowsLemma ==
  ASSUME NEW b, NEW s \in Series, NEW t \in Time, NEW asOf \in Nat
  PROVE  /\ Rows(b, s, t, asOf) \in SUBSET Row
         /\ \A r \in Rows(b, s, t, asOf) :
              /\ r.dim = s /\ r.value = t /\ r.asOf = asOf
              /\ r.validFrom \in Covered(s, t)
BY Sorts DEF Rows, Row

----------------------------------------------------------------------------
(* Types, with the place of each process.                                  *)
Typed == TypeOK /\ \A b \in Backfills : PlaceInv(b)

(* The type invariant at the start ...                                     *)
LEMMA InitTyped ==
  ASSUME Init
  PROVE  Typed
<1>1. TypeOK
  <2>1. left \in [Backfills -> Seq(Series)] /\ years \in [Backfills -> Nat]
    <3> PICK asked \in Arguments :
          /\ left = [b \in Backfills |-> asked[b].series]
          /\ years = [b \in Backfills |-> asked[b].years]
      BY DEF Init
    <3>1. \A b \in Backfills :
            /\ asked[b].series \in Seq(Vintaged \cup Current) \cup Seq(Symbols)
            /\ asked[b].years \in Nat
      BY ArgumentsAssumption
    <3>2. ASSUME NEW b \in Backfills PROVE asked[b].series \in Seq(Series)
      <4>1. CASE asked[b].series \in Seq(Vintaged \cup Current)
        BY <4>1, SeqMonotonic DEF Series
      <4>2. CASE asked[b].series \in Seq(Symbols)
        BY <4>2, SeqMonotonic DEF Series
      <4> QED  BY <3>1, <4>1, <4>2
    <3> QED  BY <3>1, <3>2
  <2> QED
    BY <2>1, ArgumentsAssumption DEF Init, TypeOK, Requesting, Ended
<1>2. ASSUME NEW b \in Backfills PROVE PlaceInv(b)
  <2>1. left[b] # <<>>
    BY ArgumentsAssumption DEF Init
  <2>2. pc[b] = "idle"
    BY DEF Init
  <2> QED  BY <2>1, <2>2 DEF PlaceInv, Walking, Pending
<1> QED  BY <1>1, <1>2 DEF Typed

(* What a step of one process leaves alone.                                *)
Steady(c) ==
  /\ pc'[c] = pc[c] /\ left'[c] = left[c] /\ years'[c] = years[c]
  /\ begun'[c] = begun[c] /\ stamp'[c] = stamp[c]
  /\ todo'[c] = todo[c] /\ obs'[c] = obs[c]

StepOf(b) == Invoke(b) \/ ProgramStep(b) \/ Crash(b)

(* A step of one process leaves the others where they are.                 *)
LEMMA OthersSteady ==
  ASSUME TypeOK, NEW b \in Backfills, StepOf(b), NEW c \in Backfills \ {b}
  PROVE  Steady(c)
<1>1. CASE Invoke(b) \/ Begin(b) \/ Crash(b)
  BY <1>1 DEF TypeOK, Steady, Invoke, backfill_macro, ingest_universe, Begin,
              BeginSeries, BeginSymbol, Crash, Fail
<1>2. CASE RequestRetries(b) \/ RequestRaises(b) \/ Snapshot(b) \/ FetchLatest(b)
  BY <1>2 DEF TypeOK, Steady, RequestRetries, RequestRaises, Snapshot, FetchLatest, Fail
<1>3. CASE Discover(b) \/ Resume(b) \/ Store(b) \/ Download(b) \/ StoreLatest(b)
  BY <1>3 DEF TypeOK, Steady, Discover, Resume, Store, Download, StoreLatest,
              NextVintage, FinishSeries
<1> QED  BY <1>1, <1>2, <1>3 DEF StepOf, ProgramStep

(* A process that stays where it is keeps what it says of its place.       *)
LEMMA SteadyPlace ==
  ASSUME NEW c, PlaceInv(c), Steady(c)
  PROVE  PlaceInv(c)'
BY DEF PlaceInv, Steady, At, Began

(* The three ways a process goes on: it fails, ...                         *)
LEMMA FailTyped ==
  ASSUME TypeOK, NEW b \in Backfills, Fail(b),
         UNCHANGED <<now, published, facts, left, years, begun, stamp>>
  PROVE  TypeOK' /\ PlaceInv(b)'
<1>1. pc'[b] = "failed"
  BY DEF TypeOK, Fail
<1>2. PlaceInv(b)'
  BY <1>1 DEF PlaceInv, Walking, Pending, Ended
<1>3. 0 \in 0 .. MaxRetries - 1
  BY ArgumentsAssumption
<1> QED  BY <1>2, <1>3 DEF TypeOK, Fail, Ended

(* ... it goes on with the next series, if there is one, ...               *)
LEMMA FinishTyped ==
  ASSUME TypeOK, NEW b \in Backfills, PlaceInv(b), FinishSeries(b), pc[b] \notin Ended
  PROVE  /\ pc' \in [Backfills -> Requesting \cup Ended \cup
                          {"idle", "series", "resume", "store", "download", "keep"}]
         /\ left' \in [Backfills -> Seq(Series)]
         /\ PlaceInv(b)'
<1>1. left[b] \in Seq(Series) /\ left[b] # <<>>
  BY DEF TypeOK, PlaceInv
<1>2. /\ left' \in [Backfills -> Seq(Series)]
      /\ pc'[b] \in {"done", "series"} /\ left'[b] = Tail(left[b])
      /\ pc'[b] = "series" => left'[b] # <<>>
  BY <1>1, TailLemma DEF TypeOK, FinishSeries
<1>3. PlaceInv(b)'
  BY <1>2 DEF PlaceInv, Walking, Pending, Ended
<1> QED  BY <1>2, <1>3 DEF FinishSeries, TypeOK, Ended

(* ... or with the next vintage.                                           *)
LEMMA NextVintageTyped ==
  ASSUME TypeOK, NEW b \in Backfills, PlaceInv(b), pc[b] \in Walking,
         NEW remaining, NextVintage(b, remaining), stamp' = stamp, todo'[b] = remaining
  PROVE  /\ pc' \in [Backfills -> Requesting \cup Ended \cup
                          {"idle", "series", "resume", "store", "download", "keep"}]
         /\ left' \in [Backfills -> Seq(Series)]
         /\ PlaceInv(b)'
<1>1. CASE FinishSeries(b)
  BY <1>1, FinishTyped DEF Walking, Ended
<1>2. CASE pc' = [pc EXCEPT ![b] = "snapshot"] /\ left' = left /\ remaining # {}
  BY <1>2 DEF TypeOK, PlaceInv, Walking, Pending, Ended, Requesting, At, Began
<1> QED  BY <1>1, <1>2 DEF NextVintage

(* ... at every step of a process ...                                      *)
LEMMA StepTyped ==
  ASSUME Typed, NEW b \in Backfills, StepOf(b)
  PROVE  TypeOK' /\ PlaceInv(b)'
<1> USE DEF Typed
<1>0. /\ PlaceInv(b) /\ left[b] \in Seq(Series)
      /\ pc[b] \notin Ended => At(b) \in Series
  BY TailLemma DEF TypeOK, PlaceInv, At
<1>1. CASE backfill_macro(b)
  BY <1>0, <1>1 DEF TypeOK, backfill_macro, PlaceInv, Walking, Pending, Ended
<1>2. ASSUME NEW t \in Time, ingest_universe(b, t) PROVE TypeOK' /\ PlaceInv(b)'
  BY <1>0, <1>2 DEF TypeOK, ingest_universe, Reads, PlaceInv, Walking, Pending, Ended
<1>3. ASSUME NEW t \in Time, BeginSeries(b, t) PROVE TypeOK' /\ PlaceInv(b)'
  <2>0. /\ pc[b] = "series" /\ left[b] # <<>> /\ At(b) \in Series /\ At(b) \notin Symbols
        /\ now' = t
    BY <1>0, <1>3 DEF BeginSeries, At, Reads, PlaceInv, Ended
  <2>1. CASE Fail(b) /\ stamp' = stamp
    <3>1. 0 \in 0 .. MaxRetries - 1
      BY ArgumentsAssumption
    <3>2. pc'[b] = "failed"
      BY <2>1 DEF Fail, TypeOK
    <3>3. PlaceInv(b)'
      BY <3>2 DEF PlaceInv, Walking, Pending, Ended
    <3> QED
      BY <3>1, <3>3, <2>0, <2>1, <1>3 DEF TypeOK, Fail, BeginSeries, Ended
  <2>2. CASE /\ stamp' = [stamp EXCEPT ![b][At(b)] = t]
             /\ pc' = [pc EXCEPT ![b] = IF At(b) \in Vintaged THEN "discover" ELSE "current"]
             /\ UNCHANGED <<todo, obs, attempt>>
    <3>1. TypeOK'
      BY <2>0, <2>2, <1>3 DEF TypeOK, BeginSeries, Requesting
    <3>2. left'[b] = left[b] /\ stamp'[b][At(b)] = t /\ t # None
      BY <2>0, <2>2, <1>3, Sorts DEF BeginSeries, TypeOK
    <3>3. PlaceInv(b)'
      BY <3>2, <2>0, <2>2 DEF PlaceInv, Walking, Pending, At, Began, TypeOK
    <3> QED  BY <3>1, <3>3
  <2> QED  BY <1>3, <2>1, <2>2 DEF BeginSeries, At
<1>4. ASSUME NEW t \in Time, BeginSymbol(b, t) PROVE TypeOK' /\ PlaceInv(b)'
  <2>0. /\ pc[b] = "series" /\ left[b] # <<>> /\ At(b) \in Symbols /\ At(b) \in Series
    BY <1>0, <1>4 DEF BeginSymbol, At, PlaceInv, Ended
  <2>1. TypeOK'
    BY <2>0, <1>4 DEF TypeOK, BeginSymbol, At
  <2>2. /\ left'[b] = left[b] /\ stamp'[b][At(b)] = t /\ t # None
        /\ pc'[b] = "download"
    BY <2>0, <1>4, Sorts DEF BeginSymbol, TypeOK, At
  <2>3. PlaceInv(b)'
    BY <2>2, <2>0, Sorts DEF PlaceInv, Walking, Pending, At, Began
  <2> QED  BY <2>1, <2>3
<1>5. CASE RequestRetries(b)
  <2>1. attempt[b] + 1 \in 0 .. MaxRetries - 1
    BY <1>5, ArgumentsAssumption DEF RequestRetries, TypeOK
  <2> QED  BY <2>1, <1>0, <1>5 DEF TypeOK, RequestRetries, PlaceInv, At, Began
<1>6. CASE RequestRaises(b) \/ Crash(b)
  BY <1>6, FailTyped DEF RequestRaises, Crash
<1>7. CASE Discover(b)
  <2>1. 0 \in 0 .. MaxRetries - 1
    BY ArgumentsAssumption
  <2>2. CASE FinishSeries(b) /\ todo' = todo
    BY <2>1, <2>2, <1>0, <1>7, FinishTyped DEF Discover, Answered, TypeOK, Ended
  <2>3. CASE /\ \E dates \in SUBSET Day : todo' = [todo EXCEPT ![b] = dates]
             /\ pc' = [pc EXCEPT ![b] = "resume"] /\ left' = left
    <3>1. TypeOK'
      BY <2>1, <2>3, <1>7 DEF Discover, Answered, TypeOK
    <3>2. PlaceInv(b)'
      BY <2>3, <1>0, <1>7 DEF Discover, TypeOK, PlaceInv, Walking, Pending, Ended, At, Began
    <3> QED  BY <3>1, <3>2
  <2>4. \A t \in published[Head(left[b])] : DayOf[t] \in Day
    BY <1>0, <1>7, Sorts DEF Discover, TypeOK, At, Ended
  <2> QED  BY <1>7, <2>2, <2>3, <2>4 DEF Discover
<1>8. CASE Resume(b)
  <2>1. todo' \in [Backfills -> SUBSET Day]
    BY <1>8 DEF Resume, TypeOK
  <2> QED
    BY <1>8, <2>1, <1>0, NextVintageTyped DEF Resume, TypeOK, Walking
<1>9. CASE Snapshot(b)
  <2>0. At(b) \in Series /\ 0 \in 0 .. MaxRetries - 1
    BY <1>0, <1>9, ArgumentsAssumption DEF Snapshot, Ended
  <2>1. PICK vd \in todo[b], t \in published[At(b)] :
          /\ todo' = [todo EXCEPT ![b] = @ \ {vd}]
          /\ obs' = [obs EXCEPT ![b] = Rows(b, At(b), t, Noon[vd])]
    BY <1>9 DEF Snapshot, At
  <2>2. vd \in Day /\ t \in Time /\ Noon[vd] \in Nat
    BY <2>0, Sorts DEF TypeOK
  <2>3. Rows(b, At(b), t, Noon[vd]) \in SUBSET Row
    BY <2>0, <2>2, RowsLemma
  <2>4. TypeOK'
    BY <2>0, <2>1, <2>3, <1>9 DEF Snapshot, Answered, TypeOK
  <2>5. PlaceInv(b)'
    BY <1>0, <1>9 DEF Snapshot, TypeOK, PlaceInv, Walking, Pending, Ended, At, Began
  <2> QED  BY <2>4, <2>5
<1>10. CASE Store(b)
  <2>1. facts' \in SUBSET Row /\ obs' \in [Backfills -> SUBSET Row]
    BY <1>10 DEF Store, TypeOK, bulk_insert_facts
  <2> QED
    BY <1>10, <2>1, <1>0, NextVintageTyped DEF Store, TypeOK, Walking
<1>11. ASSUME pc[b] \in Pending PROVE TodaysView(b) \in SUBSET Row
  <2>1. At(b) \in Series /\ stamp[b][At(b)] \in Time
    BY <1>0, <1>11 DEF PlaceInv, Pending, Ended, Began, TypeOK
  <2>2. \A t \in LastRelease(published[At(b)]) : t \in Time
    BY <2>1 DEF LastRelease, TypeOK
  <2>3. \A t \in LastRelease(published[At(b)]) :
          Rows(b, At(b), t, stamp[b][At(b)]) \in SUBSET Row
    BY <2>1, <2>2, RowsLemma, Sorts
  <2> QED  BY <2>3 DEF TodaysView, At
<1>12. CASE FetchLatest(b)
  <2>0. 0 \in 0 .. MaxRetries - 1
    BY ArgumentsAssumption
  <2>1. TypeOK'
    BY <2>0, <1>12, <1>11 DEF FetchLatest, Answered, TypeOK, Pending
  <2>2. PlaceInv(b)'
    BY <1>0, <1>12 DEF FetchLatest, TypeOK, PlaceInv, Walking, Pending, Ended, At, Began
  <2> QED  BY <2>1, <2>2
<1>13. CASE Download(b)
  <2>1. CASE FinishSeries(b) /\ obs' = obs
    BY <2>1, <1>0, <1>13, FinishTyped DEF Download, TypeOK, Ended
  <2>2. CASE /\ obs' = [obs EXCEPT ![b] = TodaysView(b)]
             /\ pc' = [pc EXCEPT ![b] = "keep"] /\ left' = left
    <3>1. TypeOK'
      BY <2>2, <1>13, <1>11 DEF Download, TypeOK, Pending
    <3>2. PlaceInv(b)'
      BY <2>2, <1>0, <1>13 DEF Download, TypeOK, PlaceInv, Walking, Pending, Ended, At, Began
    <3> QED  BY <3>1, <3>2
  <2> QED  BY <1>13, <2>1, <2>2 DEF Download
<1>14. CASE StoreLatest(b)
  <2>1. facts' \in SUBSET Row /\ obs' \in [Backfills -> SUBSET Row]
    BY <1>14 DEF StoreLatest, TypeOK, bulk_insert_facts
  <2> QED
    BY <1>14, <2>1, <1>0, FinishTyped DEF StoreLatest, TypeOK, Ended
<1> QED
  BY <1>1, <1>2, <1>3, <1>4, <1>5, <1>6, <1>7, <1>8, <1>9, <1>10, <1>12, <1>13, <1>14
  DEF StepOf, Invoke, ProgramStep, Begin

(* ... at a release ...                                                    *)
LEMMA ReleaseTyped ==
  ASSUME Typed, NEW s \in Series, NEW t \in Time, Release(s, t)
  PROVE  TypeOK' /\ \A c \in Backfills : Steady(c)
BY DEF Typed, TypeOK, Release, process, Steady

(* ... and so at every step.                                               *)
LEMMA NextTyped ==
  ASSUME Typed, [Next]_vars
  PROVE  Typed'
<1>1. ASSUME NEW s \in Series, NEW t \in Time, Release(s, t) PROVE Typed'
  BY <1>1, ReleaseTyped, SteadyPlace DEF Typed
<1>2. ASSUME NEW b \in Backfills, StepOf(b) PROVE Typed'
  <2>1. \A c \in Backfills : PlaceInv(c)'
    BY <1>2, StepTyped, OthersSteady, SteadyPlace DEF Typed
  <2> QED  BY <1>2, <2>1, StepTyped DEF Typed
<1>3. CASE UNCHANGED vars
  BY <1>3 DEF Typed, TypeOK, PlaceInv, At, Began, vars, process
<1> QED  BY <1>1, <1>2, <1>3 DEF Next, StepOf

----------------------------------------------------------------------------
(* What only grows.  A first day does because a stamp is a later reading   *)
(* than the one it replaces.                                               *)
Grows ==
  /\ now <= now' /\ facts \subseteq facts'
  /\ \A s \in Series :
       /\ published[s] \subseteq published'[s]
       /\ \A t \in published'[s] : t \in published[s] \/ now < t
  /\ \A c \in Backfills, s \in Vintaged :
       Began(c, s) => Began(c, s)' /\ FirstDay(c, s) <= FirstDay(c, s)'

(* A stamp once taken is not forgotten, and a new one is not earlier.      *)
LEMMA StampsGrow ==
  ASSUME Typed, ClockInv, NEW b \in Backfills, StepOf(b)
  PROVE  /\ published' = published /\ years' = years
         /\ now <= now' /\ now \in Nat /\ now' \in Nat
         /\ \A c \in Backfills, s \in Series :
              /\ stamp[c][s] # None =>
                   stamp[c][s] \in Time /\ stamp'[c][s] \in Time /\ stamp[c][s] <= stamp'[c][s]
              /\ stamp'[c][s] # None => stamp'[c][s] \in Time /\ stamp'[c][s] <= now'
<1>0. TypeOK /\ TypeOK'
  BY StepTyped DEF Typed
<1>a. now \in Nat /\ now' \in Nat
  BY <1>0, Sorts DEF TypeOK
<1>1. CASE \/ backfill_macro(b) \/ (\E t \in Time : ingest_universe(b, t))
           \/ RequestRetries(b) \/ RequestRaises(b) \/ Crash(b) \/ Discover(b) \/ Resume(b)
           \/ Snapshot(b) \/ Store(b) \/ FetchLatest(b) \/ Download(b) \/ StoreLatest(b)
  <2>1. stamp' = stamp /\ published' = published /\ years' = years
    BY <1>1 DEF backfill_macro, ingest_universe, Reads, RequestRetries, RequestRaises,
       Crash, Discover, Resume, Snapshot, Store, FetchLatest, Download, StoreLatest
  <2>2. now' = now \/ now <= now'
    BY <1>1 DEF backfill_macro, ingest_universe, Reads, RequestRetries, RequestRaises,
       Crash, Discover, Resume, Snapshot, Store, FetchLatest, Download, StoreLatest
  <2>3. now <= now'
    BY <1>a, <2>2
  <2>4. ASSUME NEW c \in Backfills, NEW s \in Series
        PROVE  /\ stamp[c][s] \in Time \cup {None}
               /\ stamp[c][s] \in Time => stamp[c][s] <= now
    BY <1>0, Sorts DEF TypeOK, ClockInv, Began
  <2> QED  BY <1>a, <2>1, <2>3, <2>4, Sorts
<1>2. ASSUME NEW t \in Time, BeginSeries(b, t) \/ BeginSymbol(b, t)
      PROVE  /\ published' = published /\ years' = years /\ now <= now'
             /\ \A c \in Backfills, s \in Series :
                  /\ stamp[c][s] # None =>
                       stamp[c][s] \in Time /\ stamp'[c][s] \in Time /\ stamp[c][s] <= stamp'[c][s]
                  /\ stamp'[c][s] # None => stamp'[c][s] \in Time /\ stamp'[c][s] <= now'
  <2>1. /\ published' = published /\ years' = years /\ now' = t /\ now <= t
        /\ \/ stamp' = stamp
           \/ stamp' = [stamp EXCEPT ![b][Head(left[b])] = t]
    BY <1>2, <1>0, <1>a DEF BeginSeries, BeginSymbol, Reads, Time
  <2>2. ASSUME NEW c \in Backfills, NEW s \in Series
        PROVE  stamp'[c][s] = stamp[c][s] \/ stamp'[c][s] = t
    <3>1. stamp \in [Backfills -> [Series -> Time \cup {None}]]
      BY <1>0 DEF TypeOK
    <3> QED  BY <2>1, <3>1
  <2>3. ASSUME NEW c \in Backfills, NEW s \in Series
        PROVE  /\ stamp[c][s] \in Time \cup {None} /\ stamp'[c][s] \in Time \cup {None}
               /\ stamp[c][s] \in Time => stamp[c][s] <= now
    BY <1>0, Sorts DEF TypeOK, ClockInv, Began
  <2> QED  BY <1>a, <1>2, <2>1, <2>2, <2>3, Sorts
<1> QED
  BY <1>0, <1>a, <1>1, <1>2 DEF StepOf, Invoke, ProgramStep, Begin

(* The clock, the releases and the rows only grow.                         *)
LEMMA NextGrows ==
  ASSUME Typed, ClockInv, Next
  PROVE  Grows /\ ClockInv'
<1>0. TypeOK /\ TypeOK'
  BY NextTyped DEF Typed
<1>a. now \in Nat /\ now' \in Nat
  BY <1>0, Sorts DEF TypeOK
<1>1. ASSUME NEW s \in Series, NEW t \in Time, Release(s, t) PROVE Grows /\ ClockInv'
  <2>1. /\ now < t /\ now' = t /\ UNCHANGED <<facts, stamp, begun, years>>
        /\ \A r \in Series : published'[r] = IF r = s THEN published[s] \cup {t} ELSE published[r]
        /\ s \in Vintaged => \A u \in published[s] : DayOf[u] # DayOf[t]
    BY <1>0, <1>a, <1>1 DEF Release, process, TypeOK
  <2>2. Grows
    <3>1. \A c \in Backfills, r \in Vintaged :
            Began(c, r) => Began(c, r)' /\ FirstDay(c, r) <= FirstDay(c, r)'
      <4>1. ASSUME NEW c \in Backfills, NEW r \in Vintaged, Began(c, r)
            PROVE  Began(c, r)' /\ FirstDay(c, r) = FirstDay(c, r)'
        BY <2>1, <4>1 DEF Began, FirstDay
      <4> QED  BY <4>1, <1>0, FirstDayLemma
    <3> QED  BY <2>1, <3>1, <1>a, <1>1, Sorts DEF Grows
  <2>3. ClockInv'
    <3>1. \A r \in Series : \A u \in published'[r] : u <= now'
      <4>1. ASSUME NEW r \in Series, NEW u \in published'[r] PROVE u <= now'
        <5>1. u = t \/ (u \in published[r] /\ u \in Time)
          BY <2>1, <1>0 DEF TypeOK
        <5>2. u \in published[r] => u <= now
          BY DEF ClockInv
        <5>3. t \in Nat /\ now < t /\ now' = t /\ (u \in Time => u \in Nat)
          BY <2>1, Sorts
        <5> QED  BY <5>1, <5>2, <5>3, <1>a
      <4> QED  BY <4>1
    <3>2. \A r \in Vintaged : \A u, v \in published'[r] : DayOf[u] = DayOf[v] => u = v
      BY <2>1, <1>0, Sorts DEF ClockInv
    <3>3. \A c \in Backfills, r \in Series : Began(c, r)' => stamp'[c][r] <= now'
      BY <2>1, <1>0, Sorts DEF ClockInv, Began, TypeOK
    <3> QED  BY <3>1, <3>2, <3>3 DEF ClockInv
  <2> QED  BY <2>2, <2>3
<1>2. ASSUME NEW b \in Backfills, StepOf(b) PROVE Grows /\ ClockInv'
  <2>1. facts \subseteq facts'
    BY <1>2 DEF StepOf, Invoke, ProgramStep, Begin, backfill_macro, ingest_universe,
       BeginSeries, BeginSymbol, RequestRetries, RequestRaises, Crash, Discover, Resume,
       Snapshot, Store, FetchLatest, Download, StoreLatest, bulk_insert_facts
  <2>2. \A c \in Backfills, s \in Vintaged :
          Began(c, s) => Began(c, s)' /\ FirstDay(c, s) <= FirstDay(c, s)'
    <3> SUFFICES ASSUME NEW c \in Backfills, NEW s \in Vintaged, Began(c, s)
                 PROVE  Began(c, s)' /\ FirstDay(c, s) <= FirstDay(c, s)'
      OBVIOUS
    <3>1. /\ stamp[c][s] \in Time /\ stamp'[c][s] \in Time /\ stamp[c][s] <= stamp'[c][s]
          /\ years'[c] = years[c] /\ years[c] \in Nat
      BY <1>0, <1>a, <1>2, StampsGrow, Sorts DEF Began, TypeOK
    <3>2. DayOf[stamp[c][s]] <= DayOf[stamp'[c][s]]
      BY <3>1, TimeAssumption
    <3>3. Began(c, s)' /\ FirstDay(c, s)' = DayOf[stamp'[c][s]] - years'[c]
      BY <3>1, Sorts DEF Began, FirstDay
    <3>4. FirstDay(c, s) = DayOf[stamp[c][s]] - years[c]
      BY <1>0, FirstDayLemma
    <3>5. DayOf[stamp[c][s]] \in Nat /\ DayOf[stamp'[c][s]] \in Nat
      BY <3>1, Sorts
    <3> QED  BY <3>1, <3>2, <3>3, <3>4, <3>5
  <2>3. Grows
    BY <2>1, <2>2, <1>2, StampsGrow DEF Grows
  <2>4. ClockInv'
    BY <1>0, <1>a, <1>2, StampsGrow, Sorts DEF ClockInv, Began, TypeOK
  <2> QED  BY <2>3, <2>4
<1> QED  BY <1>1, <1>2 DEF Next, StepOf

(* So what a row says stays true and what is kept stays kept.              *)
LEMMA RowStays ==
  ASSUME TypeOK, TypeOK', Grows, NEW r, RowInv(r)
  PROVE  RowInv(r)'
<1>1. r \in Row /\ r.dim \in Series /\ r.asOf \in Nat /\ r.value \in Time
  BY DEF RowInv, Row
<1>2. \A t \in published'[r.dim] : r.dim \notin Vintaged /\ t <= r.asOf => t <= r.value
  BY <1>1, Sorts DEF RowInv, Grows, TypeOK
<1> QED  BY <1>1, <1>2, Sorts DEF RowInv, Grows, TypeOK

(* A vintage that is kept stays so: a window that begins later excuses.    *)
LEMMA KeptStays ==
  ASSUME TypeOK, TypeOK', Grows, NEW s \in Vintaged, NEW t \in Time, Kept(s, t)
  PROVE  Kept(s, t)'
<1>1. ASSUME NEW p \in Covered(s, t), Common(s, p)' PROVE Common(s, p)
  <2>1. ASSUME NEW c \in Backfills, Began(c, s) PROVE FirstDay(c, s) <= p
    <3>1. FirstDay(c, s)' <= p /\ FirstDay(c, s) <= FirstDay(c, s)'
      BY <1>1, <2>1 DEF Common, Grows
    <3>2. stamp'[c][s] \in Time /\ years'[c] \in Nat
      BY <2>1, Sorts DEF Grows, Began, TypeOK
    <3>3. FirstDay(c, s)' = DayOf[stamp'[c][s]] - years'[c] /\ DayOf[stamp'[c][s]] \in Nat
      BY <3>2, Sorts DEF FirstDay
    <3>4. p \in Nat
      BY <1>1, Sorts
    <3>5. FirstDay(c, s) \in Int
      BY <2>1, FirstDayLemma
    <3> QED  BY <3>1, <3>2, <3>3, <3>4, <3>5
  <2> QED  BY <2>1 DEF Common
<1> QED  BY <1>1 DEF Kept, Grows, Covered, VintageRow

----------------------------------------------------------------------------
(* A release is too late for every stamp taken before it.                  *)
LEMMA LateRelease ==
  ASSUME TypeOK, ClockInv, NEW c \in Backfills, NEW s \in Vintaged, Began(c, s),
         NEW t \in Time, now < t
  PROVE  ~ Early(c, s, t)
<1>1. stamp[c][s] \in Time /\ stamp[c][s] <= now /\ now \in Nat
  BY Sorts DEF TypeOK, ClockInv, Began
<1>2. stamp[c][s] <= t
  BY <1>1, Sorts
<1>3. DayOf[stamp[c][s]] <= DayOf[t]
  BY <1>1, <1>2, TimeAssumption
<1>4. DayOf[stamp[c][s]] \in Nat /\ DayOf[t] \in Nat
  BY <1>1, Sorts
<1> QED  BY <1>3, <1>4 DEF Early

(* The window of a process on a series is that of its stamp.               *)
LEMMA SameWindow ==
  ASSUME NEW c \in Backfills, NEW s \in Vintaged,
         stamp'[c][s] = stamp[c][s], years'[c] = years[c]
  PROVE  /\ FirstDay(c, s)' = FirstDay(c, s)
         /\ \A t : Early(c, s, t)' <=> Early(c, s, t)
<1>1. s \notin Symbols
  BY Sorts
<1>2. FirstDay(c, s)' = FirstDay(c, s)
  BY <1>1 DEF FirstDay
<1> QED  BY <1>2 DEF Early

(* What a finished series had kept, it still has.                          *)
LEMMA FinishedStep ==
  ASSUME TypeOK, TypeOK', ClockInv, Grows, NEW c \in Backfills, FinishedInv(c),
         years'[c] = years[c],
         \A s \in Vintaged :
           Finished(c, s)' =>
             /\ stamp'[c][s] = stamp[c][s]
             /\ \/ Finished(c, s)
                \/ \A t \in published[s] : Early(c, s, t) => Kept(s, t)'
  PROVE  FinishedInv(c)'
<1> SUFFICES ASSUME NEW s \in Vintaged, Finished(c, s)',
                    NEW t \in published'[s], Early(c, s, t)'
             PROVE  Kept(s, t)'
  BY DEF FinishedInv
<1>1. stamp'[c][s] = stamp[c][s] /\ Began(c, s)
  BY DEF Finished, Began
<1>2. Early(c, s, t)
  BY <1>1, SameWindow
<1>3. t \in Time /\ s \in Series
  BY Sorts DEF TypeOK
<1>4. t \in published[s]
  BY <1>1, <1>2, <1>3, LateRelease DEF Grows
<1>5. CASE Finished(c, s)
  BY <1>2, <1>3, <1>4, <1>5, KeptStays DEF FinishedInv
<1> QED  BY <1>2, <1>4, <1>5

(* What other processes and the services do leaves a process as it is.     *)
LEMMA SteadyProcess ==
  ASSUME TypeOK, TypeOK', ClockInv, Grows, NEW c \in Backfills, Steady(c), ProcessInv(c)
  PROVE  ProcessInv(c)'
<1>1. PlaceInv(c)'
  BY SteadyPlace DEF ProcessInv
<1>2. /\ At(c)' = At(c) /\ FirstDay(c, At(c))' = FirstDay(c, At(c))
      /\ pc'[c] = pc[c] /\ obs'[c] = obs[c] /\ todo'[c] = todo[c] /\ stamp'[c] = stamp[c]
  BY DEF Steady, At, FirstDay
<1>3. ObsInv(c)'
  <2> SUFFICES ASSUME NEW r \in obs'[c]
               PROVE  (/\ RowInv(r) /\ r.dim = At(c)
                       /\ pc[c] \in {"store", "keep"}
                       /\ pc[c] = "keep" => r.asOf = stamp[c][At(c)]
                       /\ \A q \in obs[c] : q.value = r.value
                       /\ pc[c] = "store" =>
                            \A p \in Covered(At(c), r.value) :
                              FirstDay(c, At(c)) <= p => VintageRow(At(c), p, r.value) \in obs[c])'
    BY DEF ObsInv
  <2>1. /\ RowInv(r) /\ r.dim = At(c)
        /\ pc[c] \in {"store", "keep"}
        /\ pc[c] = "keep" => r.asOf = stamp[c][At(c)]
        /\ \A q \in obs[c] : q.value = r.value
        /\ pc[c] = "store" =>
             \A p \in Covered(At(c), r.value) :
               FirstDay(c, At(c)) <= p => VintageRow(At(c), p, r.value) \in obs[c]
    BY <1>2 DEF ProcessInv, ObsInv
  <2>2. RowInv(r)'
    BY <2>1, RowStays
  <2> QED  BY <1>2, <2>1, <2>2 DEF Covered, VintageRow
<1>4. ProgressInv(c)'
  <2> SUFFICES ASSUME pc[c] \in {"resume", "snapshot", "store"}
               PROVE  (/\ \A d \in todo[c] : d <= DayOf[stamp[c][At(c)]]
                       /\ \A t \in published[At(c)] : Early(c, At(c), t) =>
                            \/ DayOf[t] \in todo[c]
                            \/ Kept(At(c), t)
                            \/ pc[c] = "store" /\ Held(c, t))'
    BY <1>2 DEF ProgressInv
  <2>1. /\ \A d \in todo[c] : d <= DayOf[stamp[c][At(c)]]
        /\ \A t \in published[At(c)] : Early(c, At(c), t) =>
             \/ DayOf[t] \in todo[c]
             \/ Kept(At(c), t)
             \/ pc[c] = "store" /\ Held(c, t)
    BY DEF ProcessInv, ProgressInv
  <2>2. At(c) \in Vintaged /\ Began(c, At(c)) /\ At(c) \in Series
    BY Sorts DEF ProcessInv, PlaceInv, Walking
  <2>3. ASSUME NEW t \in published'[At(c)], Early(c, At(c), t)'
        PROVE  (\/ DayOf[t] \in todo[c]
                \/ Kept(At(c), t)
                \/ pc[c] = "store" /\ Held(c, t))'
    <3>1. Early(c, At(c), t)
      BY <1>2, <2>3 DEF Early
    <3>2. t \in Time
      BY <2>2 DEF TypeOK
    <3>3. t \in published[At(c)]
      BY <2>2, <3>1, <3>2, LateRelease DEF Grows
    <3>4. Kept(At(c), t) => \A s \in Vintaged : s = At(c) => Kept(s, t)'
      BY <3>2, KeptStays
    <3>5. Kept(At(c), t) => Kept(At(c), t)'
      BY <1>2, <2>2, <3>4 DEF Kept, Common, Began, FirstDay, VintageRow
    <3>6. Held(c, t) => Held(c, t)'
      BY <1>2 DEF Held, VintageRow, Covered
    <3> QED  BY <1>2, <2>1, <3>1, <3>3, <3>5, <3>6
  <2> QED  BY <1>2, <2>1, <2>3
<1>5. FinishedInv(c)'
  <2>1. \A s \in Vintaged : Finished(c, s)' => stamp'[c][s] = stamp[c][s] /\ Finished(c, s)
    BY DEF Steady, Finished, Began
  <2> QED  BY <2>1, FinishedStep DEF ProcessInv, Steady
<1> QED  BY <1>1, <1>3, <1>4, <1>5 DEF ProcessInv

----------------------------------------------------------------------------
(* The steps of a process, as to its own part of the invariant.            *)
LEMMA EmptyHands ==
  ASSUME NEW b, ObsInv(b), pc[b] \notin {"store", "keep"}
  PROVE  obs[b] = {}
BY DEF ObsInv

Hypotheses(b) ==
  /\ Typed /\ TypeOK' /\ ClockInv /\ Grows /\ StepOf(b)
  /\ \A c \in Backfills : ProcessInv(c)
  /\ FactsInv /\ WholeInv

(* Between two series a process has no claim to keep.                      *)
LEMMA ElsewhereProcess ==
  ASSUME NEW b \in Backfills, Hypotheses(b),
         \/ Invoke(b) \/ Begin(b) \/ RequestRaises(b) \/ Crash(b)
  PROVE  ObsInv(b)' /\ ProgressInv(b)' /\ FinishedInv(b)'
<1>0. TypeOK /\ TypeOK' /\ ClockInv /\ Grows /\ PlaceInv(b) /\ ObsInv(b) /\ FinishedInv(b)
  BY DEF Hypotheses, Typed, ProcessInv
<1>1. CASE RequestRaises(b) \/ Crash(b)
  <2>1. /\ pc'[b] = "failed" /\ obs'[b] = {}
        /\ UNCHANGED <<left, stamp, years>>
    BY <1>0, <1>1 DEF RequestRaises, Crash, Fail, TypeOK
  <2>2. \A s \in Vintaged : Finished(b, s)' => stamp'[b][s] = stamp[b][s] /\ Finished(b, s)
    BY <2>1 DEF Finished, Began
  <2> QED  BY <1>0, <2>1, <2>2, FinishedStep DEF ObsInv, ProgressInv
<1>2. CASE backfill_macro(b) \/ \E t \in Time : ingest_universe(b, t)
  <2>1. /\ pc[b] = "idle" /\ pc'[b] \in {"series", "failed"}
        /\ UNCHANGED <<left, stamp, years, obs>>
    BY <1>0, <1>2 DEF backfill_macro, ingest_universe, TypeOK
  <2>2. \A s \in Vintaged : Finished(b, s)' => stamp'[b][s] = stamp[b][s] /\ Finished(b, s)
    BY <2>1 DEF Finished, Began
  <2> QED  BY <1>0, <2>1, <2>2, FinishedStep, EmptyHands DEF ObsInv, ProgressInv
<1>3. ASSUME NEW t \in Time, BeginSeries(b, t) \/ BeginSymbol(b, t)
      PROVE  ObsInv(b)' /\ ProgressInv(b)' /\ FinishedInv(b)'
  <2>1. /\ pc[b] = "series" /\ pc'[b] \in {"failed", "discover", "current", "download"}
        /\ UNCHANGED <<left, years>> /\ obs'[b] \in {obs[b], {}}
        /\ stamp' = stamp \/ stamp' = [stamp EXCEPT ![b][At(b)] = t]
    BY <1>0, <1>3 DEF BeginSeries, BeginSymbol, Fail, TypeOK, At
  <2>2. \E i \in DOMAIN left[b] : left[b][i] = At(b)
    BY <1>0, <2>1, HeadLemma DEF TypeOK, PlaceInv, Ended, At
  <2>3. ASSUME NEW s \in Vintaged, Finished(b, s)'
        PROVE  stamp'[b][s] = stamp[b][s] /\ Finished(b, s)
    <3>1. s # At(b)
      BY <2>1, <2>2, <2>3 DEF Finished
    <3>2. stamp'[b][s] = stamp[b][s]
      BY <1>0, <2>1, <3>1, Sorts DEF TypeOK
    <3> QED  BY <2>1, <2>3, <3>2 DEF Finished, Began
  <2>4. obs'[b] = {}
    BY <1>0, <2>1, EmptyHands
  <2> QED  BY <1>0, <2>1, <2>3, <2>4, FinishedStep DEF ObsInv, ProgressInv
<1> QED  BY <1>1, <1>2, <1>3 DEF Invoke, Begin

(* The last step on a series, with all that had to be kept of it.          *)
LEMMA FinishProcess ==
  ASSUME NEW b \in Backfills, Hypotheses(b), FinishSeries(b), pc[b] \notin Ended,
         obs'[b] = {}, UNCHANGED <<stamp, years>>,
         \A s \in Vintaged : s = At(b) =>
           \A t \in published[s] : Early(b, s, t) => Kept(s, t)'
  PROVE  ObsInv(b)' /\ ProgressInv(b)' /\ FinishedInv(b)'
<1>0. /\ TypeOK /\ TypeOK' /\ ClockInv /\ Grows /\ FinishedInv(b)
      /\ left[b] \in Seq(Series) /\ left[b] # <<>>
  BY DEF Hypotheses, Typed, ProcessInv, PlaceInv, TypeOK
<1>1. pc'[b] \in {"done", "series"} /\ left'[b] = Tail(left[b])
  BY <1>0 DEF FinishSeries, TypeOK
<1>2. ASSUME NEW s \in Vintaged, Finished(b, s)', s # At(b)
      PROVE  Finished(b, s)
  BY <1>0, <1>1, <1>2, TailLemma DEF Finished, Began, At
<1> QED  BY <1>0, <1>1, <1>2, FinishedStep DEF ObsInv, ProgressInv

(* The dates discovered are those of all early vintages.                   *)
LEMMA DiscoverProcess ==
  ASSUME NEW b \in Backfills, Hypotheses(b), Discover(b)
  PROVE  ObsInv(b)' /\ ProgressInv(b)' /\ FinishedInv(b)'
<1>0. /\ TypeOK /\ TypeOK' /\ ClockInv /\ Grows /\ PlaceInv(b) /\ FinishedInv(b)
      /\ pc[b] = "discover" /\ obs[b] = {}
  BY EmptyHands DEF Hypotheses, Typed, ProcessInv, Discover
<1>1. At(b) \in Vintaged /\ At(b) \in Series /\ Began(b, At(b)) /\ left[b] # <<>>
  BY <1>0, Sorts DEF PlaceInv, Walking, Ended
<1> DEFINE dates == {d \in {DayOf[t] : t \in published[At(b)]} :
                       FirstDay(b, At(b)) <= d /\ d <= DayOf[stamp[b][At(b)]]}
<1>2. /\ UNCHANGED <<published, facts, obs, stamp, years, begun>>
      /\ \/ dates = {} /\ FinishSeries(b)
         \/ /\ todo' = [todo EXCEPT ![b] = dates]
            /\ pc' = [pc EXCEPT ![b] = "resume"] /\ left' = left
  BY DEF Discover, At
<1>3. \A t \in published[At(b)] : Early(b, At(b), t) => DayOf[t] \in dates
  <2>1. \A t \in published[At(b)] : DayOf[t] \in Nat
    BY <1>0, <1>1, Sorts DEF TypeOK
  <2>2. DayOf[stamp[b][At(b)]] \in Nat
    BY <1>0, <1>1, FirstDayLemma, Sorts
  <2> QED  BY <2>1, <2>2 DEF Early
<1>4. \A d \in dates : d <= DayOf[stamp[b][At(b)]]
  OBVIOUS
<1> HIDE DEF dates
<1>5. CASE dates = {} /\ FinishSeries(b)
  BY <1>0, <1>2, <1>3, <1>5, FinishProcess DEF Ended
<1>6. CASE /\ todo' = [todo EXCEPT ![b] = dates]
           /\ pc' = [pc EXCEPT ![b] = "resume"] /\ left' = left
  <2>1. todo'[b] = dates /\ pc'[b] = "resume"
    BY <1>0, <1>6 DEF TypeOK
  <2>2. At(b)' = At(b)
    BY <1>6 DEF At
  <2>3. ProgressInv(b)'
    BY <1>2, <1>3, <1>4, <2>1, <2>2 DEF ProgressInv, Early, FirstDay
  <2>4. \A s \in Vintaged : Finished(b, s)' => stamp'[b][s] = stamp[b][s] /\ Finished(b, s)
    BY <1>2, <1>6 DEF Finished, Began
  <2> QED  BY <1>0, <1>2, <2>3, <2>4, FinishedStep DEF ObsInv
<1> QED  BY <1>2, <1>5, <1>6

(* Where the table has the date of a vintage, the vintage is kept.         *)
LEMMA ExistingIsKept ==
  ASSUME TypeOK, ClockInv, FactsInv, WholeInv, NEW s \in Vintaged,
         NEW t \in published[s], DayOf[t] \in _existing_vintage_dates(s)
  PROVE  Kept(s, t)
<1> PICK f \in facts : f.dim = s /\ DayOf[f.value] = DayOf[t]
  BY DEF _existing_vintage_dates
<1>1. f.value \in published[s]
  BY DEF FactsInv, RowInv
<1>2. f.value = t
  BY <1>1 DEF ClockInv
<1> QED  BY <1>2 DEF WholeInv

(* Of the vintages discovered, those not to be fetched are kept.           *)
LEMMA ResumeProcess ==
  ASSUME NEW b \in Backfills, Hypotheses(b), Resume(b)
  PROVE  ObsInv(b)' /\ ProgressInv(b)' /\ FinishedInv(b)'
<1>0. /\ TypeOK /\ TypeOK' /\ ClockInv /\ Grows /\ PlaceInv(b) /\ FinishedInv(b)
      /\ FactsInv /\ WholeInv
      /\ pc[b] = "resume" /\ obs[b] = {} /\ ProgressInv(b)
  BY EmptyHands DEF Hypotheses, Typed, ProcessInv, Resume
<1>1. At(b) \in Vintaged /\ At(b) \in Series /\ Began(b, At(b)) /\ left[b] # <<>>
  BY <1>0, Sorts DEF PlaceInv, Walking, Ended
<1> DEFINE to_fetch == todo[b] \ _existing_vintage_dates(At(b))
<1>2. /\ UNCHANGED <<published, facts, obs, stamp, years, begun>>
      /\ todo'[b] = to_fetch
      /\ \/ to_fetch = {} /\ FinishSeries(b)
         \/ to_fetch # {} /\ pc' = [pc EXCEPT ![b] = "snapshot"] /\ left' = left
  BY <1>0 DEF Resume, NextVintage, At, TypeOK
<1>3. ASSUME NEW t \in published[At(b)], Early(b, At(b), t)
      PROVE  DayOf[t] \in to_fetch \/ Kept(At(b), t)
  <2>1. DayOf[t] \in todo[b] \/ Kept(At(b), t)
    BY <1>0, <1>3 DEF ProgressInv
  <2>2. DayOf[t] \in _existing_vintage_dates(At(b)) => Kept(At(b), t)
    BY <1>0, <1>1, ExistingIsKept
  <2> QED  BY <2>1, <2>2
<1>4. \A d \in to_fetch : d <= DayOf[stamp[b][At(b)]]
  BY <1>0 DEF ProgressInv
<1> HIDE DEF to_fetch
<1>5. \A t \in published[At(b)] : Kept(At(b), t) => \A s \in Vintaged : s = At(b) => Kept(s, t)'
  BY <1>0, <1>1, KeptStays DEF TypeOK
<1>6. CASE to_fetch = {} /\ FinishSeries(b)
  BY <1>0, <1>2, <1>3, <1>5, <1>6, FinishProcess DEF Ended
<1>7. CASE pc' = [pc EXCEPT ![b] = "snapshot"] /\ left' = left
  <2>1. pc'[b] = "snapshot" /\ At(b)' = At(b)
    BY <1>0, <1>7 DEF TypeOK, At
  <2>2. ProgressInv(b)'
    BY <1>2, <1>3, <1>4, <2>1
    DEF ProgressInv, Early, FirstDay, Kept, Common, Began, VintageRow, Covered
  <2>3. \A s \in Vintaged : Finished(b, s)' => stamp'[b][s] = stamp[b][s] /\ Finished(b, s)
    BY <1>2, <1>7 DEF Finished, Began
  <2> QED  BY <1>0, <1>2, <2>2, <2>3, FinishedStep DEF ObsInv
<1> QED  BY <1>2, <1>6, <1>7

(* A snapshot has a row for every period from the first day on.            *)
LEMMA SnapshotProcess ==
  ASSUME NEW b \in Backfills, Hypotheses(b), Snapshot(b)
  PROVE  ObsInv(b)' /\ ProgressInv(b)' /\ FinishedInv(b)'
<1>0. /\ TypeOK /\ TypeOK' /\ ClockInv /\ Grows /\ PlaceInv(b) /\ FinishedInv(b)
      /\ pc[b] = "snapshot" /\ ProgressInv(b)
  BY DEF Hypotheses, Typed, ProcessInv, Snapshot
<1>1. /\ At(b) \in Vintaged /\ At(b) \in Series /\ Began(b, At(b)) /\ At(b) \notin Symbols
  BY <1>0, Sorts DEF PlaceInv, Walking
<1>2. PICK vd \in todo[b], t \in published[At(b)] :
        /\ DayOf[t] = vd
        /\ todo' = [todo EXCEPT ![b] = @ \ {vd}]
        /\ obs' = [obs EXCEPT ![b] = Rows(b, At(b), t, Noon[vd])]
  BY DEF Snapshot, At
<1>3. /\ UNCHANGED <<published, facts, left, stamp, years, begun>>
      /\ pc'[b] = "store" /\ todo'[b] = todo[b] \ {vd}
      /\ obs'[b] = Rows(b, At(b), t, Noon[vd])
      /\ At(b)' = At(b)
  BY <1>0, <1>2 DEF Snapshot, TypeOK, At
<1>4. /\ t \in Time /\ vd \in Day /\ vd \in Nat /\ Noon[vd] \in Nat
      /\ vd <= DayOf[stamp[b][At(b)]] /\ DayOf[stamp[b][At(b)]] \in Nat
      /\ Lag[At(b)] \in Nat
  BY <1>0, <1>1, FirstDayLemma, Sorts DEF TypeOK, ProgressInv
<1>5. \A p \in Covered(At(b), t) :
        FirstDay(b, At(b)) <= p => VintageRow(At(b), p, t) \in obs'[b]
  <2> SUFFICES ASSUME NEW p \in Covered(At(b), t), FirstDay(b, At(b)) <= p
               PROVE  VintageRow(At(b), p, t) \in Rows(b, At(b), t, Noon[vd])
    BY <1>3
  <2>1. p \in Nat /\ p + Lag[At(b)] <= vd
    BY <1>1, <1>2, Sorts DEF Covered
  <2>2. p <= DayOf[stamp[b][At(b)]]
    BY <1>4, <2>1
  <2> QED  BY <1>2, <2>2 DEF Rows, VintageRow
<1>6. ObsInv(b)'
  <2>1. \A r \in obs'[b] :
          /\ r \in Row /\ r.dim = At(b) /\ r.value = t /\ r.asOf = Noon[vd]
          /\ r.validFrom \in Covered(At(b), t)
    BY <1>1, <1>3, <1>4, RowsLemma
  <2>2. \A r \in obs'[b] : RowInv(r)'
    BY <1>1, <1>2, <1>3, <2>1 DEF RowInv, Covered
  <2>3. FirstDay(b, At(b))' = FirstDay(b, At(b))
    BY <1>3 DEF FirstDay
  <2>4. \A r \in obs'[b] : \A p \in Covered(At(b), r.value) :
          FirstDay(b, At(b)) <= p => VintageRow(At(b), p, r.value) \in obs'[b]
    BY <1>5, <2>1
  <2>5. \A s, u : /\ Covered(s, u)' = Covered(s, u)
                  /\ \A p : VintageRow(s, p, u)' = VintageRow(s, p, u)
    BY DEF Covered, VintageRow
  <2>6. \A r \in obs'[b] : \A q \in obs'[b] : q.value = r.value
    BY <2>1
  <2> QED
    BY <1>3, <2>1, <2>2, <2>3, <2>4, <2>5, <2>6 DEF ObsInv
<1>7. ProgressInv(b)'
  <2>1. ASSUME NEW u \in published[At(b)], Early(b, At(b), u)
        PROVE  \/ DayOf[u] \in todo'[b]
               \/ Kept(At(b), u)
               \/ Held(b, u)'
    <3>1. CASE DayOf[u] = vd
      <4>1. u = t
        BY <1>1, <1>0, <1>2, <3>1 DEF ClockInv
      <4> QED  BY <1>3, <1>5, <4>1 DEF Held, FirstDay, VintageRow, Covered
    <3>2. CASE DayOf[u] # vd
      BY <1>0, <1>3, <2>1, <3>2 DEF ProgressInv
    <3> QED  BY <3>1, <3>2
  <2>2. \A d \in todo'[b] : d <= DayOf[stamp[b][At(b)]]
    BY <1>0, <1>3 DEF ProgressInv
  <2>3. \A u : Kept(At(b), u) => Kept(At(b), u)'
    BY <1>3 DEF Kept, Common, Began, FirstDay, VintageRow, Covered
  <2>4. \A u : Early(b, At(b), u)' => Early(b, At(b), u)
    BY <1>3 DEF Early, FirstDay
  <2> QED  BY <1>3, <2>1, <2>2, <2>3, <2>4 DEF ProgressInv
<1>8. \A s \in Vintaged : Finished(b, s)' => stamp'[b][s] = stamp[b][s] /\ Finished(b, s)
  BY <1>3 DEF Finished, Began
<1> QED  BY <1>0, <1>3, <1>6, <1>7, <1>8, FinishedStep

(* What a process holds of a vintage is kept once it is stored.            *)
LEMMA StoreKeeps ==
  ASSUME NEW b \in Backfills, NEW t, PlaceInv(b), pc[b] = "store", Held(b, t),
         facts' = facts \cup obs[b], UNCHANGED <<stamp, years, begun>>
  PROVE  \A s : s = At(b) => Kept(s, t)'
<1>1. Began(b, At(b))
  BY DEF PlaceInv, Walking
<1>2. ASSUME NEW s, s = At(b), NEW p \in Covered(s, t), Common(s, p)'
      PROVE  VintageRow(s, p, t) \in facts'
  <2>1. FirstDay(b, s) <= p
    BY <1>1, <1>2 DEF Common, Began, FirstDay
  <2> QED  BY <1>2, <2>1 DEF Held
<1> QED  BY <1>2 DEF Kept, Covered, VintageRow

(* A stored vintage is in the table, whole.                                *)
LEMMA StoreProcess ==
  ASSUME NEW b \in Backfills, Hypotheses(b), Store(b)
  PROVE  ObsInv(b)' /\ ProgressInv(b)' /\ FinishedInv(b)'
<1>0. /\ TypeOK /\ TypeOK' /\ ClockInv /\ Grows /\ PlaceInv(b) /\ FinishedInv(b)
      /\ pc[b] = "store" /\ ProgressInv(b)
  BY DEF Hypotheses, Typed, ProcessInv, Store
<1>1. /\ At(b) \in Vintaged /\ At(b) \in Series /\ left[b] # <<>>
  BY <1>0, Sorts DEF PlaceInv, Walking, Ended
<1>2. /\ UNCHANGED <<published, todo, stamp, years, begun>>
      /\ facts' = facts \cup obs[b] /\ obs'[b] = {}
      /\ \/ todo[b] = {} /\ FinishSeries(b)
         \/ pc' = [pc EXCEPT ![b] = "snapshot"] /\ left' = left
  BY <1>0 DEF Store, NextVintage, TypeOK, bulk_insert_facts
<1>3. ASSUME NEW t \in published[At(b)], Early(b, At(b), t)
      PROVE  DayOf[t] \in todo[b] \/ \A s \in Vintaged : s = At(b) => Kept(s, t)'
  <2>1. Kept(At(b), t) => \A s \in Vintaged : s = At(b) => Kept(s, t)'
    BY <1>0, <1>1, KeptStays DEF TypeOK
  <2>2. Held(b, t) => \A s \in Vintaged : s = At(b) => Kept(s, t)'
    BY <1>0, <1>2, StoreKeeps
  <2> QED  BY <1>0, <1>3, <2>1, <2>2 DEF ProgressInv
<1>4. CASE todo[b] = {} /\ FinishSeries(b)
  BY <1>0, <1>2, <1>3, <1>4, FinishProcess DEF Ended
<1>5. CASE pc' = [pc EXCEPT ![b] = "snapshot"] /\ left' = left
  <2>1. pc'[b] = "snapshot" /\ At(b)' = At(b)
    BY <1>0, <1>5 DEF TypeOK, At
  <2>2. \A d \in todo[b] : d <= DayOf[stamp[b][At(b)]]
    BY <1>0 DEF ProgressInv
  <2>3. \A t : (\A s \in Vintaged : s = At(b) => Kept(s, t)') => Kept(At(b), t)'
    BY <1>1, <2>1 DEF Kept, Common, Began, FirstDay, VintageRow, Covered
  <2>4. ProgressInv(b)'
    BY <1>2, <1>3, <2>1, <2>2, <2>3 DEF ProgressInv, Early, FirstDay
  <2>5. \A s \in Vintaged : Finished(b, s)' => stamp'[b][s] = stamp[b][s] /\ Finished(b, s)
    BY <1>2, <1>5 DEF Finished, Began
  <2> QED  BY <1>0, <1>2, <2>4, <2>5, FinishedStep DEF ObsInv
<1> QED  BY <1>2, <1>4, <1>5

(* Today's view is not older than the stamp.                               *)
LEMMA TodaysViewLemma ==
  ASSUME TypeOK, ClockInv, NEW b \in Backfills, PlaceInv(b), pc[b] \in Pending,
         NEW r \in TodaysView(b)
  PROVE  /\ RowInv(r) /\ r.dim = At(b) /\ r.asOf = stamp[b][At(b)]
         /\ \A q \in TodaysView(b) : q.value = r.value
<1>1. /\ At(b) \in Series /\ At(b) \notin Vintaged
      /\ stamp[b][At(b)] \in Time /\ stamp[b][At(b)] \in Nat
      /\ stamp[b][At(b)] <= now
  <2>1. left[b] # <<>> /\ left[b] \in Seq(Series) /\ Began(b, At(b)) /\ At(b) \notin Vintaged
    BY DEF PlaceInv, Pending, Ended, TypeOK
  <2>2. At(b) \in Series
    BY <2>1, TailLemma DEF At
  <2> QED  BY <2>1, <2>2, Sorts DEF Began, TypeOK, ClockInv
<1>2. PICK t \in LastRelease(published[At(b)]) : r \in Rows(b, At(b), t, stamp[b][At(b)])
  BY DEF TodaysView, At
<1>3. t \in published[At(b)] /\ t \in Time /\ \A u \in published[At(b)] : u <= t
  BY <1>1, <1>2 DEF LastRelease, TypeOK
<1>4. /\ r \in Row /\ r.dim = At(b) /\ r.value = t /\ r.asOf = stamp[b][At(b)]
      /\ r.validFrom \in Covered(At(b), t)
  BY <1>1, <1>2, <1>3, RowsLemma
<1>5. RowInv(r)
  BY <1>1, <1>3, <1>4 DEF RowInv
<1>6. ASSUME NEW q \in TodaysView(b) PROVE q.value = t
  <2> PICK u \in LastRelease(published[At(b)]) : q \in Rows(b, At(b), u, stamp[b][At(b)])
    BY <1>6 DEF TodaysView, At
  <2>1. u \in published[At(b)] /\ u \in Time /\ t <= u
    BY <1>1, <1>3 DEF LastRelease, TypeOK
  <2>2. u = t
    BY <2>1, <1>3, Sorts
  <2> QED  BY <1>1, <2>1, <2>2, RowsLemma
<1> QED  BY <1>4, <1>5, <1>6

(* Today's view, on its way to the table.                                  *)
LEMMA LatestProcess ==
  ASSUME NEW b \in Backfills, Hypotheses(b),
         FetchLatest(b) \/ Download(b) \/ StoreLatest(b)
  PROVE  ObsInv(b)' /\ ProgressInv(b)' /\ FinishedInv(b)'
<1>0. /\ TypeOK /\ TypeOK' /\ ClockInv /\ Grows /\ PlaceInv(b) /\ ObsInv(b) /\ FinishedInv(b)
  BY DEF Hypotheses, Typed, ProcessInv
<1>1. /\ pc[b] \in Pending /\ pc[b] \notin Ended /\ At(b) \notin Vintaged
      /\ UNCHANGED <<stamp, years, begun, published>>
  BY <1>0 DEF FetchLatest, Download, StoreLatest, Pending, Ended, PlaceInv
<1>2. CASE FinishSeries(b) /\ obs'[b] = {}
  BY <1>1, <1>2, FinishProcess
<1>3. CASE obs' = [obs EXCEPT ![b] = TodaysView(b)] /\ pc' = [pc EXCEPT ![b] = "keep"]
           /\ left' = left
  <2>1. /\ obs'[b] = TodaysView(b) /\ pc'[b] = "keep" /\ At(b)' = At(b)
        /\ stamp'[b] = stamp[b]
    BY <1>0, <1>1, <1>3 DEF TypeOK, At
  <2>2. \A r \in TodaysView(b) :
          /\ RowInv(r) /\ r.dim = At(b) /\ r.asOf = stamp[b][At(b)]
          /\ \A q \in TodaysView(b) : q.value = r.value
    BY <1>0, <1>1, TodaysViewLemma
  <2>3. \A r \in TodaysView(b) : RowInv(r)'
    BY <1>0, <2>2, RowStays
  <2>4. ObsInv(b)'
    BY <2>1, <2>2, <2>3 DEF ObsInv
  <2>5. \A s \in Vintaged : Finished(b, s)' => stamp'[b][s] = stamp[b][s] /\ Finished(b, s)
    BY <1>1, <1>3 DEF Finished, Began
  <2> QED  BY <1>0, <1>1, <2>1, <2>4, <2>5, FinishedStep DEF ProgressInv
<1>4. CASE Download(b) /\ FinishSeries(b) /\ obs' = obs
  <2>1. obs'[b] = {}
    BY <1>0, <1>4, EmptyHands DEF Download
  <2> QED  BY <1>2, <1>4, <2>1
<1>5. CASE StoreLatest(b)
  BY <1>0, <1>2, <1>5 DEF StoreLatest, TypeOK
<1> QED  BY <1>3, <1>4, <1>5 DEF FetchLatest, Download

(* Every step of a process keeps its part of the invariant.                *)
LEMMA StepProcess ==
  ASSUME NEW b \in Backfills, Hypotheses(b)
  PROVE  ProcessInv(b)'
<1>1. CASE RequestRetries(b)
  <2>1. Steady(b)
    BY <1>1 DEF RequestRetries, Steady
  <2> QED  BY <2>1, SteadyProcess DEF Hypotheses, Typed
<1>2. CASE ~ RequestRetries(b)
  <2>1. ObsInv(b)' /\ ProgressInv(b)' /\ FinishedInv(b)'
    BY <1>2, ElsewhereProcess, DiscoverProcess, ResumeProcess, SnapshotProcess, StoreProcess,
       LatestProcess DEF Hypotheses, StepOf, ProgramStep
  <2>2. PlaceInv(b)'
    BY StepTyped DEF Hypotheses
  <2> QED  BY <2>1, <2>2 DEF ProcessInv
<1> QED  BY <1>1, <1>2

----------------------------------------------------------------------------
(* The parts of the invariant that are about all processes.                *)
LEMMA StepFacts ==
  ASSUME TypeOK, NEW b \in Backfills, StepOf(b), ProcessInv(b)
  PROVE  \/ facts' = facts
         \/ /\ facts' = facts \cup obs[b] /\ UNCHANGED <<published, stamp, years, begun>>
            /\ \/ pc[b] = "store" /\ At(b) \in Vintaged
               \/ pc[b] = "keep" /\ At(b) \notin Vintaged
<1>1. CASE Store(b) \/ StoreLatest(b)
  BY <1>1 DEF Store, StoreLatest, bulk_insert_facts, ProcessInv, PlaceInv, Walking, Pending
<1>2. CASE ~ (Store(b) \/ StoreLatest(b))
  BY <1>2 DEF StepOf, Invoke, ProgramStep, Begin, backfill_macro, ingest_universe,
     BeginSeries, BeginSymbol, RequestRetries, RequestRaises, Crash, Discover, Resume,
     Snapshot, FetchLatest, Download
<1> QED  BY <1>1, <1>2

(* Every row in the table is true.                                         *)
LEMMA FactsStep ==
  ASSUME NEW b \in Backfills, Hypotheses(b)
  PROVE  FactsInv' /\ WholeInv'
<1>0. TypeOK /\ TypeOK' /\ Grows /\ FactsInv /\ WholeInv /\ ProcessInv(b) /\ StepOf(b)
  BY DEF Hypotheses, Typed
<1>1. \A f \in facts' : RowInv(f)
  BY <1>0, StepFacts DEF FactsInv, ProcessInv, ObsInv
<1>2. FactsInv'
  BY <1>0, <1>1, RowStays DEF FactsInv
<1>3. ASSUME NEW f \in facts', f.dim \in Vintaged PROVE Kept(f.dim, f.value)'
  <2>1. f.value \in Time
    BY <1>0, <1>1 DEF RowInv, Row
  <2>2. CASE f \in facts
    BY <1>0, <1>3, <2>1, <2>2, KeptStays DEF WholeInv
  <2>3. CASE f \notin facts
    <3>1. /\ facts' = facts \cup obs[b] /\ UNCHANGED <<published, stamp, years, begun>>
          /\ f \in obs[b] /\ f.dim = At(b)
      BY <1>0, <2>3, StepFacts DEF ProcessInv, ObsInv
    <3>2. pc[b] = "store"
      BY <1>0, <1>3, <2>3, <3>1, StepFacts
    <3>3. Held(b, f.value)
      BY <1>0, <3>1, <3>2 DEF ProcessInv, ObsInv, Held
    <3>4. \A s : s = At(b) => Kept(s, f.value)'
      BY <1>0, <3>1, <3>2, <3>3, StoreKeeps DEF ProcessInv
    <3> QED  BY <3>1, <3>4
  <2> QED  BY <2>2, <2>3
<1> QED  BY <1>2, <1>3 DEF WholeInv

(* A stamp of a series without vintages is taken later than all others.    *)
LEMMA PendingStep ==
  ASSUME NEW b \in Backfills, TypeOK, PlaceInv(b), StepOf(b), pc'[b] \in Pending
  PROVE  /\ facts' = facts /\ Head(left'[b]) = At(b)
         /\ \/ pc[b] \in Pending /\ stamp'[b] = stamp[b]
            \/ stamp'[b][At(b)] \in Time /\ now < stamp'[b][At(b)] /\ At(b) \notin Vintaged
<1>1. ASSUME NEW t \in Time, BeginSeries(b, t) \/ BeginSymbol(b, t)
      PROVE  /\ facts' = facts /\ Head(left'[b]) = At(b)
             /\ stamp'[b][At(b)] \in Time /\ now < stamp'[b][At(b)] /\ At(b) \notin Vintaged
  <2>1. At(b) \in Series
    BY <1>1, TailLemma DEF BeginSeries, BeginSymbol, TypeOK, PlaceInv, Ended, At
  <2>2. pc'[b] # "failed"
    BY DEF Pending
  <2>3. CASE BeginSymbol(b, t)
    BY <2>1, <2>3, Sorts DEF BeginSymbol, TypeOK, At
  <2>4. CASE BeginSeries(b, t)
    <3>1. /\ stamp' = [stamp EXCEPT ![b][At(b)] = t]
          /\ pc' = [pc EXCEPT ![b] = IF At(b) \in Vintaged THEN "discover" ELSE "current"]
          /\ facts' = facts /\ left' = left
          /\ At(b) \in Current => now < t
          /\ At(b) \notin Symbols
      BY <2>2, <2>4 DEF BeginSeries, Fail, TypeOK, At
    <3>2. pc'[b] = IF At(b) \in Vintaged THEN "discover" ELSE "current"
      BY <3>1 DEF TypeOK
    <3>3. At(b) \notin Vintaged
      BY <3>2 DEF Pending
    <3>4. At(b) \in Current
      BY <2>1, <3>1, <3>3 DEF Series
    <3> QED  BY <2>1, <3>1, <3>3, <3>4 DEF TypeOK, At
  <2> QED  BY <1>1, <2>3, <2>4
<1>2. CASE RequestRetries(b) \/ FetchLatest(b) \/ Download(b)
  BY <1>2 DEF RequestRetries, FetchLatest, Download, FinishSeries, TypeOK, Pending, At
<1>3. CASE \/ Invoke(b) \/ RequestRaises(b) \/ Crash(b) \/ Discover(b) \/ Resume(b)
           \/ Snapshot(b) \/ Store(b) \/ StoreLatest(b)
  <2>1. pc'[b] \in {"series", "failed", "resume", "done", "snapshot", "store"}
    BY <1>3 DEF Invoke, backfill_macro, ingest_universe, RequestRaises, Crash, Fail, Discover,
       Resume, Snapshot, Store, StoreLatest, NextVintage, FinishSeries, TypeOK
  <2> QED  BY <2>1 DEF Pending
<1> QED  BY <1>1, <1>2, <1>3 DEF StepOf, ProgramStep, Begin

(* Stamps of views that are not stored yet stay unused.                    *)
LEMMA StampStep ==
  ASSUME NEW b \in Backfills, Hypotheses(b), StampInv
  PROVE  StampInv'
<1>0. /\ TypeOK /\ TypeOK' /\ ClockInv /\ FactsInv /\ StepOf(b) /\ now \in Nat
      /\ \A c \in Backfills : ProcessInv(c) /\ PlaceInv(c)
      /\ \A c \in Backfills \ {b} : Steady(c)
  <2>1. TypeOK /\ TypeOK' /\ ClockInv /\ FactsInv /\ StepOf(b)
    BY DEF Hypotheses, Typed
  <2>2. \A c \in Backfills : ProcessInv(c) /\ PlaceInv(c)
    BY DEF Hypotheses, ProcessInv
  <2>3. now \in Nat
    BY <2>1, Sorts DEF TypeOK
  <2>4. \A c \in Backfills \ {b} : Steady(c)
    BY <2>1, OthersSteady
  <2> QED  BY <2>1, <2>2, <2>3, <2>4
<1> DEFINE series(c) == Head(left'[c])
<1>1. \A c \in Backfills \ {b} : /\ series(c) = At(c) /\ pc'[c] = pc[c] /\ stamp'[c] = stamp[c]
  BY <1>0 DEF Steady, At
<1>2. ASSUME NEW c \in Backfills, pc[c] \in Pending
      PROVE  stamp[c][At(c)] \in Time /\ stamp[c][At(c)] <= now
             /\ At(c) \in Series /\ At(c) \notin Vintaged
  <2>1. left[c] \in Seq(Series) /\ left[c] # <<>> /\ Began(c, At(c)) /\ At(c) \notin Vintaged
    BY <1>0, <1>2 DEF PlaceInv, Pending, Ended, TypeOK
  <2>2. At(c) \in Series
    BY <2>1, TailLemma DEF At
  <2> QED  BY <1>0, <2>1, <2>2 DEF Began, TypeOK, ClockInv
<1>3. pc'[b] \in Pending =>
        /\ facts' = facts /\ series(b) = At(b)
        /\ \/ pc[b] \in Pending /\ stamp'[b] = stamp[b]
           \/ stamp'[b][At(b)] \in Time /\ now < stamp'[b][At(b)] /\ At(b) \notin Vintaged
  BY <1>0, PendingStep
<1> HIDE DEF series
<1>4. ASSUME NEW c \in Backfills, pc'[c] \in Pending, NEW f \in facts', f.dim = series(c)
      PROVE  f.asOf # stamp'[c][series(c)]
  <2>1. CASE c = b
    <3>1. f \in facts /\ f.dim = At(b)
      BY <1>3, <1>4, <2>1
    <3>2. RowInv(f) /\ f.asOf \in Nat
      BY <1>0, <3>1 DEF FactsInv, RowInv, Row
    <3>3. At(b) \notin Vintaged => f.asOf <= now
      BY <3>1, <3>2 DEF RowInv
    <3>4. CASE pc[b] \in Pending /\ stamp'[b] = stamp[b]
      BY <1>3, <1>4, <2>1, <3>1, <3>4 DEF StampInv
    <3>5. CASE stamp'[b][At(b)] \in Time /\ now < stamp'[b][At(b)] /\ At(b) \notin Vintaged
      BY <1>0, <1>3, <1>4, <2>1, <3>2, <3>3, <3>5, Sorts
    <3> QED  BY <1>3, <1>4, <2>1, <3>4, <3>5
  <2>2. CASE c # b
    <3>1. /\ pc[c] \in Pending /\ f.dim = At(c) /\ stamp'[c] = stamp[c] /\ series(c) = At(c)
      BY <1>1, <1>4, <2>2
    <3>2. CASE f \in facts
      BY <3>1, <3>2 DEF StampInv
    <3>3. CASE f \notin facts
      <4>1. f \in obs[b] /\ pc[b] \in {"store", "keep"} /\ (pc[b] = "store" => At(b) \in Vintaged)
        BY <1>0, <3>3, <1>4, StepFacts
      <4>2. /\ f.dim = At(b) /\ (pc[b] = "keep" => f.asOf = stamp[b][At(b)])
        BY <1>0, <4>1 DEF ProcessInv, ObsInv
      <4>3. pc[b] = "keep" /\ pc[b] \in Pending
        BY <1>2, <3>1, <4>1, <4>2 DEF Pending
      <4> QED  BY <2>2, <3>1, <4>2, <4>3 DEF StampInv
    <3> QED  BY <3>2, <3>3
  <2> QED  BY <2>1, <2>2
<1>5. ASSUME NEW c \in Backfills \ {b}, pc'[c] \in Pending, pc'[b] \in Pending,
             series(c) = series(b)
      PROVE  stamp'[c][series(b)] # stamp'[b][series(b)]
  <2>1. /\ pc[c] \in Pending /\ stamp'[c] = stamp[c] /\ At(c) = At(b) /\ series(b) = At(b)
    BY <1>1, <1>3, <1>5
  <2>2. CASE pc[b] \in Pending /\ stamp'[b] = stamp[b]
    BY <2>1, <2>2 DEF StampInv
  <2>3. CASE stamp'[b][At(b)] \in Time /\ now < stamp'[b][At(b)]
    BY <1>0, <1>2, <2>1, <2>3, Sorts
  <2> QED  BY <1>3, <1>5, <2>2, <2>3
<1>6. ASSUME NEW c \in Backfills, NEW d \in Backfills \ {c},
             pc'[c] \in Pending, pc'[d] \in Pending, series(c) = series(d)
      PROVE  stamp'[d][series(c)] # stamp'[c][series(c)]
  <2>1. CASE c = b
    BY <1>5, <1>6, <2>1
  <2>2. CASE d = b
    BY <1>5, <1>6, <2>2
  <2>3. CASE c # b /\ d # b
    BY <1>1, <1>6, <2>3 DEF StampInv
  <2> QED  BY <2>1, <2>2, <2>3
<1> QED  BY <1>4, <1>6 DEF StampInv, series, At

(* Two rows that tie are of one release, or were stamped by one process.   *)
LEMMA TieStep ==
  ASSUME NEW b \in Backfills, Hypotheses(b), StampInv, TieInv
  PROVE  TieInv'
<1>0. /\ TypeOK /\ ClockInv /\ FactsInv /\ StepOf(b) /\ ProcessInv(b)
  BY DEF Hypotheses, Typed
<1>1. \A f \in facts' : RowInv(f)
  BY <1>0, StepFacts DEF FactsInv, ProcessInv, ObsInv
<1>2. ASSUME NEW f \in facts', NEW g \in facts', f.dim \in Vintaged, f.dim = g.dim,
             f.asOf = g.asOf
      PROVE  f.value = g.value
  <2>1. /\ f.value \in published[f.dim] /\ g.value \in published[f.dim]
        /\ f.value \in Time /\ g.value \in Time
        /\ Noon[DayOf[f.value]] = Noon[DayOf[g.value]]
    BY <1>1, <1>2 DEF RowInv, Row
  <2>2. /\ DayOf[f.value] \in Day /\ DayOf[g.value] \in Day
        /\ DayOf[f.value] \in Nat /\ DayOf[g.value] \in Nat
        /\ Noon[DayOf[f.value]] \in Nat /\ Noon[DayOf[g.value]] \in Nat
    BY <2>1, Sorts
  <2>3. \A d, e \in Day : d < e => Noon[d] < Noon[e]
    BY TimeAssumption
  <2>4. DayOf[f.value] = DayOf[g.value]
    BY <2>1, <2>2, <2>3
  <2> QED  BY <1>0, <1>2, <2>1, <2>4 DEF ClockInv
<1>3. ASSUME NEW f \in facts', NEW g \in facts', f \notin facts, f.dim \notin Vintaged,
             f.dim = g.dim, f.asOf = g.asOf
      PROVE  f.value = g.value
  <2>1. f \in obs[b] /\ pc[b] = "keep" /\ facts' = facts \cup obs[b]
    BY <1>0, <1>3, StepFacts DEF ProcessInv, ObsInv
  <2>2. f.dim = At(b) /\ f.asOf = stamp[b][At(b)] /\ \A q \in obs[b] : q.value = f.value
    BY <1>0, <2>1 DEF ProcessInv, ObsInv
  <2>3. g \notin facts
    BY <1>3, <2>1, <2>2 DEF StampInv, Pending
  <2> QED  BY <2>1, <2>2, <2>3
<1>4. ASSUME NEW f \in facts', NEW g \in facts',
             f.dim = g.dim, f.validFrom = g.validFrom, f.asOf = g.asOf
      PROVE  f.value = g.value
  <2>1. CASE f.dim \in Vintaged
    BY <1>2, <1>4, <2>1
  <2>2. CASE f.dim \notin Vintaged /\ f \notin facts
    BY <1>3, <1>4, <2>2
  <2>3. CASE f.dim \notin Vintaged /\ g \notin facts
    BY <1>3, <1>4, <2>3
  <2>4. CASE f \in facts /\ g \in facts
    BY <1>4, <2>4 DEF TieInv
  <2> QED  BY <2>1, <2>2, <2>3, <2>4
<1> QED  BY <1>4 DEF TieInv

----------------------------------------------------------------------------
(* The invariant at the start ...                                          *)
LEMMA InitInv ==
  ASSUME Init
  PROVE  Inv
<1>1. Typed
  BY InitTyped
<1>2. ClockInv /\ FactsInv /\ WholeInv /\ TieInv
  BY Sorts DEF Init, ClockInv, FactsInv, WholeInv, TieInv, Began
<1>3. ASSUME NEW b \in Backfills
      PROVE  pc[b] = "idle" /\ obs[b] = {} /\ \A s \in Series : stamp[b][s] = None
  BY DEF Init
<1>4. ASSUME NEW b \in Backfills PROVE ProcessInv(b)
  <2>1. FinishedInv(b)
    BY <1>3, Sorts DEF FinishedInv, Finished, Began
  <2> QED
    BY <1>1, <1>3, <2>1 DEF Typed, ProcessInv, ObsInv, ProgressInv
<1>5. StampInv
  BY <1>3 DEF StampInv, Pending
<1> QED  BY <1>1, <1>2, <1>4, <1>5 DEF Typed, Inv

(* ... and at every step.                                                  *)
LEMMA NextInv ==
  ASSUME Inv, [Next]_vars
  PROVE  Inv'
<1>0. Typed /\ \A b \in Backfills : ProcessInv(b)
  BY DEF Inv, Typed, ProcessInv
<1>1. Typed'
  BY <1>0, NextTyped
<1>2. CASE UNCHANGED vars
  <2> USE DEF vars, process
  <2>1. ClockInv' /\ FactsInv' /\ WholeInv' /\ TieInv'
    BY <1>2 DEF Inv, ClockInv, FactsInv, RowInv, Covered, WholeInv, Kept, Common, Began,
       FirstDay, VintageRow, TieInv
  <2>2. StampInv'
    BY <1>2 DEF Inv, StampInv, At
  <2>3. ASSUME NEW b \in Backfills PROVE ProcessInv(b)'
    <3>1. PlaceInv(b)' /\ ObsInv(b)'
      BY <1>0, <1>2 DEF ProcessInv, PlaceInv, ObsInv, RowInv, Covered, Began, FirstDay,
         VintageRow, At
    <3>2. ProgressInv(b)'
      BY <1>0, <1>2 DEF ProcessInv, ProgressInv, Covered, Kept, Common, Began, FirstDay,
         VintageRow, Held, Early, At
    <3>3. FinishedInv(b)'
      BY <1>0, <1>2 DEF ProcessInv, FinishedInv, Finished, Covered, Kept, Common, Began,
         FirstDay, VintageRow, Early
    <3> QED  BY <3>1, <3>2, <3>3 DEF ProcessInv
  <2> QED  BY <1>1, <2>1, <2>2, <2>3 DEF Inv, Typed
<1>3. CASE Next
  <2>1. Grows /\ ClockInv'
    BY <1>0, <1>3, NextGrows DEF Inv
  <2>2. TypeOK /\ TypeOK'
    BY <1>0, <1>1 DEF Typed
  <2>3. ASSUME NEW s \in Series, NEW t \in Time, Release(s, t) PROVE Inv'
    <3>1. facts' = facts /\ UNCHANGED process
      BY <2>3 DEF Release
    <3>2. \A b \in Backfills : ProcessInv(b)'
      BY <1>0, <2>1, <2>2, <2>3, ReleaseTyped, SteadyProcess DEF Inv
    <3>3. FactsInv'
      BY <2>1, <2>2, <3>1, RowStays DEF Inv, FactsInv
    <3>4. WholeInv'
      <4>1. ASSUME NEW f \in facts, f.dim \in Vintaged PROVE Kept(f.dim, f.value)'
        <5>1. f.value \in Time /\ Kept(f.dim, f.value)
          BY <2>2, <4>1 DEF Inv, WholeInv, TypeOK, Row
        <5> QED  BY <2>1, <2>2, <4>1, <5>1, KeptStays
      <4> QED  BY <3>1, <4>1 DEF WholeInv
    <3>5. StampInv' /\ TieInv'
      BY <3>1 DEF Inv, StampInv, TieInv, At, process
    <3> QED  BY <2>1, <2>2, <3>2, <3>3, <3>4, <3>5 DEF Inv
  <2>4. ASSUME NEW b \in Backfills, StepOf(b) PROVE Inv'
    <3>1. Hypotheses(b)
      BY <1>0, <2>1, <2>2, <2>4 DEF Inv, Hypotheses
    <3>2. FactsInv' /\ WholeInv' /\ StampInv' /\ TieInv'
      BY <3>1, FactsStep, StampStep, TieStep DEF Inv
    <3>3. ASSUME NEW c \in Backfills PROVE ProcessInv(c)'
      BY <1>0, <2>1, <2>2, <2>4, <3>1, StepProcess, OthersSteady, SteadyProcess DEF Inv
    <3> QED  BY <2>1, <2>2, <3>2, <3>3 DEF Inv
  <2> QED  BY <1>3, <2>3, <2>4 DEF Next, StepOf
<1> QED  BY <1>2, <1>3

(* Whatever the services publish and however backfills overlap and crash,  *)
(* the invariant holds.                                                    *)
THEOREM InductiveInvariant == Spec => []Inv
<1>1. Init => Inv
  BY InitInv
<1>2. Inv /\ [Next]_vars => Inv'
  BY NextInv
<1> QED  BY <1>1, <1>2, PTL DEF Spec

(* Every variable of the two scripts has its type.                         *)
THEOREM TypeCorrect == Spec => []TypeOK
<1>1. Inv => TypeOK
  BY DEF Inv
<1> QED  BY <1>1, InductiveInvariant, PTL

----------------------------------------------------------------------------
(* What the query serves for a period: the rows that have the latest as_of.*)
LEMMA KnownRows ==
  ASSUME FactsInv, NEW s, NEW p \in Day, NEW k
  PROVE  \A f : f \in Known(facts, s, p, p, k) <=>
           /\ f \in facts /\ f.dim = s /\ f.validFrom = p /\ f.asOf <= k
           /\ \A g \in facts : g.dim = s /\ g.validFrom = p /\ g.asOf <= k => g.asOf <= f.asOf
<1>1. \A f \in facts : f.validFrom \in Nat
  BY Sorts DEF FactsInv, RowInv, Row
<1>2. p \in Nat
  BY Sorts
<1>3. \A f \in facts : p <= f.validFrom /\ f.validFrom <= p <=> f.validFrom = p
  BY <1>1, <1>2
<1>4. \A f : f \in Eligible(facts, s, p, p, k) <=>
        f \in facts /\ f.dim = s /\ f.validFrom = p /\ f.asOf <= k
  BY <1>3 DEF Eligible
<1> QED  BY <1>4 DEF Known, FirstRanked

(* What the invariant says of a series that is finished.                   *)
LEMMA HistoryLemma ==
  ASSUME Inv
  PROVE  HistoryIsAsPublished
<1> SUFFICES ASSUME NEW b \in Backfills, NEW s \in Vintaged, Finished(b, s),
                    NEW k \in Time, NEW p \in Day,
                    DayOf[k] < DayOf[stamp[b][s]], Common(s, p)
             PROVE  Served(s, p, k) =
                      LastRelease({t \in published[s] : Noon[DayOf[t]] <= k /\ p \in Covered(s, t)})
  BY DEF HistoryIsAsPublished, Common
<1> DEFINE public == {t \in published[s] : Noon[DayOf[t]] <= k /\ p \in Covered(s, t)}
<1>0. /\ TypeOK /\ ClockInv /\ FactsInv /\ FinishedInv(b) /\ s \in Series
      /\ k \in Nat /\ p \in Nat /\ DayOf[k] \in Nat
  BY Sorts DEF Inv, ProcessInv
<1>1. \A t \in published[s] : /\ t \in Time /\ t \in Nat
                              /\ DayOf[t] \in Day /\ DayOf[t] \in Nat /\ Noon[DayOf[t]] \in Nat
  BY <1>0, Sorts DEF TypeOK
<1>2. \A t, u \in published[s] : /\ DayOf[t] = DayOf[u] => t = u
                                 /\ DayOf[t] < DayOf[u] => Noon[DayOf[t]] < Noon[DayOf[u]]
                                 /\ t <= u => DayOf[t] <= DayOf[u]
  BY <1>0, <1>1, TimeAssumption DEF ClockInv
<1>3. \A t, u \in published[s] : Noon[DayOf[t]] <= Noon[DayOf[u]] <=> t <= u
  BY <1>1, <1>2
<1>4. ASSUME NEW t \in public
      PROVE  VintageRow(s, p, t) \in facts
  <2>1. DayOf[t] <= DayOf[k]
    BY <1>0, <1>1, TimeAssumption
  <2>2. stamp[b][s] \in Time /\ FirstDay(b, s) <= p /\ FirstDay(b, s) \in Int
    BY <1>0, FirstDayLemma DEF Finished, Common
  <2>3. DayOf[t] < DayOf[stamp[b][s]]
    <3>1. DayOf[stamp[b][s]] \in Nat /\ DayOf[t] \in Nat
      BY <1>1, <2>2, Sorts
    <3> QED  BY <1>0, <2>1, <3>1
  <2>4. p <= DayOf[t]
    BY <1>0, <1>1, Sorts DEF Covered
  <2>5. Early(b, s, t)
    BY <1>0, <1>1, <2>2, <2>3, <2>4 DEF Early
  <2>6. Kept(s, t)
    BY <1>0, <2>5 DEF FinishedInv
  <2> QED  BY <2>6 DEF Kept
<1>5. \A f \in facts : f.dim = s /\ f.validFrom = p /\ f.asOf <= k =>
        f.value \in public /\ f.asOf = Noon[DayOf[f.value]]
  BY <1>0 DEF FactsInv, RowInv
<1>6. \A t \in public : /\ VintageRow(s, p, t).dim = s /\ VintageRow(s, p, t).validFrom = p
                        /\ VintageRow(s, p, t).asOf = Noon[DayOf[t]]
                        /\ VintageRow(s, p, t).value = t
                        /\ Noon[DayOf[t]] <= k /\ t \in published[s]
  BY DEF VintageRow
<1>7. public \subseteq published[s]
  OBVIOUS
<1> HIDE DEF public
<1>8. ASSUME NEW v \in Served(s, p, k)
      PROVE  v \in LastRelease(public)
  <2> PICK f \in Known(facts, s, p, p, k) : f.value = v
    BY DEF Served
  <2>1. /\ f \in facts /\ v \in public /\ f.asOf = Noon[DayOf[v]]
        /\ \A g \in facts : g.dim = s /\ g.validFrom = p /\ g.asOf <= k => g.asOf <= f.asOf
    BY <1>0, <1>5, KnownRows
  <2>2. ASSUME NEW u \in public PROVE u <= v
    <3>1. Noon[DayOf[u]] <= Noon[DayOf[v]]
      BY <1>4, <1>6, <2>1
    <3> QED  BY <1>3, <1>7, <2>1, <3>1
  <2> QED  BY <2>1, <2>2 DEF LastRelease
<1>9. ASSUME NEW t \in LastRelease(public)
      PROVE  t \in Served(s, p, k)
  <2>1. t \in public /\ \A u \in public : u <= t
    BY DEF LastRelease
  <2>2. ASSUME NEW g \in facts, g.dim = s, g.validFrom = p, g.asOf <= k
        PROVE  g.asOf <= VintageRow(s, p, t).asOf
    BY <1>3, <1>5, <1>6, <1>7, <2>1, <2>2
  <2>3. VintageRow(s, p, t) \in Known(facts, s, p, p, k)
    BY <1>0, <1>4, <1>6, <2>1, <2>2, KnownRows
  <2> QED  BY <1>6, <2>1, <2>3 DEF Served
<1> QED  BY <1>8, <1>9 DEF public

(* After a backfill has got through a vintage-tracked series the query     *)
(* answers for earlier days with what was public then, for any number of   *)
(* backfills that crash, resume and overlap.                               *)
THEOREM HistoryTheorem == Spec => []HistoryIsAsPublished
<1>1. Inv => HistoryIsAsPublished
  BY HistoryLemma
<1> QED  BY <1>1, InductiveInvariant, PTL

(* The latest row known is not staler than another.                        *)
LEMMA StaleLemma ==
  ASSUME Inv
  PROVE  NoStaleWinner
<1> SUFFICES ASSUME NEW s \in Current \cup Symbols, NEW k \in Time, NEW p \in Day,
                    NEW v \in Served(s, p, k), NEW f \in facts,
                    f.dim = s, f.validFrom = p, f.asOf <= k,
                    NEW t \in published[s], v < t, t <= f.asOf
             PROVE  FALSE
  BY DEF NoStaleWinner
<1> PICK w \in Known(facts, s, p, p, k) : w.value = v
  BY DEF Served
<1>0. TypeOK /\ FactsInv /\ s \in Series /\ s \notin Vintaged
  BY SeriesAssumption DEF Inv, Series
<1>1. w \in facts /\ w.dim = s /\ f.asOf <= w.asOf
  BY <1>0, KnownRows
<1>2. RowInv(w) /\ w.asOf \in Nat /\ f.asOf \in Nat /\ w.value \in Time
  BY <1>0, <1>1 DEF FactsInv, RowInv, Row
<1>3. t \in Time
  BY <1>0 DEF TypeOK
<1>4. t <= w.asOf
  BY <1>1, <1>2, <1>3, Sorts
<1>5. t <= w.value
  BY <1>0, <1>1, <1>2, <1>4 DEF RowInv
<1> QED  BY <1>2, <1>3, <1>5, Sorts

(* The view of a series without vintages that wins is never staler than    *)
(* another that is known.                                                  *)
THEOREM NoStaleTheorem == Spec => []NoStaleWinner
<1>1. Inv => NoStaleWinner
  BY StaleLemma
<1> QED  BY <1>1, InductiveInvariant, PTL

(* Two answers of the query agree period by period.                        *)
LEMMA UnambiguousLemma ==
  ASSUME Inv
  PROVE  AnswerIsUnambiguous
<1> SUFFICES ASSUME NEW s \in Series, NEW k \in Time, NEW p \in Day,
                    NEW one \in point_in_time(facts, s, p, p, k),
                    NEW other \in point_in_time(facts, s, p, p, k),
                    NEW q \in DOMAIN one
             PROVE  one[q].value = other[q].value
  BY DEF AnswerIsUnambiguous
<1>1. /\ one[q] \in Known(facts, s, p, p, k) /\ other[q] \in Known(facts, s, p, p, k)
  BY DEF point_in_time
<1>2. FactsInv /\ TieInv
  BY DEF Inv
<1> DEFINE known(f) ==
      /\ f \in facts /\ f.dim = s /\ f.validFrom = p /\ f.asOf <= k
      /\ \A g \in facts : g.dim = s /\ g.validFrom = p /\ g.asOf <= k => g.asOf <= f.asOf
<1>a. \A f : f \in Known(facts, s, p, p, k) <=> known(f)
  BY <1>2, KnownRows
<1>b. known(one[q]) /\ known(other[q])
  BY <1>1, <1>a
<1>3. /\ one[q] \in facts /\ other[q] \in facts
      /\ one[q].dim = s /\ other[q].dim = s
      /\ one[q].validFrom = p /\ other[q].validFrom = p
      /\ one[q].asOf <= other[q].asOf /\ other[q].asOf <= one[q].asOf
  BY <1>b
<1>4. one[q].asOf \in Nat /\ other[q].asOf \in Nat
  BY <1>2, <1>3 DEF FactsInv, RowInv, Row
<1>5. one[q].asOf = other[q].asOf
  BY <1>3, <1>4
<1> QED  BY <1>2, <1>3, <1>5 DEF TieInv

(* Rows that tie carry one value: the answer of the query is determined.   *)
THEOREM UnambiguousTheorem == Spec => []AnswerIsUnambiguous
<1>1. Inv => AnswerIsUnambiguous
  BY UnambiguousLemma
<1> QED  BY <1>1, InductiveInvariant, PTL

(* Rows with an as_of that lies behind come only of views under way.       *)
LEMMA SettledLemma ==
  ASSUME Inv, [Next]_vars, facts' # facts,
         NEW s \in Current \cup Symbols, NEW k \in 1 .. now, NEW p \in Day,
         \A b \in Backfills : ~ Unstored(b, s, k)
  PROVE  Served(s, p, k)' = Served(s, p, k)
<1>0. TypeOK /\ FactsInv /\ s \in Series /\ s \notin Vintaged /\ k \in Nat
  BY SeriesAssumption DEF Inv, Series
<1>1. PICK b \in Backfills : StepOf(b)
  BY DEF Next, StepOf, Release, vars
<1>2. ProcessInv(b) /\ PlaceInv(b) /\ ObsInv(b)
  BY DEF Inv, ProcessInv
<1>3. /\ facts' = facts \cup obs[b]
      /\ pc[b] = "keep" \/ At(b) \in Vintaged
  BY <1>0, <1>1, <1>2, StepFacts
<1>4. ASSUME NEW r \in obs[b], r.dim = s PROVE ~ (r.asOf <= k)
  <2>1. r.dim = At(b) /\ pc[b] = "keep" /\ r.asOf = stamp[b][s] /\ At(b) = s
    BY <1>0, <1>2, <1>3, <1>4 DEF ObsInv
  <2> QED  BY <2>1 DEF Unstored, At
<1>5. \A f : /\ f \in Eligible(facts', s, p, p, k) <=> f \in Eligible(facts, s, p, p, k)
  BY <1>3, <1>4 DEF Eligible
<1>6. Eligible(facts', s, p, p, k) = Eligible(facts, s, p, p, k)
  BY <1>5
<1> QED  BY <1>6 DEF Served, Known

(* What was known at k is fixed once the views stamped by then are stored. *)
THEOREM SettledTheorem == Spec => SettledViewIsFixed
<1> DEFINE Settled ==
      facts' # facts =>
        \A s \in Current \cup Symbols, k \in 1 .. now, p \in Day :
          (\A b \in Backfills : ~ Unstored(b, s, k)) => Served(s, p, k)' = Served(s, p, k)
<1>1. Inv /\ [Next]_vars => Settled
  BY SettledLemma
<1>2. Inv /\ [Next]_vars => [Settled]_vars
  BY <1>1
<1>3. (Spec => [][Settled]_vars) <=> (Spec => SettledViewIsFixed)
  BY PTL DEF SettledViewIsFixed
<1> HIDE DEF Settled
<1>4. Spec => [][Settled]_vars
  BY <1>2, InductiveInvariant, PTL DEF Spec
<1> QED  BY <1>3, <1>4

----------------------------------------------------------------------------
(* Invocations get on.  Sets of days are finite.                           *)
LEMMA DaysAreFinite ==
  ASSUME NEW D \in SUBSET Day
  PROVE  IsFiniteSet(D) /\ Cardinality(D) \in Nat
         /\ \A d \in D : Cardinality(D \ {d}) < Cardinality(D)
<1>1. IsFiniteSet(Time)
  BY FS_Interval, TimeAssumption DEF Time
<1>2. [t \in Time |-> DayOf[t]] \in Surjection(Time, Day)
  BY DEF Surjection, Day
<1>3. IsFiniteSet(Day)
  BY <1>1, <1>2, FS_Surjection
<1>4. IsFiniteSet(D)
  BY <1>3, FS_Subset
<1>5. Cardinality(D) \in Nat /\ \A d \in D : Cardinality(D \ {d}) = Cardinality(D) - 1
  BY <1>4, FS_CardinalityType, FS_RemoveElement
<1> QED  BY <1>4, <1>5

(* Products of naturals.                                                   *)
LEMMA Times ==
  ASSUME NEW n \in Nat, NEW m \in Nat
  PROVE  /\ n * m \in Nat /\ (n + 1) * m = n * m + m
         /\ \A l \in Nat : l <= n => l * m <= n * m
<1>1. n * m \in Nat /\ (n + 1) * m = n * m + m
  BY SMT
<1>2. ASSUME NEW l \in Nat, l <= n PROVE l * m <= n * m
  <2>1. PICK e \in Nat : n = l + e
    BY <1>2
  <2>2. l * m \in Int /\ e * m \in Nat /\ n * m = l * m + e * m
    BY <2>1, SMT
  <2> QED  BY <2>2
<1> QED  BY <1>1, <1>2

(* What is allowed for vintages and for series.                            *)
LEMMA Allowances ==
  /\ Vintage \in Nat /\ Vintage = MaxRetries + 1 /\ MaxRetries \in Nat \ {0}
  /\ Vintages \in Nat /\ PerSeries \in Nat /\ PerSeries = Vintages + Vintage + 1
  /\ \A D \in SUBSET Day :
       /\ Cardinality(D) * Vintage \in Nat
       /\ Cardinality(D) * Vintage <= Vintages
       /\ D # {} => Vintage <= Cardinality(D) * Vintage
       /\ \A d \in D : Cardinality(D \ {d}) * Vintage + Vintage = Cardinality(D) * Vintage
  /\ \A n \in Nat \ {0} :
       /\ (n - 1) * PerSeries \in Nat
       /\ n > 1 => (n - 2) * PerSeries + PerSeries = (n - 1) * PerSeries
<1>1. Vintage \in Nat /\ Vintage = MaxRetries + 1 /\ MaxRetries \in Nat \ {0}
  BY ArgumentsAssumption DEF Vintage
<1>2. Cardinality(Day) \in Nat
  BY DaysAreFinite
<1>3. Vintages \in Nat /\ Vintages = Cardinality(Day) * Vintage
  BY <1>1, <1>2, Times DEF Vintages
<1>4. PerSeries \in Nat /\ PerSeries = Vintages + Vintage + 1
  BY <1>1, <1>3 DEF PerSeries
<1>5. ASSUME NEW D \in SUBSET Day
      PROVE  /\ Cardinality(D) * Vintage \in Nat
             /\ Cardinality(D) * Vintage <= Vintages
             /\ \A d \in D : Cardinality(D \ {d}) * Vintage + Vintage = Cardinality(D) * Vintage
  <2>1. Cardinality(D) \in Nat /\ Cardinality(D) <= Cardinality(Day)
    BY DaysAreFinite, FS_Subset
  <2>2. Cardinality(D) * Vintage \in Nat /\ Cardinality(D) * Vintage <= Vintages
    BY <1>1, <1>2, <1>3, <2>1, Times
  <2>3. ASSUME NEW d \in D
        PROVE  Cardinality(D \ {d}) * Vintage + Vintage = Cardinality(D) * Vintage
    <3>1. Cardinality(D \ {d}) \in Nat /\ Cardinality(D \ {d}) + 1 = Cardinality(D)
      BY <2>1, DaysAreFinite, FS_RemoveElement
    <3>2. (Cardinality(D \ {d}) + 1) * Vintage = Cardinality(D \ {d}) * Vintage + Vintage
      BY <1>1, <3>1, Times
    <3> QED  BY <3>1, <3>2
  <2> QED  BY <2>2, <2>3
<1>6. ASSUME NEW D \in SUBSET Day, D # {} PROVE Vintage <= Cardinality(D) * Vintage
  <2>1. PICK d : d \in D
    BY <1>6
  <2>2. Cardinality(D \ {d}) * Vintage \in Nat /\ Cardinality(D) * Vintage \in Nat
    BY <1>5
  <2>3. Cardinality(D \ {d}) * Vintage + Vintage = Cardinality(D) * Vintage
    BY <1>5, <2>1
  <2> QED  BY <1>1, <2>2, <2>3
<1>7. ASSUME NEW n \in Nat \ {0}
      PROVE  /\ (n - 1) * PerSeries \in Nat
             /\ n > 1 => (n - 2) * PerSeries + PerSeries = (n - 1) * PerSeries
  <2>1. (n - 1) * PerSeries \in Nat
    BY <1>4, Times
  <2>2. ASSUME n > 1 PROVE (n - 2) * PerSeries + PerSeries = (n - 1) * PerSeries
    <3>1. n - 2 \in Nat /\ (n - 2) + 1 = n - 1
      BY <2>2
    <3>2. ((n - 2) + 1) * PerSeries = (n - 2) * PerSeries + PerSeries
      BY <1>4, <3>1, Times
    <3> QED  BY <3>1, <3>2
  <2> QED  BY <2>1, <2>2
<1> QED  BY <1>1, <1>3, <1>4, <1>5, <1>6, <1>7

(* The steps left in a series, in a state and the next.                    *)
LEMMA InSeries ==
  ASSUME NEW b
  PROVE  /\ pc[b] = "idle" => StepsInSeries(b) = PerSeries + 1
         /\ pc[b] = "series" => StepsInSeries(b) = PerSeries
         /\ pc[b] \in {"discover", "current", "download"} =>
              StepsInSeries(b) = Vintages + Vintage - attempt[b]
         /\ pc[b] \in {"resume", "keep"} => StepsInSeries(b) = Vintages + 1
         /\ pc[b] = "snapshot" => StepsInSeries(b) = Cardinality(todo[b]) * Vintage - attempt[b]
         /\ pc[b] = "store" => StepsInSeries(b) = Cardinality(todo[b]) * Vintage + 1
         /\ pc'[b] = "series" => StepsInSeries(b)' = PerSeries
         /\ pc'[b] \in {"discover", "current", "download"} =>
              StepsInSeries(b)' = Vintages + Vintage - attempt'[b]
         /\ pc'[b] \in {"resume", "keep"} => StepsInSeries(b)' = Vintages + 1
         /\ pc'[b] = "snapshot" =>
              StepsInSeries(b)' = Cardinality(todo'[b]) * Vintage - attempt'[b]
         /\ pc'[b] = "store" => StepsInSeries(b)' = Cardinality(todo'[b]) * Vintage + 1
BY DEF StepsInSeries, PerSeries, Vintages, Vintage

(* An invocation that has not ended has a step left in its series.         *)
LEMMA StepsType ==
  ASSUME Typed, NEW b \in Backfills, pc[b] \notin Ended
  PROVE  /\ StepsInSeries(b) \in Nat \ {0}
         /\ Len(left[b]) \in Nat \ {0}
         /\ StepsLeft(b) = (Len(left[b]) - 1) * PerSeries + StepsInSeries(b)
<1>1. /\ pc[b] \in {"idle", "series", "discover", "current", "download", "resume", "keep",
                   "snapshot", "store"}
      /\ attempt[b] \in 0 .. MaxRetries - 1 /\ todo[b] \in SUBSET Day
      /\ pc[b] = "snapshot" => todo[b] # {}
  BY DEF Typed, TypeOK, PlaceInv, Ended, Requesting
<1>2. StepsInSeries(b) \in Nat \ {0}
  BY <1>1, Allowances, InSeries
<1>3. Len(left[b]) \in Nat \ {0}
  BY HeadTailProperties, LenProperties, EmptySeq DEF Typed, TypeOK, PlaceInv
<1> QED  BY <1>2, <1>3 DEF StepsLeft

(* The ways to get on: to end, to finish a series, to use up a step of it. *)
LEMMA MovesAreProgress ==
  ASSUME Typed, NEW b \in Backfills, pc[b] \notin Ended,
         \/ pc'[b] \in Ended
         \/ FinishSeries(b)
         \/ /\ pc'[b] \notin Ended /\ left'[b] = left[b]
            /\ StepsInSeries(b)' \in 0 .. StepsInSeries(b) - 1
  PROVE  StepsLeft(b)' \in 0 .. StepsLeft(b) - 1
<1>0. PerSeries \in Nat /\ PerSeries' = PerSeries
      /\ \A n \in Nat \ {0} : /\ (n - 1) * PerSeries \in Nat
                             /\ n > 1 => (n - 2) * PerSeries + PerSeries = (n - 1) * PerSeries
  BY Allowances DEF PerSeries, Vintages, Vintage
<1>1. /\ StepsInSeries(b) \in Nat \ {0} /\ Len(left[b]) \in Nat \ {0}
      /\ StepsLeft(b) = (Len(left[b]) - 1) * PerSeries + StepsInSeries(b)
  BY StepsType
<1>2. (Len(left[b]) - 1) * PerSeries \in Nat
  BY <1>0, <1>1
<1>3. StepsLeft(b)' = IF pc'[b] \in Ended THEN 0
                      ELSE (Len(left'[b]) - 1) * PerSeries + StepsInSeries(b)'
  BY <1>0 DEF StepsLeft
<1>4. CASE pc'[b] \in Ended
  BY <1>1, <1>2, <1>3, <1>4
<1>5. CASE FinishSeries(b) /\ pc'[b] \notin Ended
  <2>1. Len(left[b]) # 1 /\ pc'[b] = "series" /\ left'[b] = Tail(left[b])
    BY <1>5 DEF FinishSeries, Typed, TypeOK, Ended
  <2>2. Len(left'[b]) = Len(left[b]) - 1
    BY <1>1, <2>1, HeadTailProperties, EmptySeq DEF Typed, TypeOK, PlaceInv
  <2>3. StepsInSeries(b)' = PerSeries
    BY <2>1, InSeries
  <2>4. /\ (Len(left'[b]) - 1) * PerSeries + PerSeries = (Len(left[b]) - 1) * PerSeries
    BY <1>0, <1>1, <2>1, <2>2
  <2> QED  BY <1>0, <1>1, <1>2, <1>3, <1>5, <2>3, <2>4
<1>6. CASE /\ pc'[b] \notin Ended /\ left'[b] = left[b]
           /\ StepsInSeries(b)' \in 0 .. StepsInSeries(b) - 1
  BY <1>1, <1>2, <1>3, <1>6
<1> QED  BY <1>4, <1>5, <1>6

(* Every step of an invocation is one of them.                             *)
LEMMA StepMoves ==
  ASSUME Typed, NEW b \in Backfills, StepOf(b)
  PROVE  /\ pc[b] \notin Ended
         /\ \/ pc'[b] \in Ended
            \/ FinishSeries(b)
            \/ /\ pc'[b] \notin Ended /\ left'[b] = left[b]
               /\ StepsInSeries(b)' \in 0 .. StepsInSeries(b) - 1
<1> DEFINE Uses == /\ pc'[b] \notin Ended /\ left'[b] = left[b]
                   /\ StepsInSeries(b)' \in 0 .. StepsInSeries(b) - 1
           Goal == pc[b] \notin Ended /\ (pc'[b] \in Ended \/ FinishSeries(b) \/ Uses)
<1>0. TypeOK /\ TypeOK' /\ PlaceInv(b) /\ PlaceInv(b)'
  BY StepTyped DEF Typed
<1>a. /\ attempt[b] \in 0 .. MaxRetries - 1 /\ attempt'[b] \in 0 .. MaxRetries - 1
      /\ todo[b] \in SUBSET Day /\ todo'[b] \in SUBSET Day
      /\ pc[b] = "snapshot" => todo[b] # {}
      /\ pc'[b] = "snapshot" => todo'[b] # {}
  BY <1>0 DEF TypeOK, PlaceInv
<1>2. CASE Invoke(b)
  <2>1. pc[b] = "idle" /\ left' = left /\ pc'[b] \in {"series", "failed"}
    BY <1>0, <1>2 DEF Invoke, backfill_macro, ingest_universe, TypeOK
  <2> QED  BY <2>1, Allowances, InSeries DEF Ended
<1>3. CASE Begin(b)
  <2>1. pc[b] = "series" /\ left' = left
        /\ pc'[b] \in {"discover", "current", "download", "failed"}
    BY <1>0, <1>3 DEF Begin, BeginSeries, BeginSymbol, Fail, TypeOK
  <2> QED  BY <1>a, <2>1, Allowances, InSeries DEF Ended
<1>4. CASE RequestRetries(b)
  <2>1. /\ pc[b] \in Requesting /\ pc' = pc /\ left' = left /\ todo' = todo
        /\ attempt'[b] = attempt[b] + 1
    BY <1>0, <1>4 DEF RequestRetries, TypeOK
  <2> QED  BY <1>a, <2>1, Allowances, InSeries DEF Ended, Requesting
<1>5. CASE RequestRaises(b) \/ Crash(b)
  <2>1. pc[b] \notin Ended /\ pc'[b] = "failed"
    BY <1>0, <1>5 DEF RequestRaises, Crash, Fail, TypeOK, Requesting, Ended
  <2> QED  BY <2>1 DEF Ended
<1>7. CASE Discover(b)
  <2>1. pc[b] = "discover"
    BY <1>7 DEF Discover
  <2>2. CASE pc' = [pc EXCEPT ![b] = "resume"] /\ left' = left
    <3>1. pc'[b] = "resume"
      BY <1>0, <2>2 DEF TypeOK
    <3> QED  BY <1>a, <2>1, <2>2, <3>1, Allowances, InSeries DEF Ended
  <2> QED  BY <1>7, <2>1, <2>2 DEF Discover, Ended
<1>8. ASSUME NEW remaining, NextVintage(b, remaining), ~ FinishSeries(b)
      PROVE  pc'[b] = "snapshot" /\ left' = left
  BY <1>0, <1>8 DEF NextVintage, TypeOK
<1>9. CASE Resume(b)
  <2>1. pc[b] = "resume" /\ \E remaining : NextVintage(b, remaining)
    BY <1>9 DEF Resume
  <2>2. CASE ~ FinishSeries(b)
    <3>1. pc'[b] = "snapshot" /\ left' = left
      BY <1>8, <2>1, <2>2
    <3> QED  BY <1>a, <2>1, <3>1, Allowances, InSeries DEF Ended
  <2> QED  BY <2>1, <2>2 DEF Ended
<1>10. CASE Snapshot(b)
  <2>1. pc[b] = "snapshot" /\ pc'[b] = "store" /\ left' = left
        /\ \E d \in todo[b] : todo'[b] = todo[b] \ {d}
    BY <1>0, <1>10 DEF Snapshot, TypeOK
  <2>2. Cardinality(todo'[b]) * Vintage + Vintage = Cardinality(todo[b]) * Vintage
    BY <1>a, <2>1, Allowances
  <2> QED  BY <1>a, <2>1, <2>2, Allowances, InSeries DEF Ended
<1>11. CASE Store(b)
  <2>1. pc[b] = "store" /\ todo' = todo /\ NextVintage(b, todo[b])
    BY <1>11 DEF Store
  <2>2. CASE ~ FinishSeries(b)
    <3>1. pc'[b] = "snapshot" /\ left' = left
      BY <1>8, <2>1, <2>2
    <3> QED  BY <1>a, <2>1, <3>1, Allowances, InSeries DEF Ended
  <2> QED  BY <2>1, <2>2 DEF Ended
<1>12. CASE FetchLatest(b) \/ Download(b)
  <2>1. pc[b] \in {"current", "download"}
        /\ (FinishSeries(b) \/ (pc' = [pc EXCEPT ![b] = "keep"] /\ left' = left))
    BY <1>12 DEF FetchLatest, Download
  <2>2. CASE pc' = [pc EXCEPT ![b] = "keep"] /\ left' = left
    <3>1. pc'[b] = "keep"
      BY <1>0, <2>2 DEF TypeOK
    <3> QED  BY <1>a, <2>1, <2>2, <3>1, Allowances, InSeries DEF Ended
  <2> QED  BY <2>1, <2>2 DEF Ended
<1>13. CASE StoreLatest(b)
  BY <1>13 DEF StoreLatest, Ended
<1> QED
  BY <1>2, <1>3, <1>4, <1>5, <1>7, <1>9, <1>10, <1>11, <1>12, <1>13 DEF StepOf, ProgramStep

(* A step of one invocation touches nothing of another.                    *)
LEMMA OthersUntouched ==
  ASSUME TypeOK, NEW b \in Backfills, StepOf(b), NEW c \in Backfills \ {b}
  PROVE  StateOf(c)' = StateOf(c)
<1>1. attempt'[c] = attempt[c]
  <2>1. CASE Invoke(b) \/ Begin(b) \/ Crash(b)
    BY <2>1 DEF TypeOK, Invoke, backfill_macro, ingest_universe, Begin, BeginSeries,
                BeginSymbol, Crash, Fail
  <2>2. CASE RequestRetries(b) \/ RequestRaises(b) \/ Snapshot(b) \/ FetchLatest(b)
    BY <2>2 DEF TypeOK, RequestRetries, RequestRaises, Snapshot, FetchLatest, Fail, Answered
  <2>3. CASE Discover(b) \/ Resume(b) \/ Store(b) \/ Download(b) \/ StoreLatest(b)
    BY <2>3 DEF TypeOK, Discover, Resume, Store, Download, StoreLatest, Answered
  <2> QED  BY <2>1, <2>2, <2>3 DEF StepOf, ProgramStep
<1> QED  BY <1>1, OthersSteady DEF Steady, StateOf

(* So whatever happens, an invocation stays where it is or uses up a step, *)
(* and makes no more of them than StepsLeft allows it at its start.        *)
THEOREM ProgressTheorem == Spec => EveryStepIsProgress
<1> DEFINE Progress ==
      \A b \in Backfills : StateOf(b)' # StateOf(b) => StepsLeft(b)' \in 0 .. StepsLeft(b) - 1
<1>1. ASSUME Typed, TypeOK', [Next]_vars PROVE Progress
  <2>1. ASSUME NEW s \in Series, NEW t \in Time, Release(s, t) PROVE Progress
    BY <2>1 DEF Release, process, StateOf
  <2>2. ASSUME NEW b \in Backfills, StepOf(b) PROVE Progress
    BY <1>1, <2>2, OthersUntouched, StepMoves, MovesAreProgress DEF Typed
  <2>3. CASE UNCHANGED vars
    BY <2>3 DEF vars, process, StateOf
  <2> QED  BY <1>1, <2>1, <2>2, <2>3 DEF Next, StepOf
<1>2. Inv => Typed
  BY DEF Inv, Typed, ProcessInv
<1>3. Inv /\ Inv' /\ [Next]_vars => [Progress]_vars
  BY <1>1, <1>2 DEF Inv
<1>4. (Spec => [][Progress]_vars) <=> (Spec => EveryStepIsProgress)
  BY PTL DEF EveryStepIsProgress
<1> HIDE DEF Progress
<1>5. Spec => [][Progress]_vars
  BY <1>3, InductiveInvariant, PTL DEF Spec
<1> QED  BY <1>4, <1>5
=============================================================================
