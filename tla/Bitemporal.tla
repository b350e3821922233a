------------------------------ MODULE Bitemporal ------------------------------
(***************************************************************************)
(* substrate/bitemporal/query.py over a table of facts.  A fact says that  *)
(* the value of dim for the period validFrom was such, as known at asOf.   *)
(* The table is the set of its rows: two rows equal in every column are    *)
(* one, because no query counts rows.                                      *)
(***************************************************************************)
EXTENDS Integers

(* Mutation: the cutoff is on the period only.                             *)
EligibleByPeriod(facts, dim, worldFrom, worldTo, knownAsOf) ==
  {f \in facts : f.dim = dim /\ worldFrom <= f.validFrom /\ f.validFrom <= worldTo}

(* The rows of the WHERE clause.  valid_to and superseded_by, which the    *)
(* schema has, are read by no query.                                       *)
Eligible(facts, dim, worldFrom, worldTo, knownAsOf) ==
  {f \in facts : /\ f.dim = dim
                 /\ worldFrom <= f.validFrom /\ f.validFrom <= worldTo
                 /\ f.asOf <= knownAsOf}

(* The rows row_number() may number 1 within their period: the latest      *)
(* ones.  Rows that tie are numbered in any order.                         *)
FirstRanked(rows) ==
  {f \in rows : \A g \in rows : g.validFrom = f.validFrom => g.asOf <= f.asOf}

Known(facts, dim, worldFrom, worldTo, knownAsOf) ==
  FirstRanked(Eligible(facts, dim, worldFrom, worldTo, knownAsOf))

(* The answers a call may give: one row for each period that has any.      *)
point_in_time(facts, dim, worldFrom, worldTo, knownAsOf) ==
  LET first == Known(facts, dim, worldFrom, worldTo, knownAsOf)
  IN  {answer \in [{f.validFrom : f \in first} -> first] :
         \A p \in DOMAIN answer : answer[p].validFrom = p}

(* One transaction; rows are only ever added, restatements too.            *)
bulk_insert_facts(facts, rows) == facts \cup rows
=============================================================================
