---------------------------- MODULE MCScorecard ----------------------------
(***************************************************************************)
(* Instances of Scorecard: two people who hold the duty and the approver   *)
(* role both, and who may be exchanged, as may the workers.  A third       *)
(* snapshot is only taken beside plain ones of the full data; one period   *)
(* is locked at a time; requests that race do so over one snapshot, and no *)
(* period is locked, because nothing is claimed of a lock that falls       *)
(* between a check and its commit.                                         *)
(***************************************************************************)
EXTENDS Scorecard, TLC

CONSTANTS ann, ben, w1, w2

Month == [type |-> "month", start |-> 2, end |-> 2]
Quarter == [type |-> "quarter", start |-> 1, end |-> 3]
MonthAndQuarter == {Month, Quarter}

Plain(row) ==
  row.hash = [data |-> "full", bands |-> "steep"] /\ ~row.provisional /\ ~row.result.override

Small == locked = {} /\ live = "full" /\ \A n \in Snapshot : Taken(n) => Plain(snaps[n])
Tight == locked = {} /\ \A n \in Snapshot : Taken(n) => n = 1

OneLock == Cardinality(locked) <= 1

Bounds == OneLock /\ IF Serial THEN Taken(MaxSnapshots) => Small ELSE Tight

Symmetry == Permutations(User) \cup Permutations(Worker)
=============================================================================
