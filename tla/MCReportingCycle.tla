-------------------------- MODULE MCReportingCycle --------------------------
(***************************************************************************)
(* Instances of ReportingCycle: a month inside its quarter, and two        *)
(* approvers, who may each submit, verify and approve.  Requests that race *)
(* do so within tighter bounds: nobody is named, no two figures differ but *)
(* in being pending, no period is locked and the cycle is not closed,      *)
(* because nothing is claimed of a lock or a closing that falls between a  *)
(* check and its commit.                                                   *)
(***************************************************************************)
EXTENDS ReportingCycle, TLC

CONSTANTS ben, cee, a1, a2, w1, w2

Month == [type |-> "month", start |-> 2, end |-> 2]
Quarter == [type |-> "quarter", start |-> 1, end |-> 3]
MonthOnly == {Month}
MCPeriod == {Month, Quarter}

MCRoleOn ==
  [a \in Assignment |->
    [u \in User |-> "approver"]]

Workers == Permutations(Worker)

Tight ==
  /\ locked = {}
  /\ cycle.status # "closed"
  /\ named = [a \in Assignment |-> NobodyNamed]
  /\ \A a \in Assignment : Len(trail[a]) <= 4
  /\ \A w \in Worker : req[w].step \in {"loaded", "ready"} =>
       req[w].figure \in {"na", "pending"}

Bounds == Serial \/ Tight
=============================================================================
