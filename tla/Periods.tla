------------------------------- MODULE Periods -------------------------------
(***************************************************************************)
(* Reporting periods and their lock (app/platform/periods.py).  A period   *)
(* is a month, a quarter or a year of the fiscal calendar, with its first  *)
(* and last month; a locked period refuses writes, and so does a month or  *)
(* a quarter inside a locked quarter or year.                              *)
(***************************************************************************)
EXTENDS Naturals

CONSTANT Period      \* the periods created so far: [type, start, end], in months

ASSUME PeriodAssumption ==
  \A p \in Period :
    /\ p.type \in {"month", "quarter", "year"}
    /\ p.start \in Nat
    /\ p.end \in Nat
    /\ p.start <= p.end

VARIABLE locked      \* the periods whose status is "locked"

PeriodsTypeOK == locked \subseteq Period

PeriodsInit == locked = {}

(* periods.containing: the period itself and the longer ones around it.    *)
Containing(p) ==
  {p} \cup {q \in Period :
              /\ q.type # p.type
              /\ q.start <= p.start
              /\ q.end >= p.end
              /\ q.end - q.start > p.end - p.start}

(* periods.assert_open: the condition under which a write goes through.    *)
IsOpen(p) == Containing(p) \cap locked = {}

(* periods.lock and periods.reopen, by an administrator.  Reopening needs  *)
(* a reason, which the request carries.                                    *)
LockPeriod(p) ==
  /\ p \notin locked
  /\ locked' = locked \cup {p}

ReopenPeriod(p) ==
  /\ p \in locked
  /\ locked' = locked \ {p}
=============================================================================
