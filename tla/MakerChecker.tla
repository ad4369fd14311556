---------------------------- MODULE MakerChecker ----------------------------
(***************************************************************************)
(* What governed publication promises, whatever the record: makers file    *)
(* numbered versions of an item, which are history from then on, and the   *)
(* released version is one that somebody other than its maker has checked. *)
(* docs/PERFORMANCE_GOVERNANCE.md states it for progress updates ("nobody  *)
(* verifies or approves their own submission ... Approval publishes the    *)
(* figure"), and the other approval flows of the platform have its shape.  *)
(***************************************************************************)
EXTENDS Naturals

CONSTANTS
  Item,            \* what is published: one figure, report, ...
  Actor,
  Content,
  Withheld         \* contents that may be filed but not released

VARIABLES
  filed,           \* filed[i]: the versions of i, each [by, figure]
  checks,          \* checks[i]: who checked which version
  released         \* released[i]: the version in force, 0 before the first

Init ==
  /\ filed = [i \in Item |-> <<>>]
  /\ checks = [i \in Item |-> {}]
  /\ released = [i \in Item |-> 0]

(* A new version takes the next number; the ones filed before it stay.     *)
Following(i) == {m + 1 : m \in {0} \cup DOMAIN filed[i]} \ DOMAIN filed[i]

File(i, u, c, n) ==
  /\ filed' = [filed EXCEPT ![i] =
                 [m \in DOMAIN filed[i] \cup {n} |->
                   IF m = n THEN [by |-> u, figure |-> c] ELSE filed[i][m]]]
  /\ UNCHANGED <<checks, released>>

Release(i, u, n) ==
  /\ n \in DOMAIN filed[i]
  /\ filed[i][n].by # u
  /\ filed[i][n].figure \notin Withheld
  /\ checks' = [checks EXCEPT ![i] = @ \cup {[rev |-> n, by |-> u]}]
  /\ released' = [released EXCEPT ![i] = n]
  /\ UNCHANGED filed

Next ==
  \E i \in Item, u \in Actor :
    \/ \E c \in Content, n \in Following(i) : File(i, u, c, n)
    \/ \E n \in DOMAIN filed[i] : Release(i, u, n)

Spec == Init /\ [][Next]_<<filed, checks, released>>
=============================================================================
