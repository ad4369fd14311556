---------------------------- MODULE MCRegulatory ----------------------------
(***************************************************************************)
(* Instances of Regulatory: three officers, contents with and without      *)
(* blockers; the revised content scores a second indicator.  Requests that *)
(* race do so between two of the officers, over one content.               *)
(***************************************************************************)
EXTENDS Regulatory, TLC

CONSTANTS o1, o2, o3, bare, checked, revised, i1, i2

TwoScored == (bare :> {i1}) @@ (checked :> {i1}) @@ (revised :> {i1, i2})

Symmetry == Permutations(User) \cup Permutations(Worker)

Officers ==
  {packs[p].importer : p \in Version} \cup {editor[p] : p \in Version}
    \cup {packs[p].approver : p \in Version} \cup {returns[r].submitter : r \in Return}

Tight ==
  /\ Cardinality(Officers \ {Nobody}) <= 2
  /\ \A p \in Imported : packs[p].content = checked
  /\ \A r \in Return : values[r][i2] = Nothing
  /\ \A w \in Worker : req[w].step = "edit" => req[w].new.content = checked

Bounds == Serial \/ Tight
=============================================================================
