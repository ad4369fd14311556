---------------------------- MODULE SealedRecord ----------------------------
(***************************************************************************)
(* What a record that is signed off promises, whatever it is: it is        *)
(* drafted, its content may change until somebody other than its author    *)
(* seals it, only content that is fit for it is sealed, and what has been  *)
(* sealed does not change any more; it can only be taken out of force.     *)
(* Reports, score snapshots, packs and appraisals are such records.        *)
(***************************************************************************)
CONSTANTS
  Record,
  Actor,
  Fit(_)           \* the contents that may be sealed

VARIABLES
  state,           \* "none", "open", "sealed" or "retired"
  author,
  content,
  signer

vars == <<state, author, content, signer>>

Init == state = [r \in Record |-> "none"]

(* Of a record that is not drafted nothing is said.                        *)
Absent(r) == state[r] = "none" /\ state'[r] = "none"

Draft(r) == state[r] = "none" /\ state'[r] = "open"

(* Whoever writes to an open record may become its author.                 *)
Edit(r) == state[r] = "open" /\ state'[r] = "open"

Seal(r) ==
  /\ state[r] = "open" /\ state'[r] = "sealed"
  /\ Fit(content[r])
  /\ signer'[r] \in Actor \ {author[r]}
  /\ UNCHANGED <<author[r], content[r]>>

Retire(r) ==
  /\ state[r] = "sealed" /\ state'[r] = "retired"
  /\ UNCHANGED <<author[r], content[r], signer[r]>>

Rest(r) == UNCHANGED <<state[r], author[r], content[r], signer[r]>>

(* Sealing one record may take another one out of force.                   *)
Next == \A r \in Record : Absent(r) \/ Draft(r) \/ Edit(r) \/ Seal(r) \/ Retire(r) \/ Rest(r)

Spec == Init /\ [][Next]_vars
=============================================================================
