------------------------------ MODULE Workflow ------------------------------
(***************************************************************************)
(* The typed workflows of app/platform/workflow.py.  Every governed record *)
(* type declares its states and its named transitions; one helper checks   *)
(* the source state and the reason rule, moves the record and writes the   *)
(* audit event.  Who may perform a transition stays with the module that   *)
(* owns the record, so it is not here.                                     *)
(*                                                                         *)
(* A flow is a record indexed by transition name (the dictionary           *)
(* Workflow.transitions), each field holding the transition's source       *)
(* states, its target and whether it needs a reason.                       *)
(***************************************************************************)

Transition(sources, target) ==
  [sources |-> sources, target |-> target, reason |-> FALSE]

ReasonedTransition(sources, target) ==
  [sources |-> sources, target |-> target, reason |-> TRUE]

(* Workflow.check: the transition exists, starts here, and has its reason. *)
Permits(flow, name, state, reasoned) ==
  /\ name \in DOMAIN flow
  /\ state \in flow[name].sources
  /\ flow[name].reason => reasoned

(* The state Workflow.apply leaves the record in. *)
TargetOf(flow, name) == flow[name].target

(* What audit.record keeps of a transition: who did it, the state the      *)
(* handler had loaded, the state it wrote, and the revision it was about.  *)
AuditEvent(name, actor, before, after, rev) ==
  [name |-> name, actor |-> actor, before |-> before, after |-> after, rev |-> rev]
=============================================================================
