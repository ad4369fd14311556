------------------------------ MODULE Actions ------------------------------
(***************************************************************************)
(* The shared action tracker (app/platform/actions.py): owned follow-up    *)
(* work that any module raises.  The owner does it, a reviewer who is not  *)
(* the owner verifies and closes it.  Titles, notes and due dates are left *)
(* out; everybody here is active and sees the unit.                        *)
(*                                                                         *)
(* A request loads the row; what it changed is committed later.            *)
(***************************************************************************)
EXTENDS Roles, Workflow, Requests

CONSTANTS
  MaxAction        \* bound on the actions raised

ASSUME ActionsAssumption == MaxAction \in Nat

VARIABLES
  actions          \* rows of the table "actions", by number

WORKFLOW ==
  [start    |-> Transition({"open"}, "in_progress"),
   complete |-> ReasonedTransition({"open", "in_progress"}, "completed"),
   close    |-> Transition({"completed"}, "closed"),
   reopen   |-> ReasonedTransition({"completed", "closed"}, "in_progress"),
   cancel   |-> ReasonedTransition({"open", "in_progress"}, "cancelled")]

(* "completed" is the pair completed_at, completion_note.                  *)
NoAction ==
  [status |-> "absent", owner |-> Nobody, created_by |-> Nobody, closed_by |-> Nobody,
   completed |-> FALSE, source |-> "none"]

ActionsInit == actions = [a \in 1..MaxAction |-> NoAction]

Raised == {a \in DOMAIN actions : actions[a].status # "absent"}
RoomForAction == Cardinality(Raised) < MaxAction

(* create: the next number, open, whoever the owner is.                    *)
NewAction(u, owner, source) ==
  [actions EXCEPT ![Cardinality(Raised) + 1] =
    Assign(NoAction, [status |-> "open", owner |-> owner, created_by |-> u, source |-> source])]

(* Follow-up work of a record that is not done yet (query, open_only).     *)
OpenActions(source) ==
  {a \in Raised : actions[a].source = source /\ actions[a].status \in {"open", "in_progress"}}

LoadAction(w, a, new) ==
  /\ Begin(w, [step |-> "action", id |-> a, loaded |-> actions[a], new |-> new])
  /\ UNCHANGED actions
-----------------------------------------------------------------------------
CreateAction(u, owner) ==
  /\ Free
  /\ RoomForAction
  /\ actions' = NewAction(u, owner, "none")
  /\ UNCHANGED req

MayReassign(u, a) == u \in Reviewer \/ u = actions[a].created_by

(* update: an owner who neither raised the action nor reviews it reports   *)
(* progress and nothing else.                                              *)
Editable_Always(a) == actions[a].status # "absent"
Editable(a) == actions[a].status \notin {"absent", "closed", "cancelled"}

UpdateOwner(w, u, a, owner) ==
  /\ Editable(a)
  /\ MayReassign(u, a)
  /\ LoadAction(w, a, Assign(actions[a], [owner |-> owner]))

(* transition: who may, and what it writes.  An owner reopens only what    *)
(* nobody has verified.                                                    *)
MayTransition(u, a, name) ==
  LET owner == u = actions[a].owner
      reviewer == u \in Reviewer
  IN \/ name \in {"start", "complete"} /\ (owner \/ reviewer)
     \/ name = "close" /\ reviewer /\ ~owner
     \/ name = "cancel" /\ reviewer
     \/ name = "reopen" /\ (reviewer \/ (owner /\ actions[a].status = "completed"))

Written(u, row, name) ==
  Assign(row, [status |-> TargetOf(WORKFLOW, name),
               completed |-> name = "complete" \/ (row.completed /\ name # "reopen"),
               closed_by |-> IF name = "close" THEN u ELSE IF name = "reopen" THEN Nobody
                             ELSE row.closed_by])

TransitionAction(w, u, a, name) ==
  /\ Permits(WORKFLOW, name, actions[a].status, TRUE)
  /\ MayTransition(u, a, name)
  /\ LoadAction(w, a, Written(u, actions[a], name))

(* action_dict: the steps a reader is offered, worked out a second time.   *)
OfferedSteps_OwnWork(u, a) ==
  {name \in {n \in DOMAIN WORKFLOW : actions[a].status \in WORKFLOW[n].sources} :
     name = "reopen" => u \in Reviewer \cup {actions[a].owner}}
OfferedSteps(u, a) ==
  LET owner == u = actions[a].owner
      reviewer == u \in Reviewer
      allowed == {n \in DOMAIN WORKFLOW : actions[a].status \in WORKFLOW[n].sources}
  IN (IF owner \/ reviewer THEN allowed \cap {"start", "complete"} ELSE {})
       \cup (IF reviewer /\ ~owner THEN allowed \cap {"close"} ELSE {})
       \cup (IF reviewer THEN allowed \cap {"cancel", "reopen"} ELSE {})
       \cup (IF owner /\ actions[a].status = "completed" THEN allowed \cap {"reopen"} ELSE {})

CommitAction(w) ==
  LET q == req[w]
  IN /\ q.step = "action"
     /\ actions' = [actions EXCEPT ![q.id] = Flush(q.loaded, q.new, @)]
     /\ Finish(w)

ActionsNext ==
  \/ \E u \in User :
       \/ \E o \in User : CreateAction(u, o)
       \/ \E w \in Waiting, a \in Raised :
            \/ \E o \in User \ {actions[a].owner} : UpdateOwner(w, u, a, o)
            \/ \E name \in DOMAIN WORKFLOW : TransitionAction(w, u, a, name)
  \/ \E w \in Worker : CommitAction(w)

ActionsTypeOK ==
  actions \in [1..MaxAction ->
    [status : {"absent", "open", "in_progress", "completed", "closed", "cancelled"},
     owner : User \cup {Nobody}, created_by : User \cup {Nobody}, closed_by : User \cup {Nobody},
     completed : BOOLEAN, source : {"none", "audit_finding", "resolution"}]]

(* Work is verified by somebody other than its owner: a closed action was  *)
(* completed, names who closed it, and that is not the owner it has now.   *)
(* Edits stop when it closes and reopening clears both, so it holds while  *)
(* requests are serial; a re-assignment in flight beside the closing       *)
(* breaks it (actions.py:139).                                             *)
ClosedActionsWereVerified ==
  Serial => \A a \in Raised : actions[a].status = "closed" =>
              actions[a].completed /\ actions[a].closed_by \in Reviewer \ {actions[a].owner}
=============================================================================
