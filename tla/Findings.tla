------------------------------ MODULE Findings ------------------------------
(***************************************************************************)
(* Audit findings (app/modules/governance/service.py, 175-272): one        *)
(* finding with its two sides.  Auditors raise it, accept the response and *)
(* validate closure; its owner, or an approver on the unit who is no       *)
(* auditor, answers for management.  Accepting a response raises the       *)
(* follow-up action.  A request loads the row and commits later.           *)
(***************************************************************************)
EXTENDS Actions, Sequences

CONSTANTS
  Auditor,         \* accounts with the auditor duty
  MaxDecision      \* bound on the decisions about the finding

ASSUME FindingsAssumption ==
  /\ Auditor \subseteq User
  /\ MaxDecision \in Nat

VARIABLES
  finding,         \* the row of audit_findings
  decisions        \* its approvals: the names of the steps, in order

FINDING_FLOW ==
  [respond         |-> Transition({"open"}, "response_submitted"),
   accept          |-> Transition({"response_submitted"}, "agreed"),
   reject_response |-> ReasonedTransition({"response_submitted"}, "open"),
   request_closure |-> ReasonedTransition({"agreed"}, "closure_requested"),
   validate        |-> Transition({"closure_requested"}, "closed"),
   reject_closure  |-> ReasonedTransition({"closure_requested"}, "agreed"),
   reopen          |-> ReasonedTransition({"closed"}, "agreed")]

NoFinding ==
  [status |-> "absent", auditor |-> Nobody, owner |-> Nobody,
   responded_by |-> Nobody, validated_by |-> Nobody]

FindingsInit == finding = NoFinding /\ decisions = <<>>

LoadFinding(w, u, name, new) ==
  /\ Begin(w, [step |-> "finding", name |-> name, by |-> u, loaded |-> finding, new |-> new])
  /\ UNCHANGED <<finding, decisions, actions>>

Management(u) == u \notin Auditor /\ (u = finding.owner \/ u \in Approver)
-----------------------------------------------------------------------------
CreateFinding(u, owner) ==
  /\ Free
  /\ finding.status = "absent"
  /\ u \in Auditor
  /\ owner # u
  /\ finding' = Assign(NoFinding, [status |-> "open", auditor |-> u, owner |-> owner])
  /\ UNCHANGED <<decisions, actions, req>>

(* update_finding: any auditor, and any active account as the owner, the   *)
(* auditor too.                                                            *)
FindingEditable == finding.status \notin {"absent", "closed"}

UpdateFinding(w, u, owner) ==
  /\ FindingEditable
  /\ u \in Auditor
  /\ LoadFinding(w, u, "update", Assign(finding, [owner |-> owner]))

(* transition_finding: management answers, an auditor who does not own the *)
(* finding decides.                                                        *)
MayTransitionFinding(u, name) ==
  IF name \in {"respond", "request_closure"} THEN Management(u) ELSE u \in Auditor \ {finding.owner}

(* Closure is validated when no follow-up is open.                         *)
FollowUpIsOpen(name) == name = "validate" /\ OpenActions("audit_finding") # {}

TransitionFinding(w, u, name) ==
  /\ Permits(FINDING_FLOW, name, finding.status, TRUE)
  /\ MayTransitionFinding(u, name)
  /\ ~FollowUpIsOpen(name)
  /\ LoadFinding(w, u, name,
                 Assign(finding, [status |-> TargetOf(FINDING_FLOW, name),
                                  responded_by |-> IF name = "respond" THEN u ELSE finding.responded_by,
                                  validated_by |-> IF name = "validate" THEN u ELSE finding.validated_by]))

(* finding_dict: the steps a reader is offered, worked out a second time,  *)
(* without a look at the follow-up.                                        *)
OfferedFindingSteps(u) ==
  LET auditor == u \in Auditor /\ u # finding.owner
      management == u \notin Auditor /\ (u = finding.owner \/ u \in Approver)
      answers == {"respond", "request_closure"}
      allowed == {n \in DOMAIN FINDING_FLOW : finding.status \in FINDING_FLOW[n].sources}
  IN (IF management THEN allowed \cap answers ELSE {}) \cup (IF auditor THEN allowed \ answers ELSE {})

(* Only an accepted response raises the follow-up, for the owner loaded.   *)
FollowUp_Forgotten(q) == actions
FollowUp(q) ==
  IF q.name = "accept" THEN NewAction(q.by, q.new.owner, "audit_finding") ELSE actions

CommitFinding(w) ==
  LET q == req[w]
  IN /\ q.step = "finding"
     /\ Len(decisions) < MaxDecision
     /\ q.name = "accept" => RoomForAction
     /\ finding' = Flush(q.loaded, q.new, finding)
     /\ decisions' = IF q.name = "update" THEN decisions ELSE Append(decisions, q.name)
     /\ actions' = FollowUp(q)
     /\ Finish(w)

FindingsNext ==
  \/ \E u \in User :
       \/ \E o \in User : CreateFinding(u, o)
       \/ \E w \in Waiting :
            \/ \E o \in User \ {finding.owner} : UpdateFinding(w, u, o)
            \/ \E name \in DOMAIN FINDING_FLOW : TransitionFinding(w, u, name)
  \/ \E w \in Worker : CommitFinding(w)

FindingsTypeOK ==
  /\ finding \in [status : {"absent"} \cup {FINDING_FLOW[n].target : n \in DOMAIN FINDING_FLOW},
                  auditor : User \cup {Nobody}, owner : User \cup {Nobody},
                  responded_by : User \cup {Nobody}, validated_by : User \cup {Nobody}]
  /\ decisions \in Seq(DOMAIN FINDING_FLOW)

Times(name) == Cardinality({i \in DOMAIN decisions : decisions[i] = name})

(* What management agreed to is being done: a finding past its response    *)
(* has a follow-up action, whoever raced whom; and while requests are      *)
(* serial one response is accepted at most once, so it raises no second    *)
(* action (service.py:262).                                                *)
AgreementsAreFollowedUp ==
  /\ finding.status \in {"agreed", "closure_requested", "closed"} =>
       \E a \in Raised : actions[a].source = "audit_finding"
  /\ Serial => Times("accept") + Times("reject_response") <= Times("respond")

(* A closed finding was validated by an auditor who is not the owner it    *)
(* has: edits stop when it closes.  An owner changed beside the validation *)
(* breaks it, so it needs serial requests (service.py:229, 256).           *)
FindingsAreValidatedByOthers ==
  Serial /\ finding.status = "closed" =>
    /\ finding.validated_by \in Auditor \ {finding.owner}
    /\ finding.responded_by \notin Auditor \cup {Nobody}
=============================================================================
