----------------------------- MODULE Governance -----------------------------
(***************************************************************************)
(* The governance module of the application: findings and resolutions,     *)
(* which raise actions in the shared tracker, and the risk register, served *)
(* by the same workers (app/modules/governance/router.py).                 *)
(***************************************************************************)
EXTENDS TLC, Findings, Meetings, Risks

actionVars == <<actions>>
findingVars == <<finding, decisions>>
meetingVars == <<meeting, resolutions>>
riskVars == <<matrices, risk, assessments>>
vars == <<actions, finding, decisions, meeting, resolutions, matrices, risk, assessments, req>>

Init == ActionsInit /\ FindingsInit /\ MeetingsInit /\ RisksInit /\ RequestsInit

Next ==
  \/ ActionsNext /\ UNCHANGED <<findingVars, meetingVars, riskVars>>
  \/ FindingsNext /\ UNCHANGED <<meetingVars, riskVars>>
  \/ MeetingsNext /\ UNCHANGED <<findingVars, riskVars>>
  \/ RisksNext /\ UNCHANGED <<actionVars, findingVars, meetingVars>>

Spec == Init /\ [][Next]_vars

TypeOK == ActionsTypeOK /\ FindingsTypeOK /\ MeetingsTypeOK /\ RisksTypeOK

(* No step the server would take is withheld from the one who may take it, *)
(* and one it would refuse is offered in a single case: an auditor is      *)
(* offered to validate a finding whose follow-up is still open, which      *)
(* transition_finding answers with a conflict (service.py:255, 279).  The  *)
(* lists sent to the client (action_dict, finding_dict, _meeting_dict) and *)
(* the guards of the endpoints are written separately (actions.py:197,     *)
(* router.py:75).                                                          *)
OffersMatchTheGuards ==
  \A u \in User :
    /\ \A a \in Raised :
         OfferedSteps(u, a) =
           {name \in DOMAIN WORKFLOW : Permits(WORKFLOW, name, actions[a].status, TRUE) /\ MayTransition(u, a, name)}
    /\ LET taken == {name \in DOMAIN FINDING_FLOW :
                       /\ Permits(FINDING_FLOW, name, finding.status, TRUE)
                       /\ MayTransitionFinding(u, name)
                       /\ ~FollowUpIsOpen(name)}
       IN /\ taken \subseteq OfferedFindingSteps(u)
          /\ \A name \in OfferedFindingSteps(u) \ taken : FollowUpIsOpen(name)
    /\ \A n \in Numbered :
         OfferedResolutionSteps(u, n) =
           {name \in DOMAIN RESOLUTION_FLOW :
              Permits(RESOLUTION_FLOW, name, resolutions[n].status, TRUE) /\ MayMove(u, n, name)}

(* Follow-up that was promised is in the tracker: of an agreed finding and *)
(* of every resolution that names an owner, however requests race          *)
(* (service.py:142, 262).                                                  *)
FollowUpIsKept == AgreementsAreFollowedUp /\ ResolutionsHaveTheirAction

(* Work is not signed off by the one who answers for it: neither a closed  *)
(* action nor a closed finding (actions.py:139, service.py:256).           *)
WorkIsVerifiedByOthers == ClosedActionsWereVerified /\ FindingsAreValidatedByOthers

(* A risk shows the last rating of its history, in the band its matrix     *)
(* gives that rating today, while requests are serial (service.py:346,     *)
(* 358, 449).                                                              *)
RatingsAreTraced == RatingsMatchTheMatrix /\ RiskRowIsItsLastRating
-----------------------------------------------------------------------------
(* The instance of the run: two complete matrices, of different sizes and  *)
(* with their bands in either order, and one with a gap.                   *)
MCCriteria ==
  {[likelihood |-> 2, impact |-> 2,
    bands |-> <<[min |-> 1, max |-> 2, appetite |-> "within"], [min |-> 3, max |-> 4, appetite |-> "outside"]>>],
   [likelihood |-> 2, impact |-> 3,
    bands |-> <<[min |-> 4, max |-> 6, appetite |-> "outside"], [min |-> 1, max |-> 3, appetite |-> "within"]>>],
   [likelihood |-> 2, impact |-> 2,
    bands |-> <<[min |-> 1, max |-> 1, appetite |-> "within"], [min |-> 3, max |-> 4, appetite |-> "outside"]>>]}

(* The records interact through the action tracker only, so one run looks  *)
(* at findings, meetings, risks and actions of no record one at a time.    *)
Areas ==
  {area \in {<<"finding", finding.status # "absent">>, <<"meeting", meeting.status # "absent">>,
             <<"risk", Saved # {}>>, <<"action", \E a \in Raised : actions[a].source = "none">>} : area[2]}

(* What is claimed of racing requests takes few steps to go wrong, so the  *)
(* histories are shorter when two workers serve, and nothing is claimed of *)
(* the risks then.  What becomes of the action of a resolution is left to  *)
(* the area of the actions, and while two serve so is who owns it.         *)
Bounds ==
  /\ Cardinality(Areas) <= 1
  /\ Cardinality({a \in Raised : actions[a].source = "none"}) <= 1
  /\ \A a \in Raised : actions[a].source = "resolution" => actions[a].status = "open"
  /\ Serial \/ /\ Len(decisions) <= 2 /\ Saved = {}
               /\ \A n \in Numbered : resolutions[n].status = "open"
               /\ \A a \in Raised : actions[a].source # "none"
               /\ finding.owner \notin Auditor
               /\ meeting.status # "absent" => \A w \in Worker : req[w].step # "action"

Symmetry == Permutations(Worker)
=============================================================================
