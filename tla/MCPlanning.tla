----------------------------- MODULE MCPlanning -----------------------------
(***************************************************************************)
(* Strategy and people: plans and their evaluations, performance contracts *)
(* and staff appraisals, served by the same workers.                       *)
(***************************************************************************)
EXTENDS People, Plans

peopleVars == <<policies, approvedScheme, contract, appraisal, trail>>
planVars == <<plan, levels, nodes, indicator>>
evaluationVars == <<evaluation, responses, actions>>
planningVars == <<peopleVars, planVars, evaluationVars, req>>

PlanningInit == PeopleInit /\ PlansInit /\ EvaluationsInit /\ ActionsInit

PlanningNext ==
  \/ PeopleNext /\ UNCHANGED <<planVars, evaluationVars>>
  \/ PlansNext /\ UNCHANGED <<peopleVars, evaluationVars>>
  \/ EvaluationsNext /\ UNCHANGED <<peopleVars, planVars>>

PlanningSpec == PlanningInit /\ [][PlanningNext]_planningVars

(* A rating can be explained afterwards: that of a contract on the scheme  *)
(* it was evaluated on, that of an appraisal from its history              *)
(* (service.py:224, 320).                                                  *)
AssessmentsAreTraced == RatingsAreOnTheirScheme /\ CorrectionsAreTraced

-----------------------------------------------------------------------------

CONSTANTS mia, rita, hal

Band(r, min, max) == [rating |-> r, min |-> min, max |-> max]

(* Two schemes whose scales differ, and run in opposite directions.        *)
MCSchemeOf ==
  <<[cap |-> 130, zero |-> "unscored", lower |-> "linear_deviation", policy |-> "coverage_gate", gate |-> 80,
     order |-> "higher_is_better", bands |-> <<Band(100, 0, 60), Band(200, 60, None)>>],
    [cap |-> 100, zero |-> "binary", lower |-> "ratio_inverse", policy |-> "count_as_zero", gate |-> 80,
     order |-> "lower_is_better", bands |-> <<Band(300, 0, 90), Band(100, 90, None)>>]>>

Measured(actual) ==
  [weight |-> None, polarity |-> "higher", state |-> "measured", actual |-> actual,
   aim |-> [target |-> 100, lower |-> None, upper |-> None]]
MCPublished == {<<Measured(50), Measured(100)>>, <<Measured(100), Measured(None)>>}
MCItemWeights == {<<60, 40>>, <<60, 30>>}
MCObjectiveWeight == <<60, 40>>

(* The records do not depend on one another: one kind at a time.           *)
PlanningAreas ==
  {area \in {<<"contract", contract.status # "absent" \/ Gate("performance_contracts") \/ approvedScheme # None>>,
             <<"appraisal", appraisal.status # "absent" \/ Gate("staff_appraisal")>>,
             <<"plan", plan.status # "absent">>,
             <<"evaluation", evaluation.status # "absent">>} : area[2]}

(* Racing requests: short histories, and in the plan the two trees only.   *)
PlanningBounds ==
  /\ Cardinality(PlanningAreas) <= 1
  /\ contract.holder \in {Nobody, mia} /\ appraisal.employee \in {Nobody, mia}
  /\ contract.status # "absent" \/ appraisal.status # "absent" => \A m \in MODULES : policies[m] \subseteq {1}
  /\ \A n \in Made : nodes[n].code = n
  /\ indicator.status # "absent" => Cardinality(Made) <= 1 /\ levels = NodeType
  /\ Cardinality(Made) = 3 =>
       levels = NodeType /\ plan.status = "draft" /\ \A n \in Made : ~nodes[n].retired
  /\ Serial \/ /\ Len(trail) <= 2
               /\ Cardinality(Made) <= 2
               /\ levels \in {{}, NodeType} \/ Made = {}
               /\ plan.status \in {"absent", "draft"} \/ Made = {}
               /\ \A n \in Made : nodes[n].unit = "org" /\ ~nodes[n].retired
               /\ indicator.version <= 1 /\ (indicator.status = "absent" \/ Made = {})

PlanningSymmetry == Permutations(Worker)
=============================================================================
