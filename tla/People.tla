------------------------------- MODULE People -------------------------------
(***************************************************************************)
(* Performance contracts and staff appraisals (app/modules/people).  HR    *)
(* officers draw up, the people named on the record sign and rate, and an  *)
(* HR officer who is not named on it decides an appeal.  A contract is     *)
(* rated by the scoring engine on the scheme approved at that moment;      *)
(* schemes are signed off meanwhile (module Scorecard).                    *)
(*                                                                         *)
(* A request loads a row; what it changed is committed later.              *)
(***************************************************************************)
EXTENDS Roles, Workflow, Requests, ScoringEngine

CONSTANTS
  Hr,              \* accounts with the hr_officer duty that are not read-only
  SchemeOf,        \* the scoring schemes, by number
  ItemWeights,     \* the weightings an HR officer may give the items of a contract
  Published,       \* the values and targets the items may have when it is evaluated
  ObjectiveWeight, \* the weight of each objective of an appraisal
  Marks,           \* the marks people give an objective or an appraisal
  MaxTrail         \* bound on the audit trail of the appraisal

ASSUME PeopleAssumption ==
  /\ Hr \subseteq User
  /\ ItemWeights # {} /\ Published # {}
  /\ MaxTrail \in Nat

(* Approved schemes are validated (scorecard/service.py:101): a gate above *)
(* nothing, bands that have ratings.  Items have a weight and a value each.*)
ASSUME SchemeAssumption ==
  \A s \in DOMAIN SchemeOf :
    /\ SchemeOf[s].gate \in 1..100
    /\ SchemeOf[s].bands \in Seq([rating : Int, min : Int, max : Int \cup {None}]) \ {<<>>}

ASSUME ItemAssumption ==
  \A weights \in ItemWeights :
    /\ weights \in Seq(Int)
    /\ \A values \in Published : \A i \in DOMAIN weights : "weight" \in DOMAIN values[i]

VARIABLES
  policies,        \* per module, the policy confirmations that are active
  approvedScheme,  \* the latest approved scheme, None before the first
  contract,        \* the row of the contract with its items and evaluation
  appraisal,       \* the row of the appraisal
  trail            \* the audit events of the appraisal: what it was rated before and after

MODULES == {"performance_contracts", "staff_appraisal"}

CONTRACT_FLOW ==
  [sign        |-> Transition({"draft"}, "holder_signed"),
   countersign |-> Transition({"holder_signed"}, "signed"),
   evaluate    |-> Transition({"signed"}, "evaluated"),
   accept      |-> Transition({"evaluated"}, "closed"),
   appeal      |-> ReasonedTransition({"evaluated"}, "under_appeal"),
   decide      |-> ReasonedTransition({"under_appeal"}, "closed")]

APPRAISAL_FLOW ==
  [agree       |-> Transition({"draft"}, "objectives_agreed"),
   self_assess |-> Transition({"objectives_agreed"}, "self_assessed"),
   appraise    |-> Transition({"self_assessed"}, "appraised"),
   acknowledge |-> Transition({"appraised"}, "closed"),
   appeal      |-> ReasonedTransition({"appraised"}, "appealed"),
   decide      |-> ReasonedTransition({"appealed"}, "closed"),
   correct     |-> ReasonedTransition({"closed"}, "closed")]

NoContract ==
  [status |-> "absent", holder |-> Nobody, supervisor |-> Nobody, weights |-> None,
   scheme |-> None, evaluated |-> None, rating |-> None, label |-> None]

NoAppraisal ==
  [status |-> "absent", employee |-> Nobody, appraiser |-> Nobody,
   self |-> None, assessed |-> None, overall |-> None]

PeopleInit ==
  /\ policies = [m \in MODULES |-> {}]
  /\ approvedScheme = None
  /\ contract = NoContract
  /\ appraisal = NoAppraisal
  /\ trail = <<>>
  /\ RequestsInit
-----------------------------------------------------------------------------
(* gate_status: the module is in use once a policy is confirmed for it.    *)
Gate(module) == policies[module] # {}

(* confirm_policy: the confirmations it finds are replaced by its own.     *)
ConfirmPolicy(w, u, module) ==
  /\ u \in Hr
  /\ Cardinality(policies[module]) < 2
  /\ Begin(w, [step |-> "policy", module |-> module, old |-> policies[module],
               id |-> Cardinality(UNION {policies[m] : m \in MODULES}) + 1])
  /\ UNCHANGED <<policies, approvedScheme, contract, appraisal, trail>>

CommitPolicy(w) ==
  LET q == req[w]
  IN /\ q.step = "policy"
     /\ policies' = [policies EXCEPT ![q.module] = (@ \ q.old) \cup {q.id}]
     /\ Finish(w)
     /\ UNCHANGED <<approvedScheme, contract, appraisal, trail>>

(* transition_scheme: a strategy manager signs off a scheme, or retires    *)
(* the latest one, which leaves another that is approved or none.          *)
TransitionScheme(s) ==
  /\ s # approvedScheme
  /\ approvedScheme' = s
  /\ UNCHANGED <<policies, contract, appraisal, trail, req>>
-----------------------------------------------------------------------------
(* create_contract: the weights of the items add up to 100.                *)
WeightsAddUp(weights) == weights # <<>> /\ Total(weights, DOMAIN weights) = 100

CreateContract(u, holder, supervisor, weights) ==
  /\ Free
  /\ Gate("performance_contracts")
  /\ u \in Hr
  /\ holder # supervisor
  /\ WeightsAddUp(weights)
  /\ contract.status = "absent"
  /\ contract' = Assign(NoContract, [status |-> "draft", holder |-> holder,
                                     supervisor |-> supervisor, weights |-> weights])
  /\ UNCHANGED <<policies, approvedScheme, appraisal, trail, req>>

(* _evaluate: the items rolled up on the latest approved scheme.           *)
Evaluation(weights, values, scheme) ==
  rollup([i \in DOMAIN weights |->
            ScoredIndicator(i, [values[i] EXCEPT !.weight = weights[i]], scheme, <<>>)], scheme)

Evaluate(row, values) ==
  LET scheme == SchemeOf[approvedScheme]
      rating == Evaluation(row.weights, values, scheme).rating
  IN [row EXCEPT !.scheme = approvedScheme, !.evaluated = rating, !.rating = rating,
                 !.label = band_for_rating(rating, scheme)]

(* _evaluation_scheme: the scale an appeal is decided on.                  *)
EvaluationScheme_Current(row) == SchemeOf[IF approvedScheme = None THEN row.scheme ELSE approvedScheme]
EvaluationScheme(row) == SchemeOf[row.scheme]

Adjustable(row, rating) ==
  LET Ratings == {EvaluationScheme(row).bands[i].rating : i \in DOMAIN EvaluationScheme(row).bands}
  IN rating \in Min(Ratings)..Max(Ratings)

Adjust(row, rating) ==
  [row EXCEPT !.rating = rating, !.label = band_for_rating(rating, EvaluationScheme(row))]

MayTransitionContract(u, name) ==
  CASE name \in {"sign", "accept", "appeal"} -> u = contract.holder
    [] name \in {"countersign", "evaluate"} -> u = contract.supervisor
    [] name = "decide" -> u \in Hr \ {contract.supervisor, contract.holder}

(* transition_contract: "new" is the row with what the step itself writes. *)
TransitionContract(w, u, name, new) ==
  /\ Gate("performance_contracts")
  /\ Permits(CONTRACT_FLOW, name, contract.status, TRUE)
  /\ MayTransitionContract(u, name)
  /\ Begin(w, [step |-> "contract", name |-> name, loaded |-> contract,
               new |-> [new EXCEPT !.status = TargetOf(CONTRACT_FLOW, name)]])
  /\ UNCHANGED <<policies, approvedScheme, contract, appraisal, trail>>

SignAcceptOrAppeal(w, u, name) ==
  name \in {"sign", "countersign", "accept", "appeal"} /\ TransitionContract(w, u, name, contract)

(* _evaluate finds no scheme to evaluate with.                             *)
SchemeIsMissing(name) == name = "evaluate" /\ approvedScheme = None

EvaluateContract(w, u, values) ==
  ~SchemeIsMissing("evaluate") /\ TransitionContract(w, u, "evaluate", Evaluate(contract, values))

DecideContract(w, u) ==
  \/ TransitionContract(w, u, "decide", contract)
  \/ \E rating \in Marks :
       /\ contract.scheme # None
       /\ Adjustable(contract, rating)
       /\ TransitionContract(w, u, "decide", Adjust(contract, rating))

CommitContract(w) ==
  LET q == req[w]
  IN /\ q.step = "contract"
     /\ contract' = Flush(q.loaded, q.new, contract)
     /\ Finish(w)
     /\ UNCHANGED <<policies, approvedScheme, appraisal, trail>>

(* contract_dict: the steps a reader is offered.                           *)
OfferedContractSteps(u) ==
  {t \in {n \in DOMAIN CONTRACT_FLOW : contract.status \in CONTRACT_FLOW[n].sources} :
     \/ t \in {"sign", "accept", "appeal"} /\ u = contract.holder
     \/ t \in {"countersign", "evaluate"} /\ u = contract.supervisor
     \/ t = "decide" /\ u \in Hr /\ u \notin {contract.holder, contract.supervisor}}
-----------------------------------------------------------------------------
(* create_appraisal: by an HR officer or the appraiser.                    *)
CreateAppraisal(u, employee, appraiser) ==
  /\ Free
  /\ Gate("staff_appraisal")
  /\ u \in Hr \cup {appraiser}
  /\ employee # appraiser
  /\ WeightsAddUp(ObjectiveWeight)
  /\ appraisal.status = "absent"
  /\ appraisal' = Assign(NoAppraisal, [status |-> "draft", employee |-> employee, appraiser |-> appraiser])
  /\ UNCHANGED <<policies, approvedScheme, contract, trail, req>>

(* The overall rating the appraiser's marks come to, in hundredths.        *)
Overall(marks) ==
  Total([o \in DOMAIN marks |-> marks[o] * ObjectiveWeight[o]], DOMAIN marks) \div 100

MayTransitionAppraisal(u, name) ==
  CASE name \in {"agree", "self_assess", "acknowledge", "appeal"} -> u = appraisal.employee
    [] name = "appraise" -> u = appraisal.appraiser
    [] name \in {"decide", "correct"} -> u \in Hr \ {appraisal.appraiser, appraisal.employee}

(* What the audit event of a step says the rating was before it.           *)
RatingBefore(loaded, new) == loaded.overall

TransitionAppraisal(w, u, name, new) ==
  /\ Gate("staff_appraisal")
  /\ Permits(APPRAISAL_FLOW, name, appraisal.status, TRUE)
  /\ MayTransitionAppraisal(u, name)
  /\ Begin(w, [step |-> "appraisal", name |-> name, by |-> u, loaded |-> appraisal,
               new |-> [new EXCEPT !.status = TargetOf(APPRAISAL_FLOW, name)]])
  /\ UNCHANGED <<policies, approvedScheme, contract, appraisal, trail>>

AgreeAcknowledgeOrAppeal(w, u, name) ==
  name \in {"agree", "acknowledge", "appeal"} /\ TransitionAppraisal(w, u, name, appraisal)

SelfAssess(w, u, marks) ==
  TransitionAppraisal(w, u, "self_assess", [appraisal EXCEPT !.self = marks])

Appraise(w, u, marks) ==
  TransitionAppraisal(w, u, "appraise",
                      [appraisal EXCEPT !.assessed = marks, !.overall = Overall(marks)])

(* An appeal is decided, or a closed appraisal corrected, with a new       *)
(* overall rating or without one.                                          *)
DecideOrCorrect(w, u, name) ==
  /\ name \in {"decide", "correct"}
  /\ \/ TransitionAppraisal(w, u, name, appraisal)
     \/ \E mark \in Marks \cap 100..500 :
          TransitionAppraisal(w, u, name, [appraisal EXCEPT !.overall = mark])

CommitAppraisal(w) ==
  LET q == req[w]
  IN /\ q.step = "appraisal"
     /\ Len(trail) < MaxTrail
     /\ appraisal' = Flush(q.loaded, q.new, appraisal)
     /\ trail' = Append(trail, [name |-> q.name, by |-> q.by,
                                before |-> RatingBefore(q.loaded, q.new), after |-> q.new.overall])
     /\ Finish(w)
     /\ UNCHANGED <<policies, approvedScheme, contract>>

(* appraisal_dict: the steps a reader is offered.                          *)
OfferedAppraisalSteps_NamedOfficer(u) ==
  {t \in {n \in DOMAIN APPRAISAL_FLOW : appraisal.status \in APPRAISAL_FLOW[n].sources} :
     \/ t \in {"agree", "self_assess", "acknowledge", "appeal"} /\ u = appraisal.employee
     \/ t = "appraise" /\ u = appraisal.appraiser
     \/ t \in {"decide", "correct"} /\ u \in Hr}
OfferedAppraisalSteps(u) ==
  {t \in {n \in DOMAIN APPRAISAL_FLOW : appraisal.status \in APPRAISAL_FLOW[n].sources} :
     \/ t \in {"agree", "self_assess", "acknowledge", "appeal"} /\ u = appraisal.employee
     \/ t = "appraise" /\ u = appraisal.appraiser
     \/ t \in {"decide", "correct"} /\ u \in Hr /\ u \notin {appraisal.employee, appraisal.appraiser}}
-----------------------------------------------------------------------------
MarkSheets == [DOMAIN ObjectiveWeight -> Marks \cap 100..500]

PeopleNext ==
  \/ \E s \in DOMAIN SchemeOf \cup {None} : TransitionScheme(s)
  \/ \E u, v \in User :
       \/ \E h \in User, weights \in ItemWeights : CreateContract(u, h, v, weights)
       \/ \E e \in User : CreateAppraisal(u, e, v)
  \/ \E w \in Waiting, u \in User :
       \/ \E module \in MODULES : ConfirmPolicy(w, u, module)
       \/ \E name \in DOMAIN CONTRACT_FLOW : SignAcceptOrAppeal(w, u, name)
       \/ \E values \in Published : EvaluateContract(w, u, values)
       \/ DecideContract(w, u)
       \/ \E name \in DOMAIN APPRAISAL_FLOW : AgreeAcknowledgeOrAppeal(w, u, name)
       \/ \E marks \in MarkSheets : SelfAssess(w, u, marks) \/ Appraise(w, u, marks)
       \/ \E name \in DOMAIN APPRAISAL_FLOW : DecideOrCorrect(w, u, name)
  \/ \E w \in Worker : CommitPolicy(w) \/ CommitContract(w) \/ CommitAppraisal(w)

(* Whatever schemes are signed off meanwhile, the rating a contract shows  *)
(* is on the scale it was evaluated on, and its label is the one that      *)
(* scheme gives the rating, also after an appeal changed it.  Decisions    *)
(* that race write their columns one by one and may mix, so requests are   *)
(* serial here (service.py:224).  A module that is in use stays in use     *)
(* however confirmations race (service.py:123).                            *)
RatingsAreOnTheirScheme ==
  /\ Serial /\ contract.scheme # None =>
       LET bands == SchemeOf[contract.scheme].bands
           Ratings == {bands[i].rating : i \in DOMAIN bands}
       IN /\ contract.label = band_for_rating(contract.rating, SchemeOf[contract.scheme])
          /\ contract.rating # None =>
               \E lo, hi \in Ratings : lo <= contract.rating /\ contract.rating <= hi
  /\ contract.status # "absent" => Gate("performance_contracts")
  /\ appraisal.status # "absent" => Gate("staff_appraisal")

(* The history of an appraisal explains its rating: each event takes over  *)
(* where the one before it ended, the last one ends at the rating the row  *)
(* shows, and only the appraiser, or an HR officer who is neither party,   *)
(* moved it (service.py:320-343).  Racing corrections fork the history.    *)
CorrectionsAreTraced ==
  Serial =>
  /\ \A i \in 1..(Len(trail) - 1) : trail[i].after = trail[i + 1].before
  /\ trail # <<>> => trail[1].before = None /\ appraisal.overall = trail[Len(trail)].after
  /\ \A i \in DOMAIN trail :
       trail[i].before # trail[i].after =>
         IF trail[i].name = "appraise" THEN trail[i].by = appraisal.appraiser
         ELSE trail[i].by \in Hr \ {appraisal.appraiser, appraisal.employee}

(* All the guards of transition_contract and transition_appraisal.         *)
TakesContractStep(u, name) ==
  /\ Gate("performance_contracts")
  /\ Permits(CONTRACT_FLOW, name, contract.status, TRUE)
  /\ MayTransitionContract(u, name)
  /\ ~SchemeIsMissing(name)

TakesAppraisalStep(u, name) ==
  /\ Gate("staff_appraisal")
  /\ Permits(APPRAISAL_FLOW, name, appraisal.status, TRUE)
  /\ MayTransitionAppraisal(u, name)

(* No step the server would take is withheld from the one who may take it, *)
(* and one it would refuse is offered in a single case: a supervisor is    *)
(* offered to evaluate a contract while no scoring scheme is approved,     *)
(* which _evaluate answers with a conflict (service.py:175, 261).  The     *)
(* offers do not look at the policy gate; it is open for every record      *)
(* there is, because policies are replaced and never withdrawn (109, 123,  *)
(* 349), however requests race.                                            *)
PeopleOffersMatchTheGuards ==
  /\ \A u \in User, name \in DOMAIN CONTRACT_FLOW :
       name \in OfferedContractSteps(u) <=> TakesContractStep(u, name) \/
         /\ SchemeIsMissing(name)
         /\ contract.status = "signed"
         /\ u = contract.supervisor
  /\ \A u \in User, name \in DOMAIN APPRAISAL_FLOW :
       name \in OfferedAppraisalSteps(u) <=> TakesAppraisalStep(u, name)
=============================================================================
