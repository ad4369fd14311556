-------------------------------- MODULE Risks --------------------------------
(***************************************************************************)
(* Risk criteria and the register (app/modules/governance/service.py,      *)
(* 275-462): an organisation's risk matrices, of which one is active, and  *)
(* a risk that is rated on the matrix active when it was registered.       *)
(* Ratings are an append-only history beside the current one on the row.   *)
(*                                                                         *)
(* A matrix says three things, each in a column of its own: the sizes of   *)
(* its two scales, and the bands of scores, each [min, max, appetite].     *)
(* What somebody sends has the three; requests that race may leave a       *)
(* matrix with a scale of one and the bands of the other.                  *)
(***************************************************************************)
EXTENDS Integers, Sequences, Roles, Workflow, Requests

CONSTANTS
  RiskManager,     \* accounts with the risk_manager duty
  Criteria,        \* the matrices somebody may send
  MaxMatrix,       \* bound on the matrices
  MaxAssessment    \* bound on the ratings of the risk

ASSUME RisksAssumption ==
  /\ RiskManager \subseteq User
  /\ MaxMatrix \in Nat
  /\ MaxAssessment \in Nat
  /\ Criteria \subseteq [likelihood : Int, impact : Int,
                         bands : Seq([min : Int, max : Int, appetite : STRING])]

VARIABLES
  matrices,        \* rows of risk_matrices, by number
  risk,            \* a row of risks
  assessments      \* its rows of risk_assessments, in order

RISK_FLOW ==
  [close  |-> ReasonedTransition({"open"}, "closed"),
   reopen |-> ReasonedTransition({"closed"}, "open")]

(* _validate_matrix: scales of 2 to 10 levels, and bands that follow each  *)
(* other from a score of 1 to the highest once they are put in order, which *)
(* no order but that of their minima lets them do.                         *)
ValidMatrix(c) ==
  LET bands == c.bands
      last == Len(bands)
  IN /\ {c.likelihood, c.impact} \subseteq 2..10
     /\ bands # <<>>
     /\ \A i \in DOMAIN bands : bands[i].max >= bands[i].min
     /\ \E order \in [DOMAIN bands -> DOMAIN bands] :
          /\ bands[order[1]].min = 1 /\ bands[order[last]].max = c.likelihood * c.impact
          /\ \A i \in 1..(last - 1) : bands[order[i]].max + 1 = bands[order[i + 1]].min

(* band_for: the first band the score is in; 0 when none is.               *)
band_for(c, likelihood, impact) ==
  LET score == likelihood * impact
      bands == {i \in DOMAIN c.bands : c.bands[i].min <= score /\ score <= c.bands[i].max}
  IN IF bands = {} THEN 0 ELSE CHOOSE i \in bands : \A j \in bands : i <= j

KINDS == {"inherent", "residual"}
Unrated == [l |-> 0, i |-> 0]

NoMatrix == [exists |-> FALSE, active |-> FALSE, likelihood |-> 0, impact |-> 0, bands |-> <<>>]
NoRisk ==
  [status |-> "absent", owner |-> Nobody, matrix |-> 0,
   inherent_l |-> 0, inherent_i |-> 0, residual_l |-> 0, residual_i |-> 0]

RisksInit ==
  /\ matrices = [m \in 1..MaxMatrix |-> NoMatrix]
  /\ risk = NoRisk
  /\ assessments = <<>>

Saved == {m \in DOMAIN matrices : matrices[m].exists}
Active == {m \in Saved : matrices[m].active}

(* Risks are rated on a matrix once one is registered with it.             *)
InUse_Never(m) == FALSE
InUse(m) == risk.matrix = m

LoadRisks(w, request) == Begin(w, request) /\ UNCHANGED <<matrices, risk, assessments>>
-----------------------------------------------------------------------------
(* save_matrix: a new one, or one that no risk is rated on.                *)
CreateMatrix(u, c) ==
  LET m == Cardinality(Saved) + 1
  IN /\ Free
     /\ u \in RiskManager
     /\ ValidMatrix(c)
     /\ m \in DOMAIN matrices
     /\ matrices' = [matrices EXCEPT ![m] = [exists |-> TRUE, active |-> FALSE, likelihood |-> c.likelihood,
                                              impact |-> c.impact, bands |-> c.bands]]
     /\ UNCHANGED <<risk, assessments, req>>

EditMatrix(w, u, m, c) ==
  /\ u \in RiskManager
  /\ ValidMatrix(c)
  /\ ~InUse(m)
  /\ LoadRisks(w, [step |-> "matrix", rows |-> {m}, loaded |-> matrices,
                   new |-> [matrices EXCEPT ![m] = Assign(@, c)]])

(* activate_matrix: the others that are active now are switched off.       *)
ActivateMatrix(w, u, m) ==
  /\ u \in RiskManager
  /\ LoadRisks(w, [step |-> "matrix", rows |-> Active \cup {m}, loaded |-> matrices,
                   new |-> [k \in DOMAIN matrices |->
                             IF k \in Active \cup {m} THEN [matrices[k] EXCEPT !.active = (k = m)]
                             ELSE matrices[k]]])

CommitMatrix(w) ==
  LET q == req[w]
  IN /\ q.step = "matrix"
     /\ matrices' = [m \in DOMAIN matrices |->
                      IF m \in q.rows THEN Flush(q.loaded[m], q.new[m], matrices[m]) ELSE matrices[m]]
     /\ Finish(w)
     /\ UNCHANGED <<risk, assessments>>

(* create_risk, rated or not: on the active matrix it finds.               *)
CreateRisk(w, u, owner) ==
  /\ risk.status = "absent"
  /\ \E m \in Active :
       /\ \A k \in Active : m <= k
       /\ LoadRisks(w, [step |-> "register", new |-> Assign(NoRisk, [status |-> "open", owner |-> owner,
                                                                     matrix |-> m])])

CommitRegister(w) ==
  LET q == req[w]
  IN /\ q.step = "register"
     /\ risk.status = "absent"
     /\ risk' = q.new
     /\ Finish(w)
     /\ UNCHANGED <<matrices, assessments>>

MayEditRisk(u) == u = risk.owner \/ u \in RiskManager \/ u \in Reviewer

(* assess: within the scales, kept with its score and its band.            *)
OnScale(m, likelihood, impact) ==
  likelihood \in 1..matrices[m].likelihood /\ impact \in 1..matrices[m].impact

(* The columns of the row that hold the rating of a kind.                  *)
Columns(kind, l, i) ==
  IF kind = "inherent" THEN [inherent_l |-> l, inherent_i |-> i] ELSE [residual_l |-> l, residual_i |-> i]

Assess(w, u, kind, l, i) ==
  /\ risk.status = "open"
  /\ MayEditRisk(u)
  /\ OnScale(risk.matrix, l, i)
  /\ Len(assessments) < MaxAssessment
  /\ LoadRisks(w, [step |-> "assess", loaded |-> risk, new |-> Assign(risk, Columns(kind, l, i)),
                   row |-> [kind |-> kind, l |-> l, i |-> i, band |-> band_for(matrices[risk.matrix], l, i)]])

AppendRating(rows, q) == IF q.step = "assess" THEN Append(rows, q.row) ELSE rows

CommitRisk(w) ==
  LET q == req[w]
  IN /\ q.step \in {"assess", "risk"}
     /\ q.step = "assess" => Len(assessments) < MaxAssessment
     /\ risk' = Flush(q.loaded, q.new, risk)
     /\ assessments' = AppendRating(assessments, q)
     /\ Finish(w)
     /\ UNCHANGED matrices

(* update_risk: of what may be edited, the owner.                          *)
UpdateRisk(w, u, owner) ==
  /\ risk.status # "absent"
  /\ MayEditRisk(u)
  /\ LoadRisks(w, [step |-> "risk", loaded |-> risk, new |-> Assign(risk, [owner |-> owner])])

TransitionRisk(w, u, name) ==
  /\ Permits(RISK_FLOW, name, risk.status, TRUE)
  /\ u \in RiskManager \cup Approver
  /\ LoadRisks(w, [step |-> "risk", loaded |-> risk,
                   new |-> Assign(risk, [status |-> TargetOf(RISK_FLOW, name)])])

RisksNext ==
  \/ \E u \in User :
       \/ \E c \in Criteria : CreateMatrix(u, c)
       \/ \E w \in Waiting :
            \/ \E m \in Saved, c \in Criteria : EditMatrix(w, u, m, c)
            \/ \E m \in Saved : ActivateMatrix(w, u, m)
            \/ \E o \in User : CreateRisk(w, u, o)
            \/ \E kind \in KINDS, l, i \in 1..10 : Assess(w, u, kind, l, i)
            \/ \E o \in User \ {risk.owner} : UpdateRisk(w, u, o)
            \/ \E name \in DOMAIN RISK_FLOW : TransitionRisk(w, u, name)
  \/ \E w \in Worker : CommitMatrix(w) \/ CommitRegister(w) \/ CommitRisk(w)

RisksTypeOK ==
  /\ \A m \in DOMAIN matrices :
       matrices[m] = NoMatrix \/ \E c \in Criteria : matrices[m].bands = c.bands
  /\ risk.status \in {"absent", "open", "closed"} /\ risk.matrix \in 0..MaxMatrix
  /\ \A n \in DOMAIN assessments : assessments[n].kind \in KINDS
-----------------------------------------------------------------------------
(* Every rating is in a band of the matrix the risk is on, and the band    *)
(* kept with it is the one that matrix gives today: bands leave no gap,    *)
(* and a matrix is not edited once a risk is rated on it (service.py:346). *)
(* It needs serial requests: a risk registered while the matrix is edited  *)
(* has bands that were, and two edits at once leave the scale of one with  *)
(* the bands of the other, so that a rating may be in no band at all       *)
(* (models.py:82).                                                         *)
RatingsMatchTheMatrix ==
  Serial =>
    \A n \in DOMAIN assessments :
      LET a == assessments[n]
      IN a.band # 0 /\ a.band = band_for(matrices[risk.matrix], a.l, a.i)

LastOf(kind) == {n \in DOMAIN assessments : assessments[n].kind = kind
                   /\ \A k \in n + 1..Len(assessments) : assessments[k].kind # kind}

(* The rating on the row is the last one of the history, and one matrix at *)
(* most is active: two requests at once mix two ratings into one nobody    *)
(* gave, or activate two matrices, so both need serial requests            *)
(* (service.py:358, 449).                                                  *)
RiskRowIsItsLastRating ==
  Serial =>
    /\ Cardinality(Active) <= 1
    /\ \A kind \in KINDS :
         LET last == LastOf(kind)
             row == [c \in DOMAIN Columns(kind, 0, 0) |-> risk[c]]
         IN IF last = {} THEN row = Columns(kind, 0, 0)
            ELSE \E n \in last : row = Columns(kind, assessments[n].l, assessments[n].i)
=============================================================================
