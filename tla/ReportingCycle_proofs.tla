----------------------- MODULE ReportingCycle_proofs -----------------------
(***************************************************************************)
(* Proofs about ReportingCycle, for any users, assignments, periods and    *)
(* number of racing requests: CycleInvariant is inductive, hence nobody    *)
(* decides on the revision they submitted and only approved figures are    *)
(* published; and the cycle implements maker-checker publication.          *)
(*                                                                         *)
(* And of requests served one after the other: the trail of an assignment  *)
(* bears out what its row says, and a locked period takes no decision.     *)
(***************************************************************************)
EXTENDS ReportingCycle, Requests_proofs

(* Two submissions of one assignment never share a revision and leave no   *)
(* gap, and current_update_id names the latest: the count read before the  *)
(* insert and the unique constraint see to it together (submit_update).    *)
CurrentIsLatest == \A a \in Assignment : DOMAIN updates[a] = 1..asg[a].current

(* A submitted revision is history: no later submission, retry or decision *)
(* changes or removes what somebody submitted.                             *)
SubmissionsAreImmutable ==
  [][\A a \in Assignment : \A n \in DOMAIN updates[a] :
       n \in DOMAIN updates'[a] /\ updates'[a][n] = updates[a][n]]_updates

(* What a request in flight has checked is true when it commits, because   *)
(* it is about a submission, and submissions do not change: a decision     *)
(* names a submitted revision with its figure, a verifier or approver is   *)
(* not its submitter, and a counted revision is at most one ahead.         *)
InFlightIsTrue ==
  \A w \in Worker : req[w].step \in {"loaded", "ready"} =>
    LET r == req[w] IN
    /\ Exists(r.on)
    /\ r.op \in Decision =>
         /\ r.rev \in DOMAIN updates[r.on]
         /\ updates[r.on][r.rev].figure = r.figure
    /\ r.op \in {"verify", "approve"} => updates[r.on][r.rev].by # r.user
    /\ r.op = "approve" => r.figure # "pending"
    /\ r.op = "submit" /\ r.step = "ready" => r.rev \in 1..(asg[r.on].current + 1)

(* Every event is about a submission; an assignment that has been acted on *)
(* has one, and one that is not generated yet has none.                    *)
EventsHaveSubmissions ==
  \A a \in Assignment :
    /\ asg[a].status \notin {"absent", "not_submitted"} => asg[a].current # 0
    /\ asg[a].status = "absent" => asg[a].current = 0
    /\ \A i \in 1..Len(trail[a]) : trail[a][i].rev \in DOMAIN updates[a]

(* The inductive invariant.                                                *)
CycleInvariant ==
  /\ TypeOK
  /\ CurrentIsLatest
  /\ InFlightIsTrue
  /\ EventsHaveSubmissions
  /\ FourEyes
  /\ PublishedWasApproved

-----------------------------------------------------------------------------
(* The count submit_update takes is the number of the latest revision.     *)
LEMMA CountIsCurrent ==
  ASSUME TypeOK, CurrentIsLatest, NEW a \in Assignment
  PROVE  Cardinality(DOMAIN updates[a]) = asg[a].current
<1>1. asg[a].current \in Nat
  BY DEF TypeOK
<1>2. Cardinality(1..asg[a].current) = asg[a].current
  BY <1>1, FS_Interval
<1> QED
  BY <1>2 DEF CurrentIsLatest

(* A request that has reached a step other than the first is one of the    *)
(* two kinds, and an idle worker is idle.                                  *)
LEMMA RequestKinds ==
  ASSUME TypeOK, NEW w \in Worker
  PROVE  /\ req[w].step = "idle" => req[w] = Idle
         /\ req[w].step \in {"loaded", "ready"} => req[w] \in DecisionRequest
         /\ req[w].step = "cycle" => req[w] \in CycleRequest
BY DEF TypeOK, Idle, Off, DecisionRequest, CycleRequest

LEMMA InitInvariant == ASSUME CycleAssumption, CycleInit PROVE CycleInvariant
<1>1. TypeOK
  <2>1. \A a \in Assignment : updates[a] \in UpdateTable
    <3>1. <<>> \in [{} -> Submission]
      OBVIOUS
    <3> QED
      BY <3>1 DEF CycleInit, UpdateTable
  <2>2. updates \in [Assignment -> UpdateTable]
    BY <2>1 DEF CycleInit
  <2> QED
    BY <2>2 DEF CycleInit, TypeOK, RequestsInit, PeriodsInit, PeriodsTypeOK, NoCycle, NoAssignment, NobodyNamed,
                CycleStatus,
                AssignmentStatus, Unpublished, Figure, CycleAssumption
<1> QED
  BY <1>1 DEF CycleInit, CycleInvariant, CurrentIsLatest, InFlightIsTrue, EventsHaveSubmissions,
              FourEyes, PublishedWasApproved, NoAssignment, Unpublished, RequestsInit, Idle,
              Off

-----------------------------------------------------------------------------
(* Steps that leave the submissions, the trail and the metric values alone *)
(* and load nothing.                                                       *)
LEMMA QuietStep ==
  ASSUME CycleInvariant, TypeOK',
         UNCHANGED <<updates, published, trail>>,
         \A a \in Assignment :
           /\ asg'[a].current = asg[a].current
           /\ \/ asg'[a].status = asg[a].status
              \/ ~Exists(a) /\ asg'[a].status = "not_submitted",
         \A w \in Worker : req'[w] = req[w] \/ req'[w].step \notin {"loaded", "ready"}
  PROVE  CycleInvariant'
<1> USE DEF CycleInvariant
<1>1. CurrentIsLatest'
  BY DEF CurrentIsLatest
<1>2. InFlightIsTrue'
  <2> SUFFICES ASSUME NEW w \in Worker, req'[w].step \in {"loaded", "ready"}
               PROVE  /\ req'[w] = req[w]
                      /\ req[w].on \in Assignment
                      /\ Exists(req[w].on)'
    BY DEF InFlightIsTrue
  <2> QED
    BY RequestKinds DEF DecisionRequest, InFlightIsTrue, Exists
<1>3. EventsHaveSubmissions'
  BY DEF EventsHaveSubmissions, Exists
<1>4. FourEyes' /\ PublishedWasApproved'
  BY DEF FourEyes, PublishedWasApproved
<1> QED
  BY <1>1, <1>2, <1>3, <1>4

LEMMA ManagingStep ==
  ASSUME CycleAssumption, CycleInvariant,
         CreateCycle \/ GenerateAssignments \/ UpdateAssignment \/ LockOrReopenPeriod
  PROVE  CycleInvariant'
<1> USE DEF CycleInvariant
<1>1. CASE CreateCycle
  <2>1. TypeOK'
    BY <1>1 DEF CreateCycle, TypeOK, PeriodsTypeOK, CycleStatus
  <2> QED
    BY <1>1, <2>1, QuietStep DEF CreateCycle
<1>2. CASE GenerateAssignments
  <2>1. TypeOK'
    BY <1>2 DEF GenerateAssignments, TypeOK, PeriodsTypeOK, NewAssignment, AssignmentStatus,
                CycleAssumption
  <2>2. \A a \in Assignment :
          /\ asg'[a].current = asg[a].current
          /\ \/ asg'[a].status = asg[a].status
             \/ ~Exists(a) /\ asg'[a].status = "not_submitted"
    BY <1>2 DEF GenerateAssignments, TypeOK, NewAssignment, Exists, EventsHaveSubmissions
  <2> QED
    BY <1>2, <2>1, <2>2, QuietStep DEF GenerateAssignments
<1>3. CASE UpdateAssignment
  <2>1. TypeOK'
    BY <1>3 DEF UpdateAssignment, TypeOK, PeriodsTypeOK, CycleAssumption
  <2> QED
    BY <1>3, <2>1, QuietStep DEF UpdateAssignment
<1>4. CASE LockOrReopenPeriod
  <2>1. TypeOK'
    BY <1>4 DEF LockOrReopenPeriod, LockPeriod, ReopenPeriod, TypeOK, PeriodsTypeOK, rows
  <2> QED
    BY <1>4, <2>1, QuietStep DEF LockOrReopenPeriod, rows
<1> QED
  BY <1>1, <1>2, <1>3, <1>4

LEMMA CycleTransitionStep ==
  ASSUME CycleInvariant, NEW w \in Worker,
         \/ \E u \in User, name \in DOMAIN CYCLE_FLOW, reasoned \in BOOLEAN :
              BeginCycleTransition(w, u, name, reasoned)
         \/ CommitCycleTransition(w)
         \/ Abort(w)
  PROVE  CycleInvariant'
<1> USE DEF CycleInvariant
<1>1. ASSUME NEW u \in User, NEW name \in DOMAIN CYCLE_FLOW, NEW reasoned \in BOOLEAN,
             BeginCycleTransition(w, u, name, reasoned)
      PROVE  CycleInvariant'
  <2>1. TypeOK'
    BY <1>1 DEF BeginCycleTransition, TypeOK, PeriodsTypeOK, CycleRequest, rows
  <2> QED
    BY <1>1, <2>1, QuietStep DEF BeginCycleTransition, TypeOK, rows
<1>2. CASE CommitCycleTransition(w)
  <2>1. TargetOf(CYCLE_FLOW, req[w].op) \in CycleStatus
    BY <1>2, RequestKinds
       DEF CommitCycleTransition, CycleRequest, CYCLE_FLOW, TargetOf, Transition,
           ReasonedTransition, CycleStatus
  <2>2. TypeOK'
    BY <1>2, <2>1 DEF CommitCycleTransition, TypeOK, PeriodsTypeOK, Finish
  <2> QED
    BY <1>2, <2>2, QuietStep DEF CommitCycleTransition, TypeOK, Finish, Idle
<1>3. CASE Abort(w)
  <2>1. TypeOK'
    BY <1>3 DEF Abort, TypeOK, PeriodsTypeOK, Finish, rows
  <2> QED
    BY <1>3, <2>1, QuietStep DEF Abort, TypeOK, Finish, Idle, rows
<1> QED
  BY <1>1, <1>2, <1>3

-----------------------------------------------------------------------------
(* Steps of a request before its commit: the rows stay as they are, and    *)
(* what the request has loaded is true of them.                            *)
HoldsOf(r) ==
  /\ Exists(r.on)
  /\ r.op \in Decision =>
       /\ r.rev \in DOMAIN updates[r.on]
       /\ updates[r.on][r.rev].figure = r.figure
  /\ r.op \in {"verify", "approve"} => updates[r.on][r.rev].by # r.user
  /\ r.op = "approve" => r.figure # "pending"
  /\ r.op = "submit" /\ r.step = "ready" => r.rev \in 1..(asg[r.on].current + 1)

LEMMA LoadingStep ==
  ASSUME CycleInvariant, NEW w \in Worker, NEW r \in DecisionRequest,
         UNCHANGED <<locked, rows>>, req' = [req EXCEPT ![w] = r], HoldsOf(r)
  PROVE  CycleInvariant'
<1> USE DEF CycleInvariant, rows
<1>1. TypeOK'
  BY DEF TypeOK, PeriodsTypeOK
<1>2. InFlightIsTrue'
  <2> SUFFICES ASSUME NEW v \in Worker, req'[v].step \in {"loaded", "ready"}
               PROVE  HoldsOf(req'[v])
    BY DEF InFlightIsTrue, HoldsOf, Exists
  <2> QED
    BY DEF InFlightIsTrue, HoldsOf, TypeOK
<1>3. CurrentIsLatest' /\ EventsHaveSubmissions' /\ FourEyes' /\ PublishedWasApproved'
  BY DEF CurrentIsLatest, EventsHaveSubmissions, FourEyes, PublishedWasApproved
<1> QED
  BY <1>1, <1>2, <1>3

LEMMA SubmissionIsRow ==
  ASSUME TypeOK, NEW a \in Assignment, NEW n \in DOMAIN updates[a]
  PROVE  /\ updates[a][n] \in Submission
         /\ updates[a][n].by \in User /\ updates[a][n].figure \in Figure
BY DEF TypeOK, UpdateTable, Submission

LEMMA SubmitLoads ==
  ASSUME CycleAssumption, CycleInvariant, NEW w \in Worker,
         \/ \E u \in User, a \in Assignment, figure \in Figure : BeginSubmit(w, u, a, figure)
         \/ CountRevisions(w)
  PROVE  CycleInvariant'
<1> USE DEF CycleInvariant
<1>1. ASSUME NEW u \in User, NEW a \in Assignment, NEW figure \in Figure,
             BeginSubmit(w, u, a, figure)
      PROVE  CycleInvariant'
  <2> DEFINE r == Request("loaded", "submit", u, a, figure, asg[a].status, 0, Unpublished)
  <2>1. r \in DecisionRequest /\ HoldsOf(r)
    BY <1>1 DEF BeginSubmit, Request, DecisionRequest, HoldsOf, TypeOK, EventName, Decision, Unpublished,
                Figure, CycleAssumption
  <2> QED
    BY <1>1, <2>1, LoadingStep DEF BeginSubmit
<1>2. CASE CountRevisions(w)
  <2> DEFINE a == req[w].on
             count == Cardinality(DOMAIN updates[a])
             r == Request("ready", "submit", req[w].user, a, req[w].figure, req[w].status,
                          count + 1, Unpublished)
  <2>1. req[w] \in DecisionRequest /\ Exists(a)
    BY <1>2, RequestKinds DEF CountRevisions, InFlightIsTrue
  <2>2. count = asg[a].current /\ count < MaxRevision
    BY <1>2, <2>1, CountIsCurrent DEF CountRevisions, DecisionRequest
  <2>3. count \in Nat /\ count + 1 \in 0..MaxRevision
    BY <2>1, <2>2 DEF DecisionRequest, TypeOK, CycleAssumption
  <2> HIDE DEF count
  <2>4. r \in DecisionRequest
    BY <2>1, <2>3 DEF Request, DecisionRequest, EventName, Unpublished, Figure, CycleAssumption
  <2>5. HoldsOf(r)
    BY <2>1, <2>2, <2>3 DEF Request, HoldsOf, Decision
  <2>6. req' = [req EXCEPT ![w] = r] /\ UNCHANGED <<locked, rows>>
    BY <1>2 DEF CountRevisions, count
  <2> QED
    BY <2>4, <2>5, <2>6, LoadingStep
<1> QED
  BY <1>1, <1>2

(* Decisions are taken on assignments that have been submitted.            *)
LEMMA DecisionSources ==
  ASSUME NEW name \in Decision, NEW status, NEW reasoned,
         Permits(ASSIGNMENT_FLOW, name, status, reasoned)
  PROVE  status \in {"submitted", "verified", "approved"}
<1>1. status \in ASSIGNMENT_FLOW[name].sources
  BY DEF Permits
<1>2. ASSIGNMENT_FLOW[name].sources \subseteq {"submitted", "verified", "approved"}
  BY DEF ASSIGNMENT_FLOW, Transition, ReasonedTransition, Decision
<1> QED
  BY <1>1, <1>2

LEMMA ReviewLoads ==
  ASSUME CycleAssumption, CycleInvariant, NEW w \in Worker,
         \/ \E u \in User, a \in Assignment, name \in Decision, reasoned \in BOOLEAN :
              BeginReview(w, u, a, name, reasoned)
         \/ ReadPublished(w)
  PROVE  CycleInvariant'
<1> USE DEF CycleInvariant
<1>1. ASSUME NEW u \in User, NEW a \in Assignment, NEW name \in Decision,
             NEW reasoned \in BOOLEAN, BeginReview(w, u, a, name, reasoned)
      PROVE  CycleInvariant'
  <2> DEFINE n == asg[a].current
             upd == updates[a][n]
             step == IF name = "approve" THEN "loaded" ELSE "ready"
             r == Request(step, name, u, a, upd.figure, asg[a].status, n, Unpublished)
  <2>1. asg[a].status \notin {"absent", "not_submitted"}
    BY <1>1, DecisionSources DEF BeginReview
  <2>2. n \in DOMAIN updates[a] /\ n \in 0..MaxRevision /\ n # 0
    BY <2>1 DEF EventsHaveSubmissions, CurrentIsLatest, TypeOK
  <2>3. r \in DecisionRequest
    BY <2>2, SubmissionIsRow
       DEF Request, DecisionRequest, EventName, TypeOK, Unpublished, Figure, CycleAssumption
  <2>4. name \in {"verify", "approve"} => upd.by # u
    BY <1>1, <2>2 DEF BeginReview, MayDecide, MayVerify, MayApprove, NotOwn, Submitter
  <2>5. name = "approve" => upd.figure # "pending"
    BY <1>1 DEF BeginReview, MayDecide, MayApprove, HasFigure
  <2>6. HoldsOf(r)
    BY <1>1, <2>2, <2>4, <2>5 DEF BeginReview, Request, HoldsOf, Decision
  <2> QED
    BY <1>1, <2>3, <2>6, LoadingStep DEF BeginReview
<1>2. CASE ReadPublished(w)
  <2> DEFINE r == Request("ready", "approve", req[w].user, req[w].on, req[w].figure,
                          req[w].status, req[w].rev, published[req[w].on])
  <2>1. req[w] \in DecisionRequest /\ HoldsOf(req[w]) /\ req[w].op = "approve"
    BY <1>2, RequestKinds DEF ReadPublished, InFlightIsTrue, HoldsOf
  <2>2. r \in DecisionRequest /\ HoldsOf(r)
    BY <2>1 DEF Request, DecisionRequest, HoldsOf, TypeOK, EventName, Decision
  <2> QED
    BY <1>2, <2>2, LoadingStep DEF ReadPublished
<1> QED
  BY <1>1, <1>2

-----------------------------------------------------------------------------
(* The commits.                                                            *)

(* The audit trail after one more event.                                   *)
LEMMA TrailGrows ==
  ASSUME NEW s \in Seq(Event), NEW e \in Event
  PROVE  /\ Append(s, e) \in Seq(Event)
         /\ Len(Append(s, e)) = Len(s) + 1
         /\ Append(s, e)[Len(s) + 1] = e
         /\ \A i \in 1..Len(s) : Append(s, e)[i] = s[i]
OBVIOUS

(* A submission commits the revision it counted, or fails.                 *)
LEMMA SubmitTakesNext ==
  ASSUME CycleInvariant, NEW w \in Worker, CommitSubmit(w)
  PROVE  LET r == req[w] IN
         /\ r \in DecisionRequest /\ Exists(r.on)
         /\ r.rev = asg[r.on].current + 1
         /\ r.rev \in Revision
         /\ DOMAIN updates'[r.on] = 1..r.rev
         /\ updates'[r.on][r.rev] = [by |-> r.user, figure |-> r.figure]
         /\ \A a \in Assignment : \A n \in DOMAIN updates[a] :
              n \in DOMAIN updates'[a] /\ updates'[a][n] = updates[a][n]
         /\ \A a \in Assignment : a # r.on => updates'[a] = updates[a]
<1> DEFINE r == req[w]
           a == r.on
<1>1. r \in DecisionRequest /\ Exists(a) /\ r.rev \in 1..(asg[a].current + 1)
  BY RequestKinds DEF CommitSubmit, InFlightIsTrue, CycleInvariant
<1>2. a \in Assignment /\ DOMAIN updates[a] = 1..asg[a].current /\ asg[a].current \in Nat
  BY <1>1 DEF DecisionRequest, CurrentIsLatest, CycleInvariant, TypeOK
<1>3. r.rev = asg[a].current + 1
  BY <1>1, <1>2 DEF CommitSubmit, RevisionIsFree
<1>4. r.rev \in Revision
  BY <1>1, <1>2, <1>3 DEF DecisionRequest, Revision
<1>5. updates' = [updates EXCEPT ![a] =
                   [n \in DOMAIN updates[a] \cup {r.rev} |->
                     IF n = r.rev THEN [by |-> r.user, figure |-> r.figure]
                                  ELSE updates[a][n]]]
  BY DEF CommitSubmit
<1>6. DOMAIN updates[a] \cup {r.rev} = 1..r.rev /\ r.rev \notin DOMAIN updates[a]
  BY <1>2, <1>3
<1>7. updates'[a] = [n \in 1..r.rev |->
                     IF n = r.rev THEN [by |-> r.user, figure |-> r.figure]
                                  ELSE updates[a][n]]
  BY <1>2, <1>5, <1>6 DEF CycleInvariant, TypeOK
<1>8. \A b \in Assignment : b # a => updates'[b] = updates[b]
  BY <1>5 DEF CycleInvariant, TypeOK
<1>9. \A b \in Assignment : \A n \in DOMAIN updates[b] :
        n \in DOMAIN updates'[b] /\ updates'[b][n] = updates[b][n]
  BY <1>6, <1>7, <1>8
<1> QED
  BY <1>1, <1>3, <1>4, <1>6, <1>7, <1>8, <1>9

LEMMA SubmitCommits ==
  ASSUME CycleAssumption, CycleInvariant, NEW w \in Worker, CommitSubmit(w)
  PROVE  CycleInvariant'
<1> DEFINE r == req[w]
           a == r.on
           e == AuditEvent("submit", r.user, r.status, "submitted", r.rev)
<1>1. /\ r \in DecisionRequest /\ a \in Assignment /\ Exists(a)
      /\ r.rev = asg[a].current + 1 /\ r.rev \in Revision
      /\ DOMAIN updates'[a] = 1..r.rev
      /\ updates'[a][r.rev] = [by |-> r.user, figure |-> r.figure]
      /\ \A b \in Assignment : \A n \in DOMAIN updates[b] :
           n \in DOMAIN updates'[b] /\ updates'[b][n] = updates[b][n]
      /\ \A b \in Assignment : b # a => updates'[b] = updates[b]
  BY SubmitTakesNext DEF DecisionRequest
<1>2. e \in Event
  BY <1>1 DEF AuditEvent, Event, DecisionRequest, EventName, AssignmentStatus
<1>3. /\ asg' = [asg EXCEPT ![a] =
                  [status |-> IF r.status = "submitted" THEN @.status ELSE "submitted",
                   current |-> r.rev]]
      /\ trail' = [trail EXCEPT ![a] = Append(@, e)]
      /\ req' = [req EXCEPT ![w] = Idle]
      /\ UNCHANGED <<locked, cycle, named, published>>
  BY DEF CommitSubmit, Resubmitted, Finish
<1>4. TypeOK'
  <2>1. updates'[a] \in UpdateTable
    <3>1. \A n \in 1..r.rev : updates'[a][n] \in Submission
      <4>1. \A n \in 1..r.rev : n # r.rev => n \in DOMAIN updates[a]
        BY <1>1 DEF CycleInvariant, CurrentIsLatest, TypeOK, Revision
      <4>2. [by |-> r.user, figure |-> r.figure] \in Submission
        BY <1>1 DEF DecisionRequest, Submission
      <4>3. \A n \in DOMAIN updates[a] : updates'[a][n] \in Submission
        BY <1>1, SubmissionIsRow DEF CycleInvariant
      <4> QED
        BY <1>1, <4>1, <4>2, <4>3
    <3>2. 1..r.rev \in SUBSET Revision
      BY <1>1 DEF Revision, CycleAssumption
    <3>3. updates'[a] = [n \in 1..r.rev |-> updates'[a][n]]
      BY <1>1 DEF CommitSubmit, CycleInvariant, TypeOK
    <3>4. updates'[a] \in [1..r.rev -> Submission]
      BY <3>1, <3>3
    <3> QED
      BY <3>2, <3>4 DEF UpdateTable
  <2>2. updates' \in [Assignment -> UpdateTable]
    BY <1>1, <2>1 DEF CommitSubmit, CycleInvariant, TypeOK
  <2>3. asg' \in [Assignment -> [status : AssignmentStatus, current : 0..MaxRevision]]
    BY <1>1, <1>3 DEF CycleInvariant, TypeOK, AssignmentStatus, Revision, CycleAssumption
  <2>4. trail' \in [Assignment -> Seq(Event)]
    BY <1>1, <1>2, <1>3, TrailGrows DEF CycleInvariant, TypeOK
  <2> QED
    BY <1>3, <2>2, <2>3, <2>4 DEF CycleInvariant, TypeOK, PeriodsTypeOK
<1>5. CurrentIsLatest'
  BY <1>1, <1>3 DEF CycleInvariant, CurrentIsLatest, TypeOK
<1>6. InFlightIsTrue'
  <2> SUFFICES ASSUME NEW v \in Worker, req'[v].step \in {"loaded", "ready"}
               PROVE  HoldsOf(req[v])'
    BY DEF InFlightIsTrue, HoldsOf, Exists
  <2>1. req'[v] = req[v] /\ HoldsOf(req[v]) /\ req[v] \in DecisionRequest
    BY <1>3, RequestKinds DEF CycleInvariant, TypeOK, Idle, InFlightIsTrue, HoldsOf
  <2>2. Exists(req[v].on)'
    BY <1>1, <1>3, <2>1 DEF Exists, HoldsOf, CycleInvariant, TypeOK
  <2>3. asg'[req[v].on].current >= asg[req[v].on].current
        /\ asg'[req[v].on].current \in Nat /\ asg[req[v].on].current \in Nat
    BY <1>1, <1>3, <2>1 DEF DecisionRequest, CycleInvariant, TypeOK, Revision
  <2>4. req[v].rev \in DOMAIN updates[req[v].on] =>
          /\ req[v].rev \in DOMAIN updates'[req[v].on]
          /\ updates'[req[v].on][req[v].rev] = updates[req[v].on][req[v].rev]
    BY <1>1, <2>1 DEF DecisionRequest
  <2> QED
    BY <2>1, <2>2, <2>3, <2>4 DEF HoldsOf, Decision, DecisionRequest
<1>7. EventsHaveSubmissions'
  <2> SUFFICES ASSUME NEW b \in Assignment
               PROVE  /\ asg'[b].status \notin {"absent", "not_submitted"} => asg'[b].current # 0
                      /\ asg'[b].status = "absent" => asg'[b].current = 0
                      /\ \A i \in 1..Len(trail'[b]) : trail'[b][i].rev \in DOMAIN updates'[b]
    BY DEF EventsHaveSubmissions
  <2>1. CASE b # a
    BY <1>1, <1>3, <2>1 DEF CycleInvariant, EventsHaveSubmissions, TypeOK
  <2>2. CASE b = a
    <3>1. asg'[a].current = r.rev /\ r.rev # 0 /\ asg'[a].status # "absent"
      BY <1>1, <1>3 DEF CycleInvariant, TypeOK, Revision, Exists
    <3>2. trail[a] \in Seq(Event) /\ trail'[a] = Append(trail[a], e)
      BY <1>1, <1>3 DEF CycleInvariant, TypeOK
    <3>3. \A i \in 1..Len(trail'[a]) : i \in 1..Len(trail[a]) \/ i = Len(trail[a]) + 1
      BY <3>2
    <3>4. e.rev \in DOMAIN updates'[a]
      BY <1>1 DEF AuditEvent, Revision
    <3>5. \A i \in 1..Len(trail[a]) : trail'[a][i].rev \in DOMAIN updates'[a]
      <4>1. \A i \in 1..Len(trail[a]) : trail'[a][i] = trail[a][i]
        BY <1>2, <3>2, TrailGrows
      <4>2. \A i \in 1..Len(trail[a]) : trail[a][i].rev \in DOMAIN updates[a]
        BY <1>1 DEF CycleInvariant, EventsHaveSubmissions
      <4> QED
        BY <1>1, <4>1, <4>2
    <3>6. trail'[a][Len(trail[a]) + 1] = e
      BY <1>2, <3>2, TrailGrows
    <3> QED
      BY <2>2, <3>1, <3>3, <3>4, <3>5, <3>6
  <2> QED
    BY <2>1, <2>2
<1>8. FourEyes'
  <2> SUFFICES ASSUME NEW b \in Assignment, NEW i \in 1..Len(trail'[b]),
                      trail'[b][i].name \in {"verify", "approve"}
               PROVE  trail'[b][i].actor # updates'[b][trail'[b][i].rev].by
    BY DEF FourEyes
  <2>1. i \in 1..Len(trail[b]) /\ trail'[b][i] = trail[b][i]
    <3>1. CASE b # a
      BY <1>3, <3>1 DEF CycleInvariant, TypeOK
    <3>2. CASE b = a
      <4>1. trail[a] \in Seq(Event) /\ trail'[a] = Append(trail[a], e)
        BY <1>1, <1>3 DEF CycleInvariant, TypeOK
      <4>2. i # Len(trail[a]) + 1
        BY <1>2, <3>2, <4>1, TrailGrows DEF AuditEvent
      <4> QED
        BY <1>2, <3>2, <4>1, <4>2, TrailGrows
    <3> QED
      BY <3>1, <3>2
  <2>2. trail[b][i].rev \in DOMAIN updates[b]
    BY <2>1 DEF CycleInvariant, EventsHaveSubmissions
  <2> QED
    BY <1>1, <2>1, <2>2 DEF CycleInvariant, FourEyes
<1>9. PublishedWasApproved'
  <2> SUFFICES ASSUME NEW b \in Assignment, published[b].ref # 0
               PROVE  /\ published[b].ref \in DOMAIN updates'[b]
                      /\ updates'[b][published[b].ref].figure # "pending"
                      /\ \E i \in 1..Len(trail'[b]) :
                           trail'[b][i].name = "approve" /\ trail'[b][i].rev = published[b].ref
    BY <1>3 DEF PublishedWasApproved
  <2>1. PICK i \in 1..Len(trail[b]) :
          trail[b][i].name = "approve" /\ trail[b][i].rev = published[b].ref
    BY DEF CycleInvariant, PublishedWasApproved
  <2>2. i \in 1..Len(trail'[b]) /\ trail'[b][i] = trail[b][i]
    BY <1>2, <1>3, TrailGrows DEF CycleInvariant, TypeOK
  <2> QED
    BY <1>1, <2>1, <2>2 DEF CycleInvariant, PublishedWasApproved
<1> QED
  BY <1>4, <1>5, <1>6, <1>7, <1>8, <1>9 DEF CycleInvariant

LEMMA ReviewCommits ==
  ASSUME CycleAssumption, CycleInvariant, NEW w \in Worker, CommitReview(w)
  PROVE  CycleInvariant'
<1> DEFINE r == req[w]
           a == r.on
           target == TargetOf(ASSIGNMENT_FLOW, r.op)
           e == AuditEvent(r.op, r.user, r.status, target, r.rev)
<1>1. r \in DecisionRequest /\ a \in Assignment /\ r.op \in Decision /\ HoldsOf(r)
  BY RequestKinds DEF CommitReview, CycleInvariant, InFlightIsTrue, HoldsOf, DecisionRequest
<1>2. target \in AssignmentStatus \ {"absent", "not_submitted"}
  BY <1>1 DEF Decision, TargetOf, ASSIGNMENT_FLOW, Transition, ReasonedTransition, AssignmentStatus
<1>3. r.rev \in DOMAIN updates[a] /\ r.rev \in Revision /\ asg[a].current # 0
  BY <1>1 DEF HoldsOf, CycleInvariant, CurrentIsLatest, TypeOK, Revision, DecisionRequest
<1>4. e \in Event
  BY <1>1, <1>2, <1>3 DEF AuditEvent, Event, DecisionRequest, EventName, AssignmentStatus
<1>5. /\ asg' = [asg EXCEPT ![a].status = target]
      /\ trail' = [trail EXCEPT ![a] = Append(@, e)]
      /\ req' = [req EXCEPT ![w] = Idle]
      /\ UNCHANGED <<locked, cycle, named, updates>>
  BY DEF CommitReview, Finish
<1>6. \A b \in Assignment :
        \/ published'[b] = published[b]
        \/ b = a /\ r.op = "approve" /\ published'[b].ref = r.rev
  BY <1>1 DEF CommitReview, Publish, Published, CycleInvariant, TypeOK
<1>7. TypeOK'
  <2>1. published' \in [Assignment -> [ref : 0..MaxRevision, figure : Figure]]
    <3> DEFINE figure == IF r.prior.ref # 0 /\ r.prior.figure = r.figure
                         THEN published[a].figure ELSE r.figure
    <3>1. published' = published \/ published' = [published EXCEPT ![a] = [ref |-> r.rev, figure |-> figure]]
      BY <1>1 DEF CommitReview, Publish, Published, CycleInvariant, TypeOK
    <3>2. figure \in Figure /\ r.rev \in 0..MaxRevision
      BY <1>1 DEF CycleInvariant, TypeOK, DecisionRequest
    <3> HIDE DEF figure
    <3>3. published \in [Assignment -> [ref : 0..MaxRevision, figure : Figure]]
      BY DEF CycleInvariant, TypeOK
    <3>4. [ref |-> r.rev, figure |-> figure] \in [ref : 0..MaxRevision, figure : Figure]
      BY <3>2
    <3> QED
      BY <1>1, <3>1, <3>3, <3>4
  <2>2. trail' \in [Assignment -> Seq(Event)]
    BY <1>1, <1>4, <1>5, TrailGrows DEF CycleInvariant, TypeOK
  <2>3. asg' \in [Assignment -> [status : AssignmentStatus, current : 0..MaxRevision]]
    <3>1. asg[a] \in [status : AssignmentStatus, current : 0..MaxRevision]
      BY <1>1 DEF CycleInvariant, TypeOK
    <3>2. [asg[a] EXCEPT !.status = target] \in [status : AssignmentStatus, current : 0..MaxRevision]
      BY <1>2, <3>1
    <3> QED
      BY <1>1, <1>5, <3>2 DEF CycleInvariant, TypeOK
  <2> QED
    BY <1>5, <2>1, <2>2, <2>3 DEF CycleInvariant, TypeOK, PeriodsTypeOK
<1>8. CurrentIsLatest'
  BY <1>1, <1>5 DEF CycleInvariant, CurrentIsLatest, TypeOK
<1>9. InFlightIsTrue'
  <2> SUFFICES ASSUME NEW v \in Worker, req'[v].step \in {"loaded", "ready"}
               PROVE  HoldsOf(req[v])' /\ req'[v] = req[v]
    BY DEF InFlightIsTrue, HoldsOf, Exists
  <2>1. req'[v] = req[v] /\ HoldsOf(req[v]) /\ req[v] \in DecisionRequest
    BY <1>5, RequestKinds DEF CycleInvariant, TypeOK, Idle, InFlightIsTrue, HoldsOf
  <2>2. Exists(req[v].on)'
    <3>1. req[v].on \in Assignment /\ asg[req[v].on].status # "absent"
      BY <2>1 DEF Exists, HoldsOf, DecisionRequest
    <3>2. asg'[req[v].on].status \in {asg[req[v].on].status, target}
      <4>1. asg \in [Assignment -> [status : AssignmentStatus, current : 0..MaxRevision]]
        BY DEF CycleInvariant, TypeOK
      <4>2. CASE req[v].on = a
        BY <1>5, <3>1, <4>1, <4>2
      <4>3. CASE req[v].on # a
        BY <1>5, <3>1, <4>1, <4>3
      <4> QED
        BY <4>2, <4>3
    <3>3. asg'[req[v].on].status # "absent"
      BY <1>2, <3>1, <3>2
    <3>4. req'[v] = req[v]
      BY <2>1
    <3> QED
      BY <3>3, <3>4 DEF Exists
  <2> QED
    BY <1>5, <2>1, <2>2 DEF HoldsOf
<1>10. \A b \in Assignment : \A i \in 1..Len(trail'[b]) :
         \/ i \in 1..Len(trail[b]) /\ trail'[b][i] = trail[b][i]
         \/ b = a /\ trail'[b][i] = e
  <2> SUFFICES ASSUME NEW b \in Assignment
               PROVE  \A i \in 1..Len(trail'[b]) :
                        \/ i \in 1..Len(trail[b]) /\ trail'[b][i] = trail[b][i]
                        \/ b = a /\ trail'[b][i] = e
    OBVIOUS
  <2>1. CASE b # a
    BY <1>5, <2>1 DEF CycleInvariant, TypeOK
  <2>2. CASE b = a
    <3>1. trail[a] \in Seq(Event) /\ trail'[a] = Append(trail[a], e)
      BY <1>1, <1>5 DEF CycleInvariant, TypeOK
    <3>2. \A i \in 1..Len(trail'[a]) : i \in 1..Len(trail[a]) \/ i = Len(trail[a]) + 1
      BY <3>1
    <3> QED
      BY <1>4, <2>2, <3>1, <3>2, TrailGrows
  <2> QED
    BY <2>1, <2>2
<1>11. EventsHaveSubmissions'
  <2>1. \A b \in Assignment :
          /\ asg'[b].status \notin {"absent", "not_submitted"} => asg'[b].current # 0
          /\ asg'[b].status = "absent" => asg'[b].current = 0
    BY <1>1, <1>2, <1>3, <1>5 DEF CycleInvariant, EventsHaveSubmissions, TypeOK
  <2>2. e.rev \in DOMAIN updates[a]
    BY <1>3 DEF AuditEvent
  <2>3. \A b \in Assignment : \A i \in 1..Len(trail'[b]) : trail'[b][i].rev \in DOMAIN updates[b]
    BY <1>10, <2>2 DEF CycleInvariant, EventsHaveSubmissions
  <2> QED
    BY <1>5, <2>1, <2>3 DEF EventsHaveSubmissions
<1>12. FourEyes'
  <2>1. e.name \in {"verify", "approve"} => e.actor # updates[a][e.rev].by
    BY <1>1 DEF HoldsOf, AuditEvent
  <2>2. \A b \in Assignment : \A i \in 1..Len(trail'[b]) :
          trail'[b][i].name \in {"verify", "approve"}
            => trail'[b][i].actor # updates[b][trail'[b][i].rev].by
    <3> SUFFICES ASSUME NEW b \in Assignment, NEW i \in 1..Len(trail'[b]), trail'[b][i].name \in {"verify", "approve"}
                 PROVE  trail'[b][i].actor # updates[b][trail'[b][i].rev].by
      OBVIOUS
    <3>1. CASE i \in 1..Len(trail[b]) /\ trail'[b][i] = trail[b][i]
      BY <3>1 DEF CycleInvariant, FourEyes
    <3>2. CASE b = a /\ trail'[b][i] = e
      BY <2>1, <3>2
    <3>3. \/ i \in 1..Len(trail[b]) /\ trail'[b][i] = trail[b][i]
          \/ b = a /\ trail'[b][i] = e
      BY <1>10
    <3> QED
      BY <3>1, <3>2, <3>3
  <2>3. updates' = updates
    BY <1>5
  <2> QED
    BY <2>2, <2>3 DEF FourEyes
<1>13. PublishedWasApproved'
  <2> SUFFICES ASSUME NEW b \in Assignment, published'[b].ref # 0
               PROVE  /\ published'[b].ref \in DOMAIN updates[b]
                      /\ updates[b][published'[b].ref].figure # "pending"
                      /\ \E i \in 1..Len(trail'[b]) :
                           trail'[b][i].name = "approve" /\ trail'[b][i].rev = published'[b].ref
    BY <1>5 DEF PublishedWasApproved
  <2>1. CASE published'[b] = published[b]
    <3>1. PICK i \in 1..Len(trail[b]) :
            trail[b][i].name = "approve" /\ trail[b][i].rev = published[b].ref
      BY <2>1 DEF CycleInvariant, PublishedWasApproved
    <3>2. i \in 1..Len(trail'[b]) /\ trail'[b][i] = trail[b][i]
      BY <1>4, <1>5, TrailGrows DEF CycleInvariant, TypeOK
    <3> QED
      BY <2>1, <3>1, <3>2 DEF CycleInvariant, PublishedWasApproved
  <2>2. CASE b = a /\ r.op = "approve" /\ published'[b].ref = r.rev
    <3>1. trail[a] \in Seq(Event) /\ trail'[a] = Append(trail[a], e)
      BY <1>1, <1>5 DEF CycleInvariant, TypeOK
    <3>2. Len(trail[a]) + 1 \in 1..Len(trail'[a]) /\ trail'[a][Len(trail[a]) + 1] = e
      BY <1>4, <3>1, TrailGrows
    <3>3. e.name = "approve" /\ e.rev = r.rev
      BY <2>2 DEF AuditEvent
    <3>4. updates[a][r.rev].figure # "pending"
      BY <1>1, <2>2 DEF HoldsOf
    <3> QED
      BY <1>3, <2>2, <3>2, <3>3, <3>4
  <2> QED
    BY <1>6, <2>1, <2>2
<1> QED
  BY <1>7, <1>8, <1>9, <1>11, <1>12, <1>13 DEF CycleInvariant

LEMMA StutterKeeps == ASSUME CycleInvariant, UNCHANGED vars PROVE CycleInvariant'
BY DEF vars, rows, CycleInvariant, TypeOK, PeriodsTypeOK, CurrentIsLatest, InFlightIsTrue, Exists,
       EventsHaveSubmissions, FourEyes, PublishedWasApproved

LEMMA NextKeeps ==
  ASSUME CycleAssumption, CycleInvariant, [CycleNext]_vars
  PROVE  CycleInvariant'
BY ManagingStep, CycleTransitionStep, SubmitLoads, ReviewLoads, SubmitCommits, ReviewCommits,
   StutterKeeps DEF CycleNext

-----------------------------------------------------------------------------
(* The invariant holds in every reachable state, however many requests     *)
(* race: a decision in flight stays true of the revision it loaded.        *)
THEOREM CycleInvariantHolds == CycleSpec => []CycleInvariant
<1>1. CycleInit => CycleInvariant
  BY InitInvariant, CycleAssumption
<1>2. CycleInvariant /\ [CycleNext]_vars => CycleInvariant'
  BY NextKeeps, CycleAssumption
<1> QED
  BY <1>1, <1>2, PTL DEF CycleSpec

(* The rows keep the types of their columns.                               *)
THEOREM CycleTypeCorrect == CycleSpec => []TypeOK
<1>1. CycleInvariant => TypeOK
  BY DEF CycleInvariant
<1> QED
  BY <1>1, CycleInvariantHolds, PTL

(* Nobody verifies or approves a revision they submitted (review_update).  *)
THEOREM FourEyesHolds == CycleSpec => []FourEyes
<1>1. CycleInvariant => FourEyes
  BY DEF CycleInvariant
<1> QED
  BY <1>1, CycleInvariantHolds, PTL

(* A published metric value refers to an approved submission (_publish).   *)
THEOREM PublicationIsApproved == CycleSpec => []PublishedWasApproved
<1>1. CycleInvariant => PublishedWasApproved
  BY DEF CycleInvariant
<1> QED
  BY <1>1, CycleInvariantHolds, PTL

(* current_update_id names the latest of the contiguous revisions.         *)
THEOREM RevisionsAreContiguous == CycleSpec => []CurrentIsLatest
<1>1. CycleInvariant => CurrentIsLatest
  BY DEF CycleInvariant
<1> QED
  BY <1>1, CycleInvariantHolds, PTL
(* Only the two commits write submissions, audit events or metric values.  *)
LEMMA OnlyCommitsWrite ==
  ASSUME [CycleNext]_vars
  PROVE  \/ \E w \in Worker : CommitSubmit(w) \/ CommitReview(w)
         \/ UNCHANGED <<updates, trail, published>>
<1>1. CASE CreateCycle \/ GenerateAssignments \/ UpdateAssignment \/ LockOrReopenPeriod
  BY <1>1 DEF CreateCycle, GenerateAssignments, UpdateAssignment, LockOrReopenPeriod, rows
<1>2. ASSUME NEW w \in Worker,
             \/ \E u \in User, name \in DOMAIN CYCLE_FLOW, reasoned \in BOOLEAN :
                  BeginCycleTransition(w, u, name, reasoned)
             \/ CommitCycleTransition(w)
             \/ Abort(w)
      PROVE  UNCHANGED <<updates, trail, published>>
  BY <1>2 DEF BeginCycleTransition, CommitCycleTransition, Abort, rows
<1>3. ASSUME NEW w \in Worker,
             \/ \E u \in User, a \in Assignment, figure \in Figure : BeginSubmit(w, u, a, figure)
             \/ CountRevisions(w)
      PROVE  UNCHANGED <<updates, trail, published>>
  BY <1>3 DEF BeginSubmit, CountRevisions, rows
<1>4. ASSUME NEW w \in Worker,
             \/ \E u \in User, a \in Assignment, name \in Decision, reasoned \in BOOLEAN :
                  BeginReview(w, u, a, name, reasoned)
             \/ ReadPublished(w)
      PROVE  UNCHANGED <<updates, trail, published>>
  BY <1>4 DEF BeginReview, ReadPublished, rows
<1>5. CASE UNCHANGED vars
  BY <1>5 DEF vars, rows
<1> QED
  BY <1>1, <1>2, <1>3, <1>4, <1>5 DEF CycleNext

(* A submitted revision is never changed or removed (submit_update).       *)
THEOREM SubmissionsAreHistory == CycleSpec => SubmissionsAreImmutable
<1> DEFINE Kept == \A a \in Assignment : \A n \in DOMAIN updates[a] :
                     n \in DOMAIN updates'[a] /\ updates'[a][n] = updates[a][n]
<1>1. ASSUME CycleInvariant, [CycleNext]_vars
      PROVE  [Kept]_updates
  <2> SUFFICES ASSUME updates' # updates
               PROVE  Kept
    OBVIOUS
  <2>1. PICK w \in Worker : CommitSubmit(w)
    BY <1>1, OnlyCommitsWrite DEF CommitReview
  <2> QED
    BY <1>1, <2>1, SubmitTakesNext
<1> QED
  BY <1>1, CycleInvariantHolds, PTL DEF CycleSpec, SubmissionsAreImmutable

-----------------------------------------------------------------------------
(* The refinement.                                                         *)

(* Somebody checked a version iff an approval of it is in the trail.       *)
LEMMA ChecksAreApprovals ==
  ASSUME NEW a \in Assignment, NEW c
  PROVE  c \in Checks(a) <=>
           \E i \in 1..Len(trail[a]) :
             trail[a][i].name = "approve" /\ c = [rev |-> trail[a][i].rev, by |-> trail[a][i].actor]
BY DEF Checks

(* An event appended to a trail adds a check if it is an approval.         *)
LEMMA ChecksGrow ==
  ASSUME NEW a \in Assignment, NEW e \in Event,
         trail[a] \in Seq(Event), trail'[a] = Append(trail[a], e)
  PROVE  Checks(a)' = Checks(a) \cup
           (IF e.name = "approve" THEN {[rev |-> e.rev, by |-> e.actor]} ELSE {})
<1>1. /\ Len(trail[a]) \in Nat
      /\ Len(trail'[a]) = Len(trail[a]) + 1
      /\ trail'[a][Len(trail[a]) + 1] = e
      /\ \A i \in 1..Len(trail[a]) : trail'[a][i] = trail[a][i]
  BY TrailGrows
<1>2. ASSUME NEW c
      PROVE  c \in Checks(a)' <=>
               \/ c \in Checks(a)
               \/ e.name = "approve" /\ c = [rev |-> e.rev, by |-> e.actor]
  <2>1. c \in Checks(a)' <=>
          \E i \in 1..Len(trail'[a]) :
            trail'[a][i].name = "approve" /\ c = [rev |-> trail'[a][i].rev, by |-> trail'[a][i].actor]
    BY DEF Checks
  <2>2. c \in Checks(a) <=>
          \E i \in 1..Len(trail[a]) :
            trail[a][i].name = "approve" /\ c = [rev |-> trail[a][i].rev, by |-> trail[a][i].actor]
    BY ChecksAreApprovals
  <2>3. 1..Len(trail'[a]) = 1..Len(trail[a]) \cup {Len(trail[a]) + 1}
    BY <1>1
  <2> QED
    BY <1>1, <2>1, <2>2, <2>3
<1> QED
  BY <1>2

LEMMA SubmitFiles ==
  ASSUME CycleInvariant, NEW w \in Worker, CommitSubmit(w)
  PROVE  Governed!Next
<1>0. PICK r \in DecisionRequest : r = req[w]
  BY SubmitTakesNext
<1> DEFINE a == r.on
           e == AuditEvent("submit", r.user, r.status, "submitted", r.rev)
<1>1. a \in Assignment /\ r.rev = asg[a].current + 1 /\ r.rev \in Revision
  BY <1>0, SubmitTakesNext DEF DecisionRequest
<1>2. \A b \in Assignment : b # a => Checks(b)' = Checks(b)
  BY <1>0, <1>1 DEF CommitSubmit, Checks, CycleInvariant, TypeOK
<1>3. \A b \in Assignment : Checks(b)' = Checks(b)
  <2> SUFFICES ASSUME NEW b \in Assignment PROVE Checks(b)' = Checks(b)
    OBVIOUS
  <2>1. CASE b # a
    BY <1>2, <2>1
  <2>2. CASE b = a
    <3>1. trail[a] \in Seq(Event) /\ trail'[a] = Append(trail[a], e) /\ e \in Event
      BY <1>0, <1>1 DEF CommitSubmit, CycleInvariant, TypeOK, AuditEvent, Event, DecisionRequest, EventName,
                  AssignmentStatus
    <3>2. e.name # "approve"
      BY DEF AuditEvent
    <3> QED
      BY <1>1, <2>2, <3>1, <3>2, ChecksGrow
  <2> QED
    BY <2>1, <2>2
<1>4. [b \in Assignment |-> Checks(b)]' = [b \in Assignment |-> Checks(b)]
  BY <1>3
<1>5. [b \in Assignment |-> published[b].ref]' = [b \in Assignment |-> published[b].ref]
  BY <1>0 DEF CommitSubmit
<1>6. updates' = [updates EXCEPT ![a] =
                   [n \in DOMAIN updates[a] \cup {r.rev} |->
                     IF n = r.rev THEN [by |-> r.user, figure |-> r.figure]
                                  ELSE updates[a][n]]]
  BY <1>0 DEF CommitSubmit
<1>7. r.rev \in Governed!Following(a)
  BY <1>1 DEF Governed!Following, CycleInvariant, CurrentIsLatest, TypeOK
<1>8. Governed!File(a, r.user, r.figure, r.rev)
  BY <1>4, <1>5, <1>6 DEF Governed!File
<1> QED
  BY <1>1, <1>7, <1>8 DEF Governed!Next, DecisionRequest

LEMMA ReviewReleases ==
  ASSUME CycleInvariant, NEW w \in Worker, CommitReview(w)
  PROVE  \/ Governed!Next
         \/ UNCHANGED <<updates, [a \in Assignment |-> Checks(a)],
                        [a \in Assignment |-> published[a].ref]>>
<1>0. PICK r \in DecisionRequest : r = req[w]
  BY RequestKinds DEF CommitReview, CycleInvariant
<1> DEFINE a == r.on
           e == AuditEvent(r.op, r.user, r.status, TargetOf(ASSIGNMENT_FLOW, r.op), r.rev)
           check == [rev |-> r.rev, by |-> r.user]
<1>1. a \in Assignment /\ r.op \in Decision /\ HoldsOf(r)
  BY <1>0 DEF CommitReview, CycleInvariant, InFlightIsTrue, HoldsOf, DecisionRequest
<1>2. e \in Event /\ e.name = r.op /\ e.rev = r.rev /\ e.actor = r.user
  <2>1. TargetOf(ASSIGNMENT_FLOW, r.op) \in AssignmentStatus
    BY <1>1 DEF Decision, TargetOf, ASSIGNMENT_FLOW, Transition, ReasonedTransition, AssignmentStatus
  <2>2. r.rev \in Revision
    BY <1>1 DEF HoldsOf, CycleInvariant, CurrentIsLatest, TypeOK, Revision, DecisionRequest
  <2> QED
    BY <1>1, <2>1, <2>2 DEF AuditEvent, Event, DecisionRequest, EventName
<1>3. /\ trail[a] \in Seq(Event) /\ trail'[a] = Append(trail[a], e)
      /\ \A b \in Assignment : b # a => trail'[b] = trail[b]
  BY <1>0, <1>1 DEF CommitReview, CycleInvariant, TypeOK
<1>4. \A b \in Assignment : b # a => Checks(b)' = Checks(b)
  BY <1>3 DEF Checks
<1>5. Checks(a)' = Checks(a) \cup (IF r.op = "approve" THEN {check} ELSE {})
  BY <1>1, <1>2, <1>3, ChecksGrow
<1>6. CASE r.op = "approve"
  <2>1. /\ updates' = updates
        /\ published'[a].ref = r.rev
        /\ \A b \in Assignment : b # a => published'[b] = published[b]
    BY <1>0, <1>1, <1>6 DEF CommitReview, Publish, Published, CycleInvariant, TypeOK
  <2>2. /\ r.rev \in DOMAIN updates[a]
        /\ updates[a][r.rev].by # r.user
        /\ updates[a][r.rev].figure # "pending"
    BY <1>1, <1>6 DEF HoldsOf
  <2>3. [b \in Assignment |-> Checks(b)]'
          = [[b \in Assignment |-> Checks(b)] EXCEPT ![a] = @ \cup {check}]
    <3>1. \A b \in Assignment : Checks(b)' = IF b = a THEN Checks(b) \cup {check} ELSE Checks(b)
      BY <1>4, <1>5, <1>6
    <3> QED
      BY <3>1
  <2>4. [b \in Assignment |-> published[b].ref]'
          = [[b \in Assignment |-> published[b].ref] EXCEPT ![a] = r.rev]
    BY <1>1, <2>1
  <2>5. Governed!Release(a, r.user, r.rev)
    BY <2>1, <2>2, <2>3, <2>4 DEF Governed!Release
  <2> QED
    BY <1>1, <2>2, <2>5 DEF Governed!Next, DecisionRequest
<1>7. CASE r.op # "approve"
  <2>1. \A b \in Assignment : Checks(b)' = Checks(b)
    BY <1>4, <1>5, <1>7
  <2>2. [b \in Assignment |-> Checks(b)]' = [b \in Assignment |-> Checks(b)]
    BY <2>1
  <2>3. updates' = updates /\ published' = published
    BY <1>0, <1>7 DEF CommitReview
  <2> QED
    BY <2>2, <2>3
<1> QED
  BY <1>6, <1>7

(* Progress reporting implements maker-checker publication: every release  *)
(* is of a filed version, by somebody other than its maker.                *)
THEOREM CycleImplementsMakerChecker == CycleSpec => ImplementsMakerChecker
<1> DEFINE abstract == <<updates, [a \in Assignment |-> Checks(a)],
                         [a \in Assignment |-> published[a].ref]>>
<1>1. CycleInit => Governed!Init
  BY DEF CycleInit, Governed!Init, Checks, Unpublished
<1>2. ASSUME CycleInvariant, [CycleNext]_vars
      PROVE  Governed!Next \/ UNCHANGED abstract
  <2>1. CASE \E w \in Worker : CommitSubmit(w)
    BY <1>2, <2>1, SubmitFiles
  <2>2. CASE \E w \in Worker : CommitReview(w)
    BY <1>2, <2>2, ReviewReleases
  <2>3. CASE UNCHANGED <<updates, trail, published>>
    BY <2>3 DEF Checks
  <2> QED
    BY <1>2, <2>1, <2>2, <2>3, OnlyCommitsWrite
<1>3. CycleInvariant /\ [CycleNext]_vars => [Governed!Next]_abstract
  BY <1>2
<1> QED
  BY <1>1, <1>3, CycleInvariantHolds, PTL DEF CycleSpec, ImplementsMakerChecker, Governed!Spec

-----------------------------------------------------------------------------
(* Requests served one after the other.                                    *)

(* Each event starts where the one before ended, up to the row's state.    *)
Chain(events, status) ==
  IF events = <<>> THEN status \in {"absent", "not_submitted"}
  ELSE /\ events[1].before = "not_submitted"
       /\ \A i \in 2..Len(events) : events[i].before = events[i - 1].after
       /\ events[Len(events)].after = status

WasVerified(events, rev) ==
  \E i \in 1..Len(events) : events[i].name = "verify" /\ events[i].rev = rev

(* An assignment is what its trail, its submissions and the metric value   *)
(* say it is.                                                              *)
Stands(row, value, submissions, events) ==
  /\ row.status = "verified" \/ (row.status = "approved" /\ cycle.verification) =>
       WasVerified(events, row.current)
  /\ row.status = "approved" => value.ref = row.current
  /\ value.ref # 0 => value.figure = submissions[value.ref].figure
  /\ row.status \in {"verified", "approved"} =>
       /\ events[Len(events)].name \in {"verify", "approve"}
       /\ events[Len(events)].actor # submissions[row.current].by
  /\ Chain(events, row.status)

RowsStand ==
  /\ cycle.status = "absent" => \A a \in Assignment : ~Exists(a)
  /\ \A a \in Assignment : Stands(asg[a], published[a], updates[a], trail[a])

(* What a serial request has loaded is what its commit finds, and the      *)
(* period is still open.                                                   *)
Found(r) ==
  /\ r.step \in {"loaded", "ready", "cycle"} => PeriodAccepts
  /\ r.step \in {"loaded", "ready"} =>
       /\ r.status = asg[r.on].status
       /\ r.op = "submit" => r.status \in {"not_submitted", "returned", "submitted"}
       /\ r.op \in Decision =>
            r.rev = asg[r.on].current /\ r.status \in {"submitted", "verified", "approved"}
       /\ r.op = "approve" /\ cycle.verification => r.status = "verified"
       /\ r.op = "approve" /\ r.step = "ready" => r.prior = published[r.on]

(* The inductive invariant of serial requests.                             *)
SerialInvariant == Serial => RowsStand /\ \A w \in Worker : Found(req[w])

LEMMA ChainGrows ==
  ASSUME NEW events \in Seq(Event), NEW e \in Event, NEW status, Chain(events, status),
         status # "absent", e.before = status
  PROVE  /\ Chain(Append(events, e), e.after)
         /\ Append(events, e)[Len(Append(events, e))] = e
<1> DEFINE grown == Append(events, e)
<1>1. /\ Len(events) \in Nat /\ Len(grown) = Len(events) + 1 /\ grown[Len(events) + 1] = e
      /\ \A i \in 1..Len(events) : grown[i] = events[i]
      /\ grown # <<>>
  BY TrailGrows
<1> HIDE DEF grown
<1>2. CASE events = <<>>
  <2>1. Len(events) = 0
    BY <1>2
  <2> QED
    BY <1>1, <1>2, <2>1 DEF Chain, grown
<1>3. CASE events # <<>>
  <2>1. Len(events) >= 1
    BY <1>3
  <2>2. grown[1].before = "not_submitted"
    BY <1>1, <1>3, <2>1 DEF Chain
  <2>3. ASSUME NEW i \in 2..Len(grown) PROVE grown[i].before = grown[i - 1].after
    <3>1. CASE i \in 2..Len(events)
      <4>1. i \in 1..Len(events) /\ i - 1 \in 1..Len(events)
        BY <1>1, <3>1
      <4> QED
        BY <1>1, <1>3, <3>1, <4>1 DEF Chain
    <3>2. CASE i = Len(events) + 1
      <4>1. i - 1 = Len(events) /\ Len(events) \in 1..Len(events)
        BY <1>1, <2>1, <3>2
      <4> QED
        BY <1>1, <1>3, <3>2, <4>1 DEF Chain
    <3> QED
      BY <1>1, <3>1, <3>2
  <2> QED
    BY <1>1, <2>2, <2>3 DEF Chain, grown
<1> QED
  BY <1>2, <1>3

LEMMA VerifiedStays ==
  ASSUME NEW events \in Seq(Event), NEW e \in Event, NEW rev
  PROVE  /\ WasVerified(events, rev) => WasVerified(Append(events, e), rev)
         /\ e.name = "verify" /\ e.rev = rev => WasVerified(Append(events, e), rev)
<1>1. /\ Len(events) \in Nat /\ Len(Append(events, e)) = Len(events) + 1
      /\ Append(events, e)[Len(events) + 1] = e
      /\ \A i \in 1..Len(events) : Append(events, e)[i] = events[i]
  BY TrailGrows
<1>2. Len(events) + 1 \in 1..Len(Append(events, e)) /\ 1..Len(events) \subseteq 1..Len(Append(events, e))
  BY <1>1
<1> QED
  BY <1>1, <1>2 DEF WasVerified

LEMMA RowsRest ==
  ASSUME RowsStand, UNCHANGED <<asg, published, updates, trail>>,
         cycle'.verification = cycle.verification, cycle'.status = "absent" => cycle.status = "absent"
  PROVE  RowsStand'
BY DEF RowsStand, Stands, Exists

(* An assignment that is not generated yet has no history.                 *)
LEMMA NoHistory ==
  ASSUME CycleInvariant, NEW a \in Assignment, ~Exists(a)
  PROVE  trail[a] = <<>> /\ published[a].ref = 0 /\ updates[a] = <<>>
<1>1. asg[a].current = 0 /\ DOMAIN updates[a] = {}
  BY DEF CycleInvariant, EventsHaveSubmissions, CurrentIsLatest, Exists
<1>2. 1..Len(trail[a]) = {}
  BY <1>1 DEF CycleInvariant, EventsHaveSubmissions
<1>3. trail[a] = <<>>
  <2>1. trail[a] \in Seq(Event) /\ Len(trail[a]) \in Nat
    BY DEF CycleInvariant, TypeOK
  <2>2. Len(trail[a]) = 0
    <3>1. Len(trail[a]) > 0 => 1 \in 1..Len(trail[a])
      BY <2>1
    <3> QED
      BY <1>2, <2>1, <3>1
  <2> QED
    BY <2>1, <2>2
<1> QED
  BY <1>1, <1>3 DEF CycleInvariant, PublishedWasApproved, TypeOK, UpdateTable

LEMMA SerialManaging ==
  ASSUME CycleAssumption, CycleInvariant, RowsStand,
         CreateCycle \/ GenerateAssignments \/ UpdateAssignment \/ LockOrReopenPeriod
  PROVE  /\ Free /\ UNCHANGED req
         /\ RowsStand'
         /\ UNCHANGED decisions \/ PeriodAccepts
<1>1. CASE CreateCycle
  <2>1. \A a \in Assignment : asg[a].status = "absent"
    BY <1>1 DEF CreateCycle, RowsStand, Exists
  <2>2. cycle'.status = "draft" /\ UNCHANGED <<asg, published, updates, trail>>
    BY <1>1 DEF CreateCycle
  <2> QED
    BY <1>1, <2>1, <2>2 DEF CreateCycle, RowsStand, Stands
<1>2. CASE GenerateAssignments
  <2>1. PICK new \in SUBSET {a \in Assignment : ~Exists(a)} :
          asg' = [a \in Assignment |-> IF a \in new THEN NewAssignment ELSE asg[a]]
    BY <1>2 DEF GenerateAssignments
  <2>2. UNCHANGED <<cycle, published, updates, trail>> /\ cycle.status # "absent"
    BY <1>2 DEF GenerateAssignments
  <2>3. ASSUME NEW a \in new PROVE Stands(asg[a], published[a], updates[a], trail[a])'
    <3>1. asg'[a].status = "not_submitted"
      BY <2>1 DEF NewAssignment
    <3> QED
      BY <2>2, <3>1, NoHistory DEF Stands, Chain
  <2>4. RowsStand'
    BY <2>1, <2>2, <2>3 DEF RowsStand, Stands
  <2>5. \A a \in Assignment : updates[a] # <<>> => asg'[a] = asg[a]
    BY <2>1, NoHistory
  <2> QED
    BY <1>2, <2>2, <2>4, <2>5 DEF GenerateAssignments, decisions
<1>3. CASE UpdateAssignment
  BY <1>3, RowsRest DEF UpdateAssignment, decisions
<1>4. CASE LockOrReopenPeriod
  BY <1>4, RowsRest DEF LockOrReopenPeriod, rows, decisions
<1> QED
  BY <1>1, <1>2, <1>3, <1>4

(* A step of a request: how it was found, and what it leaves.              *)
LEMMA SerialBeginCycle ==
  ASSUME CycleInvariant, NEW w \in Worker, NEW u \in User, NEW name \in DOMAIN CYCLE_FLOW,
         NEW reasoned \in BOOLEAN, BeginCycleTransition(w, u, name, reasoned)
  PROVE  \E r : Begin(w, r) /\ r.step # "off" /\ Found(r) /\ UNCHANGED <<locked, rows>>
<1> DEFINE r == [step |-> "cycle", op |-> name]
<1>1. Begin(w, r) /\ PeriodAccepts /\ UNCHANGED <<locked, rows>>
  BY DEF BeginCycleTransition, Begin
<1>2. Found(r)
  BY <1>1 DEF Found
<1> QED
  BY <1>1, <1>2

LEMMA SerialBeginSubmit ==
  ASSUME CycleInvariant, NEW w \in Worker, NEW u \in User, NEW a \in Assignment,
         NEW figure \in Figure, BeginSubmit(w, u, a, figure)
  PROVE  \E r : Begin(w, r) /\ r.step # "off" /\ Found(r) /\ UNCHANGED <<locked, rows>>
<1> DEFINE r == Request("loaded", "submit", u, a, figure, asg[a].status, 0, Unpublished)
<1>1. Begin(w, r) /\ PeriodAccepts /\ UNCHANGED <<locked, rows>>
  BY DEF BeginSubmit, Begin
<1>2. asg[a].status \in {"not_submitted", "returned", "submitted"}
  BY DEF BeginSubmit, Permits, ASSIGNMENT_FLOW, Transition, ReasonedTransition
<1>3. Found(r) /\ r.step # "off"
  BY <1>1, <1>2 DEF Found, Request, Decision
<1> QED
  BY <1>1, <1>3

LEMMA SerialBeginReview ==
  ASSUME CycleInvariant, NEW w \in Worker, NEW u \in User, NEW a \in Assignment,
         NEW name \in Decision, NEW reasoned \in BOOLEAN, BeginReview(w, u, a, name, reasoned)
  PROVE  \E r : Begin(w, r) /\ r.step # "off" /\ Found(r) /\ UNCHANGED <<locked, rows>>
<1> DEFINE step == IF name = "approve" THEN "loaded" ELSE "ready"
           r == Request(step, name, u, a, updates[a][asg[a].current].figure, asg[a].status,
                        asg[a].current, Unpublished)
<1>1. Begin(w, r) /\ PeriodAccepts /\ UNCHANGED <<locked, rows>>
  BY DEF BeginReview, Begin
<1>2. asg[a].status \in {"submitted", "verified", "approved"}
  BY DecisionSources DEF BeginReview
<1>3. name = "approve" /\ cycle.verification => asg[a].status = "verified"
  BY DEF BeginReview, MayDecide, MayApprove, VerifiedIfRequired
<1>4. /\ r.step = step /\ r.op = name /\ r.on = a /\ r.status = asg[a].status
      /\ r.rev = asg[a].current
  BY DEF Request
<1>5. name # "submit"
  BY DEF Decision
<1> HIDE DEF r
<1>6. Found(r) /\ r.step # "off"
  BY <1>1, <1>2, <1>3, <1>4, <1>5 DEF Found
<1> QED
  BY <1>1, <1>6

(* The two requests that go on reading before they commit.                 *)
LEMMA SerialGoesOn ==
  ASSUME CycleInvariant, NEW w \in Worker, Found(req[w]), CountRevisions(w) \/ ReadPublished(w)
  PROVE  \E r : /\ InFlight(w) /\ req' = [req EXCEPT ![w] = r]
               /\ r.step # "off" /\ Found(r) /\ UNCHANGED <<locked, rows>>
<1> DEFINE q == req[w]
<1>1. CASE CountRevisions(w)
  <2> DEFINE r == Request("ready", "submit", q.user, q.on, q.figure, q.status,
                          Cardinality(DOMAIN updates[q.on]) + 1, Unpublished)
  <2>1. /\ q.step = "loaded" /\ q.op = "submit"
        /\ req' = [req EXCEPT ![w] = r] /\ UNCHANGED <<locked, rows>>
    BY <1>1 DEF CountRevisions
  <2>2. r.step = "ready" /\ r.op = "submit" /\ r.on = q.on /\ r.status = q.status
    BY DEF Request
  <2> HIDE DEF r
  <2>3. Found(r)
    BY <2>1, <2>2 DEF Found, Decision
  <2> QED
    BY <2>1, <2>2, <2>3 DEF InFlight
<1>2. CASE ReadPublished(w)
  <2> DEFINE r == Request("ready", "approve", q.user, q.on, q.figure, q.status, q.rev, published[q.on])
  <2>1. /\ q.step = "loaded" /\ q.op = "approve"
        /\ req' = [req EXCEPT ![w] = r] /\ UNCHANGED <<locked, rows>>
    BY <1>2 DEF ReadPublished
  <2>2. /\ r.step = "ready" /\ r.op = "approve" /\ r.on = q.on /\ r.status = q.status
        /\ r.rev = q.rev /\ r.prior = published[q.on]
    BY DEF Request
  <2> HIDE DEF r
  <2>3. Found(r)
    BY <2>1, <2>2 DEF Found, Decision
  <2> QED
    BY <2>1, <2>2, <2>3 DEF InFlight
<1> QED
  BY <1>1, <1>2

LEMMA SerialSubmission ==
  ASSUME CycleAssumption, CycleInvariant, RowsStand, NEW w \in Worker, Found(req[w]), CommitSubmit(w)
  PROVE  RowsStand' /\ PeriodAccepts
<1> DEFINE r == req[w]
           a == r.on
           e == AuditEvent("submit", r.user, r.status, "submitted", r.rev)
<1>1. /\ r \in DecisionRequest /\ a \in Assignment /\ Exists(a)
      /\ r.rev \in Revision
      /\ \A b \in Assignment : \A n \in DOMAIN updates[b] :
           n \in DOMAIN updates'[b] /\ updates'[b][n] = updates[b][n]
      /\ \A b \in Assignment : b # a => updates'[b] = updates[b]
  BY SubmitTakesNext DEF DecisionRequest
<1>2. r.step = "ready" /\ r.op = "submit" /\ PeriodAccepts /\ r.status = asg[a].status
  BY DEF CommitSubmit, Found
<1>3. /\ asg' = [asg EXCEPT ![a] = Resubmitted(r, @)]
      /\ trail' = [trail EXCEPT ![a] = Append(@, e)]
      /\ UNCHANGED <<cycle, published>>
  BY DEF CommitSubmit
<1> HIDE DEF r, a
<1>4. /\ asg'[a].status = "submitted" /\ trail'[a] = Append(trail[a], e)
      /\ \A b \in Assignment : b # a => asg'[b] = asg[b] /\ trail'[b] = trail[b]
  BY <1>1, <1>2, <1>3 DEF Resubmitted, CycleInvariant, TypeOK
<1>5. e \in Event /\ e.before = r.status /\ e.after = "submitted" /\ trail[a] \in Seq(Event)
  BY <1>1 DEF AuditEvent, Event, DecisionRequest, EventName, AssignmentStatus, CycleInvariant, TypeOK
<1> HIDE DEF e
<1>6. Chain(trail'[a], "submitted")
  BY <1>1, <1>2, <1>4, <1>5, ChainGrows DEF RowsStand, Stands, Exists
<1>7. published[a].ref # 0 => published[a].figure = updates'[a][published[a].ref].figure
  BY <1>1 DEF RowsStand, Stands, CycleInvariant, PublishedWasApproved
<1>8. Stands(asg'[a], published[a], updates'[a], trail'[a])
  BY <1>4, <1>6, <1>7 DEF Stands
<1>9. \A b \in Assignment : Stands(asg'[b], published[b], updates'[b], trail'[b])
  BY <1>1, <1>4, <1>8 DEF RowsStand
<1>10. cycle.status = "absent" => \A b \in Assignment : asg'[b].status = "absent"
  BY <1>1, <1>4 DEF RowsStand, Exists
<1> QED
  BY <1>2, <1>3, <1>9, <1>10 DEF RowsStand, Stands, Exists

LEMMA SerialReview ==
  ASSUME CycleAssumption, CycleInvariant, RowsStand, NEW w \in Worker, Found(req[w]), CommitReview(w)
  PROVE  RowsStand' /\ PeriodAccepts
<1> DEFINE r == req[w]
           a == r.on
           target == TargetOf(ASSIGNMENT_FLOW, r.op)
           e == AuditEvent(r.op, r.user, r.status, target, r.rev)
<1>1. /\ r \in DecisionRequest /\ a \in Assignment /\ r.op \in Decision /\ Exists(a)
      /\ r.rev \in DOMAIN updates[a] /\ updates[a][r.rev].figure = r.figure
      /\ r.op \in {"verify", "approve"} => updates[a][r.rev].by # r.user
  BY RequestKinds DEF CommitReview, CycleInvariant, InFlightIsTrue, HoldsOf, DecisionRequest
<1>2. /\ r.step = "ready" /\ PeriodAccepts
      /\ r.status = asg[a].status /\ r.rev = asg[a].current
      /\ r.op = "approve" /\ cycle.verification => asg[a].status = "verified"
      /\ r.op = "approve" => r.prior = published[a]
  BY <1>1 DEF CommitReview, Found
<1>3. /\ asg' = [asg EXCEPT ![a].status = target]
      /\ trail' = [trail EXCEPT ![a] = Append(@, e)]
      /\ UNCHANGED <<cycle, updates>>
      /\ r.op = "approve" => published' = [published EXCEPT ![a] = Published(r, @)]
      /\ r.op # "approve" => UNCHANGED published
  BY DEF CommitReview, Publish
<1> HIDE DEF r, a, target
<1>4. target = CASE r.op = "verify" -> "verified" [] r.op = "approve" -> "approved"
                 [] r.op = "return" -> "returned" [] r.op = "reopen" -> "returned"
  BY <1>1 DEF target, Decision, TargetOf, ASSIGNMENT_FLOW, Transition, ReasonedTransition
<1>5. /\ asg'[a].status = target /\ asg'[a].current = r.rev /\ trail'[a] = Append(trail[a], e)
      /\ \A b \in Assignment : b # a => asg'[b] = asg[b] /\ trail'[b] = trail[b]
  BY <1>1, <1>2, <1>3 DEF CycleInvariant, TypeOK
<1>6. /\ e.name = r.op /\ e.actor = r.user /\ e.before = r.status /\ e.after = target /\ e.rev = r.rev
      /\ trail[a] \in Seq(Event)
  BY <1>1 DEF AuditEvent, CycleInvariant, TypeOK
<1>7. e \in Event
  <2>1. target \in AssignmentStatus
    BY <1>1, <1>4 DEF Decision, AssignmentStatus
  <2>2. r.rev \in Revision
    BY <1>1 DEF CycleInvariant, CurrentIsLatest, TypeOK, Revision, DecisionRequest
  <2> QED
    BY <1>1, <2>1, <2>2 DEF AuditEvent, Event, DecisionRequest, EventName
<1> HIDE DEF e
<1>8. /\ Chain(trail'[a], target)
      /\ trail'[a][Len(trail'[a])] = e
  BY <1>1, <1>2, <1>5, <1>6, <1>7, ChainGrows DEF RowsStand, Stands, Exists
<1>9. /\ \A b \in Assignment : b # a => published'[b] = published[b]
      /\ r.op # "approve" => published'[a] = published[a]
      /\ r.op = "approve" => published'[a].ref = r.rev /\ published'[a].figure = r.figure
  BY <1>1, <1>2, <1>3 DEF Published, CycleInvariant, TypeOK
<1>10. target = "verified" \/ (target = "approved" /\ cycle.verification) => WasVerified(trail'[a], r.rev)
  <2>1. CASE r.op = "verify"
    BY <1>5, <1>6, <1>7, <2>1, VerifiedStays
  <2>2. CASE r.op = "approve" /\ cycle.verification
    BY <1>1, <1>2, <1>5, <1>6, <1>7, <2>2, VerifiedStays DEF RowsStand, Stands
  <2> QED
    BY <1>1, <1>4, <2>1, <2>2 DEF Decision
<1>11. target \in {"verified", "approved"} =>
         e.name \in {"verify", "approve"} /\ e.actor # updates[a][r.rev].by
  BY <1>1, <1>4, <1>6 DEF Decision
<1>12. published'[a].ref # 0 => published'[a].figure = updates[a][published'[a].ref].figure
  BY <1>1, <1>9 DEF RowsStand, Stands
<1>13. target = "approved" => published'[a].ref = r.rev
  BY <1>1, <1>4, <1>9 DEF Decision
<1>14. Stands(asg'[a], published'[a], updates[a], trail'[a])
  BY <1>5, <1>8, <1>10, <1>11, <1>12, <1>13 DEF Stands
<1>15. \A b \in Assignment : Stands(asg'[b], published'[b], updates[b], trail'[b])
  BY <1>5, <1>9, <1>14 DEF RowsStand
<1>16. cycle.status # "absent"
  BY <1>1 DEF RowsStand
<1> QED
  BY <1>2, <1>3, <1>15, <1>16 DEF RowsStand, Stands

(* The requests that commit or give up, served in turn.                    *)
LEMMA SerialFinish ==
  ASSUME CycleAssumption, CycleInvariant, RowsStand, NEW w \in Worker, Found(req[w]),
         CommitCycleTransition(w) \/ CommitSubmit(w) \/ CommitReview(w) \/ Abort(w)
  PROVE  /\ InFlight(w) /\ Finish(w)
         /\ RowsStand'
         /\ PeriodAccepts \/ UNCHANGED decisions
<1>1. InFlight(w) /\ Finish(w)
  BY DEF CommitCycleTransition, CommitSubmit, CommitReview, Abort, InFlight
<1>2. CASE CommitCycleTransition(w)
  <2>1. TargetOf(CYCLE_FLOW, req[w].op) # "absent"
    BY <1>2, RequestKinds
       DEF CycleInvariant, CommitCycleTransition, CycleRequest, CYCLE_FLOW, TargetOf, Transition,
           ReasonedTransition
  <2>2. /\ cycle'.status # "absent" /\ cycle'.verification = cycle.verification
        /\ UNCHANGED <<asg, published, updates, trail>>
    BY <1>2, <2>1 DEF CommitCycleTransition, CycleInvariant, TypeOK
  <2>3. PeriodAccepts
    BY <1>2 DEF CommitCycleTransition, Found
  <2> QED
    BY <1>1, <2>2, <2>3, RowsRest
<1>3. CASE Abort(w)
  BY <1>1, <1>3, RowsRest DEF Abort, rows, decisions
<1> QED
  BY <1>1, <1>2, <1>3, SerialSubmission, SerialReview

Begins(w) ==
  \/ \E u \in User, name \in DOMAIN CYCLE_FLOW, reasoned \in BOOLEAN :
       BeginCycleTransition(w, u, name, reasoned)
  \/ \E u \in User, a \in Assignment, figure \in Figure : BeginSubmit(w, u, a, figure)
  \/ \E u \in User, a \in Assignment, name \in Decision, reasoned \in BOOLEAN :
       BeginReview(w, u, a, name, reasoned)

LEMMA SerialStep ==
  ASSUME CycleAssumption, RequestsAssumption, CycleInvariant, SerialInvariant, [CycleNext]_vars
  PROVE  SerialInvariant' /\ (Serial => PeriodAccepts \/ UNCHANGED decisions)
<1>1. DOMAIN req = Worker
  BY DEF CycleInvariant, TypeOK
<1>2. CASE UNCHANGED vars
  <2>1. UNCHANGED <<cycle, asg, published, updates, trail, req, locked>>
    BY <1>2 DEF vars, rows
  <2>2. Serial => RowsStand' /\ \A w \in Worker : Found(req[w])'
    BY <2>1, RowsRest DEF SerialInvariant, Found, PeriodAccepts, IsOpen
  <2> QED
    BY <2>1, <2>2 DEF SerialInvariant, Serial, decisions
<1>3. CASE CreateCycle \/ GenerateAssignments \/ UpdateAssignment \/ LockOrReopenPeriod
  <2>1. Free /\ UNCHANGED req /\ (Serial' <=> Serial)
    BY <1>3 DEF CreateCycle, GenerateAssignments, UpdateAssignment, LockOrReopenPeriod, Serial
  <2>2. Serial => \A v \in Worker : Found(req[v])'
    BY <2>1, SerialIsAlone DEF InFlight, Found
  <2> QED
    BY <1>3, <2>1, <2>2, SerialManaging DEF SerialInvariant
<1>4. ASSUME NEW w \in Worker, Begins(w)
      PROVE  SerialInvariant' /\ (Serial => PeriodAccepts \/ UNCHANGED decisions)
  <2>1. PICK r : Begin(w, r) /\ r.step # "off" /\ Found(r) /\ UNCHANGED <<locked, rows>>
    BY <1>4, SerialBeginCycle, SerialBeginSubmit, SerialBeginReview DEF Begins
  <2>2. /\ Serial' <=> Serial
        /\ req'[w] = r
        /\ Serial => \A v \in Worker : v # w => req'[v].step = "off"
    BY <1>1, <2>1, SerialBegins
  <2>3. UNCHANGED <<cycle, asg, published, updates, trail, locked>>
    BY <2>1 DEF rows
  <2>4. Serial => RowsStand'
    BY <2>3, RowsRest DEF SerialInvariant
  <2>5. Serial => \A v \in Worker : Found(req[v])'
    BY <2>1, <2>2, <2>3 DEF Found, PeriodAccepts, IsOpen
  <2> QED
    BY <2>2, <2>3, <2>4, <2>5 DEF SerialInvariant, decisions
<1>5. ASSUME NEW w \in Worker, CountRevisions(w) \/ ReadPublished(w)
      PROVE  SerialInvariant' /\ (Serial => PeriodAccepts \/ UNCHANGED decisions)
  <2>1. CASE ~Serial
    <3>1. ~Serial'
      <4>1. InFlight(w)
        BY <1>5 DEF CountRevisions, ReadPublished, InFlight
      <4>2. PICK r : req' = [req EXCEPT ![w] = r] /\ r.step # "off"
        BY <1>5 DEF CountRevisions, ReadPublished, Request
      <4> QED
        BY <1>1, <2>1, <4>1, <4>2, SerialContinues
    <3> QED
      BY <2>1, <3>1 DEF SerialInvariant
  <2>2. CASE Serial
    <3>1. PICK r : /\ InFlight(w) /\ req' = [req EXCEPT ![w] = r]
                   /\ r.step # "off" /\ Found(r) /\ UNCHANGED <<locked, rows>>
      BY <1>5, <2>2, SerialGoesOn DEF SerialInvariant
    <3>2. /\ Serial' /\ req'[w] = r
          /\ \A v \in Worker : v # w => req'[v].step = "off"
      BY <1>1, <2>2, <3>1, SerialContinues
    <3>3. UNCHANGED <<cycle, asg, published, updates, trail, locked>>
      BY <3>1 DEF rows
    <3>4. RowsStand'
      BY <2>2, <3>3, RowsRest DEF SerialInvariant
    <3>5. \A v \in Worker : Found(req[v])'
      BY <3>1, <3>2, <3>3 DEF Found, PeriodAccepts, IsOpen
    <3> QED
      BY <3>3, <3>4, <3>5 DEF SerialInvariant, decisions
  <2> QED
    BY <2>1, <2>2
<1>6. ASSUME NEW w \in Worker,
             CommitCycleTransition(w) \/ CommitSubmit(w) \/ CommitReview(w) \/ Abort(w)
      PROVE  SerialInvariant' /\ (Serial => PeriodAccepts \/ UNCHANGED decisions)
  <2>1. InFlight(w) /\ Finish(w)
    BY <1>6 DEF CommitCycleTransition, CommitSubmit, CommitReview, Abort, InFlight
  <2>2. /\ Serial' <=> Serial
        /\ Serial => \A v \in Worker : req'[v].step \in {"idle", "off"}
    BY <1>1, <2>1, SerialFinishes
  <2>3. Serial => RowsStand' /\ (PeriodAccepts \/ UNCHANGED decisions)
    BY <1>6, SerialFinish DEF SerialInvariant
  <2> QED
    BY <2>2, <2>3 DEF SerialInvariant, Found
<1> QED
  BY <1>2, <1>3, <1>4, <1>5, <1>6 DEF CycleNext, Begins

(* Of serial requests, both invariants hold.                               *)
THEOREM SerialInvariantHolds == CycleSpec => []SerialInvariant
<1>1. CycleInit => SerialInvariant
  <2>1. CycleInit => \A w \in Worker : req[w].step \in {"idle", "off"}
    BY DEF CycleInit, RequestsInit, Idle, Off
  <2>2. CycleInit => RowsStand
    BY DEF CycleInit, RowsStand, Stands, Chain, Exists, NoAssignment, Unpublished
  <2> QED
    BY <2>1, <2>2 DEF SerialInvariant, Found
<1>2. CycleInvariant /\ SerialInvariant /\ [CycleNext]_vars => SerialInvariant'
  BY SerialStep, CycleAssumption, RequestsAssumption
<1> QED
  BY <1>1, <1>2, CycleInvariantHolds, PTL DEF CycleSpec

(* Of serial requests, what stands verified, approved or published is what *)
(* the trail and the submissions bear out, and the trail is a chain of the *)
(* states the assignment went through (submit_update, review_update,       *)
(* reopen_update, _publish).                                               *)
THEOREM DecisionsStand == CycleSpec => []DecisionsStandOnTheTrail
<1>1. CycleInvariant /\ SerialInvariant => ApprovedWasVerified
  <2>1. ASSUME CycleInvariant, SerialInvariant, Serial, cycle.verification, NEW a \in Assignment,
               asg[a].status = "approved"
        PROVE  \E i \in 1..Len(trail[a]) :
                 /\ trail[a][i].name = "verify"
                 /\ trail[a][i].rev = asg[a].current
                 /\ trail[a][i].actor # updates[a][asg[a].current].by
    <3>1. PICK i \in 1..Len(trail[a]) : trail[a][i].name = "verify" /\ trail[a][i].rev = asg[a].current
      BY <2>1 DEF SerialInvariant, RowsStand, Stands, WasVerified
    <3> QED
      BY <2>1, <3>1 DEF CycleInvariant, FourEyes
  <2> QED
    BY <2>1 DEF ApprovedWasVerified
<1>2. SerialInvariant => ApprovedIsPublished
  BY DEF SerialInvariant, RowsStand, Stands, ApprovedIsPublished
<1>3. CycleInvariant /\ SerialInvariant => SerialDecisionsAreSomebodyElses
  <2> SUFFICES ASSUME CycleInvariant, SerialInvariant, Serial, NEW a \in Assignment,
                      asg[a].status \in {"verified", "approved"},
                      NEW i \in 1..Len(trail[a]), LastSignOff(a, i)
               PROVE  trail[a][i].actor # updates[a][asg[a].current].by
    BY DEF SerialDecisionsAreSomebodyElses, NobodyDecidesTheirOwn
  <2>1. /\ trail[a][Len(trail[a])].name \in {"verify", "approve"}
        /\ trail[a][Len(trail[a])].actor # updates[a][asg[a].current].by
    BY DEF SerialInvariant, RowsStand, Stands
  <2>2. Len(trail[a]) \in Nat
    <3>1. trail[a] \in Seq(Event)
      BY DEF CycleInvariant, TypeOK
    <3> DEFINE E == Event
    <3> HIDE DEF E
    <3>2. trail[a] \in Seq(E)
      BY <3>1 DEF E
    <3> QED
      BY <3>2
  <2>3. i = Len(trail[a])
    <3>1. CASE i < Len(trail[a])
      <4>1. Len(trail[a]) \in (i + 1)..Len(trail[a])
        BY <2>2, <3>1
      <4> QED
        BY <2>1, <4>1 DEF LastSignOff
    <3> QED
      BY <2>2, <3>1
  <2> QED
    BY <2>1, <2>3
<1>4. SerialInvariant => TrailIsAChain
  BY DEF SerialInvariant, RowsStand, Stands, Chain, TrailIsAChain
<1> QED
  BY <1>1, <1>2, <1>3, <1>4, CycleInvariantHolds, SerialInvariantHolds, PTL DEF DecisionsStandOnTheTrail

(* Of serial requests, none lands in a locked period: its lock cannot fall *)
(* between their check and their commit (periods.assert_open).             *)
THEOREM LockedPeriodsAreFrozen == CycleSpec => LockFreezesDecisions
<1> DEFINE Frozen == Serial /\ Containing(CyclePeriod) \cap locked # {} => UNCHANGED decisions
<1>1. ASSUME CycleInvariant, SerialInvariant, [CycleNext]_vars
      PROVE  Frozen
  BY <1>1, SerialStep, CycleAssumption, RequestsAssumption DEF PeriodAccepts, IsOpen
<1>2. CycleInvariant /\ SerialInvariant /\ [CycleNext]_vars => [Frozen]_vars
  BY <1>1
<1> QED
  BY <1>2, CycleInvariantHolds, SerialInvariantHolds, PTL DEF CycleSpec, LockFreezesDecisions
=============================================================================
