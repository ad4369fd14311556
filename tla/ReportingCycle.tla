--------------------------- MODULE ReportingCycle ---------------------------
(***************************************************************************)
(* A reporting cycle of the strategy module (app/modules/strategy/         *)
(* service.py): a manager creates the cycle and its assignments, the       *)
(* contributor submits progress updates, each a new revision, and somebody *)
(* else verifies, approves, returns or reopens them.  Approval publishes   *)
(* the figure.                                                             *)
(*                                                                         *)
(* A request is several steps: it loads the rows its checks look at, it    *)
(* may read more, and it commits.  Other requests commit in between        *)
(* (Requests).  The ORM writes only the columns whose value differs from   *)
(* the loaded one, and the unique constraints are what the database checks *)
(* when it commits.                                                        *)
(***************************************************************************)
EXTENDS Naturals, Sequences, FiniteSets, Workflow, Periods, Requests

CONSTANTS
  User,            \* accounts
  Nobody,          \* an empty username column
  Assignment,      \* the indicator and unit pairs generate_assignments creates
  RoleOn,          \* RoleOn[a][u]: the role of u on the unit of a (Scope.role_on)
  ReadOnly,        \* accounts whose account-level role is viewer
  Manager,         \* accounts holding the strategy_manager duty
  CyclePeriod,     \* the period the cycle reports on
  Named,           \* bound on the accounts assignments are given to
  Value,           \* reported figures
  MaxRevision,     \* bound on the submissions of one assignment
  MaxEvents        \* bound on the audit events of one assignment

Role == {"none", "viewer", "contributor", "reviewer", "approver"}

Figure == Value \cup {"na", "pending"}

ASSUME CycleAssumption ==
  /\ Nobody \notin User
  /\ RoleOn \in [Assignment -> [User -> Role]]
  /\ ReadOnly \subseteq User
  /\ Manager \subseteq User
  /\ CyclePeriod \in Period
  /\ Named \subseteq User
  /\ Value \cap {"na", "pending"} = {}
  /\ MaxRevision \in Nat
  /\ MaxEvents \in Nat

VARIABLES
  cycle,           \* the reporting_cycles row
  asg,             \* the cycle_assignments rows: state and current_update_id
  named,           \* the people named on them
  updates,         \* the progress_updates rows, by assignment and revision
  published,       \* the metric_values row an approval writes
  trail            \* the audit events about each assignment, oldest first

rows == <<cycle, asg, named, updates, published, trail>>
vars == <<locked, rows, req>>

-----------------------------------------------------------------------------
(* Workflows, roles and rows.                                              *)

CYCLE_FLOW ==
  [open   |-> Transition({"draft"}, "open"),
   close  |-> Transition({"open"}, "closed"),
   reopen |-> ReasonedTransition({"closed"}, "open")]

ASSIGNMENT_FLOW ==
  [submit  |-> Transition({"not_submitted", "returned", "submitted"}, "submitted"),
   verify  |-> Transition({"submitted"}, "verified"),
   approve |-> Transition({"submitted", "verified"}, "approved"),
   return  |-> ReasonedTransition({"submitted", "verified"}, "returned"),
   reopen  |-> ReasonedTransition({"approved"}, "returned")]

Decision == {"verify", "approve", "return", "reopen"}

Rank == [none |-> 0, viewer |-> 1, contributor |-> 2, reviewer |-> 3, approver |-> 4]

(* Scope.can_see and Scope.can, on the unit of the assignment.             *)
CanSee(u, a) == RoleOn[a][u] # "none"

Can(u, a, role) ==
  /\ CanSee(u, a)
  /\ role # "viewer" => u \notin ReadOnly
  /\ Rank[RoleOn[a][u]] >= Rank[role]

(* _manager: the duty, and an account that may write.                      *)
IsManager(u) == u \in Manager \ ReadOnly

CycleStatus == {"absent", "draft", "open", "closed"}
AssignmentStatus ==
  {"absent", "not_submitted", "submitted", "verified", "approved", "returned"}

NoCycle == [status |-> "absent", verification |-> FALSE]
NoAssignment == [status |-> "absent", current |-> 0]
NewAssignment_WrongState == [status |-> "draft", current |-> 0]
NewAssignment == [status |-> "not_submitted", current |-> 0]
NobodyNamed == [contributor |-> Nobody, reviewer |-> Nobody]
Unpublished == [ref |-> 0, figure |-> "na"]

Exists(a) == asg[a].status # "absent"

(* A request in flight: what was asked, and what it has loaded so far.     *)
Request(step, op, u, a, figure, status, rev, prior) ==
  [step |-> step, op |-> op, user |-> u, on |-> a, figure |-> figure,
   status |-> status, rev |-> rev, prior |-> prior]

(* assert_open on the cycle's period, wherever a handler calls it.         *)
PeriodAccepts_OwnLockOnly == CyclePeriod \notin locked
PeriodAccepts == IsOpen(CyclePeriod)

CycleInit ==
  /\ PeriodsInit
  /\ cycle = NoCycle
  /\ asg = [a \in Assignment |-> NoAssignment]
  /\ named = [a \in Assignment |-> NobodyNamed]
  /\ updates = [a \in Assignment |-> <<>>]
  /\ published = [a \in Assignment |-> Unpublished]
  /\ trail = [a \in Assignment |-> <<>>]
  /\ RequestsInit

-----------------------------------------------------------------------------
(* Managing the cycle.  These run in one step: the unique constraints on   *)
(* (plan, period) and (cycle, indicator, unit) turn their races into a     *)
(* failed request.                                                         *)

CreateCycle ==
  /\ Free
  /\ \E u \in User : IsManager(u)
  /\ PeriodAccepts
  /\ cycle.status = "absent"
  /\ \E v \in BOOLEAN : cycle' = [status |-> "draft", verification |-> v]
  /\ UNCHANGED <<locked, asg, named, updates, published, trail, req>>

(* generate_assignments adds the missing ones; the contributor is the      *)
(* indicator's owner.  The period lock is not looked at here.              *)
GenerateAssignments ==
  /\ Free
  /\ \E u \in User : IsManager(u)
  /\ cycle.status \in {"draft", "open"}
  /\ \E new \in SUBSET {a \in Assignment : ~Exists(a)}, owner \in Named \cup {Nobody} :
       /\ new # {}
       /\ asg' = [a \in Assignment |-> IF a \in new THEN NewAssignment ELSE asg[a]]
       /\ named' = [a \in Assignment |->
                     IF a \in new THEN [contributor |-> owner, reviewer |-> Nobody]
                     ELSE named[a]]
  /\ UNCHANGED <<locked, cycle, updates, published, trail, req>>

(* update_assignment: a manager names the contributor or the reviewer, at  *)
(* any time, whatever the state of the cycle and of the period.            *)
UpdateAssignment ==
  /\ Free
  /\ \E u \in User : IsManager(u)
  /\ \E a \in Assignment, c \in Named \cup {Nobody}, r \in Named \cup {Nobody} :
       /\ Exists(a)
       /\ named' = [named EXCEPT ![a] = [contributor |-> c, reviewer |-> r]]
  /\ UNCHANGED <<locked, cycle, asg, updates, published, trail, req>>

LockOrReopenPeriod ==
  /\ Free
  /\ \E p \in Period : LockPeriod(p) \/ ReopenPeriod(p)
  /\ UNCHANGED <<rows, req>>

(* transition_cycle: the checks, then the commit.                          *)
BeginCycleTransition(w, u, name, reasoned) ==
  /\ req[w].step = "idle"
  /\ IsManager(u)
  /\ PeriodAccepts
  /\ name = "open" => \E a \in Assignment : Exists(a)
  /\ Permits(CYCLE_FLOW, name, cycle.status, reasoned)
  /\ req' = [req EXCEPT ![w] = [step |-> "cycle", op |-> name]]
  /\ UNCHANGED <<locked, rows>>

CommitCycleTransition(w) ==
  /\ req[w].step = "cycle"
  /\ cycle' = [cycle EXCEPT !.status = TargetOf(CYCLE_FLOW, req[w].op)]
  /\ Finish(w)
  /\ UNCHANGED <<locked, asg, named, updates, published, trail>>

-----------------------------------------------------------------------------
(* Submitting: submit_update.                                              *)

MaySubmit(u, a) ==
  /\ u \notin ReadOnly
  /\ named[a].contributor = u \/ Can(u, a, "contributor")

BeginSubmit(w, u, a, figure) ==
  /\ req[w].step = "idle"
  /\ Len(trail[a]) < MaxEvents
  /\ Exists(a) /\ CanSee(u, a)
  /\ cycle.status = "open"
  /\ PeriodAccepts
  /\ MaySubmit(u, a)
  /\ Permits(ASSIGNMENT_FLOW, "submit", asg[a].status, FALSE)
  /\ req' = [req EXCEPT ![w] =
              Request("loaded", "submit", u, a, figure, asg[a].status, 0, Unpublished)]
  /\ UNCHANGED <<locked, rows>>

(* The next revision is one more than the rows counted now.                *)
CountRevisions(w) ==
  LET r == req[w]
      count == Cardinality(DOMAIN updates[r.on])
  IN /\ r.step = "loaded" /\ r.op = "submit"
     /\ count < MaxRevision
     /\ req' = [req EXCEPT ![w] = Request("ready", "submit", r.user, r.on, r.figure,
                                         r.status, count + 1, Unpublished)]
     /\ UNCHANGED <<locked, rows>>

(* uq_update_revision.                                                     *)
RevisionIsFree_NoConstraint(a, rev) == TRUE
RevisionIsFree(a, rev) == rev \notin DOMAIN updates[a]

(* The assignment a submission leaves.  The status column is written only  *)
(* if the loaded status was another one.                                   *)
Resubmitted(r, row) ==
  [status |-> IF r.status = "submitted" THEN row.status ELSE "submitted", current |-> r.rev]

CommitSubmit(w) ==
  LET r == req[w]
      a == r.on
  IN /\ r.step = "ready" /\ r.op = "submit"
     /\ RevisionIsFree(a, r.rev)
     /\ updates' = [updates EXCEPT ![a] =
                     [n \in DOMAIN updates[a] \cup {r.rev} |->
                       IF n = r.rev THEN [by |-> r.user, figure |-> r.figure]
                                    ELSE updates[a][n]]]
     /\ asg' = [asg EXCEPT ![a] = Resubmitted(r, @)]
     /\ trail' = [trail EXCEPT ![a] =
                   Append(@, AuditEvent("submit", r.user, r.status, "submitted", r.rev))]
     /\ Finish(w)
     /\ UNCHANGED <<locked, cycle, named, published>>

-----------------------------------------------------------------------------
(* Deciding: review_update and _publish.                                   *)

Submitter(a) == IF asg[a].current = 0 THEN Nobody ELSE updates[a][asg[a].current].by

(* Segregation of duties: the latest submission is somebody else's.        *)
NotOwn_AsksContributor(u, a) == named[a].contributor # u
NotOwn(u, a) == Submitter(a) # u

MayVerify(u, a) ==
  /\ cycle.verification
  /\ Can(u, a, "reviewer")
  /\ NotOwn(u, a)
  /\ named[a].reviewer \in {Nobody, u} \/ Can(u, a, "approver")

VerifiedIfRequired_Never(a) == TRUE
VerifiedIfRequired(a) == cycle.verification => asg[a].status = "verified"

HasFigure(a) == updates[a][asg[a].current].figure # "pending"

MayApprove(u, a) ==
  /\ VerifiedIfRequired(a)
  /\ Can(u, a, "approver")
  /\ HasFigure(a)
  /\ NotOwn(u, a)

MayDecide(name, u, a) ==
  CASE name = "verify"  -> MayVerify(u, a)
    [] name = "approve" -> MayApprove(u, a)
    [] name = "return"  -> Can(u, a, "reviewer")
    [] name = "reopen"  -> Can(u, a, "approver") /\ cycle.status # "closed"

BeginReview(w, u, a, name, reasoned) ==
  /\ req[w].step = "idle"
  /\ Len(trail[a]) < MaxEvents
  /\ Exists(a) /\ CanSee(u, a)
  /\ Permits(ASSIGNMENT_FLOW, name, asg[a].status, reasoned)
  /\ PeriodAccepts
  /\ MayDecide(name, u, a)
  /\ req' = [req EXCEPT ![w] =
              Request(IF name = "approve" THEN "loaded" ELSE "ready", name, u, a,
                      updates[a][asg[a].current].figure, asg[a].status, asg[a].current,
                      Unpublished)]
  /\ UNCHANGED <<locked, rows>>

(* _publish looks for the metric value it will insert or update.           *)
ReadPublished(w) ==
  LET r == req[w]
  IN /\ r.step = "loaded" /\ r.op = "approve"
     /\ req' = [req EXCEPT ![w] = Request("ready", "approve", r.user, r.on, r.figure,
                                         r.status, r.rev, published[r.on])]
     /\ UNCHANGED <<locked, rows>>

(* The metric value a publication leaves: an update writes the value       *)
(* column only if it differs from the value loaded.                        *)
Published_LatestReference(r, row) == [ref |-> asg[r.on].current, figure |-> r.figure]
Published(r, row) ==
  [ref |-> r.rev,
   figure |-> IF r.prior.ref # 0 /\ r.prior.figure = r.figure THEN row.figure ELSE r.figure]

(* An insert needs the unique key to be free still.                        *)
Publish(r) ==
  /\ r.prior.ref = 0 => published[r.on].ref = 0
  /\ published' = [published EXCEPT ![r.on] = Published(r, @)]

CommitReview(w) ==
  LET r == req[w]
      a == r.on
  IN /\ r.step = "ready" /\ r.op \in Decision
     /\ asg' = [asg EXCEPT ![a].status = TargetOf(ASSIGNMENT_FLOW, r.op)]
     /\ trail' = [trail EXCEPT ![a] =
                   Append(@, AuditEvent(r.op, r.user, r.status,
                                        TargetOf(ASSIGNMENT_FLOW, r.op), r.rev))]
     /\ IF r.op = "approve" THEN Publish(r) ELSE UNCHANGED published
     /\ Finish(w)
     /\ UNCHANGED <<locked, cycle, named, updates>>

(* A request dies before its commit: a failed constraint, a lost           *)
(* connection, a server restart.  The transaction rolls back.              *)
Abort(w) ==
  /\ InFlight(w)
  /\ Finish(w)
  /\ UNCHANGED <<locked, rows>>

-----------------------------------------------------------------------------
CycleNext ==
  \/ CreateCycle
  \/ GenerateAssignments
  \/ UpdateAssignment
  \/ LockOrReopenPeriod
  \/ \E w \in Worker :
       \/ \E u \in User, name \in DOMAIN CYCLE_FLOW, reasoned \in BOOLEAN :
            BeginCycleTransition(w, u, name, reasoned)
       \/ CommitCycleTransition(w)
       \/ \E u \in User, a \in Assignment, figure \in Figure : BeginSubmit(w, u, a, figure)
       \/ CountRevisions(w)
       \/ CommitSubmit(w)
       \/ \E u \in User, a \in Assignment, name \in Decision, reasoned \in BOOLEAN :
            BeginReview(w, u, a, name, reasoned)
       \/ ReadPublished(w)
       \/ CommitReview(w)
       \/ Abort(w)

CycleSpec == CycleInit /\ [][CycleNext]_vars
-----------------------------------------------------------------------------
(* Types.                                                                  *)

Revision == 1..MaxRevision
Submission == [by : User, figure : Figure]
EventName == {"submit"} \cup Decision

Event == [name : EventName, actor : User, before : AssignmentStatus,
          after : AssignmentStatus, rev : Revision]

UpdateTable == UNION {[R -> Submission] : R \in SUBSET Revision}

DecisionRequest ==
  [step : {"loaded", "ready"}, op : EventName, user : User, on : Assignment,
   figure : Figure, status : AssignmentStatus, rev : 0..MaxRevision,
   prior : [ref : 0..MaxRevision, figure : Figure]]

CycleRequest == [step : {"cycle"}, op : DOMAIN CYCLE_FLOW]

(* The rows and the requests have the types the columns and the handlers'  *)
(* locals have; a revision never exceeds the count of submissions.         *)
TypeOK ==
  /\ PeriodsTypeOK
  /\ cycle \in [status : CycleStatus, verification : BOOLEAN]
  /\ asg \in [Assignment -> [status : AssignmentStatus, current : 0..MaxRevision]]
  /\ named \in [Assignment -> [contributor : User \cup {Nobody},
                               reviewer : User \cup {Nobody}]]
  /\ updates \in [Assignment -> UpdateTable]
  /\ published \in [Assignment -> [ref : 0..MaxRevision, figure : Figure]]
  /\ trail \in [Assignment -> Seq(Event)]
  /\ req \in [Worker -> {Idle, Off} \cup DecisionRequest \cup CycleRequest]

-----------------------------------------------------------------------------
(* What holds however the requests interleave.                             *)

(* The audit trail never shows anyone verifying or approving the revision  *)
(* they had submitted themselves (review_update's segregation of duties).  *)
FourEyes ==
  \A a \in Assignment : \A i \in 1..Len(trail[a]) :
    trail[a][i].name \in {"verify", "approve"}
      => trail[a][i].actor # updates[a][trail[a][i].rev].by

(* The metric value names a revision that was submitted with a figure and  *)
(* that the trail shows approved, whatever was resubmitted meanwhile.      *)
PublishedWasApproved ==
  \A a \in Assignment :
    published[a].ref # 0 =>
      /\ published[a].ref \in DOMAIN updates[a]
      /\ updates[a][published[a].ref].figure # "pending"
      /\ \E i \in 1..Len(trail[a]) :
           trail[a][i].name = "approve" /\ trail[a][i].rev = published[a].ref

(* Approval publishes what a second person approved: the cycle implements  *)
(* maker-checker publication, the published reference being the release.   *)
Checks(a) ==
  {[rev |-> trail[a][i].rev, by |-> trail[a][i].actor] :
     i \in {j \in 1..Len(trail[a]) : trail[a][j].name = "approve"}}

Governed == INSTANCE MakerChecker WITH
  Item <- Assignment, Actor <- User, Content <- Figure, Withheld <- {"pending"},
  filed <- updates,
  checks <- [a \in Assignment |-> Checks(a)],
  released <- [a \in Assignment |-> published[a].ref]

ImplementsMakerChecker == Governed!Spec

-----------------------------------------------------------------------------
(* What holds of serial requests, and not of racing ones.                  *)

(* In a cycle with verification, an approved assignment stands on a        *)
(* revision that somebody other than its submitter has verified.           *)
ApprovedWasVerified ==
  Serial /\ cycle.verification =>
    \A a \in Assignment : asg[a].status = "approved" =>
      \E i \in 1..Len(trail[a]) :
        /\ trail[a][i].name = "verify"
        /\ trail[a][i].rev = asg[a].current
        /\ trail[a][i].actor # updates[a][asg[a].current].by

(* An approved assignment shows its latest revision, and so does the       *)
(* published metric value, reference and figure; whatever else happens the *)
(* published figure stays the figure of the revision its reference names.  *)
ApprovedIsPublished ==
  Serial => \A a \in Assignment :
    /\ asg[a].status = "approved" => published[a].ref = asg[a].current
    /\ published[a].ref # 0 => published[a].figure = updates[a][published[a].ref].figure

(* The trail's last verification or approval, whatever has come after it.  *)
LastSignOff(a, i) ==
  /\ trail[a][i].name \in {"verify", "approve"}
  /\ \A j \in (i + 1)..Len(trail[a]) : trail[a][j].name \notin {"verify", "approve"}

(* A verified or approved assignment does not stand on a submission of the *)
(* person who verified or approved it: whoever the trail shows to have     *)
(* signed it off last is not the submitter of its current revision         *)
(* (PERFORMANCE_GOVERNANCE.md:133).  A resubmission of the verifier's own  *)
(* that commits after the verification breaks it: it leaves the status as  *)
(* it is and moves the current revision (service.py:720-723).              *)
NobodyDecidesTheirOwn ==
  \A a \in Assignment :
    asg[a].status \in {"verified", "approved"} =>
      \A i \in 1..Len(trail[a]) :
        LastSignOff(a, i) => trail[a][i].actor # updates[a][asg[a].current].by

SerialDecisionsAreSomebodyElses == Serial => NobodyDecidesTheirOwn

(* Each audit event starts in the state the event before it ended in, and  *)
(* the last one ended in the state the row is in.                          *)
TrailIsAChain ==
  Serial => \A a \in Assignment : trail[a] # <<>> =>
    /\ trail[a][1].before = "not_submitted"
    /\ \A i \in 2..Len(trail[a]) : trail[a][i].before = trail[a][i-1].after
    /\ trail[a][Len(trail[a])].after = asg[a].status

(* Requests served one after the other leave no assignment verified or     *)
(* approved that its trail, its revisions and the metric value it publishes *)
(* do not bear out (submit_update, review_update, reopen_update, _publish).*)
DecisionsStandOnTheTrail ==
  ApprovedWasVerified /\ ApprovedIsPublished /\ SerialDecisionsAreSomebodyElses /\ TrailIsAChain

(* While the cycle's period is locked, itself or a longer period around    *)
(* it, no submission, decision, publication or cycle transition lands;     *)
(* only assignments are still generated and renamed.                       *)
decisions ==
  <<cycle, [a \in {b \in Assignment : updates[b] # <<>>} |-> asg[a].status], updates, published>>

LockFreezesDecisions ==
  [][Serial /\ Containing(CyclePeriod) \cap locked # {} => UNCHANGED decisions]_vars
=============================================================================
