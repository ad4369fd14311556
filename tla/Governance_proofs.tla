-------------------------- MODULE Governance_proofs --------------------------
(***************************************************************************)
(* Proofs about Governance and MCPlanning, the records whose work ends up  *)
(* in the tracker, for any people, matrices, schemes, trees and number of  *)
(* workers.  However requests race: what a reader is offered is what the   *)
(* server would take, follow-up that was promised is in the tracker, every *)
(* rating of the risk is in a band of a matrix that exists, the trees of a *)
(* plan are trees, and a module with records has a policy in force.  Served*)
(* one after the other: no work is signed off by the one who answers for   *)
(* it, the row of the risk shows the last rating of each kind in its       *)
(* matrix's band, a completed evaluation was answered, a contract is rated *)
(* on the scale of its scheme, and the history of an appraisal explains it.*)
(***************************************************************************)
EXTENDS Governance, MCPlanning, Requests_proofs

(* The rows.                                                               *)
ActionRow ==
  [status : {"absent", "open", "in_progress", "completed", "closed", "cancelled"},
   owner : User \cup {Nobody}, created_by : User \cup {Nobody}, closed_by : User \cup {Nobody},
   completed : BOOLEAN, source : {"none", "audit_finding", "resolution"}]

FindingRow ==
  [status : {"absent", "open", "response_submitted", "agreed", "closure_requested", "closed"},
   auditor : User \cup {Nobody}, owner : User \cup {Nobody},
   responded_by : User \cup {Nobody}, validated_by : User \cup {Nobody}]

MeetingRow == [status : {"absent", "scheduled", "held", "minutes_approved"}, minutes : BOOLEAN]

ResolutionRow ==
  [status : {"absent", "open", "implemented", "closed", "cancelled"},
   owner : User \cup {Nobody}, closed_by : User \cup {Nobody}, action : 0..MaxAction]

(* The steps of the workflows, by name.                                    *)
LEMMA ActionFlow ==
  /\ DOMAIN WORKFLOW = {"start", "complete", "close", "reopen", "cancel"}
  /\ WORKFLOW["start"] = [sources |-> {"open"}, target |-> "in_progress", reason |-> FALSE]
  /\ WORKFLOW["complete"] = [sources |-> {"open", "in_progress"}, target |-> "completed", reason |-> TRUE]
  /\ WORKFLOW["close"] = [sources |-> {"completed"}, target |-> "closed", reason |-> FALSE]
  /\ WORKFLOW["reopen"] = [sources |-> {"completed", "closed"}, target |-> "in_progress", reason |-> TRUE]
  /\ WORKFLOW["cancel"] = [sources |-> {"open", "in_progress"}, target |-> "cancelled", reason |-> TRUE]
BY DEF WORKFLOW, Transition, ReasonedTransition

LEMMA FindingFlow ==
  /\ DOMAIN FINDING_FLOW = {"respond", "accept", "reject_response", "request_closure", "validate",
                            "reject_closure", "reopen"}
  /\ FINDING_FLOW["respond"] = [sources |-> {"open"}, target |-> "response_submitted", reason |-> FALSE]
  /\ FINDING_FLOW["accept"] = [sources |-> {"response_submitted"}, target |-> "agreed", reason |-> FALSE]
  /\ FINDING_FLOW["reject_response"] = [sources |-> {"response_submitted"}, target |-> "open", reason |-> TRUE]
  /\ FINDING_FLOW["request_closure"] = [sources |-> {"agreed"}, target |-> "closure_requested", reason |-> TRUE]
  /\ FINDING_FLOW["validate"] = [sources |-> {"closure_requested"}, target |-> "closed", reason |-> FALSE]
  /\ FINDING_FLOW["reject_closure"] = [sources |-> {"closure_requested"}, target |-> "agreed", reason |-> TRUE]
  /\ FINDING_FLOW["reopen"] = [sources |-> {"closed"}, target |-> "agreed", reason |-> TRUE]
BY DEF FINDING_FLOW, Transition, ReasonedTransition

LEMMA ResolutionFlow ==
  /\ DOMAIN RESOLUTION_FLOW = {"implement", "close", "reopen", "cancel"}
  /\ RESOLUTION_FLOW["implement"] = [sources |-> {"open"}, target |-> "implemented", reason |-> TRUE]
  /\ RESOLUTION_FLOW["close"] = [sources |-> {"implemented"}, target |-> "closed", reason |-> FALSE]
  /\ RESOLUTION_FLOW["reopen"] = [sources |-> {"implemented", "closed"}, target |-> "open", reason |-> TRUE]
  /\ RESOLUTION_FLOW["cancel"] = [sources |-> {"open"}, target |-> "cancelled", reason |-> TRUE]
BY DEF RESOLUTION_FLOW, Transition, ReasonedTransition

LEMMA MeetingFlow ==
  /\ DOMAIN MEETING_FLOW = {"hold", "approve_minutes"}
  /\ MEETING_FLOW["hold"] = [sources |-> {"scheduled"}, target |-> "held", reason |-> FALSE]
  /\ MEETING_FLOW["approve_minutes"] = [sources |-> {"held"}, target |-> "minutes_approved", reason |-> FALSE]
BY DEF MEETING_FLOW, Transition
-----------------------------------------------------------------------------
(* What a reader is offered, for whatever the rows hold.                   *)
LEMMA ActionOffers ==
  ASSUME NEW u, NEW a, NEW name \in DOMAIN WORKFLOW
  PROVE  name \in OfferedSteps(u, a) <=>
           Permits(WORKFLOW, name, actions[a].status, TRUE) /\ MayTransition(u, a, name)
<1>1. Permits(WORKFLOW, name, actions[a].status, TRUE) <=> actions[a].status \in WORKFLOW[name].sources
  BY DEF Permits
<1>2. name \in {"start", "complete", "close", "reopen", "cancel"}
  BY ActionFlow
<1> QED
  BY <1>1, <1>2 DEF OfferedSteps, MayTransition

LEMMA FindingOffers ==
  ASSUME NEW u, NEW name \in DOMAIN FINDING_FLOW
  PROVE  name \in OfferedFindingSteps(u) <=>
           Permits(FINDING_FLOW, name, finding.status, TRUE) /\ MayTransitionFinding(u, name)
<1>1. Permits(FINDING_FLOW, name, finding.status, TRUE) <=> finding.status \in FINDING_FLOW[name].sources
  BY DEF Permits
<1> QED
  BY <1>1 DEF OfferedFindingSteps, MayTransitionFinding, Management

LEMMA ResolutionOffers ==
  ASSUME NEW u, NEW n, NEW name \in DOMAIN RESOLUTION_FLOW
  PROVE  name \in OfferedResolutionSteps(u, n) <=>
           Permits(RESOLUTION_FLOW, name, resolutions[n].status, TRUE) /\ MayMove(u, n, name)
<1>1. Permits(RESOLUTION_FLOW, name, resolutions[n].status, TRUE)
        <=> resolutions[n].status \in RESOLUTION_FLOW[name].sources
  BY DEF Permits
<1> QED
  BY <1>1 DEF OfferedResolutionSteps, MayMove

(* What a reader is offered of an action, a finding or a resolution is what *)
(* the server would take of them, but for the validation of a finding      *)
(* while its follow-up is open (action_dict and transition, finding_dict   *)
(* and transition_finding, _meeting_dict and transition_resolution).       *)
THEOREM OffersAreTaken == Spec => []OffersMatchTheGuards
<1>1. ASSUME NEW u, NEW a
      PROVE  OfferedSteps(u, a) =
               {name \in DOMAIN WORKFLOW :
                  Permits(WORKFLOW, name, actions[a].status, TRUE) /\ MayTransition(u, a, name)}
  <2>1. OfferedSteps(u, a) \subseteq DOMAIN WORKFLOW
    BY DEF OfferedSteps
  <2> QED
    BY <2>1, ActionOffers
<1>2. ASSUME NEW u
      PROVE  LET taken == {name \in DOMAIN FINDING_FLOW :
                             /\ Permits(FINDING_FLOW, name, finding.status, TRUE)
                             /\ MayTransitionFinding(u, name)
                             /\ ~FollowUpIsOpen(name)}
             IN /\ taken \subseteq OfferedFindingSteps(u)
                /\ \A name \in OfferedFindingSteps(u) \ taken : FollowUpIsOpen(name)
  <2>1. OfferedFindingSteps(u) \subseteq DOMAIN FINDING_FLOW
    BY DEF OfferedFindingSteps
  <2> QED
    BY <2>1, FindingOffers
<1>3. ASSUME NEW u, NEW n
      PROVE  OfferedResolutionSteps(u, n) =
               {name \in DOMAIN RESOLUTION_FLOW :
                  Permits(RESOLUTION_FLOW, name, resolutions[n].status, TRUE) /\ MayMove(u, n, name)}
  <2>1. OfferedResolutionSteps(u, n) \subseteq DOMAIN RESOLUTION_FLOW
    BY DEF OfferedResolutionSteps
  <2> QED
    BY <2>1, ResolutionOffers
<1>4. OffersMatchTheGuards
  BY <1>1, <1>2, <1>3 DEF OffersMatchTheGuards
<1> QED
  BY <1>4, PTL
-----------------------------------------------------------------------------
(* Requests that race.  A request in flight carries a copy of its row; what *)
(* is known of it must stay true whatever is committed beside it.          *)

(* A response that was accepted has its action; so it must be known of     *)
(* whoever carries a finding past its response.                            *)
AGREED == {"agreed", "closure_requested", "closed"}

FollowedUp(table) ==
  \E a \in 1..MaxAction : table[a].status # "absent" /\ table[a].source = "audit_finding"

ActionUnderway(q, table) ==
  q.step = "action" =>
    /\ q.id \in 1..MaxAction /\ table[q.id].status # "absent"
    /\ q.loaded \in ActionRow /\ q.new \in ActionRow
    /\ q.new.status # "absent" /\ q.new.source = q.loaded.source

FindingUnderway(q, table) ==
  q.step = "finding" =>
    /\ q.by \in User /\ q.name \in DOMAIN FINDING_FLOW \cup {"update"}
    /\ q.loaded \in FindingRow /\ q.new \in FindingRow
    /\ q.new.status \in AGREED /\ q.name # "accept" => FollowedUp(table)

(* Minutes that are there stay, and approved ones are there.               *)
MeetingUnderway(q, row) ==
  q.step = "meeting" =>
    /\ row.status # "absent"
    /\ q.loaded \in MeetingRow /\ q.new \in MeetingRow
    /\ q.new.status # "absent"
    /\ q.loaded.minutes => q.new.minutes /\ row.minutes
    /\ q.new.status = "minutes_approved" => q.new.minutes

ResolveUnderway(q) ==
  q.step = "resolve" =>
    q.by \in User /\ q.owner \in User \cup {Nobody} /\ q.number \in 1..MaxResolution

ResolutionUnderway(q, table) ==
  q.step = "resolution" =>
    /\ q.id \in 1..MaxResolution /\ table[q.id].status # "absent"
    /\ q.loaded \in ResolutionRow /\ q.new \in ResolutionRow
    /\ q.new.status # "absent"
    /\ q.new.owner = q.loaded.owner /\ q.new.action = q.loaded.action

Underway(q, tracker, row, table) ==
  /\ ActionUnderway(q, tracker)
  /\ FindingUnderway(q, tracker)
  /\ MeetingUnderway(q, row)
  /\ ResolveUnderway(q)
  /\ ResolutionUnderway(q, table)

RowsAreTyped ==
  /\ actions \in [1..MaxAction -> ActionRow]
  /\ finding \in FindingRow
  /\ decisions \in Seq(DOMAIN FINDING_FLOW)
  /\ meeting \in MeetingRow
  /\ resolutions \in [1..MaxResolution -> ResolutionRow]

RaisedInOrder == \E n \in 0..MaxAction : Raised = 1..n

(* A resolution has its own action if it names an owner, none otherwise.   *)
OwnAction(n, table, tracker) ==
  table[n].status # "absent" =>
    IF table[n].owner = Nobody THEN table[n].action = 0
    ELSE /\ table[n].action \in 1..MaxAction
         /\ tracker[table[n].action].status # "absent"
         /\ tracker[table[n].action].source = "resolution"

OwnActions == \A n \in 1..MaxResolution : OwnAction(n, resolutions, actions)

NoActionTwice ==
  \A m, n \in Numbered : resolutions[m].action = resolutions[n].action /\ m # n => resolutions[m].action = 0

Resolved == {a \in Raised : actions[a].source = "resolution"}
Owned == {n \in Numbered : resolutions[n].owner # Nobody}

FollowUpInvariant ==
  /\ DOMAIN req = Worker
  /\ RowsAreTyped
  /\ RaisedInOrder
  /\ \A w \in Worker : Underway(req[w], actions, meeting, resolutions)
  /\ finding.status \in AGREED => FollowedUp(actions)
  /\ OwnActions
  /\ NoActionTwice
  /\ Cardinality(Resolved) = Cardinality(Owned)
  /\ meeting.status = "minutes_approved" => meeting.minutes
-----------------------------------------------------------------------------
(* Rows.                                                                   *)
Assumptions ==
  /\ RequestsAssumption /\ RolesAssumption /\ ActionsAssumption
  /\ FindingsAssumption /\ MeetingsAssumption /\ RisksAssumption

LEMMA AssumptionsHold == Assumptions
BY RequestsAssumption, RolesAssumption, ActionsAssumption, FindingsAssumption, MeetingsAssumption,
   RisksAssumption DEF Assumptions

LEMMA FlushedAction ==
  ASSUME NEW loaded \in ActionRow, NEW new \in ActionRow, NEW row \in ActionRow
  PROVE  Flush(loaded, new, row) =
           [status |-> IF new.status = loaded.status THEN row.status ELSE new.status,
            owner |-> IF new.owner = loaded.owner THEN row.owner ELSE new.owner,
            created_by |-> IF new.created_by = loaded.created_by THEN row.created_by ELSE new.created_by,
            closed_by |-> IF new.closed_by = loaded.closed_by THEN row.closed_by ELSE new.closed_by,
            completed |-> IF new.completed = loaded.completed THEN row.completed ELSE new.completed,
            source |-> IF new.source = loaded.source THEN row.source ELSE new.source]
BY DEF Flush, ActionRow

LEMMA FlushedFinding ==
  ASSUME NEW loaded \in FindingRow, NEW new \in FindingRow, NEW row \in FindingRow
  PROVE  Flush(loaded, new, row) =
           [status |-> IF new.status = loaded.status THEN row.status ELSE new.status,
            auditor |-> IF new.auditor = loaded.auditor THEN row.auditor ELSE new.auditor,
            owner |-> IF new.owner = loaded.owner THEN row.owner ELSE new.owner,
            responded_by |-> IF new.responded_by = loaded.responded_by THEN row.responded_by
                             ELSE new.responded_by,
            validated_by |-> IF new.validated_by = loaded.validated_by THEN row.validated_by
                             ELSE new.validated_by]
BY DEF Flush, FindingRow

LEMMA FlushedMeeting ==
  ASSUME NEW loaded \in MeetingRow, NEW new \in MeetingRow, NEW row \in MeetingRow
  PROVE  Flush(loaded, new, row) =
           [status |-> IF new.status = loaded.status THEN row.status ELSE new.status,
            minutes |-> IF new.minutes = loaded.minutes THEN row.minutes ELSE new.minutes]
BY DEF Flush, MeetingRow

LEMMA FlushedResolution ==
  ASSUME NEW loaded \in ResolutionRow, NEW new \in ResolutionRow, NEW row \in ResolutionRow
  PROVE  Flush(loaded, new, row) =
           [status |-> IF new.status = loaded.status THEN row.status ELSE new.status,
            owner |-> IF new.owner = loaded.owner THEN row.owner ELSE new.owner,
            closed_by |-> IF new.closed_by = loaded.closed_by THEN row.closed_by ELSE new.closed_by,
            action |-> IF new.action = loaded.action THEN row.action ELSE new.action]
BY DEF Flush, ResolutionRow

(* What an action starts as.                                               *)
Opened(u, owner, source) ==
  [status |-> "open", owner |-> owner, created_by |-> u, closed_by |-> Nobody,
   completed |-> FALSE, source |-> source]

LEMMA OpenedAction ==
  ASSUME NEW u, NEW owner, NEW source
  PROVE  Assign(NoAction, [status |-> "open", owner |-> owner, created_by |-> u, source |-> source])
           = Opened(u, owner, source)
<1> DEFINE values == [status |-> "open", owner |-> owner, created_by |-> u, source |-> source]
<1>1. /\ DOMAIN values = {"status", "owner", "created_by", "source"}
      /\ values.status = "open" /\ values.owner = owner
      /\ values.created_by = u /\ values.source = source
  OBVIOUS
<1>2. /\ DOMAIN NoAction = {"status", "owner", "created_by", "closed_by", "completed", "source"}
      /\ NoAction.closed_by = Nobody /\ NoAction.completed = FALSE
  BY DEF NoAction
<1> HIDE DEF values
<1>3. Assign(NoAction, values) =
        [c \in {"status", "owner", "created_by", "closed_by", "completed", "source"} |->
          IF c \in DOMAIN values THEN values[c] ELSE NoAction[c]]
  BY <1>2 DEF Assign
<1>4. Assign(NoAction, values) = Opened(u, owner, source)
  BY <1>1, <1>2, <1>3 DEF Opened
<1> QED
  BY <1>4 DEF values

(* An action is raised in the next row, which was free.                    *)
LEMMA ActionIsRaised ==
  ASSUME Assumptions, RowsAreTyped, RaisedInOrder, RoomForAction,
         NEW u \in User, NEW owner \in User \cup {Nobody},
         NEW source \in {"none", "audit_finding", "resolution"},
         actions' = NewAction(u, owner, source)
  PROVE  LET a == Cardinality(Raised) + 1
         IN /\ a \in 1..MaxAction /\ a \notin Raised
            /\ actions' \in [1..MaxAction -> ActionRow]
            /\ actions'[a] = Opened(u, owner, source)
            /\ \A b \in 1..MaxAction : b # a => actions'[b] = actions[b]
            /\ Raised' = Raised \cup {a}
            /\ RaisedInOrder'
<1> DEFINE a == Cardinality(Raised) + 1
<1>1. PICK n \in 0..MaxAction : Raised = 1..n
  BY DEF RaisedInOrder
<1>2. n \in Int /\ MaxAction \in Nat
  BY DEF Assumptions, ActionsAssumption
<1>3. Cardinality(Raised) = n
  <2>1. Cardinality(1..n) = IF 1 > n THEN 0 ELSE n - 1 + 1
    BY <1>2, FS_Interval
  <2> QED
    BY <1>1, <1>2, <2>1
<1>4. a = n + 1 /\ n < MaxAction
  BY <1>3 DEF RoomForAction
<1>5. a \in 1..MaxAction /\ a \notin Raised
  BY <1>1, <1>2, <1>4
<1>6. actions' = [actions EXCEPT ![a] = Opened(u, owner, source)]
  BY OpenedAction DEF NewAction
<1> HIDE DEF a
<1>7. Opened(u, owner, source) \in ActionRow /\ Opened(u, owner, source).status # "absent"
  BY DEF Opened, ActionRow
<1>8. /\ actions' \in [1..MaxAction -> ActionRow]
      /\ actions'[a] = Opened(u, owner, source)
      /\ \A b \in 1..MaxAction : b # a => actions'[b] = actions[b]
  BY <1>5, <1>6, <1>7 DEF RowsAreTyped
<1>9. Raised' = Raised \cup {a}
  BY <1>5, <1>7, <1>8 DEF Raised, RowsAreTyped
<1>10. RaisedInOrder'
  <2>1. Raised' = 1..(n + 1) /\ n + 1 \in 0..MaxAction
    BY <1>1, <1>2, <1>4, <1>9
  <2> QED
    BY <2>1 DEF RaisedInOrder
<1> QED
  BY <1>5, <1>8, <1>9, <1>10 DEF a
-----------------------------------------------------------------------------
(* What commits leave of the rows that others have loaded.                 *)
TrackerStays(tracker, tracker2) ==
  \A a \in 1..MaxAction : tracker[a].status # "absent" =>
    tracker2[a].status # "absent" /\ tracker2[a].source = tracker[a].source

MeetingStays(row, row2) ==
  row.status # "absent" => row2.status # "absent" /\ (row.minutes => row2.minutes)

ResolutionsStay(table, table2) ==
  \A n \in 1..MaxResolution : table[n].status # "absent" => table2[n].status # "absent"

LEMMA UnderwayStays ==
  ASSUME NEW q, NEW tracker, NEW tracker2, NEW row, NEW row2, NEW table, NEW table2,
         Underway(q, tracker, row, table), TrackerStays(tracker, tracker2),
         MeetingStays(row, row2), ResolutionsStay(table, table2)
  PROVE  Underway(q, tracker2, row2, table2)
<1>1. FollowedUp(tracker) => FollowedUp(tracker2)
  BY DEF FollowedUp, TrackerStays
<1>2. ActionUnderway(q, tracker2)
  BY DEF Underway, ActionUnderway, TrackerStays
<1>3. FindingUnderway(q, tracker2)
  BY <1>1 DEF Underway, FindingUnderway
<1>4. MeetingUnderway(q, row2)
  BY DEF Underway, MeetingUnderway, MeetingStays
<1>5. ResolutionUnderway(q, table2)
  BY DEF Underway, ResolutionUnderway, ResolutionsStay
<1> QED
  BY <1>2, <1>3, <1>4, <1>5 DEF Underway

LEMMA RequestsStay ==
  ASSUME FollowUpInvariant, TrackerStays(actions, actions'), MeetingStays(meeting, meeting'),
         ResolutionsStay(resolutions, resolutions'), NEW w \in Worker, Finish(w) \/ UNCHANGED req
  PROVE  /\ DOMAIN req' = Worker
         /\ \A v \in Worker : Underway(req'[v], actions', meeting', resolutions')
<1>1. DOMAIN req' = Worker
  BY DEF FollowUpInvariant, Finish
<1>2. ASSUME NEW v \in Worker PROVE Underway(req'[v], actions', meeting', resolutions')
  <2>1. CASE req'[v] = req[v]
    <3>1. Underway(req[v], actions, meeting, resolutions)
      BY DEF FollowUpInvariant
    <3>2. Underway(req[v], actions', meeting', resolutions')
      BY <3>1, UnderwayStays
    <3> QED
      BY <2>1, <3>2
  <2>2. CASE req'[v] = Idle
    BY <2>2 DEF Idle, Underway, ActionUnderway, FindingUnderway, MeetingUnderway, ResolveUnderway,
                ResolutionUnderway
  <2> QED
    BY <2>1, <2>2 DEF FollowUpInvariant, Finish
<1> QED
  BY <1>1, <1>2

followUpVars == <<actions, finding, decisions, meeting, resolutions>>

LEMMA LoadKeeps ==
  ASSUME FollowUpInvariant, NEW w \in Worker, NEW q, Begin(w, q) \/ Finish(w) \/ UNCHANGED req,
         Begin(w, q) => Underway(q, actions, meeting, resolutions), UNCHANGED followUpVars
  PROVE  FollowUpInvariant'
<1>1. /\ RowsAreTyped' /\ RaisedInOrder' /\ OwnActions' /\ NoActionTwice'
      /\ Cardinality(Resolved') = Cardinality(Owned')
      /\ finding'.status \in AGREED => FollowedUp(actions')
      /\ meeting'.status = "minutes_approved" => meeting'.minutes
  BY DEF FollowUpInvariant, followUpVars, RowsAreTyped, RaisedInOrder, Raised, OwnActions, NoActionTwice,
         Numbered, Resolved, Owned
<1>2. TrackerStays(actions, actions') /\ MeetingStays(meeting, meeting')
        /\ ResolutionsStay(resolutions, resolutions')
  BY DEF followUpVars, TrackerStays, MeetingStays, ResolutionsStay
<1>3. DOMAIN req' = Worker /\ \A v \in Worker : Underway(req'[v], actions', meeting', resolutions')
  <2>1. CASE Begin(w, q)
    <3>1. DOMAIN req' = Worker /\ req'[w] = q /\ \A v \in Worker : v # w => req'[v] = req[v]
      BY <2>1 DEF FollowUpInvariant, Begin
    <3> QED
      BY <2>1, <3>1 DEF FollowUpInvariant, followUpVars
  <2>2. CASE Finish(w) \/ UNCHANGED req
    BY <1>2, <2>2, RequestsStay
  <2> QED
    BY <2>1, <2>2
<1> QED
  BY <1>1, <1>3 DEF FollowUpInvariant

(* Resolutions and their actions, while no action is raised for one.       *)
LEMMA ResolutionsUntouched ==
  ASSUME FollowUpInvariant, TrackerStays(actions, actions'), UNCHANGED resolutions, Resolved' = Resolved
  PROVE  OwnActions' /\ NoActionTwice' /\ Cardinality(Resolved') = Cardinality(Owned')
<1>1. OwnActions'
  BY DEF FollowUpInvariant, OwnActions, OwnAction, TrackerStays
<1>2. NoActionTwice' /\ Owned' = Owned
  BY DEF FollowUpInvariant, NoActionTwice, Owned, Numbered
<1> QED
  BY <1>1, <1>2 DEF FollowUpInvariant

(* An action is raised for something else than a resolution.               *)
LEMMA RaisingKeeps ==
  ASSUME Assumptions, FollowUpInvariant, RoomForAction,
         NEW u \in User, NEW owner \in User \cup {Nobody}, NEW source \in {"none", "audit_finding"},
         actions' = NewAction(u, owner, source), UNCHANGED resolutions
  PROVE  /\ actions' \in [1..MaxAction -> ActionRow] /\ RaisedInOrder'
         /\ TrackerStays(actions, actions')
         /\ OwnActions' /\ NoActionTwice' /\ Cardinality(Resolved') = Cardinality(Owned')
         /\ source = "audit_finding" => FollowedUp(actions')
<1> DEFINE a == Cardinality(Raised) + 1
<1>1. /\ a \in 1..MaxAction /\ a \notin Raised
      /\ actions' \in [1..MaxAction -> ActionRow]
      /\ actions'[a] = Opened(u, owner, source)
      /\ \A b \in 1..MaxAction : b # a => actions'[b] = actions[b]
      /\ Raised' = Raised \cup {a}
      /\ RaisedInOrder'
  BY ActionIsRaised DEF FollowUpInvariant
<1> HIDE DEF a
<1>2. actions[a].status = "absent"
  BY <1>1 DEF Raised, FollowUpInvariant, RowsAreTyped
<1>3. TrackerStays(actions, actions')
  BY <1>1, <1>2 DEF TrackerStays
<1>4. Raised \subseteq 1..MaxAction
  BY DEF Raised, FollowUpInvariant, RowsAreTyped
<1>5. Resolved' = Resolved
  <2>1. actions'[a].source # "resolution"
    BY <1>1 DEF Opened
  <2>2. \A b \in Raised : b # a /\ actions'[b] = actions[b]
    BY <1>1, <1>4
  <2> QED
    BY <1>1, <2>1, <2>2 DEF Resolved
<1>6. source = "audit_finding" => FollowedUp(actions')
  BY <1>1 DEF FollowedUp, Opened
<1> QED
  BY <1>1, <1>3, <1>5, <1>6, ResolutionsUntouched
-----------------------------------------------------------------------------
(* The commits, however requests race.                                     *)
LEMMA CreateActionKeeps ==
  ASSUME Assumptions, FollowUpInvariant, NEW u \in User, NEW o \in User, CreateAction(u, o),
         UNCHANGED <<finding, decisions, meeting, resolutions>>, NEW w \in Worker
  PROVE  FollowUpInvariant'
<1>1. /\ actions' \in [1..MaxAction -> ActionRow] /\ RaisedInOrder'
      /\ TrackerStays(actions, actions')
      /\ OwnActions' /\ NoActionTwice' /\ Cardinality(Resolved') = Cardinality(Owned')
  BY RaisingKeeps DEF CreateAction
<1>2. MeetingStays(meeting, meeting') /\ ResolutionsStay(resolutions, resolutions')
  BY DEF MeetingStays, ResolutionsStay
<1>3. DOMAIN req' = Worker /\ \A v \in Worker : Underway(req'[v], actions', meeting', resolutions')
  BY <1>1, <1>2, RequestsStay DEF CreateAction
<1>4. RowsAreTyped'
  BY <1>1 DEF FollowUpInvariant, RowsAreTyped
<1>5. finding'.status \in AGREED => FollowedUp(actions')
  BY <1>1 DEF FollowUpInvariant, FollowedUp, TrackerStays
<1> QED
  BY <1>1, <1>3, <1>4, <1>5 DEF FollowUpInvariant

LEMMA CommitActionKeeps ==
  ASSUME FollowUpInvariant, NEW w \in Worker, CommitAction(w),
         UNCHANGED <<finding, decisions, meeting, resolutions>>
  PROVE  FollowUpInvariant'
<1> DEFINE q == req[w]
           a == q.id
           new == Flush(q.loaded, q.new, actions[a])
<1>1. ActionUnderway(q, actions) /\ q.step = "action"
  BY DEF FollowUpInvariant, Underway, CommitAction
<1>2. /\ a \in 1..MaxAction /\ actions[a].status # "absent" /\ actions[a] \in ActionRow
      /\ q.loaded \in ActionRow /\ q.new \in ActionRow
      /\ q.new.status # "absent" /\ q.new.source = q.loaded.source
  BY <1>1 DEF ActionUnderway, FollowUpInvariant, RowsAreTyped
<1>3. new \in ActionRow /\ new.status # "absent" /\ new.source = actions[a].source
  <2> HIDE DEF q, a
  <2>1. new = [status |-> IF q.new.status = q.loaded.status THEN actions[a].status ELSE q.new.status,
               owner |-> IF q.new.owner = q.loaded.owner THEN actions[a].owner ELSE q.new.owner,
               created_by |-> IF q.new.created_by = q.loaded.created_by THEN actions[a].created_by
                              ELSE q.new.created_by,
               closed_by |-> IF q.new.closed_by = q.loaded.closed_by THEN actions[a].closed_by
                             ELSE q.new.closed_by,
               completed |-> IF q.new.completed = q.loaded.completed THEN actions[a].completed
                             ELSE q.new.completed,
               source |-> IF q.new.source = q.loaded.source THEN actions[a].source ELSE q.new.source]
    BY <1>2, FlushedAction
  <2> HIDE DEF new
  <2> QED
    BY <1>2, <2>1 DEF ActionRow
<1>4. actions' = [actions EXCEPT ![a] = new] /\ Finish(w)
  BY DEF CommitAction
<1> HIDE DEF q, a, new
<1>5. /\ actions' \in [1..MaxAction -> ActionRow]
      /\ TrackerStays(actions, actions')
      /\ Raised' = Raised /\ Resolved' = Resolved
  BY <1>2, <1>3, <1>4 DEF FollowUpInvariant, RowsAreTyped, TrackerStays, Raised, Resolved
<1>6. MeetingStays(meeting, meeting') /\ ResolutionsStay(resolutions, resolutions')
  BY DEF MeetingStays, ResolutionsStay
<1>7. DOMAIN req' = Worker /\ \A v \in Worker : Underway(req'[v], actions', meeting', resolutions')
  BY <1>4, <1>5, <1>6, RequestsStay
<1>8. RowsAreTyped' /\ RaisedInOrder'
  BY <1>5 DEF FollowUpInvariant, RowsAreTyped, RaisedInOrder
<1>9. finding'.status \in AGREED => FollowedUp(actions')
  BY <1>5 DEF FollowUpInvariant, FollowedUp, TrackerStays
<1>10. OwnActions' /\ NoActionTwice' /\ Cardinality(Resolved') = Cardinality(Owned')
  BY <1>5, ResolutionsUntouched
<1> QED
  BY <1>7, <1>8, <1>9, <1>10 DEF FollowUpInvariant

LEMMA CommitFindingKeeps ==
  ASSUME Assumptions, FollowUpInvariant, NEW w \in Worker, CommitFinding(w),
         UNCHANGED <<meeting, resolutions>>
  PROVE  FollowUpInvariant'
<1> DEFINE q == req[w]
           new == Flush(q.loaded, q.new, finding)
<1>1. /\ FindingUnderway(q, actions) /\ q.step = "finding"
      /\ finding' = new /\ Finish(w)
      /\ decisions' = IF q.name = "update" THEN decisions ELSE Append(decisions, q.name)
      /\ q.name = "accept" => RoomForAction /\ actions' = NewAction(q.by, q.new.owner, "audit_finding")
      /\ q.name # "accept" => actions' = actions
  BY DEF FollowUpInvariant, Underway, CommitFinding, FollowUp
<1>2. /\ q.by \in User /\ q.name \in DOMAIN FINDING_FLOW \cup {"update"}
      /\ q.loaded \in FindingRow /\ q.new \in FindingRow /\ finding \in FindingRow
      /\ q.new.status \in AGREED /\ q.name # "accept" => FollowedUp(actions)
  BY <1>1 DEF FindingUnderway, FollowUpInvariant, RowsAreTyped
<1> HIDE DEF q
<1>3. /\ new \in FindingRow
      /\ new.status \in {finding.status, q.new.status}
  <2>1. new = [status |-> IF q.new.status = q.loaded.status THEN finding.status ELSE q.new.status,
               auditor |-> IF q.new.auditor = q.loaded.auditor THEN finding.auditor ELSE q.new.auditor,
               owner |-> IF q.new.owner = q.loaded.owner THEN finding.owner ELSE q.new.owner,
               responded_by |-> IF q.new.responded_by = q.loaded.responded_by THEN finding.responded_by
                                ELSE q.new.responded_by,
               validated_by |-> IF q.new.validated_by = q.loaded.validated_by THEN finding.validated_by
                                ELSE q.new.validated_by]
    BY <1>2, FlushedFinding
  <2> HIDE DEF new
  <2> QED
    BY <1>2, <2>1 DEF FindingRow
<1> HIDE DEF new
<1>4. decisions' \in Seq(DOMAIN FINDING_FLOW)
  <2>1. decisions \in Seq(DOMAIN FINDING_FLOW)
    BY DEF FollowUpInvariant, RowsAreTyped
  <2>2. CASE q.name = "update"
    BY <1>1, <2>1, <2>2
  <2>3. CASE q.name # "update"
    <3>1. q.name \in DOMAIN FINDING_FLOW /\ decisions' = Append(decisions, q.name)
      BY <1>1, <1>2, <2>3
    <3> HIDE DEF FINDING_FLOW
    <3> QED
      BY <2>1, <3>1
  <2> QED
    BY <2>2, <2>3
<1>5. /\ actions' \in [1..MaxAction -> ActionRow] /\ RaisedInOrder'
      /\ TrackerStays(actions, actions')
      /\ OwnActions' /\ NoActionTwice' /\ Cardinality(Resolved') = Cardinality(Owned')
      /\ q.name = "accept" => FollowedUp(actions')
  <2>1. CASE q.name = "accept"
    <3>1. q.new.owner \in User \cup {Nobody}
      BY <1>2 DEF FindingRow
    <3> QED
      BY <1>1, <1>2, <2>1, <3>1, RaisingKeeps
  <2>2. CASE q.name # "accept"
    <3>1. actions' = actions
      BY <1>1, <2>2
    <3>2. TrackerStays(actions, actions') /\ Resolved' = Resolved
      BY <3>1 DEF TrackerStays, Resolved, Raised
    <3>3. OwnActions' /\ NoActionTwice' /\ Cardinality(Resolved') = Cardinality(Owned')
      BY <3>2, ResolutionsUntouched
    <3> QED
      BY <2>2, <3>1, <3>2, <3>3 DEF FollowUpInvariant, RowsAreTyped, RaisedInOrder, Raised
  <2> QED
    BY <2>1, <2>2
<1>6. FollowedUp(actions) => FollowedUp(actions')
  BY <1>5 DEF FollowedUp, TrackerStays
<1>7. finding'.status \in AGREED => FollowedUp(actions')
  BY <1>1, <1>2, <1>3, <1>5, <1>6 DEF FollowUpInvariant
<1>8. MeetingStays(meeting, meeting') /\ ResolutionsStay(resolutions, resolutions')
  BY DEF MeetingStays, ResolutionsStay
<1>9. DOMAIN req' = Worker /\ \A v \in Worker : Underway(req'[v], actions', meeting', resolutions')
  BY <1>1, <1>5, <1>8, RequestsStay
<1>10. RowsAreTyped'
  BY <1>1, <1>3, <1>4, <1>5 DEF FollowUpInvariant, RowsAreTyped
<1> QED
  BY <1>5, <1>7, <1>9, <1>10 DEF FollowUpInvariant
LEMMA CommitMeetingKeeps ==
  ASSUME FollowUpInvariant, NEW w \in Worker, CommitMeeting(w), UNCHANGED <<finding, decisions>>
  PROVE  FollowUpInvariant'
<1> DEFINE q == req[w]
           new == Flush(q.loaded, q.new, meeting)
<1>1. /\ MeetingUnderway(q, meeting) /\ q.step = "meeting"
      /\ meeting' = new /\ Finish(w) /\ UNCHANGED <<resolutions, actions>>
  BY DEF FollowUpInvariant, Underway, CommitMeeting
<1>2. /\ meeting.status # "absent" /\ meeting \in MeetingRow
      /\ q.loaded \in MeetingRow /\ q.new \in MeetingRow
      /\ q.new.status # "absent"
      /\ q.loaded.minutes => q.new.minutes /\ meeting.minutes
      /\ q.new.status = "minutes_approved" => q.new.minutes
      /\ meeting.status = "minutes_approved" => meeting.minutes
  BY <1>1 DEF MeetingUnderway, FollowUpInvariant, RowsAreTyped
<1> HIDE DEF q
<1>3. /\ new \in MeetingRow /\ new.status # "absent"
      /\ meeting.minutes => new.minutes
      /\ new.status = "minutes_approved" => new.minutes
  <2>1. new = [status |-> IF q.new.status = q.loaded.status THEN meeting.status ELSE q.new.status,
               minutes |-> IF q.new.minutes = q.loaded.minutes THEN meeting.minutes ELSE q.new.minutes]
    BY <1>2, FlushedMeeting
  <2>2. q.loaded.minutes \in BOOLEAN /\ q.new.minutes \in BOOLEAN /\ meeting.minutes \in BOOLEAN
    BY <1>2 DEF MeetingRow
  <2>3. /\ new.minutes = IF q.new.minutes = q.loaded.minutes THEN meeting.minutes ELSE q.new.minutes
        /\ new.status = IF q.new.status = q.loaded.status THEN meeting.status ELSE q.new.status
        /\ new \in MeetingRow
    <3> HIDE DEF new
    <3> QED
      BY <1>2, <2>1 DEF MeetingRow
  <2> HIDE DEF new
  <2> QED
    BY <1>2, <2>2, <2>3
<1> HIDE DEF new
<1>4. /\ TrackerStays(actions, actions') /\ MeetingStays(meeting, meeting')
      /\ ResolutionsStay(resolutions, resolutions') /\ Resolved' = Resolved
  BY <1>1, <1>3 DEF TrackerStays, MeetingStays, ResolutionsStay, Resolved, Raised
<1>5. DOMAIN req' = Worker /\ \A v \in Worker : Underway(req'[v], actions', meeting', resolutions')
  BY <1>1, <1>4, RequestsStay
<1>6. RowsAreTyped' /\ RaisedInOrder'
  BY <1>1, <1>3 DEF FollowUpInvariant, RowsAreTyped, RaisedInOrder, Raised
<1>7. OwnActions' /\ NoActionTwice' /\ Cardinality(Resolved') = Cardinality(Owned')
  BY <1>1, <1>4, ResolutionsUntouched
<1>8. finding'.status \in AGREED => FollowedUp(actions')
  BY <1>1 DEF FollowUpInvariant
<1> QED
  BY <1>1, <1>3, <1>5, <1>6, <1>7, <1>8 DEF FollowUpInvariant

(* A resolution is inserted with its action, or without one.               *)
LEMMA CommitResolutionKeeps ==
  ASSUME Assumptions, FollowUpInvariant, NEW w \in Worker, CommitResolution(w),
         UNCHANGED <<finding, decisions>>
  PROVE  FollowUpInvariant'
<1> DEFINE q == req[w]
           n == q.number
           a == IF q.owner = Nobody THEN 0 ELSE Cardinality(Raised) + 1
           row == [status |-> "open", owner |-> q.owner, closed_by |-> Nobody, action |-> a]
<1>1. /\ ResolveUnderway(q) /\ q.step = "resolve" /\ n \notin Numbered
      /\ resolutions' = [resolutions EXCEPT ![n] = row] /\ Finish(w) /\ UNCHANGED meeting
      /\ q.owner # Nobody => RoomForAction /\ actions' = NewAction(q.by, q.owner, "resolution")
      /\ q.owner = Nobody => actions' = actions
  BY DEF FollowUpInvariant, Underway, CommitResolution, NumberIsFree
<1>2. /\ q.by \in User /\ q.owner \in User \cup {Nobody} /\ n \in 1..MaxResolution
      /\ resolutions[n].status = "absent"
  BY <1>1 DEF ResolveUnderway, Numbered, FollowUpInvariant, RowsAreTyped
<1>3. /\ row.status = "open" /\ row.owner = q.owner /\ row.action = a
      /\ q.owner = Nobody => a = 0
  OBVIOUS
<1>4. /\ actions' \in [1..MaxAction -> ActionRow] /\ RaisedInOrder'
      /\ \A b \in Raised : actions'[b] = actions[b]
      /\ q.owner = Nobody => Raised' = Raised
      /\ q.owner # Nobody => /\ a \in 1..MaxAction /\ a \notin Raised
                             /\ Raised' = Raised \cup {a}
                             /\ actions'[a].status = "open" /\ actions'[a].source = "resolution"
  <2>1. CASE q.owner = Nobody
    BY <1>1, <2>1 DEF FollowUpInvariant, RowsAreTyped, RaisedInOrder, Raised
  <2>2. CASE q.owner # Nobody
    <3>1. a = Cardinality(Raised) + 1
      BY <2>2
    <3>2. Raised \subseteq 1..MaxAction
      BY DEF Raised, FollowUpInvariant, RowsAreTyped
    <3>3. /\ a \in 1..MaxAction /\ a \notin Raised
          /\ actions' \in [1..MaxAction -> ActionRow]
          /\ actions'[a] = Opened(q.by, q.owner, "resolution")
          /\ \A b \in 1..MaxAction : b # a => actions'[b] = actions[b]
          /\ Raised' = Raised \cup {a}
          /\ RaisedInOrder'
      BY <1>1, <1>2, <2>2, <3>1, ActionIsRaised DEF FollowUpInvariant
    <3> HIDE DEF a, q
    <3>4. actions'[a].status = "open" /\ actions'[a].source = "resolution"
      BY <3>3 DEF Opened
    <3> QED
      BY <2>2, <3>2, <3>3, <3>4
  <2> QED
    BY <2>1, <2>2
<1>5. row \in ResolutionRow
  <2>1. a \in 0..MaxAction
    BY <1>3, <1>4 DEF Assumptions, ActionsAssumption
  <2> HIDE DEF a
  <2> QED
    BY <1>2, <2>1 DEF ResolutionRow
<1> HIDE DEF q, n, a, row
<1>6. /\ resolutions' \in [1..MaxResolution -> ResolutionRow]
      /\ resolutions'[n] = row
      /\ \A m \in 1..MaxResolution : m # n => resolutions'[m] = resolutions[m]
      /\ Numbered' = Numbered \cup {n}
  BY <1>1, <1>2, <1>3, <1>5 DEF FollowUpInvariant, RowsAreTyped, Numbered
<1>7. /\ TrackerStays(actions, actions') /\ MeetingStays(meeting, meeting')
      /\ ResolutionsStay(resolutions, resolutions')
  BY <1>1, <1>2, <1>4, <1>6
     DEF TrackerStays, MeetingStays, ResolutionsStay, Raised, FollowUpInvariant, RowsAreTyped
<1>8. DOMAIN req' = Worker /\ \A v \in Worker : Underway(req'[v], actions', meeting', resolutions')
  BY <1>1, <1>7, RequestsStay
<1>9. RowsAreTyped'
  BY <1>4, <1>6, <1>1 DEF FollowUpInvariant, RowsAreTyped
<1>10. OwnActions'
  <2>1. ASSUME NEW m \in 1..MaxResolution PROVE OwnAction(m, resolutions', actions')
    <3>1. CASE m = n
      BY <1>3, <1>4, <1>6, <3>1 DEF OwnAction
    <3>2. CASE m # n
      <4>1. OwnAction(m, resolutions, actions) /\ resolutions'[m] = resolutions[m]
        BY <1>6, <3>2 DEF FollowUpInvariant, OwnActions
      <4> QED
        BY <1>7, <4>1 DEF OwnAction, TrackerStays
    <3> QED
      BY <3>1, <3>2
  <2> QED
    BY <2>1 DEF OwnActions
<1>11. NoActionTwice'
  <2>1. ASSUME NEW m \in Numbered PROVE m \in 1..MaxResolution /\ resolutions[m].action \in {0} \cup Raised
    <3>1. m \in 1..MaxResolution /\ OwnAction(m, resolutions, actions) /\ resolutions[m].status # "absent"
      BY DEF Numbered, FollowUpInvariant, RowsAreTyped, OwnActions
    <3> QED
      BY <3>1 DEF OwnAction, Raised, FollowUpInvariant, RowsAreTyped
  <2>2. ASSUME NEW m \in Numbered PROVE m # n /\ (resolutions[m].action = a => a = 0)
    BY <1>1, <1>3, <1>4, <2>1 DEF n
  <2>3. ASSUME NEW m \in Numbered', NEW k \in Numbered',
               resolutions'[m].action = resolutions'[k].action, m # k
        PROVE  resolutions'[m].action = 0
    BY <1>3, <1>6, <2>1, <2>2, <2>3 DEF FollowUpInvariant, NoActionTwice
  <2> QED
    BY <2>3 DEF NoActionTwice
<1>12. Cardinality(Resolved') = Cardinality(Owned')
  <2>1. IsFiniteSet(Resolved) /\ IsFiniteSet(Owned)
    <3>1. IsFiniteSet(1..MaxAction) /\ IsFiniteSet(1..MaxResolution)
      BY FS_Interval DEF Assumptions, ActionsAssumption, MeetingsAssumption
    <3>2. Resolved \subseteq 1..MaxAction /\ Owned \subseteq 1..MaxResolution
      BY DEF Resolved, Raised, Owned, Numbered, FollowUpInvariant, RowsAreTyped
    <3> QED
      BY <3>1, <3>2, FS_Subset
  <2>2. CASE q.owner = Nobody
    <3>1. Resolved' = Resolved
      BY <1>4, <2>2 DEF Resolved
    <3>2. Owned' = Owned
      BY <1>1, <1>3, <1>6, <2>2 DEF Owned, Numbered, FollowUpInvariant, RowsAreTyped, n
    <3> QED
      BY <3>1, <3>2 DEF FollowUpInvariant
  <2>3. CASE q.owner # Nobody
    <3>1. Resolved' = Resolved \cup {a} /\ a \notin Resolved
      BY <1>4, <2>3 DEF Resolved
    <3>2. Owned' = Owned \cup {n} /\ n \notin Owned
      BY <1>1, <1>3, <1>6, <2>3 DEF Owned, Numbered, FollowUpInvariant, RowsAreTyped, n
    <3>3. Cardinality(Resolved') = Cardinality(Resolved) + 1 /\ Cardinality(Owned') = Cardinality(Owned) + 1
      BY <2>1, <3>1, <3>2, FS_AddElement
    <3> QED
      BY <3>3 DEF FollowUpInvariant
  <2> QED
    BY <2>2, <2>3
<1>13. finding'.status \in AGREED => FollowedUp(actions')
  BY <1>7 DEF FollowUpInvariant, FollowedUp, TrackerStays
<1>14. meeting'.status = "minutes_approved" => meeting'.minutes
  BY <1>1 DEF FollowUpInvariant
<1> QED
  BY <1>4, <1>8, <1>9, <1>10, <1>11, <1>12, <1>13, <1>14 DEF FollowUpInvariant
LEMMA CommitResolutionStepKeeps ==
  ASSUME FollowUpInvariant, NEW w \in Worker, CommitResolutionStep(w), UNCHANGED <<finding, decisions>>
  PROVE  FollowUpInvariant'
<1> DEFINE q == req[w]
           n == q.id
           new == Flush(q.loaded, q.new, resolutions[n])
<1>1. /\ ResolutionUnderway(q, resolutions) /\ q.step = "resolution"
      /\ resolutions' = [resolutions EXCEPT ![n] = new] /\ Finish(w) /\ UNCHANGED <<meeting, actions>>
  BY DEF FollowUpInvariant, Underway, CommitResolutionStep
<1>2. /\ n \in 1..MaxResolution /\ resolutions[n].status # "absent" /\ resolutions[n] \in ResolutionRow
      /\ q.loaded \in ResolutionRow /\ q.new \in ResolutionRow /\ q.new.status # "absent"
      /\ q.new.owner = q.loaded.owner /\ q.new.action = q.loaded.action
  BY <1>1 DEF ResolutionUnderway, FollowUpInvariant, RowsAreTyped
<1> HIDE DEF q, n
<1>3. /\ new \in ResolutionRow /\ new.status # "absent"
      /\ new.owner = resolutions[n].owner /\ new.action = resolutions[n].action
  <2>1. new = [status |-> IF q.new.status = q.loaded.status THEN resolutions[n].status ELSE q.new.status,
               owner |-> IF q.new.owner = q.loaded.owner THEN resolutions[n].owner ELSE q.new.owner,
               closed_by |-> IF q.new.closed_by = q.loaded.closed_by THEN resolutions[n].closed_by
                             ELSE q.new.closed_by,
               action |-> IF q.new.action = q.loaded.action THEN resolutions[n].action ELSE q.new.action]
    BY <1>2, FlushedResolution
  <2> HIDE DEF new
  <2> QED
    BY <1>2, <2>1 DEF ResolutionRow
<1> HIDE DEF new
<1>4. /\ resolutions' \in [1..MaxResolution -> ResolutionRow]
      /\ \A m \in 1..MaxResolution : /\ resolutions'[m].owner = resolutions[m].owner
                                     /\ resolutions'[m].action = resolutions[m].action
                                     /\ resolutions'[m].status = "absent" <=> resolutions[m].status = "absent"
  BY <1>1, <1>2, <1>3 DEF FollowUpInvariant, RowsAreTyped
<1>5. /\ Numbered' = Numbered /\ Owned' = Owned /\ Resolved' = Resolved
      /\ Numbered \subseteq 1..MaxResolution
  BY <1>1, <1>4 DEF FollowUpInvariant, RowsAreTyped, Numbered, Owned, Resolved, Raised
<1>6. /\ TrackerStays(actions, actions') /\ MeetingStays(meeting, meeting')
      /\ ResolutionsStay(resolutions, resolutions')
  BY <1>1, <1>4 DEF TrackerStays, MeetingStays, ResolutionsStay
<1>7. DOMAIN req' = Worker /\ \A v \in Worker : Underway(req'[v], actions', meeting', resolutions')
  BY <1>1, <1>6, RequestsStay
<1>8. RowsAreTyped' /\ RaisedInOrder'
  BY <1>1, <1>4 DEF FollowUpInvariant, RowsAreTyped, RaisedInOrder, Raised
<1>9. OwnActions'
  BY <1>1, <1>4 DEF FollowUpInvariant, OwnActions, OwnAction
<1>10. NoActionTwice'
  BY <1>4, <1>5 DEF FollowUpInvariant, NoActionTwice
<1>11. finding'.status \in AGREED => FollowedUp(actions')
  BY <1>1 DEF FollowUpInvariant
<1> QED
  BY <1>1, <1>5, <1>7, <1>8, <1>9, <1>10, <1>11 DEF FollowUpInvariant

(* A finding or a meeting is recorded.                                     *)
LEMMA CreateFindingKeeps ==
  ASSUME FollowUpInvariant, NEW w \in Worker, NEW u \in User, NEW o \in User, CreateFinding(u, o),
         UNCHANGED <<meeting, resolutions>>
  PROVE  FollowUpInvariant'
<1>1. finding' \in FindingRow /\ finding'.status = "open"
  BY DEF CreateFinding, Assign, NoFinding, FindingRow
<1>2. UNCHANGED <<decisions, actions, req>>
  BY DEF CreateFinding
<1>3. /\ TrackerStays(actions, actions') /\ MeetingStays(meeting, meeting')
      /\ ResolutionsStay(resolutions, resolutions') /\ Resolved' = Resolved
  BY <1>2 DEF TrackerStays, MeetingStays, ResolutionsStay, Resolved, Raised
<1>4. DOMAIN req' = Worker /\ \A v \in Worker : Underway(req'[v], actions', meeting', resolutions')
  BY <1>2, <1>3, RequestsStay
<1>5. OwnActions' /\ NoActionTwice' /\ Cardinality(Resolved') = Cardinality(Owned')
  BY <1>3, ResolutionsUntouched
<1> QED
  BY <1>1, <1>2, <1>4, <1>5 DEF FollowUpInvariant, RowsAreTyped, RaisedInOrder, Raised, AGREED

LEMMA CreateMeetingKeeps ==
  ASSUME FollowUpInvariant, NEW w \in Worker, NEW u \in User, CreateMeeting(u),
         UNCHANGED <<finding, decisions>>
  PROVE  FollowUpInvariant'
<1>1. /\ meeting.status = "absent" /\ meeting' = [status |-> "scheduled", minutes |-> FALSE]
      /\ UNCHANGED <<resolutions, actions, req>>
  BY DEF CreateMeeting
<1>2. meeting' \in MeetingRow /\ meeting'.status = "scheduled"
  BY <1>1 DEF MeetingRow
<1>3. /\ TrackerStays(actions, actions') /\ MeetingStays(meeting, meeting')
      /\ ResolutionsStay(resolutions, resolutions') /\ Resolved' = Resolved
  BY <1>1 DEF TrackerStays, MeetingStays, ResolutionsStay, Resolved, Raised
<1>4. DOMAIN req' = Worker /\ \A v \in Worker : Underway(req'[v], actions', meeting', resolutions')
  BY <1>1, <1>3, RequestsStay
<1>5. OwnActions' /\ NoActionTwice' /\ Cardinality(Resolved') = Cardinality(Owned')
  BY <1>1, <1>3, ResolutionsUntouched
<1> QED
  BY <1>1, <1>2, <1>4, <1>5 DEF FollowUpInvariant, RowsAreTyped, RaisedInOrder, Raised
-----------------------------------------------------------------------------
(* What handlers make of the row they have loaded.                         *)
LEMMA AssignedAction ==
  ASSUME NEW row \in ActionRow, NEW values
  PROVE  Assign(row, values) =
           [status |-> IF "status" \in DOMAIN values THEN values.status ELSE row.status,
            owner |-> IF "owner" \in DOMAIN values THEN values.owner ELSE row.owner,
            created_by |-> IF "created_by" \in DOMAIN values THEN values.created_by ELSE row.created_by,
            closed_by |-> IF "closed_by" \in DOMAIN values THEN values.closed_by ELSE row.closed_by,
            completed |-> IF "completed" \in DOMAIN values THEN values.completed ELSE row.completed,
            source |-> IF "source" \in DOMAIN values THEN values.source ELSE row.source]
BY DEF Assign, ActionRow

LEMMA AssignedFinding ==
  ASSUME NEW row \in FindingRow, NEW values
  PROVE  Assign(row, values) =
           [status |-> IF "status" \in DOMAIN values THEN values.status ELSE row.status,
            auditor |-> IF "auditor" \in DOMAIN values THEN values.auditor ELSE row.auditor,
            owner |-> IF "owner" \in DOMAIN values THEN values.owner ELSE row.owner,
            responded_by |-> IF "responded_by" \in DOMAIN values THEN values.responded_by
                             ELSE row.responded_by,
            validated_by |-> IF "validated_by" \in DOMAIN values THEN values.validated_by
                             ELSE row.validated_by]
BY DEF Assign, FindingRow

LEMMA AssignedResolution ==
  ASSUME NEW row \in ResolutionRow, NEW values
  PROVE  Assign(row, values) =
           [status |-> IF "status" \in DOMAIN values THEN values.status ELSE row.status,
            owner |-> IF "owner" \in DOMAIN values THEN values.owner ELSE row.owner,
            closed_by |-> IF "closed_by" \in DOMAIN values THEN values.closed_by ELSE row.closed_by,
            action |-> IF "action" \in DOMAIN values THEN values.action ELSE row.action]
BY DEF Assign, ResolutionRow

(* An edit hands the action to somebody else.                              *)
Handed(row, o) ==
  [status |-> row.status, owner |-> o, created_by |-> row.created_by,
   closed_by |-> row.closed_by, completed |-> row.completed, source |-> row.source]

LEMMA HandedAction ==
  ASSUME NEW row \in ActionRow, NEW o
  PROVE  Assign(row, [owner |-> o]) = Handed(row, o)
BY AssignedAction DEF Handed

LEMMA WrittenAction ==
  ASSUME NEW row \in ActionRow, NEW u, NEW name
  PROVE  /\ Written(u, row, name).status = TargetOf(WORKFLOW, name)
         /\ Written(u, row, name).owner = row.owner
         /\ Written(u, row, name).source = row.source
         /\ Written(u, row, name).closed_by =
              IF name = "close" THEN u ELSE IF name = "reopen" THEN Nobody ELSE row.closed_by
         /\ Written(u, row, name).completed <=> name = "complete" \/ (row.completed /\ name # "reopen")
         /\ u \in User /\ name \in DOMAIN WORKFLOW => Written(u, row, name) \in ActionRow
<1> DEFINE s == TargetOf(WORKFLOW, name)
           c == IF name = "close" THEN u ELSE IF name = "reopen" THEN Nobody ELSE row.closed_by
           d == name = "complete" \/ (row.completed /\ name # "reopen")
           values == [status |-> s, completed |-> d, closed_by |-> c]
<1>1. Written(u, row, name) = Assign(row, values)
  BY DEF Written
<1>2. d \in BOOLEAN /\ (u \in User => c \in User \cup {Nobody})
  BY DEF ActionRow
<1>3. name \in DOMAIN WORKFLOW => s \in {"in_progress", "completed", "closed", "cancelled"}
  BY ActionFlow DEF TargetOf
<1> HIDE DEF s, c, d
<1>4. /\ DOMAIN values = {"status", "completed", "closed_by"}
      /\ values.status = s /\ values.completed = d /\ values.closed_by = c
  OBVIOUS
<1> HIDE DEF values
<1>5. Written(u, row, name) =
        [status |-> s, owner |-> row.owner, created_by |-> row.created_by, closed_by |-> c,
         completed |-> d, source |-> row.source]
  BY <1>1, <1>4, AssignedAction
<1>6. u \in User /\ name \in DOMAIN WORKFLOW => Written(u, row, name) \in ActionRow
  BY <1>2, <1>3, <1>5 DEF ActionRow
<1>7. /\ Written(u, row, name).status = s /\ Written(u, row, name).owner = row.owner
      /\ Written(u, row, name).source = row.source /\ Written(u, row, name).closed_by = c
      /\ Written(u, row, name).completed = d
  BY <1>5
<1> QED
  BY <1>6, <1>7 DEF s, c, d

(* An edit hands the finding to somebody else, a step decides it.          *)
Reassigned(row, o) ==
  [status |-> row.status, auditor |-> row.auditor, owner |-> o,
   responded_by |-> row.responded_by, validated_by |-> row.validated_by]

LEMMA ReassignedFinding ==
  ASSUME NEW row \in FindingRow, NEW o
  PROVE  Assign(row, [owner |-> o]) = Reassigned(row, o)
BY AssignedFinding DEF Reassigned

Decided(u, row, name) ==
  [status |-> TargetOf(FINDING_FLOW, name), auditor |-> row.auditor, owner |-> row.owner,
   responded_by |-> IF name = "respond" THEN u ELSE row.responded_by,
   validated_by |-> IF name = "validate" THEN u ELSE row.validated_by]

LEMMA DecidedFinding ==
  ASSUME NEW row \in FindingRow, NEW u, NEW name
  PROVE  Assign(row, [status |-> TargetOf(FINDING_FLOW, name),
                      responded_by |-> IF name = "respond" THEN u ELSE row.responded_by,
                      validated_by |-> IF name = "validate" THEN u ELSE row.validated_by])
           = Decided(u, row, name)
<1> DEFINE s == TargetOf(FINDING_FLOW, name)
           r == IF name = "respond" THEN u ELSE row.responded_by
           v == IF name = "validate" THEN u ELSE row.validated_by
           values == [status |-> s, responded_by |-> r, validated_by |-> v]
<1> HIDE DEF s, r, v
<1>1. /\ DOMAIN values = {"status", "responded_by", "validated_by"}
      /\ values.status = s /\ values.responded_by = r /\ values.validated_by = v
  OBVIOUS
<1> HIDE DEF values
<1>2. Assign(row, values) = [status |-> s, auditor |-> row.auditor, owner |-> row.owner,
                             responded_by |-> r, validated_by |-> v]
  BY <1>1, AssignedFinding
<1> QED
  BY <1>2 DEF values, s, r, v, Decided

(* A step of a resolution.                                                 *)
Moved(u, row, name) ==
  [status |-> TargetOf(RESOLUTION_FLOW, name), owner |-> row.owner,
   closed_by |-> IF name = "close" THEN u ELSE row.closed_by, action |-> row.action]

LEMMA MovedResolution ==
  ASSUME NEW row \in ResolutionRow, NEW u, NEW name
  PROVE  Assign(row, [status |-> TargetOf(RESOLUTION_FLOW, name),
                      closed_by |-> IF name = "close" THEN u ELSE row.closed_by])
           = Moved(u, row, name)
<1> DEFINE s == TargetOf(RESOLUTION_FLOW, name)
           c == IF name = "close" THEN u ELSE row.closed_by
           values == [status |-> s, closed_by |-> c]
<1> HIDE DEF s, c
<1>1. DOMAIN values = {"status", "closed_by"} /\ values.status = s /\ values.closed_by = c
  OBVIOUS
<1> HIDE DEF values
<1>2. Assign(row, values) = [status |-> s, owner |-> row.owner, closed_by |-> c, action |-> row.action]
  BY <1>1, AssignedResolution
<1> QED
  BY <1>2 DEF values, s, c, Moved

LEMMA FindingTargets ==
  ASSUME NEW name \in DOMAIN FINDING_FLOW
  PROVE  /\ TargetOf(FINDING_FLOW, name) \in
              {"open", "response_submitted", "agreed", "closure_requested", "closed"}
         /\ TargetOf(FINDING_FLOW, name) \in AGREED /\ name # "accept" => FINDING_FLOW[name].sources \subseteq AGREED
BY FindingFlow DEF TargetOf, AGREED

LEMMA LoadedAction ==
  ASSUME Assumptions, FollowUpInvariant, NEW u \in User, NEW a \in Raised, NEW new,
         \/ \E o \in User : Editable(a) /\ new = Assign(actions[a], [owner |-> o])
         \/ \E name \in DOMAIN WORKFLOW : new = Written(u, actions[a], name)
  PROVE  Underway([step |-> "action", id |-> a, loaded |-> actions[a], new |-> new],
                  actions, meeting, resolutions)
<1>1. a \in 1..MaxAction /\ actions[a] \in ActionRow /\ actions[a].status # "absent"
  BY DEF Raised, FollowUpInvariant, RowsAreTyped
<1>2. new \in ActionRow /\ new.status # "absent" /\ new.source = actions[a].source
  <2>1. CASE \E o \in User : Editable(a) /\ new = Assign(actions[a], [owner |-> o])
    <3>1. PICK o \in User : new = Handed(actions[a], o)
      BY <1>1, <2>1, HandedAction
    <3> QED
      BY <1>1, <3>1 DEF ActionRow, Handed
  <2>2. CASE \E name \in DOMAIN WORKFLOW : new = Written(u, actions[a], name)
    <3>1. PICK name \in DOMAIN WORKFLOW : new = Written(u, actions[a], name)
      BY <2>2
    <3>2. TargetOf(WORKFLOW, name) # "absent"
      BY ActionFlow DEF TargetOf
    <3> QED
      BY <1>1, <3>1, <3>2, WrittenAction
  <2> QED
    BY <2>1, <2>2
<1> QED
  BY <1>1, <1>2 DEF Underway, ActionUnderway, FindingUnderway, MeetingUnderway, ResolveUnderway,
                    ResolutionUnderway

LEMMA LoadedFinding ==
  ASSUME Assumptions, FollowUpInvariant, NEW u \in User, NEW name \in DOMAIN FINDING_FLOW \cup {"update"}, NEW new,
         \/ /\ name \in DOMAIN FINDING_FLOW /\ finding.status \in FINDING_FLOW[name].sources
            /\ new = Decided(u, finding, name)
         \/ \E o \in User : name = "update" /\ new = Assign(finding, [owner |-> o])
  PROVE  Underway([step |-> "finding", name |-> name, by |-> u, loaded |-> finding, new |-> new],
                  actions, meeting, resolutions)
<1>1. finding \in FindingRow /\ (finding.status \in AGREED => FollowedUp(actions))
  BY DEF FollowUpInvariant, RowsAreTyped
<1>2. new \in FindingRow /\ (new.status \in AGREED /\ name # "accept" => finding.status \in AGREED)
  <2>1. CASE /\ name \in DOMAIN FINDING_FLOW /\ finding.status \in FINDING_FLOW[name].sources
             /\ new = Decided(u, finding, name)
    <3>1. /\ TargetOf(FINDING_FLOW, name) \in
               {"open", "response_submitted", "agreed", "closure_requested", "closed"}
          /\ TargetOf(FINDING_FLOW, name) \in AGREED /\ name # "accept" => finding.status \in AGREED
      BY <2>1, FindingTargets
    <3>2. new.status = TargetOf(FINDING_FLOW, name)
      BY <2>1 DEF Decided
    <3>3. new \in FindingRow
      BY <1>1, <2>1, <3>1 DEF Decided, FindingRow
    <3> QED
      BY <3>1, <3>2, <3>3
  <2>2. CASE \E o \in User : name = "update" /\ new = Assign(finding, [owner |-> o])
    <3>1. PICK o \in User : new = Reassigned(finding, o)
      BY <1>1, <2>2, ReassignedFinding
    <3> QED
      BY <1>1, <3>1 DEF FindingRow, Reassigned
  <2> QED
    BY <2>1, <2>2
<1> QED
  BY <1>1, <1>2 DEF Underway, ActionUnderway, FindingUnderway, MeetingUnderway, ResolveUnderway,
                    ResolutionUnderway
LEMMA LoadedMeeting ==
  ASSUME FollowUpInvariant, NEW name \in DOMAIN MEETING_FLOW, NEW given \in BOOLEAN,
         Permits(MEETING_FLOW, name, meeting.status, FALSE), HasMinutes(name, given)
  PROVE  Underway([step |-> "meeting", loaded |-> meeting,
                   new |-> [status |-> TargetOf(MEETING_FLOW, name),
                            minutes |-> IF name = "approve_minutes" THEN given \/ meeting.minutes
                                        ELSE meeting.minutes]],
                  actions, meeting, resolutions)
<1> DEFINE s == TargetOf(MEETING_FLOW, name)
           m == IF name = "approve_minutes" THEN given \/ meeting.minutes ELSE meeting.minutes
           new == [status |-> s, minutes |-> m]
<1>1. meeting \in MeetingRow /\ meeting.status # "absent" /\ meeting.minutes \in BOOLEAN
  BY MeetingFlow DEF Permits, FollowUpInvariant, RowsAreTyped, MeetingRow
<1>2. s \in {"held", "minutes_approved"} /\ (s = "minutes_approved" => name = "approve_minutes")
  BY MeetingFlow DEF TargetOf
<1>3. m \in BOOLEAN /\ (meeting.minutes => m) /\ (name = "approve_minutes" => m)
  BY <1>1 DEF HasMinutes
<1> HIDE DEF s, m
<1>4. new \in MeetingRow /\ new.status = s /\ new.minutes = m
  BY <1>2, <1>3 DEF MeetingRow
<1> HIDE DEF new
<1>5. Underway([step |-> "meeting", loaded |-> meeting, new |-> new], actions, meeting, resolutions)
  BY <1>1, <1>2, <1>3, <1>4 DEF Underway, ActionUnderway, FindingUnderway, MeetingUnderway, ResolveUnderway,
                                ResolutionUnderway
<1> QED
  BY <1>5 DEF new, s, m

LEMMA LoadedResolution ==
  ASSUME FollowUpInvariant, NEW u \in User, NEW n \in Numbered, NEW name \in DOMAIN RESOLUTION_FLOW
  PROVE  Underway([step |-> "resolution", id |-> n, loaded |-> resolutions[n],
                   new |-> Moved(u, resolutions[n], name)], actions, meeting, resolutions)
<1> DEFINE new == Moved(u, resolutions[n], name)
<1>1. n \in 1..MaxResolution /\ resolutions[n].status # "absent" /\ resolutions[n] \in ResolutionRow
  BY DEF Numbered, FollowUpInvariant, RowsAreTyped
<1>2. TargetOf(RESOLUTION_FLOW, name) \in {"open", "implemented", "closed", "cancelled"}
  BY ResolutionFlow DEF TargetOf
<1>3. /\ new \in ResolutionRow /\ new.status # "absent"
      /\ new.owner = resolutions[n].owner /\ new.action = resolutions[n].action
  BY <1>1, <1>2 DEF Moved, ResolutionRow
<1> HIDE DEF new
<1> QED
  BY <1>1, <1>3 DEF Underway, ActionUnderway, FindingUnderway, MeetingUnderway, ResolveUnderway,
                    ResolutionUnderway, new

LEMMA AddingIsUnderway ==
  ASSUME Assumptions, FollowUpInvariant, NEW u \in User, NEW owner \in User \cup {Nobody},
         Cardinality(Numbered) < MaxResolution
  PROVE  Underway([step |-> "resolve", by |-> u, owner |-> owner, number |-> Cardinality(Numbered) + 1],
                  actions, meeting, resolutions)
<1>1. Numbered \subseteq 1..MaxResolution /\ IsFiniteSet(1..MaxResolution) /\ MaxResolution \in Nat
  BY FS_Interval DEF Numbered, FollowUpInvariant, RowsAreTyped, Assumptions, MeetingsAssumption
<1>2. Cardinality(Numbered) \in Nat
  BY <1>1, FS_Subset, FS_CardinalityType
<1>3. Cardinality(Numbered) + 1 \in 1..MaxResolution
  BY <1>1, <1>2
<1> QED
  BY <1>3 DEF Underway, ActionUnderway, FindingUnderway, MeetingUnderway, ResolveUnderway, ResolutionUnderway

(* Requests about risks carry nothing of the follow-up.                    *)
LEMMA RisksAreElsewhere ==
  ASSUME NEW q, q.step \in {"idle", "off", "matrix", "register", "assess", "risk"}
  PROVE  Underway(q, actions, meeting, resolutions)
BY DEF Underway, ActionUnderway, FindingUnderway, MeetingUnderway, ResolveUnderway, ResolutionUnderway
-----------------------------------------------------------------------------
LEMMA FollowUpInit == ASSUME Assumptions, Init PROVE FollowUpInvariant
<1>1. /\ actions = [a \in 1..MaxAction |-> NoAction] /\ finding = NoFinding /\ decisions = <<>>
      /\ meeting = [status |-> "absent", minutes |-> FALSE]
      /\ resolutions = [n \in 1..MaxResolution |-> NoResolution]
      /\ req \in [Worker -> {Idle, Off}]
  BY DEF Init, ActionsInit, FindingsInit, MeetingsInit, RequestsInit
<1>2. /\ NoAction \in ActionRow /\ NoAction.status = "absent"
      /\ NoFinding \in FindingRow /\ NoFinding.status = "absent"
      /\ meeting \in MeetingRow /\ meeting.status = "absent"
  BY <1>1 DEF NoAction, ActionRow, NoFinding, FindingRow, MeetingRow
<1>3. NoResolution \in ResolutionRow /\ NoResolution.status = "absent"
  <2>1. 0 \in 0..MaxAction
    BY DEF Assumptions, ActionsAssumption
  <2> QED
    BY <2>1 DEF NoResolution, ResolutionRow
<1>4. decisions \in Seq(DOMAIN FINDING_FLOW)
  BY <1>1
<1>5. RowsAreTyped
  BY <1>1, <1>2, <1>3, <1>4 DEF RowsAreTyped
<1>6. Raised = {} /\ Numbered = {}
  BY <1>1, <1>2, <1>3 DEF Raised, Numbered
<1>7. RaisedInOrder
  <2>1. 0 \in 0..MaxAction /\ 1..0 = {}
    BY DEF Assumptions, ActionsAssumption
  <2> QED
    BY <1>6, <2>1 DEF RaisedInOrder
<1>8. Resolved = {} /\ Owned = {} /\ NoActionTwice
  BY <1>6 DEF Resolved, Owned, NoActionTwice
<1>9. OwnActions
  BY <1>1, <1>3 DEF OwnActions, OwnAction
<1>10. DOMAIN req = Worker /\ \A w \in Worker : req[w].step \in {"idle", "off"}
  BY <1>1 DEF Idle, Off
<1>11. ASSUME NEW w \in Worker PROVE Underway(req[w], actions, meeting, resolutions)
  BY <1>10, RisksAreElsewhere
<1> QED
  BY <1>1, <1>2, <1>5, <1>7, <1>8, <1>9, <1>10, <1>11 DEF FollowUpInvariant, AGREED

LEMMA ActionsKeep ==
  ASSUME Assumptions, FollowUpInvariant, ActionsNext, UNCHANGED <<findingVars, meetingVars>>
  PROVE  FollowUpInvariant'
<1>0. UNCHANGED <<finding, decisions, meeting, resolutions>>
  BY DEF findingVars, meetingVars
<1>1. ASSUME NEW u \in User, NEW o \in User, CreateAction(u, o) PROVE FollowUpInvariant'
  <2>1. PICK w \in Worker : req[w].step = "idle"
    BY <1>1 DEF CreateAction, Free
  <2> QED
    BY <1>0, <1>1, CreateActionKeeps
<1>2. ASSUME NEW u \in User, NEW w \in Waiting, NEW a \in Raised, NEW new, LoadAction(w, a, new),
             \/ \E o \in User : Editable(a) /\ new = Assign(actions[a], [owner |-> o])
             \/ \E name \in DOMAIN WORKFLOW : new = Written(u, actions[a], name)
      PROVE  FollowUpInvariant'
  <2> DEFINE q == [step |-> "action", id |-> a, loaded |-> actions[a], new |-> new]
  <2>1. Underway(q, actions, meeting, resolutions)
    BY <1>2, LoadedAction
  <2>2. w \in Worker /\ Begin(w, q) /\ UNCHANGED followUpVars
    BY <1>0, <1>2 DEF LoadAction, Waiting, followUpVars
  <2> QED
    BY <2>1, <2>2, LoadKeeps
<1>3. ASSUME NEW u \in User, NEW w \in Waiting, NEW a \in Raised, NEW o \in User, UpdateOwner(w, u, a, o)
      PROVE  FollowUpInvariant'
  BY <1>2, <1>3 DEF UpdateOwner
<1>4. ASSUME NEW u \in User, NEW w \in Waiting, NEW a \in Raised, NEW name \in DOMAIN WORKFLOW,
             TransitionAction(w, u, a, name)
      PROVE  FollowUpInvariant'
  BY <1>2, <1>4 DEF TransitionAction
<1>5. ASSUME NEW w \in Worker, CommitAction(w) PROVE FollowUpInvariant'
  BY <1>0, <1>5, CommitActionKeeps
<1> QED
  BY <1>1, <1>3, <1>4, <1>5 DEF ActionsNext

LEMMA FindingsKeep ==
  ASSUME Assumptions, FollowUpInvariant, FindingsNext, UNCHANGED meetingVars
  PROVE  FollowUpInvariant'
<1>0. UNCHANGED <<meeting, resolutions>>
  BY DEF meetingVars
<1>1. ASSUME NEW u \in User, NEW o \in User, CreateFinding(u, o) PROVE FollowUpInvariant'
  <2>1. PICK w \in Worker : req[w].step = "idle"
    BY <1>1 DEF CreateFinding, Free
  <2> QED
    BY <1>0, <1>1, CreateFindingKeeps
<1>2. ASSUME NEW u \in User, NEW w \in Waiting, NEW o \in User, UpdateFinding(w, u, o)
      PROVE  FollowUpInvariant'
  <2> DEFINE q == [step |-> "finding", name |-> "update", by |-> u, loaded |-> finding,
                   new |-> Assign(finding, [owner |-> o])]
  <2>1. Underway(q, actions, meeting, resolutions)
    BY LoadedFinding
  <2>2. w \in Worker /\ Begin(w, q) /\ UNCHANGED followUpVars
    BY <1>0, <1>2 DEF UpdateFinding, LoadFinding, Waiting, followUpVars
  <2> QED
    BY <2>1, <2>2, LoadKeeps
<1>3. ASSUME NEW u \in User, NEW w \in Waiting, NEW name \in DOMAIN FINDING_FLOW, TransitionFinding(w, u, name)
      PROVE  FollowUpInvariant'
  <2> DEFINE q == [step |-> "finding", name |-> name, by |-> u, loaded |-> finding,
                   new |-> Decided(u, finding, name)]
  <2>1. finding \in FindingRow /\ finding.status \in FINDING_FLOW[name].sources
    BY <1>3 DEF TransitionFinding, Permits, FollowUpInvariant, RowsAreTyped
  <2>2. Underway(q, actions, meeting, resolutions)
    BY <2>1, LoadedFinding
  <2>3. w \in Worker /\ Begin(w, q) /\ UNCHANGED followUpVars
    BY <1>0, <1>3, <2>1, DecidedFinding DEF TransitionFinding, LoadFinding, Waiting, followUpVars
  <2> QED
    BY <2>2, <2>3, LoadKeeps
<1>4. ASSUME NEW w \in Worker, CommitFinding(w) PROVE FollowUpInvariant'
  BY <1>0, <1>4, CommitFindingKeeps
<1> QED
  BY <1>1, <1>2, <1>3, <1>4 DEF FindingsNext

LEMMA MeetingsKeep ==
  ASSUME Assumptions, FollowUpInvariant, MeetingsNext, UNCHANGED findingVars
  PROVE  FollowUpInvariant'
<1>0. UNCHANGED <<finding, decisions>>
  BY DEF findingVars
<1>1. ASSUME NEW u \in User, CreateMeeting(u) PROVE FollowUpInvariant'
  <2>1. PICK w \in Worker : req[w].step = "idle"
    BY <1>1 DEF CreateMeeting, Free
  <2> QED
    BY <1>0, <1>1, CreateMeetingKeeps
<1>2. ASSUME NEW u \in User, NEW w \in Waiting, NEW name \in DOMAIN MEETING_FLOW, NEW given \in BOOLEAN,
             TransitionMeeting(w, u, name, given)
      PROVE  FollowUpInvariant'
  <2>1. PICK q : Begin(w, q) /\ Underway(q, actions, meeting, resolutions)
    BY <1>2, LoadedMeeting DEF TransitionMeeting
  <2>2. w \in Worker /\ UNCHANGED followUpVars
    BY <1>0, <1>2 DEF TransitionMeeting, Waiting, followUpVars
  <2> QED
    BY <2>1, <2>2, LoadKeeps
<1>3. ASSUME NEW u \in User, NEW w \in Waiting, NEW o \in User \cup {Nobody}, AddResolution(w, u, o)
      PROVE  FollowUpInvariant'
  <2>1. PICK q : Begin(w, q) /\ Underway(q, actions, meeting, resolutions)
    BY <1>3, AddingIsUnderway DEF AddResolution
  <2>2. w \in Worker /\ UNCHANGED followUpVars
    BY <1>0, <1>3 DEF AddResolution, Waiting, followUpVars
  <2> QED
    BY <2>1, <2>2, LoadKeeps
<1>4. ASSUME NEW u \in User, NEW w \in Waiting, NEW n \in Numbered, NEW name \in DOMAIN RESOLUTION_FLOW,
             TransitionResolution(w, u, n, name)
      PROVE  FollowUpInvariant'
  <2> DEFINE q == [step |-> "resolution", id |-> n, loaded |-> resolutions[n],
                   new |-> Moved(u, resolutions[n], name)]
  <2>1. resolutions[n] \in ResolutionRow
    BY DEF Numbered, FollowUpInvariant, RowsAreTyped
  <2>2. Underway(q, actions, meeting, resolutions)
    BY LoadedResolution
  <2>3. w \in Worker /\ Begin(w, q) /\ UNCHANGED followUpVars
    BY <1>0, <1>4, <2>1, MovedResolution DEF TransitionResolution, Waiting, followUpVars
  <2> QED
    BY <2>2, <2>3, LoadKeeps
<1>5. ASSUME NEW w \in Worker, RefuseResolution(w) PROVE FollowUpInvariant'
  <2>1. Finish(w) /\ UNCHANGED followUpVars
    BY <1>0, <1>5 DEF RefuseResolution, followUpVars
  <2>2. req[w].step = "resolve" /\ DOMAIN req = Worker
    BY <1>5 DEF RefuseResolution, FollowUpInvariant
  <2>3. ~Begin(w, Idle)
    BY <2>2 DEF Begin
  <2> QED
    BY <2>1, <2>3, LoadKeeps
<1>6. ASSUME NEW w \in Worker, CommitMeeting(w) PROVE FollowUpInvariant'
  BY <1>0, <1>6, CommitMeetingKeeps
<1>7. ASSUME NEW w \in Worker, CommitResolution(w) PROVE FollowUpInvariant'
  BY <1>0, <1>7, CommitResolutionKeeps
<1>8. ASSUME NEW w \in Worker, CommitResolutionStep(w) PROVE FollowUpInvariant'
  BY <1>0, <1>8, CommitResolutionStepKeeps
<1> QED
  BY <1>1, <1>2, <1>3, <1>4, <1>5, <1>6, <1>7, <1>8 DEF MeetingsNext

LEMMA RisksKeep ==
  ASSUME Assumptions, FollowUpInvariant, RisksNext, UNCHANGED followUpVars
  PROVE  FollowUpInvariant'
<1>1. ASSUME NEW w \in Worker, NEW q, Begin(w, q), q.step \in {"matrix", "register", "assess", "risk"}
      PROVE  FollowUpInvariant'
  <2>1. Underway(q, actions, meeting, resolutions)
    BY <1>1, RisksAreElsewhere
  <2> QED
    BY <1>1, <2>1, LoadKeeps
<1>2. ASSUME NEW w \in Worker, Finish(w), req[w].step # "idle" PROVE FollowUpInvariant'
  <2>1. ~Begin(w, Idle)
    BY <1>2 DEF Begin
  <2> QED
    BY <1>2, <2>1, LoadKeeps
<1>3. ASSUME NEW u \in User, NEW c \in Criteria, CreateMatrix(u, c) PROVE FollowUpInvariant'
  <2>1. PICK w \in Worker : req[w].step = "idle"
    BY <1>3 DEF CreateMatrix, Free
  <2>2. Underway(Idle, actions, meeting, resolutions)
    BY RisksAreElsewhere DEF Idle
  <2> QED
    BY <1>3, <2>1, <2>2, LoadKeeps DEF CreateMatrix
<1>4. ASSUME NEW u \in User, NEW w \in Waiting, NEW m \in Saved, NEW c \in Criteria, EditMatrix(w, u, m, c)
      PROVE  FollowUpInvariant'
  <2>1. PICK q : Begin(w, q) /\ q.step = "matrix"
    BY <1>4 DEF EditMatrix, LoadRisks
  <2> QED
    BY <1>1, <2>1 DEF Waiting
<1>5. ASSUME NEW u \in User, NEW w \in Waiting, NEW m \in Saved, ActivateMatrix(w, u, m)
      PROVE  FollowUpInvariant'
  <2>1. PICK q : Begin(w, q) /\ q.step = "matrix"
    BY <1>5 DEF ActivateMatrix, LoadRisks
  <2> QED
    BY <1>1, <2>1 DEF Waiting
<1>6. ASSUME NEW u \in User, NEW w \in Waiting, NEW o \in User, CreateRisk(w, u, o)
      PROVE  FollowUpInvariant'
  <2>1. PICK q : Begin(w, q) /\ q.step = "register"
    BY <1>6 DEF CreateRisk, LoadRisks
  <2> QED
    BY <1>1, <2>1 DEF Waiting
<1>7. ASSUME NEW u \in User, NEW w \in Waiting, NEW kind \in KINDS, NEW l \in 1..10, NEW i \in 1..10,
             Assess(w, u, kind, l, i)
      PROVE  FollowUpInvariant'
  <2>1. PICK q : Begin(w, q) /\ q.step = "assess"
    BY <1>7 DEF Assess, LoadRisks
  <2> QED
    BY <1>1, <2>1 DEF Waiting
<1>8. ASSUME NEW u \in User, NEW w \in Waiting, NEW o \in User, UpdateRisk(w, u, o)
      PROVE  FollowUpInvariant'
  <2>1. PICK q : Begin(w, q) /\ q.step = "risk"
    BY <1>8 DEF UpdateRisk, LoadRisks
  <2> QED
    BY <1>1, <2>1 DEF Waiting
<1>9. ASSUME NEW u \in User, NEW w \in Waiting, NEW name \in DOMAIN RISK_FLOW, TransitionRisk(w, u, name)
      PROVE  FollowUpInvariant'
  <2>1. PICK q : Begin(w, q) /\ q.step = "risk"
    BY <1>9 DEF TransitionRisk, LoadRisks
  <2> QED
    BY <1>1, <2>1 DEF Waiting
<1>10. ASSUME NEW w \in Worker, CommitMatrix(w) \/ CommitRegister(w) \/ CommitRisk(w)
       PROVE  FollowUpInvariant'
  <2>1. Finish(w) /\ req[w].step # "idle"
    BY <1>10 DEF CommitMatrix, CommitRegister, CommitRisk
  <2> QED
    BY <1>2, <2>1
<1> QED
  BY <1>3, <1>4, <1>5, <1>6, <1>7, <1>8, <1>9, <1>10 DEF RisksNext

LEMMA FollowUpStep == ASSUME Assumptions, FollowUpInvariant, [Next]_vars PROVE FollowUpInvariant'
<1>1. CASE UNCHANGED vars
  <2>1. UNCHANGED followUpVars /\ UNCHANGED req
    BY <1>1 DEF vars, followUpVars
  <2>2. CASE Worker = {}
    BY <2>1, <2>2 DEF FollowUpInvariant, followUpVars, RowsAreTyped, RaisedInOrder, Raised, OwnActions,
                      NoActionTwice, Numbered, Resolved, Owned
  <2>3. CASE Worker # {}
    <3>1. PICK w : w \in Worker
      BY <2>3
    <3>2. Underway(Idle, actions, meeting, resolutions)
      BY RisksAreElsewhere DEF Idle
    <3> QED
      BY <2>1, <3>1, <3>2, LoadKeeps
  <2> QED
    BY <2>2, <2>3
<1>2. CASE ActionsNext /\ UNCHANGED <<findingVars, meetingVars, riskVars>>
  BY <1>2, ActionsKeep
<1>3. CASE FindingsNext /\ UNCHANGED <<meetingVars, riskVars>>
  BY <1>3, FindingsKeep
<1>4. CASE MeetingsNext /\ UNCHANGED <<findingVars, riskVars>>
  BY <1>4, MeetingsKeep
<1>5. CASE RisksNext /\ UNCHANGED <<actionVars, findingVars, meetingVars>>
  BY <1>5, RisksKeep DEF followUpVars, actionVars, findingVars, meetingVars
<1> QED
  BY <1>1, <1>2, <1>3, <1>4, <1>5 DEF Next

(* However requests race: the rows are of their types, a finding past its  *)
(* response has its action in the tracker, a resolution has an action of   *)
(* its own exactly if it names an owner, and approved minutes are there.   *)
THEOREM FollowUpInvariantHolds == Spec => []FollowUpInvariant
<1>1. Assumptions
  BY AssumptionsHold
<1>2. Init => FollowUpInvariant
  BY <1>1, FollowUpInit
<1>3. FollowUpInvariant /\ [Next]_vars => FollowUpInvariant'
  BY <1>1, FollowUpStep
<1> QED
  BY <1>2, <1>3, PTL DEF Spec
-----------------------------------------------------------------------------
(* Requests served one after the other.  Racing requests can leave a row   *)
(* that no handler wrote; serial ones commit what they made of the row     *)
(* they find.                                                              *)
SoundAction(row) ==
  /\ row.status \in {"completed", "closed"} => row.completed
  /\ row.status = "closed" => row.closed_by \in Reviewer \ {row.owner}

SoundFinding(row) ==
  /\ row.status \in AGREED \cup {"response_submitted"} => row.responded_by \notin Auditor \cup {Nobody}
  /\ row.status = "closed" => row.validated_by \in Auditor \ {row.owner}

(* Every response is decided once, the one that is submitted not yet.      *)
Pending(status) == IF status = "response_submitted" THEN 1 ELSE 0
Answered == Times("accept") + Times("reject_response") + Pending(finding.status) <= Times("respond")

(* A step that is committed starts from the status it was offered for.     *)
StepServed(q, row) ==
  \/ q.name = "update" /\ q.new.status = row.status
  \/ /\ q.name \in DOMAIN FINDING_FLOW
     /\ row.status \in FINDING_FLOW[q.name].sources
     /\ q.new.status = TargetOf(FINDING_FLOW, q.name)

Served(q, tracker, row) ==
  /\ q.step = "action" => q.loaded = tracker[q.id] /\ SoundAction(q.new)
  /\ q.step = "finding" => q.loaded = row /\ SoundFinding(q.new) /\ StepServed(q, row)

RowsAreSound ==
  /\ \A a \in 1..MaxAction : SoundAction(actions[a])
  /\ SoundFinding(finding)
  /\ Answered

SerialInvariant == Serial => RowsAreSound /\ \A w \in Worker : Served(req[w], actions, finding)

LEMMA ServedElsewhere ==
  ASSUME NEW q, q.step \notin {"action", "finding"}, NEW tracker, NEW row
  PROVE  Served(q, tracker, row)
BY DEF Served

(* A request that loads, one that commits and one that does both at once.  *)
LEMMA LoadIsSerial ==
  ASSUME Assumptions, FollowUpInvariant, SerialInvariant, NEW w \in Worker, NEW q, Begin(w, q), q.step # "off",
         Serial => Served(q, actions, finding), UNCHANGED <<actions, finding, decisions>>
  PROVE  SerialInvariant'
<1>1. /\ Serial' <=> Serial
      /\ req'[w] = q
      /\ \A v \in Worker : v # w => req'[v] = req[v]
  BY SerialBegins DEF Assumptions, FollowUpInvariant
<1>2. Serial => RowsAreSound'
  BY DEF SerialInvariant, RowsAreSound, Answered, Times
<1>3. Serial => \A v \in Worker : Served(req'[v], actions', finding')
  BY <1>1 DEF SerialInvariant
<1> QED
  BY <1>1, <1>2, <1>3 DEF SerialInvariant

LEMMA CommitIsSerial ==
  ASSUME Assumptions, FollowUpInvariant, NEW w \in Worker, InFlight(w), Finish(w), Serial => RowsAreSound'
  PROVE  SerialInvariant'
<1>1. /\ Serial' <=> Serial
      /\ Serial => \A v \in Worker : req'[v].step \in {"idle", "off"}
  BY SerialFinishes DEF Assumptions, FollowUpInvariant
<1>2. Serial => \A v \in Worker : Served(req'[v], actions', finding')
  BY <1>1, ServedElsewhere
<1> QED
  BY <1>1, <1>2 DEF SerialInvariant

LEMMA CreateIsSerial ==
  ASSUME Assumptions, FollowUpInvariant, Free, UNCHANGED req, Serial => RowsAreSound'
  PROVE  SerialInvariant'
<1>1. Serial' <=> Serial
  BY DEF Serial
<1>2. Serial => \A v \in Worker : req[v].step \in {"idle", "off"}
  BY SerialIsAlone DEF Assumptions, InFlight
<1>3. Serial => \A v \in Worker : Served(req'[v], actions', finding')
  BY <1>2, ServedElsewhere
<1> QED
  BY <1>1, <1>3 DEF SerialInvariant

LEMMA RowsStaySound ==
  ASSUME SerialInvariant, Serial, UNCHANGED <<actions, finding, decisions>>
  PROVE  RowsAreSound'
BY DEF SerialInvariant, RowsAreSound, Answered, Times

(* An action that is raised is open.                                       *)
LEMMA RaisedIsSound ==
  ASSUME Assumptions, FollowUpInvariant, RoomForAction, NEW u \in User, NEW owner \in User \cup {Nobody},
         NEW source \in {"none", "audit_finding", "resolution"}, actions' = NewAction(u, owner, source),
         \A a \in 1..MaxAction : SoundAction(actions[a])
  PROVE  \A a \in 1..MaxAction : SoundAction(actions'[a])
<1>1. PICK a : /\ actions'[a] = Opened(u, owner, source)
               /\ \A b \in 1..MaxAction : b # a => actions'[b] = actions[b]
  BY ActionIsRaised DEF FollowUpInvariant
<1>2. SoundAction(Opened(u, owner, source))
  BY DEF SoundAction, Opened
<1> QED
  BY <1>1, <1>2

(* Decisions are counted.                                                  *)
LEMMA TimesAreNumbers ==
  ASSUME NEW name, decisions \in Seq(DOMAIN FINDING_FLOW)
  PROVE  Times(name) \in Nat
<1> DEFINE S == {i \in DOMAIN decisions : decisions[i] = name}
<1>1. Len(decisions) \in Nat /\ DOMAIN decisions = 1..Len(decisions)
  OBVIOUS
<1>2. IsFiniteSet(1..Len(decisions)) /\ S \subseteq 1..Len(decisions)
  BY <1>1, FS_Interval
<1>3. Cardinality(S) \in Nat
  <2> HIDE DEF S
  <2> QED
    BY <1>2, FS_Subset, FS_CardinalityType
<1> QED
  BY <1>3 DEF Times

LEMMA TimesAppended ==
  ASSUME NEW name, NEW step \in DOMAIN FINDING_FLOW, decisions \in Seq(DOMAIN FINDING_FLOW),
         decisions' = Append(decisions, step)
  PROVE  /\ Times(name) \in Nat
         /\ Times(name)' = IF step = name THEN Times(name) + 1 ELSE Times(name)
<1> DEFINE S == {i \in DOMAIN decisions : decisions[i] = name}
           T == {i \in DOMAIN decisions' : decisions'[i] = name}
           n == Len(decisions) + 1
<1>1. /\ Len(decisions) \in Nat /\ DOMAIN decisions = 1..Len(decisions)
      /\ DOMAIN decisions' = 1..n /\ decisions'[n] = step
      /\ \A i \in 1..Len(decisions) : decisions'[i] = decisions[i]
  OBVIOUS
<1>2. S \subseteq 1..Len(decisions) /\ n \notin S /\ IsFiniteSet(S)
  <2>1. S \subseteq 1..Len(decisions) /\ n \notin S
    BY <1>1
  <2>2. IsFiniteSet(1..Len(decisions))
    BY <1>1, FS_Interval
  <2> QED
    BY <2>1, <2>2, FS_Subset
<1>3. T = IF step = name THEN S \cup {n} ELSE S
  <2>1. 1..n = (1..Len(decisions)) \cup {n}
    BY <1>1
  <2> QED
    BY <1>1, <2>1
<1>4. Cardinality(S) \in Nat /\ Cardinality(S \cup {n}) = Cardinality(S) + 1
  <2> HIDE DEF S, n
  <2> QED
    BY <1>2, FS_AddElement, FS_CardinalityType
<1>5. Times(name) = Cardinality(S) /\ Times(name)' = Cardinality(T)
  BY DEF Times
<1> HIDE DEF S, T, n
<1> QED
  BY <1>3, <1>4, <1>5

LEMMA DecisionIsAnswered ==
  ASSUME FollowUpInvariant, Answered, NEW name \in DOMAIN FINDING_FLOW,
         finding.status \in FINDING_FLOW[name].sources, finding'.status = TargetOf(FINDING_FLOW, name),
         decisions' = Append(decisions, name)
  PROVE  Answered'
<1>1. decisions \in Seq(DOMAIN FINDING_FLOW)
  BY DEF FollowUpInvariant, RowsAreTyped
<1>2. \A n \in {"accept", "reject_response", "respond"} :
        Times(n) \in Nat /\ Times(n)' = IF name = n THEN Times(n) + 1 ELSE Times(n)
  BY <1>1, TimesAppended
<1>3. /\ name = "respond" => Pending(finding.status) = 0 /\ Pending(finding'.status) = 1
      /\ name \in {"accept", "reject_response"} => Pending(finding.status) = 1 /\ Pending(finding'.status) = 0
      /\ name \notin {"accept", "reject_response", "respond"} => Pending(finding'.status) = 0
      /\ Pending(finding.status) \in {0, 1}
  BY FindingFlow DEF Pending, TargetOf
<1>4. /\ Times("accept")' = IF name = "accept" THEN Times("accept") + 1 ELSE Times("accept")
      /\ Times("reject_response")' = IF name = "reject_response" THEN Times("reject_response") + 1
                                     ELSE Times("reject_response")
      /\ Times("respond")' = IF name = "respond" THEN Times("respond") + 1 ELSE Times("respond")
      /\ Times("accept") \in Nat /\ Times("reject_response") \in Nat /\ Times("respond") \in Nat
  BY <1>2
<1>5. /\ Times("accept") + Times("reject_response") + Pending(finding.status) <= Times("respond")
      /\ Answered' <=> Times("accept")' + Times("reject_response")' + Pending(finding'.status) <= Times("respond")'
  BY DEF Answered, Pending
<1> QED
  BY <1>3, <1>4, <1>5

(* What a serial request makes of the row it finds is sound.               *)
LEMMA ActionIsServed ==
  ASSUME Assumptions, FollowUpInvariant, NEW u \in User, NEW a \in Raised, NEW new,
         SoundAction(actions[a]),
         \/ \E o \in User : Editable(a) /\ new = Assign(actions[a], [owner |-> o])
         \/ \E name \in DOMAIN WORKFLOW :
              /\ Permits(WORKFLOW, name, actions[a].status, TRUE)
              /\ MayTransition(u, a, name)
              /\ new = Written(u, actions[a], name)
  PROVE  Served([step |-> "action", id |-> a, loaded |-> actions[a], new |-> new], actions, finding)
<1>1. actions[a] \in ActionRow
  BY DEF Raised, FollowUpInvariant, RowsAreTyped
<1>2. SoundAction(new)
  <2>1. CASE \E o \in User : Editable(a) /\ new = Assign(actions[a], [owner |-> o])
    <3>1. PICK o \in User : new = Handed(actions[a], o)
      BY <1>1, <2>1, HandedAction
    <3> QED
      BY <2>1, <3>1 DEF Editable, Handed, SoundAction
  <2>2. CASE \E name \in DOMAIN WORKFLOW :
               /\ Permits(WORKFLOW, name, actions[a].status, TRUE)
               /\ MayTransition(u, a, name)
               /\ new = Written(u, actions[a], name)
    <3>1. PICK name \in DOMAIN WORKFLOW :
                 /\ Permits(WORKFLOW, name, actions[a].status, TRUE)
                 /\ MayTransition(u, a, name)
                 /\ new = Written(u, actions[a], name)
      BY <2>2
    <3>2. /\ new.status = TargetOf(WORKFLOW, name)
          /\ new.owner = actions[a].owner
          /\ new.closed_by = IF name = "close" THEN u ELSE IF name = "reopen" THEN Nobody ELSE actions[a].closed_by
          /\ new.completed <=> name = "complete" \/ (actions[a].completed /\ name # "reopen")
      BY <1>1, <3>1, WrittenAction
    <3>3. new.status = "completed" => name = "complete"
      <4>1. WORKFLOW[name].target = "completed" => name = "complete"
        BY <3>1, ActionFlow
      <4> QED
        BY <3>2, <4>1 DEF TargetOf
    <3>4. new.status = "closed" => name = "close" /\ actions[a].status = "completed"
      <4>1. WORKFLOW[name].target = "closed" => name = "close"
        BY <3>1, ActionFlow
      <4>2. name = "close" => actions[a].status = "completed"
        BY <3>1, ActionFlow DEF Permits
      <4> QED
        BY <3>2, <4>1, <4>2 DEF TargetOf
    <3>5. name = "close" => u \in Reviewer \ {actions[a].owner}
      BY <3>1 DEF MayTransition
    <3> QED
      BY <3>2, <3>3, <3>4, <3>5 DEF SoundAction
  <2> QED
    BY <2>1, <2>2
<1> QED
  BY <1>2 DEF Served

LEMMA ReassignmentIsServed ==
  ASSUME FollowUpInvariant, SoundFinding(finding), FindingEditable, NEW u, NEW o \in User
  PROVE  Served([step |-> "finding", name |-> "update", by |-> u, loaded |-> finding,
                 new |-> Assign(finding, [owner |-> o])], actions, finding)
<1> DEFINE new == Assign(finding, [owner |-> o])
<1>1. new = Reassigned(finding, o)
  BY ReassignedFinding DEF FollowUpInvariant, RowsAreTyped
<1>2. new.status = finding.status /\ new.responded_by = finding.responded_by
  BY <1>1 DEF Reassigned
<1>3. finding.status # "closed"
  BY DEF FindingEditable
<1> HIDE DEF new
<1>4. SoundFinding(new)
  BY <1>2, <1>3 DEF SoundFinding
<1>5. Served([step |-> "finding", name |-> "update", by |-> u, loaded |-> finding, new |-> new],
             actions, finding)
  BY <1>2, <1>4 DEF Served, StepServed
<1> QED
  BY <1>5 DEF new

LEMMA DecisionIsServed ==
  ASSUME Assumptions, FollowUpInvariant, SoundFinding(finding), NEW u \in User,
         NEW name \in DOMAIN FINDING_FLOW,
         finding.status \in FINDING_FLOW[name].sources, MayTransitionFinding(u, name)
  PROVE  Served([step |-> "finding", name |-> name, by |-> u, loaded |-> finding,
                 new |-> Decided(u, finding, name)], actions, finding)
<1> DEFINE new == Decided(u, finding, name)
<1>1. /\ new.status = TargetOf(FINDING_FLOW, name) /\ new.owner = finding.owner
      /\ new.responded_by = IF name = "respond" THEN u ELSE finding.responded_by
      /\ new.validated_by = IF name = "validate" THEN u ELSE finding.validated_by
  BY DEF Decided
<1> HIDE DEF new
<1>2. name = "respond" => new.responded_by \notin Auditor \cup {Nobody}
  BY <1>1 DEF MayTransitionFinding, Management, Assumptions, RolesAssumption
<1>3. name = "validate" => new.validated_by \in Auditor \ {new.owner}
  BY <1>1 DEF MayTransitionFinding
<1>4. new.status = "closed" => name = "validate"
  <2>1. FINDING_FLOW[name].target = "closed" => name = "validate"
    BY FindingFlow
  <2> QED
    BY <1>1, <2>1 DEF TargetOf
<1>5. new.status \in AGREED \cup {"response_submitted"} =>
        name = "respond" \/ finding.status \in AGREED \cup {"response_submitted"}
  BY <1>1, FindingFlow DEF TargetOf, AGREED
<1>6. SoundFinding(new)
  BY <1>1, <1>2, <1>3, <1>4, <1>5 DEF SoundFinding
<1>7. Served([step |-> "finding", name |-> name, by |-> u, loaded |-> finding, new |-> new], actions, finding)
  BY <1>1, <1>6 DEF Served, StepServed
<1> QED
  BY <1>7 DEF new

(* The commits, of serial requests.                                        *)
LEMMA CommitActionIsSound ==
  ASSUME FollowUpInvariant, SerialInvariant, Serial, NEW w \in Worker, CommitAction(w),
         UNCHANGED <<finding, decisions>>
  PROVE  RowsAreSound'
<1> DEFINE q == req[w]
           a == q.id
<1>1. /\ q.step = "action" /\ q.loaded = actions[a] /\ SoundAction(q.new)
  BY DEF SerialInvariant, Served, CommitAction
<1>2. /\ a \in 1..MaxAction /\ actions[a] \in ActionRow /\ q.new \in ActionRow
  BY <1>1 DEF FollowUpInvariant, Underway, ActionUnderway, RowsAreTyped
<1>3. actions' = [actions EXCEPT ![a] = Flush(q.loaded, q.new, actions[a])]
  BY DEF CommitAction
<1> HIDE DEF q, a
<1>4. Flush(actions[a], q.new, actions[a]) = q.new
  <2>1. q.new = [c \in DOMAIN actions[a] |-> q.new[c]]
    BY <1>2 DEF ActionRow
  <2> QED
    BY <2>1, FlushIsWhole
<1>5. \A b \in 1..MaxAction : actions'[b] = IF b = a THEN q.new ELSE actions[b]
  BY <1>1, <1>2, <1>3, <1>4 DEF FollowUpInvariant, RowsAreTyped
<1>6. \A b \in 1..MaxAction : SoundAction(actions'[b])
  BY <1>1, <1>5 DEF SerialInvariant, RowsAreSound
<1>7. SoundFinding(finding') /\ Answered'
  BY DEF SerialInvariant, RowsAreSound, Answered, Times
<1> QED
  BY <1>6, <1>7 DEF RowsAreSound

LEMMA CommitFindingIsSound ==
  ASSUME Assumptions, FollowUpInvariant, SerialInvariant, Serial, NEW w \in Worker, CommitFinding(w)
  PROVE  RowsAreSound'
<1> DEFINE q == req[w]
<1>1. /\ q.step = "finding" /\ q.loaded = finding /\ SoundFinding(q.new) /\ StepServed(q, finding)
  BY DEF SerialInvariant, Served, CommitFinding
<1>2. q.by \in User /\ q.new \in FindingRow /\ finding \in FindingRow
  BY <1>1 DEF FollowUpInvariant, Underway, FindingUnderway, RowsAreTyped
<1>3. /\ finding' = Flush(q.loaded, q.new, finding)
      /\ decisions' = IF q.name = "update" THEN decisions ELSE Append(decisions, q.name)
      /\ q.name = "accept" => RoomForAction /\ actions' = NewAction(q.by, q.new.owner, "audit_finding")
      /\ q.name # "accept" => actions' = actions
  BY DEF CommitFinding, FollowUp
<1> HIDE DEF q
<1>4. finding' = q.new
  <2>1. q.new = [c \in DOMAIN finding |-> q.new[c]]
    BY <1>2 DEF FindingRow
  <2> QED
    BY <1>1, <1>3, <2>1, FlushIsWhole
<1>5. Answered'
  <2>1. CASE q.name = "update" /\ q.new.status = finding.status
    <3>1. Times("accept")' = Times("accept") /\ Times("reject_response")' = Times("reject_response")
            /\ Times("respond")' = Times("respond")
      BY <1>3, <2>1 DEF Times
    <3> QED
      BY <1>4, <2>1, <3>1 DEF SerialInvariant, RowsAreSound, Answered
  <2>2. CASE /\ q.name \in DOMAIN FINDING_FLOW
             /\ finding.status \in FINDING_FLOW[q.name].sources
             /\ q.new.status = TargetOf(FINDING_FLOW, q.name)
    <3>1. decisions' = Append(decisions, q.name)
      BY <1>3, <2>2, FindingFlow
    <3> QED
      BY <1>4, <2>2, <3>1, DecisionIsAnswered DEF SerialInvariant, RowsAreSound
  <2> QED
    BY <1>1, <2>1, <2>2 DEF StepServed
<1>6. \A a \in 1..MaxAction : SoundAction(actions'[a])
  <2>1. q.new.owner \in User \cup {Nobody}
    BY <1>2 DEF FindingRow
  <2>2. \A a \in 1..MaxAction : SoundAction(actions[a])
    BY DEF SerialInvariant, RowsAreSound
  <2>3. CASE q.name = "accept"
    BY <1>2, <1>3, <2>1, <2>2, <2>3, RaisedIsSound
  <2>4. CASE q.name # "accept"
    BY <1>3, <2>2, <2>4
  <2> QED
    BY <2>3, <2>4
<1> QED
  BY <1>1, <1>4, <1>5, <1>6 DEF RowsAreSound

LEMMA CommitResolutionIsSound ==
  ASSUME Assumptions, FollowUpInvariant, SerialInvariant, Serial, NEW w \in Worker, CommitResolution(w),
         UNCHANGED <<finding, decisions>>
  PROVE  RowsAreSound'
<1> DEFINE q == req[w]
<1>1. /\ q.by \in User /\ q.owner \in User \cup {Nobody}
      /\ q.owner # Nobody => RoomForAction /\ actions' = NewAction(q.by, q.owner, "resolution")
      /\ q.owner = Nobody => actions' = actions
  BY DEF FollowUpInvariant, Underway, ResolveUnderway, CommitResolution
<1> HIDE DEF q
<1>2. \A a \in 1..MaxAction : SoundAction(actions[a])
  BY DEF SerialInvariant, RowsAreSound
<1>3. \A a \in 1..MaxAction : SoundAction(actions'[a])
  <2>1. CASE q.owner # Nobody
    BY <1>1, <1>2, <2>1, RaisedIsSound
  <2>2. CASE q.owner = Nobody
    BY <1>1, <1>2, <2>2
  <2> QED
    BY <2>1, <2>2
<1>4. SoundFinding(finding') /\ Answered'
  BY DEF SerialInvariant, RowsAreSound, Answered, Times
<1> QED
  BY <1>3, <1>4 DEF RowsAreSound
-----------------------------------------------------------------------------
LEMMA SerialInit == ASSUME Assumptions, Init PROVE SerialInvariant
<1>1. /\ actions = [a \in 1..MaxAction |-> NoAction] /\ finding = NoFinding /\ decisions = <<>>
      /\ req \in [Worker -> {Idle, Off}]
  BY DEF Init, ActionsInit, FindingsInit, RequestsInit
<1>2. SoundAction(NoAction) /\ SoundFinding(NoFinding)
  BY DEF SoundAction, NoAction, SoundFinding, NoFinding, AGREED
<1>3. Answered
  <2>1. DOMAIN decisions = {}
    BY <1>1
  <2>2. Times("accept") = 0 /\ Times("reject_response") = 0 /\ Times("respond") = 0
    BY <2>1, FS_EmptySet DEF Times
  <2>3. Pending(finding.status) = 0
    BY <1>1 DEF Pending, NoFinding
  <2> QED
    BY <2>2, <2>3 DEF Answered
<1>4. \A w \in Worker : req[w].step \notin {"action", "finding"}
  BY <1>1 DEF Idle, Off
<1>5. \A w \in Worker : Served(req[w], actions, finding)
  BY <1>4, ServedElsewhere
<1> QED
  BY <1>1, <1>2, <1>3, <1>5 DEF SerialInvariant, RowsAreSound

LEMMA ActionsAreSerial ==
  ASSUME Assumptions, FollowUpInvariant, SerialInvariant, ActionsNext, UNCHANGED findingVars
  PROVE  SerialInvariant'
<1>0. UNCHANGED <<finding, decisions>>
  BY DEF findingVars
<1>1. ASSUME NEW u \in User, NEW o \in User, CreateAction(u, o) PROVE SerialInvariant'
  <2>1. Serial => \A a \in 1..MaxAction : SoundAction(actions'[a])
    BY <1>1, RaisedIsSound DEF CreateAction, SerialInvariant, RowsAreSound
  <2>2. Serial => RowsAreSound'
    BY <1>0, <2>1 DEF SerialInvariant, RowsAreSound, Answered, Times
  <2> QED
    BY <1>1, <2>2, CreateIsSerial DEF CreateAction
<1>2. ASSUME NEW u \in User, NEW w \in Waiting, NEW a \in Raised, NEW new, LoadAction(w, a, new),
             \/ \E o \in User : Editable(a) /\ new = Assign(actions[a], [owner |-> o])
             \/ \E name \in DOMAIN WORKFLOW :
                  /\ Permits(WORKFLOW, name, actions[a].status, TRUE)
                  /\ MayTransition(u, a, name)
                  /\ new = Written(u, actions[a], name)
      PROVE  SerialInvariant'
  <2> DEFINE q == [step |-> "action", id |-> a, loaded |-> actions[a], new |-> new]
  <2>1. Serial => SoundAction(actions[a])
    BY DEF SerialInvariant, RowsAreSound, Raised, FollowUpInvariant, RowsAreTyped
  <2>2. Serial => Served(q, actions, finding)
    BY <1>2, <2>1, ActionIsServed
  <2>3. w \in Worker /\ Begin(w, q) /\ q.step # "off" /\ UNCHANGED <<actions, finding, decisions>>
    BY <1>0, <1>2 DEF LoadAction, Waiting
  <2> QED
    BY <2>2, <2>3, LoadIsSerial
<1>3. ASSUME NEW u \in User, NEW w \in Waiting, NEW a \in Raised, NEW o \in User, UpdateOwner(w, u, a, o)
      PROVE  SerialInvariant'
  BY <1>2, <1>3 DEF UpdateOwner
<1>4. ASSUME NEW u \in User, NEW w \in Waiting, NEW a \in Raised, NEW name \in DOMAIN WORKFLOW,
             TransitionAction(w, u, a, name)
      PROVE  SerialInvariant'
  BY <1>2, <1>4 DEF TransitionAction
<1>5. ASSUME NEW w \in Worker, CommitAction(w) PROVE SerialInvariant'
  <2>1. InFlight(w) /\ Finish(w)
    BY <1>5 DEF CommitAction, InFlight
  <2> QED
    BY <1>0, <1>5, <2>1, CommitActionIsSound, CommitIsSerial
<1> QED
  BY <1>1, <1>3, <1>4, <1>5 DEF ActionsNext

LEMMA FindingsAreSerial ==
  ASSUME Assumptions, FollowUpInvariant, SerialInvariant, FindingsNext
  PROVE  SerialInvariant'
<1>1. ASSUME NEW u \in User, NEW o \in User, CreateFinding(u, o) PROVE SerialInvariant'
  <2>1. /\ finding.status = "absent" /\ finding \in FindingRow
        /\ finding' = Assign(NoFinding, [status |-> "open", auditor |-> u, owner |-> o])
        /\ UNCHANGED <<decisions, actions>>
    BY <1>1 DEF CreateFinding, FollowUpInvariant, RowsAreTyped
  <2>2. finding'.status = "open"
    BY <2>1 DEF Assign, NoFinding
  <2>3. SoundFinding(finding') /\ Pending(finding'.status) = Pending(finding.status)
    BY <2>1, <2>2 DEF SoundFinding, Pending, AGREED
  <2>4. Serial => RowsAreSound'
    BY <2>1, <2>3 DEF SerialInvariant, RowsAreSound, Answered, Times
  <2> QED
    BY <1>1, <2>4, CreateIsSerial DEF CreateFinding
<1>2. ASSUME NEW u \in User, NEW w \in Waiting, NEW o \in User, UpdateFinding(w, u, o)
      PROVE  SerialInvariant'
  <2> DEFINE q == [step |-> "finding", name |-> "update", by |-> u, loaded |-> finding,
                   new |-> Assign(finding, [owner |-> o])]
  <2>1. Serial => Served(q, actions, finding)
    BY <1>2, ReassignmentIsServed DEF UpdateFinding, SerialInvariant, RowsAreSound
  <2>2. w \in Worker /\ Begin(w, q) /\ q.step # "off" /\ UNCHANGED <<actions, finding, decisions>>
    BY <1>2 DEF UpdateFinding, LoadFinding, Waiting
  <2> QED
    BY <2>1, <2>2, LoadIsSerial
<1>3. ASSUME NEW u \in User, NEW w \in Waiting, NEW name \in DOMAIN FINDING_FLOW, TransitionFinding(w, u, name)
      PROVE  SerialInvariant'
  <2> DEFINE q == [step |-> "finding", name |-> name, by |-> u, loaded |-> finding,
                   new |-> Decided(u, finding, name)]
  <2>1. finding \in FindingRow /\ finding.status \in FINDING_FLOW[name].sources
    BY <1>3 DEF TransitionFinding, Permits, FollowUpInvariant, RowsAreTyped
  <2>2. Serial => Served(q, actions, finding)
    BY <1>3, <2>1, DecisionIsServed DEF TransitionFinding, SerialInvariant, RowsAreSound
  <2>3. w \in Worker /\ Begin(w, q) /\ q.step # "off" /\ UNCHANGED <<actions, finding, decisions>>
    BY <1>3, <2>1, DecidedFinding DEF TransitionFinding, LoadFinding, Waiting
  <2> QED
    BY <2>2, <2>3, LoadIsSerial
<1>4. ASSUME NEW w \in Worker, CommitFinding(w) PROVE SerialInvariant'
  <2>1. InFlight(w) /\ Finish(w)
    BY <1>4 DEF CommitFinding, InFlight
  <2> QED
    BY <1>4, <2>1, CommitFindingIsSound, CommitIsSerial
<1> QED
  BY <1>1, <1>2, <1>3, <1>4 DEF FindingsNext

(* Requests about other records leave actions and findings alone.          *)
LEMMA OthersAreSerial ==
  ASSUME Assumptions, FollowUpInvariant, SerialInvariant, UNCHANGED <<actions, finding, decisions>>,
         \/ \E w \in Worker : \E q : Begin(w, q) /\ q.step \notin {"off", "action", "finding"}
         \/ \E w \in Worker : Finish(w) /\ InFlight(w)
         \/ Free /\ UNCHANGED req
  PROVE  SerialInvariant'
<1>1. ASSUME NEW w \in Worker, NEW q, Begin(w, q), q.step \notin {"off", "action", "finding"}
      PROVE  SerialInvariant'
  <2>1. Served(q, actions, finding)
    BY <1>1, ServedElsewhere
  <2> QED
    BY <1>1, <2>1, LoadIsSerial
<1>2. Serial => RowsAreSound'
  BY RowsStaySound
<1> QED
  BY <1>1, <1>2, CommitIsSerial, CreateIsSerial

LEMMA MeetingsAreSerial ==
  ASSUME Assumptions, FollowUpInvariant, SerialInvariant, MeetingsNext, UNCHANGED findingVars
  PROVE  SerialInvariant'
<1>0. UNCHANGED <<finding, decisions>>
  BY DEF findingVars
<1>1. ASSUME NEW u \in User, CreateMeeting(u) PROVE SerialInvariant'
  BY <1>0, <1>1, OthersAreSerial DEF CreateMeeting
<1>2. ASSUME NEW u \in User, NEW w \in Waiting, NEW name \in DOMAIN MEETING_FLOW, NEW given \in BOOLEAN,
             TransitionMeeting(w, u, name, given)
      PROVE  SerialInvariant'
  <2>1. PICK q : Begin(w, q) /\ q.step = "meeting"
    BY <1>2 DEF TransitionMeeting
  <2> QED
    BY <1>0, <1>2, <2>1, OthersAreSerial DEF TransitionMeeting, Waiting
<1>3. ASSUME NEW u \in User, NEW w \in Waiting, NEW o \in User \cup {Nobody}, AddResolution(w, u, o)
      PROVE  SerialInvariant'
  <2>1. PICK q : Begin(w, q) /\ q.step = "resolve"
    BY <1>3 DEF AddResolution
  <2> QED
    BY <1>0, <1>3, <2>1, OthersAreSerial DEF AddResolution, Waiting
<1>4. ASSUME NEW u \in User, NEW w \in Waiting, NEW n \in Numbered, NEW name \in DOMAIN RESOLUTION_FLOW,
             TransitionResolution(w, u, n, name)
      PROVE  SerialInvariant'
  <2>1. PICK q : Begin(w, q) /\ q.step = "resolution"
    BY <1>4 DEF TransitionResolution
  <2> QED
    BY <1>0, <1>4, <2>1, OthersAreSerial DEF TransitionResolution, Waiting
<1>5. ASSUME NEW w \in Worker, CommitMeeting(w) \/ RefuseResolution(w) \/ CommitResolutionStep(w)
      PROVE  SerialInvariant'
  <2>1. InFlight(w) /\ Finish(w) /\ UNCHANGED actions
    BY <1>5 DEF CommitMeeting, RefuseResolution, CommitResolutionStep, InFlight
  <2> QED
    BY <1>0, <2>1, OthersAreSerial
<1>6. ASSUME NEW w \in Worker, CommitResolution(w) PROVE SerialInvariant'
  <2>1. InFlight(w) /\ Finish(w)
    BY <1>6 DEF CommitResolution, InFlight
  <2> QED
    BY <1>0, <1>6, <2>1, CommitResolutionIsSound, CommitIsSerial
<1> QED
  BY <1>1, <1>2, <1>3, <1>4, <1>5, <1>6 DEF MeetingsNext

LEMMA RisksAreSerial ==
  ASSUME Assumptions, FollowUpInvariant, SerialInvariant, RisksNext, UNCHANGED <<actions, finding, decisions>>
  PROVE  SerialInvariant'
<1>1. ASSUME NEW u \in User, NEW c \in Criteria, CreateMatrix(u, c) PROVE SerialInvariant'
  BY <1>1, OthersAreSerial DEF CreateMatrix
<1>2. ASSUME NEW u \in User, NEW w \in Waiting, NEW m \in Saved, NEW c \in Criteria, EditMatrix(w, u, m, c)
      PROVE  SerialInvariant'
  <2>1. PICK q : Begin(w, q) /\ q.step = "matrix"
    BY <1>2 DEF EditMatrix, LoadRisks
  <2> QED
    BY <2>1, OthersAreSerial DEF Waiting
<1>3. ASSUME NEW u \in User, NEW w \in Waiting, NEW m \in Saved, ActivateMatrix(w, u, m)
      PROVE  SerialInvariant'
  <2>1. PICK q : Begin(w, q) /\ q.step = "matrix"
    BY <1>3 DEF ActivateMatrix, LoadRisks
  <2> QED
    BY <2>1, OthersAreSerial DEF Waiting
<1>4. ASSUME NEW u \in User, NEW w \in Waiting, NEW o \in User, CreateRisk(w, u, o) PROVE SerialInvariant'
  <2>1. PICK q : Begin(w, q) /\ q.step = "register"
    BY <1>4 DEF CreateRisk, LoadRisks
  <2> QED
    BY <2>1, OthersAreSerial DEF Waiting
<1>5. ASSUME NEW u \in User, NEW w \in Waiting, NEW kind \in KINDS, NEW l \in 1..10, NEW i \in 1..10,
             Assess(w, u, kind, l, i)
      PROVE  SerialInvariant'
  <2>1. PICK q : Begin(w, q) /\ q.step = "assess"
    BY <1>5 DEF Assess, LoadRisks
  <2> QED
    BY <2>1, OthersAreSerial DEF Waiting
<1>6. ASSUME NEW u \in User, NEW w \in Waiting, NEW o \in User, UpdateRisk(w, u, o) PROVE SerialInvariant'
  <2>1. PICK q : Begin(w, q) /\ q.step = "risk"
    BY <1>6 DEF UpdateRisk, LoadRisks
  <2> QED
    BY <2>1, OthersAreSerial DEF Waiting
<1>7. ASSUME NEW u \in User, NEW w \in Waiting, NEW name \in DOMAIN RISK_FLOW, TransitionRisk(w, u, name)
      PROVE  SerialInvariant'
  <2>1. PICK q : Begin(w, q) /\ q.step = "risk"
    BY <1>7 DEF TransitionRisk, LoadRisks
  <2> QED
    BY <2>1, OthersAreSerial DEF Waiting
<1>8. ASSUME NEW w \in Worker, CommitMatrix(w) \/ CommitRegister(w) \/ CommitRisk(w) PROVE SerialInvariant'
  <2>1. InFlight(w) /\ Finish(w)
    BY <1>8 DEF CommitMatrix, CommitRegister, CommitRisk, InFlight
  <2> QED
    BY <2>1, OthersAreSerial
<1> QED
  BY <1>1, <1>2, <1>3, <1>4, <1>5, <1>6, <1>7, <1>8 DEF RisksNext

LEMMA SerialStep ==
  ASSUME Assumptions, FollowUpInvariant, SerialInvariant, [Next]_vars PROVE SerialInvariant'
<1>1. CASE UNCHANGED vars
  BY <1>1 DEF vars, SerialInvariant, Serial, RowsAreSound, Answered, Times
<1>2. CASE ActionsNext /\ UNCHANGED <<findingVars, meetingVars, riskVars>>
  BY <1>2, ActionsAreSerial
<1>3. CASE FindingsNext /\ UNCHANGED <<meetingVars, riskVars>>
  BY <1>3, FindingsAreSerial
<1>4. CASE MeetingsNext /\ UNCHANGED <<findingVars, riskVars>>
  BY <1>4, MeetingsAreSerial
<1>5. CASE RisksNext /\ UNCHANGED <<actionVars, findingVars, meetingVars>>
  BY <1>5, RisksAreSerial DEF actionVars, findingVars
<1> QED
  BY <1>1, <1>2, <1>3, <1>4, <1>5 DEF Next

(* Served one after the other, requests leave sound rows only, and carry   *)
(* sound copies of the rows that are stored.                               *)
THEOREM SerialInvariantHolds == Spec => []SerialInvariant
<1>1. Assumptions
  BY AssumptionsHold
<1>2. Init => SerialInvariant
  BY <1>1, SerialInit
<1>3. FollowUpInvariant /\ SerialInvariant /\ [Next]_vars => SerialInvariant'
  BY <1>1, SerialStep
<1> QED
  BY <1>2, <1>3, FollowUpInvariantHolds, PTL DEF Spec
-----------------------------------------------------------------------------
(* Follow-up that was promised is in the tracker: of an agreed finding and *)
(* of every resolution that names an owner, however requests race; and of  *)
(* serial requests none accepts a response twice (service.py:142, 262).    *)
THEOREM FollowUpIsAlwaysKept == Spec => []FollowUpIsKept
<1>1. FollowUpInvariant /\ SerialInvariant => FollowUpIsKept
  <2> SUFFICES ASSUME FollowUpInvariant, SerialInvariant PROVE FollowUpIsKept
    OBVIOUS
  <2>1. finding.status \in {"agreed", "closure_requested", "closed"} =>
          \E a \in Raised : actions[a].source = "audit_finding"
    BY DEF FollowUpInvariant, AGREED, FollowedUp, Raised, RowsAreTyped
  <2>2. Serial => Times("accept") + Times("reject_response") <= Times("respond")
    <3>1. /\ Times("accept") \in Nat /\ Times("reject_response") \in Nat /\ Times("respond") \in Nat
      BY TimesAreNumbers DEF FollowUpInvariant, RowsAreTyped
    <3>2. Serial => Times("accept") + Times("reject_response") + Pending(finding.status) <= Times("respond")
      BY DEF SerialInvariant, RowsAreSound, Answered
    <3>3. Pending(finding.status) \in {0, 1}
      BY DEF Pending
    <3> QED
      BY <3>1, <3>2, <3>3
  <2>3. \A n \in Numbered : resolutions[n].owner # Nobody =>
          resolutions[n].action \in Raised /\ actions[resolutions[n].action].source = "resolution"
    BY DEF FollowUpInvariant, RowsAreTyped, OwnActions, OwnAction, Numbered, Raised
  <2>4. Cardinality({a \in Raised : actions[a].source = "resolution"}) =
          Cardinality({n \in Numbered : resolutions[n].owner # Nobody})
    BY DEF FollowUpInvariant, Resolved, Owned
  <2>5. AgreementsAreFollowedUp
    BY <2>1, <2>2 DEF AgreementsAreFollowedUp
  <2>6. ResolutionsHaveTheirAction
    BY <2>3, <2>4 DEF ResolutionsHaveTheirAction, FollowUpInvariant, NoActionTwice
  <2> QED
    BY <2>5, <2>6 DEF FollowUpIsKept
<1> QED
  BY <1>1, FollowUpInvariantHolds, SerialInvariantHolds, PTL

(* Served one after the other, requests close neither an action nor a      *)
(* finding for the one who answers for it (actions.py:139, service.py:256). *)
THEOREM WorkIsAlwaysVerifiedByOthers == Spec => []WorkIsVerifiedByOthers
<1>1. FollowUpInvariant /\ SerialInvariant => WorkIsVerifiedByOthers
  <2> SUFFICES ASSUME FollowUpInvariant, SerialInvariant PROVE WorkIsVerifiedByOthers
    OBVIOUS
  <2>1. ClosedActionsWereVerified
    BY DEF ClosedActionsWereVerified, SerialInvariant, RowsAreSound, SoundAction, FollowUpInvariant,
           RowsAreTyped, Raised
  <2>2. FindingsAreValidatedByOthers
    BY DEF FindingsAreValidatedByOthers, SerialInvariant, RowsAreSound, SoundFinding, AGREED
  <2> QED
    BY <2>1, <2>2 DEF WorkIsVerifiedByOthers
<1> QED
  BY <1>1, FollowUpInvariantHolds, SerialInvariantHolds, PTL
-----------------------------------------------------------------------------
(* A row of risk_matrices: what it says is in three columns of their own.  *)
MatrixBand == [min : Int, max : Int, appetite : STRING]
MatrixRow == [exists : BOOLEAN, active : BOOLEAN, likelihood : Int, impact : Int, bands : Seq(MatrixBand)]

MatrixWith(exists, active, c) ==
  [exists |-> exists, active |-> active, likelihood |-> c.likelihood, impact |-> c.impact, bands |-> c.bands]

LEMMA CriteriaAreTyped ==
  ASSUME Assumptions, NEW c \in Criteria
  PROVE  /\ c.likelihood \in Int /\ c.impact \in Int /\ c.bands \in Seq(MatrixBand)
         /\ DOMAIN c = {"likelihood", "impact", "bands"}
BY DEF Assumptions, RisksAssumption, MatrixBand

(* What makes a matrix valid is in those three columns.                    *)
LEMMA MatrixSays ==
  ASSUME NEW c, NEW exists \in BOOLEAN, NEW active \in BOOLEAN
  PROVE  LET row == MatrixWith(exists, active, c)
         IN /\ row.exists = exists /\ row.active = active
            /\ row.likelihood = c.likelihood /\ row.impact = c.impact /\ row.bands = c.bands
            /\ ValidMatrix(row) <=> ValidMatrix(c)
            /\ c.likelihood \in Int /\ c.impact \in Int /\ c.bands \in Seq(MatrixBand) => row \in MatrixRow
<1> DEFINE row == MatrixWith(exists, active, c)
<1>1. /\ row.exists = exists /\ row.active = active
      /\ row.likelihood = c.likelihood /\ row.impact = c.impact /\ row.bands = c.bands
  BY DEF MatrixWith
<1>2. c.likelihood \in Int /\ c.impact \in Int /\ c.bands \in Seq(MatrixBand) => row \in MatrixRow
  <2> HIDE DEF MatrixBand
  <2> QED
    BY DEF MatrixWith, MatrixRow
<1> HIDE DEF row
<1>3. ValidMatrix(row) <=> ValidMatrix(c)
  BY <1>1, ZenonT(30) DEF ValidMatrix
<1> QED
  BY <1>1, <1>2, <1>3 DEF row

(* The band a rating is given is a number, or 0 for none.                  *)
LEMMA BandIsNatural ==
  ASSUME NEW c \in MatrixRow, NEW l, NEW i
  PROVE  band_for(c, l, i) \in Nat
<1> DEFINE score == l * i
           hit == {k \in DOMAIN c.bands : c.bands[k].min <= score /\ score <= c.bands[k].max}
<1>1. c.bands \in Seq(MatrixBand)
  BY DEF MatrixRow
<1>2. hit \in SUBSET Nat
  <2>1. DOMAIN c.bands \subseteq Nat
    <3> HIDE DEF MatrixBand
    <3> QED
      BY <1>1
  <2> QED
    BY <2>1
<1>3. band_for(c, l, i) = IF hit = {} THEN 0 ELSE CHOOSE k \in hit : \A j \in hit : k <= j
  BY DEF band_for
<1> HIDE DEF hit
<1>4. hit # {} => \E k \in hit : \A j \in hit : k <= j
  BY <1>2, LeastNumber
<1>5. hit # {} => band_for(c, l, i) \in hit
  BY <1>3, <1>4
<1>6. CASE hit = {}
  <2>1. band_for(c, l, i) = 0
    BY <1>3, <1>6
  <2> QED
    BY <2>1
<1>7. CASE hit # {}
  BY <1>2, <1>5, <1>7
<1> QED
  BY <1>6, <1>7

(* The bands of a valid matrix leave no gap: every rating on its scales is *)
(* in one of them.                                                         *)
LEMMA BandsLeaveNoGap ==
  ASSUME NEW c \in MatrixRow, ValidMatrix(c),
         NEW l \in 1..c.likelihood, NEW i \in 1..c.impact
  PROVE  band_for(c, l, i) \in DOMAIN c.bands
<1> DEFINE bands == c.bands
           last == Len(bands)
           score == l * i
           hit == {k \in DOMAIN bands : bands[k].min <= score /\ score <= bands[k].max}
<1>1. /\ c.likelihood \in Int /\ c.impact \in Int
      /\ bands \in Seq(MatrixBand)
  BY DEF MatrixRow
<1>2. /\ last \in Nat /\ DOMAIN bands = 1..last /\ last >= 1
      /\ \A k \in 1..last : bands[k].min \in Int /\ bands[k].max \in Int
  <2>1. bands # <<>>
    BY DEF ValidMatrix
  <2>2. last \in Nat /\ DOMAIN bands = 1..last /\ last >= 1
    <3> HIDE DEF bands
    <3> QED
      BY <1>1, <2>1
  <2>3. ASSUME NEW k \in 1..last PROVE bands[k].min \in Int /\ bands[k].max \in Int
    <3>1. bands \in Seq(MatrixBand) /\ k \in 1..Len(bands)
      BY <1>1
    <3> HIDE DEF MatrixBand, bands
    <3>2. bands[k] \in MatrixBand
      BY <3>1
    <3>3. bands[k].min \in Int /\ bands[k].max \in Int
      BY <3>2 DEF MatrixBand
    <3> QED
      BY <3>3
  <2> QED
    BY <2>2, <2>3
<1>3. score \in Int /\ 1 <= score /\ score <= c.likelihood * c.impact
  <2>1. l \in Int /\ i \in Int /\ 1 <= l /\ l <= c.likelihood /\ 1 <= i /\ i <= c.impact
    BY <1>1
  <2>2. l * i \in Int /\ c.likelihood * i \in Int /\ c.likelihood * c.impact \in Int
    BY <1>1, <2>1
  <2>3. 1 <= l * i
    BY <2>1
  <2>4. l * i <= c.likelihood * i
    <3> DEFINE most == c.likelihood
    <3>1. most \in Int /\ l <= most /\ 0 <= i
      BY <1>1, <2>1
    <3> HIDE DEF most
    <3>2. l * i <= most * i
      BY <2>1, <3>1
    <3> QED
      BY <3>2 DEF most
  <2>5. c.likelihood * i <= c.likelihood * c.impact
    BY <1>1, <2>1
  <2> QED
    BY <2>2, <2>3, <2>4, <2>5
<1>4. PICK order \in [1..last -> 1..last] :
        /\ bands[order[1]].min = 1 /\ bands[order[last]].max = c.likelihood * c.impact
        /\ \A k \in 1..(last - 1) : bands[order[k]].max + 1 = bands[order[k + 1]].min
  BY <1>2 DEF ValidMatrix
<1> HIDE DEF bands, last, score
<1>5. \E k \in 1..last : bands[order[k]].min <= score /\ score <= bands[order[k]].max
  <2> DEFINE S == {k \in 1..last : score <= bands[order[k]].max}
  <2>1. S \in SUBSET Nat /\ last \in S
    BY <1>2, <1>3, <1>4
  <2>2. PICK k \in S : \A n \in S : k <= n
    BY <2>1, LeastNumber
  <2>3. k \in 1..last /\ order[k] \in 1..last /\ score <= bands[order[k]].max
    BY <1>4, <2>2
  <2>4. CASE k = 1
    <3>1. bands[order[k]].min <= score
      BY <1>3, <1>4, <2>4
    <3> QED
      BY <2>3, <3>1
  <2>5. CASE k # 1
    <3>0. ~(k <= k - 1)
      BY <1>2, <2>3
    <3>1. k - 1 \in 1..(last - 1) /\ k - 1 \in 1..last /\ k - 1 \notin S /\ (k - 1) + 1 = k
      <4>1. k - 1 \in 1..(last - 1) /\ k - 1 \in 1..last /\ (k - 1) + 1 = k
        BY <1>2, <2>3, <2>5
      <4> HIDE DEF S
      <4>2. k - 1 \notin S
        BY <2>2, <3>0
      <4> QED
        BY <4>1, <4>2
    <3>2. bands[order[k - 1]].max \in Int /\ ~(score <= bands[order[k - 1]].max)
      BY <1>2, <1>4, <3>1
    <3>3. bands[order[k - 1]].max + 1 = bands[order[k]].min
      BY <1>4, <3>1
    <3>4. bands[order[k - 1]].max + 1 <= score
      BY <1>3, <3>2
    <3> QED
      BY <2>3, <3>3, <3>4
  <2> QED
    BY <2>4, <2>5
<1>6. hit # {} /\ hit \in SUBSET Nat
  <2>1. PICK k \in 1..last : bands[order[k]].min <= score /\ score <= bands[order[k]].max
    BY <1>5
  <2>2. order[k] \in hit
    BY <1>2, <1>4, <2>1
  <2>3. hit \subseteq DOMAIN bands
    OBVIOUS
  <2> HIDE DEF hit
  <2>4. DOMAIN bands \subseteq Nat
    <3> HIDE DEF bands
    <3> QED
      BY <1>2
  <2> QED
    BY <2>2, <2>3, <2>4
<1>7. \E k \in hit : \A j \in hit : k <= j
  BY <1>6, LeastNumber
<1>8. band_for(c, l, i) = CHOOSE k \in hit : \A j \in hit : k <= j
  <2>1. band_for(c, l, i) = IF hit = {} THEN 0 ELSE CHOOSE k \in hit : \A j \in hit : k <= j
    BY DEF band_for, bands, score
  <2> QED
    BY <1>6, <2>1
<1> HIDE DEF hit
<1>9. band_for(c, l, i) \in hit
  BY <1>7, <1>8
<1> QED
  BY <1>9 DEF hit, bands

(* However requests race, the matrices are saved one behind the other and  *)
(* the risk is on a saved one.                                             *)

RiskRow ==
  [status : {"absent", "open", "closed"}, owner : User \cup {Nobody}, matrix : 0..MaxMatrix,
   inherent_l : Int, inherent_i : Int, residual_l : Int, residual_i : Int]

RatingRow == [kind : KINDS, l : Int, i : Int, band : Nat]

RiskUnderway(q, table, row) ==
  /\ q.step = "matrix" =>
       /\ q.rows \subseteq {m \in 1..MaxMatrix : table[m].exists}
       /\ \A m \in q.rows : q.new[m] \in MatrixRow /\ q.new[m].exists
  /\ q.step = "register" =>
       /\ q.new \in RiskRow /\ q.new.status # "absent"
       /\ q.new.matrix \in 1..MaxMatrix /\ table[q.new.matrix].exists
  /\ q.step \in {"assess", "risk"} =>
       /\ row.status # "absent"
       /\ q.loaded \in RiskRow /\ q.new \in RiskRow
       /\ q.new.status # "absent" /\ q.new.matrix = q.loaded.matrix
  /\ q.step = "assess" => q.row \in RatingRow

RatingsInvariant ==
  /\ DOMAIN matrices = 1..MaxMatrix
  /\ \A m \in 1..MaxMatrix : matrices[m] \in MatrixRow
  /\ \E n \in 0..MaxMatrix : Saved = 1..n
  /\ risk \in RiskRow
  /\ assessments \in Seq(RatingRow)
  /\ IF risk.status = "absent" THEN risk = NoRisk /\ assessments = <<>>
     ELSE risk.matrix \in 1..MaxMatrix /\ matrices[risk.matrix].exists
  /\ \A w \in Worker : RiskUnderway(req[w], matrices, risk)

(* Served one after the other, requests leave every matrix as somebody     *)
(* sent it, change none the risk is on, leave one active, and leave the    *)
(* last rating of each kind on the row.                                    *)
Live(row) == row.exists /\ row.active
AtMostOneLive(table) == \A m, n \in 1..MaxMatrix : Live(table[m]) /\ Live(table[n]) => m = n

AllValid(table) == \A m \in 1..MaxMatrix : table[m].exists => ValidMatrix(table[m])

BandsMatch(rows, c) ==
  \A n \in DOMAIN rows : rows[n].band # 0 /\ rows[n].band = band_for(c, rows[n].l, rows[n].i)

Rating(row, kind) ==
  IF kind = "inherent" THEN <<row.inherent_l, row.inherent_i>> ELSE <<row.residual_l, row.residual_i>>

LastIn(rows, kind) ==
  {n \in DOMAIN rows : rows[n].kind = kind /\ \A k \in n + 1..Len(rows) : rows[k].kind # kind}

ShowsLast(row, rows) ==
  \A kind \in KINDS :
    IF LastIn(rows, kind) = {} THEN Rating(row, kind) = <<0, 0>>
    ELSE \E n \in LastIn(rows, kind) : Rating(row, kind) = <<rows[n].l, rows[n].i>>

(* The matrices as the request leaves them.                                *)
Committed(q, table) == [m \in 1..MaxMatrix |-> IF m \in q.rows THEN q.new[m] ELSE table[m]]

RiskServed(q, table, row, rows) ==
  /\ q.step = "matrix" =>
       /\ q.loaded = table
       /\ \A m \in q.rows : ValidMatrix(q.new[m])
       /\ row.matrix \in q.rows => q.new[row.matrix].bands = table[row.matrix].bands
       /\ AtMostOneLive(Committed(q, table))
  /\ q.step = "register" => ShowsLast(q.new, <<>>)
  /\ q.step \in {"assess", "risk"} => q.loaded = row
  /\ q.step = "assess" =>
       /\ q.row.band # 0 /\ q.row.band = band_for(table[row.matrix], q.row.l, q.row.i)
       /\ ShowsLast(q.new, Append(rows, q.row))
  /\ q.step = "risk" => ShowsLast(q.new, rows)

RatingsAreRight ==
  /\ AtMostOneLive(matrices) /\ AllValid(matrices)
  /\ ShowsLast(risk, assessments)
  /\ risk.status # "absent" => BandsMatch(assessments, matrices[risk.matrix])

RatedInvariant ==
  Serial => RatingsAreRight /\ \A w \in Worker : RiskServed(req[w], matrices, risk, assessments)

(* What commits leave of the rows that others have loaded.                 *)
MatricesStay(table, table2) == \A m \in 1..MaxMatrix : table[m].exists => table2[m].exists
RiskStays(row, row2) == row.status # "absent" => row2.status # "absent"

LEMMA RiskElsewhere ==
  ASSUME NEW q, q.step \notin {"matrix", "register", "assess", "risk"}, NEW table, NEW row
  PROVE  RiskUnderway(q, table, row)
BY DEF RiskUnderway

LEMMA RiskRequestsStay ==
  ASSUME FollowUpInvariant, RatingsInvariant, MatricesStay(matrices, matrices'), RiskStays(risk, risk'),
         NEW w \in Worker, NEW q,
         \/ Begin(w, q) /\ RiskUnderway(q, matrices, risk)
         \/ Finish(w)
         \/ UNCHANGED req
  PROVE  \A v \in Worker : RiskUnderway(req'[v], matrices', risk')
<1>1. ASSUME NEW r, RiskUnderway(r, matrices, risk) PROVE RiskUnderway(r, matrices', risk')
  BY <1>1 DEF RiskUnderway, MatricesStay, RiskStays
<1>2. RiskUnderway(Idle, matrices, risk)
  BY RiskElsewhere DEF Idle
<1>3. ASSUME NEW v \in Worker PROVE RiskUnderway(req'[v], matrices, risk)
  <2>1. req'[v] = req[v] \/ req'[v] = Idle \/ (req'[v] = q /\ RiskUnderway(q, matrices, risk))
    BY DEF Begin, Finish, FollowUpInvariant
  <2>2. RiskUnderway(req[v], matrices, risk)
    BY DEF RatingsInvariant
  <2> QED
    BY <1>2, <2>1, <2>2
<1> QED
  BY <1>1, <1>3

LEMMA RiskLoadKeeps ==
  ASSUME FollowUpInvariant, RatingsInvariant, UNCHANGED <<matrices, risk, assessments>>, NEW w \in Worker, NEW q,
         \/ Begin(w, q) /\ RiskUnderway(q, matrices, risk)
         \/ Finish(w)
         \/ UNCHANGED req
  PROVE  RatingsInvariant'
<1>1. MatricesStay(matrices, matrices') /\ RiskStays(risk, risk')
  BY DEF MatricesStay, RiskStays
<1>2. \A v \in Worker : RiskUnderway(req'[v], matrices', risk')
  BY <1>1, RiskRequestsStay
<1> QED
  BY <1>2 DEF RatingsInvariant, Saved

(* A matrix is added behind the others, with no risk on it.                *)
LEMMA CreateMatrixAdds ==
  ASSUME Assumptions, RatingsInvariant, NEW u, NEW c \in Criteria, CreateMatrix(u, c)
  PROVE  LET m == Cardinality(Saved) + 1
         IN /\ m \in 1..MaxMatrix /\ m \notin Saved
            /\ DOMAIN matrices' = 1..MaxMatrix
            /\ matrices'[m] = MatrixWith(TRUE, FALSE, c)
            /\ \A k \in 1..MaxMatrix : k # m => matrices'[k] = matrices[k]
            /\ \E n \in 0..MaxMatrix : Saved' = 1..n
<1> DEFINE m == Cardinality(Saved) + 1
<1>1. PICK n \in 0..MaxMatrix : Saved = 1..n
  BY DEF RatingsInvariant
<1>2. n \in Int /\ MaxMatrix \in Nat
  BY DEF Assumptions, RisksAssumption
<1>3. Cardinality(Saved) = n
  <2>1. Cardinality(1..n) = IF 1 > n THEN 0 ELSE n - 1 + 1
    BY <1>2, FS_Interval
  <2> QED
    BY <1>1, <1>2, <2>1
<1>4. m = n + 1 /\ m \in 1..MaxMatrix /\ m \notin Saved
  BY <1>1, <1>2, <1>3 DEF CreateMatrix, RatingsInvariant
<1>5. /\ DOMAIN matrices' = 1..MaxMatrix
      /\ matrices'[m] = MatrixWith(TRUE, FALSE, c)
      /\ \A k \in 1..MaxMatrix : k # m => matrices'[k] = matrices[k]
  BY <1>4 DEF CreateMatrix, RatingsInvariant, MatrixWith
<1> HIDE DEF m
<1>6. Saved' = Saved \cup {m}
  <2>1. matrices'[m].exists
    BY <1>5, MatrixSays
  <2> QED
    BY <1>4, <1>5, <2>1 DEF Saved, RatingsInvariant
<1>7. Saved' = 1..(n + 1) /\ n + 1 \in 0..MaxMatrix
  BY <1>1, <1>2, <1>4, <1>6
<1> QED
  BY <1>4, <1>5, <1>7 DEF m

LEMMA CreateMatrixKeeps ==
  ASSUME Assumptions, FollowUpInvariant, RatingsInvariant, NEW u, NEW c \in Criteria, CreateMatrix(u, c)
  PROVE  RatingsInvariant'
<1> DEFINE m == Cardinality(Saved) + 1
<1>1. /\ m \in 1..MaxMatrix /\ m \notin Saved
      /\ DOMAIN matrices' = 1..MaxMatrix
      /\ matrices'[m] = MatrixWith(TRUE, FALSE, c)
      /\ \A k \in 1..MaxMatrix : k # m => matrices'[k] = matrices[k]
      /\ \E n \in 0..MaxMatrix : Saved' = 1..n
  BY CreateMatrixAdds
<1>2. /\ Free /\ ValidMatrix(c) /\ UNCHANGED <<risk, assessments, req>>
  BY DEF CreateMatrix
<1> HIDE DEF m
<1>3. matrices'[m] \in MatrixRow /\ matrices'[m].exists
  BY <1>1, CriteriaAreTyped, MatrixSays
<1>4. MatricesStay(matrices, matrices') /\ RiskStays(risk, risk')
  BY <1>1, <1>2, <1>3 DEF MatricesStay, RiskStays
<1>5. PICK w : w \in Worker
  BY <1>2 DEF Free
<1>6. \A v \in Worker : RiskUnderway(req'[v], matrices', risk')
  BY <1>2, <1>4, <1>5, RiskRequestsStay
<1>7. \A k \in 1..MaxMatrix : matrices'[k] \in MatrixRow
  BY <1>1, <1>3 DEF RatingsInvariant
<1>8. IF risk'.status = "absent" THEN risk' = NoRisk /\ assessments' = <<>>
      ELSE risk'.matrix \in 1..MaxMatrix /\ matrices'[risk'.matrix].exists
  BY <1>2, <1>4 DEF RatingsInvariant, MatricesStay
<1> QED
  BY <1>1, <1>2, <1>6, <1>7, <1>8 DEF RatingsInvariant

(* A row that is flushed has each column from one of the two.              *)
LEMMA FlushedMatrix ==
  ASSUME NEW loaded, NEW new \in MatrixRow, NEW row \in MatrixRow, new.exists, row.exists
  PROVE  Flush(loaded, new, row) \in MatrixRow /\ Flush(loaded, new, row).exists
<1> DEFINE flushed == Flush(loaded, new, row)
           Columns5 == {"exists", "active", "likelihood", "impact", "bands"}
<1>1. DOMAIN row = Columns5
  BY DEF MatrixRow
<1>2. flushed = [c \in Columns5 |-> IF new[c] = loaded[c] THEN row[c] ELSE new[c]]
  BY <1>1 DEF Flush
<1>3. \A c \in Columns5 : flushed[c] = row[c] \/ flushed[c] = new[c]
  BY <1>2
<1>4. /\ flushed.exists \in BOOLEAN /\ flushed.active \in BOOLEAN /\ flushed.likelihood \in Int
      /\ flushed.impact \in Int /\ flushed.bands \in Seq(MatrixBand) /\ flushed.exists
  <2> HIDE DEF flushed, MatrixBand
  <2> QED
    BY <1>3 DEF MatrixRow
<1>5. flushed = [exists |-> flushed.exists, active |-> flushed.active, likelihood |-> flushed.likelihood,
                 impact |-> flushed.impact, bands |-> flushed.bands]
  BY <1>2
<1> HIDE DEF flushed, MatrixBand
<1>6. flushed \in MatrixRow
  BY <1>4, <1>5 DEF MatrixRow
<1> QED
  BY <1>4, <1>6 DEF flushed

LEMMA CommitMatrixKeeps ==
  ASSUME FollowUpInvariant, RatingsInvariant, NEW w \in Worker, CommitMatrix(w)
  PROVE  RatingsInvariant'
<1> DEFINE q == req[w]
<1>1. /\ q.step = "matrix" /\ Finish(w) /\ UNCHANGED <<risk, assessments>>
      /\ matrices' = [m \in 1..MaxMatrix |->
                       IF m \in q.rows THEN Flush(q.loaded[m], q.new[m], matrices[m]) ELSE matrices[m]]
  BY DEF CommitMatrix, RatingsInvariant
<1>2. /\ q.rows \subseteq {m \in 1..MaxMatrix : matrices[m].exists}
      /\ \A m \in q.rows : q.new[m] \in MatrixRow /\ q.new[m].exists
  BY <1>1 DEF RatingsInvariant, RiskUnderway
<1> HIDE DEF q
<1>3. ASSUME NEW m \in 1..MaxMatrix
      PROVE  matrices'[m] \in MatrixRow /\ (matrices'[m].exists <=> matrices[m].exists)
  <2>1. CASE m \in q.rows
    <3>1. matrices'[m] = Flush(q.loaded[m], q.new[m], matrices[m])
      BY <1>1, <2>1
    <3>2. matrices[m] \in MatrixRow /\ matrices[m].exists
      BY <1>2, <2>1 DEF RatingsInvariant
    <3> QED
      BY <1>2, <2>1, <3>1, <3>2, FlushedMatrix
  <2>2. CASE m \notin q.rows
    BY <1>1, <2>2 DEF RatingsInvariant
  <2> QED
    BY <2>1, <2>2
<1>4. MatricesStay(matrices, matrices') /\ RiskStays(risk, risk')
  BY <1>1, <1>3 DEF MatricesStay, RiskStays
<1>5. \A v \in Worker : RiskUnderway(req'[v], matrices', risk')
  BY <1>1, <1>4, RiskRequestsStay
<1>6. DOMAIN matrices' = 1..MaxMatrix /\ Saved' = Saved
  BY <1>1, <1>3 DEF Saved, RatingsInvariant
<1>7. IF risk'.status = "absent" THEN risk' = NoRisk /\ assessments' = <<>>
      ELSE risk'.matrix \in 1..MaxMatrix /\ matrices'[risk'.matrix].exists
  BY <1>1, <1>4 DEF RatingsInvariant, MatricesStay
<1> QED
  BY <1>1, <1>3, <1>5, <1>6, <1>7 DEF RatingsInvariant

LEMMA CommitRegisterKeeps ==
  ASSUME FollowUpInvariant, RatingsInvariant, NEW w \in Worker, CommitRegister(w)
  PROVE  RatingsInvariant'
<1> DEFINE q == req[w]
<1>1. /\ q.step = "register" /\ risk' = q.new /\ Finish(w) /\ UNCHANGED <<matrices, assessments>>
  BY DEF CommitRegister
<1>2. /\ q.new \in RiskRow /\ q.new.status # "absent"
      /\ q.new.matrix \in 1..MaxMatrix /\ matrices[q.new.matrix].exists
  BY <1>1 DEF RatingsInvariant, RiskUnderway
<1> HIDE DEF q
<1>3. MatricesStay(matrices, matrices') /\ RiskStays(risk, risk')
  BY <1>1, <1>2 DEF MatricesStay, RiskStays
<1>4. \A v \in Worker : RiskUnderway(req'[v], matrices', risk')
  BY <1>1, <1>3, RiskRequestsStay
<1> QED
  BY <1>1, <1>2, <1>4 DEF RatingsInvariant, Saved

LEMMA FlushedRisk ==
  ASSUME NEW loaded \in RiskRow, NEW new \in RiskRow, NEW row \in RiskRow
  PROVE  Flush(loaded, new, row) =
           [status |-> IF new.status = loaded.status THEN row.status ELSE new.status,
            owner |-> IF new.owner = loaded.owner THEN row.owner ELSE new.owner,
            matrix |-> IF new.matrix = loaded.matrix THEN row.matrix ELSE new.matrix,
            inherent_l |-> IF new.inherent_l = loaded.inherent_l THEN row.inherent_l ELSE new.inherent_l,
            inherent_i |-> IF new.inherent_i = loaded.inherent_i THEN row.inherent_i ELSE new.inherent_i,
            residual_l |-> IF new.residual_l = loaded.residual_l THEN row.residual_l ELSE new.residual_l,
            residual_i |-> IF new.residual_i = loaded.residual_i THEN row.residual_i ELSE new.residual_i]
BY DEF Flush, RiskRow

LEMMA CommitRiskKeeps ==
  ASSUME FollowUpInvariant, RatingsInvariant, NEW w \in Worker, CommitRisk(w)
  PROVE  RatingsInvariant'
<1> DEFINE q == req[w]
           new == Flush(q.loaded, q.new, risk)
<1>1. /\ q.step \in {"assess", "risk"} /\ risk' = new /\ Finish(w) /\ UNCHANGED matrices
      /\ assessments' = IF q.step = "assess" THEN Append(assessments, q.row) ELSE assessments
  BY DEF CommitRisk, AppendRating
<1>2. /\ risk.status # "absent" /\ risk \in RiskRow
      /\ q.loaded \in RiskRow /\ q.new \in RiskRow
      /\ q.new.status # "absent" /\ q.new.matrix = q.loaded.matrix
      /\ q.step = "assess" => q.row \in RatingRow
  BY <1>1 DEF RatingsInvariant, RiskUnderway
<1> HIDE DEF q
<1>3. new \in RiskRow /\ new.status # "absent" /\ new.matrix = risk.matrix
  <2>1. new = [status |-> IF q.new.status = q.loaded.status THEN risk.status ELSE q.new.status,
               owner |-> IF q.new.owner = q.loaded.owner THEN risk.owner ELSE q.new.owner,
               matrix |-> IF q.new.matrix = q.loaded.matrix THEN risk.matrix ELSE q.new.matrix,
               inherent_l |-> IF q.new.inherent_l = q.loaded.inherent_l THEN risk.inherent_l
                              ELSE q.new.inherent_l,
               inherent_i |-> IF q.new.inherent_i = q.loaded.inherent_i THEN risk.inherent_i
                              ELSE q.new.inherent_i,
               residual_l |-> IF q.new.residual_l = q.loaded.residual_l THEN risk.residual_l
                              ELSE q.new.residual_l,
               residual_i |-> IF q.new.residual_i = q.loaded.residual_i THEN risk.residual_i
                              ELSE q.new.residual_i]
    BY <1>2, FlushedRisk
  <2> HIDE DEF new
  <2>2. new.status # "absent" /\ new.matrix = risk.matrix
    BY <1>2, <2>1
  <2>3. new \in RiskRow
    BY <1>2, <2>1 DEF RiskRow
  <2> QED
    BY <2>2, <2>3
<1> HIDE DEF new
<1>4. MatricesStay(matrices, matrices') /\ RiskStays(risk, risk')
  BY <1>1, <1>3 DEF MatricesStay, RiskStays
<1>5. \A v \in Worker : RiskUnderway(req'[v], matrices', risk')
  BY <1>1, <1>4, RiskRequestsStay
<1>6. assessments' \in Seq(RatingRow)
  <2>1. assessments \in Seq(RatingRow)
    BY DEF RatingsInvariant
  <2> HIDE DEF RatingRow
  <2> QED
    BY <1>1, <1>2, <2>1
<1>7. risk'.status # "absent" /\ risk'.matrix \in 1..MaxMatrix /\ matrices'[risk'.matrix].exists
  BY <1>1, <1>2, <1>3 DEF RatingsInvariant
<1> QED
  BY <1>1, <1>3, <1>5, <1>6, <1>7 DEF RatingsInvariant, Saved

(* What handlers make of what they have loaded.                            *)
LEMMA EditedMatrix ==
  ASSUME Assumptions, RatingsInvariant, NEW m \in Saved, NEW c \in Criteria
  PROVE  LET new == [matrices EXCEPT ![m] = Assign(@, c)]
         IN /\ m \in 1..MaxMatrix /\ matrices[m].exists
            /\ new[m] = MatrixWith(TRUE, matrices[m].active, c)
            /\ matrices[m].active \in BOOLEAN /\ new[m] \in MatrixRow
<1> DEFINE row == matrices[m]
           new == Assign(row, c)
<1>1. m \in 1..MaxMatrix /\ row.exists /\ row \in MatrixRow
  BY DEF Saved, RatingsInvariant
<1>2. [matrices EXCEPT ![m] = Assign(@, c)][m] = new
  BY <1>1 DEF RatingsInvariant
<1>3. /\ DOMAIN row = {"exists", "active", "likelihood", "impact", "bands"}
      /\ row.exists = TRUE /\ row.active \in BOOLEAN
  BY <1>1 DEF MatrixRow
<1>4. DOMAIN c = {"likelihood", "impact", "bands"}
  BY CriteriaAreTyped
<1> HIDE DEF row
<1>5. new = MatrixWith(TRUE, row.active, c)
  <2>1. new = [x \in {"exists", "active", "likelihood", "impact", "bands"} |->
                IF x \in {"likelihood", "impact", "bands"} THEN c[x] ELSE row[x]]
    BY <1>3, <1>4 DEF Assign
  <2>2. [x \in {"exists", "active", "likelihood", "impact", "bands"} |->
          IF x \in {"likelihood", "impact", "bands"} THEN c[x] ELSE row[x]] =
          [exists |-> row.exists, active |-> row.active, likelihood |-> c.likelihood, impact |-> c.impact,
           bands |-> c.bands]
    OBVIOUS
  <2> QED
    BY <1>3, <2>1, <2>2 DEF MatrixWith
<1>6. MatrixWith(TRUE, row.active, c) \in MatrixRow
  BY <1>3, CriteriaAreTyped, MatrixSays
<1> QED
  BY <1>1, <1>2, <1>3, <1>5, <1>6 DEF row

LEMMA ActivatedMatrix ==
  ASSUME RatingsInvariant, NEW m \in Saved, NEW k \in Active \cup {m}
  PROVE  LET new == [matrices[k] EXCEPT !.active = (k = m)]
         IN /\ k \in 1..MaxMatrix /\ matrices[k].exists
            /\ new = MatrixWith(TRUE, k = m, matrices[k])
            /\ new \in MatrixRow /\ new.exists
<1> DEFINE row == matrices[k]
           b == (k = m)
           new == [row EXCEPT !.active = b]
<1>1. k \in 1..MaxMatrix /\ row.exists /\ row \in MatrixRow
  BY DEF Saved, Active, RatingsInvariant
<1>2. /\ DOMAIN row = {"exists", "active", "likelihood", "impact", "bands"} /\ row.exists = TRUE /\ b \in BOOLEAN
      /\ row.likelihood \in Int /\ row.impact \in Int /\ row.bands \in Seq(MatrixBand)
  BY <1>1 DEF MatrixRow
<1> HIDE DEF row, b
<1>3. new = MatrixWith(TRUE, b, row)
  <2>1. new = [x \in {"exists", "active", "likelihood", "impact", "bands"} |->
                IF x = "active" THEN b ELSE row[x]]
    BY <1>2
  <2>2. [x \in {"exists", "active", "likelihood", "impact", "bands"} |-> IF x = "active" THEN b ELSE row[x]] =
          [exists |-> row.exists, active |-> b, likelihood |-> row.likelihood, impact |-> row.impact,
           bands |-> row.bands]
    OBVIOUS
  <2> QED
    BY <1>2, <2>1, <2>2 DEF MatrixWith
<1> HIDE DEF new
<1>4. new \in MatrixRow /\ new.exists
  BY <1>2, <1>3, MatrixSays
<1> QED
  BY <1>1, <1>3, <1>4 DEF row, b, new

LEMMA AssignedRisk ==
  ASSUME NEW row \in RiskRow, NEW values
  PROVE  Assign(row, values) =
           [status |-> IF "status" \in DOMAIN values THEN values.status ELSE row.status,
            owner |-> IF "owner" \in DOMAIN values THEN values.owner ELSE row.owner,
            matrix |-> IF "matrix" \in DOMAIN values THEN values.matrix ELSE row.matrix,
            inherent_l |-> IF "inherent_l" \in DOMAIN values THEN values.inherent_l ELSE row.inherent_l,
            inherent_i |-> IF "inherent_i" \in DOMAIN values THEN values.inherent_i ELSE row.inherent_i,
            residual_l |-> IF "residual_l" \in DOMAIN values THEN values.residual_l ELSE row.residual_l,
            residual_i |-> IF "residual_i" \in DOMAIN values THEN values.residual_i ELSE row.residual_i]
BY DEF Assign, RiskRow

(* A risk with one column or two assigned.                                 *)
RiskWith(status, owner, matrix, il, ii, rl, ri) ==
  [status |-> status, owner |-> owner, matrix |-> matrix, inherent_l |-> il, inherent_i |-> ii,
   residual_l |-> rl, residual_i |-> ri]

LEMMA NoRiskIsARow == ASSUME Assumptions PROVE NoRisk \in RiskRow
<1>1. 0 \in 0..MaxMatrix
  BY DEF Assumptions, RisksAssumption
<1> QED
  BY <1>1 DEF NoRisk, RiskRow

LEMMA RegisteredRisk ==
  ASSUME Assumptions, NEW o, NEW m
  PROVE  Assign(NoRisk, [status |-> "open", owner |-> o, matrix |-> m]) = RiskWith("open", o, m, 0, 0, 0, 0)
<1> DEFINE values == [status |-> "open", owner |-> o, matrix |-> m]
<1>1. /\ DOMAIN values = {"status", "owner", "matrix"}
      /\ values.status = "open" /\ values.owner = o /\ values.matrix = m
  OBVIOUS
<1> HIDE DEF values
<1>2. Assign(NoRisk, values) = RiskWith("open", o, m, 0, 0, 0, 0)
  <2>1. /\ NoRisk.inherent_l = 0 /\ NoRisk.inherent_i = 0 /\ NoRisk.residual_l = 0 /\ NoRisk.residual_i = 0
    BY DEF NoRisk
  <2> QED
    BY <1>1, <2>1, NoRiskIsARow, AssignedRisk DEF RiskWith
<1> QED
  BY <1>2 DEF values

LEMMA RatedRisk ==
  ASSUME NEW row \in RiskRow, NEW kind \in KINDS, NEW l, NEW i
  PROVE  Assign(row, Columns(kind, l, i)) =
           IF kind = "inherent"
           THEN RiskWith(row.status, row.owner, row.matrix, l, i, row.residual_l, row.residual_i)
           ELSE RiskWith(row.status, row.owner, row.matrix, row.inherent_l, row.inherent_i, l, i)
<1> DEFINE values == Columns(kind, l, i)
<1>1. CASE kind = "inherent"
  <2>1. DOMAIN values = {"inherent_l", "inherent_i"} /\ values.inherent_l = l /\ values.inherent_i = i
    BY <1>1 DEF Columns
  <2> HIDE DEF values
  <2>2. Assign(row, values) = RiskWith(row.status, row.owner, row.matrix, l, i, row.residual_l, row.residual_i)
    BY <2>1, AssignedRisk DEF RiskWith
  <2> QED
    BY <1>1, <2>2 DEF values
<1>2. CASE kind # "inherent"
  <2>1. DOMAIN values = {"residual_l", "residual_i"} /\ values.residual_l = l /\ values.residual_i = i
    BY <1>2 DEF Columns
  <2> HIDE DEF values
  <2>2. Assign(row, values) = RiskWith(row.status, row.owner, row.matrix, row.inherent_l, row.inherent_i, l, i)
    BY <2>1, AssignedRisk DEF RiskWith
  <2> QED
    BY <1>2, <2>2 DEF values
<1> QED
  BY <1>1, <1>2

LEMMA OwnedRisk ==
  ASSUME NEW row \in RiskRow, NEW o
  PROVE  Assign(row, [owner |-> o]) =
           RiskWith(row.status, o, row.matrix, row.inherent_l, row.inherent_i, row.residual_l, row.residual_i)
BY AssignedRisk DEF RiskWith

LEMMA MovedRisk ==
  ASSUME NEW row \in RiskRow, NEW s
  PROVE  Assign(row, [status |-> s]) =
           RiskWith(s, row.owner, row.matrix, row.inherent_l, row.inherent_i, row.residual_l, row.residual_i)
BY AssignedRisk DEF RiskWith

LEMMA RiskTargets ==
  ASSUME NEW name \in DOMAIN RISK_FLOW
  PROVE  TargetOf(RISK_FLOW, name) \in {"open", "closed"} /\ RISK_FLOW[name].sources \subseteq {"open", "closed"}
BY DEF RISK_FLOW, TargetOf, ReasonedTransition

(* A rating that is taken is a row of the history.                         *)
LEMMA RatingIsARow ==
  ASSUME RatingsInvariant, risk.status = "open", NEW kind \in KINDS, NEW l \in 1..10, NEW i \in 1..10
  PROVE  [kind |-> kind, l |-> l, i |-> i, band |-> band_for(matrices[risk.matrix], l, i)] \in RatingRow
<1> DEFINE b == band_for(matrices[risk.matrix], l, i)
<1>1. matrices[risk.matrix] \in MatrixRow
  BY DEF RatingsInvariant
<1>2. b \in Nat
  BY <1>1, BandIsNatural
<1> HIDE DEF b
<1>3. [kind |-> kind, l |-> l, i |-> i, band |-> b] \in RatingRow
  BY <1>2 DEF RatingRow
<1> QED
  BY <1>3 DEF b

(* On a valid matrix, it is in a band.                                     *)
LEMMA RatingHasABand ==
  ASSUME RatingsInvariant, AllValid(matrices), risk.status = "open", NEW l \in 1..10, NEW i \in 1..10,
         OnScale(risk.matrix, l, i)
  PROVE  band_for(matrices[risk.matrix], l, i) # 0
<1> DEFINE c == matrices[risk.matrix]
<1>1. c \in MatrixRow /\ ValidMatrix(c)
  BY DEF RatingsInvariant, AllValid
<1>2. l \in 1..c.likelihood /\ i \in 1..c.impact
  BY DEF OnScale
<1> HIDE DEF c
<1>3. band_for(c, l, i) \in DOMAIN c.bands
  BY <1>1, <1>2, BandsLeaveNoGap
<1>4. 0 \notin DOMAIN c.bands
  <2>1. c.bands \in Seq(MatrixBand)
    BY <1>1 DEF MatrixRow
  <2> HIDE DEF MatrixBand
  <2> QED
    BY <2>1
<1> QED
  BY <1>3, <1>4 DEF c

(* Requests about other records leave the risks alone.                     *)
LEMMA OthersLeaveRisks ==
  ASSUME ActionsNext \/ FindingsNext \/ MeetingsNext
  PROVE  \/ \E w \in Worker : \E q : Begin(w, q) /\ q.step \in {"action", "finding", "meeting", "resolve", "resolution"}
         \/ \E w \in Worker : Finish(w) /\ InFlight(w)
         \/ Free /\ UNCHANGED req
<1> DEFINE Loads == \E w \in Worker : \E q :
                      Begin(w, q) /\ q.step \in {"action", "finding", "meeting", "resolve", "resolution"}
           Commits == \E w \in Worker : Finish(w) /\ InFlight(w)
           Creates == Free /\ UNCHANGED req
<1> SUFFICES Loads \/ Commits \/ Creates
  OBVIOUS
<1> HIDE DEF Loads, Commits, Creates
<1>1. CASE ActionsNext
  <2>1. \A u, o : CreateAction(u, o) => Creates
    BY DEF CreateAction, Creates
  <2>2. \A w \in Waiting : \A u, a, o : UpdateOwner(w, u, a, o) => Loads
    BY DEF UpdateOwner, LoadAction, Waiting, Loads
  <2>3. \A w \in Waiting : \A u, a, name : TransitionAction(w, u, a, name) => Loads
    BY DEF TransitionAction, LoadAction, Waiting, Loads
  <2>4. \A w \in Worker : CommitAction(w) => Commits
    BY DEF CommitAction, InFlight, Commits
  <2> QED
    BY <1>1, <2>1, <2>2, <2>3, <2>4 DEF ActionsNext
<1>2. CASE FindingsNext
  <2>1. \A u, o : CreateFinding(u, o) => Creates
    BY DEF CreateFinding, Creates
  <2>2. \A w \in Waiting : \A u, o : UpdateFinding(w, u, o) => Loads
    BY DEF UpdateFinding, LoadFinding, Waiting, Loads
  <2>3. \A w \in Waiting : \A u, name : TransitionFinding(w, u, name) => Loads
    BY DEF TransitionFinding, LoadFinding, Waiting, Loads
  <2>4. \A w \in Worker : CommitFinding(w) => Commits
    BY DEF CommitFinding, InFlight, Commits
  <2> QED
    BY <1>2, <2>1, <2>2, <2>3, <2>4 DEF FindingsNext
<1>3. CASE MeetingsNext
  <2>1. \A u : CreateMeeting(u) => Creates
    BY DEF CreateMeeting, Creates
  <2>2. \A w \in Waiting : \A u, name, given : TransitionMeeting(w, u, name, given) => Loads
    BY DEF TransitionMeeting, Waiting, Loads
  <2>3. \A w \in Waiting : \A u, o : AddResolution(w, u, o) => Loads
    BY DEF AddResolution, Waiting, Loads
  <2>4. \A w \in Waiting : \A u, n, name : TransitionResolution(w, u, n, name) => Loads
    BY DEF TransitionResolution, Waiting, Loads
  <2>5. \A w \in Worker :
          CommitMeeting(w) \/ CommitResolution(w) \/ RefuseResolution(w) \/ CommitResolutionStep(w) => Commits
    BY DEF CommitMeeting, CommitResolution, RefuseResolution, CommitResolutionStep, InFlight, Commits
  <2> QED
    BY <1>3, <2>1, <2>2, <2>3, <2>4, <2>5 DEF MeetingsNext
<1> QED
  BY <1>1, <1>2, <1>3

LEMMA RatingsInit ==
  ASSUME Assumptions, Init PROVE RatingsInvariant
<1>1. /\ matrices = [m \in 1..MaxMatrix |-> NoMatrix] /\ risk = NoRisk /\ assessments = <<>>
      /\ req \in [Worker -> {Idle, Off}]
  BY DEF Init, RisksInit, RequestsInit
<1>2. NoMatrix \in MatrixRow /\ ~NoMatrix.exists
  BY DEF MatrixRow, NoMatrix
<1>3. Saved = 1..0 /\ 0 \in 0..MaxMatrix
  BY <1>1, <1>2 DEF Saved, Assumptions, RisksAssumption
<1>4. risk.status = "absent" /\ risk \in RiskRow
  BY <1>1, NoRiskIsARow DEF NoRisk
<1>5. \A w \in Worker : req[w].step \in {"idle", "off"}
  BY <1>1 DEF Idle, Off
<1>6. \A w \in Worker : RiskUnderway(req[w], matrices, risk)
  BY <1>5, RiskElsewhere
<1>7. assessments \in Seq(RatingRow)
  BY <1>1
<1> QED
  BY <1>1, <1>2, <1>3, <1>4, <1>6, <1>7 DEF RatingsInvariant

LEMMA RisksKeepRatings ==
  ASSUME Assumptions, FollowUpInvariant, RatingsInvariant, RisksNext
  PROVE  RatingsInvariant'
<1>1. ASSUME NEW u \in User, NEW c \in Criteria, CreateMatrix(u, c) PROVE RatingsInvariant'
  BY <1>1, CreateMatrixKeeps
<1>2. ASSUME NEW u \in User, NEW w \in Waiting, NEW m \in Saved, NEW c \in Criteria, EditMatrix(w, u, m, c)
      PROVE  RatingsInvariant'
  <2> DEFINE new == [matrices EXCEPT ![m] = Assign(@, c)]
             q == [step |-> "matrix", rows |-> {m}, loaded |-> matrices, new |-> new]
  <2>1. /\ m \in 1..MaxMatrix /\ matrices[m].exists
        /\ new[m] = MatrixWith(TRUE, matrices[m].active, c)
        /\ matrices[m].active \in BOOLEAN /\ new[m] \in MatrixRow
    BY EditedMatrix
  <2>2. Begin(w, q) /\ w \in Worker /\ UNCHANGED <<matrices, risk, assessments>>
    BY <1>2 DEF EditMatrix, LoadRisks, Waiting
  <2> HIDE DEF new
  <2>3. new[m].exists
    BY <2>1, MatrixSays
  <2>4. RiskUnderway(q, matrices, risk)
    BY <2>1, <2>3 DEF RiskUnderway
  <2> QED
    BY <2>2, <2>4, RiskLoadKeeps
<1>3. ASSUME NEW u \in User, NEW w \in Waiting, NEW m \in Saved, ActivateMatrix(w, u, m)
      PROVE  RatingsInvariant'
  <2> DEFINE new == [k \in DOMAIN matrices |->
                      IF k \in Active \cup {m} THEN [matrices[k] EXCEPT !.active = (k = m)] ELSE matrices[k]]
             q == [step |-> "matrix", rows |-> Active \cup {m}, loaded |-> matrices, new |-> new]
  <2>1. ASSUME NEW k \in Active \cup {m}
        PROVE  k \in 1..MaxMatrix /\ matrices[k].exists /\ new[k] \in MatrixRow /\ new[k].exists
    <3>1. /\ k \in 1..MaxMatrix /\ matrices[k].exists
          /\ [matrices[k] EXCEPT !.active = (k = m)] \in MatrixRow
          /\ [matrices[k] EXCEPT !.active = (k = m)].exists
      BY ActivatedMatrix
    <3>2. new[k] = [matrices[k] EXCEPT !.active = (k = m)]
      BY <3>1 DEF RatingsInvariant
    <3> HIDE DEF new
    <3> QED
      BY <3>1, <3>2
  <2>2. Begin(w, q) /\ w \in Worker /\ UNCHANGED <<matrices, risk, assessments>>
    BY <1>3 DEF ActivateMatrix, LoadRisks, Waiting
  <2> HIDE DEF new
  <2>3. RiskUnderway(q, matrices, risk)
    BY <2>1 DEF RiskUnderway
  <2> QED
    BY <2>2, <2>3, RiskLoadKeeps
<1>4. ASSUME NEW u \in User, NEW w \in Waiting, NEW o \in User, CreateRisk(w, u, o) PROVE RatingsInvariant'
  <2>1. PICK m \in Active :
          LoadRisks(w, [step |-> "register",
                        new |-> Assign(NoRisk, [status |-> "open", owner |-> o, matrix |-> m])])
    BY <1>4 DEF CreateRisk
  <2> DEFINE new == RiskWith("open", o, m, 0, 0, 0, 0)
             q == [step |-> "register", new |-> new]
  <2>2. m \in 1..MaxMatrix /\ matrices[m].exists
    BY DEF Active, Saved, RatingsInvariant
  <2>3. Begin(w, q) /\ w \in Worker /\ UNCHANGED <<matrices, risk, assessments>>
    BY <2>1, RegisteredRisk DEF LoadRisks, Waiting
  <2>4. new.matrix = m /\ new.status = "open" /\ new \in RiskRow
    <3>1. m \in 0..MaxMatrix
      BY <2>2 DEF Assumptions, RisksAssumption
    <3> QED
      BY <3>1 DEF RiskWith, RiskRow
  <2> HIDE DEF new
  <2>5. RiskUnderway(q, matrices, risk)
    BY <2>2, <2>4 DEF RiskUnderway
  <2> QED
    BY <2>3, <2>5, RiskLoadKeeps
<1>5. ASSUME NEW u \in User, NEW w \in Waiting, NEW kind \in KINDS, NEW l \in 1..10, NEW i \in 1..10,
             Assess(w, u, kind, l, i)
      PROVE  RatingsInvariant'
  <2> DEFINE new == Assign(risk, Columns(kind, l, i))
             row == [kind |-> kind, l |-> l, i |-> i, band |-> band_for(matrices[risk.matrix], l, i)]
             q == [step |-> "assess", loaded |-> risk, new |-> new, row |-> row]
  <2>1. risk.status = "open" /\ risk \in RiskRow
    BY <1>5 DEF Assess, RatingsInvariant
  <2>2. row \in RatingRow
    BY <2>1, RatingIsARow
  <2>3. new \in RiskRow /\ new.status # "absent" /\ new.matrix = risk.matrix
    <3>1. new = IF kind = "inherent"
                THEN RiskWith(risk.status, risk.owner, risk.matrix, l, i, risk.residual_l, risk.residual_i)
                ELSE RiskWith(risk.status, risk.owner, risk.matrix, risk.inherent_l, risk.inherent_i, l, i)
      BY <2>1, RatedRisk
    <3> HIDE DEF new
    <3> QED
      BY <2>1, <3>1 DEF RiskWith, RiskRow
  <2>4. Begin(w, q) /\ w \in Worker /\ UNCHANGED <<matrices, risk, assessments>>
    BY <1>5 DEF Assess, LoadRisks, Waiting
  <2> HIDE DEF new, row
  <2>5. RiskUnderway(q, matrices, risk)
    BY <2>1, <2>2, <2>3 DEF RiskUnderway
  <2> QED
    BY <2>4, <2>5, RiskLoadKeeps
<1>6. ASSUME NEW w \in Waiting, NEW new, LoadRisks(w, [step |-> "risk", loaded |-> risk, new |-> new]),
             risk.status # "absent", new \in RiskRow, new.status # "absent", new.matrix = risk.matrix
      PROVE  RatingsInvariant'
  <2> DEFINE q == [step |-> "risk", loaded |-> risk, new |-> new]
  <2>1. Begin(w, q) /\ w \in Worker /\ UNCHANGED <<matrices, risk, assessments>>
    BY <1>6 DEF LoadRisks, Waiting
  <2>2. RiskUnderway(q, matrices, risk)
    BY <1>6 DEF RiskUnderway, RatingsInvariant
  <2> QED
    BY <2>1, <2>2, RiskLoadKeeps
<1>7. ASSUME NEW u \in User, NEW w \in Waiting, NEW o \in User, UpdateRisk(w, u, o) PROVE RatingsInvariant'
  <2> DEFINE new == Assign(risk, [owner |-> o])
  <2>1. risk \in RiskRow /\ risk.status # "absent"
    BY <1>7 DEF UpdateRisk, RatingsInvariant
  <2>2. new = RiskWith(risk.status, o, risk.matrix, risk.inherent_l, risk.inherent_i, risk.residual_l,
                       risk.residual_i)
    BY <2>1, OwnedRisk
  <2>3. LoadRisks(w, [step |-> "risk", loaded |-> risk, new |-> new])
    BY <1>7 DEF UpdateRisk
  <2> HIDE DEF new
  <2>4. new \in RiskRow /\ new.status # "absent" /\ new.matrix = risk.matrix
    BY <2>1, <2>2 DEF RiskWith, RiskRow
  <2> QED
    BY <1>6, <2>1, <2>3, <2>4
<1>8. ASSUME NEW u \in User, NEW w \in Waiting, NEW name \in DOMAIN RISK_FLOW, TransitionRisk(w, u, name)
      PROVE  RatingsInvariant'
  <2> DEFINE s == TargetOf(RISK_FLOW, name)
             new == Assign(risk, [status |-> s])
  <2>1. risk \in RiskRow /\ risk.status # "absent" /\ s \in {"open", "closed"}
    BY <1>8, RiskTargets DEF TransitionRisk, RatingsInvariant, Permits
  <2>2. new = RiskWith(s, risk.owner, risk.matrix, risk.inherent_l, risk.inherent_i, risk.residual_l,
                       risk.residual_i)
    BY <2>1, MovedRisk
  <2>3. LoadRisks(w, [step |-> "risk", loaded |-> risk, new |-> new])
    BY <1>8 DEF TransitionRisk
  <2> HIDE DEF new, s
  <2>4. new \in RiskRow /\ new.status # "absent" /\ new.matrix = risk.matrix
    BY <2>1, <2>2 DEF RiskWith, RiskRow
  <2> QED
    BY <1>6, <2>1, <2>3, <2>4
<1>9. ASSUME NEW w \in Worker, CommitMatrix(w) \/ CommitRegister(w) \/ CommitRisk(w) PROVE RatingsInvariant'
  BY <1>9, CommitMatrixKeeps, CommitRegisterKeeps, CommitRiskKeeps
<1> QED
  BY <1>1, <1>2, <1>3, <1>4, <1>5, <1>7, <1>8, <1>9 DEF RisksNext

LEMMA RatingsStep ==
  ASSUME Assumptions, FollowUpInvariant, RatingsInvariant, [Next]_vars PROVE RatingsInvariant'
<1>1. CASE UNCHANGED vars
  <2> USE <1>1 DEF vars
  <2> QED
    BY DEF RatingsInvariant, Saved
<1>2. CASE (ActionsNext \/ FindingsNext \/ MeetingsNext) /\ UNCHANGED riskVars
  <2>1. UNCHANGED <<matrices, risk, assessments>>
    BY <1>2 DEF riskVars
  <2>2. ASSUME NEW w \in Worker, NEW q, Begin(w, q),
               q.step \in {"action", "finding", "meeting", "resolve", "resolution"}
        PROVE  RatingsInvariant'
    <3>1. RiskUnderway(q, matrices, risk)
      BY <2>2, RiskElsewhere
    <3> QED
      BY <2>1, <2>2, <3>1, RiskLoadKeeps
  <2>3. ASSUME NEW w \in Worker, Finish(w) PROVE RatingsInvariant'
    BY <2>1, <2>3, RiskLoadKeeps
  <2>4. ASSUME Free, UNCHANGED req PROVE RatingsInvariant'
    BY <2>1, <2>4, RiskLoadKeeps DEF Free
  <2> QED
    BY <1>2, <2>2, <2>3, <2>4, OthersLeaveRisks
<1>3. CASE RisksNext
  BY <1>3, RisksKeepRatings
<1> QED
  BY <1>1, <1>2, <1>3 DEF Next

(* However requests race: the matrices are saved one behind the other and  *)
(* none is lost, a risk is on one of them for good, and its history is one *)
(* of ratings.  That they are in a band takes serial requests: two edits   *)
(* of a matrix leave columns of both (models.py:82).                       *)
THEOREM RatingsInvariantHolds == Spec => []RatingsInvariant
<1>1. Assumptions
  BY AssumptionsHold
<1>2. Init => RatingsInvariant
  BY <1>1, RatingsInit
<1>3. FollowUpInvariant /\ RatingsInvariant /\ [Next]_vars => RatingsInvariant'
  BY <1>1, RatingsStep
<1> QED
  BY <1>2, <1>3, FollowUpInvariantHolds, PTL DEF Spec
-----------------------------------------------------------------------------
(* The last rating of a kind, when one is appended.                        *)
LEMMA LastAppended ==
  ASSUME NEW rows \in Seq(RatingRow), NEW r \in RatingRow, NEW kind
  PROVE  LastIn(Append(rows, r), kind) = IF r.kind = kind THEN {Len(rows) + 1} ELSE LastIn(rows, kind)
<1> DEFINE rows2 == Append(rows, r)
           n == Len(rows)
<1>1. /\ n \in Nat /\ DOMAIN rows = 1..n /\ DOMAIN rows2 = 1..(n + 1) /\ Len(rows2) = n + 1
      /\ rows2[n + 1] = r /\ \A k \in 1..n : rows2[k] = rows[k]
  <2> HIDE DEF RatingRow
  <2> QED
    OBVIOUS
<1> HIDE DEF rows2, n
<1>2. LastIn(rows2, kind) = {m \in 1..(n + 1) : rows2[m].kind = kind /\ \A k \in m + 1..n + 1 : rows2[k].kind # kind}
  BY <1>1 DEF LastIn
<1>3. LastIn(rows, kind) = {m \in 1..n : rows[m].kind = kind /\ \A k \in m + 1..n : rows[k].kind # kind}
  BY <1>1 DEF LastIn, n
<1>4. CASE r.kind = kind
  <2>1. n + 1 \in LastIn(rows2, kind)
    BY <1>1, <1>2, <1>4
  <2>2. ASSUME NEW m \in LastIn(rows2, kind) PROVE m = n + 1
    <3>1. m \in 1..(n + 1) /\ \A k \in m + 1..n + 1 : rows2[k].kind # kind
      BY <1>2
    <3>2. m # n + 1 => n + 1 \in m + 1..n + 1
      BY <1>1, <3>1
    <3> QED
      BY <1>1, <1>4, <3>1, <3>2
  <2>3. LastIn(rows2, kind) = {n + 1}
    BY <2>1, <2>2
  <2> QED
    BY <1>4, <2>3 DEF rows2, n
<1>5. CASE r.kind # kind
  <2>1. ASSUME NEW m PROVE m \in LastIn(rows2, kind) <=> m \in LastIn(rows, kind)
    <3>1. m \in 1..(n + 1) /\ rows2[m].kind = kind => m \in 1..n
      BY <1>1, <1>5
    <3>2. ASSUME m \in 1..n
          PROVE  (\A k \in m + 1..n + 1 : rows2[k].kind # kind) <=> (\A k \in m + 1..n : rows[k].kind # kind)
      <4>1. \A k \in m + 1..n : k \in 1..n /\ rows2[k] = rows[k]
        BY <1>1, <3>2
      <4>2. \A k \in m + 1..n + 1 : k = n + 1 \/ k \in m + 1..n
        BY <1>1, <3>2
      <4>3. m + 1..n \subseteq m + 1..n + 1
        BY <1>1, <3>2
      <4> QED
        BY <1>1, <1>5, <4>1, <4>2, <4>3
    <3> QED
      BY <1>1, <1>2, <1>3, <3>1, <3>2
  <2> QED
    BY <1>5, <2>1 DEF rows2
<1> QED
  BY <1>4, <1>5

LEMMA RatingIsShown ==
  ASSUME NEW rows \in Seq(RatingRow), NEW r \in RatingRow, NEW row, NEW new, ShowsLast(row, rows),
         Rating(new, r.kind) = <<r.l, r.i>>,
         \A kind \in KINDS : kind # r.kind => Rating(new, kind) = Rating(row, kind)
  PROVE  ShowsLast(new, Append(rows, r))
<1> DEFINE rows2 == Append(rows, r)
<1>1. /\ Len(rows) \in Nat /\ DOMAIN rows = 1..Len(rows)
      /\ rows2[Len(rows) + 1] = r /\ \A k \in 1..Len(rows) : rows2[k] = rows[k]
  <2> HIDE DEF RatingRow
  <2> QED
    OBVIOUS
<1>2. \A kind : LastIn(rows2, kind) = IF r.kind = kind THEN {Len(rows) + 1} ELSE LastIn(rows, kind)
  BY LastAppended
<1> HIDE DEF rows2
<1>3. ASSUME NEW kind \in KINDS
      PROVE  IF LastIn(rows2, kind) = {} THEN Rating(new, kind) = <<0, 0>>
             ELSE \E n \in LastIn(rows2, kind) : Rating(new, kind) = <<rows2[n].l, rows2[n].i>>
  <2>1. CASE r.kind = kind
    <3>1. LastIn(rows2, kind) = {Len(rows) + 1} /\ Rating(new, kind) = <<r.l, r.i>>
      BY <1>2, <2>1
    <3> QED
      BY <1>1, <3>1
  <2>2. CASE r.kind # kind
    <3>1. LastIn(rows2, kind) = LastIn(rows, kind) /\ Rating(new, kind) = Rating(row, kind)
      BY <1>2, <2>2
    <3>2. \A n \in LastIn(rows, kind) : rows2[n] = rows[n]
      BY <1>1 DEF LastIn
    <3> QED
      BY <3>1, <3>2 DEF ShowsLast
  <2> QED
    BY <2>1, <2>2
<1> QED
  BY <1>3 DEF ShowsLast, rows2

LEMMA BandIsKept ==
  ASSUME NEW rows \in Seq(RatingRow), NEW r \in RatingRow, NEW c, BandsMatch(rows, c),
         r.band # 0, r.band = band_for(c, r.l, r.i)
  PROVE  BandsMatch(Append(rows, r), c)
<1> DEFINE rows2 == Append(rows, r)
<1>1. /\ Len(rows) \in Nat /\ DOMAIN rows = 1..Len(rows) /\ DOMAIN rows2 = 1..(Len(rows) + 1)
      /\ rows2[Len(rows) + 1] = r /\ \A k \in 1..Len(rows) : rows2[k] = rows[k]
  <2> HIDE DEF RatingRow
  <2> QED
    OBVIOUS
<1> HIDE DEF rows2
<1>2. ASSUME NEW n \in DOMAIN rows2
      PROVE  rows2[n].band # 0 /\ rows2[n].band = band_for(c, rows2[n].l, rows2[n].i)
  <2>1. n = Len(rows) + 1 \/ n \in 1..Len(rows)
    BY <1>1
  <2>2. CASE n = Len(rows) + 1
    BY <1>1, <2>2
  <2>3. CASE n \in 1..Len(rows)
    <3>1. rows2[n] = rows[n] /\ n \in DOMAIN rows
      BY <1>1, <2>3
    <3> QED
      BY <3>1 DEF BandsMatch
  <2> QED
    BY <2>1, <2>2, <2>3
<1> QED
  BY <1>2 DEF BandsMatch, rows2

(* The bands of a matrix are all that decides.                             *)
LEMMA BandsDecide ==
  ASSUME NEW rows, NEW c, NEW c2, c2.bands = c.bands, BandsMatch(rows, c)
  PROVE  BandsMatch(rows, c2)
<1>1. \A l, i : band_for(c2, l, i) = band_for(c, l, i)
  BY DEF band_for
<1> QED
  BY <1>1 DEF BandsMatch
-----------------------------------------------------------------------------
LEMMA RiskServedElsewhere ==
  ASSUME NEW q, q.step \notin {"matrix", "register", "assess", "risk"}, NEW table, NEW row, NEW rows
  PROVE  RiskServed(q, table, row, rows)
BY DEF RiskServed

LEMMA RiskLoadIsSerial ==
  ASSUME Assumptions, FollowUpInvariant, RatedInvariant, NEW w \in Worker, NEW q, Begin(w, q), q.step # "off",
         Serial => RiskServed(q, matrices, risk, assessments), UNCHANGED <<matrices, risk, assessments>>
  PROVE  RatedInvariant'
<1>1. /\ Serial' <=> Serial
      /\ req'[w] = q
      /\ \A v \in Worker : v # w => req'[v] = req[v]
  BY SerialBegins DEF Assumptions, FollowUpInvariant
<1>2. Serial => RatingsAreRight'
  BY DEF RatedInvariant, RatingsAreRight
<1>3. Serial => \A v \in Worker : RiskServed(req'[v], matrices', risk', assessments')
  BY <1>1 DEF RatedInvariant
<1> QED
  BY <1>1, <1>2, <1>3 DEF RatedInvariant

LEMMA RiskCommitIsSerial ==
  ASSUME Assumptions, FollowUpInvariant, NEW w \in Worker, InFlight(w), Finish(w), Serial => RatingsAreRight'
  PROVE  RatedInvariant'
<1>1. /\ Serial' <=> Serial
      /\ Serial => \A v \in Worker : req'[v].step \in {"idle", "off"}
  BY SerialFinishes DEF Assumptions, FollowUpInvariant
<1>2. Serial => \A v \in Worker : RiskServed(req'[v], matrices', risk', assessments')
  BY <1>1, RiskServedElsewhere
<1> QED
  BY <1>1, <1>2 DEF RatedInvariant

LEMMA RiskCreateIsSerial ==
  ASSUME Assumptions, FollowUpInvariant, Free, UNCHANGED req, Serial => RatingsAreRight'
  PROVE  RatedInvariant'
<1>1. Serial' <=> Serial
  BY DEF Serial
<1>2. Serial => \A v \in Worker : req[v].step \in {"idle", "off"}
  BY SerialIsAlone DEF Assumptions, InFlight
<1>3. Serial => \A v \in Worker : RiskServed(req'[v], matrices', risk', assessments')
  BY <1>2, RiskServedElsewhere
<1> QED
  BY <1>1, <1>3 DEF RatedInvariant

(* What the handlers make of the rows they find.                           *)
LEMMA EditIsServed ==
  ASSUME Assumptions, RatingsInvariant, RatingsAreRight, NEW m \in Saved, NEW c \in Criteria,
         ValidMatrix(c), ~InUse(m)
  PROVE  RiskServed([step |-> "matrix", rows |-> {m}, loaded |-> matrices,
                     new |-> [matrices EXCEPT ![m] = Assign(@, c)]], matrices, risk, assessments)
<1> DEFINE new == [matrices EXCEPT ![m] = Assign(@, c)]
           q == [step |-> "matrix", rows |-> {m}, loaded |-> matrices, new |-> new]
<1>1. /\ matrices[m].exists /\ new[m] = MatrixWith(TRUE, matrices[m].active, c)
      /\ matrices[m].active \in BOOLEAN
  BY EditedMatrix
<1> HIDE DEF new
<1>2. new[m].exists /\ new[m].active = matrices[m].active /\ ValidMatrix(new[m])
  <2> DEFINE sent == MatrixWith(TRUE, matrices[m].active, c)
  <2>1. sent.exists = TRUE /\ sent.active = matrices[m].active /\ (ValidMatrix(sent) <=> ValidMatrix(c))
    BY <1>1, MatrixSays
  <2>2. new[m] = sent
    BY <1>1
  <2> HIDE DEF sent
  <2> QED
    BY <2>1, <2>2
<1>3. \A k \in 1..MaxMatrix : Live(Committed(q, matrices)[k]) <=> Live(matrices[k])
  BY <1>1, <1>2 DEF Committed, Live
<1>4. AtMostOneLive(Committed(q, matrices))
  BY <1>3 DEF RatingsAreRight, AtMostOneLive
<1>5. RiskServed(q, matrices, risk, assessments)
  BY <1>2, <1>4 DEF RiskServed, InUse
<1> QED
  BY <1>5 DEF new

LEMMA ActivationIsServed ==
  ASSUME RatingsInvariant, RatingsAreRight, NEW m \in Saved
  PROVE  RiskServed([step |-> "matrix", rows |-> Active \cup {m}, loaded |-> matrices,
                     new |-> [k \in DOMAIN matrices |->
                               IF k \in Active \cup {m} THEN [matrices[k] EXCEPT !.active = (k = m)]
                               ELSE matrices[k]]], matrices, risk, assessments)
<1> DEFINE new == [k \in DOMAIN matrices |->
                    IF k \in Active \cup {m} THEN [matrices[k] EXCEPT !.active = (k = m)] ELSE matrices[k]]
           q == [step |-> "matrix", rows |-> Active \cup {m}, loaded |-> matrices, new |-> new]
<1>1. ASSUME NEW k \in Active \cup {m}
      PROVE  /\ k \in 1..MaxMatrix /\ matrices[k].exists
             /\ new[k] = MatrixWith(TRUE, k = m, matrices[k])
  <2>1. /\ k \in 1..MaxMatrix /\ matrices[k].exists
        /\ [matrices[k] EXCEPT !.active = (k = m)] = MatrixWith(TRUE, k = m, matrices[k])
    BY ActivatedMatrix
  <2> QED
    BY <2>1 DEF RatingsInvariant
<1> HIDE DEF new
<1>2. ASSUME NEW k \in Active \cup {m}
      PROVE  new[k].bands = matrices[k].bands /\ (new[k].active => k = m) /\ ValidMatrix(new[k])
  <2> DEFINE b == (k = m)
  <2>1. new[k] = MatrixWith(TRUE, b, matrices[k]) /\ ValidMatrix(matrices[k])
    BY <1>1 DEF RatingsAreRight, AllValid
  <2>2. b => k = m
    OBVIOUS
  <2>3. b \in BOOLEAN
    OBVIOUS
  <2> HIDE DEF b
  <2>4. new[k].bands = matrices[k].bands /\ new[k].active = b /\ ValidMatrix(new[k])
    <3> DEFINE live == MatrixWith(TRUE, b, matrices[k])
    <3>1. live.bands = matrices[k].bands /\ live.active = b /\ (ValidMatrix(live) <=> ValidMatrix(matrices[k]))
      BY <2>3, MatrixSays
    <3>2. new[k] = live
      BY <2>1
    <3> HIDE DEF live
    <3> QED
      BY <2>1, <3>1, <3>2
  <2> QED
    BY <2>2, <2>4
<1>3. ASSUME NEW k \in 1..MaxMatrix, Live(Committed(q, matrices)[k]) PROVE k = m
  <2>1. CASE k \in Active \cup {m}
    BY <1>2, <1>3, <2>1 DEF Committed, Live
  <2>2. CASE k \notin Active \cup {m}
    <3>1. Live(matrices[k])
      BY <1>3, <2>2 DEF Committed
    <3> QED
      BY <2>2, <3>1 DEF Live, Active, Saved, RatingsInvariant
  <2> QED
    BY <2>1, <2>2
<1>4. AtMostOneLive(Committed(q, matrices))
  BY <1>3 DEF AtMostOneLive
<1>5. \A k \in Active \cup {m} : new[k].bands = matrices[k].bands /\ ValidMatrix(new[k])
  BY <1>2
<1>6. RiskServed(q, matrices, risk, assessments)
  BY <1>4, <1>5 DEF RiskServed
<1> QED
  BY <1>6 DEF new

LEMMA RegistrationIsServed ==
  ASSUME Assumptions, NEW o, NEW m
  PROVE  RiskServed([step |-> "register",
                     new |-> Assign(NoRisk, [status |-> "open", owner |-> o, matrix |-> m])],
                    matrices, risk, assessments)
<1> DEFINE new == Assign(NoRisk, [status |-> "open", owner |-> o, matrix |-> m])
<1>1. new = RiskWith("open", o, m, 0, 0, 0, 0)
  BY RegisteredRisk
<1> HIDE DEF new
<1>2. \A kind \in KINDS : Rating(new, kind) = <<0, 0>> /\ LastIn(<<>>, kind) = {}
  BY <1>1 DEF Rating, RiskWith, LastIn
<1>3. ShowsLast(new, <<>>)
  BY <1>2 DEF ShowsLast
<1>4. RiskServed([step |-> "register", new |-> new], matrices, risk, assessments)
  BY <1>3 DEF RiskServed
<1> QED
  BY <1>4 DEF new

LEMMA RatingIsServed ==
  ASSUME Assumptions, RatingsInvariant, RatingsAreRight, risk.status = "open",
         NEW kind \in KINDS, NEW l \in 1..10, NEW i \in 1..10, OnScale(risk.matrix, l, i)
  PROVE  RiskServed([step |-> "assess", loaded |-> risk, new |-> Assign(risk, Columns(kind, l, i)),
                     row |-> [kind |-> kind, l |-> l, i |-> i,
                              band |-> band_for(matrices[risk.matrix], l, i)]],
                    matrices, risk, assessments)
<1> DEFINE new == Assign(risk, Columns(kind, l, i))
           b == band_for(matrices[risk.matrix], l, i)
           r == [kind |-> kind, l |-> l, i |-> i, band |-> b]
           q == [step |-> "assess", loaded |-> risk, new |-> new, row |-> r]
<1>1. r \in RatingRow /\ b # 0
  BY RatingIsARow, RatingHasABand DEF RatingsAreRight
<1>2. new = IF kind = "inherent"
            THEN RiskWith(risk.status, risk.owner, risk.matrix, l, i, risk.residual_l, risk.residual_i)
            ELSE RiskWith(risk.status, risk.owner, risk.matrix, risk.inherent_l, risk.inherent_i, l, i)
  BY RatedRisk DEF RatingsInvariant
<1>3. /\ r.kind = kind /\ r.l = l /\ r.i = i
      /\ r.band # 0 /\ r.band = band_for(matrices[risk.matrix], r.l, r.i)
  BY <1>1
<1> HIDE DEF new, b, r
<1>4. Rating(new, kind) = <<l, i>> /\ \A k \in KINDS : k # kind => Rating(new, k) = Rating(risk, k)
  BY <1>2 DEF Rating, RiskWith, KINDS
<1>5. ShowsLast(new, Append(assessments, r))
  BY <1>1, <1>3, <1>4, RatingIsShown DEF RatingsInvariant, RatingsAreRight
<1>6. RiskServed(q, matrices, risk, assessments)
  BY <1>3, <1>5 DEF RiskServed
<1> QED
  BY <1>6 DEF new, b, r

LEMMA RiskEditIsServed ==
  ASSUME RatingsAreRight, NEW s, NEW o, NEW m, NEW new,
         new = RiskWith(s, o, m, risk.inherent_l, risk.inherent_i, risk.residual_l, risk.residual_i)
  PROVE  RiskServed([step |-> "risk", loaded |-> risk, new |-> new], matrices, risk, assessments)
<1>1. \A kind \in KINDS : Rating(new, kind) = Rating(risk, kind)
  BY DEF Rating, RiskWith
<1>2. ShowsLast(new, assessments)
  BY <1>1 DEF ShowsLast, RatingsAreRight
<1> QED
  BY <1>2 DEF RiskServed

(* What serial requests commit.                                            *)
LEMMA CommitMatrixIsRight ==
  ASSUME RatingsInvariant, RatedInvariant, Serial, NEW w \in Worker, CommitMatrix(w)
  PROVE  RatingsAreRight'
<1> DEFINE q == req[w]
<1>1. /\ q.step = "matrix" /\ UNCHANGED <<risk, assessments>>
      /\ matrices' = [m \in 1..MaxMatrix |->
                       IF m \in q.rows THEN Flush(q.loaded[m], q.new[m], matrices[m]) ELSE matrices[m]]
  BY DEF CommitMatrix, RatingsInvariant
<1>2. /\ q.rows \subseteq {m \in 1..MaxMatrix : matrices[m].exists}
      /\ \A m \in q.rows : q.new[m] \in MatrixRow /\ q.new[m].exists
  BY <1>1 DEF RatingsInvariant, RiskUnderway
<1>3. /\ q.loaded = matrices
      /\ \A m \in q.rows : ValidMatrix(q.new[m])
      /\ risk.matrix \in q.rows => q.new[risk.matrix].bands = matrices[risk.matrix].bands
      /\ AtMostOneLive(Committed(q, matrices))
  BY <1>1 DEF RatedInvariant, RiskServed
<1> HIDE DEF q
<1>4. ASSUME NEW m \in q.rows PROVE Flush(matrices[m], q.new[m], matrices[m]) = q.new[m]
  <2>1. matrices[m] \in MatrixRow /\ q.new[m] \in MatrixRow
    BY <1>2 DEF RatingsInvariant
  <2>2. q.new[m] = [c \in DOMAIN matrices[m] |-> q.new[m][c]]
    BY <2>1 DEF MatrixRow
  <2> QED
    BY <2>2, FlushIsWhole
<1>5. matrices' = Committed(q, matrices)
  BY <1>1, <1>3, <1>4 DEF Committed
<1>6. risk.status # "absent" => matrices'[risk.matrix].bands = matrices[risk.matrix].bands
  BY <1>3, <1>5 DEF Committed, RatingsInvariant
<1>7. risk'.status # "absent" => BandsMatch(assessments', matrices'[risk'.matrix])
  BY <1>1, <1>6, BandsDecide DEF RatedInvariant, RatingsAreRight
<1>9. AllValid(matrices')
  BY <1>2, <1>3, <1>5 DEF AllValid, Committed, RatedInvariant, RatingsAreRight
<1>8. ShowsLast(risk', assessments')
  BY <1>1 DEF RatedInvariant, RatingsAreRight
<1> QED
  BY <1>3, <1>5, <1>7, <1>8, <1>9 DEF RatingsAreRight

LEMMA CommitRegisterIsRight ==
  ASSUME RatingsInvariant, RatedInvariant, Serial, NEW w \in Worker, CommitRegister(w)
  PROVE  RatingsAreRight'
<1>1. /\ req[w].step = "register" /\ risk.status = "absent" /\ risk' = req[w].new
      /\ UNCHANGED <<matrices, assessments>>
  BY DEF CommitRegister
<1>2. assessments = <<>> /\ AtMostOneLive(matrices) /\ AllValid(matrices)
  BY <1>1 DEF RatingsInvariant, RatedInvariant, RatingsAreRight
<1>3. ShowsLast(req[w].new, <<>>)
  BY <1>1 DEF RatedInvariant, RiskServed
<1>4. \A c : BandsMatch(<<>>, c)
  BY DEF BandsMatch
<1> QED
  BY <1>1, <1>2, <1>3, <1>4 DEF RatingsAreRight

LEMMA CommitRiskIsRight ==
  ASSUME RatingsInvariant, RatedInvariant, Serial, NEW w \in Worker, CommitRisk(w)
  PROVE  RatingsAreRight'
<1> DEFINE q == req[w]
<1>1. /\ q.step \in {"assess", "risk"} /\ risk' = Flush(q.loaded, q.new, risk) /\ UNCHANGED matrices
      /\ assessments' = IF q.step = "assess" THEN Append(assessments, q.row) ELSE assessments
  BY DEF CommitRisk, AppendRating
<1>2. /\ risk.status # "absent" /\ risk \in RiskRow /\ q.new \in RiskRow /\ q.new.matrix = q.loaded.matrix
      /\ q.step = "assess" => q.row \in RatingRow
  BY <1>1 DEF RatingsInvariant, RiskUnderway
<1>3. /\ q.loaded = risk
      /\ q.step = "assess" =>
           /\ q.row.band # 0 /\ q.row.band = band_for(matrices[risk.matrix], q.row.l, q.row.i)
           /\ ShowsLast(q.new, Append(assessments, q.row))
      /\ q.step = "risk" => ShowsLast(q.new, assessments)
  BY <1>1 DEF RatedInvariant, RiskServed
<1> HIDE DEF q
<1>4. risk' = q.new
  <2>1. q.new = [c \in DOMAIN risk |-> q.new[c]]
    BY <1>2 DEF RiskRow
  <2> QED
    BY <1>1, <1>3, <2>1, FlushIsWhole
<1>5. /\ BandsMatch(assessments, matrices[risk.matrix])
      /\ AtMostOneLive(matrices) /\ AllValid(matrices)
      /\ assessments \in Seq(RatingRow)
  BY <1>2 DEF RatedInvariant, RatingsAreRight, RatingsInvariant
<1>6. BandsMatch(assessments', matrices[risk.matrix])
  <2>1. CASE q.step = "assess"
    BY <1>1, <1>2, <1>3, <1>5, <2>1, BandIsKept
  <2>2. CASE q.step # "assess"
    BY <1>1, <1>5, <2>2
  <2> QED
    BY <2>1, <2>2
<1>7. matrices'[risk'.matrix] = matrices[risk.matrix]
  BY <1>1, <1>2, <1>3, <1>4
<1>8. ShowsLast(risk', assessments')
  BY <1>1, <1>3, <1>4
<1> QED
  BY <1>1, <1>5, <1>6, <1>7, <1>8 DEF RatingsAreRight

LEMMA CreateMatrixIsRight ==
  ASSUME Assumptions, RatingsInvariant, RatedInvariant, Serial, NEW u, NEW c \in Criteria, CreateMatrix(u, c)
  PROVE  RatingsAreRight'
<1> DEFINE m == Cardinality(Saved) + 1
<1>1. /\ m \in 1..MaxMatrix /\ m \notin Saved
      /\ matrices'[m] = MatrixWith(TRUE, FALSE, c)
      /\ \A k \in 1..MaxMatrix : k # m => matrices'[k] = matrices[k]
  BY CreateMatrixAdds
<1>2. UNCHANGED <<risk, assessments>>
  BY DEF CreateMatrix
<1> HIDE DEF m
<1>3. ~Live(matrices'[m]) /\ ValidMatrix(matrices'[m])
  BY <1>1, MatrixSays DEF Live, CreateMatrix
<1>4. AtMostOneLive(matrices') /\ AllValid(matrices')
  BY <1>1, <1>3 DEF RatedInvariant, RatingsAreRight, AtMostOneLive, AllValid
<1>5. risk.status # "absent" => risk.matrix \in 1..MaxMatrix /\ risk.matrix # m
  BY <1>1 DEF RatingsInvariant, Saved
<1>6. risk'.status # "absent" => BandsMatch(assessments', matrices'[risk'.matrix])
  BY <1>1, <1>2, <1>5 DEF RatedInvariant, RatingsAreRight
<1>7. ShowsLast(risk', assessments')
  BY <1>2 DEF RatedInvariant, RatingsAreRight
<1> QED
  BY <1>4, <1>6, <1>7 DEF RatingsAreRight
-----------------------------------------------------------------------------
LEMMA RatedInit ==
  ASSUME Assumptions, Init PROVE RatedInvariant
<1>1. /\ matrices = [m \in 1..MaxMatrix |-> NoMatrix] /\ risk = NoRisk /\ assessments = <<>>
      /\ req \in [Worker -> {Idle, Off}]
  BY DEF Init, RisksInit, RequestsInit
<1>2. AtMostOneLive(matrices) /\ AllValid(matrices)
  BY <1>1 DEF AtMostOneLive, AllValid, Live, NoMatrix
<1>3. \A kind \in KINDS : Rating(NoRisk, kind) = <<0, 0>> /\ LastIn(<<>>, kind) = {}
  BY DEF Rating, NoRisk, LastIn
<1>4. ShowsLast(risk, assessments) /\ risk.status = "absent"
  BY <1>1, <1>3 DEF ShowsLast, NoRisk
<1>5. \A w \in Worker : req[w].step \in {"idle", "off"}
  BY <1>1 DEF Idle, Off
<1>6. \A w \in Worker : RiskServed(req[w], matrices, risk, assessments)
  BY <1>5, RiskServedElsewhere
<1> QED
  BY <1>2, <1>4, <1>6 DEF RatedInvariant, RatingsAreRight

LEMMA RisksAreRated ==
  ASSUME Assumptions, FollowUpInvariant, RatingsInvariant, RatedInvariant, RisksNext
  PROVE  RatedInvariant'
<1>0. Serial => RatingsAreRight
  BY DEF RatedInvariant
<1>1. ASSUME NEW u \in User, NEW c \in Criteria, CreateMatrix(u, c) PROVE RatedInvariant'
  <2>1. Free /\ UNCHANGED req
    BY <1>1 DEF CreateMatrix
  <2> QED
    BY <1>1, <2>1, CreateMatrixIsRight, RiskCreateIsSerial
<1>2. ASSUME NEW w \in Waiting, NEW q, LoadRisks(w, q), q.step \in {"matrix", "register", "assess", "risk"},
             Serial => RiskServed(q, matrices, risk, assessments)
      PROVE  RatedInvariant'
  <2>1. w \in Worker /\ Begin(w, q) /\ q.step # "off" /\ UNCHANGED <<matrices, risk, assessments>>
    BY <1>2 DEF LoadRisks, Waiting
  <2> QED
    BY <1>2, <2>1, RiskLoadIsSerial
<1>3. ASSUME NEW u \in User, NEW w \in Waiting, NEW m \in Saved, NEW c \in Criteria, EditMatrix(w, u, m, c)
      PROVE  RatedInvariant'
  <2> DEFINE new == [matrices EXCEPT ![m] = Assign(@, c)]
             q == [step |-> "matrix", rows |-> {m}, loaded |-> matrices, new |-> new]
  <2>1. Serial => RiskServed(q, matrices, risk, assessments)
    BY <1>0, <1>3, EditIsServed DEF EditMatrix
  <2>2. LoadRisks(w, q)
    BY <1>3 DEF EditMatrix
  <2> HIDE DEF new
  <2>3. q.step = "matrix"
    OBVIOUS
  <2> QED
    BY <1>2, <2>1, <2>2, <2>3
<1>4. ASSUME NEW u \in User, NEW w \in Waiting, NEW m \in Saved, ActivateMatrix(w, u, m)
      PROVE  RatedInvariant'
  <2> DEFINE new == [k \in DOMAIN matrices |->
                      IF k \in Active \cup {m} THEN [matrices[k] EXCEPT !.active = (k = m)] ELSE matrices[k]]
             q == [step |-> "matrix", rows |-> Active \cup {m}, loaded |-> matrices, new |-> new]
  <2>1. Serial => RiskServed(q, matrices, risk, assessments)
    BY <1>0, ActivationIsServed
  <2>2. LoadRisks(w, q)
    BY <1>4 DEF ActivateMatrix
  <2> HIDE DEF new
  <2>3. q.step = "matrix"
    OBVIOUS
  <2> QED
    BY <1>2, <2>1, <2>2, <2>3
<1>5. ASSUME NEW u \in User, NEW w \in Waiting, NEW o \in User, CreateRisk(w, u, o) PROVE RatedInvariant'
  <2>1. PICK m \in Active :
          LoadRisks(w, [step |-> "register",
                        new |-> Assign(NoRisk, [status |-> "open", owner |-> o, matrix |-> m])])
    BY <1>5 DEF CreateRisk
  <2> DEFINE new == Assign(NoRisk, [status |-> "open", owner |-> o, matrix |-> m])
             q == [step |-> "register", new |-> new]
  <2>2. RiskServed(q, matrices, risk, assessments)
    BY RegistrationIsServed
  <2>3. LoadRisks(w, q)
    BY <2>1
  <2> HIDE DEF new
  <2>4. q.step = "register"
    OBVIOUS
  <2> QED
    BY <1>2, <2>2, <2>3, <2>4
<1>6. ASSUME NEW u \in User, NEW w \in Waiting, NEW kind \in KINDS, NEW l \in 1..10, NEW i \in 1..10,
             Assess(w, u, kind, l, i)
      PROVE  RatedInvariant'
  <2> DEFINE new == Assign(risk, Columns(kind, l, i))
             row == [kind |-> kind, l |-> l, i |-> i, band |-> band_for(matrices[risk.matrix], l, i)]
             q == [step |-> "assess", loaded |-> risk, new |-> new, row |-> row]
  <2>1. Serial => RiskServed(q, matrices, risk, assessments)
    BY <1>0, <1>6, RatingIsServed DEF Assess
  <2>2. LoadRisks(w, q)
    BY <1>6 DEF Assess
  <2> HIDE DEF new, row
  <2>3. q.step = "assess"
    OBVIOUS
  <2> QED
    BY <1>2, <2>1, <2>2, <2>3
<1>7. ASSUME NEW w \in Waiting, NEW s, NEW o, NEW new,
             new = RiskWith(s, o, risk.matrix, risk.inherent_l, risk.inherent_i, risk.residual_l,
                            risk.residual_i),
             LoadRisks(w, [step |-> "risk", loaded |-> risk, new |-> new])
      PROVE  RatedInvariant'
  <2> DEFINE q == [step |-> "risk", loaded |-> risk, new |-> new]
  <2>1. Serial => RiskServed(q, matrices, risk, assessments)
    BY <1>0, <1>7, RiskEditIsServed
  <2>2. q.step = "risk"
    OBVIOUS
  <2> QED
    BY <1>2, <1>7, <2>1, <2>2
<1>8. ASSUME NEW u \in User, NEW w \in Waiting, NEW o \in User, UpdateRisk(w, u, o) PROVE RatedInvariant'
  <2>1. Assign(risk, [owner |-> o]) =
          RiskWith(risk.status, o, risk.matrix, risk.inherent_l, risk.inherent_i, risk.residual_l,
                   risk.residual_i)
    BY OwnedRisk DEF RatingsInvariant
  <2> QED
    BY <1>7, <1>8, <2>1 DEF UpdateRisk
<1>9. ASSUME NEW u \in User, NEW w \in Waiting, NEW name \in DOMAIN RISK_FLOW, TransitionRisk(w, u, name)
      PROVE  RatedInvariant'
  <2>1. Assign(risk, [status |-> TargetOf(RISK_FLOW, name)]) =
          RiskWith(TargetOf(RISK_FLOW, name), risk.owner, risk.matrix, risk.inherent_l, risk.inherent_i,
                   risk.residual_l, risk.residual_i)
    BY MovedRisk DEF RatingsInvariant
  <2> QED
    BY <1>7, <1>9, <2>1 DEF TransitionRisk
<1>10. ASSUME NEW w \in Worker, CommitMatrix(w) \/ CommitRegister(w) \/ CommitRisk(w) PROVE RatedInvariant'
  <2>1. InFlight(w) /\ Finish(w)
    BY <1>10 DEF CommitMatrix, CommitRegister, CommitRisk, InFlight
  <2> QED
    BY <1>10, <2>1, CommitMatrixIsRight, CommitRegisterIsRight, CommitRiskIsRight, RiskCommitIsSerial
<1> QED
  BY <1>1, <1>3, <1>4, <1>5, <1>6, <1>8, <1>9, <1>10 DEF RisksNext

LEMMA RatedStep ==
  ASSUME Assumptions, FollowUpInvariant, RatingsInvariant, RatedInvariant, [Next]_vars PROVE RatedInvariant'
<1>1. CASE UNCHANGED vars
  BY <1>1 DEF vars, RatedInvariant, Serial, RatingsAreRight
<1>2. CASE (ActionsNext \/ FindingsNext \/ MeetingsNext) /\ UNCHANGED riskVars
  <2>1. UNCHANGED <<matrices, risk, assessments>>
    BY <1>2 DEF riskVars
  <2>2. Serial => RatingsAreRight'
    BY <2>1 DEF RatedInvariant, RatingsAreRight
  <2>3. ASSUME NEW w \in Worker, NEW q, Begin(w, q),
               q.step \in {"action", "finding", "meeting", "resolve", "resolution"}
        PROVE  RatedInvariant'
    <3>1. RiskServed(q, matrices, risk, assessments)
      BY <2>3, RiskServedElsewhere
    <3> QED
      BY <2>1, <2>3, <3>1, RiskLoadIsSerial
  <2> QED
    BY <1>2, <2>2, <2>3, OthersLeaveRisks, RiskCommitIsSerial, RiskCreateIsSerial
<1>3. CASE RisksNext
  BY <1>3, RisksAreRated
<1> QED
  BY <1>1, <1>2, <1>3 DEF Next

(* Served one after the other, requests leave every matrix valid and one   *)
(* active, the bands of past ratings as they were, and the last ratings on *)
(* the row.                                                                *)
THEOREM RatedInvariantHolds == Spec => []RatedInvariant
<1>1. Assumptions
  BY AssumptionsHold
<1>2. Init => RatedInvariant
  BY <1>1, RatedInit
<1>3. FollowUpInvariant /\ RatingsInvariant /\ RatedInvariant /\ [Next]_vars => RatedInvariant'
  BY <1>1, RatedStep
<1> QED
  BY <1>2, <1>3, FollowUpInvariantHolds, RatingsInvariantHolds, PTL DEF Spec

LEMMA RatingColumns ==
  ASSUME NEW row \in RiskRow, NEW kind \in KINDS, NEW l, NEW i, Rating(row, kind) = <<l, i>>
  PROVE  [c \in DOMAIN Columns(kind, 0, 0) |-> row[c]] = Columns(kind, l, i)
<1>1. CASE kind = "inherent"
  <2>1. DOMAIN Columns(kind, 0, 0) = {"inherent_l", "inherent_i"}
    BY <1>1 DEF Columns
  <2>2. Columns(kind, l, i) = [inherent_l |-> l, inherent_i |-> i]
    BY <1>1 DEF Columns
  <2>3. row.inherent_l = l /\ row.inherent_i = i
    BY <1>1 DEF Rating
  <2> QED
    BY <2>1, <2>2, <2>3
<1>2. CASE kind # "inherent"
  <2>1. DOMAIN Columns(kind, 0, 0) = {"residual_l", "residual_i"}
    BY <1>2 DEF Columns
  <2>2. Columns(kind, l, i) = [residual_l |-> l, residual_i |-> i]
    BY <1>2 DEF Columns
  <2>3. row.residual_l = l /\ row.residual_i = i
    BY <1>2 DEF Rating
  <2> QED
    BY <2>1, <2>2, <2>3
<1> QED
  BY <1>1, <1>2

(* Of serial requests: every rating is in a band, the one its matrix gives *)
(* it today, one matrix is active and the row shows the last rating of     *)
(* each kind (service.py:346, 358, 449).                                   *)
THEOREM RatingsAreAlwaysTraced == Spec => []RatingsAreTraced
<1>1. RatingsInvariant /\ RatedInvariant => RatingsAreTraced
  <2> SUFFICES ASSUME RatingsInvariant, RatedInvariant PROVE RatingsAreTraced
    OBVIOUS
  <2>1. RatingsMatchTheMatrix
    <3>1. risk.status = "absent" => assessments = <<>>
      BY DEF RatingsInvariant
    <3>2. Serial /\ risk.status # "absent" => BandsMatch(assessments, matrices[risk.matrix])
      BY DEF RatedInvariant, RatingsAreRight
    <3> QED
      BY <3>1, <3>2 DEF RatingsMatchTheMatrix, BandsMatch
  <2>2. Serial => Cardinality(Active) <= 1
    <3>1. Serial => \A m, n \in Active : m = n
      BY DEF RatedInvariant, RatingsAreRight, AtMostOneLive, Live, Active, Saved, RatingsInvariant
    <3> QED
      BY <3>1, AtMostOne
  <2>3. ASSUME Serial, NEW kind \in KINDS
        PROVE  LET last == LastOf(kind)
                   row == [c \in DOMAIN Columns(kind, 0, 0) |-> risk[c]]
               IN IF last = {} THEN row = Columns(kind, 0, 0)
                  ELSE \E n \in last : row = Columns(kind, assessments[n].l, assessments[n].i)
    <3>1. LastOf(kind) = LastIn(assessments, kind)
      BY DEF LastOf, LastIn
    <3>2. IF LastIn(assessments, kind) = {} THEN Rating(risk, kind) = <<0, 0>>
          ELSE \E n \in LastIn(assessments, kind) : Rating(risk, kind) = <<assessments[n].l, assessments[n].i>>
      BY <2>3 DEF RatedInvariant, RatingsAreRight, ShowsLast
    <3>3. risk \in RiskRow
      BY DEF RatingsInvariant
    <3> QED
      BY <3>1, <3>2, <3>3, RatingColumns
  <2>4. RiskRowIsItsLastRating
    BY <2>2, <2>3 DEF RiskRowIsItsLastRating
  <2> QED
    BY <2>1, <2>4 DEF RatingsAreTraced
<1> QED
  BY <1>1, RatingsInvariantHolds, RatedInvariantHolds, PTL

-----------------------------------------------------------------------------
(* Strategy and people (MCPlanning), for any schemes, trees and people.    *)

LEMMA ContractFlow ==
  /\ DOMAIN CONTRACT_FLOW = {"sign", "countersign", "evaluate", "accept", "appeal", "decide"}
  /\ CONTRACT_FLOW["sign"] = [sources |-> {"draft"}, target |-> "holder_signed", reason |-> FALSE]
  /\ CONTRACT_FLOW["countersign"] = [sources |-> {"holder_signed"}, target |-> "signed", reason |-> FALSE]
  /\ CONTRACT_FLOW["evaluate"] = [sources |-> {"signed"}, target |-> "evaluated", reason |-> FALSE]
  /\ CONTRACT_FLOW["accept"] = [sources |-> {"evaluated"}, target |-> "closed", reason |-> FALSE]
  /\ CONTRACT_FLOW["appeal"] = [sources |-> {"evaluated"}, target |-> "under_appeal", reason |-> TRUE]
  /\ CONTRACT_FLOW["decide"] = [sources |-> {"under_appeal"}, target |-> "closed", reason |-> TRUE]
BY DEF CONTRACT_FLOW, Transition, ReasonedTransition

LEMMA AppraisalFlow ==
  /\ DOMAIN APPRAISAL_FLOW =
       {"agree", "self_assess", "appraise", "acknowledge", "appeal", "decide", "correct"}
  /\ APPRAISAL_FLOW["agree"] = [sources |-> {"draft"}, target |-> "objectives_agreed", reason |-> FALSE]
  /\ APPRAISAL_FLOW["self_assess"] =
       [sources |-> {"objectives_agreed"}, target |-> "self_assessed", reason |-> FALSE]
  /\ APPRAISAL_FLOW["appraise"] = [sources |-> {"self_assessed"}, target |-> "appraised", reason |-> FALSE]
  /\ APPRAISAL_FLOW["acknowledge"] = [sources |-> {"appraised"}, target |-> "closed", reason |-> FALSE]
  /\ APPRAISAL_FLOW["appeal"] = [sources |-> {"appraised"}, target |-> "appealed", reason |-> TRUE]
  /\ APPRAISAL_FLOW["decide"] = [sources |-> {"appealed"}, target |-> "closed", reason |-> TRUE]
  /\ APPRAISAL_FLOW["correct"] = [sources |-> {"closed"}, target |-> "closed", reason |-> TRUE]
BY DEF APPRAISAL_FLOW, Transition, ReasonedTransition

LEMMA ContractOffers ==
  ASSUME NEW u, NEW name \in DOMAIN CONTRACT_FLOW
  PROVE  name \in OfferedContractSteps(u) <=>
           Permits(CONTRACT_FLOW, name, contract.status, TRUE) /\ MayTransitionContract(u, name)
<1>1. Permits(CONTRACT_FLOW, name, contract.status, TRUE) <=> contract.status \in CONTRACT_FLOW[name].sources
  BY DEF Permits
<1>2. name \in {"sign", "countersign", "evaluate", "accept", "appeal", "decide"}
  BY ContractFlow
<1> QED
  BY <1>1, <1>2 DEF OfferedContractSteps, MayTransitionContract

LEMMA AppraisalOffers ==
  ASSUME NEW u, NEW name \in DOMAIN APPRAISAL_FLOW
  PROVE  name \in OfferedAppraisalSteps(u) <=>
           Permits(APPRAISAL_FLOW, name, appraisal.status, TRUE) /\ MayTransitionAppraisal(u, name)
<1>1. Permits(APPRAISAL_FLOW, name, appraisal.status, TRUE) <=> appraisal.status \in APPRAISAL_FLOW[name].sources
  BY DEF Permits
<1>2. name \in {"agree", "self_assess", "appraise", "acknowledge", "appeal", "decide", "correct"}
  BY AppraisalFlow
<1> QED
  BY <1>1, <1>2 DEF OfferedAppraisalSteps, MayTransitionAppraisal
-----------------------------------------------------------------------------
(* The trees of a plan, while requests race.  An item's type never changes,*)
(* so a parent that was checked when it was loaded is a higher item of the *)
(* same tree when it is committed, whatever was moved meanwhile: it is the *)
(* order of the types, not the look for a loop, that keeps loops out.      *)
ResultTypes == {"pillar", "objective", "outcome", "output"}
DeliveryTypes == {"programme", "initiative", "activity", "milestone"}
ItemTypes == ResultTypes \cup DeliveryTypes

NodeRow ==
  [type : ItemTypes \cup {"none"}, parent : 0..MaxNode, code : Code \cup {0},
   unit : Unit \cup {"org", "none"}, retired : BOOLEAN]

IndicatorRow ==
  [status : {"absent", "active", "retired"}, node : 0..MaxNode, definition : Int, version : Int, target : Int]
PlanRow == [status : {"absent", "draft", "active", "archived"}, approved_by : User \cup {Nobody}]

(* The row hangs from the top of its tree, or from a higher item of it.    *)
Hangs(row, table) ==
  row.parent # 0 => /\ table[row.parent].type \in Types(TreeOf(row.type))
                    /\ Depth(table[row.parent].type) < Depth(row.type)

IsMade(n, table) == n \in 1..MaxNode /\ table[n].type # "none"

NewNodeUnderway(q, table, row) ==
  q.step = "new_node" =>
    q.row \in NodeRow /\ q.row.type # "none" /\ Hangs(q.row, table) /\ row.status # "absent"

NodeUnderway(q, table) ==
  q.step = "node" =>
    /\ IsMade(q.id, table)
    /\ q.loaded \in NodeRow /\ q.new \in NodeRow
    /\ q.loaded.type = table[q.id].type /\ q.new.type = table[q.id].type
    /\ q.loaded.code = table[q.id].code /\ q.new.code = table[q.id].code
    /\ Hangs(q.new, table)

IndicatorUnderway(q, table) ==
  q.step = "indicator" =>
    /\ q.loaded \in IndicatorRow /\ q.new \in IndicatorRow
    /\ q.loaded.node # 0 => IsMade(q.loaded.node, table)
    /\ q.new.node # 0 => IsMade(q.new.node, table)

PlanUnderway(q, row) ==
  q.step = "plan" =>
    q.loaded \in PlanRow /\ q.new \in PlanRow /\ q.new.status # "absent" /\ row.status # "absent"

OnPlan(q, table, row) ==
  /\ NewNodeUnderway(q, table, row) /\ NodeUnderway(q, table)
  /\ IndicatorUnderway(q, table) /\ PlanUnderway(q, row)

MadeInOrder == \E n \in 0..MaxNode : Made = 1..n

TreesInvariant ==
  /\ DOMAIN req = Worker
  /\ plan \in PlanRow /\ indicator \in IndicatorRow
  /\ nodes \in [1..MaxNode -> NodeRow]
  /\ MadeInOrder
  /\ plan.status = "absent" => Made = {}
  /\ \A n \in Made : Hangs(nodes[n], nodes)
  /\ \A m, n \in Made : nodes[m].code = nodes[n].code => m = n
  /\ indicator.node # 0 => IsMade(indicator.node, nodes)
  /\ \A w \in Worker : OnPlan(req[w], nodes, plan)

PlanAssumptions ==
  /\ Nobody \notin User /\ Manager \subseteq User
  /\ MaxNode \in Nat \ {0} /\ NodeType \subseteq ItemTypes

LEMMA TreesAreApart ==
  Types(RESULT_TYPES) = ResultTypes /\ Types(DELIVERY_TYPES) = DeliveryTypes
BY DEF Types, RESULT_TYPES, DELIVERY_TYPES, ResultTypes, DeliveryTypes

LEMMA PlanAssumptionsHold == PlanAssumptions
BY RolesAssumption, PlansAssumption, NodeTypeAssumption, TreesAreApart DEF PlanAssumptions, ItemTypes

(* The trees, by type.                                                     *)
LEMMA TreeOfType ==
  ASSUME NEW type \in ItemTypes
  PROVE  /\ type \in ResultTypes => TreeOf(type) = RESULT_TYPES
         /\ type \in DeliveryTypes => TreeOf(type) = DELIVERY_TYPES
         /\ type \in Types(TreeOf(type))
         /\ Depth(type) \in 1..4
<1>1. /\ type \in ResultTypes => TreeOf(type) = RESULT_TYPES
      /\ type \in DeliveryTypes => TreeOf(type) = DELIVERY_TYPES
  BY TreesAreApart DEF TreeOf, ResultTypes, DeliveryTypes, ItemTypes
<1>2. type \in Types(TreeOf(type))
  BY <1>1, TreesAreApart DEF ItemTypes
<1>3. \E i \in 1..4 : TreeOf(type)[i] = type
  BY <1>1 DEF ItemTypes, ResultTypes, DeliveryTypes, RESULT_TYPES, DELIVERY_TYPES
<1>4. Depth(type) \in 1..4
  BY <1>3 DEF Depth
<1> QED
  BY <1>1, <1>2, <1>4

LEMMA SameTree ==
  ASSUME NEW type \in ItemTypes, NEW above \in Types(TreeOf(type))
  PROVE  above \in ItemTypes /\ TreeOf(above) = TreeOf(type)
BY TreeOfType, TreesAreApart DEF ItemTypes

(* What is above an item: closed under "parent of", and no more than that. *)
LEMMA AboveIsClosed ==
  ASSUME PlanAssumptions, nodes \in [1..MaxNode -> NodeRow], NEW n \in 1..MaxNode
  PROVE  /\ n \in Above(n) /\ Parents(Above(n)) \subseteq Above(n) /\ Above(n) \subseteq 1..MaxNode
         /\ \A C \in SUBSET (1..MaxNode) : n \in C /\ Parents(C) \subseteq C => Above(n) \subseteq C
<1> DEFINE D == 1..MaxNode
           P == [S \in SUBSET D |-> Parents(S)]
<1>0. MaxNode \in Nat
  BY DEF PlanAssumptions
<1>1. \A S \in SUBSET D : Parents(S) \in SUBSET D
  BY DEF Parents, NodeRow
<1>2. StepOn(P, D)
  BY <1>1 DEF StepOn
<1>3. PICK g : Reaches(g, P, D, n, MaxNode)
  BY <1>0, <1>2, ReachedExists
<1>4. g = [k \in 0..MaxNode |-> IF k = 0 THEN {n} ELSE g[k - 1] \cup Parents(g[k - 1])]
  <2>1. ASSUME NEW k \in 0..MaxNode
        PROVE  g[k] = IF k = 0 THEN {n} ELSE g[k - 1] \cup Parents(g[k - 1])
    <3>1. CASE k = 0
      BY <1>3, <3>1 DEF Reaches
    <3>2. CASE k # 0
      <4>1. k \in 1..MaxNode /\ k - 1 \in 0..MaxNode
        BY <1>0, <3>2
      <4>2. g[k - 1] \in SUBSET D
        BY <1>3, <4>1 DEF Reaches
      <4> QED
        BY <1>3, <3>2, <4>1, <4>2 DEF Reaches
    <3> QED
      BY <3>1, <3>2
  <2> QED
    BY <1>3, <2>1 DEF Reaches
<1>5. PICK up : /\ up = [k \in 0..MaxNode |-> IF k = 0 THEN {n} ELSE up[k - 1] \cup Parents(up[k - 1])]
                /\ Above(n) = up[MaxNode]
  BY <1>4 DEF Above
<1>6. /\ \A k \in 0..MaxNode : up[k] = IF k = 0 THEN {n} ELSE up[k - 1] \cup Parents(up[k - 1])
      /\ up[0] = {n}
  <2>1. 0 \in 0..MaxNode
    BY <1>0
  <2> QED
    BY <1>5, <2>1
<1>7. \A k \in 0..MaxNode : up[k] \in SUBSET D
  <2> DEFINE G == {k \in Nat : k \in 0..MaxNode => up[k] \in SUBSET D}
  <2>1. 0 \in G
    BY <1>6
  <2>2. ASSUME NEW k \in Nat, k \in G PROVE k + 1 \in G
    <3> SUFFICES ASSUME k + 1 \in 0..MaxNode PROVE up[k + 1] \in SUBSET D
      OBVIOUS
    <3>1. k \in 0..MaxNode /\ k + 1 # 0 /\ (k + 1) - 1 = k
      BY <1>0
    <3>2. up[k] \in SUBSET D
      BY <2>2, <3>1
    <3>3. up[k + 1] = up[k] \cup Parents(up[k])
      BY <1>6, <3>1
    <3> QED
      BY <1>1, <3>2, <3>3
  <2> HIDE DEF G
  <2>3. Nat \subseteq G
    BY <2>1, <2>2, NumberInduction
  <2> QED
    BY <1>0, <2>3 DEF G
<1>8. Reaches(up, P, D, n, MaxNode)
  <2>1. ASSUME NEW k \in 1..MaxNode PROVE up[k] = up[k - 1] \cup P[up[k - 1]]
    <3>1. k \in 0..MaxNode /\ k # 0 /\ k - 1 \in 0..MaxNode
      BY <1>0
    <3>2. up[k - 1] \in SUBSET D
      BY <1>7, <3>1
    <3> QED
      BY <1>6, <3>1, <3>2
  <2> QED
    BY <1>5, <1>6, <1>7, <2>1 DEF Reaches
<1>9. IsFiniteSet(D) /\ Cardinality(D) <= MaxNode
  BY <1>0, FS_Interval
<1>10. P[up[MaxNode]] \subseteq up[MaxNode] /\ n \in up[MaxNode] /\ up[MaxNode] \subseteq D
  <2> HIDE DEF P, D
  <2> QED
    BY <1>0, <1>2, <1>8, <1>9, ReachedIsClosed DEF D
<1>11. Parents(up[MaxNode]) = P[up[MaxNode]]
  BY <1>10
<1>12. ASSUME NEW C \in SUBSET D, n \in C, Parents(C) \subseteq C
       PROVE  up[MaxNode] \subseteq C
  <2>1. ClosedUnder(C, P)
    BY <1>12 DEF Parents, ClosedUnder
  <2>2. n \in D
    OBVIOUS
  <2> HIDE DEF P, D
  <2> QED
    BY <1>0, <1>8, <1>12, <2>1, <2>2, ReachedIsLeast
<1>13. \A C \in SUBSET D : n \in C /\ Parents(C) \subseteq C => Above(n) \subseteq C
  BY <1>5, <1>12
<1>14. n \in Above(n) /\ Parents(Above(n)) \subseteq Above(n) /\ Above(n) \subseteq D
  <2> HIDE DEF P, D
  <2>1. Above(n) = up[MaxNode]
    BY <1>5
  <2>2. Parents(Above(n)) = P[up[MaxNode]]
    BY <1>11, <2>1
  <2> QED
    BY <1>10, <2>1, <2>2
<1> QED
  BY <1>13, <1>14

(* Items keep their type and code.                                         *)
NodesStay(table, table2) ==
  \A n \in 1..MaxNode :
    table[n].type # "none" => table2[n].type = table[n].type /\ table2[n].code = table[n].code
PlanStays(row, row2) == row.status # "absent" => row2.status # "absent"

LEMMA HangsFromAnItem ==
  ASSUME NEW row \in NodeRow, NEW table, row.parent # 0, Hangs(row, table)
  PROVE  row.parent \in 1..MaxNode /\ table[row.parent].type \in ItemTypes
<1>1. Types(TreeOf(row.type)) \subseteq ItemTypes
  BY TreesAreApart DEF TreeOf, ItemTypes
<1> QED
  BY <1>1 DEF Hangs, NodeRow

LEMMA HangsStays ==
  ASSUME NEW row \in NodeRow, NEW table, NEW table2, Hangs(row, table), NodesStay(table, table2)
  PROVE  Hangs(row, table2)
<1> SUFFICES ASSUME row.parent # 0 PROVE Hangs(row, table2)
  BY DEF Hangs
<1>1. row.parent \in 1..MaxNode /\ table[row.parent].type # "none"
  BY HangsFromAnItem DEF ItemTypes, ResultTypes, DeliveryTypes
<1>2. table2[row.parent].type = table[row.parent].type
  BY <1>1 DEF NodesStay
<1> QED
  BY <1>2 DEF Hangs

LEMMA OnPlanStays ==
  ASSUME NEW q, NEW table, NEW table2, NEW row, NEW row2, OnPlan(q, table, row),
         NodesStay(table, table2), PlanStays(row, row2)
  PROVE  OnPlan(q, table2, row2)
<1>1. NewNodeUnderway(q, table2, row2)
  BY HangsStays DEF OnPlan, NewNodeUnderway, PlanStays
<1>2. NodeUnderway(q, table2)
  <2> SUFFICES ASSUME q.step = "node" PROVE NodeUnderway(q, table2)
    BY DEF NodeUnderway
  <2>1. Hangs(q.new, table2)
    BY HangsStays DEF OnPlan, NodeUnderway
  <2> QED
    BY <2>1 DEF OnPlan, NodeUnderway, NodesStay, IsMade
<1>3. IndicatorUnderway(q, table2)
  BY DEF OnPlan, IndicatorUnderway, NodesStay, IsMade
<1>4. PlanUnderway(q, row2)
  BY DEF OnPlan, PlanUnderway, PlanStays
<1> QED
  BY <1>1, <1>2, <1>3, <1>4 DEF OnPlan

(* Requests that do not touch the plan.                                    *)
LEMMA OffPlan ==
  ASSUME NEW q, NEW table, NEW row, q.step \notin {"new_node", "node", "indicator", "plan"}
  PROVE  OnPlan(q, table, row)
BY DEF OnPlan, NewNodeUnderway, NodeUnderway, IndicatorUnderway, PlanUnderway

LEMMA IdleIsOffPlan == ASSUME NEW table, NEW row PROVE OnPlan(Idle, table, row)
BY OffPlan DEF Idle

LEMMA OnPlanRequestsStay ==
  ASSUME TreesInvariant, NEW w \in Worker, NEW r, req' = [req EXCEPT ![w] = r],
         NodesStay(nodes, nodes'), PlanStays(plan, plan'), OnPlan(r, nodes', plan')
  PROVE  DOMAIN req' = Worker /\ \A v \in Worker : OnPlan(req'[v], nodes', plan')
<1>1. DOMAIN req' = Worker
  BY DEF TreesInvariant
<1>2. ASSUME NEW v \in Worker PROVE OnPlan(req'[v], nodes', plan')
  <2>1. CASE v = w
    BY <2>1 DEF TreesInvariant
  <2>2. CASE v # w
    <3>1. req'[v] = req[v]
      BY <2>2
    <3>2. OnPlan(req[v], nodes, plan)
      BY DEF TreesInvariant
    <3> QED
      BY <3>1, <3>2, OnPlanStays
  <2> QED
    BY <2>1, <2>2
<1> QED
  BY <1>1, <1>2

(* A step that leaves the plan and its items alone.                        *)
LEMMA LoadLeavesTrees ==
  ASSUME TreesInvariant, NEW w \in Worker, NEW r, req' = [req EXCEPT ![w] = r],
         UNCHANGED <<plan, levels, nodes, indicator>>, OnPlan(r, nodes, plan)
  PROVE  TreesInvariant'
<1>1. NodesStay(nodes, nodes') /\ PlanStays(plan, plan') /\ OnPlan(r, nodes', plan')
  BY DEF NodesStay, PlanStays
<1>2. DOMAIN req' = Worker /\ \A v \in Worker : OnPlan(req'[v], nodes', plan')
  BY <1>1, OnPlanRequestsStay
<1> QED
  BY <1>2 DEF TreesInvariant, MadeInOrder, Made, Hangs, IsMade

(* The columns of a row after a commit.                                    *)
LEMMA FlushedNode ==
  ASSUME NEW loaded \in NodeRow, NEW new \in NodeRow, NEW row \in NodeRow
  PROVE  /\ Flush(loaded, new, row) \in NodeRow
         /\ Flush(loaded, new, row).type = (IF new.type = loaded.type THEN row.type ELSE new.type)
         /\ Flush(loaded, new, row).code = (IF new.code = loaded.code THEN row.code ELSE new.code)
         /\ Flush(loaded, new, row).parent \in {new.parent, row.parent}
<1>1. Flush(loaded, new, row) =
        [type |-> IF new.type = loaded.type THEN row.type ELSE new.type,
         parent |-> IF new.parent = loaded.parent THEN row.parent ELSE new.parent,
         code |-> IF new.code = loaded.code THEN row.code ELSE new.code,
         unit |-> IF new.unit = loaded.unit THEN row.unit ELSE new.unit,
         retired |-> IF new.retired = loaded.retired THEN row.retired ELSE new.retired]
  BY DEF NodeRow, Flush
<1> QED
  BY <1>1 DEF NodeRow

LEMMA FlushedIndicator ==
  ASSUME NEW loaded \in IndicatorRow, NEW new \in IndicatorRow, NEW row \in IndicatorRow
  PROVE  /\ Flush(loaded, new, row) \in IndicatorRow
         /\ Flush(loaded, new, row).node \in {new.node, row.node}
<1>1. Flush(loaded, new, row) =
        [status |-> IF new.status = loaded.status THEN row.status ELSE new.status,
         node |-> IF new.node = loaded.node THEN row.node ELSE new.node,
         definition |-> IF new.definition = loaded.definition THEN row.definition ELSE new.definition,
         version |-> IF new.version = loaded.version THEN row.version ELSE new.version,
         target |-> IF new.target = loaded.target THEN row.target ELSE new.target]
  BY DEF IndicatorRow, Flush
<1> QED
  BY <1>1 DEF IndicatorRow

LEMMA FlushedPlan ==
  ASSUME NEW loaded \in PlanRow, NEW new \in PlanRow, NEW row \in PlanRow
  PROVE  /\ Flush(loaded, new, row) \in PlanRow
         /\ Flush(loaded, new, row).status \in {new.status, row.status}
<1>1. Flush(loaded, new, row) =
        [status |-> IF new.status = loaded.status THEN row.status ELSE new.status,
         approved_by |-> IF new.approved_by = loaded.approved_by THEN row.approved_by ELSE new.approved_by]
  BY DEF PlanRow, Flush
<1> QED
  BY <1>1 DEF PlanRow

(* Each step of the plan keeps its trees.                                  *)
LEMMA PlanFlow ==
  /\ DOMAIN PLAN_FLOW = {"activate", "archive", "reactivate"}
  /\ \A name \in DOMAIN PLAN_FLOW :
       /\ PLAN_FLOW[name].target \in {"active", "archived"}
       /\ "absent" \notin PLAN_FLOW[name].sources
BY DEF PLAN_FLOW, Transition, ReasonedTransition

LEMMA TreesInit == ASSUME PlanAssumptions, PlanningInit PROVE TreesInvariant
<1> USE DEF PlanningInit, PeopleInit, PlansInit, RequestsInit, PlanAssumptions
<1>1. NoNode \in NodeRow /\ NoIndicator \in IndicatorRow /\ NoPlan \in PlanRow
  BY DEF NoNode, NodeRow, NoIndicator, IndicatorRow, NoPlan, PlanRow
<1>2. DOMAIN req = Worker /\ \A w \in Worker : req[w].step \in {"idle", "off"}
  BY DEF Idle, Off
<1>3. \A w \in Worker : OnPlan(req[w], nodes, plan)
  BY <1>2, OffPlan
<1>4. nodes \in [1..MaxNode -> NodeRow] /\ Made = {} /\ MadeInOrder
  <2>1. nodes \in [1..MaxNode -> NodeRow]
    BY <1>1
  <2>2. Made = {}
    BY DEF Made, NoNode
  <2>3. Made = 1..0 /\ 0 \in 0..MaxNode
    BY <2>2
  <2> QED
    BY <2>1, <2>2, <2>3 DEF MadeInOrder
<1>5. indicator.node = 0
  BY DEF NoIndicator
<1> QED
  BY <1>1, <1>2, <1>3, <1>4, <1>5 DEF TreesInvariant

LEMMA CreatePlanKeeps ==
  ASSUME PlanAssumptions, TreesInvariant, NEW u \in User, CreatePlan(u)
  PROVE  TreesInvariant'
<1> USE DEF CreatePlan
<1>1. plan' \in PlanRow /\ plan'.status # "absent"
  BY DEF PlanRow
<1>2. NodesStay(nodes, nodes') /\ PlanStays(plan, plan')
  BY <1>1 DEF NodesStay, PlanStays
<1>3. \A v \in Worker : OnPlan(req[v], nodes', plan')
  BY <1>2, OnPlanStays DEF TreesInvariant
<1> QED
  BY <1>1, <1>3 DEF TreesInvariant, MadeInOrder, Made, Hangs, IsMade

LEMMA ImportTenantPlanKeeps ==
  ASSUME PlanAssumptions, TreesInvariant, NEW u \in User, NEW code \in Code, ImportTenantPlan(u, code)
  PROVE  TreesInvariant'
<1> USE DEF ImportTenantPlan
<1> DEFINE row == [type |-> "pillar", parent |-> 0, code |-> code, unit |-> "org", retired |-> FALSE]
<1>1. plan' \in PlanRow /\ plan'.status # "absent"
  BY DEF PlanRow
<1>2. Made = {} /\ 1 \in 1..MaxNode
  BY DEF TreesInvariant, PlanAssumptions
<1>3. row \in NodeRow /\ row.type # "none" /\ row.parent = 0
  BY DEF NodeRow, ItemTypes, ResultTypes, PlanAssumptions
<1> HIDE DEF row
<1>4. /\ nodes' \in [1..MaxNode -> NodeRow] /\ nodes'[1] = row
      /\ \A n \in 1..MaxNode : n # 1 => nodes'[n] = nodes[n]
  <2>1. nodes' = [nodes EXCEPT ![1] = row]
    BY DEF row
  <2>2. nodes \in [1..MaxNode -> NodeRow]
    BY DEF TreesInvariant
  <2>3. DOMAIN nodes' = 1..MaxNode
    BY <2>1, <2>2
  <2>4. nodes'[1] = row /\ \A n \in 1..MaxNode : n # 1 => nodes'[n] = nodes[n]
    BY <1>2, <2>1, <2>2
  <2>5. \A n \in 1..MaxNode : nodes'[n] \in NodeRow
    BY <1>3, <2>2, <2>4
  <2>6. nodes' = [n \in 1..MaxNode |-> nodes'[n]]
    BY <2>1, <2>2, <2>3
  <2> QED
    BY <2>4, <2>5, <2>6
<1>5. \A n \in 1..MaxNode : nodes[n].type = "none"
  BY <1>2 DEF Made, TreesInvariant
<1>6. Made' = 1..1
  BY <1>3, <1>4, <1>5 DEF Made, PlanAssumptions
<1>7. NodesStay(nodes, nodes') /\ PlanStays(plan, plan')
  BY <1>1, <1>5 DEF NodesStay, PlanStays
<1>8. \A v \in Worker : OnPlan(req[v], nodes', plan')
  BY <1>7, OnPlanStays DEF TreesInvariant
<1>9. MadeInOrder'
  BY <1>2, <1>6 DEF MadeInOrder, PlanAssumptions
<1>10. indicator' \in IndicatorRow /\ indicator'.node = 1 /\ IsMade(indicator'.node, nodes')
  BY <1>2, <1>3, <1>4 DEF IndicatorRow, IsMade, PlanAssumptions
<1>11. \A n \in Made' : n = 1 /\ Hangs(nodes'[n], nodes')
  BY <1>3, <1>4, <1>6 DEF Hangs
<1> QED
  BY <1>1, <1>4, <1>8, <1>9, <1>10, <1>11 DEF TreesInvariant

LEMMA TransitionPlanKeeps ==
  ASSUME PlanAssumptions, TreesInvariant, NEW w \in Worker, NEW u \in User,
         NEW name \in DOMAIN PLAN_FLOW, TransitionPlan(w, u, name)
  PROVE  TreesInvariant'
<1> DEFINE new == [status |-> TargetOf(PLAN_FLOW, name),
                   approved_by |-> IF name = "activate" THEN u ELSE plan.approved_by]
           r == [step |-> "plan", loaded |-> plan, new |-> new]
<1>1. plan.status # "absent" /\ TargetOf(PLAN_FLOW, name) \in {"active", "archived"}
  BY PlanFlow DEF TransitionPlan, Permits, TargetOf
<1>2. new \in PlanRow /\ new.status # "absent"
  BY <1>1 DEF PlanRow, TreesInvariant
<1>3. req' = [req EXCEPT ![w] = r] /\ UNCHANGED <<plan, levels, nodes, indicator>>
  BY DEF TransitionPlan, Begin
<1> HIDE DEF new
<1>4. OnPlan(r, nodes, plan)
  BY <1>1, <1>2 DEF OnPlan, NewNodeUnderway, NodeUnderway, IndicatorUnderway, PlanUnderway, TreesInvariant
<1> QED
  BY <1>3, <1>4, LoadLeavesTrees

LEMMA CommitPlanKeeps ==
  ASSUME PlanAssumptions, TreesInvariant, NEW w \in Worker, CommitPlan(w)
  PROVE  TreesInvariant'
<1> DEFINE q == req[w]
<1>1. q.step = "plan" /\ PlanUnderway(q, plan) /\ plan \in PlanRow
  BY DEF CommitPlan, TreesInvariant, OnPlan
<1>2. plan' \in PlanRow /\ plan'.status # "absent" /\ plan.status # "absent"
  BY <1>1, FlushedPlan DEF CommitPlan, PlanUnderway
<1>3. NodesStay(nodes, nodes') /\ PlanStays(plan, plan')
  BY <1>2 DEF CommitPlan, NodesStay, PlanStays
<1>4. DOMAIN req' = Worker /\ \A v \in Worker : OnPlan(req'[v], nodes', plan')
  BY <1>3, IdleIsOffPlan, OnPlanRequestsStay DEF CommitPlan, Finish
<1> QED
  BY <1>2, <1>4 DEF CommitPlan, TreesInvariant, MadeInOrder, Made, Hangs, IsMade

LEMMA LevelsKeep ==
  ASSUME PlanAssumptions, TreesInvariant, NEW w \in Worker,
         \/ \E u \in User, type \in NodeType : SetLevel(w, u, type)
         \/ CommitLevel(w)
  PROVE  TreesInvariant'
<1>1. ASSUME NEW u \in User, NEW type \in NodeType, SetLevel(w, u, type) PROVE TreesInvariant'
  <2> DEFINE r == [step |-> "level", type |-> type, on |-> type \notin levels]
  <2>1. req' = [req EXCEPT ![w] = r] /\ UNCHANGED <<plan, levels, nodes, indicator>>
    BY <1>1 DEF SetLevel, Begin
  <2>2. OnPlan(r, nodes, plan) 
    BY OffPlan
  <2> HIDE DEF r
  <2> QED
    BY <2>1, <2>2, LoadLeavesTrees
<1>2. CASE CommitLevel(w)
  <2>1. NodesStay(nodes, nodes') /\ PlanStays(plan, plan') /\ req' = [req EXCEPT ![w] = Idle]
    BY <1>2 DEF CommitLevel, NodesStay, PlanStays, Finish
  <2>2. DOMAIN req' = Worker /\ \A v \in Worker : OnPlan(req'[v], nodes', plan')
    BY <2>1, IdleIsOffPlan, OnPlanRequestsStay
  <2> QED
    BY <1>2, <2>2 DEF CommitLevel, TreesInvariant, MadeInOrder, Made, Hangs, IsMade
<1> QED
  BY <1>1, <1>2

LEMMA CreateNodeKeeps ==
  ASSUME PlanAssumptions, TreesInvariant, NEW w \in Worker, NEW u \in User,
         NEW type \in NodeType, NEW parent \in Made \cup {0}, NEW code \in Code, NEW unit \in Unit,
         CreateNode(w, u, [type |-> type, parent |-> parent, code |-> code, unit |-> unit, retired |-> FALSE])
  PROVE  TreesInvariant'
<1> DEFINE row == [type |-> type, parent |-> parent, code |-> code, unit |-> unit, retired |-> FALSE]
           r == [step |-> "new_node", row |-> row]
<1>1. parent \in 0..MaxNode
  BY DEF Made, TreesInvariant, PlanAssumptions
<1>2. row \in NodeRow /\ row.type # "none" /\ row.parent = parent /\ row.type = type
  BY <1>1 DEF NodeRow, PlanAssumptions, ItemTypes, ResultTypes, DeliveryTypes
<1> HIDE DEF row
<1>3. CreateNode(w, u, row)
  BY DEF row
<1>4. Hangs(row, nodes)
  BY <1>2, <1>3 DEF CreateNode, GoodParent, Hangs
<1>5. req' = [req EXCEPT ![w] = r] /\ UNCHANGED <<plan, levels, nodes, indicator>>
  BY <1>3 DEF CreateNode, Begin
<1>6. OnPlan(r, nodes, plan)
  BY <1>2, <1>3, <1>4
     DEF CreateNode, PlanOpenToChange, OnPlan, NewNodeUnderway, NodeUnderway, IndicatorUnderway, PlanUnderway
<1> QED
  BY <1>5, <1>6, LoadLeavesTrees

LEMMA MadeIsCounted ==
  ASSUME PlanAssumptions, TreesInvariant
  PROVE  /\ Cardinality(Made) \in 0..MaxNode
         /\ Made = 1..Cardinality(Made)
         /\ \A n \in 1..MaxNode : n \in Made <=> nodes[n].type # "none"
<1>1. PICK n \in 0..MaxNode : Made = 1..n
  BY DEF TreesInvariant, MadeInOrder
<1>2. Cardinality(Made) = n
  BY <1>1, FS_Interval
<1> QED
  BY <1>1, <1>2 DEF Made, TreesInvariant

LEMMA CommitNewNodeKeeps ==
  ASSUME PlanAssumptions, TreesInvariant, NEW w \in Worker, CommitNewNode(w)
  PROVE  TreesInvariant'
<1> DEFINE q == req[w]
           taken == \E n \in Made : nodes[n].code = q.row.code
           next == Cardinality(Made) + 1
<1>1. /\ q.row \in NodeRow /\ q.row.type # "none" /\ Hangs(q.row, nodes) /\ plan.status # "absent"
      /\ req' = [req EXCEPT ![w] = Idle] /\ UNCHANGED <<plan, levels, indicator>>
  BY DEF CommitNewNode, TreesInvariant, OnPlan, NewNodeUnderway, Finish
<1>2. CASE taken
  <2>1. nodes' = nodes
    BY <1>2 DEF CommitNewNode
  <2> QED
    BY <1>1, <2>1, IdleIsOffPlan, LoadLeavesTrees
<1>3. CASE ~taken
  <2>1. Cardinality(Made) < MaxNode /\ nodes' = [nodes EXCEPT ![next] = q.row]
    BY <1>3 DEF CommitNewNode
  <2>2. next \in 1..MaxNode /\ next \notin Made /\ Made = 1..(next - 1)
    BY <2>1, MadeIsCounted DEF PlanAssumptions
  <2> HIDE DEF next
  <2>3. /\ nodes' \in [1..MaxNode -> NodeRow] /\ nodes'[next] = q.row
        /\ \A n \in 1..MaxNode : n # next => nodes'[n] = nodes[n]
    BY <1>1, <2>1, <2>2 DEF TreesInvariant
  <2>4. \A n \in 1..MaxNode : n \in Made <=> nodes[n].type # "none"
    BY MadeIsCounted
  <2>5. NodesStay(nodes, nodes') /\ PlanStays(plan, plan')
    BY <1>1, <2>2, <2>3, <2>4 DEF NodesStay, PlanStays
  <2>6. DOMAIN req' = Worker /\ \A v \in Worker : OnPlan(req'[v], nodes', plan')
    BY <1>1, <2>5, IdleIsOffPlan, OnPlanRequestsStay
  <2>7. Made' = Made \cup {next}
    <3>1. DOMAIN nodes = 1..MaxNode /\ DOMAIN nodes' = 1..MaxNode
      BY <2>3 DEF TreesInvariant
    <3>2. \A n \in 1..MaxNode : nodes'[n].type # "none" <=> n \in Made \/ n = next
      BY <1>1, <2>2, <2>3, <2>4
    <3>3. Made' = {n \in 1..MaxNode : nodes'[n].type # "none"} /\ Made \subseteq 1..MaxNode
      BY <3>1 DEF Made
    <3> HIDE DEF Made
    <3> QED
      BY <2>2, <3>2, <3>3
  <2>8. MadeInOrder'
    <3>1. Made' = 1..next /\ next \in 0..MaxNode
      BY <2>2, <2>7 DEF PlanAssumptions
    <3> QED
      BY <3>1 DEF MadeInOrder
  <2>9. ASSUME NEW n \in Made' PROVE Hangs(nodes'[n], nodes')
    <3>1. Hangs(nodes'[n], nodes) /\ nodes'[n] \in NodeRow
      BY <1>1, <2>2, <2>3, <2>7, <2>9 DEF TreesInvariant, Made
    <3> QED
      BY <2>5, <3>1, HangsStays
  <2>10. ASSUME NEW m \in Made', NEW n \in Made', nodes'[m].code = nodes'[n].code PROVE m = n
    <3>1. \A k \in Made : k \in 1..MaxNode /\ k # next
      BY <2>2, <2>4 DEF Made, TreesInvariant
    <3>2. \A k \in Made : nodes'[k] = nodes[k] /\ nodes[k].code # nodes'[next].code
      BY <1>3, <2>3, <3>1
    <3> QED
      BY <2>7, <2>10, <3>2 DEF TreesInvariant
  <2>11. indicator'.node # 0 => IsMade(indicator'.node, nodes')
    BY <1>1, <2>5 DEF TreesInvariant, IsMade, NodesStay
  <2> QED
    BY <1>1, <2>3, <2>6, <2>8, <2>9, <2>10, <2>11 DEF TreesInvariant
<1> QED
  BY <1>2, <1>3

LEMMA UpdateNodeKeeps ==
  ASSUME PlanAssumptions, TreesInvariant, NEW w \in Worker, NEW u \in User, NEW n \in Made, NEW new \in NodeRow,
         new.type = nodes[n].type, new.code = nodes[n].code, UpdateNode(w, u, n, new)
  PROVE  TreesInvariant'
<1> DEFINE r == [step |-> "node", id |-> n, loaded |-> nodes[n], new |-> new]
<1>1. nodes[n] \in NodeRow /\ IsMade(n, nodes) /\ Hangs(nodes[n], nodes)
  BY DEF TreesInvariant, Made, IsMade
<1>2. Hangs(new, nodes)
  <2>1. CASE new.parent = nodes[n].parent
    BY <1>1, <2>1 DEF Hangs
  <2>2. CASE new.parent # nodes[n].parent
    BY <2>2 DEF UpdateNode, GoodParent, Hangs
  <2> QED
    BY <2>1, <2>2
<1>3. req' = [req EXCEPT ![w] = r] /\ UNCHANGED <<plan, levels, nodes, indicator>>
  BY DEF UpdateNode, Begin
<1>4. OnPlan(r, nodes, plan)
  BY <1>1, <1>2 DEF OnPlan, NewNodeUnderway, NodeUnderway, IndicatorUnderway, PlanUnderway
<1> QED
  BY <1>3, <1>4, LoadLeavesTrees

LEMMA UpdatesKeep ==
  ASSUME PlanAssumptions, TreesInvariant, NEW w \in Worker, NEW u \in User, NEW n \in Made,
         \/ \E parent \in Made \cup {0} : UpdateNode(w, u, n, [nodes[n] EXCEPT !.parent = parent])
         \/ UpdateNode(w, u, n, [nodes[n] EXCEPT !.retired = ~@])
  PROVE  TreesInvariant'
<1>1. nodes[n] \in NodeRow
  BY DEF TreesInvariant, Made
<1>2. ASSUME NEW parent \in Made \cup {0}, UpdateNode(w, u, n, [nodes[n] EXCEPT !.parent = parent])
      PROVE  TreesInvariant'
  <2> DEFINE new == [nodes[n] EXCEPT !.parent = parent]
  <2>1. parent \in 0..MaxNode
    BY DEF Made, TreesInvariant, PlanAssumptions
  <2>2. new \in NodeRow /\ new.type = nodes[n].type /\ new.code = nodes[n].code
    BY <1>1, <2>1 DEF NodeRow
  <2>3. UpdateNode(w, u, n, new)
    BY <1>2
  <2> HIDE DEF new
  <2> QED
    BY <2>2, <2>3, UpdateNodeKeeps
<1>3. CASE UpdateNode(w, u, n, [nodes[n] EXCEPT !.retired = ~@])
  <2> DEFINE new == [nodes[n] EXCEPT !.retired = ~@]
  <2>2. new \in NodeRow /\ new.type = nodes[n].type /\ new.code = nodes[n].code
    BY <1>1 DEF NodeRow
  <2>3. UpdateNode(w, u, n, new)
    BY <1>3
  <2> HIDE DEF new
  <2> QED
    BY <2>2, <2>3, UpdateNodeKeeps
<1> QED
  BY <1>2, <1>3

LEMMA CommitNodeKeeps ==
  ASSUME PlanAssumptions, TreesInvariant, NEW w \in Worker, CommitNode(w)
  PROVE  TreesInvariant'
<1> DEFINE q == req[w]
           row == Flush(q.loaded, q.new, nodes[q.id])
<1>1. NodeUnderway(q, nodes) /\ q.step = "node"
  BY DEF CommitNode, TreesInvariant, OnPlan
<1>2. /\ q.id \in 1..MaxNode /\ nodes[q.id] \in NodeRow /\ nodes[q.id].type # "none"
      /\ q.loaded \in NodeRow /\ q.new \in NodeRow
      /\ q.loaded.type = nodes[q.id].type /\ q.new.type = nodes[q.id].type
      /\ q.loaded.code = nodes[q.id].code /\ q.new.code = nodes[q.id].code
      /\ Hangs(q.new, nodes) /\ Hangs(nodes[q.id], nodes)
  BY <1>1 DEF NodeUnderway, IsMade, TreesInvariant, Made
<1>3. /\ row \in NodeRow /\ row.type = nodes[q.id].type /\ row.code = nodes[q.id].code
      /\ row.parent \in {q.new.parent, nodes[q.id].parent}
  BY <1>2, FlushedNode
<1>4. Hangs(row, nodes)
  BY <1>2, <1>3 DEF Hangs
<1>5. /\ nodes' = [nodes EXCEPT ![q.id] = row] /\ req' = [req EXCEPT ![w] = Idle]
      /\ UNCHANGED <<plan, levels, indicator>>
  BY DEF CommitNode, Finish
<1> HIDE DEF row
<1>6. /\ nodes' \in [1..MaxNode -> NodeRow] /\ nodes'[q.id] = row
      /\ \A n \in 1..MaxNode : n # q.id => nodes'[n] = nodes[n]
  BY <1>2, <1>3, <1>5 DEF TreesInvariant
<1>7. \A n \in 1..MaxNode : nodes'[n].type = nodes[n].type /\ nodes'[n].code = nodes[n].code
  BY <1>3, <1>6
<1>8. NodesStay(nodes, nodes') /\ PlanStays(plan, plan')
  BY <1>5, <1>7 DEF NodesStay, PlanStays
<1>9. DOMAIN req' = Worker /\ \A v \in Worker : OnPlan(req'[v], nodes', plan')
  BY <1>5, <1>8, IdleIsOffPlan, OnPlanRequestsStay
<1>10. Made' = Made
  BY <1>6, <1>7 DEF Made, TreesInvariant
<1>11. ASSUME NEW n \in Made PROVE Hangs(nodes'[n], nodes')
  <2>1. n \in 1..MaxNode /\ Hangs(nodes'[n], nodes) /\ nodes'[n] \in NodeRow
    BY <1>4, <1>6 DEF TreesInvariant, Made
  <2> QED
    BY <1>8, <2>1, HangsStays
<1>12. \A n \in Made : nodes'[n].code = nodes[n].code
  BY <1>7 DEF Made, TreesInvariant
<1>13. indicator.node # 0 => IsMade(indicator.node, nodes')
  BY <1>7 DEF TreesInvariant, IsMade
<1>14. MadeInOrder'
  BY <1>10 DEF TreesInvariant, MadeInOrder
<1>15. \A m, n \in Made' : nodes'[m].code = nodes'[n].code => m = n
  BY <1>10, <1>12 DEF TreesInvariant
<1> QED
  BY <1>5, <1>6, <1>9, <1>10, <1>11, <1>13, <1>14, <1>15 DEF TreesInvariant

LEMMA CreateIndicatorKeeps ==
  ASSUME PlanAssumptions, TreesInvariant, NEW u \in User, NEW n \in Made \cup {0}, CreateIndicator(u, n)
  PROVE  TreesInvariant'
<1>1. n # 0 => IsMade(n, nodes)
  BY DEF Made, TreesInvariant, IsMade
<1>2. indicator' \in IndicatorRow /\ indicator'.node = n
  BY <1>1 DEF CreateIndicator, IndicatorRow, IsMade, PlanAssumptions
<1> QED
  BY <1>1, <1>2 DEF CreateIndicator, TreesInvariant, MadeInOrder, Made, Hangs, IsMade

LEMMA LoadIndicatorKeeps ==
  ASSUME PlanAssumptions, TreesInvariant, NEW w \in Worker, NEW u \in User, NEW new \in IndicatorRow,
         new.node # 0 => IsMade(new.node, nodes), LoadIndicator(w, u, new)
  PROVE  TreesInvariant'
<1> DEFINE r == [step |-> "indicator", loaded |-> indicator, new |-> new]
<1>1. req' = [req EXCEPT ![w] = r] /\ UNCHANGED <<plan, levels, nodes, indicator>>
  BY DEF LoadIndicator, Begin
<1>2. OnPlan(r, nodes, plan)
  BY DEF OnPlan, NewNodeUnderway, NodeUnderway, IndicatorUnderway, PlanUnderway, TreesInvariant
<1> QED
  BY <1>1, <1>2, LoadLeavesTrees

LEMMA IndicatorLoadsKeep ==
  ASSUME PlanAssumptions, TreesInvariant, NEW w \in Worker, NEW u \in User,
         \/ \E definition \in 1..2 : Redefine(w, u, definition)
         \/ \E n \in Made \cup {0}, status \in {"active", "retired"} : MoveOrRetireIndicator(w, u, n, status)
         \/ \E value \in 0..2 : SetTarget(w, u, value)
  PROVE  TreesInvariant'
<1>1. indicator \in IndicatorRow /\ (indicator.node # 0 => IsMade(indicator.node, nodes))
  BY DEF TreesInvariant
<1>2. ASSUME NEW definition \in 1..2, Redefine(w, u, definition) PROVE TreesInvariant'
  <2> DEFINE version == indicator.version + 1
             new == [indicator EXCEPT !.definition = definition, !.version = version]
  <2>a. version \in Int /\ definition \in Int
    BY <1>1 DEF IndicatorRow
  <2> HIDE DEF version
  <2>1. new \in IndicatorRow /\ new.node = indicator.node
    BY <1>1, <2>a DEF IndicatorRow
  <2>2. LoadIndicator(w, u, new)
    BY <1>2 DEF Redefine, version
  <2> HIDE DEF new
  <2> QED
    BY <1>1, <2>1, <2>2, LoadIndicatorKeeps
<1>3. ASSUME NEW n \in Made \cup {0}, NEW status \in {"active", "retired"},
             MoveOrRetireIndicator(w, u, n, status)
      PROVE  TreesInvariant'
  <2> DEFINE new == [indicator EXCEPT !.node = n, !.status = status]
  <2>1. n # 0 => IsMade(n, nodes)
    BY DEF Made, TreesInvariant, IsMade
  <2>2. n \in 0..MaxNode
    BY <2>1 DEF IsMade, PlanAssumptions
  <2>3. new \in IndicatorRow /\ new.node = n
    BY <1>1, <2>2 DEF IndicatorRow
  <2>4. LoadIndicator(w, u, new)
    BY <1>3 DEF MoveOrRetireIndicator
  <2> HIDE DEF new
  <2> QED
    BY <2>1, <2>3, <2>4, LoadIndicatorKeeps
<1>4. ASSUME NEW value \in 0..2, SetTarget(w, u, value) PROVE TreesInvariant'
  <2> DEFINE new == [indicator EXCEPT !.target = value]
  <2>1. new \in IndicatorRow /\ new.node = indicator.node
    BY <1>1 DEF IndicatorRow
  <2>2. LoadIndicator(w, u, new)
    BY <1>4 DEF SetTarget
  <2> HIDE DEF new
  <2> QED
    BY <1>1, <2>1, <2>2, LoadIndicatorKeeps
<1> QED
  BY <1>2, <1>3, <1>4

LEMMA CommitIndicatorKeeps ==
  ASSUME PlanAssumptions, TreesInvariant, NEW w \in Worker, CommitIndicator(w)
  PROVE  TreesInvariant'
<1> DEFINE q == req[w]
<1>1. IndicatorUnderway(q, nodes) /\ q.step = "indicator" /\ indicator \in IndicatorRow
  BY DEF CommitIndicator, TreesInvariant, OnPlan
<1>2. indicator' \in IndicatorRow /\ indicator'.node \in {q.new.node, indicator.node}
  BY <1>1, FlushedIndicator DEF CommitIndicator, IndicatorUnderway
<1>3. /\ req' = [req EXCEPT ![w] = Idle] /\ UNCHANGED <<plan, levels, nodes>>
      /\ NodesStay(nodes, nodes') /\ PlanStays(plan, plan')
  BY DEF CommitIndicator, Finish, NodesStay, PlanStays
<1>4. DOMAIN req' = Worker /\ \A v \in Worker : OnPlan(req'[v], nodes', plan')
  BY <1>3, IdleIsOffPlan, OnPlanRequestsStay
<1>5. indicator'.node # 0 => IsMade(indicator'.node, nodes)
  BY <1>1, <1>2 DEF IndicatorUnderway, TreesInvariant
<1> QED
  BY <1>2, <1>3, <1>4, <1>5 DEF TreesInvariant, MadeInOrder, Made, Hangs, IsMade

LEMMA PlansKeep == ASSUME PlanAssumptions, TreesInvariant, PlansNext PROVE TreesInvariant'
<1>1. ASSUME NEW u \in User,
             \/ CreatePlan(u)
             \/ \E code \in Code : ImportTenantPlan(u, code)
             \/ \E n \in Made \cup {0} : CreateIndicator(u, n)
      PROVE  TreesInvariant'
  BY <1>1, CreatePlanKeeps, ImportTenantPlanKeeps, CreateIndicatorKeeps
<1>2. ASSUME NEW w \in Waiting, NEW u \in User,
             \/ \E name \in DOMAIN PLAN_FLOW : TransitionPlan(w, u, name)
             \/ \E type \in NodeType : SetLevel(w, u, type)
      PROVE  TreesInvariant'
  BY <1>2, TransitionPlanKeeps, LevelsKeep DEF Waiting
<1>3. ASSUME NEW w \in Waiting, NEW u \in User, NEW type \in NodeType, NEW parent \in Made \cup {0},
             NEW code \in Code, NEW unit \in Unit,
             CreateNode(w, u, [type |-> type, parent |-> parent, code |-> code, unit |-> unit, retired |-> FALSE])
      PROVE  TreesInvariant'
  BY <1>3, CreateNodeKeeps DEF Waiting
<1>4. ASSUME NEW w \in Waiting, NEW u \in User, NEW n \in Made,
             \/ \E parent \in Made \cup {0} : UpdateNode(w, u, n, [nodes[n] EXCEPT !.parent = parent])
             \/ UpdateNode(w, u, n, [nodes[n] EXCEPT !.retired = ~@])
      PROVE  TreesInvariant'
  BY <1>4, UpdatesKeep DEF Waiting
<1>5. ASSUME NEW w \in Waiting, NEW u \in User,
             \/ \E definition \in 1..2 : Redefine(w, u, definition)
             \/ \E n \in Made \cup {0}, status \in {"active", "retired"} : MoveOrRetireIndicator(w, u, n, status)
             \/ \E value \in 0..2 : SetTarget(w, u, value)
      PROVE  TreesInvariant'
  BY <1>5, IndicatorLoadsKeep DEF Waiting
<1>6. ASSUME NEW w \in Worker,
             CommitPlan(w) \/ CommitLevel(w) \/ CommitNewNode(w) \/ CommitNode(w) \/ CommitIndicator(w)
      PROVE  TreesInvariant'
  BY <1>6, CommitPlanKeeps, LevelsKeep, CommitNewNodeKeeps, CommitNodeKeeps, CommitIndicatorKeeps
<1> QED
  BY <1>1, <1>2, <1>3, <1>4, <1>5, <1>6 DEF PlansNext

(* A request of people's records or of an evaluation is not about a plan.  *)
LEMMA PeopleRequests ==
  ASSUME DOMAIN req = Worker, PeopleNext
  PROVE  \/ UNCHANGED req
         \/ \E w \in Worker : TakesUp(w, {"idle", "policy", "contract", "appraisal"})
<1> DEFINE Takes(w) == TakesUp(w, {"idle", "policy", "contract", "appraisal"})
<1>1. ASSUME NEW s, TransitionScheme(s) PROVE UNCHANGED req
  BY <1>1 DEF TransitionScheme
<1>2. ASSUME NEW u, NEW h, NEW v, NEW weights, CreateContract(u, h, v, weights) PROVE UNCHANGED req
  BY <1>2 DEF CreateContract
<1>3. ASSUME NEW u, NEW e, NEW v, CreateAppraisal(u, e, v) PROVE UNCHANGED req
  BY <1>3 DEF CreateAppraisal
<1>4. ASSUME NEW w \in Worker, NEW u, NEW module, ConfirmPolicy(w, u, module) PROVE Takes(w)
  BY <1>4 DEF ConfirmPolicy, Begin, TakesUp
<1>5. ASSUME NEW w \in Worker, NEW u, NEW name, NEW new, TransitionContract(w, u, name, new) PROVE Takes(w)
  BY <1>5 DEF TransitionContract, Begin, TakesUp
<1>6. ASSUME NEW w \in Worker, NEW u, NEW name, NEW new, TransitionAppraisal(w, u, name, new) PROVE Takes(w)
  BY <1>6 DEF TransitionAppraisal, Begin, TakesUp
<1>7. ASSUME NEW w \in Worker, CommitPolicy(w) \/ CommitContract(w) \/ CommitAppraisal(w) PROVE Takes(w)
  BY <1>7 DEF CommitPolicy, CommitContract, CommitAppraisal, Finish, Idle, TakesUp
<1> HIDE DEF Takes
<1>8. ASSUME NEW w \in Worker, NEW u \in User,
             \/ \E name \in DOMAIN CONTRACT_FLOW : SignAcceptOrAppeal(w, u, name)
             \/ \E values \in Published : EvaluateContract(w, u, values)
             \/ DecideContract(w, u)
      PROVE  Takes(w)
  BY <1>5, <1>8 DEF SignAcceptOrAppeal, EvaluateContract, DecideContract
<1>9. ASSUME NEW w \in Worker, NEW u \in User,
             \/ \E name \in DOMAIN APPRAISAL_FLOW : AgreeAcknowledgeOrAppeal(w, u, name)
             \/ \E marks \in MarkSheets : SelfAssess(w, u, marks) \/ Appraise(w, u, marks)
             \/ \E name \in DOMAIN APPRAISAL_FLOW : DecideOrCorrect(w, u, name)
      PROVE  Takes(w)
  BY <1>6, <1>9 DEF AgreeAcknowledgeOrAppeal, SelfAssess, Appraise, DecideOrCorrect
<1>10. UNCHANGED req \/ \E w \in Worker : Takes(w)
  BY <1>1, <1>2, <1>3, <1>4, <1>7, <1>8, <1>9 DEF PeopleNext, Waiting
<1> QED
  BY <1>10 DEF Takes

LEMMA EvaluationRequests ==
  ASSUME DOMAIN req = Worker, EvaluationsNext
  PROVE  \/ UNCHANGED req
         \/ \E w \in Worker : TakesUp(w, {"idle", "evaluation", "evaluation_finding", "respond"})
<1> DEFINE Takes(w) == TakesUp(w, {"idle", "evaluation", "evaluation_finding", "respond"})
<1>1. ASSUME NEW u, CreateEvaluation(u) PROVE UNCHANGED req
  BY <1>1 DEF CreateEvaluation
<1>2. ASSUME NEW w \in Worker, NEW new, LoadEvaluation(w, new) PROVE Takes(w)
  BY <1>2 DEF LoadEvaluation, Begin, TakesUp
<1>3. ASSUME NEW w \in Worker, NEW u, AddFinding(w, u) PROVE Takes(w)
  BY <1>3 DEF AddFinding, Begin, TakesUp
<1>4. ASSUME NEW w \in Worker, NEW u, NEW r, NEW response, Respond(w, u, r, response) PROVE Takes(w)
  BY <1>4 DEF Respond, Begin, TakesUp
<1>5. ASSUME NEW w \in Worker, CommitEvaluation(w) \/ CommitEvaluationFinding(w) \/ CommitRespond(w) PROVE Takes(w)
  BY <1>5 DEF CommitEvaluation, CommitEvaluationFinding, CommitRespond, Finish, Idle, TakesUp
<1> HIDE DEF Takes
<1>6. UNCHANGED req \/ \E w \in Worker : Takes(w)
  BY <1>1, <1>2, <1>3, <1>4, <1>5 DEF EvaluationsNext, Waiting, UpdateEvaluation, TransitionEvaluation
<1> QED
  BY <1>6 DEF Takes

LEMMA OthersKeepTrees ==
  ASSUME TreesInvariant, UNCHANGED planVars,
         \/ UNCHANGED req
         \/ \E w \in Worker : /\ req' = [req EXCEPT ![w] = req'[w]]
                              /\ req'[w].step \notin {"new_node", "node", "indicator", "plan"}
  PROVE  TreesInvariant'
<1>1. UNCHANGED <<plan, levels, nodes, indicator>>
  BY DEF planVars
<1>2. CASE UNCHANGED req
  BY <1>1, <1>2 DEF TreesInvariant, MadeInOrder, Made, Hangs, IsMade
<1>3. ASSUME NEW w \in Worker, req' = [req EXCEPT ![w] = req'[w]],
             req'[w].step \notin {"new_node", "node", "indicator", "plan"}
      PROVE  TreesInvariant'
  BY <1>1, <1>3, OffPlan, LoadLeavesTrees
<1> QED
  BY <1>2, <1>3

LEMMA TreesStep ==
  ASSUME PlanAssumptions, TreesInvariant, [PlanningNext]_planningVars PROVE TreesInvariant'
<1>1. CASE PlansNext
  BY <1>1, PlansKeep
<1>2. CASE PeopleNext /\ UNCHANGED planVars
  BY <1>2, PeopleRequests, OthersKeepTrees DEF TreesInvariant, TakesUp
<1>3. CASE EvaluationsNext /\ UNCHANGED planVars
  BY <1>3, EvaluationRequests, OthersKeepTrees DEF TreesInvariant, TakesUp
<1>4. CASE UNCHANGED planningVars
  BY <1>4, OthersKeepTrees DEF planningVars
<1> QED
  BY <1>1, <1>2, <1>3, <1>4 DEF PlanningNext

(* However requests race, the items of a plan and what is in flight about  *)
(* them hang from higher items of their own tree.                          *)
THEOREM TreesInvariantHolds == PlanningSpec => []TreesInvariant
<1>1. PlanningInit => TreesInvariant
  BY TreesInit, PlanAssumptionsHold
<1>2. TreesInvariant /\ [PlanningNext]_planningVars => TreesInvariant'
  BY TreesStep, PlanAssumptionsHold
<1> QED
  BY <1>1, <1>2, PTL DEF PlanningSpec

(* A parent is higher up than its item.                                    *)
LEMMA ParentIsHigher ==
  ASSUME TreesInvariant, NEW n \in Made, nodes[n].parent # 0
  PROVE  /\ nodes[n].parent \in Made
         /\ TreeOf(nodes[nodes[n].parent].type) = TreeOf(nodes[n].type)
         /\ Depth(nodes[nodes[n].parent].type) < Depth(nodes[n].type)
         /\ Depth(nodes[n].type) \in 1..4 /\ Depth(nodes[nodes[n].parent].type) \in 1..4
<1> DEFINE p == nodes[n].parent
<1>1. nodes[n] \in NodeRow /\ nodes[n].type \in ItemTypes /\ Hangs(nodes[n], nodes)
  BY DEF TreesInvariant, Made, NodeRow
<1>2. /\ p \in 1..MaxNode /\ nodes[p].type \in ItemTypes
      /\ nodes[p].type \in Types(TreeOf(nodes[n].type)) /\ Depth(nodes[p].type) < Depth(nodes[n].type)
  BY <1>1, HangsFromAnItem DEF Hangs
<1>3. p \in Made
  BY <1>2 DEF Made, TreesInvariant, ItemTypes, ResultTypes, DeliveryTypes
<1> QED
  BY <1>1, <1>2, <1>3, SameTree, TreeOfType

(* Nothing is above itself: all that is above its parent is higher up.     *)
LEMMA NothingIsAboveItself ==
  ASSUME PlanAssumptions, TreesInvariant, NEW n \in Made, NEW p, p \in Parents({n})
  PROVE  n \notin Above(p)
<1>1. p = nodes[n].parent /\ nodes[n].parent # 0
  BY DEF Parents
<1>2. p \in Made /\ Depth(nodes[p].type) < Depth(nodes[n].type)
  BY <1>1, ParentIsHigher
<1> DEFINE C == {m \in Made : Depth(nodes[m].type) <= Depth(nodes[p].type)}
<1>3. p \in 1..MaxNode /\ C \in SUBSET (1..MaxNode) /\ nodes \in [1..MaxNode -> NodeRow]
  BY <1>2 DEF Made, TreesInvariant
<1>4. Depth(nodes[p].type) \in 1..4 /\ Depth(nodes[n].type) \in 1..4
  BY <1>1, <1>2, ParentIsHigher
<1>5. p \in C
  BY <1>2, <1>4
<1>6. Parents(C) \subseteq C
  <2> SUFFICES ASSUME NEW m \in C, nodes[m].parent # 0 PROVE nodes[m].parent \in C
    BY DEF Parents
  <2>1. /\ nodes[m].parent \in Made /\ Depth(nodes[nodes[m].parent].type) < Depth(nodes[m].type)
        /\ Depth(nodes[m].type) \in 1..4 /\ Depth(nodes[nodes[m].parent].type) \in 1..4
    BY ParentIsHigher
  <2>2. Depth(nodes[m].type) <= Depth(nodes[p].type)
    OBVIOUS
  <2> QED
    BY <1>4, <2>1, <2>2
<1>7. n \notin C
  BY <1>2, <1>4
<1> HIDE DEF C
<1>8. Above(p) \subseteq C
  BY <1>3, <1>5, <1>6, AboveIsClosed
<1> QED
  BY <1>7, <1>8

(* A reader's view has everything above what is in it.                     *)
LEMMA ViewIsClosed ==
  ASSUME PlanAssumptions, TreesInvariant, NEW units \in SUBSET Unit
  PROVE  Parents(Visible(units) \cup Context(units)) \subseteq Visible(units) \cup Context(units)
<1> DEFINE V == Visible(units)
<1>1. V \subseteq 1..MaxNode /\ nodes \in [1..MaxNode -> NodeRow]
  BY DEF Visible, Made, TreesInvariant, IsMade
<1>2. \A n \in V : n \in Above(n) /\ Parents(Above(n)) \subseteq Above(n)
  BY <1>1, AboveIsClosed
<1>3. V \cup Context(units) = UNION {Above(n) : n \in V}
  BY <1>2 DEF Context
<1> HIDE DEF V
<1> SUFFICES ASSUME NEW m \in UNION {Above(n) : n \in V}, nodes[m].parent # 0
             PROVE  nodes[m].parent \in UNION {Above(n) : n \in V}
  BY <1>3 DEF Parents, V
<1>4. PICK n \in V : m \in Above(n)
  OBVIOUS
<1>5. nodes[m].parent \in Above(n)
  BY <1>2, <1>4 DEF Parents
<1> QED
  BY <1>4, <1>5

(* However re-parentings race, the items of a plan form trees without a    *)
(* loop, their codes are unique, and a reader of any units sees everything *)
(* above what is visible (_check_parent, plan_detail: service.py:243, 1072).*)
THEOREM NodesAlwaysFormTrees == PlanningSpec => []NodesFormTrees
<1>1. TreesInvariant => NodesFormTrees
  <2> SUFFICES ASSUME TreesInvariant PROVE NodesFormTrees
    OBVIOUS
  <2>1. PlanAssumptions
    BY PlanAssumptionsHold
  <2>2. ASSUME NEW n \in Made
        PROVE  /\ n \notin UNION {Above(p) : p \in Parents({n})}
               /\ \A p \in Parents({n}) : p \in Made /\ TreeOf(nodes[p].type) = TreeOf(nodes[n].type)
               /\ \A m \in Made : m # n => nodes[m].code # nodes[n].code
    <3>1. n \notin UNION {Above(p) : p \in Parents({n})}
      BY <2>1, NothingIsAboveItself
    <3>2. \A p \in Parents({n}) : p \in Made /\ TreeOf(nodes[p].type) = TreeOf(nodes[n].type)
      BY ParentIsHigher DEF Parents
    <3>3. \A m \in Made : m # n => nodes[m].code # nodes[n].code
      BY DEF TreesInvariant
    <3> QED
      BY <3>1, <3>2, <3>3
  <2> QED
    BY <2>1, <2>2, ViewIsClosed DEF NodesFormTrees
<1> QED
  BY <1>1, TreesInvariantHolds, PTL

-----------------------------------------------------------------------------
(* Evaluations.  A response that was accepted took the number of an action *)
(* that was raised with it; no two responses took the same.                *)
EvaluationRow == [status : {"absent", "planned", "in_progress", "completed"}, summary : BOOLEAN]
ResponseRow == [response : {"none", "accepted", "rejected"}, action : 0..MaxAction]

OnEvaluation(q, table) ==
  /\ q.step = "evaluation" => q.loaded \in EvaluationRow /\ q.new \in EvaluationRow
  /\ q.step = "respond" => q.id \in DOMAIN table /\ q.response \in {"accepted", "rejected"}

AnsweredInvariant ==
  /\ DOMAIN req = Worker
  /\ evaluation \in EvaluationRow /\ responses \in Seq(ResponseRow)
  /\ DOMAIN actions = 1..MaxAction /\ RaisedInOrder
  /\ \A a \in Raised : actions[a].source = "management_response"
  /\ \A r \in DOMAIN responses :
       /\ responses[r].response = "accepted" => responses[r].action # 0
       /\ responses[r].action # 0 => responses[r].action \in Raised
       /\ \A s \in DOMAIN responses :
            responses[s].action = responses[r].action => s = r \/ responses[r].action = 0
  /\ \A w \in Worker : OnEvaluation(req[w], responses)

(* Served one after the other, a request finds the evaluation as it loaded *)
(* it, and every action has the one response that raised it.               *)
EvaluationServed(q, row, table) ==
  /\ q.step = "evaluation" =>
       /\ q.loaded = row
       /\ q.new.status = "completed" =>
            q.new.summary /\ \A r \in DOMAIN table : table[r].response # "none"
  /\ q.step = "evaluation_finding" => row.status # "completed"
  /\ q.step = "respond" => table[q.id] = [response |-> "none", action |-> 0]

Accepted == {r \in DOMAIN responses : responses[r].response = "accepted"}

EvaluationIsSound ==
  /\ \A r \in DOMAIN responses : responses[r].response # "accepted" => responses[r].action = 0
  /\ Cardinality(Raised) = Cardinality(Accepted)
  /\ evaluation.status = "completed" => evaluation.summary /\ Unanswered = {}

AnsweredOnce ==
  Serial => EvaluationIsSound /\ \A w \in Worker : EvaluationServed(req[w], evaluation, responses)

EvaluationAssumptions == MaxAction \in Nat /\ MaxResponse \in Nat

LEMMA EvaluationAssumptionsHold == EvaluationAssumptions
BY ActionsAssumption, EvaluationsAssumption DEF EvaluationAssumptions

LEMMA EvaluationFlow ==
  /\ DOMAIN EVALUATION_FLOW = {"start", "complete", "reopen"}
  /\ EVALUATION_FLOW["start"] = [sources |-> {"planned"}, target |-> "in_progress", reason |-> FALSE]
  /\ EVALUATION_FLOW["complete"] = [sources |-> {"in_progress"}, target |-> "completed", reason |-> FALSE]
  /\ EVALUATION_FLOW["reopen"] = [sources |-> {"completed"}, target |-> "in_progress", reason |-> TRUE]
BY DEF EVALUATION_FLOW, Transition, ReasonedTransition

LEMMA OffEvaluation ==
  ASSUME NEW q, NEW table, q.step \notin {"evaluation", "respond"}
  PROVE  OnEvaluation(q, table)
BY DEF OnEvaluation

LEMMA IdleIsOffEvaluation == ASSUME NEW table PROVE OnEvaluation(Idle, table)
BY OffEvaluation DEF Idle

(* Findings are never removed.                                             *)
LEMMA EvaluationRequestsStay ==
  ASSUME AnsweredInvariant, NEW w \in Worker, NEW r, req' = [req EXCEPT ![w] = r],
         DOMAIN responses \subseteq DOMAIN responses', OnEvaluation(r, responses')
  PROVE  DOMAIN req' = Worker /\ \A v \in Worker : OnEvaluation(req'[v], responses')
<1>1. DOMAIN req' = Worker
  BY DEF AnsweredInvariant
<1>2. ASSUME NEW v \in Worker PROVE OnEvaluation(req'[v], responses')
  <2>1. CASE v = w
    BY <2>1 DEF AnsweredInvariant
  <2>2. CASE v # w
    <3>1. req'[v] = req[v] /\ OnEvaluation(req[v], responses)
      BY <2>2 DEF AnsweredInvariant
    <3> QED
      BY <3>1 DEF OnEvaluation
  <2> QED
    BY <2>1, <2>2
<1> QED
  BY <1>1, <1>2

LEMMA LoadLeavesEvaluation ==
  ASSUME AnsweredInvariant, NEW w \in Worker, NEW r, req' = [req EXCEPT ![w] = r],
         UNCHANGED <<evaluation, responses, actions>>, OnEvaluation(r, responses)
  PROVE  AnsweredInvariant'
<1>1. DOMAIN req' = Worker /\ \A v \in Worker : OnEvaluation(req'[v], responses')
  BY EvaluationRequestsStay
<1> QED
  BY <1>1 DEF AnsweredInvariant, RaisedInOrder, Raised

LEMMA FlushedEvaluation ==
  ASSUME NEW loaded \in EvaluationRow, NEW new \in EvaluationRow, NEW row \in EvaluationRow
  PROVE  Flush(loaded, new, row) \in EvaluationRow
<1>1. Flush(loaded, new, row) =
        [status |-> IF new.status = loaded.status THEN row.status ELSE new.status,
         summary |-> IF new.summary = loaded.summary THEN row.summary ELSE new.summary]
  BY DEF EvaluationRow, Flush
<1> QED
  BY <1>1 DEF EvaluationRow

LEMMA FlushedResponse ==
  ASSUME NEW loaded \in ResponseRow, NEW new \in ResponseRow, NEW row \in ResponseRow
  PROVE  /\ Flush(loaded, new, row) \in ResponseRow
         /\ Flush(loaded, new, row).response
              = (IF new.response = loaded.response THEN row.response ELSE new.response)
         /\ Flush(loaded, new, row).action = (IF new.action = loaded.action THEN row.action ELSE new.action)
<1>1. Flush(loaded, new, row) =
        [response |-> IF new.response = loaded.response THEN row.response ELSE new.response,
         action |-> IF new.action = loaded.action THEN row.action ELSE new.action]
  BY DEF ResponseRow, Flush
<1> QED
  BY <1>1 DEF ResponseRow

LEMMA AnsweredInit == ASSUME EvaluationAssumptions, PlanningInit PROVE AnsweredInvariant
<1> USE DEF PlanningInit, PeopleInit, RequestsInit, EvaluationsInit, ActionsInit, EvaluationAssumptions
<1>1. DOMAIN req = Worker /\ \A w \in Worker : req[w].step \in {"idle", "off"}
  BY DEF Idle, Off
<1>2. \A w \in Worker : OnEvaluation(req[w], responses)
  BY <1>1, OffEvaluation
<1>3. DOMAIN actions = 1..MaxAction /\ Raised = {}
  BY DEF Raised, NoAction
<1>4. RaisedInOrder
  <2>1. Raised = 1..0 /\ 0 \in 0..MaxAction
    BY <1>3
  <2> QED
    BY <2>1 DEF RaisedInOrder
<1>5. evaluation \in EvaluationRow /\ responses = <<>> /\ responses \in Seq(ResponseRow)
  BY DEF EvaluationRow
<1> QED
  BY <1>1, <1>2, <1>3, <1>4, <1>5 DEF AnsweredInvariant

(* An action is raised in the next row, which was free.                    *)
LEMMA FollowUpIsRaised ==
  ASSUME EvaluationAssumptions, AnsweredInvariant, RoomForAction, NEW u, NEW source,
         actions' = NewAction(u, u, source)
  PROVE  LET a == Cardinality(Raised) + 1
         IN /\ a \in 1..MaxAction /\ a \notin Raised /\ Cardinality(Raised) \in Nat
            /\ DOMAIN actions' = 1..MaxAction
            /\ actions'[a].source = source
            /\ \A b \in 1..MaxAction : b # a => actions'[b] = actions[b]
            /\ Raised' = Raised \cup {a} /\ Cardinality(Raised') = a
            /\ RaisedInOrder'
<1> DEFINE a == Cardinality(Raised) + 1
<1>1. PICK n \in 0..MaxAction : Raised = 1..n
  BY DEF AnsweredInvariant, RaisedInOrder
<1>2. n \in Int /\ MaxAction \in Nat
  BY DEF EvaluationAssumptions
<1>3. Cardinality(Raised) = n
  BY <1>1, <1>2, FS_Interval
<1>4. a = n + 1 /\ n < MaxAction
  BY <1>3 DEF RoomForAction
<1>5. a \in 1..MaxAction /\ a \notin Raised /\ Cardinality(Raised) \in Nat
  BY <1>1, <1>2, <1>3, <1>4
<1>6. actions' = [actions EXCEPT ![a] = Opened(u, u, source)]
  BY OpenedAction DEF NewAction
<1> HIDE DEF a
<1>7. Opened(u, u, source).source = source /\ Opened(u, u, source).status # "absent"
  BY DEF Opened
<1>8. /\ DOMAIN actions' = 1..MaxAction
      /\ actions'[a] = Opened(u, u, source)
      /\ \A b \in 1..MaxAction : b # a => actions'[b] = actions[b]
  BY <1>5, <1>6 DEF AnsweredInvariant
<1>9. Raised' = Raised \cup {a}
  BY <1>5, <1>7, <1>8 DEF Raised, AnsweredInvariant
<1>10. Raised' = 1..a /\ a \in 0..MaxAction
  BY <1>1, <1>2, <1>4, <1>9
<1>11. Cardinality(Raised') = a
  BY <1>2, <1>4, <1>10, FS_Interval
<1>12. RaisedInOrder'
  BY <1>10 DEF RaisedInOrder
<1> QED
  BY <1>5, <1>7, <1>8, <1>9, <1>11, <1>12 DEF a

LEMMA CommitEvaluationKeeps ==
  ASSUME AnsweredInvariant, NEW w \in Worker, CommitEvaluation(w)
  PROVE  AnsweredInvariant'
<1>1. /\ req[w].step = "evaluation" /\ req' = [req EXCEPT ![w] = Idle]
      /\ UNCHANGED <<responses, actions>>
  BY DEF CommitEvaluation, Finish
<1>2. OnEvaluation(req[w], responses)
  BY DEF AnsweredInvariant
<1>3. evaluation' \in EvaluationRow
  BY <1>1, <1>2, FlushedEvaluation DEF CommitEvaluation, AnsweredInvariant, OnEvaluation
<1>4. DOMAIN req' = Worker /\ \A v \in Worker : OnEvaluation(req'[v], responses')
  BY <1>1, IdleIsOffEvaluation, EvaluationRequestsStay
<1> QED
  BY <1>1, <1>3, <1>4 DEF AnsweredInvariant, RaisedInOrder, Raised

LEMMA CommitEvaluationFindingKeeps ==
  ASSUME EvaluationAssumptions, AnsweredInvariant, NEW w \in Worker, CommitEvaluationFinding(w)
  PROVE  AnsweredInvariant'
<1> DEFINE new == [response |-> "none", action |-> 0]
<1>1. /\ req' = [req EXCEPT ![w] = Idle] /\ UNCHANGED <<evaluation, actions>>
      /\ responses' = Append(responses, new)
  BY DEF CommitEvaluationFinding, Finish
<1>2. new \in ResponseRow /\ new.response = "none" /\ new.action = 0
  BY DEF ResponseRow, EvaluationAssumptions
<1> HIDE DEF new
<1>3. /\ responses \in Seq(ResponseRow) /\ responses' \in Seq(ResponseRow)
      /\ DOMAIN responses' = DOMAIN responses \cup {Len(responses) + 1}
      /\ Len(responses) + 1 \notin DOMAIN responses
      /\ \A r \in DOMAIN responses : responses'[r] = responses[r]
      /\ responses'[Len(responses) + 1] = new
  BY <1>1, <1>2 DEF AnsweredInvariant
<1>4. DOMAIN req' = Worker /\ \A v \in Worker : OnEvaluation(req'[v], responses')
  BY <1>1, <1>3, IdleIsOffEvaluation, EvaluationRequestsStay
<1>5. ASSUME NEW r \in DOMAIN responses'
      PROVE  /\ responses'[r].response = "accepted" => responses'[r].action # 0
             /\ responses'[r].action # 0 => responses'[r].action \in Raised
             /\ \A s \in DOMAIN responses' :
                  responses'[s].action = responses'[r].action => s = r \/ responses'[r].action = 0
  BY <1>2, <1>3 DEF AnsweredInvariant
<1>6. Raised' = Raised
  BY <1>1 DEF Raised
<1> QED
  BY <1>1, <1>3, <1>4, <1>5, <1>6 DEF AnsweredInvariant, RaisedInOrder

(* What a response writes, whatever was committed since it was loaded.     *)
LEMMA ResponseIsWritten ==
  ASSUME EvaluationAssumptions, AnsweredInvariant, NEW w \in Worker, CommitRespond(w)
  PROVE  LET q == req[w]
             a == Cardinality(Raised) + 1
         IN /\ q.step = "respond" /\ q.id \in DOMAIN responses /\ q.response \in {"accepted", "rejected"}
            /\ req' = [req EXCEPT ![w] = Idle] /\ UNCHANGED evaluation
            /\ responses \in Seq(ResponseRow) /\ responses' \in Seq(ResponseRow)
            /\ DOMAIN responses' = DOMAIN responses
            /\ \A r \in DOMAIN responses : r # q.id => responses'[r] = responses[r]
            /\ responses'[q.id].response = q.response
            /\ q.response = "rejected" =>
                 responses'[q.id].action = responses[q.id].action /\ UNCHANGED actions
            /\ q.response = "accepted" =>
                 /\ responses'[q.id].action = a /\ a # 0
                 /\ RoomForAction /\ actions' = NewAction(q.by, q.by, "management_response")
<1> DEFINE q == req[w]
           a == Cardinality(Raised) + 1
           loaded == [response |-> "none", action |-> 0]
           new == [response |-> q.response, action |-> IF q.response # "rejected" THEN a ELSE 0]
           row == Flush(loaded, new, responses[q.id])
<1>1. q.step = "respond" /\ q.id \in DOMAIN responses /\ q.response \in {"accepted", "rejected"}
  BY DEF CommitRespond, AnsweredInvariant, OnEvaluation
<1>2. /\ req' = [req EXCEPT ![w] = Idle] /\ UNCHANGED evaluation
      /\ responses' = [responses EXCEPT ![q.id] = row]
      /\ q.response # "rejected" => RoomForAction
      /\ actions' = IF q.response # "rejected" THEN NewAction(q.by, q.by, "management_response") ELSE actions
  BY DEF CommitRespond, Finish
<1>3. responses \in Seq(ResponseRow) /\ responses[q.id] \in ResponseRow
  BY <1>1 DEF AnsweredInvariant
<1>4. q.response = "accepted" => a \in 1..MaxAction
  BY <1>1, <1>2, FollowUpIsRaised
<1>5. 0 \in 0..MaxAction /\ (q.response = "accepted" => a \in 0..MaxAction /\ a # 0)
  BY <1>4 DEF EvaluationAssumptions
<1> HIDE DEF q, a
<1>6. loaded \in ResponseRow /\ new \in ResponseRow
  BY <1>1, <1>5 DEF ResponseRow
<1>7. /\ row \in ResponseRow
      /\ row.response = (IF new.response = loaded.response THEN responses[q.id].response ELSE new.response)
      /\ row.action = (IF new.action = loaded.action THEN responses[q.id].action ELSE new.action)
  <2> HIDE DEF loaded, new
  <2> QED
    BY <1>3, <1>6, FlushedResponse
<1>8. /\ row.response = q.response
      /\ q.response = "rejected" => row.action = responses[q.id].action
      /\ q.response = "accepted" => row.action = a
  BY <1>1, <1>5, <1>7
<1> HIDE DEF row
<1>9. /\ responses' \in Seq(ResponseRow) /\ DOMAIN responses' = DOMAIN responses
      /\ responses'[q.id] = row
      /\ \A r \in DOMAIN responses : r # q.id => responses'[r] = responses[r]
  BY <1>1, <1>2, <1>3, <1>7
<1> QED
  BY <1>1, <1>2, <1>3, <1>5, <1>8, <1>9 DEF q, a

LEMMA CommitRespondKeeps ==
  ASSUME EvaluationAssumptions, AnsweredInvariant, NEW w \in Worker, CommitRespond(w)
  PROVE  AnsweredInvariant'
<1> DEFINE q == req[w]
           a == Cardinality(Raised) + 1
<1>1. /\ q.id \in DOMAIN responses /\ q.response \in {"accepted", "rejected"}
      /\ req' = [req EXCEPT ![w] = Idle] /\ UNCHANGED evaluation
      /\ responses' \in Seq(ResponseRow) /\ DOMAIN responses' = DOMAIN responses
      /\ \A r \in DOMAIN responses : r # q.id => responses'[r] = responses[r]
      /\ responses'[q.id].response = q.response
      /\ q.response = "rejected" => responses'[q.id].action = responses[q.id].action /\ UNCHANGED actions
      /\ q.response = "accepted" =>
           /\ responses'[q.id].action = a /\ a # 0
           /\ RoomForAction /\ actions' = NewAction(q.by, q.by, "management_response")
  BY ResponseIsWritten
<1>2. q.response = "accepted" =>
        /\ a \in 1..MaxAction /\ a \notin Raised
        /\ DOMAIN actions' = 1..MaxAction
        /\ actions'[a].source = "management_response"
        /\ \A b \in 1..MaxAction : b # a => actions'[b] = actions[b]
        /\ Raised' = Raised \cup {a}
        /\ RaisedInOrder'
  BY <1>1, FollowUpIsRaised
<1> HIDE DEF q, a
<1>3. q.response = "rejected" => Raised' = Raised /\ RaisedInOrder' /\ DOMAIN actions' = 1..MaxAction
  BY <1>1 DEF Raised, RaisedInOrder, AnsweredInvariant
<1>4. Raised \subseteq Raised' /\ RaisedInOrder' /\ DOMAIN actions' = 1..MaxAction
  BY <1>1, <1>2, <1>3
<1>5. \A b \in Raised' : actions'[b].source = "management_response"
  <2>1. Raised \subseteq 1..MaxAction
    BY DEF Raised, AnsweredInvariant
  <2>2. \A b \in Raised : actions[b].source = "management_response"
    BY DEF AnsweredInvariant
  <2>3. CASE q.response = "accepted"
    BY <1>2, <2>1, <2>2, <2>3
  <2>4. CASE q.response = "rejected"
    BY <1>1, <1>3, <2>2, <2>4
  <2> QED
    BY <1>1, <2>3, <2>4
<1>6. ASSUME NEW r \in DOMAIN responses
      PROVE  /\ responses'[r].response = "accepted" => responses'[r].action # 0
             /\ responses'[r].action # 0 => responses'[r].action \in Raised'
             /\ \A s \in DOMAIN responses :
                  responses'[s].action = responses'[r].action => s = r \/ responses'[r].action = 0
  <2>1. CASE q.response = "accepted"
    <3>1. \A s \in DOMAIN responses : s # q.id => responses'[s] = responses[s] /\ responses[s].action # a
      BY <1>1, <1>2, <2>1 DEF AnsweredInvariant
    <3> QED
      BY <1>1, <1>2, <2>1, <3>1 DEF AnsweredInvariant
  <2>2. CASE q.response = "rejected"
    <3>1. \A s \in DOMAIN responses : responses'[s].action = responses[s].action
      BY <1>1, <2>2
    <3>2. responses'[r].response = "accepted" => r # q.id
      BY <1>1, <2>2
    <3> QED
      BY <1>1, <1>3, <2>2, <3>1, <3>2 DEF AnsweredInvariant
  <2> QED
    BY <1>1, <2>1, <2>2
<1>7. DOMAIN req' = Worker /\ \A v \in Worker : OnEvaluation(req'[v], responses')
  BY <1>1, IdleIsOffEvaluation, EvaluationRequestsStay
<1> QED
  BY <1>1, <1>4, <1>5, <1>6, <1>7 DEF AnsweredInvariant

LEMMA CreateEvaluationKeeps ==
  ASSUME AnsweredInvariant, NEW u \in User, CreateEvaluation(u)
  PROVE  AnsweredInvariant'
<1>1. evaluation' \in EvaluationRow /\ UNCHANGED <<responses, actions, req>>
  BY DEF CreateEvaluation, EvaluationRow
<1> QED
  BY <1>1 DEF AnsweredInvariant, RaisedInOrder, Raised

LEMMA LoadEvaluationKeeps ==
  ASSUME AnsweredInvariant, NEW w \in Worker, NEW new \in EvaluationRow, LoadEvaluation(w, new)
  PROVE  AnsweredInvariant'
<1> DEFINE r == [step |-> "evaluation", loaded |-> evaluation, new |-> new]
<1>1. req' = [req EXCEPT ![w] = r] /\ UNCHANGED <<evaluation, responses, actions>>
  BY DEF LoadEvaluation, Begin
<1>2. OnEvaluation(r, responses)
  BY DEF OnEvaluation, AnsweredInvariant
<1> QED
  BY <1>1, <1>2, LoadLeavesEvaluation

(* What an update and a transition write.                                  *)
LEMMA EvaluationUpdated ==
  ASSUME NEW row \in EvaluationRow
  PROVE  LET new == [row EXCEPT !.summary = ~@]
         IN new \in EvaluationRow /\ new.status = row.status
BY DEF EvaluationRow

LEMMA EvaluationMoved ==
  ASSUME NEW row \in EvaluationRow, NEW name \in DOMAIN EVALUATION_FLOW
  PROVE  LET new == [row EXCEPT !.status = TargetOf(EVALUATION_FLOW, name)]
         IN /\ new \in EvaluationRow /\ new.summary = row.summary
            /\ new.status = "completed" <=> name = "complete"
<1>1. /\ TargetOf(EVALUATION_FLOW, name) \in {"in_progress", "completed"}
      /\ TargetOf(EVALUATION_FLOW, name) = "completed" <=> name = "complete"
  BY EvaluationFlow DEF TargetOf
<1> QED
  BY <1>1 DEF EvaluationRow

LEMMA EvaluationLoadsKeep ==
  ASSUME AnsweredInvariant, NEW w \in Worker, NEW u \in User,
         \/ UpdateEvaluation(w, u)
         \/ \E name \in DOMAIN EVALUATION_FLOW : TransitionEvaluation(w, u, name)
         \/ AddFinding(w, u)
         \/ \E r \in DOMAIN responses, response \in {"accepted", "rejected"} : Respond(w, u, r, response)
  PROVE  AnsweredInvariant'
<1>1. evaluation \in EvaluationRow
  BY DEF AnsweredInvariant
<1>2. CASE UpdateEvaluation(w, u)
  <2> DEFINE new == [evaluation EXCEPT !.summary = ~@]
  <2>1. new \in EvaluationRow /\ LoadEvaluation(w, new)
    BY <1>1, <1>2, EvaluationUpdated DEF UpdateEvaluation
  <2> HIDE DEF new
  <2> QED
    BY <2>1, LoadEvaluationKeeps
<1>3. ASSUME NEW name \in DOMAIN EVALUATION_FLOW, TransitionEvaluation(w, u, name) PROVE AnsweredInvariant'
  <2> DEFINE new == [evaluation EXCEPT !.status = TargetOf(EVALUATION_FLOW, name)]
  <2>1. new \in EvaluationRow /\ LoadEvaluation(w, new)
    BY <1>1, <1>3, EvaluationMoved DEF TransitionEvaluation
  <2> HIDE DEF new
  <2> QED
    BY <2>1, LoadEvaluationKeeps
<1>4. CASE AddFinding(w, u)
  <2> DEFINE q == [step |-> "evaluation_finding"]
  <2>1. req' = [req EXCEPT ![w] = q] /\ UNCHANGED <<evaluation, responses, actions>>
    BY <1>4 DEF AddFinding, Begin
  <2>2. OnEvaluation(q, responses)
    BY OffEvaluation
  <2> QED
    BY <2>1, <2>2, LoadLeavesEvaluation
<1>5. ASSUME NEW r \in DOMAIN responses, NEW response \in {"accepted", "rejected"}, Respond(w, u, r, response)
      PROVE  AnsweredInvariant'
  <2> DEFINE q == [step |-> "respond", id |-> r, by |-> u, response |-> response]
  <2>1. req' = [req EXCEPT ![w] = q] /\ UNCHANGED <<evaluation, responses, actions>>
    BY <1>5 DEF Respond, Begin
  <2>2. OnEvaluation(q, responses)
    BY DEF OnEvaluation
  <2> QED
    BY <2>1, <2>2, LoadLeavesEvaluation
<1> QED
  BY <1>2, <1>3, <1>4, <1>5

LEMMA EvaluationsKeep ==
  ASSUME EvaluationAssumptions, AnsweredInvariant, EvaluationsNext PROVE AnsweredInvariant'
<1>1. ASSUME NEW w \in Waiting, NEW u \in User,
             \/ UpdateEvaluation(w, u) \/ AddFinding(w, u)
             \/ \E name \in DOMAIN EVALUATION_FLOW : TransitionEvaluation(w, u, name)
             \/ \E r \in DOMAIN responses, response \in {"accepted", "rejected"} : Respond(w, u, r, response)
      PROVE  AnsweredInvariant'
  BY <1>1, EvaluationLoadsKeep DEF Waiting
<1>2. ASSUME NEW w \in Worker, CommitEvaluation(w) \/ CommitEvaluationFinding(w) \/ CommitRespond(w)
      PROVE  AnsweredInvariant'
  BY <1>2, CommitEvaluationKeeps, CommitEvaluationFindingKeeps, CommitRespondKeeps
<1> QED
  BY <1>1, <1>2, CreateEvaluationKeeps DEF EvaluationsNext

(* A request of a plan is not about its evaluation.                        *)
LEMMA PlanRequests ==
  ASSUME DOMAIN req = Worker, PlansNext
  PROVE  \/ UNCHANGED req
         \/ \E w \in Worker : TakesUp(w, {"idle", "plan", "level", "new_node", "node", "indicator"})
<1> DEFINE Takes(w) == TakesUp(w, {"idle", "plan", "level", "new_node", "node", "indicator"})
<1>1. ASSUME NEW u,
             \/ CreatePlan(u)
             \/ \E code \in Code : ImportTenantPlan(u, code)
             \/ \E n \in Made \cup {0} : CreateIndicator(u, n)
      PROVE  UNCHANGED req
  BY <1>1 DEF CreatePlan, ImportTenantPlan, CreateIndicator
<1>2. ASSUME NEW w \in Worker, NEW u, NEW name, TransitionPlan(w, u, name) PROVE Takes(w)
  BY <1>2 DEF TransitionPlan, Begin, TakesUp
<1>3. ASSUME NEW w \in Worker, NEW u, NEW type, SetLevel(w, u, type) PROVE Takes(w)
  BY <1>3 DEF SetLevel, Begin, TakesUp
<1>4. ASSUME NEW w \in Worker, NEW u, NEW row, CreateNode(w, u, row) PROVE Takes(w)
  BY <1>4 DEF CreateNode, Begin, TakesUp
<1>5. ASSUME NEW w \in Worker, NEW u, NEW n, NEW new, UpdateNode(w, u, n, new) PROVE Takes(w)
  BY <1>5 DEF UpdateNode, Begin, TakesUp
<1>6. ASSUME NEW w \in Worker, NEW u, NEW new, LoadIndicator(w, u, new) PROVE Takes(w)
  BY <1>6 DEF LoadIndicator, Begin, TakesUp
<1>7. ASSUME NEW w \in Worker,
             CommitPlan(w) \/ CommitLevel(w) \/ CommitNewNode(w) \/ CommitNode(w) \/ CommitIndicator(w)
      PROVE  Takes(w)
  BY <1>7 DEF CommitPlan, CommitLevel, CommitNewNode, CommitNode, CommitIndicator, Finish, Idle, TakesUp
<1> HIDE DEF Takes
<1>8. UNCHANGED req \/ \E w \in Worker : Takes(w)
  BY <1>1, <1>2, <1>3, <1>4, <1>5, <1>6, <1>7
     DEF PlansNext, Waiting, Redefine, MoveOrRetireIndicator, SetTarget
<1> QED
  BY <1>8 DEF Takes

LEMMA OthersKeepEvaluations ==
  ASSUME AnsweredInvariant, UNCHANGED evaluationVars,
         \/ UNCHANGED req
         \/ \E w \in Worker : /\ req' = [req EXCEPT ![w] = req'[w]]
                              /\ req'[w].step \notin {"evaluation", "evaluation_finding", "respond"}
  PROVE  AnsweredInvariant'
<1>1. UNCHANGED <<evaluation, responses, actions>>
  BY DEF evaluationVars
<1>2. CASE UNCHANGED req
  BY <1>1, <1>2 DEF AnsweredInvariant, RaisedInOrder, Raised
<1>3. ASSUME NEW w \in Worker, req' = [req EXCEPT ![w] = req'[w]],
             req'[w].step \notin {"evaluation", "evaluation_finding", "respond"}
      PROVE  AnsweredInvariant'
  BY <1>1, <1>3, OffEvaluation, LoadLeavesEvaluation
<1> QED
  BY <1>2, <1>3

LEMMA AnsweredStep ==
  ASSUME EvaluationAssumptions, AnsweredInvariant, [PlanningNext]_planningVars PROVE AnsweredInvariant'
<1>1. CASE EvaluationsNext
  BY <1>1, EvaluationsKeep
<1>2. CASE PeopleNext /\ UNCHANGED evaluationVars
  BY <1>2, PeopleRequests, OthersKeepEvaluations DEF AnsweredInvariant, TakesUp
<1>3. CASE PlansNext /\ UNCHANGED evaluationVars
  BY <1>3, PlanRequests, OthersKeepEvaluations DEF AnsweredInvariant, TakesUp
<1>4. CASE UNCHANGED planningVars
  BY <1>4, OthersKeepEvaluations DEF planningVars
<1> QED
  BY <1>1, <1>2, <1>3, <1>4 DEF PlanningNext

(* However requests race, a response that was accepted has an action of    *)
(* its own.                                                                *)
THEOREM AnsweredInvariantHolds == PlanningSpec => []AnsweredInvariant
<1>1. PlanningInit => AnsweredInvariant
  BY AnsweredInit, EvaluationAssumptionsHold
<1>2. AnsweredInvariant /\ [PlanningNext]_planningVars => AnsweredInvariant'
  BY AnsweredStep, EvaluationAssumptionsHold
<1> QED
  BY <1>1, <1>2, PTL DEF PlanningSpec

(* Served one after the other.                                             *)
LEMMA ServedOffEvaluation ==
  ASSUME NEW q, NEW row, NEW table, q.step \notin {"evaluation", "evaluation_finding", "respond"}
  PROVE  EvaluationServed(q, row, table)
BY DEF EvaluationServed

LEMMA SoundEvaluationStays ==
  ASSUME EvaluationIsSound, UNCHANGED <<evaluation, responses, actions>>
  PROVE  EvaluationIsSound'
BY DEF EvaluationIsSound, Accepted, Raised, Unanswered

LEMMA EvaluationLoadIsSerial ==
  ASSUME AnsweredInvariant, AnsweredOnce, NEW w \in Worker, NEW q, Begin(w, q), q.step # "off",
         Serial => EvaluationServed(q, evaluation, responses), UNCHANGED <<evaluation, responses, actions>>
  PROVE  AnsweredOnce'
<1>1. /\ Serial' <=> Serial
      /\ req'[w] = q
      /\ \A v \in Worker : v # w => req'[v] = req[v]
  BY RequestsAssumption, SerialBegins DEF AnsweredInvariant
<1>2. Serial => EvaluationIsSound'
  BY SoundEvaluationStays DEF AnsweredOnce
<1>3. Serial => \A v \in Worker : EvaluationServed(req'[v], evaluation', responses')
  BY <1>1 DEF AnsweredOnce
<1> QED
  BY <1>1, <1>2, <1>3 DEF AnsweredOnce

LEMMA EvaluationCommitIsSerial ==
  ASSUME AnsweredInvariant, NEW w \in Worker, InFlight(w), Finish(w), Serial => EvaluationIsSound'
  PROVE  AnsweredOnce'
<1>1. /\ Serial' <=> Serial
      /\ Serial => \A v \in Worker : req'[v].step \in {"idle", "off"}
  BY RequestsAssumption, SerialFinishes DEF AnsweredInvariant
<1>2. Serial => \A v \in Worker : EvaluationServed(req'[v], evaluation', responses')
  BY <1>1, ServedOffEvaluation
<1> QED
  BY <1>1, <1>2 DEF AnsweredOnce

LEMMA CreateEvaluationIsSerial ==
  ASSUME AnsweredInvariant, AnsweredOnce, NEW u \in User, CreateEvaluation(u)
  PROVE  AnsweredOnce'
<1>1. (Serial' <=> Serial) /\ Free /\ UNCHANGED req
  BY DEF CreateEvaluation, Serial
<1>2. Serial => \A v \in Worker : req[v].step \in {"idle", "off"}
  BY <1>1, RequestsAssumption, SerialIsAlone DEF InFlight
<1>3. Serial => \A v \in Worker : EvaluationServed(req'[v], evaluation', responses')
  BY <1>1, <1>2, ServedOffEvaluation
<1>4. Serial => EvaluationIsSound'
  BY DEF CreateEvaluation, AnsweredOnce, EvaluationIsSound, Accepted, Raised, Unanswered
<1> QED
  BY <1>1, <1>3, <1>4 DEF AnsweredOnce

LEMMA EvaluationLoadsAreSerial ==
  ASSUME AnsweredInvariant, AnsweredOnce, NEW w \in Worker, NEW u \in User,
         \/ UpdateEvaluation(w, u)
         \/ \E name \in DOMAIN EVALUATION_FLOW : TransitionEvaluation(w, u, name)
         \/ AddFinding(w, u)
         \/ \E r \in DOMAIN responses, response \in {"accepted", "rejected"} : Respond(w, u, r, response)
  PROVE  AnsweredOnce'
<1>1. evaluation \in EvaluationRow /\ responses \in Seq(ResponseRow)
  BY DEF AnsweredInvariant
<1>2. CASE UpdateEvaluation(w, u)
  <2> DEFINE new == [evaluation EXCEPT !.summary = ~@]
             q == [step |-> "evaluation", loaded |-> evaluation, new |-> new]
  <2>1. /\ new.status # "completed"
        /\ Begin(w, q) /\ UNCHANGED <<evaluation, responses, actions>>
    BY <1>1, <1>2, EvaluationUpdated DEF UpdateEvaluation, LoadEvaluation
  <2> HIDE DEF new
  <2>2. EvaluationServed(q, evaluation, responses)
    BY <2>1 DEF EvaluationServed
  <2> QED
    BY <2>1, <2>2, EvaluationLoadIsSerial
<1>3. ASSUME NEW name \in DOMAIN EVALUATION_FLOW, TransitionEvaluation(w, u, name) PROVE AnsweredOnce'
  <2> DEFINE new == [evaluation EXCEPT !.status = TargetOf(EVALUATION_FLOW, name)]
             q == [step |-> "evaluation", loaded |-> evaluation, new |-> new]
  <2>1. /\ new.status = "completed" => new.summary /\ Unanswered = {}
        /\ Begin(w, q) /\ UNCHANGED <<evaluation, responses, actions>>
    BY <1>1, <1>3, EvaluationMoved DEF TransitionEvaluation, LoadEvaluation, Completable
  <2> HIDE DEF new
  <2>2. EvaluationServed(q, evaluation, responses)
    BY <2>1 DEF EvaluationServed, Unanswered
  <2> QED
    BY <2>1, <2>2, EvaluationLoadIsSerial
<1>4. CASE AddFinding(w, u)
  <2> DEFINE q == [step |-> "evaluation_finding"]
  <2>1. Begin(w, q) /\ UNCHANGED <<evaluation, responses, actions>> /\ evaluation.status # "completed"
    BY <1>4 DEF AddFinding
  <2>2. EvaluationServed(q, evaluation, responses)
    BY <2>1 DEF EvaluationServed
  <2> QED
    BY <2>1, <2>2, EvaluationLoadIsSerial
<1>5. ASSUME NEW r \in DOMAIN responses, NEW response \in {"accepted", "rejected"}, Respond(w, u, r, response)
      PROVE  AnsweredOnce'
  <2> DEFINE q == [step |-> "respond", id |-> r, by |-> u, response |-> response]
  <2>1. Begin(w, q) /\ UNCHANGED <<evaluation, responses, actions>> /\ responses[r].response = "none"
    BY <1>5 DEF Respond, Unanswered
  <2>2. Serial => responses[r].action = 0
    BY <2>1 DEF AnsweredOnce, EvaluationIsSound
  <2>3. Serial => responses[r] = [response |-> "none", action |-> 0]
    <3>1. responses[r] \in ResponseRow
      BY <1>1
    <3> QED
      BY <2>1, <2>2, <3>1 DEF ResponseRow
  <2>4. Serial => EvaluationServed(q, evaluation, responses)
    BY <2>3 DEF EvaluationServed
  <2> QED
    BY <2>1, <2>4, EvaluationLoadIsSerial
<1> QED
  BY <1>2, <1>3, <1>4, <1>5

LEMMA CommitEvaluationIsSound ==
  ASSUME AnsweredInvariant, AnsweredOnce, Serial, NEW w \in Worker, CommitEvaluation(w)
  PROVE  EvaluationIsSound'
<1> DEFINE q == req[w]
<1>1. q.step = "evaluation" /\ EvaluationServed(q, evaluation, responses) /\ EvaluationIsSound
  BY DEF AnsweredOnce, CommitEvaluation
<1>2. q.new \in EvaluationRow /\ q.loaded = evaluation /\ evaluation \in EvaluationRow
  BY <1>1 DEF AnsweredInvariant, OnEvaluation, EvaluationServed
<1>3. q.new = [c \in DOMAIN evaluation |-> q.new[c]]
  BY <1>2 DEF EvaluationRow
<1>4. evaluation' = q.new /\ UNCHANGED <<responses, actions>>
  BY <1>2, <1>3, FlushIsWhole DEF CommitEvaluation
<1> QED
  BY <1>1, <1>4 DEF EvaluationServed, EvaluationIsSound, Accepted, Raised, Unanswered

LEMMA CommitFindingOfEvaluationIsSound ==
  ASSUME AnsweredInvariant, AnsweredOnce, Serial, NEW w \in Worker, CommitEvaluationFinding(w)
  PROVE  EvaluationIsSound'
<1> DEFINE new == [response |-> "none", action |-> 0]
<1>1. /\ UNCHANGED <<evaluation, actions>> /\ responses' = Append(responses, new)
      /\ evaluation.status # "completed" /\ EvaluationIsSound
  BY DEF CommitEvaluationFinding, AnsweredOnce, EvaluationServed
<1>2. /\ DOMAIN responses' = DOMAIN responses \cup {Len(responses) + 1}
      /\ \A r \in DOMAIN responses : responses'[r] = responses[r]
      /\ responses'[Len(responses) + 1] = new
  BY <1>1 DEF AnsweredInvariant
<1>3. new.response = "none" /\ new.action = 0
  OBVIOUS
<1> HIDE DEF new
<1>4. Accepted' = Accepted
  BY <1>2, <1>3 DEF Accepted
<1>5. \A r \in DOMAIN responses' : responses'[r].response # "accepted" => responses'[r].action = 0
  BY <1>1, <1>2, <1>3 DEF EvaluationIsSound
<1> QED
  BY <1>1, <1>4, <1>5 DEF EvaluationIsSound, Raised

LEMMA CommitRespondIsSound ==
  ASSUME EvaluationAssumptions, AnsweredInvariant, AnsweredOnce, Serial, NEW w \in Worker, CommitRespond(w)
  PROVE  EvaluationIsSound'
<1> DEFINE q == req[w]
           a == Cardinality(Raised) + 1
<1>1. /\ q.step = "respond" /\ q.id \in DOMAIN responses /\ q.response \in {"accepted", "rejected"}
      /\ UNCHANGED evaluation /\ responses \in Seq(ResponseRow)
      /\ DOMAIN responses' = DOMAIN responses
      /\ \A r \in DOMAIN responses : r # q.id => responses'[r] = responses[r]
      /\ responses'[q.id].response = q.response
      /\ q.response = "rejected" => responses'[q.id].action = responses[q.id].action /\ UNCHANGED actions
      /\ q.response = "accepted" =>
           RoomForAction /\ actions' = NewAction(q.by, q.by, "management_response")
  BY ResponseIsWritten
<1>2. EvaluationIsSound /\ responses[q.id].response = "none" /\ responses[q.id].action = 0
  BY <1>1 DEF AnsweredOnce, EvaluationServed
<1>3. \A r \in DOMAIN responses' : responses'[r].response # "accepted" => responses'[r].action = 0
  BY <1>1, <1>2 DEF EvaluationIsSound
<1>4. Unanswered' \subseteq Unanswered
  BY <1>1 DEF Unanswered
<1>5. Cardinality(Raised') = Cardinality(Accepted')
  <2>1. CASE q.response = "rejected"
    <3>1. Accepted' = Accepted /\ Raised' = Raised
      BY <1>1, <1>2, <2>1 DEF Accepted, Raised
    <3> QED
      BY <1>2, <3>1 DEF EvaluationIsSound
  <2>2. CASE q.response = "accepted"
    <3>1. Cardinality(Raised') = Cardinality(Raised) + 1
      BY <1>1, <2>2, FollowUpIsRaised
    <3>2. Accepted' = Accepted \cup {q.id} /\ q.id \notin Accepted
      BY <1>1, <1>2, <2>2 DEF Accepted
    <3>3. IsFiniteSet(Accepted)
      <4>1. IsFiniteSet(1..Len(responses)) /\ Accepted \subseteq 1..Len(responses)
        BY <1>1, FS_Interval DEF Accepted
      <4> QED
        BY <4>1, FS_Subset
    <3>4. Cardinality(Accepted') = Cardinality(Accepted) + 1
      BY <3>2, <3>3, FS_AddElement
    <3> QED
      BY <1>2, <3>1, <3>4 DEF EvaluationIsSound
  <2> QED
    BY <1>1, <2>1, <2>2
<1> QED
  BY <1>1, <1>2, <1>3, <1>4, <1>5 DEF EvaluationIsSound

LEMMA EvaluationsAreSerial ==
  ASSUME EvaluationAssumptions, AnsweredInvariant, AnsweredOnce, EvaluationsNext PROVE AnsweredOnce'
<1>1. ASSUME NEW w \in Waiting, NEW u \in User,
             \/ UpdateEvaluation(w, u) \/ AddFinding(w, u)
             \/ \E name \in DOMAIN EVALUATION_FLOW : TransitionEvaluation(w, u, name)
             \/ \E r \in DOMAIN responses, response \in {"accepted", "rejected"} : Respond(w, u, r, response)
      PROVE  AnsweredOnce'
  BY <1>1, EvaluationLoadsAreSerial DEF Waiting
<1>2. ASSUME NEW w \in Worker, CommitEvaluation(w) \/ CommitEvaluationFinding(w) \/ CommitRespond(w)
      PROVE  AnsweredOnce'
  <2>1. InFlight(w) /\ Finish(w)
    BY <1>2 DEF CommitEvaluation, CommitEvaluationFinding, CommitRespond, InFlight
  <2>2. Serial => EvaluationIsSound'
    BY <1>2, CommitEvaluationIsSound, CommitFindingOfEvaluationIsSound, CommitRespondIsSound
  <2> QED
    BY <2>1, <2>2, EvaluationCommitIsSerial
<1> QED
  BY <1>1, <1>2, CreateEvaluationIsSerial DEF EvaluationsNext

LEMMA OthersLeaveEvaluationSerial ==
  ASSUME AnsweredInvariant, AnsweredOnce, UNCHANGED evaluationVars,
         \/ UNCHANGED req
         \/ \E w \in Worker :
              TakesUp(w, {"idle", "policy", "contract", "appraisal", "plan", "level", "new_node", "node", "indicator"})
  PROVE  AnsweredOnce'
<1>1. UNCHANGED <<evaluation, responses, actions>> /\ (Serial => EvaluationIsSound')
  BY SoundEvaluationStays DEF evaluationVars, AnsweredOnce
<1>2. CASE UNCHANGED req
  BY <1>1, <1>2 DEF AnsweredOnce, Serial
<1>3. ASSUME NEW w \in Worker,
             TakesUp(w, {"idle", "policy", "contract", "appraisal", "plan", "level", "new_node", "node", "indicator"})
      PROVE  AnsweredOnce'
  <2>1. Serial' <=> Serial
    BY <1>3, SerialStays DEF TakesUp, AnsweredInvariant
  <2>2. \A v \in Worker : v # w => req'[v] = req[v]
    <3>1. DOMAIN req = Worker /\ req' = [req EXCEPT ![w] = req'[w]]
      BY <1>3 DEF TakesUp, AnsweredInvariant
    <3> QED
      BY <3>1
  <2>3. EvaluationServed(req'[w], evaluation', responses')
    BY <1>3, ServedOffEvaluation DEF TakesUp
  <2> QED
    BY <1>1, <2>1, <2>2, <2>3 DEF AnsweredOnce
<1> QED
  BY <1>2, <1>3

LEMMA AnsweredOnceInit == ASSUME EvaluationAssumptions, PlanningInit PROVE AnsweredOnce
<1> USE DEF PlanningInit, PeopleInit, RequestsInit, EvaluationsInit, ActionsInit
<1>1. \A w \in Worker : req[w].step \in {"idle", "off"}
  BY DEF Idle, Off
<1>2. Raised = {} /\ Accepted = {} /\ responses = <<>> /\ evaluation.status = "absent"
  BY DEF Raised, Accepted, NoAction
<1> QED
  BY <1>1, <1>2, ServedOffEvaluation DEF AnsweredOnce, EvaluationIsSound

LEMMA AnsweredOnceStep ==
  ASSUME EvaluationAssumptions, AnsweredInvariant, AnsweredOnce, [PlanningNext]_planningVars
  PROVE  AnsweredOnce'
<1>1. CASE EvaluationsNext
  BY <1>1, EvaluationsAreSerial
<1>2. CASE PeopleNext /\ UNCHANGED evaluationVars
  BY <1>2, PeopleRequests, OthersLeaveEvaluationSerial DEF AnsweredInvariant, TakesUp
<1>3. CASE PlansNext /\ UNCHANGED evaluationVars
  BY <1>3, PlanRequests, OthersLeaveEvaluationSerial DEF AnsweredInvariant, TakesUp
<1>4. CASE UNCHANGED planningVars
  BY <1>4, OthersLeaveEvaluationSerial DEF planningVars
<1> QED
  BY <1>1, <1>2, <1>3, <1>4 DEF PlanningNext

(* Served one after the other, every action of the tracker was raised by   *)
(* one accepted response, and a completed evaluation has no finding left   *)
(* unanswered.                                                             *)
THEOREM AnsweredOnceHolds == PlanningSpec => []AnsweredOnce
<1>1. PlanningInit => AnsweredOnce
  BY AnsweredOnceInit, EvaluationAssumptionsHold
<1>2. AnsweredInvariant /\ AnsweredOnce /\ [PlanningNext]_planningVars => AnsweredOnce'
  BY AnsweredOnceStep, EvaluationAssumptionsHold
<1> QED
  BY <1>1, <1>2, AnsweredInvariantHolds, PTL DEF PlanningSpec

(* Every accepted recommendation has its own action in the tracker however *)
(* responses race; served one after the other, a completed evaluation has  *)
(* every finding answered and no action raised twice (respond,             *)
(* transition_evaluation: service.py:984-1045).                            *)
THEOREM EvaluationsAreAlwaysAnswered == PlanningSpec => []EvaluationsAreAnswered
<1>1. AnsweredInvariant /\ AnsweredOnce => EvaluationsAreAnswered
  <2> SUFFICES ASSUME AnsweredInvariant, AnsweredOnce PROVE EvaluationsAreAnswered
    OBVIOUS
  <2>1. {a \in Raised : actions[a].source = "management_response"} = Raised
    BY DEF AnsweredInvariant
  <2>2. \A r \in DOMAIN responses :
          responses[r].response = "accepted" =>
            /\ responses[r].action \in Raised
            /\ actions[responses[r].action].source = "management_response"
            /\ \A s \in DOMAIN responses : s # r => responses[s].action # responses[r].action
    BY DEF AnsweredInvariant
  <2> QED
    BY <2>1, <2>2 DEF EvaluationsAreAnswered, AnsweredOnce, EvaluationIsSound, Accepted
<1> QED
  BY <1>1, AnsweredInvariantHolds, AnsweredOnceHolds, PTL

-----------------------------------------------------------------------------
(* Ratings stay on the scale of their scheme: a weighted average of the    *)
(* ratings of the items lies between the lowest and the highest of them.   *)
RatingsOf(scheme) == {scheme.bands[i].rating : i \in DOMAIN scheme.bands}

Within(rating, scheme) == \E lo, hi \in RatingsOf(scheme) : lo <= rating /\ rating <= hi

Spans(lo, hi, ratings) == \A r \in ratings : r \in Int /\ lo <= r /\ r <= hi

LEMMA TotalIsSum == ASSUME NEW f, NEW S PROVE Total(f, S) = SumOf(f, S)
BY DEF Total, MapThenSumSet, MapThenFoldSet, SumOf, SumStep, Picked

(* The quotient of a number between lo times d and hi times d.             *)
LEMMA QuotientIsWithin ==
  ASSUME NEW a \in Int, NEW d \in Int, d > 0, NEW lo \in Int, NEW hi \in Int, lo * d <= a, a <= hi * d
  PROVE  a \div d \in Int /\ lo <= a \div d /\ a \div d <= hi
<1> DEFINE q == a \div d
<1>1. q \in Int /\ d * q <= a /\ a < d * q + d
  OBVIOUS
<1> HIDE DEF q
<1>2. lo * d < (q + 1) * d /\ q * d <= hi * d
  BY <1>1
<1>3. lo < q + 1
  BY <1>1, <1>2
<1>4. q <= hi
  BY <1>1, <1>2
<1>5. lo <= q
  BY <1>1, <1>3
<1> QED
  BY <1>1, <1>4, <1>5 DEF q

(* A weighted sum of ratings lies between the weight times the lowest and  *)
(* the weight times the highest.                                           *)
LEMMA WeightedIsWithin ==
  ASSUME NEW S, IsFiniteSet(S), NEW weight, Numbers(weight, S), \A k \in S : 0 <= weight[k],
         NEW rating, NEW lo \in Int, NEW hi \in Int, \A k \in S : rating[k] \in Int /\ lo <= rating[k] /\ rating[k] <= hi,
         NEW weighted, \A k \in S : weighted[k] = weight[k] * rating[k]
  PROVE  /\ SumOf(weighted, S) \in Int /\ SumOf(weight, S) \in Int
         /\ SumOf(weight, S) * lo <= SumOf(weighted, S) /\ SumOf(weighted, S) <= SumOf(weight, S) * hi
<1> DEFINE least == [k \in S |-> weight[k] * lo]
           most == [k \in S |-> weight[k] * hi]
<1>1. \A k \in S : weight[k] \in Int
  BY DEF Numbers
<1>2. \A a, b, c \in Int : 0 <= a /\ b <= c => a * b <= a * c
  OBVIOUS
<1>3. \A k \in S : least[k] <= weighted[k] /\ weighted[k] <= most[k]
  BY <1>1, <1>2
<1>4. Numbers(least, S) /\ Numbers(weighted, S) /\ Numbers(most, S)
  BY <1>1 DEF Numbers
<1>5. SumOf(least, S) = SumOf(weight, S) * lo
  BY SumOfMultiples
<1>6. SumOf(most, S) = SumOf(weight, S) * hi
  BY SumOfMultiples
<1> HIDE DEF least, most
<1>7. SumOf(least, S) <= SumOf(weighted, S) /\ SumOf(weighted, S) <= SumOf(most, S)
  BY <1>3, <1>4, SumIsMonotone
<1>8. SumOf(weighted, S) \in Int /\ SumOf(weight, S) \in Int
  BY <1>4, SumIsInteger
<1> QED
  BY <1>5, <1>6, <1>7, <1>8

(* The parts of a rollup: its weights, and the items that count.           *)
WeightsOf(children) ==
  [k \in DOMAIN children |->
     IF check_weights([c \in DOMAIN children |-> children[c].weight]) = "set" THEN children[k].weight
     ELSE 100 \div Cardinality(DOMAIN children)]

CountedOf(children) == {k \in DOMAIN children : children[k].state \notin EXCLUDED_STATES}
ScoredOf(children) ==
  {k \in CountedOf(children) : children[k].achievement # None /\ children[k].rating # None}
RatedOf(children) == [k \in ScoredOf(children) |-> WeightsOf(children)[k] * children[k].rating]

(* A rollup that has a rating: some weight counts, and enough of it is     *)
(* covered.                                                                *)
LEMMA RollupRates ==
  ASSUME NEW children, NEW scheme, rollup(children, scheme).rating # None
  PROVE  LET total == SumOf(WeightsOf(children), CountedOf(children))
             covered == SumOf(WeightsOf(children), ScoredOf(children))
             rated == SumOf(RatedOf(children), ScoredOf(children))
         IN /\ DOMAIN children # {} /\ total # 0
            /\ check_weights([c \in DOMAIN children |-> children[c].weight]) # "invalid"
            /\ \/ /\ scheme.policy = "count_as_zero"
                  /\ rollup(children, scheme).rating = (rated + (total - covered) * WorstRating(scheme)) \div total
               \/ /\ scheme.policy # "count_as_zero" /\ ~(100 * covered < scheme.gate * total)
                  /\ rollup(children, scheme).rating = (rated + 0) \div covered
<1> DEFINE total == Total(WeightsOf(children), CountedOf(children))
           covered == Total(WeightsOf(children), ScoredOf(children))
           rated == Total(RatedOf(children), ScoredOf(children))
<1>1. /\ DOMAIN children # {} /\ total # 0
      /\ check_weights([c \in DOMAIN children |-> children[c].weight]) # "invalid"
      /\ \/ /\ scheme.policy = "count_as_zero"
            /\ rollup(children, scheme).rating = (rated + (total - covered) * WorstRating(scheme)) \div total
         \/ /\ scheme.policy # "count_as_zero" /\ ~(100 * covered < scheme.gate * total)
            /\ rollup(children, scheme).rating = (rated + 0) \div covered
  BY DEF rollup, Unscored, WeightsOf, CountedOf, ScoredOf, RatedOf
<1> QED
  BY <1>1, TotalIsSum

LEMMA WeightsAreNatural ==
  ASSUME NEW children, IsFiniteSet(DOMAIN children), DOMAIN children # {},
         \A k \in DOMAIN children : children[k].weight # None => children[k].weight \in Int,
         check_weights([c \in DOMAIN children |-> children[c].weight]) # "invalid"
  PROVE  Numbers(WeightsOf(children), DOMAIN children) /\ \A k \in DOMAIN children : 0 <= WeightsOf(children)[k]
<1> DEFINE weight == [c \in DOMAIN children |-> children[c].weight]
<1>1. CASE check_weights(weight) = "set"
  <2>1. Known(weight) = DOMAIN weight /\ \A k \in DOMAIN weight : weight[k] >= 0
    BY <1>1 DEF check_weights, Known
  <2>2. \A k \in DOMAIN children : children[k].weight # None /\ children[k].weight >= 0
    BY <2>1 DEF Known
  <2> QED
    BY <1>1, <2>2 DEF WeightsOf, Numbers
<1>2. CASE check_weights(weight) # "set"
  <2>1. Cardinality(DOMAIN children) \in Nat /\ Cardinality(DOMAIN children) # 0
    BY FS_CardinalityType, FS_EmptySet
  <2>2. \A n \in Nat : n # 0 => 100 \div n \in Int /\ 0 <= 100 \div n
    OBVIOUS
  <2> QED
    BY <1>2, <2>1, <2>2 DEF WeightsOf, Numbers
<1> QED
  BY <1>1, <1>2

LEMMA RollupIsWithin ==
  ASSUME NEW children, IsFiniteSet(DOMAIN children), NEW scheme, scheme.gate \in 1..100,
         NEW lo \in Int, NEW hi \in Int, NEW Ratings, Spans(lo, hi, Ratings), WorstRating(scheme) \in Ratings,
         \A k \in DOMAIN children : /\ children[k].weight # None => children[k].weight \in Int
                                    /\ children[k].rating # None => children[k].rating \in Ratings,
         rollup(children, scheme).rating # None
  PROVE  LET rating == rollup(children, scheme).rating IN rating \in Int /\ lo <= rating /\ rating <= hi
<1> DEFINE weight == WeightsOf(children)
           Counted == CountedOf(children)
           Scored == ScoredOf(children)
           total == SumOf(weight, Counted)
           covered == SumOf(weight, Scored)
           rated == SumOf(RatedOf(children), Scored)
           worst == WorstRating(scheme)
           rating == rollup(children, scheme).rating
<1>1. /\ DOMAIN children # {} /\ total # 0
      /\ check_weights([c \in DOMAIN children |-> children[c].weight]) # "invalid"
      /\ \/ /\ scheme.policy = "count_as_zero"
            /\ rating = (rated + (total - covered) * worst) \div total
         \/ /\ ~(100 * covered < scheme.gate * total)
            /\ rating = (rated + 0) \div covered
  BY RollupRates
<1>2. Numbers(weight, DOMAIN children) /\ \A k \in DOMAIN children : 0 <= weight[k]
  BY <1>1, WeightsAreNatural
<1>3. Counted \subseteq DOMAIN children /\ Scored \in SUBSET Counted
  BY DEF CountedOf, ScoredOf
<1>4. IsFiniteSet(Counted) /\ IsFiniteSet(Scored)
  BY <1>3, FS_Subset
<1>5. /\ Numbers(weight, Counted) /\ Numbers(weight, Scored)
      /\ \A k \in Counted : 0 <= weight[k]
      /\ \A k \in Scored : 0 <= weight[k]
  BY <1>2, <1>3 DEF Numbers
<1>6. \A k \in Scored : /\ children[k].rating \in Int /\ lo <= children[k].rating /\ children[k].rating <= hi
                        /\ RatedOf(children)[k] = weight[k] * children[k].rating
  BY <1>3 DEF ScoredOf, RatedOf, Spans
<1>7. rated \in Int /\ covered \in Int /\ covered * lo <= rated /\ rated <= covered * hi
  <2> DEFINE ratings == [k \in Scored |-> children[k].rating]
             weighted == RatedOf(children)
  <2>1. \A k \in Scored : /\ ratings[k] \in Int /\ lo <= ratings[k] /\ ratings[k] <= hi
                          /\ weighted[k] = weight[k] * ratings[k]
    BY <1>6
  <2> HIDE DEF ratings, weighted, weight, Scored
  <2>2. /\ SumOf(weighted, Scored) \in Int /\ SumOf(weight, Scored) \in Int
        /\ SumOf(weight, Scored) * lo <= SumOf(weighted, Scored)
        /\ SumOf(weighted, Scored) <= SumOf(weight, Scored) * hi
    BY <1>4, <1>5, <2>1, WeightedIsWithin
  <2> QED
    BY <2>2 DEF weighted
<1>8. total \in Nat /\ covered \in Nat
  BY <1>4, <1>5, SumIsNatural
<1>9. covered <= total
  BY <1>3, <1>4, <1>5, SumOfPart
<1>10. worst \in Int /\ lo <= worst /\ worst <= hi
  BY DEF Spans
<1> HIDE DEF weight, Counted, Scored, total, covered, rated, worst, rating
<1>11. total > 0
  BY <1>1, <1>8
<1>12. CASE rating = (rated + (total - covered) * worst) \div total
  <2> DEFINE a == rated + (total - covered) * worst
  <2>1. \A d, x, y \in Int : 0 <= d /\ x <= y => d * x <= d * y
    OBVIOUS
  <2>2. /\ (total - covered) * lo <= (total - covered) * worst
        /\ (total - covered) * worst <= (total - covered) * hi
    BY <1>8, <1>9, <1>10, <2>1
  <2>3. (total - covered) * lo = total * lo - covered * lo /\ (total - covered) * hi = total * hi - covered * hi
    BY <1>8
  <2>4. total * lo = lo * total /\ total * hi = hi * total
    BY <1>8
  <2>5. a \in Int /\ lo * total <= a /\ a <= hi * total
    BY <1>7, <1>8, <1>10, <2>2, <2>3, <2>4
  <2> HIDE DEF a
  <2>6. a \div total \in Int /\ lo <= a \div total /\ a \div total <= hi
    BY <1>8, <1>11, <2>5, QuotientIsWithin
  <2> QED
    BY <1>12, <2>6 DEF rating, a
<1>13. CASE ~(100 * covered < scheme.gate * total) /\ rating = (rated + 0) \div covered
  <2>1. scheme.gate * total > 0
    <3>1. \A g \in 1..100 : \A t \in Nat : t > 0 => g * t > 0
      OBVIOUS
    <3> QED
      BY <1>8, <1>11, <3>1
  <2>2. covered > 0
    <3>1. \A g \in 1..100 : \A t \in Nat : g * t \in Int
      OBVIOUS
    <3>2. scheme.gate * total \in Int
      BY <1>8, <3>1
    <3> QED
      BY <1>8, <1>13, <2>1, <3>2
  <2>3. lo * covered <= rated /\ rated <= hi * covered /\ rated + 0 = rated
    BY <1>7
  <2>4. rated \div covered \in Int /\ lo <= rated \div covered /\ rated \div covered <= hi
    BY <1>7, <2>2, <2>3, QuotientIsWithin
  <2> QED
    BY <1>13, <2>3, <2>4 DEF rating
<1> QED
  BY <1>1, <1>12, <1>13

(* What the schemes and the items of a contract are assumed to be.         *)
PeopleAssumptions ==
  /\ Nobody \notin User /\ Hr \subseteq User
  /\ \A s \in DOMAIN SchemeOf :
       /\ SchemeOf[s].gate \in 1..100
       /\ SchemeOf[s].bands \in Seq([rating : Int, min : Int, max : Int \cup {None}]) \ {<<>>}
  /\ \A weights \in ItemWeights :
       /\ weights \in Seq(Int)
       /\ \A values \in Published : \A i \in DOMAIN weights : "weight" \in DOMAIN values[i]

LEMMA PeopleAssumptionsHold == PeopleAssumptions
BY RolesAssumption, PeopleAssumption, SchemeAssumption, ItemAssumption DEF PeopleAssumptions

LEMMA SequenceIsFinite == ASSUME NEW S, NEW s \in Seq(S) PROVE IsFiniteSet(DOMAIN s)
<1>1. Len(s) \in Nat /\ DOMAIN s = 1..Len(s)
  OBVIOUS
<1>2. IsFiniteSet(1..Len(s))
  BY <1>1, FS_Interval
<1> QED
  BY <1>1, <1>2

(* The ratings of a scheme, and the lowest and highest of them.            *)
LEMMA SchemeRatings ==
  ASSUME PeopleAssumptions, NEW s \in DOMAIN SchemeOf
  PROVE  LET Ratings == RatingsOf(SchemeOf[s])
         IN \E lo, hi \in Ratings : /\ lo \in Int /\ hi \in Int /\ Spans(lo, hi, Ratings)
                                    /\ Min(Ratings) = lo /\ Max(Ratings) = hi
<1> DEFINE bands == SchemeOf[s].bands
           Ratings == {bands[i].rating : i \in DOMAIN bands}
<1>1. /\ bands \in Seq([rating : Int, min : Int, max : Int \cup {None}])
      /\ bands # <<>>
  BY DEF PeopleAssumptions
<1>2. Len(bands) \in Nat /\ Len(bands) # 0 /\ DOMAIN bands = 1..Len(bands)
      /\ \A i \in 1..Len(bands) : bands[i] \in [rating : Int, min : Int, max : Int \cup {None}]
  <2> DEFINE Row == [rating : Int, min : Int, max : Int \cup {None}]
             b == bands
  <2>1. b \in Seq(Row) /\ b # <<>>
    BY <1>1
  <2> HIDE DEF Row, b
  <2>2. Len(b) \in Nat /\ Len(b) # 0 /\ DOMAIN b = 1..Len(b) /\ \A i \in 1..Len(b) : b[i] \in Row
    BY <2>1
  <2> QED
    BY <2>2 DEF Row, b
<1> HIDE DEF bands
<1>3. 1 \in 1..Len(bands)
  BY <1>2
<1>4. Ratings \in SUBSET Int /\ Ratings # {}
  BY <1>2, <1>3
<1>5. IsFiniteSet(DOMAIN bands)
  BY <1>1, SequenceIsFinite
<1>6. IsFiniteSet(Ratings)
  <2> DEFINE f == [i \in DOMAIN bands |-> bands[i].rating]
  <2>1. f \in Surjection(DOMAIN bands, Ratings)
    BY DEF Surjection
  <2> QED
    BY <1>5, <2>1, FS_Surjection
<1>7. Ratings = RatingsOf(SchemeOf[s])
  BY DEF RatingsOf, bands
<1> HIDE DEF Ratings
<1>8. PICK lo \in Ratings, hi \in Ratings : \A x \in Ratings : lo <= x /\ x <= hi
  BY <1>4, <1>6, LeastAndGreatest
<1>9. \A x \in Ratings : x \in Int
  BY <1>4
<1>10. Min(Ratings) = lo /\ Max(Ratings) = hi
  BY <1>8, <1>9 DEF Min, Max
<1> QED
  BY <1>7, <1>8, <1>9, <1>10 DEF Spans

(* A measure is rated by a band of the scheme, or not at all.              *)
LEMMA RateIsOnTheScale ==
  ASSUME PeopleAssumptions, NEW s \in DOMAIN SchemeOf, NEW capped, rate(capped, SchemeOf[s]) # None
  PROVE  rate(capped, SchemeOf[s]) \in RatingsOf(SchemeOf[s])
<1> DEFINE bands == SchemeOf[s].bands
           Holding == {i \in DOMAIN bands : /\ capped >= bands[i].min
                                            /\ bands[i].max = None \/ capped < bands[i].max}
<1>1. rate(capped, SchemeOf[s]) = bands[Min(Holding)].rating /\ Holding # {}
  BY DEF rate
<1>2. bands \in Seq([rating : Int, min : Int, max : Int \cup {None}])
  BY DEF PeopleAssumptions
<1>3. DOMAIN bands \in SUBSET Int /\ IsFiniteSet(DOMAIN bands)
  BY <1>2, SequenceIsFinite
<1>4. Holding \in SUBSET Int /\ IsFiniteSet(Holding) /\ Holding \subseteq DOMAIN bands
  BY <1>3, FS_Subset
<1> HIDE DEF Holding
<1>5. PICK lo \in Holding : \A x \in Holding : lo <= x
  BY <1>1, <1>4, LeastAndGreatest
<1>6. Min(Holding) \in Holding
  BY <1>4, <1>5 DEF Min
<1> QED
  BY <1>1, <1>4, <1>6 DEF RatingsOf

LEMMA EvaluationIsWithin ==
  ASSUME PeopleAssumptions, NEW s \in DOMAIN SchemeOf, NEW weights \in ItemWeights, NEW values \in Published,
         Evaluation(weights, values, SchemeOf[s]).rating # None
  PROVE  Within(Evaluation(weights, values, SchemeOf[s]).rating, SchemeOf[s])
<1> DEFINE scheme == SchemeOf[s]
           item(i) == [values[i] EXCEPT !.weight = weights[i]]
           children == [i \in DOMAIN weights |-> ScoredIndicator(i, item(i), scheme, <<>>)]
           Ratings == RatingsOf(scheme)
<1>1. /\ weights \in Seq(Int)
      /\ \A i \in DOMAIN weights : weights[i] \in Int /\ item(i).weight = weights[i]
  BY DEF PeopleAssumptions
<1>2. IsFiniteSet(DOMAIN children)
  BY <1>1, SequenceIsFinite
<1>3. ASSUME NEW i \in DOMAIN weights
      PROVE  /\ children[i].weight # None => children[i].weight \in Int
             /\ children[i].rating # None => children[i].rating \in Ratings
  <2>1. children[i] = ScoredIndicator(i, item(i), scheme, <<>>)
    OBVIOUS
  <2>2. children[i].weight = item(i).weight
    BY <2>1 DEF ScoredIndicator
  <2>3. \E a : children[i].rating = rate(a, scheme)
    <3>1. i \notin DOMAIN <<>>
      OBVIOUS
    <3> QED
      BY <2>1, <3>1 DEF ScoredIndicator, Overridden
  <2> QED
    BY <1>1, <2>2, <2>3, RateIsOnTheScale
<1>4. PICK lo \in Ratings, hi \in Ratings : /\ lo \in Int /\ hi \in Int /\ Spans(lo, hi, Ratings)
                                            /\ Min(Ratings) = lo /\ Max(Ratings) = hi
  BY SchemeRatings
<1>5. WorstRating(scheme) \in Ratings
  BY <1>4 DEF WorstRating, RatingsOf
<1>6. scheme.gate \in 1..100
  BY DEF PeopleAssumptions
<1>7. Evaluation(weights, values, scheme) = rollup(children, scheme)
  BY DEF Evaluation
<1>8. \A k \in DOMAIN children : /\ children[k].weight # None => children[k].weight \in Int
                                 /\ children[k].rating # None => children[k].rating \in Ratings
  BY <1>3
<1> HIDE DEF children, scheme, Ratings
<1>9. LET rating == rollup(children, scheme).rating IN rating \in Int /\ lo <= rating /\ rating <= hi
  <2>1. rollup(children, scheme).rating # None
    BY <1>7 DEF scheme
  <2> QED
    BY <1>2, <1>4, <1>5, <1>6, <1>8, <2>1, RollupIsWithin
<1> QED
  BY <1>4, <1>7, <1>9 DEF Within, scheme, Ratings

(* An appeal is decided within the scale the contract was evaluated on.    *)
LEMMA AdjustedIsWithin ==
  ASSUME PeopleAssumptions, NEW row, row.scheme \in DOMAIN SchemeOf, NEW rating, Adjustable(row, rating)
  PROVE  Within(rating, SchemeOf[row.scheme])
<1> DEFINE Ratings == RatingsOf(SchemeOf[row.scheme])
<1>1. PICK lo \in Ratings, hi \in Ratings : /\ lo \in Int /\ hi \in Int /\ Spans(lo, hi, Ratings)
                                            /\ Min(Ratings) = lo /\ Max(Ratings) = hi
  BY SchemeRatings
<1>2. rating \in Min(Ratings)..Max(Ratings)
  BY DEF Adjustable, EvaluationScheme, RatingsOf
<1>3. lo <= rating /\ rating <= hi
  BY <1>1, <1>2
<1> QED
  BY <1>1, <1>3 DEF Within

-----------------------------------------------------------------------------
(* Contracts and appraisals, while requests race.                          *)
IsContract(row) ==
  /\ DOMAIN row = {"status", "holder", "supervisor", "weights", "scheme", "evaluated", "rating", "label"}
  /\ row = [c \in DOMAIN row |-> row[c]]
IsAppraisal(row) ==
  /\ DOMAIN row = {"status", "employee", "appraiser", "self", "assessed", "overall"}
  /\ row = [c \in DOMAIN row |-> row[c]]

(* A module in use stays in use: a confirmation replaces what it found by  *)
(* its own.                                                                *)
OnPeople(q, table) ==
  /\ q.step = "policy" => q.module \in MODULES
  /\ q.step = "contract" =>
       IsContract(q.new) /\ q.new.status # "absent" /\ table["performance_contracts"] # {}
  /\ q.step = "appraisal" =>
       IsAppraisal(q.new) /\ q.new.status # "absent" /\ table["staff_appraisal"] # {}

PeopleInvariant ==
  /\ DOMAIN req = Worker /\ DOMAIN policies = MODULES
  /\ IsContract(contract) /\ IsAppraisal(appraisal)
  /\ contract.status # "absent" => Gate("performance_contracts")
  /\ appraisal.status # "absent" => Gate("staff_appraisal")
  /\ approvedScheme # None => approvedScheme \in DOMAIN SchemeOf
  /\ \A w \in Worker : OnPeople(req[w], policies)

LEMMA OffPeople ==
  ASSUME NEW q, NEW table, q.step \notin {"policy", "contract", "appraisal"}
  PROVE  OnPeople(q, table)
BY DEF OnPeople

LEMMA PeopleInitHolds == ASSUME PlanningInit PROVE PeopleInvariant
<1> USE DEF PlanningInit, PeopleInit, RequestsInit
<1>1. \A w \in Worker : req[w].step \in {"idle", "off"}
  BY DEF Idle, Off
<1>2. \A w \in Worker : OnPeople(req[w], policies)
  BY <1>1, OffPeople
<1>3. IsContract(contract) /\ contract.status = "absent"
  BY DEF NoContract, IsContract
<1>4. IsAppraisal(appraisal) /\ appraisal.status = "absent"
  BY DEF NoAppraisal, IsAppraisal
<1> QED
  BY <1>2, <1>3, <1>4 DEF PeopleInvariant

(* One worker moves on, and the modules that are in use stay so.           *)
LEMMA PeopleKeep ==
  ASSUME PeopleInvariant, NEW w \in Worker, req' = [req EXCEPT ![w] = req'[w]], OnPeople(req'[w], policies'),
         DOMAIN policies' = MODULES, \A m \in MODULES : policies[m] # {} => policies'[m] # {},
         IsContract(contract'), contract'.status # "absent" => Gate("performance_contracts")',
         IsAppraisal(appraisal'), appraisal'.status # "absent" => Gate("staff_appraisal")',
         approvedScheme' = approvedScheme
  PROVE  PeopleInvariant'
<1>1. DOMAIN req' = Worker /\ \A v \in Worker : v # w => req'[v] = req[v]
  <2>1. DOMAIN req = Worker
    BY DEF PeopleInvariant
  <2> QED
    BY <2>1
<1>2. ASSUME NEW v \in Worker PROVE OnPeople(req'[v], policies')
  <2>1. CASE v = w
    BY <2>1
  <2>2. CASE v # w
    <3>1. OnPeople(req[v], policies) /\ req'[v] = req[v]
      BY <1>1, <2>2 DEF PeopleInvariant
    <3> QED
      BY <3>1 DEF OnPeople, MODULES
  <2> QED
    BY <2>1, <2>2
<1> QED
  BY <1>1, <1>2 DEF PeopleInvariant

LEMMA PeopleLoadKeeps ==
  ASSUME PeopleInvariant, NEW w \in Worker, req' = [req EXCEPT ![w] = req'[w]], OnPeople(req'[w], policies),
         UNCHANGED <<policies, approvedScheme, contract, appraisal>>
  PROVE  PeopleInvariant'
<1>1. \A m \in MODULES : policies[m] # {} => policies'[m] # {}
  OBVIOUS
<1>2. /\ DOMAIN policies' = MODULES
      /\ IsContract(contract') /\ (contract'.status # "absent" => Gate("performance_contracts")')
      /\ IsAppraisal(appraisal') /\ (appraisal'.status # "absent" => Gate("staff_appraisal")')
  BY DEF PeopleInvariant, Gate
<1> QED
  BY <1>1, <1>2, PeopleKeep

LEMMA PoliciesKeep ==
  ASSUME PeopleInvariant, NEW w \in Worker, CommitPolicy(w) PROVE PeopleInvariant'
<1> DEFINE q == req[w]
<1>1. /\ q.module \in MODULES /\ DOMAIN policies = MODULES /\ DOMAIN req = Worker
      /\ policies' = [policies EXCEPT ![q.module] = (@ \ q.old) \cup {q.id}]
      /\ req' = [req EXCEPT ![w] = Idle]
      /\ UNCHANGED <<approvedScheme, contract, appraisal>>
  BY DEF CommitPolicy, PeopleInvariant, OnPeople, Finish
<1>2. DOMAIN policies' = MODULES /\ \A m \in MODULES : policies[m] # {} => policies'[m] # {}
  BY <1>1
<1>3. req'[w] = Idle /\ OnPeople(req'[w], policies')
  BY <1>1, OffPeople DEF Idle
<1>4. /\ IsContract(contract') /\ (contract'.status # "absent" => Gate("performance_contracts")')
      /\ IsAppraisal(appraisal') /\ (appraisal'.status # "absent" => Gate("staff_appraisal")')
  BY <1>1, <1>2 DEF PeopleInvariant, Gate, MODULES
<1> QED
  BY <1>1, <1>2, <1>3, <1>4, PeopleKeep

(* A row that columns are assigned to keeps its columns.                   *)
LEMMA RowsKeepTheirColumns ==
  /\ \A loaded, new, row : IsContract(row) => IsContract(Flush(loaded, new, row))
  /\ \A loaded, new, row : IsAppraisal(row) => IsAppraisal(Flush(loaded, new, row))
  /\ \A row, values : IsContract(row) => IsContract(Assign(row, values))
  /\ \A row, values : IsAppraisal(row) => IsAppraisal(Assign(row, values))
BY DEF IsContract, IsAppraisal, Flush, Assign

LEMMA CommitContractKeeps ==
  ASSUME PeopleInvariant, NEW w \in Worker, CommitContract(w) PROVE PeopleInvariant'
<1>1. /\ req[w].step = "contract" /\ DOMAIN req = Worker
      /\ contract' = Flush(req[w].loaded, req[w].new, contract)
      /\ req' = [req EXCEPT ![w] = Idle]
      /\ UNCHANGED <<policies, approvedScheme, appraisal>>
  BY DEF CommitContract, PeopleInvariant, Finish
<1>2. Gate("performance_contracts")'
  BY <1>1 DEF PeopleInvariant, OnPeople, Gate
<1>3. IsContract(contract')
  BY <1>1, RowsKeepTheirColumns DEF PeopleInvariant
<1>4. req'[w] = Idle /\ OnPeople(req'[w], policies')
  BY <1>1, OffPeople DEF Idle
<1>5. /\ DOMAIN policies' = MODULES /\ \A m \in MODULES : policies[m] # {} => policies'[m] # {}
      /\ IsAppraisal(appraisal') /\ (appraisal'.status # "absent" => Gate("staff_appraisal")')
  BY <1>1 DEF PeopleInvariant, Gate
<1> QED
  BY <1>1, <1>2, <1>3, <1>4, <1>5, PeopleKeep

LEMMA CommitAppraisalKeeps ==
  ASSUME PeopleInvariant, NEW w \in Worker, CommitAppraisal(w) PROVE PeopleInvariant'
<1>1. /\ req[w].step = "appraisal" /\ DOMAIN req = Worker
      /\ appraisal' = Flush(req[w].loaded, req[w].new, appraisal)
      /\ req' = [req EXCEPT ![w] = Idle]
      /\ UNCHANGED <<policies, approvedScheme, contract>>
  BY DEF CommitAppraisal, PeopleInvariant, Finish
<1>2. Gate("staff_appraisal")'
  BY <1>1 DEF PeopleInvariant, OnPeople, Gate
<1>3. IsAppraisal(appraisal')
  BY <1>1, RowsKeepTheirColumns DEF PeopleInvariant
<1>4. req'[w] = Idle /\ OnPeople(req'[w], policies')
  BY <1>1, OffPeople DEF Idle
<1>5. /\ DOMAIN policies' = MODULES /\ \A m \in MODULES : policies[m] # {} => policies'[m] # {}
      /\ IsContract(contract') /\ (contract'.status # "absent" => Gate("performance_contracts")')
  BY <1>1 DEF PeopleInvariant, Gate
<1> QED
  BY <1>1, <1>2, <1>3, <1>4, <1>5, PeopleKeep

(* What a request that loaded a contract leaves to be committed.           *)
LEMMA ContractMoves ==
  ASSUME NEW name \in DOMAIN CONTRACT_FLOW, NEW row, IsContract(row)
  PROVE  LET new == [row EXCEPT !.status = TargetOf(CONTRACT_FLOW, name)]
         IN /\ IsContract(new) /\ new.status = TargetOf(CONTRACT_FLOW, name) /\ new.status # "absent"
            /\ \A c \in DOMAIN row : c # "status" => new[c] = row[c]
<1>1. TargetOf(CONTRACT_FLOW, name) # "absent"
  BY ContractFlow DEF TargetOf
<1> QED
  BY <1>1 DEF IsContract

LEMMA AppraisalMoves ==
  ASSUME NEW name \in DOMAIN APPRAISAL_FLOW, NEW row, IsAppraisal(row)
  PROVE  LET new == [row EXCEPT !.status = TargetOf(APPRAISAL_FLOW, name)]
         IN /\ IsAppraisal(new) /\ new.status = TargetOf(APPRAISAL_FLOW, name) /\ new.status # "absent"
            /\ \A c \in DOMAIN row : c # "status" => new[c] = row[c]
<1>1. TargetOf(APPRAISAL_FLOW, name) # "absent"
  BY AppraisalFlow DEF TargetOf
<1> QED
  BY <1>1 DEF IsAppraisal

LEMMA TransitionContractKeeps ==
  ASSUME PeopleInvariant, NEW w \in Worker, NEW u, NEW name, NEW new, IsContract(new),
         TransitionContract(w, u, name, new)
  PROVE  PeopleInvariant'
<1> DEFINE q == [step |-> "contract", name |-> name, loaded |-> contract,
                 new |-> [new EXCEPT !.status = TargetOf(CONTRACT_FLOW, name)]]
<1>1. name \in DOMAIN CONTRACT_FLOW /\ Gate("performance_contracts")
  BY DEF TransitionContract, Permits
<1>2. IsContract(q.new) /\ q.new.status # "absent"
  BY <1>1, ContractMoves
<1>3. OnPeople(q, policies)
  <2>1. q.step = "contract"
    OBVIOUS
  <2> QED
    BY <1>1, <1>2, <2>1 DEF OnPeople, Gate
<1>4. /\ req' = [req EXCEPT ![w] = q] /\ DOMAIN req = Worker
      /\ UNCHANGED <<policies, approvedScheme, contract, appraisal>>
  BY DEF TransitionContract, Begin, PeopleInvariant
<1> HIDE DEF q
<1>5. req'[w] = q
  BY <1>4
<1> QED
  BY <1>3, <1>4, <1>5, PeopleLoadKeeps

LEMMA TransitionAppraisalKeeps ==
  ASSUME PeopleInvariant, NEW w \in Worker, NEW u, NEW name, NEW new, IsAppraisal(new),
         TransitionAppraisal(w, u, name, new)
  PROVE  PeopleInvariant'
<1> DEFINE q == [step |-> "appraisal", name |-> name, by |-> u, loaded |-> appraisal,
                 new |-> [new EXCEPT !.status = TargetOf(APPRAISAL_FLOW, name)]]
<1>1. name \in DOMAIN APPRAISAL_FLOW /\ Gate("staff_appraisal")
  BY DEF TransitionAppraisal, Permits
<1>2. IsAppraisal(q.new) /\ q.new.status # "absent"
  BY <1>1, AppraisalMoves
<1>3. OnPeople(q, policies)
  <2>1. q.step = "appraisal"
    OBVIOUS
  <2> QED
    BY <1>1, <1>2, <2>1 DEF OnPeople, Gate
<1>4. /\ req' = [req EXCEPT ![w] = q] /\ DOMAIN req = Worker
      /\ UNCHANGED <<policies, approvedScheme, contract, appraisal>>
  BY DEF TransitionAppraisal, Begin, PeopleInvariant
<1> HIDE DEF q
<1>5. req'[w] = q
  BY <1>4
<1> QED
  BY <1>3, <1>4, <1>5, PeopleLoadKeeps

(* The rows the handlers of a contract leave.                              *)
LEMMA ContractRows ==
  ASSUME NEW row, IsContract(row)
  PROVE  /\ \A values : IsContract(Evaluate(row, values))
         /\ \A rating : IsContract(Adjust(row, rating))
<1>1. ASSUME NEW values PROVE IsContract(Evaluate(row, values))
  BY DEF IsContract, Evaluate
<1>2. ASSUME NEW rating PROVE IsContract(Adjust(row, rating))
  BY DEF IsContract, Adjust
<1> QED
  BY <1>1, <1>2

LEMMA AppraisalRows ==
  ASSUME NEW row, IsAppraisal(row)
  PROVE  /\ \A marks : IsAppraisal([row EXCEPT !.self = marks])
         /\ \A marks : IsAppraisal([row EXCEPT !.assessed = marks, !.overall = Overall(marks)])
         /\ \A mark : IsAppraisal([row EXCEPT !.overall = mark])
<1>1. \A marks : IsAppraisal([row EXCEPT !.self = marks])
  BY DEF IsAppraisal
<1>2. \A marks : IsAppraisal([row EXCEPT !.assessed = marks, !.overall = Overall(marks)])
  BY DEF IsAppraisal
<1>3. \A mark : IsAppraisal([row EXCEPT !.overall = mark])
  BY DEF IsAppraisal
<1> QED
  BY Zenon, <1>1, <1>2, <1>3

LEMMA RecordsAreCreated ==
  ASSUME PeopleInvariant, NEW u, NEW v,
         \/ \E h \in User, weights \in ItemWeights : CreateContract(u, h, v, weights)
         \/ \E e \in User : CreateAppraisal(u, e, v)
  PROVE  PeopleInvariant'
<1>1. ASSUME NEW h, NEW weights, CreateContract(u, h, v, weights) PROVE PeopleInvariant'
  <2>1. /\ Gate("performance_contracts")
        /\ UNCHANGED <<policies, approvedScheme, appraisal, req>>
    BY <1>1 DEF CreateContract
  <2>2. IsContract(contract')
    <3>1. IsContract(NoContract)
      BY DEF IsContract, NoContract
    <3> QED
      BY <1>1, <3>1, RowsKeepTheirColumns DEF CreateContract
  <2> QED
    BY <2>1, <2>2 DEF PeopleInvariant, Gate
<1>2. ASSUME NEW e, CreateAppraisal(u, e, v) PROVE PeopleInvariant'
  <2>1. /\ Gate("staff_appraisal")
        /\ UNCHANGED <<policies, approvedScheme, contract, req>>
    BY <1>2 DEF CreateAppraisal
  <2>2. IsAppraisal(appraisal')
    <3>1. IsAppraisal(NoAppraisal)
      BY DEF IsAppraisal, NoAppraisal
    <3> QED
      BY <1>2, <3>1, RowsKeepTheirColumns DEF CreateAppraisal
  <2> QED
    BY <2>1, <2>2 DEF PeopleInvariant, Gate
<1> QED
  BY <1>1, <1>2

LEMMA PoliciesAreConfirmed ==
  ASSUME PeopleInvariant, NEW w \in Worker, NEW u, NEW module \in MODULES, ConfirmPolicy(w, u, module)
  PROVE  PeopleInvariant'
<1> DEFINE q == [step |-> "policy", module |-> module, old |-> policies[module],
                 id |-> Cardinality(UNION {policies[m] : m \in MODULES}) + 1]
<1>1. /\ req' = [req EXCEPT ![w] = q] /\ DOMAIN req = Worker
      /\ UNCHANGED <<policies, approvedScheme, contract, appraisal>>
  BY DEF ConfirmPolicy, Begin, PeopleInvariant
<1>2. OnPeople(q, policies)
  BY DEF OnPeople
<1> HIDE DEF q
<1>3. req'[w] = q
  BY <1>1
<1> QED
  BY <1>1, <1>2, <1>3, PeopleLoadKeeps

LEMMA PeopleRecordsKeep == ASSUME PeopleInvariant, PeopleNext PROVE PeopleInvariant'
<1>0. IsContract(contract) /\ IsAppraisal(appraisal)
  BY DEF PeopleInvariant
<1>1. ASSUME NEW s \in DOMAIN SchemeOf \cup {None}, TransitionScheme(s) PROVE PeopleInvariant'
  BY <1>1 DEF TransitionScheme, PeopleInvariant, Gate
<1>2. ASSUME NEW w \in Worker, NEW u \in User,
             \/ \E name \in DOMAIN CONTRACT_FLOW : SignAcceptOrAppeal(w, u, name)
             \/ \E values \in Published : EvaluateContract(w, u, values)
             \/ DecideContract(w, u)
      PROVE  PeopleInvariant'
  BY <1>0, <1>2, ContractRows, TransitionContractKeeps DEF SignAcceptOrAppeal, EvaluateContract, DecideContract
<1>3. ASSUME NEW w \in Worker, NEW u \in User,
             \/ \E name \in DOMAIN APPRAISAL_FLOW : AgreeAcknowledgeOrAppeal(w, u, name)
             \/ \E marks \in MarkSheets : SelfAssess(w, u, marks) \/ Appraise(w, u, marks)
             \/ \E name \in DOMAIN APPRAISAL_FLOW : DecideOrCorrect(w, u, name)
      PROVE  PeopleInvariant'
  BY <1>0, <1>3, AppraisalRows, TransitionAppraisalKeeps
     DEF AgreeAcknowledgeOrAppeal, SelfAssess, Appraise, DecideOrCorrect
<1>4. ASSUME NEW w \in Worker, CommitPolicy(w) \/ CommitContract(w) \/ CommitAppraisal(w) PROVE PeopleInvariant'
  BY <1>4, PoliciesKeep, CommitContractKeeps, CommitAppraisalKeeps
<1> QED
  BY <1>1, <1>2, <1>3, <1>4, RecordsAreCreated, PoliciesAreConfirmed DEF PeopleNext, Waiting

LEMMA OthersKeepPeople ==
  ASSUME PeopleInvariant, UNCHANGED peopleVars,
         \/ UNCHANGED req
         \/ \E w \in Worker : /\ req' = [req EXCEPT ![w] = req'[w]]
                              /\ req'[w].step \notin {"policy", "contract", "appraisal"}
  PROVE  PeopleInvariant'
<1>1. UNCHANGED <<policies, approvedScheme, contract, appraisal>>
  BY DEF peopleVars
<1>2. CASE UNCHANGED req
  BY <1>1, <1>2 DEF PeopleInvariant, Gate
<1>3. ASSUME NEW w \in Worker, req' = [req EXCEPT ![w] = req'[w]],
             req'[w].step \notin {"policy", "contract", "appraisal"}
      PROVE  PeopleInvariant'
  BY <1>1, <1>3, OffPeople, PeopleLoadKeeps
<1> QED
  BY <1>2, <1>3

LEMMA PeopleStep ==
  ASSUME PeopleInvariant, [PlanningNext]_planningVars PROVE PeopleInvariant'
<1>1. CASE PeopleNext
  BY <1>1, PeopleRecordsKeep
<1>2. CASE PlansNext /\ UNCHANGED peopleVars
  BY <1>2, PlanRequests, OthersKeepPeople DEF PeopleInvariant, TakesUp
<1>3. CASE EvaluationsNext /\ UNCHANGED peopleVars
  BY <1>3, EvaluationRequests, OthersKeepPeople DEF PeopleInvariant, TakesUp
<1>4. CASE UNCHANGED planningVars
  BY <1>4, OthersKeepPeople DEF planningVars
<1> QED
  BY <1>1, <1>2, <1>3, <1>4 DEF PlanningNext

(* However confirmations race, a module with records has a policy in force.*)
THEOREM PeopleInvariantHolds == PlanningSpec => []PeopleInvariant
<1>1. PlanningInit => PeopleInvariant
  BY PeopleInitHolds
<1>2. PeopleInvariant /\ [PlanningNext]_planningVars => PeopleInvariant'
  BY PeopleStep
<1> QED
  BY <1>1, <1>2, PTL DEF PlanningSpec

(* No step of a contract or an appraisal is withheld from the one who may   *)
(* take it, and only the evaluation without an approved scheme is offered  *)
(* and refused (contract_dict and transition_contract, appraisal_dict and  *)
(* transition_appraisal).  What exists is in a module whose gate is open.  *)
THEOREM PeopleOffersAreTaken == PlanningSpec => []PeopleOffersMatchTheGuards
<1>1. ASSUME PeopleInvariant, NEW u \in User, NEW name \in DOMAIN CONTRACT_FLOW
      PROVE  name \in OfferedContractSteps(u) <=> TakesContractStep(u, name) \/
               /\ SchemeIsMissing(name)
               /\ contract.status = "signed"
               /\ u = contract.supervisor
  <2>1. Permits(CONTRACT_FLOW, name, contract.status, TRUE) => Gate("performance_contracts")
    BY <1>1, ContractFlow DEF Permits, PeopleInvariant
  <2>2. name = "evaluate" => (Permits(CONTRACT_FLOW, name, contract.status, TRUE) <=> contract.status = "signed")
    BY ContractFlow DEF Permits
  <2>3. name = "evaluate" => (MayTransitionContract(u, name) <=> u = contract.supervisor)
    BY DEF MayTransitionContract
  <2>4. SchemeIsMissing(name) => name = "evaluate"
    BY DEF SchemeIsMissing
  <2>5. name \in OfferedContractSteps(u) <=>
          Permits(CONTRACT_FLOW, name, contract.status, TRUE) /\ MayTransitionContract(u, name)
    BY ContractOffers
  <2> QED
    BY <2>1, <2>2, <2>3, <2>4, <2>5 DEF TakesContractStep
<1>2. ASSUME PeopleInvariant, NEW u \in User, NEW name \in DOMAIN APPRAISAL_FLOW
      PROVE  name \in OfferedAppraisalSteps(u) <=> TakesAppraisalStep(u, name)
  <2>1. Permits(APPRAISAL_FLOW, name, appraisal.status, TRUE) => Gate("staff_appraisal")
    BY <1>2, AppraisalFlow DEF Permits, PeopleInvariant
  <2> QED
    BY <2>1, AppraisalOffers DEF TakesAppraisalStep
<1>3. PeopleInvariant => PeopleOffersMatchTheGuards
  BY <1>1, <1>2 DEF PeopleOffersMatchTheGuards
<1> QED
  BY <1>3, PeopleInvariantHolds, PTL
-----------------------------------------------------------------------------
(* Served one after the other, a request finds the row as it loaded it.    *)
OnItsScheme(row) ==
  row.scheme # None =>
    /\ row.scheme \in DOMAIN SchemeOf
    /\ row.label = band_for_rating(row.rating, SchemeOf[row.scheme])
    /\ row.rating # None => Within(row.rating, SchemeOf[row.scheme])

ContractServed(q, row) ==
  q.step = "contract" => q.loaded = row /\ q.new.weights \in ItemWeights /\ OnItsScheme(q.new)

ContractIsSound ==
  OnItsScheme(contract) /\ (contract.status # "absent" => contract.weights \in ItemWeights)

ContractIsRated ==
  Serial => ContractIsSound /\ \A w \in Worker : ContractServed(req[w], contract)

(* Who moves the overall rating of an appraisal.                           *)
MovedBy(name, by, row) ==
  IF name = "appraise" THEN by = row.appraiser ELSE by \in Hr \ {row.appraiser, row.employee}

AppraisalServed(q, row) ==
  q.step = "appraisal" =>
    /\ q.loaded = row
    /\ q.new.appraiser = row.appraiser /\ q.new.employee = row.employee
    /\ q.new.overall # row.overall => MovedBy(q.name, q.by, row)

TrailIsSound ==
  /\ \E S : trail \in Seq(S)
  /\ appraisal.status = "absent" => trail = <<>>
  /\ trail = <<>> => appraisal.overall = None
  /\ \A i \in 1..(Len(trail) - 1) : trail[i].after = trail[i + 1].before
  /\ trail # <<>> => trail[1].before = None /\ appraisal.overall = trail[Len(trail)].after
  /\ \A i \in DOMAIN trail : trail[i].before # trail[i].after => MovedBy(trail[i].name, trail[i].by, appraisal)

AppraisalIsTraced == Serial => TrailIsSound /\ \A w \in Worker : AppraisalServed(req[w], appraisal)

PeopleAreServed == ContractIsRated /\ AppraisalIsTraced

LEMMA ServedOffPeople ==
  ASSUME NEW q, NEW row, NEW other, q.step \notin {"contract", "appraisal"}
  PROVE  ContractServed(q, row) /\ AppraisalServed(q, other)
BY DEF ContractServed, AppraisalServed

LEMMA SoundPeopleStay ==
  ASSUME UNCHANGED <<contract, appraisal, trail>>
  PROVE  (ContractIsSound => ContractIsSound') /\ (TrailIsSound => TrailIsSound')
BY DEF ContractIsSound, TrailIsSound

LEMMA PeopleLoadIsSerial ==
  ASSUME PeopleInvariant, PeopleAreServed, NEW w \in Worker, NEW q, Begin(w, q), q.step # "off",
         Serial => ContractServed(q, contract) /\ AppraisalServed(q, appraisal),
         UNCHANGED <<contract, appraisal, trail>>
  PROVE  PeopleAreServed'
<1>1. /\ Serial' <=> Serial
      /\ req'[w] = q
      /\ \A v \in Worker : v # w => req'[v] = req[v]
  BY RequestsAssumption, SerialBegins DEF PeopleInvariant
<1>2. Serial => ContractIsSound' /\ TrailIsSound'
  BY SoundPeopleStay DEF PeopleAreServed, ContractIsRated, AppraisalIsTraced
<1>3. Serial => \A v \in Worker : ContractServed(req'[v], contract') /\ AppraisalServed(req'[v], appraisal')
  BY <1>1 DEF PeopleAreServed, ContractIsRated, AppraisalIsTraced
<1> QED
  BY <1>1, <1>2, <1>3 DEF PeopleAreServed, ContractIsRated, AppraisalIsTraced

LEMMA PeopleCommitIsSerial ==
  ASSUME PeopleInvariant, NEW w \in Worker, InFlight(w), Finish(w), Serial => ContractIsSound' /\ TrailIsSound'
  PROVE  PeopleAreServed'
<1>1. /\ Serial' <=> Serial
      /\ Serial => \A v \in Worker : req'[v].step \in {"idle", "off"}
  BY RequestsAssumption, SerialFinishes DEF PeopleInvariant
<1>2. Serial => \A v \in Worker : ContractServed(req'[v], contract') /\ AppraisalServed(req'[v], appraisal')
  BY <1>1, ServedOffPeople
<1> QED
  BY <1>1, <1>2 DEF PeopleAreServed, ContractIsRated, AppraisalIsTraced

(* A contract that moves is one that was drawn up.                         *)
LEMMA ContractLoadIsSerial ==
  ASSUME PeopleInvariant, PeopleAreServed, NEW w \in Worker, NEW u, NEW name, NEW new, IsContract(new),
         Serial => new.weights = contract.weights /\ OnItsScheme(new),
         TransitionContract(w, u, name, new)
  PROVE  PeopleAreServed'
<1> DEFINE moved == [new EXCEPT !.status = TargetOf(CONTRACT_FLOW, name)]
           q == [step |-> "contract", name |-> name, loaded |-> contract, new |-> moved]
<1>1. /\ name \in DOMAIN CONTRACT_FLOW /\ contract.status \in CONTRACT_FLOW[name].sources
      /\ Begin(w, q) /\ UNCHANGED <<contract, appraisal, trail>>
  BY DEF TransitionContract, Permits
<1>2. contract.status # "absent"
  BY <1>1, ContractFlow
<1>3. \A c \in DOMAIN new : c # "status" => moved[c] = new[c]
  BY <1>1, ContractMoves
<1>4. moved.weights = new.weights /\ moved.scheme = new.scheme /\ moved.rating = new.rating /\ moved.label = new.label
  BY <1>3 DEF IsContract
<1> HIDE DEF moved
<1>5. Serial => ContractServed(q, contract)
  <2>1. Serial => contract.weights \in ItemWeights
    BY <1>2 DEF PeopleAreServed, ContractIsRated, ContractIsSound
  <2> QED
    BY <1>4, <2>1 DEF ContractServed, OnItsScheme
<1>6. AppraisalServed(q, appraisal) /\ q.step # "off"
  BY DEF AppraisalServed
<1> HIDE DEF q
<1> QED
  BY <1>1, <1>5, <1>6, PeopleLoadIsSerial

LEMMA EvaluatedIsOnItsScheme ==
  ASSUME PeopleAssumptions, NEW row, IsContract(row), row.weights \in ItemWeights,
         approvedScheme \in DOMAIN SchemeOf, NEW values \in Published
  PROVE  Evaluate(row, values).weights = row.weights /\ OnItsScheme(Evaluate(row, values))
<1> DEFINE scheme == SchemeOf[approvedScheme]
           new == Evaluate(row, values)
           rating == Evaluation(row.weights, values, scheme).rating
<1>1. /\ new.weights = row.weights /\ new.scheme = approvedScheme /\ new.rating = rating
      /\ new.label = band_for_rating(rating, scheme)
  BY DEF IsContract, Evaluate
<1>2. rating # None => Within(rating, scheme)
  BY EvaluationIsWithin
<1> HIDE DEF new, rating
<1> QED
  BY <1>1, <1>2 DEF OnItsScheme, new

LEMMA AdjustedIsOnItsScheme ==
  ASSUME PeopleAssumptions, NEW row, IsContract(row), row.scheme \in DOMAIN SchemeOf,
         NEW rating, Adjustable(row, rating)
  PROVE  Adjust(row, rating).weights = row.weights /\ OnItsScheme(Adjust(row, rating))
<1> DEFINE new == Adjust(row, rating)
<1>1. /\ new.weights = row.weights /\ new.scheme = row.scheme /\ new.rating = rating
      /\ new.label = band_for_rating(rating, SchemeOf[row.scheme])
  BY DEF IsContract, Adjust, EvaluationScheme
<1>2. Within(rating, SchemeOf[row.scheme])
  BY AdjustedIsWithin
<1> HIDE DEF new
<1> QED
  BY <1>1, <1>2 DEF OnItsScheme, new

LEMMA ContractLoadsAreSerial ==
  ASSUME PeopleAssumptions, PeopleInvariant, PeopleAreServed, NEW w \in Worker, NEW u \in User,
         \/ \E name \in DOMAIN CONTRACT_FLOW : SignAcceptOrAppeal(w, u, name)
         \/ \E values \in Published : EvaluateContract(w, u, values)
         \/ DecideContract(w, u)
  PROVE  PeopleAreServed'
<1>0. IsContract(contract) /\ (Serial => ContractIsSound)
  BY DEF PeopleInvariant, PeopleAreServed, ContractIsRated
<1>1. ASSUME NEW name, TransitionContract(w, u, name, contract) PROVE PeopleAreServed'
  BY <1>0, <1>1, ContractLoadIsSerial DEF ContractIsSound
<1>2. ASSUME NEW values \in Published, EvaluateContract(w, u, values) PROVE PeopleAreServed'
  <2>1. /\ approvedScheme \in DOMAIN SchemeOf /\ contract.status # "absent"
        /\ TransitionContract(w, u, "evaluate", Evaluate(contract, values))
    BY <1>2, ContractFlow DEF EvaluateContract, SchemeIsMissing, TransitionContract, Permits, PeopleInvariant
  <2>2. Serial => /\ Evaluate(contract, values).weights = contract.weights
                  /\ OnItsScheme(Evaluate(contract, values))
    BY <1>0, <2>1, EvaluatedIsOnItsScheme DEF ContractIsSound
  <2> QED
    BY <1>0, <2>1, <2>2, ContractRows, ContractLoadIsSerial
<1>3. ASSUME NEW rating, contract.scheme # None, Adjustable(contract, rating),
             TransitionContract(w, u, "decide", Adjust(contract, rating))
      PROVE  PeopleAreServed'
  <2>1. Serial => contract.scheme \in DOMAIN SchemeOf
    BY <1>0, <1>3 DEF ContractIsSound, OnItsScheme
  <2>2. Serial => /\ Adjust(contract, rating).weights = contract.weights
                  /\ OnItsScheme(Adjust(contract, rating))
    BY <1>0, <1>3, <2>1, AdjustedIsOnItsScheme
  <2> QED
    BY <1>0, <1>3, <2>2, ContractRows, ContractLoadIsSerial
<1> QED
  BY <1>1, <1>2, <1>3 DEF SignAcceptOrAppeal, DecideContract

LEMMA CommitContractIsSerial ==
  ASSUME PeopleInvariant, PeopleAreServed, NEW w \in Worker, CommitContract(w)
  PROVE  PeopleAreServed'
<1> DEFINE q == req[w]
<1>1. /\ q.step = "contract" /\ contract' = Flush(q.loaded, q.new, contract)
      /\ Finish(w) /\ InFlight(w) /\ UNCHANGED <<appraisal, trail>>
  BY DEF CommitContract, InFlight
<1>2. IsContract(contract) /\ IsContract(q.new)
  BY <1>1 DEF PeopleInvariant, OnPeople
<1>3. ASSUME Serial PROVE ContractIsSound'
  <2>1. q.loaded = contract /\ q.new.weights \in ItemWeights /\ OnItsScheme(q.new)
    BY <1>1, <1>3 DEF PeopleAreServed, ContractIsRated, ContractServed
  <2>2. q.new = [c \in DOMAIN contract |-> q.new[c]]
    BY <1>2 DEF IsContract
  <2>3. contract' = q.new
    BY <1>1, <2>1, <2>2, FlushIsWhole
  <2> QED
    BY <2>1, <2>3 DEF ContractIsSound, OnItsScheme
<1>4. Serial => TrailIsSound'
  BY <1>1 DEF PeopleAreServed, AppraisalIsTraced, TrailIsSound
<1> QED
  BY <1>1, <1>3, <1>4, PeopleCommitIsSerial

(* A step of an appraisal that leaves the parties, and the overall rating  *)
(* unless it is the step of one who may move it.                           *)
LEMMA AppraisalLoadIsSerial ==
  ASSUME PeopleInvariant, PeopleAreServed, NEW w \in Worker, NEW u, NEW name, NEW new, IsAppraisal(new),
         new.appraiser = appraisal.appraiser, new.employee = appraisal.employee,
         new.overall # appraisal.overall => name \in {"appraise", "decide", "correct"},
         TransitionAppraisal(w, u, name, new)
  PROVE  PeopleAreServed'
<1> DEFINE moved == [new EXCEPT !.status = TargetOf(APPRAISAL_FLOW, name)]
           q == [step |-> "appraisal", name |-> name, by |-> u, loaded |-> appraisal, new |-> moved]
<1>1. /\ name \in DOMAIN APPRAISAL_FLOW /\ MayTransitionAppraisal(u, name)
      /\ Begin(w, q) /\ UNCHANGED <<contract, appraisal, trail>>
  BY DEF TransitionAppraisal, Permits
<1>2. \A c \in DOMAIN new : c # "status" => moved[c] = new[c]
  BY <1>1, AppraisalMoves
<1>3. moved.appraiser = new.appraiser /\ moved.employee = new.employee /\ moved.overall = new.overall
  BY <1>2 DEF IsAppraisal
<1> HIDE DEF moved
<1>4. new.overall # appraisal.overall => MovedBy(name, u, appraisal)
  BY <1>1 DEF MovedBy, MayTransitionAppraisal
<1>5. AppraisalServed(q, appraisal) /\ ContractServed(q, contract) /\ q.step # "off"
  BY <1>3, <1>4 DEF AppraisalServed, ContractServed
<1> HIDE DEF q
<1> QED
  BY <1>1, <1>5, PeopleLoadIsSerial

LEMMA AppraisalLoadsAreSerial ==
  ASSUME PeopleInvariant, PeopleAreServed, NEW w \in Worker, NEW u \in User,
         \/ \E name \in DOMAIN APPRAISAL_FLOW : AgreeAcknowledgeOrAppeal(w, u, name)
         \/ \E marks \in MarkSheets : SelfAssess(w, u, marks) \/ Appraise(w, u, marks)
         \/ \E name \in DOMAIN APPRAISAL_FLOW : DecideOrCorrect(w, u, name)
  PROVE  PeopleAreServed'
<1>0. IsAppraisal(appraisal)
  BY DEF PeopleInvariant
<1>1. ASSUME NEW name, TransitionAppraisal(w, u, name, appraisal) PROVE PeopleAreServed'
  BY <1>0, <1>1, AppraisalLoadIsSerial
<1>2. ASSUME NEW marks, SelfAssess(w, u, marks) PROVE PeopleAreServed'
  <2> DEFINE new == [appraisal EXCEPT !.self = marks]
  <2>1. /\ IsAppraisal(new) /\ new.appraiser = appraisal.appraiser /\ new.employee = appraisal.employee
        /\ new.overall = appraisal.overall
    BY <1>0, AppraisalRows DEF IsAppraisal
  <2>2. TransitionAppraisal(w, u, "self_assess", new)
    BY <1>2 DEF SelfAssess
  <2> HIDE DEF new
  <2> QED
    BY <2>1, <2>2, AppraisalLoadIsSerial
<1>3. ASSUME NEW marks, Appraise(w, u, marks) PROVE PeopleAreServed'
  <2> DEFINE new == [appraisal EXCEPT !.assessed = marks, !.overall = Overall(marks)]
  <2>1. /\ IsAppraisal(new) /\ new.appraiser = appraisal.appraiser /\ new.employee = appraisal.employee
    BY <1>0, AppraisalRows DEF IsAppraisal
  <2>2. TransitionAppraisal(w, u, "appraise", new)
    BY <1>3 DEF Appraise
  <2> HIDE DEF new
  <2> QED
    BY <2>1, <2>2, AppraisalLoadIsSerial
<1>4. ASSUME NEW name \in {"decide", "correct"}, NEW mark,
             TransitionAppraisal(w, u, name, [appraisal EXCEPT !.overall = mark])
      PROVE  PeopleAreServed'
  <2> DEFINE new == [appraisal EXCEPT !.overall = mark]
  <2>1. /\ IsAppraisal(new) /\ new.appraiser = appraisal.appraiser /\ new.employee = appraisal.employee
    BY <1>0, AppraisalRows DEF IsAppraisal
  <2>2. TransitionAppraisal(w, u, name, new)
    BY <1>4
  <2> HIDE DEF new
  <2> QED
    BY <2>1, <2>2, AppraisalLoadIsSerial
<1> QED
  BY <1>1, <1>2, <1>3, <1>4 DEF AgreeAcknowledgeOrAppeal, DecideOrCorrect

(* An event that takes over where the last one ended.                      *)
LEMMA TrailGrows ==
  ASSUME TrailIsSound, NEW event, event.before = appraisal.overall, trail' = Append(trail, event),
         event.after = appraisal'.overall,
         appraisal'.status # "absent", appraisal'.appraiser = appraisal.appraiser,
         appraisal'.employee = appraisal.employee,
         event.before # event.after => MovedBy(event.name, event.by, appraisal)
  PROVE  TrailIsSound'
<1>1. PICK S : trail \in Seq(S)
  BY DEF TrailIsSound
<1> DEFINE n == Len(trail)
           T == S \cup {event}
<1>2. trail \in Seq(T) /\ event \in T
  BY <1>1
<1> HIDE DEF T
<1>3. /\ trail' \in Seq(T) /\ n \in Nat /\ Len(trail') = n + 1
      /\ DOMAIN trail' = 1..(n + 1) /\ DOMAIN trail = 1..n
      /\ \A i \in 1..n : trail'[i] = trail[i]
      /\ trail'[n + 1] = event
  BY <1>2
<1>4. n = 0 <=> trail = <<>>
  BY <1>2
<1>5. /\ n = 0 => appraisal.overall = None
      /\ \A i \in 1..(n - 1) : trail[i].after = trail[i + 1].before
      /\ n # 0 => trail[1].before = None /\ appraisal.overall = trail[n].after
      /\ \A i \in 1..n : trail[i].before # trail[i].after => MovedBy(trail[i].name, trail[i].by, appraisal)
  BY <1>3, <1>4 DEF TrailIsSound
<1> HIDE DEF n
<1>6. \A i \in 1..((n + 1) - 1) : trail'[i].after = trail'[i + 1].before
  <2> SUFFICES ASSUME NEW i \in 1..n PROVE trail'[i].after = trail'[i + 1].before
    BY <1>3
  <2>1. CASE i = n
    BY <1>3, <1>5, <2>1
  <2>2. CASE i # n
    <3>1. i \in 1..(n - 1) /\ i + 1 \in 1..n
      BY <1>3, <2>2
    <3> QED
      BY <1>3, <1>5, <3>1
  <2> QED
    BY <2>1, <2>2
<1>7. trail'[1].before = None /\ appraisal'.overall = trail'[n + 1].after
  <2>1. CASE n = 0
    BY <1>3, <1>5, <2>1
  <2>2. CASE n # 0
    <3>1. 1 \in 1..n
      BY <1>3, <2>2
    <3> QED
      BY <1>3, <1>5, <2>2, <3>1
  <2> QED
    BY <2>1, <2>2
<1>8. \A i \in 1..(n + 1) :
        trail'[i].before # trail'[i].after => MovedBy(trail'[i].name, trail'[i].by, appraisal')
  <2> SUFFICES ASSUME NEW i \in 1..(n + 1), trail'[i].before # trail'[i].after
               PROVE  MovedBy(trail'[i].name, trail'[i].by, appraisal)
    BY DEF MovedBy
  <2>1. CASE i = n + 1
    BY <1>3, <2>1
  <2>2. CASE i # n + 1
    <3>1. i \in 1..n
      BY <1>3, <2>2
    <3> QED
      BY <1>3, <1>5, <3>1
  <2> QED
    BY <2>1, <2>2
<1>9. trail' # <<>>
  BY <1>3
<1> QED
  BY <1>3, <1>6, <1>7, <1>8, <1>9 DEF TrailIsSound

LEMMA CommitAppraisalIsSerial ==
  ASSUME PeopleInvariant, PeopleAreServed, NEW w \in Worker, CommitAppraisal(w)
  PROVE  PeopleAreServed'
<1> DEFINE q == req[w]
           event == [name |-> q.name, by |-> q.by, before |-> q.loaded.overall, after |-> q.new.overall]
<1>1. /\ q.step = "appraisal" /\ appraisal' = Flush(q.loaded, q.new, appraisal)
      /\ trail' = Append(trail, event)
      /\ Finish(w) /\ InFlight(w) /\ UNCHANGED <<contract>>
  BY DEF CommitAppraisal, InFlight, RatingBefore
<1>2. IsAppraisal(appraisal) /\ IsAppraisal(q.new) /\ q.new.status # "absent"
  BY <1>1 DEF PeopleInvariant, OnPeople
<1>3. ASSUME Serial PROVE TrailIsSound'
  <2>1. /\ q.loaded = appraisal
        /\ q.new.appraiser = appraisal.appraiser /\ q.new.employee = appraisal.employee
        /\ q.new.overall # appraisal.overall => MovedBy(q.name, q.by, appraisal)
    BY <1>1, <1>3 DEF PeopleAreServed, AppraisalIsTraced, AppraisalServed
  <2>2. q.new = [c \in DOMAIN appraisal |-> q.new[c]]
    BY <1>2 DEF IsAppraisal
  <2>3. appraisal' = q.new
    BY <1>1, <2>1, <2>2, FlushIsWhole
  <2>4. /\ event.before = appraisal.overall /\ event.after = q.new.overall
        /\ event.name = q.name /\ event.by = q.by
    BY <2>1
  <2> HIDE DEF event
  <2>5. TrailIsSound
    BY <1>3 DEF PeopleAreServed, AppraisalIsTraced
  <2> HIDE DEF q
  <2>6. event.before # event.after => MovedBy(event.name, event.by, appraisal)
    BY <2>1, <2>4
  <2> QED
    BY <1>1, <1>2, <2>1, <2>3, <2>4, <2>5, <2>6, TrailGrows
<1>4. Serial => ContractIsSound'
  BY <1>1 DEF PeopleAreServed, ContractIsRated, ContractIsSound
<1> QED
  BY <1>1, <1>3, <1>4, PeopleCommitIsSerial

LEMMA OtherPeopleCommitsAreSerial ==
  ASSUME PeopleInvariant, PeopleAreServed, NEW w \in Worker, InFlight(w), Finish(w),
         UNCHANGED <<contract, appraisal, trail>>
  PROVE  PeopleAreServed'
<1>1. Serial => ContractIsSound' /\ TrailIsSound'
  BY SoundPeopleStay DEF PeopleAreServed, ContractIsRated, AppraisalIsTraced
<1> QED
  BY <1>1, PeopleCommitIsSerial

LEMMA CreatedRecordsAreSerial ==
  ASSUME PeopleInvariant, PeopleAreServed, NEW u, NEW v,
         \/ \E h \in User, weights \in ItemWeights : CreateContract(u, h, v, weights)
         \/ \E e \in User : CreateAppraisal(u, e, v)
  PROVE  PeopleAreServed'
<1>1. (Serial' <=> Serial) /\ Free /\ UNCHANGED req
  BY DEF CreateContract, CreateAppraisal, Serial
<1>2. Serial => \A x \in Worker : req[x].step \in {"idle", "off"}
  BY <1>1, RequestsAssumption, SerialIsAlone DEF InFlight
<1>3. Serial => \A x \in Worker : ContractServed(req'[x], contract') /\ AppraisalServed(req'[x], appraisal')
  BY <1>1, <1>2, ServedOffPeople
<1>4. Serial => ContractIsSound /\ TrailIsSound
  BY DEF PeopleAreServed, ContractIsRated, AppraisalIsTraced
<1>5. ASSUME NEW h, NEW weights \in ItemWeights, CreateContract(u, h, v, weights)
      PROVE  ContractIsSound' /\ (TrailIsSound => TrailIsSound')
  <2>1. UNCHANGED <<appraisal, trail>>
    BY <1>5 DEF CreateContract
  <2>2. contract'.scheme = None /\ contract'.weights = weights
    BY <1>5 DEF CreateContract, Assign, NoContract
  <2> QED
    BY <2>1, <2>2 DEF ContractIsSound, OnItsScheme, TrailIsSound
<1>6. ASSUME NEW e, CreateAppraisal(u, e, v)
      PROVE  (ContractIsSound => ContractIsSound') /\ (TrailIsSound => TrailIsSound')
  <2>1. UNCHANGED <<contract, trail>> /\ appraisal.status = "absent"
    BY <1>6 DEF CreateAppraisal
  <2>2. appraisal'.status = "draft" /\ appraisal'.overall = None
    BY <1>6 DEF CreateAppraisal, Assign, NoAppraisal
  <2>3. TrailIsSound => trail = <<>>
    BY <2>1 DEF TrailIsSound
  <2> QED
    BY <2>1, <2>2, <2>3 DEF ContractIsSound, TrailIsSound
<1>7. Serial => ContractIsSound' /\ TrailIsSound'
  BY <1>4, <1>5, <1>6
<1> QED
  BY <1>1, <1>3, <1>7 DEF PeopleAreServed, ContractIsRated, AppraisalIsTraced

LEMMA OthersLeavePeopleSerial ==
  ASSUME PeopleInvariant, PeopleAreServed, UNCHANGED <<contract, appraisal, trail>>,
         \/ UNCHANGED req
         \/ \E w \in Worker :
              TakesUp(w, {"idle", "plan", "level", "new_node", "node", "indicator",
                          "evaluation", "evaluation_finding", "respond"})
  PROVE  PeopleAreServed'
<1>1. Serial => ContractIsSound' /\ TrailIsSound'
  BY SoundPeopleStay DEF PeopleAreServed, ContractIsRated, AppraisalIsTraced
<1>2. CASE UNCHANGED req
  BY <1>1, <1>2 DEF PeopleAreServed, ContractIsRated, AppraisalIsTraced, Serial
<1>3. ASSUME NEW w \in Worker,
             TakesUp(w, {"idle", "plan", "level", "new_node", "node", "indicator",
                         "evaluation", "evaluation_finding", "respond"})
      PROVE  PeopleAreServed'
  <2>1. Serial' <=> Serial
    BY <1>3, SerialStays DEF TakesUp, PeopleInvariant
  <2>2. \A v \in Worker : v # w => req'[v] = req[v]
    <3>1. DOMAIN req = Worker /\ req' = [req EXCEPT ![w] = req'[w]]
      BY <1>3 DEF TakesUp, PeopleInvariant
    <3> QED
      BY <3>1
  <2>3. ContractServed(req'[w], contract') /\ AppraisalServed(req'[w], appraisal')
    BY <1>3, ServedOffPeople DEF TakesUp
  <2> QED
    BY <1>1, <2>1, <2>2, <2>3 DEF PeopleAreServed, ContractIsRated, AppraisalIsTraced
<1> QED
  BY <1>2, <1>3

LEMMA PeopleAreServedInit == ASSUME PlanningInit PROVE PeopleAreServed
<1> USE DEF PlanningInit, PeopleInit, RequestsInit
<1>1. \A w \in Worker : req[w].step \in {"idle", "off"}
  BY DEF Idle, Off
<1>2. \A w \in Worker : ContractServed(req[w], contract) /\ AppraisalServed(req[w], appraisal)
  BY <1>1, ServedOffPeople
<1>3. ContractIsSound
  BY DEF ContractIsSound, OnItsScheme, NoContract
<1>4. TrailIsSound
  <2>1. trail = <<>> /\ trail \in Seq({}) /\ Len(trail) = 0 /\ DOMAIN trail = {} /\ appraisal.overall = None
    BY DEF NoAppraisal
  <2> QED
    BY <2>1 DEF TrailIsSound
<1> QED
  BY <1>2, <1>3, <1>4 DEF PeopleAreServed, ContractIsRated, AppraisalIsTraced

LEMMA PeopleAreServedNext ==
  ASSUME PeopleAssumptions, PeopleInvariant, PeopleAreServed, PeopleNext PROVE PeopleAreServed'
<1>1. ASSUME NEW s, TransitionScheme(s) PROVE PeopleAreServed'
  BY <1>1, OthersLeavePeopleSerial DEF TransitionScheme
<1>2. ASSUME NEW w \in Worker, NEW u, NEW module, ConfirmPolicy(w, u, module) PROVE PeopleAreServed'
  <2> DEFINE q == [step |-> "policy", module |-> module, old |-> policies[module],
                   id |-> Cardinality(UNION {policies[m] : m \in MODULES}) + 1]
  <2>1. Begin(w, q) /\ UNCHANGED <<contract, appraisal, trail>>
    BY <1>2 DEF ConfirmPolicy
  <2>2. ContractServed(q, contract) /\ AppraisalServed(q, appraisal) /\ q.step # "off"
    BY ServedOffPeople
  <2> HIDE DEF q
  <2> QED
    BY <2>1, <2>2, PeopleLoadIsSerial
<1>3. ASSUME NEW w \in Worker, CommitPolicy(w) PROVE PeopleAreServed'
  BY <1>3, OtherPeopleCommitsAreSerial DEF CommitPolicy, InFlight
<1>4. ASSUME NEW w \in Worker, CommitContract(w) \/ CommitAppraisal(w) PROVE PeopleAreServed'
  BY <1>4, CommitContractIsSerial, CommitAppraisalIsSerial
<1> QED
  BY <1>1, <1>2, <1>3, <1>4, CreatedRecordsAreSerial, ContractLoadsAreSerial, AppraisalLoadsAreSerial
     DEF PeopleNext, Waiting

LEMMA PeopleAreServedStep ==
  ASSUME PeopleAssumptions, PeopleInvariant, PeopleAreServed, [PlanningNext]_planningVars
  PROVE  PeopleAreServed'
<1>1. CASE PeopleNext
  BY <1>1, PeopleAreServedNext
<1>2. CASE PlansNext /\ UNCHANGED peopleVars
  <2>1. UNCHANGED req \/ \E w \in Worker : TakesUp(w, {"idle", "plan", "level", "new_node", "node", "indicator"})
    BY <1>2, PlanRequests DEF PeopleInvariant
  <2> QED
    BY <1>2, <2>1, OthersLeavePeopleSerial DEF peopleVars, TakesUp
<1>3. CASE EvaluationsNext /\ UNCHANGED peopleVars
  <2>1. UNCHANGED req \/ \E w \in Worker : TakesUp(w, {"idle", "evaluation", "evaluation_finding", "respond"})
    BY <1>3, EvaluationRequests DEF PeopleInvariant
  <2> QED
    BY <1>3, <2>1, OthersLeavePeopleSerial DEF peopleVars, TakesUp
<1>4. CASE UNCHANGED planningVars
  BY <1>4, OthersLeavePeopleSerial DEF planningVars, peopleVars
<1> QED
  BY <1>1, <1>2, <1>3, <1>4 DEF PlanningNext

(* Served one after the other, a contract is on the scale of its scheme    *)
(* and every event of an appraisal takes over where the last one ended.    *)
THEOREM PeopleAreServedHolds == PlanningSpec => []PeopleAreServed
<1>1. PlanningInit => PeopleAreServed
  BY PeopleAreServedInit
<1>2. PeopleInvariant /\ PeopleAreServed /\ [PlanningNext]_planningVars => PeopleAreServed'
  BY PeopleAreServedStep, PeopleAssumptionsHold
<1> QED
  BY <1>1, <1>2, PeopleInvariantHolds, PTL DEF PlanningSpec

(* A rating can be explained afterwards: that of a contract on the scheme  *)
(* it was evaluated on, whose range no evaluation and no appeal leaves,    *)
(* that of an appraisal from its history; and a module that has records    *)
(* keeps a policy in force (transition_contract, transition_appraisal,     *)
(* confirm_policy: people/service.py:123, 224, 320).                       *)
THEOREM AssessmentsAreAlwaysTraced == PlanningSpec => []AssessmentsAreTraced
<1>1. PeopleInvariant /\ PeopleAreServed => AssessmentsAreTraced
  <2> SUFFICES ASSUME PeopleInvariant, PeopleAreServed PROVE AssessmentsAreTraced
    OBVIOUS
  <2>1. RatingsAreOnTheirScheme
    BY DEF RatingsAreOnTheirScheme, PeopleInvariant, PeopleAreServed, ContractIsRated, ContractIsSound,
           OnItsScheme, Within, RatingsOf
  <2>2. CorrectionsAreTraced
    BY DEF CorrectionsAreTraced, PeopleAreServed, AppraisalIsTraced, TrailIsSound, MovedBy
  <2> QED
    BY <2>1, <2>2 DEF AssessmentsAreTraced
<1> QED
  BY <1>1, PeopleInvariantHolds, PeopleAreServedHolds, PTL
=============================================================================
