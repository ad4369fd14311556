------------------------------ MODULE Meetings ------------------------------
(***************************************************************************)
(* A meeting and its resolutions (app/modules/governance/service.py,       *)
(* 97-170).  The board secretary records the meeting and what it resolved; *)
(* a resolution with an owner raises an action for them.  A resolution is  *)
(* known by its number, which is looked up when it is added and unique.    *)
(***************************************************************************)
EXTENDS Actions

CONSTANTS
  Secretary,       \* accounts with the board_secretary duty
  MaxResolution    \* bound on the resolutions

ASSUME MeetingsAssumption == Secretary \subseteq User /\ MaxResolution \in Nat

VARIABLES
  meeting,         \* the row of meetings: its status and whether it has minutes
  resolutions      \* the rows of resolutions, by number

MEETING_FLOW ==
  [hold            |-> Transition({"scheduled"}, "held"),
   approve_minutes |-> Transition({"held"}, "minutes_approved")]

RESOLUTION_FLOW ==
  [implement |-> ReasonedTransition({"open"}, "implemented"),
   close     |-> Transition({"implemented"}, "closed"),
   reopen    |-> ReasonedTransition({"implemented", "closed"}, "open"),
   cancel    |-> ReasonedTransition({"open"}, "cancelled")]

NoResolution == [status |-> "absent", owner |-> Nobody, action |-> 0, closed_by |-> Nobody]

MeetingsInit ==
  /\ meeting = [status |-> "absent", minutes |-> FALSE]
  /\ resolutions = [n \in 1..MaxResolution |-> NoResolution]

Numbered == {n \in DOMAIN resolutions : resolutions[n].status # "absent"}
-----------------------------------------------------------------------------
CreateMeeting(u) ==
  /\ Free
  /\ u \in Secretary
  /\ meeting.status = "absent"
  /\ meeting' = [status |-> "scheduled", minutes |-> FALSE]
  /\ UNCHANGED <<resolutions, actions, req>>

(* transition_meeting: the minutes come with the approval or were there.   *)
HasMinutes(name, given) == name = "approve_minutes" => given \/ meeting.minutes

TransitionMeeting(w, u, name, given) ==
  /\ u \in Secretary
  /\ Permits(MEETING_FLOW, name, meeting.status, FALSE)
  /\ HasMinutes(name, given)
  /\ Begin(w, [step |-> "meeting", loaded |-> meeting,
               new |-> [status |-> TargetOf(MEETING_FLOW, name),
                        minutes |-> IF name = "approve_minutes" THEN given \/ meeting.minutes
                                    ELSE meeting.minutes]])
  /\ UNCHANGED <<meeting, resolutions, actions>>

CommitMeeting(w) ==
  LET q == req[w]
  IN /\ q.step = "meeting"
     /\ meeting' = Flush(q.loaded, q.new, meeting)
     /\ Finish(w)
     /\ UNCHANGED <<resolutions, actions>>

(* add_resolution: the number is one more than the highest there is.       *)
AddResolution(w, u, owner) ==
  /\ u \in Secretary
  /\ meeting.status \notin {"absent", "scheduled"}
  /\ Cardinality(Numbered) < MaxResolution
  /\ Begin(w, [step |-> "resolve", by |-> u, owner |-> owner, number |-> Cardinality(Numbered) + 1])
  /\ UNCHANGED <<meeting, resolutions, actions>>

(* The unique constraint refuses a number taken meanwhile, action and all. *)
NumberIsFree(number) == number \notin Numbered

CommitResolution(w) ==
  LET q == req[w]
  IN /\ q.step = "resolve"
     /\ NumberIsFree(q.number)
     /\ q.owner # Nobody => RoomForAction
     /\ resolutions' = [resolutions EXCEPT ![q.number] =
          [status |-> "open", owner |-> q.owner, closed_by |-> Nobody,
           action |-> IF q.owner = Nobody THEN 0 ELSE Cardinality(Raised) + 1]]
     /\ actions' = IF q.owner = Nobody THEN actions ELSE NewAction(q.by, q.owner, "resolution")
     /\ Finish(w)
     /\ UNCHANGED meeting

RefuseResolution(w) ==
  /\ req[w].step = "resolve"
  /\ ~NumberIsFree(req[w].number)
  /\ Finish(w)
  /\ UNCHANGED <<meeting, resolutions, actions>>

(* transition_resolution.                                                  *)
MayMove(u, n, name) ==
  \/ name = "implement" /\ (u \in Secretary \/ u = resolutions[n].owner)
  \/ name = "close" /\ u \in Secretary /\ u # resolutions[n].owner
  \/ name \in {"reopen", "cancel"} /\ u \in Secretary

TransitionResolution(w, u, n, name) ==
  /\ Permits(RESOLUTION_FLOW, name, resolutions[n].status, TRUE)
  /\ MayMove(u, n, name)
  /\ Begin(w, [step |-> "resolution", id |-> n, loaded |-> resolutions[n],
               new |-> Assign(resolutions[n], [status |-> TargetOf(RESOLUTION_FLOW, name),
                                               closed_by |-> IF name = "close" THEN u
                                                             ELSE resolutions[n].closed_by])])
  /\ UNCHANGED <<meeting, resolutions, actions>>

(* _meeting_dict: the steps a reader is offered, worked out a second time. *)
OfferedResolutionSteps(u, n) ==
  LET secretary == u \in Secretary
      owner == u = resolutions[n].owner
  IN {name \in {t \in DOMAIN RESOLUTION_FLOW : resolutions[n].status \in RESOLUTION_FLOW[t].sources} :
       \/ name = "implement" /\ (secretary \/ owner)
       \/ name = "close" /\ secretary /\ ~owner
       \/ name \in {"reopen", "cancel"} /\ secretary}

CommitResolutionStep(w) ==
  LET q == req[w]
  IN /\ q.step = "resolution"
     /\ resolutions' = [resolutions EXCEPT ![q.id] = Flush(q.loaded, q.new, @)]
     /\ Finish(w)
     /\ UNCHANGED <<meeting, actions>>

MeetingsNext ==
  \/ \E u \in User :
       \/ CreateMeeting(u)
       \/ \E w \in Waiting :
            \/ \E name \in DOMAIN MEETING_FLOW, given \in BOOLEAN : TransitionMeeting(w, u, name, given)
            \/ \E o \in User \cup {Nobody} : AddResolution(w, u, o)
            \/ \E n \in Numbered, name \in DOMAIN RESOLUTION_FLOW : TransitionResolution(w, u, n, name)
  \/ \E w \in Worker :
       CommitMeeting(w) \/ CommitResolution(w) \/ RefuseResolution(w) \/ CommitResolutionStep(w)

MeetingsTypeOK ==
  /\ meeting \in [status : {"absent", "scheduled", "held", "minutes_approved"}, minutes : BOOLEAN]
  /\ resolutions \in [1..MaxResolution ->
       [status : {"absent"} \cup {RESOLUTION_FLOW[n].target : n \in DOMAIN RESOLUTION_FLOW},
        owner : User \cup {Nobody}, closed_by : User \cup {Nobody}, action : 0..MaxAction]]

(* Every resolution that names an owner has its own action, which started  *)
(* as theirs, and approved minutes exist, also when two resolutions are    *)
(* numbered at the same time (service.py:142): the loser writes neither.   *)
ResolutionsHaveTheirAction ==
  /\ \A n \in Numbered : resolutions[n].owner # Nobody =>
       resolutions[n].action \in Raised /\ actions[resolutions[n].action].source = "resolution"
  /\ \A m, n \in Numbered : resolutions[m].action = resolutions[n].action /\ m # n => resolutions[m].action = 0
  /\ Cardinality({a \in Raised : actions[a].source = "resolution"}) =
       Cardinality({n \in Numbered : resolutions[n].owner # Nobody})
  /\ meeting.status = "minutes_approved" => meeting.minutes
=============================================================================
