------------------------------ MODULE Reports ------------------------------
(***************************************************************************)
(* The reporting hub (app/modules/reporting/service.py).  A report freezes *)
(* the governed data when it is created and whenever its author refreshes  *)
(* it; its author and the report managers write the commentary and submit  *)
(* it; somebody other than its author approves it, which fixes a content   *)
(* fingerprint and stores the rendered outputs; a report manager publishes *)
(* and withdraws it.  Downloads of an approved report come from storage.   *)
(*                                                                         *)
(* A request loads the report, and what it changed is flushed later.       *)
(***************************************************************************)
EXTENDS Naturals, Workflow, Requests

CONSTANTS
  User,
  Nobody,
  Nothing,         \* an empty column
  Manager,         \* accounts that may use the report_manager duty
  Reviewer,        \* accounts with at least the reviewer role on the unit
  Approver,        \* those of them with the approver role
  Report,
  NeedsScore,      \* the reports whose kind needs an approved score
  Data,            \* states of the governed data a report may freeze
  ScoreApproved,   \* the ones with an approved, complete score
  Text,            \* commentaries
  MaxVersion       \* bound on the times a report's data is frozen

ASSUME ReportsAssumption ==
  /\ Nobody \notin User
  /\ Nothing \notin Data \cup Text
  /\ Manager \subseteq User
  /\ Approver \subseteq Reviewer
  /\ Reviewer \subseteq User
  /\ NeedsScore \subseteq Report
  /\ ScoreApproved \subseteq Data
  /\ MaxVersion \in Nat \ {0}

VARIABLES
  live,            \* the governed data as it is now
  reports,         \* the report_instances rows
  outputs          \* the report_outputs rows and the files they name

vars == <<live, reports, outputs, req>>
-----------------------------------------------------------------------------
FLOW ==
  [submit   |-> Transition({"draft"}, "in_review"),
   return   |-> ReasonedTransition({"in_review"}, "draft"),
   approve  |-> Transition({"in_review"}, "approved"),
   publish  |-> Transition({"approved"}, "published"),
   withdraw |-> ReasonedTransition({"approved", "published"}, "withdrawn")]

NoReport ==
  [status |-> "absent", author |-> Nobody, submitter |-> Nobody, approver |-> Nobody,
   data |-> Nothing, version |-> 0, commentary |-> Nothing, hash |-> Nothing]

Exists(r) == reports[r].status # "absent"
InForce(row) == row.status \in {"approved", "published"}

(* _content_hash: template and title never change after the creation.      *)
ContentHash(row) == <<row.data, row.commentary>>

(* can_view, for the people of the unit: an unapproved report is shown to  *)
(* its author, the report managers and the reviewers.                      *)
CanView(u, row) ==
  InForce(row) \/ u \in Manager \cup Reviewer \/ u = row.author

MayEdit(u, row) == u = row.author \/ u \in Manager

Init ==
  /\ live \in Data
  /\ reports = [r \in Report |-> NoReport]
  /\ outputs = [r \in Report |-> {}]
  /\ RequestsInit

(* The governed data changes under the other modules.                      *)
DataChanges ==
  /\ Free
  /\ live' \in Data \ {live}
  /\ UNCHANGED <<reports, outputs, req>>
-----------------------------------------------------------------------------
(* The handlers: what each leaves of the row it loaded.                    *)

(* builders.freeze reads the governed data; each refresh is a new version. *)
Frozen(row) == Assign(row, [data |-> live, version |-> row.version + 1])

Create(u, r) ==
  /\ Free
  /\ u \in Manager \cup Reviewer
  /\ ~Exists(r)
  /\ reports' = [reports EXCEPT ![r] =
                  Frozen(Assign(NoReport, [status |-> "draft", author |-> u]))]
  /\ UNCHANGED <<live, outputs, req>>

(* The draft status, asked by the two handlers that change the content.    *)
Draftable(row) == row.status = "draft"

(* A handler has loaded the report and will flush "new".                   *)
Load(w, u, r, op, new) ==
  /\ Exists(r)
  /\ CanView(u, reports[r])
  /\ Begin(w, [step |-> "loaded", op |-> op, on |-> r, loaded |-> reports[r], new |-> new])
  /\ UNCHANGED <<live, reports, outputs>>

Freeze(w, u, r) ==
  /\ Draftable(reports[r])
  /\ MayEdit(u, reports[r])
  /\ reports[r].version < MaxVersion
  /\ Load(w, u, r, "freeze", Frozen(reports[r]))

SetCommentary(w, u, r, text) ==
  /\ Draftable(reports[r])
  /\ MayEdit(u, reports[r])
  /\ Load(w, u, r, "commentary", Assign(reports[r], [commentary |-> text]))

(* transition, one operator for each name.                                 *)
Moved(row, name) == [status |-> TargetOf(FLOW, name)]

NotTheAuthor_CreatorOnly(u, row) == u # row.author
NotTheAuthor_SubmitterOnly(u, row) == u # row.submitter
NotTheAuthor(u, row) == u \notin {row.author, row.submitter}

ScoreIsApproved(r, row) == r \in NeedsScore => row.data \in ScoreApproved

Sealed(row, u) ==
  Assign(row, [status |-> TargetOf(FLOW, "approve"), approver |-> u, hash |-> ContentHash(row)])

Submit(w, u, r) ==
  /\ Permits(FLOW, "submit", reports[r].status, FALSE)
  /\ MayEdit(u, reports[r])
  /\ Load(w, u, r, "submit",
          Assign(reports[r], [status |-> TargetOf(FLOW, "submit"), submitter |-> u]))

Return(w, u, r, reasoned) ==
  /\ Permits(FLOW, "return", reports[r].status, reasoned)
  /\ u \in Approver \cup Manager
  /\ Load(w, u, r, "return", Assign(reports[r], Moved(reports[r], "return")))

Approve(w, u, r) ==
  /\ Permits(FLOW, "approve", reports[r].status, FALSE)
  /\ u \in Approver \cup Manager
  /\ NotTheAuthor(u, reports[r])
  /\ ScoreIsApproved(r, reports[r])
  /\ Load(w, u, r, "approve", Sealed(reports[r], u))

PublishOrWithdraw(w, u, r, name, reasoned) ==
  /\ Permits(FLOW, name, reports[r].status, reasoned)
  /\ u \in Manager
  /\ Load(w, u, r, name, Assign(reports[r], Moved(reports[r], name)))

(* An approval renders each format once for a content hash and stores it.  *)
Stored_OncePerReport(r, row) ==
  outputs[r] \cup {o \in {[hash |-> row.hash, shows |-> ContentHash(row)]} : outputs[r] = {}}
Stored(r, row) ==
  outputs[r] \cup {o \in {[hash |-> row.hash, shows |-> ContentHash(row)]} :
                     \A p \in outputs[r] : p.hash # row.hash}

Commit(w) ==
  LET q == req[w]
  IN /\ q.step = "loaded"
     /\ reports' = [reports EXCEPT ![q.on] = Flush(q.loaded, q.new, @)]
     /\ outputs' = IF q.op = "approve"
                   THEN [outputs EXCEPT ![q.on] = Stored(q.on, q.new)] ELSE outputs
     /\ Finish(w)
     /\ UNCHANGED live

(* The request dies before its commit; rendered files stay behind unnamed. *)
Abort(w) ==
  /\ InFlight(w)
  /\ Finish(w)
  /\ UNCHANGED <<live, reports, outputs>>
-----------------------------------------------------------------------------
Next ==
  \/ DataChanges
  \/ \E u \in User, r \in Report : Create(u, r)
  \/ \E w \in Worker, u \in User, r \in Report :
       \/ Freeze(w, u, r)
       \/ \E text \in Text : SetCommentary(w, u, r, text)
       \/ Submit(w, u, r)
       \/ \E reasoned \in BOOLEAN : Return(w, u, r, reasoned)
       \/ Approve(w, u, r)
       \/ \E name \in {"publish", "withdraw"}, reasoned \in BOOLEAN :
            PublishOrWithdraw(w, u, r, name, reasoned)
  \/ \E w \in Worker : Commit(w) \/ Abort(w)

Spec == Init /\ [][Next]_vars
-----------------------------------------------------------------------------
Content == Data \X (Text \cup {Nothing})

ReportRow ==
  [status : {"absent", "draft", "in_review", "approved", "published", "withdrawn"},
   author : User \cup {Nobody}, submitter : User \cup {Nobody}, approver : User \cup {Nobody},
   data : Data \cup {Nothing}, version : 0..MaxVersion,
   commentary : Text \cup {Nothing}, hash : Content \cup {Nothing}]

(* The rows have the types of their columns, and a report is drafted with  *)
(* frozen data and an author.                                              *)
TypeOK ==
  /\ live \in Data
  /\ \A r \in Report : reports[r] \in ReportRow
  /\ \A r \in Report : Exists(r) => reports[r].author # Nobody /\ reports[r].version > 0
  /\ \A r \in Report : outputs[r] \subseteq [hash : Content, shows : Content]
  /\ DOMAIN req = Worker

(* However the requests interleave:                                        *)

(* A report in force can be served: the output stored for its fingerprint  *)
(* exists, is the only one, and shows what was fingerprinted (transition   *)
(* stores the outputs with the approval; output looks them up by hash).    *)
InForceIsServable ==
  \A r \in Report : InForce(reports[r]) =>
    \E o \in outputs[r] :
      /\ o.hash = reports[r].hash
      /\ o.shows = o.hash
      /\ \A p \in outputs[r] : p.hash = o.hash => p = o

(* Of serial requests only:                                                *)

(* The fingerprint of a report in force is that of what it contains, a     *)
(* board pack or scorecard report in force shows an approved score, and    *)
(* neither its author nor the person who submitted it approved it          *)
(* (transition).                                                           *)
ApprovalIsSound ==
  Serial => \A r \in Report : reports[r].status \in {"approved", "published", "withdrawn"} =>
    /\ reports[r].hash = ContentHash(reports[r])
    /\ r \in NeedsScore => reports[r].data \in ScoreApproved
    /\ reports[r].approver \notin {Nobody, reports[r].author, reports[r].submitter}

(* A report is a sealed record: its content changes until somebody else    *)
(* approves it and never again, not even when it is published or withdrawn.*)
SealState(row) ==
  CASE row.status = "absent" -> "none"
    [] row.status \in {"draft", "in_review"} -> "open"
    [] InForce(row) -> "sealed"
    [] row.status = "withdrawn" -> "retired"

Governed == INSTANCE SealedRecord WITH
  Record <- Report, Actor <- User, Fit <- LAMBDA c : TRUE,
  state <- [r \in Report |-> IF Serial THEN SealState(reports[r]) ELSE "none"],
  author <- [r \in Report |-> reports[r].author],
  content <- [r \in Report |-> ContentHash(reports[r])],
  signer <- [r \in Report |-> reports[r].approver]

ImplementsSealing == Governed!Spec
-----------------------------------------------------------------------------
(* The bounds of the run: an author who reviews, a report manager who is   *)
(* an approver too, and a second approver.  Requests that race do so over  *)
(* two versions of the data.                                               *)
Tight == live # "rescored" /\ \A r \in Report : reports[r].version <= 2
Bounds == Serial \/ Tight
=============================================================================
