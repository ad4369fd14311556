----------------------------- MODULE Documents -----------------------------
(***************************************************************************)
(* Document control (app/modules/documents/service.py): one controlled     *)
(* document with its revisions, and uncontrolled documents that are        *)
(* evidence for a record.  Files are uploaded to a draft, somebody who     *)
(* neither owns it nor uploaded its last file approves it, it becomes      *)
(* effective and supersedes the revision before.  Uncontrolled documents   *)
(* stay active and take a new version with every upload; the record is     *)
(* linked to the exact version that was filed.                             *)
(*                                                                         *)
(* A request loads the row; what it changed or inserts is committed later. *)
(* Everybody here sees the documents and contributes to their unit.        *)
(***************************************************************************)
EXTENDS Naturals, Sequences, TLC, Workflow, Requests

CONSTANTS
  User,
  Nobody,
  Controller,      \* accounts with the document_controller duty
  Reviewer,        \* accounts with the reviewer role on the unit
  MaxRevision,     \* bound on the revisions of the controlled document
  MaxEvidence,     \* bound on the uncontrolled documents
  MaxFile          \* bound on the versions of a document

ASSUME DocumentsAssumption ==
  /\ Nobody \notin User
  /\ Controller \subseteq User
  /\ Reviewer \subseteq User
  /\ MaxRevision \in Nat
  /\ MaxEvidence \in Nat
  /\ MaxFile \in Nat \ {0}

VARIABLES
  docs,            \* documents; a revision is known by its number
  files,           \* document_versions: who uploaded each version
  links            \* entity_links of relation "evidence", from one record

vars == <<docs, files, links, req>>
-----------------------------------------------------------------------------
FLOW ==
  [approve        |-> Transition({"draft"}, "approved"),
   make_effective |-> Transition({"approved"}, "effective"),
   supersede      |-> Transition({"effective"}, "superseded"),
   withdraw       |-> ReasonedTransition({"draft", "approved", "effective", "active"}, "withdrawn")]

Revision == 1..MaxRevision
Evidence == (MaxRevision + 1)..(MaxRevision + MaxEvidence)
Document == Revision \cup Evidence

NoDocument ==
  [status |-> "absent", owner |-> Nobody, approver |-> Nobody,
   current_version |-> 0, approved_version |-> 0, approved_by |-> Nobody]

Exists(d) == docs[d].status # "absent"

MayEdit(u, row) == u \in Controller \/ u = row.owner \/ row.status = "active"
MayDirect(u, row) == u \in Controller \/ u = row.owner

(* "The approver must be someone other than the owner."                    *)
PeopleDiffer(row) == row.approver # row.owner

Init ==
  /\ docs = [d \in Document |-> NoDocument]
  /\ files = [d \in Document |-> <<>>]
  /\ links = {}
  /\ RequestsInit

Start(w, request) ==
  /\ Begin(w, request)
  /\ UNCHANGED <<docs, files, links>>

(* A handler that loads a document and changes nothing but its row.        *)
Change(w, d, new) == Start(w, [step |-> "row", doc |-> d, loaded |-> docs[d], new |-> new])
-----------------------------------------------------------------------------
(* Revision 1 of the controlled document: a number is taken once, by the   *)
(* unique constraint on number and revision.                               *)
CreateControlled(u, owner, approver) ==
  LET row == Assign(NoDocument, [status |-> "draft", owner |-> owner, approver |-> approver])
  IN /\ Free
     /\ 1 \in Revision /\ ~Exists(1)
     /\ u \in Controller \cup Reviewer
     /\ PeopleDiffer(row)
     /\ docs' = [docs EXCEPT ![1] = row]
     /\ UNCHANGED <<files, links, req>>

(* attach_evidence of a new file: the document, its first version and the  *)
(* link are inserted by one commit.                                        *)
FileEvidence(u, d) ==
  /\ Free
  /\ ~Exists(d)
  /\ docs' = [docs EXCEPT ![d] =
               Assign(NoDocument, [status |-> "active", owner |-> u, current_version |-> 1])]
  /\ files' = [files EXCEPT ![d] = <<u>>]
  /\ links' = links \cup {[doc |-> d, version |-> 1, by |-> u]}
  /\ UNCHANGED req

(* The states in which add_version takes a file.                           *)
TakesFiles_UntilSuperseded(d) == docs[d].status \in {"draft", "active", "approved", "effective"}
TakesFiles(d) ==
  IF d \in Revision THEN docs[d].status = "draft"
  ELSE docs[d].status \notin {"absent", "withdrawn", "superseded"}

(* add_version, and attach_evidence for a document the record has already. *)
Upload(w, u, d, linked) ==
  /\ TakesFiles(d)
  /\ MayEdit(u, docs[d])
  /\ linked => \E l \in links : l.doc = d
  /\ docs[d].current_version < MaxFile
  /\ Start(w, [step |-> "file", doc |-> d, by |-> u, linked |-> linked, loaded |-> docs[d],
               new |-> Assign(docs[d], [current_version |-> docs[d].current_version + 1])])

(* uq_document_version refuses a version that was inserted meanwhile.      *)
VersionIsFree(d, version) == version = Len(files[d]) + 1

FiledVersion(q) == q.new.current_version

CommitFile(w) ==
  LET q == req[w]
  IN /\ q.step = "file"
     /\ VersionIsFree(q.doc, q.new.current_version)
     /\ files' = [files EXCEPT ![q.doc] = Append(@, q.by)]
     /\ docs' = [docs EXCEPT ![q.doc] = Flush(q.loaded, q.new, @)]
     /\ links' = IF q.linked
                 THEN links \cup {[doc |-> q.doc, version |-> FiledVersion(q), by |-> q.by]}
                 ELSE links
     /\ Finish(w)
-----------------------------------------------------------------------------
(* update: the people of a draft; later only dates, tags and description.  *)
UpdatePeople(w, u, d, people) ==
  /\ Exists(d) /\ (d \in Revision => docs[d].status = "draft")
  /\ MayEdit(u, docs[d])
  /\ d \in Revision => PeopleDiffer(Assign(docs[d], people))
  /\ Change(w, d, Assign(docs[d], people))

(* transition, one operator for each name.                                 *)
SecondPair_NotTheOwner(u, d) == u # docs[d].owner
SecondPair(u, d) == u \notin {docs[d].owner, files[d][docs[d].current_version]}

Approve(w, u, d) ==
  /\ Permits(FLOW, "approve", docs[d].status, FALSE)
  /\ docs[d].current_version > 0
  /\ SecondPair(u, d)
  /\ u \in Controller \/ u = docs[d].approver
  /\ Change(w, d, Assign(docs[d], [status |-> TargetOf(FLOW, "approve"), approved_by |-> u,
                                   approved_version |-> docs[d].current_version]))

(* The revision before, if it is effective when it is looked up.           *)
Previous_Kept(d) == {}
Previous(d) == {p \in {d - 1} \cap Revision : Permits(FLOW, "supersede", docs[p].status, FALSE)}

MakeEffective(w, u, d) ==
  /\ Permits(FLOW, "make_effective", docs[d].status, FALSE)
  /\ MayDirect(u, docs[d])
  /\ Start(w, [step |-> "effective", doc |-> d, loaded |-> docs[d], supersedes |-> Previous(d),
               new |-> Assign(docs[d], [status |-> TargetOf(FLOW, "make_effective")])])

Withdraw(w, u, d, reasoned) ==
  /\ Permits(FLOW, "withdraw", docs[d].status, reasoned)
  /\ MayDirect(u, docs[d])
  /\ Change(w, d, Assign(docs[d], [status |-> TargetOf(FLOW, "withdraw")]))

CommitRow(w) ==
  LET q == req[w]
      superseded == IF q.step = "effective" THEN q.supersedes ELSE {}
  IN /\ q.step \in {"row", "effective"}
     /\ docs' = [d \in Document |->
          IF d = q.doc THEN Flush(q.loaded, q.new, docs[d])
          ELSE IF d \in superseded THEN [docs[d] EXCEPT !.status = TargetOf(FLOW, "supersede")]
          ELSE docs[d]]
     /\ Finish(w)
     /\ UNCHANGED <<files, links>>

(* revise copies an effective document; n + 1 is the revision it starts.   *)
Copied(row) ==
  Assign(NoDocument, [status |-> "draft", owner |-> row.owner, approver |-> row.approver])

InProgress(n) == docs[n].status \in {"draft", "approved"}

Revise(w, u, d) ==
  /\ d \in Revision /\ d + 1 \in Revision
  /\ docs[d].status = "effective"
  /\ MayDirect(u, docs[d])
  /\ ~InProgress(d + 1)
  /\ Start(w, [step |-> "revision", doc |-> d + 1, new |-> Copied(docs[d])])

(* uq_document_number_revision refuses a revision number that is taken.    *)
NumberIsFree(d) == ~Exists(d)

CommitRevision(w) ==
  LET q == req[w]
  IN /\ q.step = "revision"
     /\ NumberIsFree(q.doc)
     /\ docs' = [docs EXCEPT ![q.doc] = q.new]
     /\ Finish(w)
     /\ UNCHANGED <<files, links>>

(* remove_link with a reason.                                              *)
RemoveLink(l) ==
  /\ Free
  /\ links' = links \ {l}
  /\ UNCHANGED <<docs, files, req>>

Abort(w) ==
  /\ InFlight(w)
  /\ Finish(w)
  /\ UNCHANGED <<docs, files, links>>
-----------------------------------------------------------------------------
People == [{"owner"} -> User] \cup [{"approver"} -> User \cup {Nobody}]

Next ==
  \/ \E u, owner \in User, approver \in User \cup {Nobody} : CreateControlled(u, owner, approver)
  \/ \E u \in User, d \in Evidence : FileEvidence(u, d)
  \/ \E w \in Worker, u \in User, d \in Document :
       \/ \E linked \in BOOLEAN : Upload(w, u, d, linked)
       \/ \E people \in People : UpdatePeople(w, u, d, people)
       \/ Approve(w, u, d)
       \/ MakeEffective(w, u, d)
       \/ \E reasoned \in BOOLEAN : Withdraw(w, u, d, reasoned)
       \/ Revise(w, u, d)
  \/ \E l \in links : RemoveLink(l)
  \/ \E w \in Worker : CommitFile(w) \/ CommitRow(w) \/ CommitRevision(w) \/ Abort(w)

Spec == Init /\ [][Next]_vars
-----------------------------------------------------------------------------
DocumentRow ==
  [status : {"absent", "draft", "approved", "effective", "superseded", "withdrawn", "active"},
   owner : User \cup {Nobody}, approver : User \cup {Nobody},
   current_version : 0..MaxFile, approved_version : 0..MaxFile, approved_by : User \cup {Nobody}]

(* The rows have the types of their columns; controlled documents are      *)
(* never active, uncontrolled ones never anything but active or withdrawn. *)
TypeOK ==
  /\ \A d \in Document : docs[d] \in DocumentRow
  /\ \A d \in Document : Exists(d) => docs[d].owner # Nobody
  /\ \A d \in Revision : docs[d].status # "active"
  /\ \A d \in Evidence : docs[d].status \in {"absent", "active", "withdrawn"}
  /\ \A d \in Document : files[d] \in Seq(User) /\ Len(files[d]) <= MaxFile
  /\ links \subseteq [doc : Evidence, version : 1..MaxFile, by : User]
  /\ DOMAIN req = Worker

(* However the requests interleave:                                        *)

(* Whoever approved a document did not upload the file that was approved,  *)
(* and that file exists.                                                   *)
ApprovedFileHadSecondPair ==
  \A d \in Revision : docs[d].approved_by # Nobody =>
    /\ docs[d].approved_version \in DOMAIN files[d]
    /\ files[d][docs[d].approved_version] # docs[d].approved_by

(* Filed evidence stays the file that was filed: the version a link is     *)
(* pinned to exists and is the one its author uploaded.                    *)
EvidenceIsPinned ==
  \A l \in links : l.version \in DOMAIN files[l.doc] /\ files[l.doc][l.version] = l.by

(* A revision is superseded only by one that was approved.                 *)
SupersededHasSuccessor ==
  \A d \in Revision : docs[d].status = "superseded" =>
    d + 1 \in Revision /\ docs[d + 1].approved_by # Nobody

(* Of serial requests only:                                                *)

(* At most one revision is effective.                                      *)
OneEffective ==
  Serial => \A d, e \in Revision : docs[d].status = "effective" /\ docs[e].status = "effective" => d = e

(* What a reader of an approved document downloads is the file that was    *)
(* approved, and neither its owner nor its uploader approved it.           *)
ServedIsApproved ==
  Serial => \A d \in Revision : docs[d].status \in {"approved", "effective", "superseded"} =>
    /\ docs[d].approved_version = docs[d].current_version
    /\ docs[d].approved_by \notin {Nobody, docs[d].owner, files[d][docs[d].current_version]}

(* What was approved, filed or replaced stays what somebody looked at:     *)
(* however uploads, approvals and links interleave, and whoever reads it   *)
(* while they are served in turn (transition, add_version, download and    *)
(* attach_evidence).                                                       *)
FilesAreTheApprovedOnes == ApprovedFileHadSecondPair /\ EvidenceIsPinned /\ ServedIsApproved

(* One revision is in force, and what it replaced was replaced by an       *)
(* approved one (revise, transition).                                      *)
RevisionsSucceedEachOther == SupersededHasSuccessor /\ OneEffective

(* A controlled document is a sealed record, its author the uploader of    *)
(* its last file; a draft that was withdrawn was never sealed.             *)
SealState(row) ==
  CASE row.status = "absent" -> "none"
    [] row.approved_by = Nobody /\ row.status # "absent" -> "open"
    [] row.approved_by # Nobody /\ row.status \in {"approved", "effective"} -> "sealed"
    [] OTHER -> "retired"

Governed == INSTANCE SealedRecord WITH
  Record <- Revision, Actor <- User, Fit <- LAMBDA c : c[1] > 0,
  state <- [d \in Revision |-> IF Serial THEN SealState(docs[d]) ELSE "none"],
  author <- [d \in Revision |-> IF files[d] = <<>> THEN Nobody ELSE files[d][Len(files[d])]],
  content <- [d \in Revision |-> <<docs[d].current_version, docs[d].owner, docs[d].approver>>],
  signer <- [d \in Revision |-> docs[d].approved_by]

ImplementsSealing == Governed!Spec
-----------------------------------------------------------------------------
(* The bounds of the run: revisions and evidence are explored one beside   *)
(* the other; requests that race do so over two files of one revision, or  *)
(* over one file of each of two that stay with their owner.                *)
WorkerSymmetry == Permutations(Worker)

FilesUpTo(n) == \A d \in Revision : Len(files[d]) <= n
RevisionsUpTo(n) == \A d \in Revision : Exists(d) => d <= n
NoEvidence == \A d \in Evidence : ~Exists(d)

OwnedByReviewer == \A d \in Revision : Exists(d) => docs[d].owner \in Reviewer

Tight == \/ RevisionsUpTo(1)
         \/ FilesUpTo(1) /\ OwnedByReviewer

Bounds ==
  /\ NoEvidence \/ RevisionsUpTo(0)
  /\ Serial \/ Tight
=============================================================================
