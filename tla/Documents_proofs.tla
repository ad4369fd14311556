--------------------------- MODULE Documents_proofs ---------------------------
(***************************************************************************)
(* Proofs about Documents, for any people, revisions, evidence and number  *)
(* of workers: what was approved, filed or replaced stays what somebody    *)
(* looked at, one revision is in force, and controlled documents implement *)
(* sealed records; and, at the end, about Calculations, for any returns,   *)
(* sheets and windows: what is parsed, counted and shown of the returns.   *)
(***************************************************************************)
EXTENDS Documents, Calculations, Requests_proofs

(* What the handlers make of the row they have loaded.                     *)
Filed(row) ==
  [status |-> row.status, owner |-> row.owner, approver |-> row.approver,
   current_version |-> row.current_version + 1, approved_version |-> row.approved_version,
   approved_by |-> row.approved_by]

Repeopled(row, owner, approver) ==
  [status |-> row.status, owner |-> owner, approver |-> approver,
   current_version |-> row.current_version, approved_version |-> row.approved_version,
   approved_by |-> row.approved_by]

ApprovedBy(row, u, version) ==
  [status |-> "approved", owner |-> row.owner, approver |-> row.approver,
   current_version |-> row.current_version, approved_version |-> version, approved_by |-> u]

Moved(row, status) ==
  [status |-> status, owner |-> row.owner, approver |-> row.approver,
   current_version |-> row.current_version, approved_version |-> row.approved_version,
   approved_by |-> row.approved_by]

(* The three handlers that change nothing but a row.                       *)
PeopleMove(d, row, new) ==
  /\ row.status # "absent" /\ (d \in Revision => row.status = "draft")
  /\ \E owner \in User, approver \in User \cup {Nobody} : new = Repeopled(row, owner, approver)

ApprovalMove(d, row, new, fileTable) ==
  /\ d \in Revision /\ row.status = "draft"
  /\ row.approved_by = Nobody /\ row.approved_version = 0
  /\ row.current_version \in 1..Len(fileTable[d])
  /\ \E u \in User :
       /\ new = ApprovedBy(row, u, row.current_version)
       /\ fileTable[d][row.current_version] # u

WithdrawalMove(row, new) ==
  row.status \in {"draft", "approved", "effective", "active"} /\ new = Moved(row, "withdrawn")

(* What is true of a request in flight, whatever was committed since it    *)
(* has loaded its row.                                                     *)
Underway(q, docTable, fileTable) ==
  /\ q.step \in {"idle", "off", "file", "row", "effective", "revision"}
  /\ q.step \in {"file", "row", "effective"} =>
       q.doc \in Document /\ docTable[q.doc].status # "absent" /\ q.loaded \in DocumentRow
  /\ q.step = "file" =>
       /\ q.by \in User
       /\ q.linked \in BOOLEAN /\ (q.linked => q.doc \in Evidence)
       /\ q.loaded.current_version < MaxFile
       /\ q.new = Filed(q.loaded)
  /\ q.step = "row" =>
       \/ PeopleMove(q.doc, q.loaded, q.new)
       \/ ApprovalMove(q.doc, q.loaded, q.new, fileTable)
       \/ WithdrawalMove(q.loaded, q.new)
  /\ q.step = "effective" =>
       /\ q.doc \in Revision
       /\ q.loaded.status = "approved"
       /\ docTable[q.doc].approved_by # Nobody
       /\ q.new = Moved(q.loaded, "effective")
       /\ \A p \in q.supersedes : /\ p \in Revision /\ p + 1 = q.doc
                                  /\ docTable[p].approved_by # Nobody
  /\ q.step = "revision" =>
       /\ q.doc \in Revision
       /\ \E owner \in User, approver \in User \cup {Nobody} :
            q.new = Repeopled(Moved(NoDocument, "draft"), owner, approver)

InFlightIsTrue ==
  /\ DOMAIN req = Worker
  /\ \A w \in Worker : Underway(req[w], docs, files)

(* A document and its files, whatever raced for them.                      *)
WholeDocument(d, row, names) ==
  /\ row \in DocumentRow
  /\ names \in Seq(User)
  /\ row.current_version = Len(names)
  /\ row.status = "absent" => row = NoDocument
  /\ row.status # "absent" => row.owner # Nobody
  /\ IF d \in Revision THEN row.status # "active"
     ELSE row.status \in {"absent", "active", "withdrawn"}
  /\ row.status \in {"draft", "active"} => row.approved_by = Nobody /\ row.approved_version = 0
  /\ row.status \in {"approved", "effective", "superseded"} => row.approved_by # Nobody
  /\ row.approved_by # Nobody =>
       row.approved_version \in 1..Len(names) /\ names[row.approved_version] # row.approved_by

DocumentsAreWhole ==
  /\ DOMAIN docs = Document
  /\ DOMAIN files = Document
  /\ \A d \in Document : WholeDocument(d, docs[d], files[d])

LinksAreWhole ==
  \A l \in links : l \in [doc : Evidence, version : 1..MaxFile, by : User]

(* The inductive invariant of requests that race.                          *)
DocumentsInvariant ==
  /\ InFlightIsTrue
  /\ DocumentsAreWhole
  /\ LinksAreWhole
  /\ EvidenceIsPinned
  /\ SupersededHasSuccessor

(* Of serial requests, what a request has found is what its commit finds.  *)
Found(q) ==
  /\ q.step \in {"file", "row", "effective"} => docs[q.doc] = q.loaded
  /\ q.step = "file" => (q.doc \in Revision => q.loaded.status = "draft")
  /\ q.step = "row" /\ q.new.status = "approved" /\ q.loaded.status = "draft" =>
       q.new.approved_by # q.loaded.owner
  /\ q.step = "effective" =>
       q.supersedes = {p \in {q.doc - 1} \cap Revision : docs[p].status = "effective"}
  /\ q.step = "revision" => q.doc - 1 \in Revision /\ docs[q.doc - 1].status = "effective"

ServedRow(d, row, names) ==
  row.status \in {"approved", "effective", "superseded"} =>
    /\ row.approved_version = row.current_version
    /\ row.approved_by \notin {row.owner, names[row.current_version]}

DocumentsAreServed == \A d \in Revision : ServedRow(d, docs[d], files[d])

(* A revision is begun while the one before is in force, which makes way   *)
(* when it comes into force.                                               *)
RevisionsAreInOrder ==
  /\ \A d, e \in Revision : d < e /\ Exists(e) =>
       docs[d].status \in {"effective", "superseded", "withdrawn"}
  /\ \A d, e \in Revision : docs[d].status = "effective" /\ d < e =>
       docs[e].status = "absent" \/ (e = d + 1 /\ docs[e].status # "effective")

RowsAreSound == DocumentsAreServed /\ RevisionsAreInOrder

(* The inductive invariant of serial requests.                             *)
SerialInvariant == Serial => RowsAreSound /\ \A w \in Worker : Found(req[w])
-----------------------------------------------------------------------------
(* Rows.                                                                   *)

LEMMA AssignedDocument ==
  ASSUME NEW row \in DocumentRow, NEW values
  PROVE  Assign(row, values) =
           [status |-> IF "status" \in DOMAIN values THEN values.status ELSE row.status,
            owner |-> IF "owner" \in DOMAIN values THEN values.owner ELSE row.owner,
            approver |-> IF "approver" \in DOMAIN values THEN values.approver ELSE row.approver,
            current_version |-> IF "current_version" \in DOMAIN values THEN values.current_version
                                ELSE row.current_version,
            approved_version |-> IF "approved_version" \in DOMAIN values THEN values.approved_version
                                 ELSE row.approved_version,
            approved_by |-> IF "approved_by" \in DOMAIN values THEN values.approved_by
                            ELSE row.approved_by]
BY DEF Assign, DocumentRow

LEMMA FlushedDocument ==
  ASSUME NEW loaded \in DocumentRow, NEW new \in DocumentRow, NEW row \in DocumentRow
  PROVE  Flush(loaded, new, row) =
           [status |-> IF new.status = loaded.status THEN row.status ELSE new.status,
            owner |-> IF new.owner = loaded.owner THEN row.owner ELSE new.owner,
            approver |-> IF new.approver = loaded.approver THEN row.approver ELSE new.approver,
            current_version |-> IF new.current_version = loaded.current_version
                                THEN row.current_version ELSE new.current_version,
            approved_version |-> IF new.approved_version = loaded.approved_version
                                 THEN row.approved_version ELSE new.approved_version,
            approved_by |-> IF new.approved_by = loaded.approved_by
                            THEN row.approved_by ELSE new.approved_by]
BY DEF Flush, DocumentRow

(* A file adds a version to the row it found, a transition moves it.       *)
LEMMA FlushedFile ==
  ASSUME NEW loaded \in DocumentRow, NEW row \in DocumentRow,
         loaded.current_version = row.current_version
  PROVE  Flush(loaded, Filed(loaded), row) = Filed(row)
BY DEF Flush, DocumentRow, Filed

LEMMA FlushedMove ==
  ASSUME NEW loaded \in DocumentRow, NEW row \in DocumentRow, NEW status, status # loaded.status
  PROVE  Flush(loaded, Moved(loaded, status), row) = Moved(row, status)
BY DEF Flush, DocumentRow, Moved

LEMMA FlushedPeople ==
  ASSUME NEW loaded \in DocumentRow, NEW row \in DocumentRow, NEW owner, NEW approver, NEW o, NEW a,
         o = IF owner = loaded.owner THEN row.owner ELSE owner,
         a = IF approver = loaded.approver THEN row.approver ELSE approver
  PROVE  Flush(loaded, Repeopled(loaded, owner, approver), row) = Repeopled(row, o, a)
BY DEF Flush, DocumentRow, Repeopled

LEMMA NoDocumentIsRow ==
  ASSUME DocumentsAssumption
  PROVE  /\ NoDocument \in DocumentRow
         /\ Moved(NoDocument, "draft") \in DocumentRow
         /\ NoDocument.status = "absent" /\ NoDocument.current_version = 0
         /\ NoDocument.approved_by = Nobody
<1>1. 0 \in 0..MaxFile
  BY DEF DocumentsAssumption
<1> QED
  BY <1>1 DEF NoDocument, DocumentRow, Moved

(* A document once created stays, and so does the name of its approver.    *)
DocumentsStay(docTable, docTable2) ==
  \A d \in Document :
    /\ docTable[d].status # "absent" => docTable2[d].status # "absent"
    /\ docTable[d].approved_by # Nobody => docTable2[d].approved_by # Nobody

(* Files are only added.                                                   *)
FilesStay(fileTable, fileTable2) ==
  \A d \in Document :
    /\ 1..Len(fileTable[d]) \subseteq 1..Len(fileTable2[d])
    /\ \A i \in 1..Len(fileTable[d]) : fileTable2[d][i] = fileTable[d][i]

LEMMA UnderwayStays ==
  ASSUME NEW q, NEW docTable, NEW docTable2, NEW fileTable, NEW fileTable2,
         Underway(q, docTable, fileTable), DocumentsStay(docTable, docTable2), FilesStay(fileTable, fileTable2)
  PROVE  Underway(q, docTable2, fileTable2)
<1>1. \A d \in Revision : d \in Document
  BY DEF Document
<1>2. ApprovalMove(q.doc, q.loaded, q.new, fileTable) => ApprovalMove(q.doc, q.loaded, q.new, fileTable2)
  BY <1>1 DEF ApprovalMove, FilesStay
<1> QED
  BY <1>1, <1>2 DEF Underway, DocumentsStay
-----------------------------------------------------------------------------
(* The steps, however requests race.                                       *)

LEMMA InitHolds == ASSUME DocumentsAssumption, Init PROVE DocumentsInvariant
<1>1. \A d \in Document : docs[d] = NoDocument /\ files[d] = <<>>
  BY DEF Init
<1>2. InFlightIsTrue
  BY DEF Init, RequestsInit, Idle, Off, InFlightIsTrue, Underway
<1>3. \A d \in Document : WholeDocument(d, docs[d], files[d])
  <2>1. <<>> \in Seq(User) /\ Len(<<>>) = 0
    OBVIOUS
  <2> QED
    BY <1>1, <2>1, NoDocumentIsRow DEF WholeDocument
<1>4. DocumentsAreWhole
  BY <1>3 DEF Init, DocumentsAreWhole
<1>5. LinksAreWhole /\ EvidenceIsPinned
  BY DEF Init, LinksAreWhole, EvidenceIsPinned
<1>6. SupersededHasSuccessor
  BY <1>1, NoDocumentIsRow DEF SupersededHasSuccessor, Document
<1> QED
  BY <1>2, <1>4, <1>5, <1>6 DEF DocumentsInvariant

(* The files of links stay, while files are only added.                    *)
LEMMA LinksStayPinned ==
  ASSUME DocumentsInvariant, FilesStay(files, files'),
         DocumentsAreWhole',
         \A l \in links' :
           \/ l \in links
           \/ /\ l \in [doc : Evidence, version : 1..MaxFile, by : User]
              /\ l.version \in 1..Len(files'[l.doc])
              /\ files'[l.doc][l.version] = l.by
  PROVE  LinksAreWhole' /\ EvidenceIsPinned'
<1>1. LinksAreWhole'
  BY DEF DocumentsInvariant, LinksAreWhole
<1>2. ASSUME NEW l \in links' PROVE l.version \in DOMAIN files'[l.doc] /\ files'[l.doc][l.version] = l.by
  <2>1. l.doc \in Document
    BY <1>1 DEF LinksAreWhole, Document
  <2>2. files[l.doc] \in Seq(User) /\ files'[l.doc] \in Seq(User)
    BY <2>1 DEF DocumentsInvariant, DocumentsAreWhole, WholeDocument
  <2>3. DOMAIN files[l.doc] = 1..Len(files[l.doc]) /\ DOMAIN files'[l.doc] = 1..Len(files'[l.doc])
    BY <2>2
  <2>4. CASE l \in links
    BY <2>1, <2>3, <2>4 DEF DocumentsInvariant, EvidenceIsPinned, FilesStay
  <2> QED
    BY <2>3, <2>4
<1> QED
  BY <1>1, <1>2 DEF EvidenceIsPinned

(* A row is inserted where there was none.                                 *)
LEMMA InsertKeeps ==
  ASSUME DocumentsAssumption, DocumentsInvariant, NEW d \in Document, ~Exists(d), NEW new,
         docs' = [docs EXCEPT ![d] = new], new.status \in {"draft", "active"},
         WholeDocument(d, new, files'[d]),
         DOMAIN files' = Document, \A e \in Document \ {d} : files'[e] = files[e]
  PROVE  /\ DocumentsStay(docs, docs') /\ FilesStay(files, files')
         /\ DocumentsAreWhole'
         /\ SupersededHasSuccessor'
<1>1. docs'[d] = new /\ DOMAIN docs' = Document /\ \A e \in Document \ {d} : docs'[e] = docs[e]
  BY DEF DocumentsInvariant, DocumentsAreWhole
<1>2. docs[d] = NoDocument /\ files[d] \in Seq(User) /\ Len(files[d]) = 0
  BY NoDocumentIsRow DEF Exists, DocumentsInvariant, DocumentsAreWhole, WholeDocument
<1>3. DocumentsStay(docs, docs')
  BY <1>1, <1>2, NoDocumentIsRow DEF DocumentsStay
<1>4. FilesStay(files, files')
  BY <1>2 DEF FilesStay
<1>5. DocumentsAreWhole'
  BY <1>1 DEF DocumentsInvariant, DocumentsAreWhole
<1>6. SupersededHasSuccessor'
  BY <1>1, <1>3 DEF DocumentsInvariant, SupersededHasSuccessor, DocumentsStay, Document
<1> QED
  BY <1>3, <1>4, <1>5, <1>6

LEMMA CreateControlledKeeps ==
  ASSUME DocumentsAssumption, DocumentsInvariant, NEW u \in User, NEW owner \in User,
         NEW approver \in User \cup {Nobody}, CreateControlled(u, owner, approver)
  PROVE  DocumentsInvariant'
<1> DEFINE new == docs'[1]
<1>1. 1 \in Revision /\ 1 \in Document /\ ~Exists(1) /\ UNCHANGED <<files, links, req>>
  BY DEF CreateControlled, Document
<1>2. Assign(NoDocument, [status |-> "draft", owner |-> owner, approver |-> approver])
        = Repeopled(Moved(NoDocument, "draft"), owner, approver)
  BY NoDocumentIsRow, AssignedDocument DEF Repeopled, Moved
<1>3. docs' = [docs EXCEPT ![1] = Repeopled(Moved(NoDocument, "draft"), owner, approver)]
  BY <1>2 DEF CreateControlled
<1>4. docs[1] = NoDocument
  BY <1>1 DEF DocumentsInvariant, DocumentsAreWhole, WholeDocument, Exists
<1>5. WholeDocument(1, Repeopled(Moved(NoDocument, "draft"), owner, approver), files[1])
  BY <1>1, <1>4, NoDocumentIsRow
     DEF DocumentsInvariant, DocumentsAreWhole, WholeDocument, Repeopled, Moved, DocumentRow,
         NoDocument, DocumentsAssumption
<1>6. /\ DocumentsStay(docs, docs') /\ FilesStay(files, files')
      /\ DocumentsAreWhole' /\ SupersededHasSuccessor'
  BY <1>1, <1>3, <1>5, InsertKeeps DEF Repeopled, Moved, DocumentsInvariant, DocumentsAreWhole
<1>7. LinksAreWhole' /\ EvidenceIsPinned'
  BY <1>1, <1>6, LinksStayPinned
<1>8. InFlightIsTrue'
  BY <1>1, <1>6, UnderwayStays DEF DocumentsInvariant, InFlightIsTrue
<1> QED
  BY <1>6, <1>7, <1>8 DEF DocumentsInvariant

LEMMA FileEvidenceKeeps ==
  ASSUME DocumentsAssumption, DocumentsInvariant, NEW u \in User, NEW d \in Evidence, FileEvidence(u, d)
  PROVE  DocumentsInvariant'
<1> DEFINE new == Filed(Repeopled(Moved(NoDocument, "active"), u, Nobody))
<1>1. d \in Document /\ d \notin Revision /\ ~Exists(d) /\ UNCHANGED req
  BY DEF FileEvidence, Document, Evidence, Revision, DocumentsAssumption
<1>2. Assign(NoDocument, [status |-> "active", owner |-> u, current_version |-> 1]) = new
  BY NoDocumentIsRow, AssignedDocument DEF Filed, Repeopled, Moved, NoDocument
<1>3. /\ docs' = [docs EXCEPT ![d] = new]
      /\ files' = [files EXCEPT ![d] = <<u>>]
      /\ links' = links \cup {[doc |-> d, version |-> 1, by |-> u]}
  BY <1>2 DEF FileEvidence
<1>4. files'[d] = <<u>> /\ DOMAIN files' = Document /\ \A e \in Document \ {d} : files'[e] = files[e]
  BY <1>1, <1>3 DEF DocumentsInvariant, DocumentsAreWhole
<1>5. new \in DocumentRow /\ new.status = "active" /\ new.current_version = 1
      /\ new.owner = u /\ new.approved_by = Nobody /\ new.approved_version = 0
  <2>1. new = [status |-> "active", owner |-> u, approver |-> Nobody, current_version |-> 0 + 1,
               approved_version |-> 0, approved_by |-> Nobody]
    BY DEF Filed, Repeopled, Moved, NoDocument
  <2>2. 0 \in 0..MaxFile /\ 1 \in 0..MaxFile
    BY DEF DocumentsAssumption
  <2> HIDE DEF new
  <2> QED
    BY <2>1, <2>2 DEF DocumentRow
<1>6. <<u>> \in Seq(User) /\ Len(<<u>>) = 1 /\ <<u>>[1] = u
  OBVIOUS
<1> HIDE DEF new
<1>7. WholeDocument(d, new, files'[d])
  BY <1>1, <1>4, <1>5, <1>6 DEF WholeDocument, DocumentsAssumption
<1>8. /\ DocumentsStay(docs, docs') /\ FilesStay(files, files')
      /\ DocumentsAreWhole' /\ SupersededHasSuccessor'
  BY <1>1, <1>3, <1>4, <1>5, <1>7, InsertKeeps
<1>9. LinksAreWhole' /\ EvidenceIsPinned'
  <2>1. 1 \in 1..MaxFile
    BY DEF DocumentsAssumption
  <2> QED
    BY <1>3, <1>4, <1>6, <1>8, <2>1, LinksStayPinned
<1>10. InFlightIsTrue'
  BY <1>1, <1>8, UnderwayStays DEF DocumentsInvariant, InFlightIsTrue
<1> QED
  BY <1>8, <1>9, <1>10 DEF DocumentsInvariant

(* Only the requests change.                                               *)
LEMMA RowsRest ==
  ASSUME DocumentsInvariant, UNCHANGED <<docs, files, links>>
  PROVE  /\ DocumentsAreWhole' /\ LinksAreWhole' /\ EvidenceIsPinned' /\ SupersededHasSuccessor'
         /\ DocumentsStay(docs, docs') /\ FilesStay(files, files')
BY DEF DocumentsInvariant, DocumentsAreWhole, LinksAreWhole, EvidenceIsPinned, SupersededHasSuccessor,
       DocumentsStay, FilesStay

LEMMA StartKeeps ==
  ASSUME DocumentsInvariant, NEW w \in Worker, NEW q, Start(w, q), Underway(q, docs, files)
  PROVE  DocumentsInvariant'
<1>1. \A v \in Worker : req'[v] = q \/ req'[v] = req[v]
  BY DEF Start, Begin, DocumentsInvariant, InFlightIsTrue
<1>2. InFlightIsTrue'
  BY <1>1 DEF Start, Begin, DocumentsInvariant, InFlightIsTrue
<1> QED
  BY <1>2, RowsRest DEF Start, DocumentsInvariant

(* What the handlers start.                                                *)
Starts(w) ==
  \E u \in User, d \in Document :
    \/ \E linked \in BOOLEAN : Upload(w, u, d, linked)
    \/ \E people \in People : UpdatePeople(w, u, d, people)
    \/ Approve(w, u, d)
    \/ MakeEffective(w, u, d)
    \/ \E reasoned \in BOOLEAN : Withdraw(w, u, d, reasoned)
    \/ Revise(w, u, d)

StartsSoundly(w) ==
  \E q : Start(w, q) /\ q.step # "off" /\ Underway(q, docs, files) /\ (Serial => Found(q))

LEMMA UploadStarts ==
  ASSUME DocumentsAssumption, DocumentsInvariant, NEW w \in Worker, NEW u \in User, NEW d \in Document,
         NEW linked \in BOOLEAN, Upload(w, u, d, linked)
  PROVE  StartsSoundly(w)
<1> DEFINE new == Assign(docs[d], [current_version |-> docs[d].current_version + 1])
           q == [step |-> "file", doc |-> d, by |-> u, linked |-> linked, loaded |-> docs[d], new |-> new]
<1>1. docs[d] \in DocumentRow
  BY DEF DocumentsInvariant, DocumentsAreWhole, WholeDocument
<1>2. new = Filed(docs[d])
  BY <1>1, AssignedDocument DEF Filed
<1>3. linked => d \in Evidence
  BY DEF Upload, DocumentsInvariant, LinksAreWhole
<1>4. docs[d].status # "absent" /\ (d \in Revision => docs[d].status = "draft")
  BY DEF Upload, TakesFiles
<1> HIDE DEF new
<1>5. Underway(q, docs, files) /\ Found(q)
  BY <1>1, <1>2, <1>3, <1>4 DEF Upload, Underway, Found
<1> QED
  BY <1>5 DEF Upload, StartsSoundly, new

(* A handler that changes nothing but a row.                               *)
LEMMA ChangeStarts ==
  ASSUME DocumentsInvariant, NEW w \in Worker, NEW d \in Document, NEW new, Change(w, d, new),
         docs[d].status # "absent",
         \/ PeopleMove(d, docs[d], new)
         \/ ApprovalMove(d, docs[d], new, files) /\ new.approved_by # docs[d].owner
         \/ WithdrawalMove(docs[d], new)
  PROVE  StartsSoundly(w)
<1> DEFINE q == [step |-> "row", doc |-> d, loaded |-> docs[d], new |-> new]
<1>1. docs[d] \in DocumentRow
  BY DEF DocumentsInvariant, DocumentsAreWhole, WholeDocument
<1>2. Underway(q, docs, files)
  BY <1>1 DEF Underway
<1>3. Found(q)
  BY DEF Found, PeopleMove, WithdrawalMove, Repeopled, Moved
<1> QED
  BY <1>2, <1>3 DEF Change, StartsSoundly

LEMMA UpdatePeopleStarts ==
  ASSUME DocumentsAssumption, DocumentsInvariant, NEW w \in Worker, NEW u \in User, NEW d \in Document,
         NEW people \in People, UpdatePeople(w, u, d, people)
  PROVE  StartsSoundly(w)
<1> DEFINE row == docs[d]
           new == Assign(row, people)
<1>1. row \in DocumentRow /\ row.status # "absent" /\ (d \in Revision => row.status = "draft") /\ row.owner \in User
  BY DEF UpdatePeople, Exists, DocumentsInvariant, DocumentsAreWhole, WholeDocument, DocumentRow
<1> HIDE DEF row
<1>2. PeopleMove(d, row, new)
  <2>1. CASE people \in [{"owner"} -> User]
    <3>1. new = Repeopled(row, people.owner, row.approver)
      BY <1>1, <2>1, AssignedDocument DEF Repeopled
    <3> QED
      BY <1>1, <2>1, <3>1 DEF PeopleMove, DocumentRow
  <2>2. CASE people \in [{"approver"} -> User \cup {Nobody}]
    <3>1. new = Repeopled(row, row.owner, people.approver)
      BY <1>1, <2>2, AssignedDocument DEF Repeopled
    <3> QED
      BY <1>1, <2>2, <3>1 DEF PeopleMove, DocumentRow
  <2> QED
    BY <2>1, <2>2 DEF People
<1> QED
  BY <1>1, <1>2, ChangeStarts DEF UpdatePeople, row

LEMMA ApproveStarts ==
  ASSUME DocumentsAssumption, DocumentsInvariant, NEW w \in Worker, NEW u \in User, NEW d \in Document,
         Approve(w, u, d)
  PROVE  StartsSoundly(w)
<1> DEFINE row == docs[d]
           new == Assign(row, [status |-> TargetOf(FLOW, "approve"), approved_by |-> u,
                               approved_version |-> row.current_version])
<1>1. WholeDocument(d, row, files[d])
  BY DEF DocumentsInvariant, DocumentsAreWhole
<1>2. row.status = "draft" /\ TargetOf(FLOW, "approve") = "approved"
  BY DEF Approve, Permits, TargetOf, FLOW, Transition, ReasonedTransition
<1>3. row.current_version > 0 /\ u # row.owner /\ u # files[d][row.current_version]
      /\ Change(w, d, new)
  BY DEF Approve, SecondPair
<1>4. d \in Revision
  BY <1>1, <1>2 DEF WholeDocument
<1>5. row \in DocumentRow /\ row.approved_by = Nobody /\ row.approved_version = 0
      /\ row.current_version \in 1..Len(files[d])
  BY <1>1, <1>2, <1>3 DEF WholeDocument, DocumentRow
<1> HIDE DEF row
<1>6. new = ApprovedBy(row, u, row.current_version)
  BY <1>2, <1>5, AssignedDocument DEF ApprovedBy
<1>7. ApprovalMove(d, row, new, files) /\ new.approved_by # row.owner
  BY <1>2, <1>3, <1>4, <1>5, <1>6 DEF ApprovalMove, ApprovedBy
<1> QED
  BY <1>2, <1>3, <1>7, ChangeStarts DEF row

LEMMA MovedDocument ==
  ASSUME NEW row \in DocumentRow, NEW status
  PROVE  /\ Assign(row, [status |-> status]) = Moved(row, status)
         /\ [row EXCEPT !.status = status] = Moved(row, status)
<1>1. Assign(row, [status |-> status]) = Moved(row, status)
  BY AssignedDocument DEF Moved
<1>2. [row EXCEPT !.status = status] = Moved(row, status)
  BY DEF Moved, DocumentRow
<1> QED
  BY <1>1, <1>2

LEMMA WithdrawStarts ==
  ASSUME DocumentsInvariant, NEW w \in Worker, NEW u \in User, NEW d \in Document,
         NEW reasoned \in BOOLEAN, Withdraw(w, u, d, reasoned)
  PROVE  StartsSoundly(w)
<1> DEFINE row == docs[d]
<1>1. row \in DocumentRow
  BY DEF DocumentsInvariant, DocumentsAreWhole, WholeDocument
<1>2. row.status \in {"draft", "approved", "effective", "active"}
      /\ TargetOf(FLOW, "withdraw") = "withdrawn"
  BY DEF Withdraw, Permits, TargetOf, FLOW, Transition, ReasonedTransition
<1>3. Change(w, d, Moved(row, "withdrawn"))
  BY <1>1, <1>2, MovedDocument DEF Withdraw
<1> QED
  BY <1>2, <1>3, ChangeStarts DEF WithdrawalMove

LEMMA MakeEffectiveStarts ==
  ASSUME DocumentsAssumption, DocumentsInvariant, NEW w \in Worker, NEW u \in User, NEW d \in Document,
         MakeEffective(w, u, d)
  PROVE  StartsSoundly(w)
<1> DEFINE row == docs[d]
           new == Moved(row, "effective")
           q == [step |-> "effective", doc |-> d, loaded |-> row, supersedes |-> Previous(d), new |-> new]
<1>1. WholeDocument(d, row, files[d])
  BY DEF DocumentsInvariant, DocumentsAreWhole
<1>2. row.status = "approved" /\ TargetOf(FLOW, "make_effective") = "effective"
  BY DEF MakeEffective, Permits, TargetOf, FLOW, Transition, ReasonedTransition
<1>3. row \in DocumentRow /\ d \in Revision /\ row.approved_by # Nobody
  BY <1>1, <1>2 DEF WholeDocument
<1>4. Start(w, q)
  BY <1>2, <1>3, MovedDocument DEF MakeEffective
<1>5. Previous(d) = {p \in {d - 1} \cap Revision : docs[p].status = "effective"}
  BY DEF Previous, Permits, FLOW, Transition, ReasonedTransition
<1>6. ASSUME NEW p \in Previous(d)
      PROVE  p \in Revision /\ p + 1 = d /\ docs[p].approved_by # Nobody
  <2>1. p \in Revision /\ p = d - 1 /\ p \in Document
    BY <1>5 DEF Document
  <2>2. docs[p].approved_by # Nobody
    BY <1>5, <2>1 DEF DocumentsInvariant, DocumentsAreWhole, WholeDocument
  <2> QED
    BY <1>3, <2>1, <2>2 DEF Revision
<1> HIDE DEF new, row
<1>7. Underway(q, docs, files)
  BY <1>2, <1>3, <1>6 DEF Underway, row, new
<1>8. Found(q)
  BY <1>5 DEF Found, row
<1> QED
  BY <1>4, <1>7, <1>8 DEF StartsSoundly

LEMMA ReviseStarts ==
  ASSUME DocumentsAssumption, DocumentsInvariant, NEW w \in Worker, NEW u \in User, NEW d \in Document,
         Revise(w, u, d)
  PROVE  StartsSoundly(w)
<1> DEFINE row == docs[d]
           new == Copied(row)
           q == [step |-> "revision", doc |-> d + 1, new |-> new]
<1>1. d \in Revision /\ d + 1 \in Revision /\ row.status = "effective" /\ Start(w, q)
  BY DEF Revise
<1>2. row \in DocumentRow /\ row.owner \in User
  BY <1>1 DEF DocumentsInvariant, DocumentsAreWhole, WholeDocument, DocumentRow
<1>3. new = Repeopled(Moved(NoDocument, "draft"), row.owner, row.approver)
  BY NoDocumentIsRow, AssignedDocument DEF Copied, Repeopled, Moved
<1>4. (d + 1) - 1 = d
  BY <1>1 DEF Revision
<1> HIDE DEF new
<1>5. Underway(q, docs, files)
  BY <1>1, <1>2, <1>3 DEF Underway, DocumentRow
<1>6. Found(q)
  BY <1>1, <1>4 DEF Found
<1> QED
  BY <1>1, <1>5, <1>6 DEF StartsSoundly

LEMMA StartsAreSound ==
  ASSUME DocumentsAssumption, DocumentsInvariant, NEW w \in Worker, Starts(w)
  PROVE  StartsSoundly(w)
BY UploadStarts, UpdatePeopleStarts, ApproveStarts, MakeEffectiveStarts, WithdrawStarts, ReviseStarts
   DEF Starts

(* What a commit of a file leaves: one more version, whoever else filed.   *)
LEMMA CommitFileLeaves ==
  ASSUME DocumentsAssumption, DocumentsInvariant, NEW w \in Worker, CommitFile(w)
  PROVE  /\ req[w].doc \in Document /\ docs[req[w].doc].status # "absent"
         /\ req[w].by \in User
         /\ docs[req[w].doc].current_version < MaxFile
         /\ docs' = [docs EXCEPT ![req[w].doc] = Filed(docs[req[w].doc])]
         /\ files' = [files EXCEPT ![req[w].doc] = Append(files[req[w].doc], req[w].by)]
         /\ links' = IF req[w].linked
                     THEN links \cup {[doc |-> req[w].doc,
                                       version |-> docs[req[w].doc].current_version + 1,
                                       by |-> req[w].by]}
                     ELSE links
         /\ req[w].linked => req[w].doc \in Evidence
<1> DEFINE q == req[w]
           d == q.doc
<1>1. /\ q.step = "file" /\ VersionIsFree(d, q.new.current_version)
      /\ files' = [files EXCEPT ![d] = Append(files[d], q.by)]
      /\ docs' = [docs EXCEPT ![d] = Flush(q.loaded, q.new, docs[d])]
      /\ links' = IF q.linked
                  THEN links \cup {[doc |-> d, version |-> q.new.current_version, by |-> q.by]}
                  ELSE links
  BY DEF CommitFile, FiledVersion
<1>2. Underway(q, docs, files)
  BY DEF DocumentsInvariant, InFlightIsTrue
<1>3. /\ d \in Document /\ docs[d].status # "absent" /\ q.loaded \in DocumentRow
      /\ q.by \in User /\ q.new = Filed(q.loaded)
      /\ q.loaded.current_version < MaxFile
      /\ q.linked => d \in Evidence
  BY <1>1, <1>2 DEF Underway
<1> HIDE DEF q, d
<1>4. docs[d] \in DocumentRow /\ docs[d].current_version = Len(files[d])
  BY <1>3 DEF DocumentsInvariant, DocumentsAreWhole, WholeDocument
<1>5. q.loaded.current_version = docs[d].current_version
  BY <1>1, <1>3, <1>4 DEF VersionIsFree, Filed, DocumentRow
<1>6. Flush(q.loaded, q.new, docs[d]) = Filed(docs[d])
  BY <1>3, <1>4, <1>5, FlushedFile
<1>7. q.new.current_version = docs[d].current_version + 1
  BY <1>3, <1>5 DEF Filed
<1> QED
  BY <1>1, <1>3, <1>5, <1>6, <1>7 DEF q, d

LEMMA CommitFileKeeps ==
  ASSUME DocumentsAssumption, DocumentsInvariant, NEW w \in Worker, CommitFile(w)
  PROVE  /\ DocumentsStay(docs, docs') /\ FilesStay(files, files')
         /\ DocumentsAreWhole' /\ LinksAreWhole' /\ EvidenceIsPinned' /\ SupersededHasSuccessor'
<1> DEFINE d == req[w].doc
           u == req[w].by
           row == docs[d]
           names == files[d]
<1>1. /\ d \in Document /\ row.status # "absent" /\ u \in User /\ row.current_version < MaxFile
      /\ docs' = [docs EXCEPT ![d] = Filed(row)]
      /\ files' = [files EXCEPT ![d] = Append(names, u)]
      /\ links' = IF req[w].linked
                  THEN links \cup {[doc |-> d, version |-> row.current_version + 1, by |-> u]}
                  ELSE links
      /\ req[w].linked => d \in Evidence
  BY CommitFileLeaves
<1>2. WholeDocument(d, row, names)
  BY <1>1 DEF DocumentsInvariant, DocumentsAreWhole
<1>3. /\ docs'[d] = Filed(row) /\ files'[d] = Append(names, u)
      /\ DOMAIN docs' = Document /\ DOMAIN files' = Document
      /\ \A e \in Document : e # d => docs'[e] = docs[e] /\ files'[e] = files[e]
  BY <1>1 DEF DocumentsInvariant, DocumentsAreWhole
<1> HIDE DEF d, u, row, names
<1>4. /\ Append(names, u) \in Seq(User) /\ Len(Append(names, u)) = Len(names) + 1
      /\ Append(names, u)[Len(names) + 1] = u
      /\ \A i \in 1..Len(names) : Append(names, u)[i] = names[i]
      /\ Len(names) \in Nat
  BY <1>1, <1>2 DEF WholeDocument
<1>5. WholeDocument(d, Filed(row), Append(names, u))
  <2>1. Filed(row) \in DocumentRow
    BY <1>1, <1>2 DEF WholeDocument, Filed, DocumentRow
  <2>2. row.approved_by # Nobody =>
          /\ row.approved_version \in 1..Len(Append(names, u))
          /\ Append(names, u)[row.approved_version] # row.approved_by
    BY <1>2, <1>4 DEF WholeDocument
  <2> QED
    BY <1>1, <1>2, <1>4, <2>1, <2>2 DEF WholeDocument, Filed
<1>6. DocumentsAreWhole'
  BY <1>3, <1>5 DEF DocumentsInvariant, DocumentsAreWhole
<1>7. DocumentsStay(docs, docs')
  BY <1>3 DEF DocumentsStay, Filed, row
<1>8. FilesStay(files, files')
  BY <1>3, <1>4 DEF FilesStay, names
<1>9. LinksAreWhole' /\ EvidenceIsPinned'
  <2>1. row.current_version + 1 \in 1..MaxFile /\ row.current_version = Len(names)
    BY <1>1, <1>2, <1>4 DEF WholeDocument, DocumentsAssumption
  <2>2. \A l \in links' :
          \/ l \in links
          \/ /\ l \in [doc : Evidence, version : 1..MaxFile, by : User]
             /\ l.version \in 1..Len(files'[l.doc])
             /\ files'[l.doc][l.version] = l.by
    BY <1>1, <1>3, <1>4, <2>1
  <2> QED
    BY <1>6, <1>8, <2>2, LinksStayPinned
<1>10. SupersededHasSuccessor'
  BY <1>3, <1>7 DEF DocumentsInvariant, SupersededHasSuccessor, DocumentsStay, Document, Filed, row
<1> QED
  BY <1>6, <1>7, <1>8, <1>9, <1>10

(* What a commit may make of a row, whatever it has become since it was    *)
(* loaded.                                                                 *)
RowMove(d, row, new, names) ==
  \/ \E owner \in User, approver \in User \cup {Nobody} : new = Repeopled(row, owner, approver)
  \/ /\ d \in Revision
     /\ \E u \in User, version \in 1..Len(names) :
          new = ApprovedBy(row, u, version) /\ names[version] # u
  \/ new = Moved(row, "withdrawn")
  \/ d \in Revision /\ row.approved_by # Nobody /\ new = Moved(row, "effective")

LEMMA RowMoveIsWhole ==
  ASSUME DocumentsAssumption, NEW d, NEW row, NEW new, NEW names,
         WholeDocument(d, row, names), row.status # "absent", RowMove(d, row, new, names)
  PROVE  /\ WholeDocument(d, new, names)
         /\ new.status # "absent"
         /\ row.approved_by # Nobody => new.approved_by # Nobody
         /\ new.status = "superseded" => row.status = "superseded"
<1>1. CASE \E owner \in User, approver \in User \cup {Nobody} : new = Repeopled(row, owner, approver)
  BY <1>1 DEF WholeDocument, Repeopled, DocumentRow, DocumentsAssumption
<1>2. ASSUME d \in Revision, NEW u \in User, NEW version \in 1..Len(names),
             new = ApprovedBy(row, u, version), names[version] # u
      PROVE  /\ WholeDocument(d, new, names)
             /\ new.status = "approved" /\ new.approved_by # Nobody
  <2>1. version \in 0..MaxFile
    BY <1>2 DEF WholeDocument, DocumentRow, DocumentsAssumption
  <2> QED
    BY <1>2, <2>1 DEF WholeDocument, ApprovedBy, DocumentRow, DocumentsAssumption
<1>3. CASE new = Moved(row, "withdrawn")
  BY <1>3 DEF WholeDocument, Moved, DocumentRow
<1>4. CASE d \in Revision /\ row.approved_by # Nobody /\ new = Moved(row, "effective")
  BY <1>4 DEF WholeDocument, Moved, DocumentRow
<1> QED
  BY <1>1, <1>2, <1>3, <1>4 DEF RowMove

(* The revision that a commit supersedes.                                  *)
Superseded(q) == IF q.step = "effective" THEN q.supersedes ELSE {}

LEMMA FlushMoves ==
  ASSUME DocumentsAssumption, NEW q, q.doc \in Document,
         WholeDocument(q.doc, docs[q.doc], files[q.doc]),
         q.step \in {"row", "effective"}, Underway(q, docs, files)
  PROVE  RowMove(q.doc, docs[q.doc], Flush(q.loaded, q.new, docs[q.doc]), files[q.doc])
<1> DEFINE row == docs[q.doc]
           names == files[q.doc]
           new == Flush(q.loaded, q.new, row)
<1>1. row \in DocumentRow /\ q.loaded \in DocumentRow /\ row.owner \in User
  BY DEF WholeDocument, Underway, DocumentRow
<1> HIDE DEF row, names
<1>2. CASE q.step = "row" /\ PeopleMove(q.doc, q.loaded, q.new)
  <2>1. PICK owner \in User, approver \in User \cup {Nobody} : q.new = Repeopled(q.loaded, owner, approver)
    BY <1>2 DEF PeopleMove
  <2> DEFINE o == IF owner = q.loaded.owner THEN row.owner ELSE owner
             a == IF approver = q.loaded.approver THEN row.approver ELSE approver
  <2>2. o \in User /\ a \in User \cup {Nobody}
    BY <1>1 DEF DocumentRow
  <2>3. new = Repeopled(row, o, a)
    <3>1. /\ o = IF owner = q.loaded.owner THEN row.owner ELSE owner
          /\ a = IF approver = q.loaded.approver THEN row.approver ELSE approver
      OBVIOUS
    <3> HIDE DEF o, a
    <3> QED
      BY <1>1, <2>1, <3>1, FlushedPeople
  <2> HIDE DEF o, a
  <2> QED
    BY <2>2, <2>3 DEF RowMove, row, names
<1>3. CASE q.step = "row" /\ ApprovalMove(q.doc, q.loaded, q.new, files)
  <2>1. /\ q.doc \in Revision /\ q.loaded.status = "draft"
        /\ q.loaded.approved_by = Nobody /\ q.loaded.approved_version = 0
        /\ q.loaded.current_version \in 1..Len(names)
    BY <1>3 DEF ApprovalMove, names
  <2>2. PICK u \in User : /\ q.new = ApprovedBy(q.loaded, u, q.loaded.current_version)
                         /\ names[q.loaded.current_version] # u
    BY <1>3 DEF ApprovalMove, names
  <2>3. q.new \in DocumentRow
    BY <1>1, <2>2 DEF ApprovedBy, DocumentRow
  <2>4. new = ApprovedBy(row, u, q.loaded.current_version)
    BY <1>1, <2>1, <2>2, <2>3, FlushedDocument DEF ApprovedBy, DocumentsAssumption
  <2> QED
    BY <2>1, <2>2, <2>4 DEF RowMove, row, names
<1>4. CASE q.step = "row" /\ WithdrawalMove(q.loaded, q.new)
  <2>1. q.new = Moved(q.loaded, "withdrawn") /\ q.loaded.status # "withdrawn"
    BY <1>4 DEF WithdrawalMove
  <2>2. new = Moved(row, "withdrawn")
    BY <1>1, <2>1, FlushedMove
  <2> QED
    BY <2>2 DEF RowMove, row, names
<1>5. CASE q.step = "effective"
  <2>1. /\ q.loaded.status = "approved" /\ q.new = Moved(q.loaded, "effective")
        /\ q.doc \in Revision /\ row.approved_by # Nobody
    BY <1>5 DEF Underway, row
  <2>2. new = Moved(row, "effective")
    BY <1>1, <2>1, FlushedMove
  <2> QED
    BY <2>1, <2>2 DEF RowMove, row, names
<1> QED
  BY <1>2, <1>3, <1>4, <1>5 DEF Underway

LEMMA CommitRowLeaves ==
  ASSUME DocumentsAssumption, DocumentsInvariant, NEW w \in Worker, CommitRow(w)
  PROVE  /\ req[w].doc \in Document /\ docs[req[w].doc].status # "absent"
         /\ DOMAIN docs' = Document
         /\ docs'[req[w].doc] = Flush(req[w].loaded, req[w].new, docs[req[w].doc])
         /\ RowMove(req[w].doc, docs[req[w].doc], docs'[req[w].doc], files[req[w].doc])
         /\ \A p \in Superseded(req[w]) :
              /\ p \in Revision /\ req[w].doc \in Revision
              /\ p + 1 = req[w].doc /\ p # req[w].doc
              /\ docs[p].approved_by # Nobody /\ docs[req[w].doc].approved_by # Nobody
              /\ docs'[p] = Moved(docs[p], "superseded")
         /\ \A e \in Document : e # req[w].doc /\ e \notin Superseded(req[w]) => docs'[e] = docs[e]
<1> DEFINE q == req[w]
           d == q.doc
<1>1. /\ q.step \in {"row", "effective"}
      /\ docs' = [e \in Document |->
                    IF e = d THEN Flush(q.loaded, q.new, docs[e])
                    ELSE IF e \in Superseded(q) THEN [docs[e] EXCEPT !.status = "superseded"]
                    ELSE docs[e]]
  BY DEF CommitRow, Superseded, TargetOf, FLOW, Transition, ReasonedTransition
<1>2. Underway(q, docs, files)
  BY DEF DocumentsInvariant, InFlightIsTrue
<1>3. d \in Document /\ docs[d].status # "absent"
  BY <1>1, <1>2 DEF Underway
<1> HIDE DEF q
<1>4. \A e \in Document : WholeDocument(e, docs[e], files[e])
  BY DEF DocumentsInvariant, DocumentsAreWhole
<1>5. docs'[d] = Flush(q.loaded, q.new, docs[d])
  BY <1>1, <1>3
<1>6. RowMove(d, docs[d], docs'[d], files[d])
  BY <1>1, <1>2, <1>3, <1>4, <1>5, FlushMoves
<1>7. ASSUME NEW p \in Superseded(q)
      PROVE  /\ p \in Revision /\ d \in Revision /\ p + 1 = d /\ p # d
             /\ docs[p].approved_by # Nobody /\ docs[d].approved_by # Nobody
             /\ docs'[p] = Moved(docs[p], "superseded")
  <2>1. q.step = "effective" /\ p \in q.supersedes
    BY <1>7 DEF Superseded
  <2>2. /\ p \in Revision /\ d \in Revision /\ p + 1 = d
        /\ docs[p].approved_by # Nobody /\ docs[d].approved_by # Nobody
    BY <1>2, <2>1 DEF Underway
  <2>3. p # d /\ p \in Document
    BY <2>2 DEF Revision, Document
  <2>4. docs'[p] = [docs[p] EXCEPT !.status = "superseded"] /\ docs[p] \in DocumentRow
    BY <1>1, <1>4, <2>3 DEF WholeDocument
  <2> QED
    BY <2>2, <2>3, <2>4, MovedDocument
<1> QED
  BY <1>1, <1>3, <1>5, <1>6, <1>7 DEF q

LEMMA CommitRowKeeps ==
  ASSUME DocumentsAssumption, DocumentsInvariant, NEW w \in Worker, CommitRow(w)
  PROVE  /\ DocumentsStay(docs, docs') /\ FilesStay(files, files')
         /\ DocumentsAreWhole' /\ LinksAreWhole' /\ EvidenceIsPinned' /\ SupersededHasSuccessor'
<1> DEFINE d == req[w].doc
           replaced == Superseded(req[w])
<1>1. /\ d \in Document /\ docs[d].status # "absent" /\ DOMAIN docs' = Document
      /\ RowMove(d, docs[d], docs'[d], files[d])
      /\ \A p \in replaced :
           /\ p \in Revision /\ d \in Revision /\ p + 1 = d /\ p # d
           /\ docs[p].approved_by # Nobody /\ docs[d].approved_by # Nobody
           /\ docs'[p] = Moved(docs[p], "superseded")
      /\ \A e \in Document : e # d /\ e \notin replaced => docs'[e] = docs[e]
  BY CommitRowLeaves
<1>2. UNCHANGED <<files, links>>
  BY DEF CommitRow
<1>3. \A e \in Document : WholeDocument(e, docs[e], files[e])
  BY DEF DocumentsInvariant, DocumentsAreWhole
<1> HIDE DEF d, replaced
<1>4. /\ WholeDocument(d, docs'[d], files[d]) /\ docs'[d].status # "absent"
      /\ docs[d].approved_by # Nobody => docs'[d].approved_by # Nobody
      /\ docs'[d].status = "superseded" => docs[d].status = "superseded"
  BY <1>1, <1>3, RowMoveIsWhole
<1>5. ASSUME NEW p \in replaced
      PROVE  /\ p \in Document /\ WholeDocument(p, docs'[p], files[p])
             /\ docs'[p].status # "absent" /\ docs'[p].approved_by # Nobody
  <2>1. p \in Document /\ p \in Revision /\ docs[p].approved_by # Nobody
        /\ docs'[p] = Moved(docs[p], "superseded")
    BY <1>1 DEF Document
  <2>2. WholeDocument(p, docs[p], files[p]) /\ docs[p].status # "absent"
    BY <1>3, <2>1, NoDocumentIsRow DEF WholeDocument
  <2> QED
    BY <2>1, <2>2 DEF WholeDocument, Moved, DocumentRow
<1>6. DocumentsStay(docs, docs') /\ FilesStay(files, files')
  BY <1>1, <1>2, <1>4, <1>5 DEF DocumentsStay, FilesStay
<1>7. DocumentsAreWhole'
  BY <1>1, <1>2, <1>3, <1>4, <1>5 DEF DocumentsInvariant, DocumentsAreWhole
<1>8. LinksAreWhole' /\ EvidenceIsPinned'
  BY <1>2, <1>6, <1>7, LinksStayPinned
<1>9. SupersededHasSuccessor'
  <2>1. ASSUME NEW e \in Revision, docs'[e].status = "superseded"
        PROVE  e + 1 \in Revision /\ docs'[e + 1].approved_by # Nobody
    <3>1. e \in Document /\ \A x \in Revision : x \in Document
      BY DEF Document
    <3>2. CASE e \in replaced
      BY <1>1, <1>4, <3>2
    <3>3. CASE e \notin replaced
      <4>1. docs[e].status = "superseded"
        BY <1>1, <1>4, <2>1, <3>1, <3>3
      <4> QED
        BY <1>6, <3>1, <4>1 DEF DocumentsInvariant, SupersededHasSuccessor, DocumentsStay
    <3> QED
      BY <3>2, <3>3
  <2> QED
    BY <2>1 DEF SupersededHasSuccessor
<1> QED
  BY <1>6, <1>7, <1>8, <1>9

(* A draft without a file, of whoever started it.                          *)
LEMMA DraftIsWhole ==
  ASSUME DocumentsAssumption, NEW d \in Revision, NEW owner \in User, NEW approver \in User \cup {Nobody},
         NEW names \in Seq(User), Len(names) = 0
  PROVE  /\ WholeDocument(d, Repeopled(Moved(NoDocument, "draft"), owner, approver), names)
         /\ Repeopled(Moved(NoDocument, "draft"), owner, approver).status = "draft"
         /\ Repeopled(Moved(NoDocument, "draft"), owner, approver).approved_by = Nobody
BY NoDocumentIsRow
   DEF WholeDocument, Repeopled, Moved, DocumentRow, NoDocument, DocumentsAssumption

LEMMA CommitRevisionLeaves ==
  ASSUME DocumentsAssumption, DocumentsInvariant, NEW w \in Worker, CommitRevision(w)
  PROVE  /\ req[w].doc \in Revision /\ req[w].doc \in Document /\ ~Exists(req[w].doc)
         /\ docs' = [docs EXCEPT ![req[w].doc] = req[w].new]
         /\ req[w].new.status = "draft" /\ req[w].new.approved_by = Nobody
         /\ WholeDocument(req[w].doc, req[w].new, files[req[w].doc])
         /\ UNCHANGED <<files, links>>
<1> DEFINE q == req[w]
           d == q.doc
<1>1. Underway(q, docs, files)
  BY DEF DocumentsInvariant, InFlightIsTrue
<1>2. /\ q.step = "revision" /\ ~Exists(d) /\ docs' = [docs EXCEPT ![d] = q.new]
      /\ UNCHANGED <<files, links>>
  BY DEF CommitRevision, NumberIsFree
<1>3. d \in Revision /\ d \in Document
  BY <1>1, <1>2 DEF Underway, Document
<1>4. PICK owner \in User, approver \in User \cup {Nobody} :
        q.new = Repeopled(Moved(NoDocument, "draft"), owner, approver)
  BY <1>1, <1>2 DEF Underway
<1>5. files[d] \in Seq(User) /\ Len(files[d]) = 0
  BY <1>2, <1>3, NoDocumentIsRow DEF Exists, DocumentsInvariant, DocumentsAreWhole, WholeDocument
<1> HIDE DEF q, d
<1>6. WholeDocument(d, q.new, files[d]) /\ q.new.status = "draft" /\ q.new.approved_by = Nobody
  BY <1>3, <1>4, <1>5, DraftIsWhole
<1> QED
  BY <1>2, <1>3, <1>6 DEF q, d

Commits(w) == CommitFile(w) \/ CommitRow(w) \/ CommitRevision(w) \/ Abort(w)

LEMMA CommitsKeep ==
  ASSUME DocumentsAssumption, DocumentsInvariant, NEW w \in Worker, Commits(w)
  PROVE  DocumentsInvariant' /\ InFlight(w) /\ Finish(w)
<1>1. InFlight(w) /\ Finish(w)
  BY DEF Commits, CommitFile, CommitRow, CommitRevision, Abort, InFlight
<1>2. /\ DocumentsStay(docs, docs') /\ FilesStay(files, files')
      /\ DocumentsAreWhole' /\ LinksAreWhole' /\ EvidenceIsPinned' /\ SupersededHasSuccessor'
  <2>1. CASE CommitRevision(w)
    <3>1. UNCHANGED <<files, links>> /\ DOMAIN files' = Document
      BY <2>1, CommitRevisionLeaves DEF DocumentsInvariant, DocumentsAreWhole
    <3>2. /\ DocumentsStay(docs, docs') /\ FilesStay(files, files')
          /\ DocumentsAreWhole' /\ SupersededHasSuccessor'
      BY <2>1, <3>1, CommitRevisionLeaves, InsertKeeps
    <3> QED
      BY <3>1, <3>2, LinksStayPinned
  <2>2. CASE Abort(w)
    BY <2>2, RowsRest DEF Abort
  <2> QED
    BY <2>1, <2>2, CommitFileKeeps, CommitRowKeeps DEF Commits
<1>3. \A v \in Worker : req'[v] = Idle \/ req'[v] = req[v]
  BY <1>1 DEF Finish, DocumentsInvariant, InFlightIsTrue
<1>4. Underway(Idle, docs', files')
  BY DEF Underway, Idle
<1>5. \A v \in Worker : Underway(req[v], docs', files')
  BY <1>2, UnderwayStays DEF DocumentsInvariant, InFlightIsTrue
<1>6. InFlightIsTrue'
  BY <1>1, <1>3, <1>4, <1>5 DEF Finish, DocumentsInvariant, InFlightIsTrue
<1> QED
  BY <1>1, <1>2, <1>6 DEF DocumentsInvariant

LEMMA StepKeeps ==
  ASSUME DocumentsAssumption, DocumentsInvariant, [Next]_vars
  PROVE  DocumentsInvariant'
<1>1. CASE UNCHANGED vars
  <2>1. InFlightIsTrue'
    BY <1>1 DEF vars, DocumentsInvariant, InFlightIsTrue
  <2> QED
    BY <1>1, <2>1, RowsRest DEF vars, DocumentsInvariant
<1>2. ASSUME NEW w \in Worker, Starts(w) PROVE DocumentsInvariant'
  BY <1>2, StartsAreSound, StartKeeps DEF StartsSoundly
<1>3. ASSUME NEW l \in links, RemoveLink(l) PROVE DocumentsInvariant'
  <2>1. UNCHANGED <<docs, files, req>> /\ links' \subseteq links
    BY <1>3 DEF RemoveLink
  <2> QED
    BY <2>1 DEF DocumentsInvariant, InFlightIsTrue, DocumentsAreWhole, LinksAreWhole,
                EvidenceIsPinned, SupersededHasSuccessor
<1>4. CASE Next
  BY <1>2, <1>3, <1>4, CreateControlledKeeps, FileEvidenceKeeps, CommitsKeep DEF Next, Starts, Commits
<1> QED
  BY <1>1, <1>4
-----------------------------------------------------------------------------
(* The steps of serial requests.                                           *)

(* What a step does to one revision, as a sealed record.                   *)
SealMove(d) ==
  LET row == docs[d]
      new == docs'[d]
      Same == /\ new.current_version = row.current_version /\ new.owner = row.owner
              /\ new.approver = row.approver /\ files'[d] = files[d]
  IN \/ new = row /\ files'[d] = files[d]
     \/ row.status = "absent" /\ new.status # "absent" /\ new.approved_by = Nobody
     \/ /\ row.status # "absent" /\ row.approved_by = Nobody
        /\ new.status # "absent" /\ new.approved_by = Nobody
     \/ /\ row.status = "draft" /\ row.approved_by = Nobody /\ Same
        /\ row.current_version > 0
        /\ new.status = "approved" /\ new.approved_by \in User \ {files[d][row.current_version]}
     \/ /\ row.status \in {"approved", "effective"} /\ row.approved_by # Nobody /\ Same
        /\ new.status \in {"effective", "superseded", "withdrawn"}
        /\ new.approved_by = row.approved_by

RevisionsMove == \A d \in Revision : SealMove(d)

(* The order of the revisions stands while none is begun, made effective   *)
(* or superseded.                                                          *)
LEMMA OrderStays ==
  ASSUME RevisionsAreInOrder,
         \A d \in Revision :
           \/ docs'[d].status = docs[d].status
           \/ docs[d].status = "draft" /\ docs'[d].status = "approved"
           \/ docs[d].status # "absent" /\ docs'[d].status = "withdrawn"
  PROVE  RevisionsAreInOrder'
BY DEF RevisionsAreInOrder, Exists

LEMMA ServedStays ==
  ASSUME DocumentsAreServed,
         \A d \in Revision :
           \/ docs'[d] = docs[d] /\ files'[d] = files[d]
           \/ ServedRow(d, docs'[d], files'[d])
  PROVE  DocumentsAreServed'
BY DEF DocumentsAreServed

(* A draft is inserted after the revision in force, if there is one.       *)
LEMMA SerialInsert ==
  ASSUME RowsAreSound, NEW d \in Revision, ~Exists(d),
         docs'[d].status = "draft", docs'[d].approved_by = Nobody,
         \A e \in Revision : e # d => docs'[e] = docs[e],
         UNCHANGED files,
         d = 1 \/ (d - 1 \in Revision /\ docs[d - 1].status = "effective")
  PROVE  RowsAreSound' /\ RevisionsMove
<1>1. RevisionsMove
  BY DEF RevisionsMove, SealMove, Exists
<1>2. DocumentsAreServed'
  BY ServedStays DEF RowsAreSound, ServedRow
<1>3. \A e \in Revision : e \in Nat /\ e >= 1
  BY DEF Revision
<1>4. \A e \in Revision : d < e => ~Exists(e)
  <2>1. CASE d = 1
    BY <2>1 DEF RowsAreSound, RevisionsAreInOrder, Exists
  <2>2. CASE d - 1 \in Revision /\ docs[d - 1].status = "effective"
    BY <1>3, <2>2 DEF RowsAreSound, RevisionsAreInOrder, Exists
  <2> QED
    BY <2>1, <2>2
<1>5. \A e \in Revision : e < d => e # d /\ docs[e].status \in {"effective", "superseded", "withdrawn"}
  <2>1. ASSUME NEW e \in Revision, e < d, d - 1 \in Revision, docs[d - 1].status = "effective"
        PROVE  docs[e].status \in {"effective", "superseded", "withdrawn"}
    BY <1>3, <2>1 DEF RowsAreSound, RevisionsAreInOrder, Exists
  <2> QED
    BY <1>3, <2>1
<1>6. \A e \in Revision : e < d /\ docs[e].status = "effective" => d = e + 1
  <2>1. ASSUME NEW e \in Revision, e < d, docs[e].status = "effective", d # e + 1
        PROVE  FALSE
    <3>1. d - 1 \in Revision /\ docs[d - 1].status = "effective" /\ e < d - 1
      BY <1>3, <2>1
    <3> QED
      BY <2>1, <3>1 DEF RowsAreSound, RevisionsAreInOrder
  <2> QED
    BY <2>1
<1>7. RevisionsAreInOrder'
  <2>1. ASSUME NEW x \in Revision, NEW e \in Revision, x < e, docs'[e].status # "absent"
        PROVE  docs'[x].status \in {"effective", "superseded", "withdrawn"}
    BY <1>4, <1>5, <2>1 DEF RowsAreSound, RevisionsAreInOrder, Exists
  <2>2. ASSUME NEW x \in Revision, NEW e \in Revision, docs'[x].status = "effective", x < e
        PROVE  docs'[e].status = "absent" \/ (e = x + 1 /\ docs'[e].status # "effective")
    BY <1>4, <1>6, <2>2 DEF RowsAreSound, RevisionsAreInOrder, Exists
  <2> QED
    BY <2>1, <2>2 DEF RevisionsAreInOrder, Exists
<1> QED
  BY <1>1, <1>2, <1>7 DEF RowsAreSound

LEMMA SerialFile ==
  ASSUME DocumentsAssumption, DocumentsInvariant, RowsAreSound, NEW w \in Worker, Found(req[w]),
         CommitFile(w)
  PROVE  RowsAreSound' /\ RevisionsMove
<1> DEFINE d == req[w].doc
<1>1. /\ d \in Document
      /\ docs' = [docs EXCEPT ![d] = Filed(docs[d])]
      /\ files' = [files EXCEPT ![d] = Append(files[d], req[w].by)]
  BY CommitFileLeaves
<1>2. d \in Revision => docs[d].status = "draft"
  BY DEF Found, CommitFile
<1>3. /\ docs'[d].status = docs[d].status /\ docs'[d].approved_by = docs[d].approved_by
      /\ \A e \in Document : e # d => docs'[e] = docs[e] /\ files'[e] = files[e]
  BY <1>1 DEF DocumentsInvariant, DocumentsAreWhole, Filed
<1>4. d \in Revision => docs[d].approved_by = Nobody
  BY <1>1, <1>2 DEF DocumentsInvariant, DocumentsAreWhole, WholeDocument
<1> HIDE DEF d
<1>5. \A e \in Revision : e \in Document
  BY DEF Document
<1>6. RevisionsMove
  BY <1>2, <1>3, <1>4, <1>5 DEF RevisionsMove, SealMove
<1>7. RevisionsAreInOrder'
  BY <1>3, <1>5, OrderStays DEF RowsAreSound
<1>8. DocumentsAreServed'
  BY <1>2, <1>3, <1>5, ServedStays DEF RowsAreSound, ServedRow
<1> QED
  BY <1>6, <1>7, <1>8 DEF RowsAreSound

LEMMA FlushedWhole ==
  ASSUME NEW row \in DocumentRow, NEW new \in DocumentRow
  PROVE  Flush(row, new, row) = new
BY DEF Flush, DocumentRow

LEMMA SerialRow ==
  ASSUME DocumentsAssumption, DocumentsInvariant, RowsAreSound, NEW w \in Worker, Found(req[w]),
         CommitRow(w), req[w].step = "row"
  PROVE  RowsAreSound' /\ RevisionsMove
<1> DEFINE q == req[w]
           d == q.doc
           row == docs[d]
           new == docs'[d]
<1>1. /\ d \in Document /\ row.status # "absent"
      /\ new = Flush(q.loaded, q.new, row)
      /\ \A e \in Document : e # d => docs'[e] = docs[e]
  BY CommitRowLeaves DEF Superseded
<1>2. /\ row = q.loaded
      /\ q.new.status = "approved" /\ row.status = "draft" => q.new.approved_by # row.owner
  BY DEF Found
<1>3. \/ PeopleMove(d, row, q.new)
      \/ ApprovalMove(d, row, q.new, files)
      \/ WithdrawalMove(row, q.new)
  BY <1>2 DEF DocumentsInvariant, InFlightIsTrue, Underway
<1>4. WholeDocument(d, row, files[d])
  BY <1>1 DEF DocumentsInvariant, DocumentsAreWhole
<1>5. UNCHANGED files
  BY DEF CommitRow
<1>6. \A e \in Revision : e \in Document
  BY DEF Document
<1> HIDE DEF q, d, row, new
<1>7. row \in DocumentRow
  BY <1>4 DEF WholeDocument
<1>8. CASE PeopleMove(d, row, q.new)
  <2>1. PICK owner \in User, approver \in User \cup {Nobody} : q.new = Repeopled(row, owner, approver)
    BY <1>8 DEF PeopleMove
  <2>2. q.new \in DocumentRow
    BY <1>7, <2>1 DEF Repeopled, DocumentRow
  <2>3. new = q.new
    BY <1>1, <1>2, <1>7, <2>2, FlushedWhole
  <2>4. /\ new.status = row.status
        /\ d \in Revision => new.approved_by = Nobody /\ row.approved_by = Nobody /\ row.status = "draft"
    BY <1>4, <1>8, <2>1, <2>3 DEF Repeopled, PeopleMove, WholeDocument
  <2>5. RevisionsMove
    BY <1>1, <1>5, <1>6, <2>4 DEF RevisionsMove, SealMove, row, new
  <2>6. RevisionsAreInOrder'
    BY <1>1, <1>6, <2>4, OrderStays DEF RowsAreSound, row, new
  <2>7. DocumentsAreServed'
    BY <1>1, <1>5, <1>6, <2>4, ServedStays DEF RowsAreSound, ServedRow, row, new
  <2> QED
    BY <2>5, <2>6, <2>7 DEF RowsAreSound
<1>9. CASE ApprovalMove(d, row, q.new, files)
  <2>1. /\ d \in Revision /\ row.status = "draft" /\ row.approved_by = Nobody
        /\ row.current_version \in 1..Len(files[d])
    BY <1>9 DEF ApprovalMove
  <2>2. PICK u \in User : /\ q.new = ApprovedBy(row, u, row.current_version)
                         /\ files[d][row.current_version] # u
    BY <1>9 DEF ApprovalMove
  <2>3. q.new \in DocumentRow
    BY <1>7, <2>2 DEF ApprovedBy, DocumentRow
  <2>4. new = ApprovedBy(row, u, row.current_version)
    BY <1>1, <1>2, <1>7, <2>2, <2>3, FlushedWhole
  <2>5. /\ new.status = "approved" /\ new.approved_by = u /\ new.owner = row.owner
        /\ new.approver = row.approver /\ new.current_version = row.current_version
        /\ new.approved_version = row.current_version
    BY <2>4 DEF ApprovedBy
  <2>6. u # row.owner
    BY <1>2, <2>1, <2>2 DEF ApprovedBy
  <2>7. row.current_version > 0
    BY <1>7, <2>1 DEF DocumentRow
  <2>8. RevisionsMove
    BY <1>1, <1>5, <1>6, <2>1, <2>2, <2>5, <2>7 DEF RevisionsMove, SealMove, row, new
  <2>9. RevisionsAreInOrder'
    BY <1>1, <1>6, <2>1, <2>5, OrderStays DEF RowsAreSound, row, new
  <2>10. DocumentsAreServed'
    BY <1>1, <1>5, <1>6, <2>2, <2>5, <2>6, ServedStays DEF RowsAreSound, ServedRow, row, new
  <2> QED
    BY <2>8, <2>9, <2>10 DEF RowsAreSound
<1>10. CASE WithdrawalMove(row, q.new)
  <2>1. row.status \in {"draft", "approved", "effective", "active"} /\ q.new = Moved(row, "withdrawn")
    BY <1>10 DEF WithdrawalMove
  <2>2. q.new \in DocumentRow
    BY <1>7, <2>1 DEF Moved, DocumentRow
  <2>3. new = Moved(row, "withdrawn")
    BY <1>1, <1>2, <1>7, <2>1, <2>2, FlushedWhole
  <2>4. /\ new.status = "withdrawn" /\ new.approved_by = row.approved_by /\ new.owner = row.owner
        /\ new.approver = row.approver /\ new.current_version = row.current_version
    BY <2>3 DEF Moved
  <2>5. d \in Revision /\ row.approved_by # Nobody => row.status \in {"approved", "effective"}
    BY <1>4, <2>1 DEF WholeDocument
  <2>6. RevisionsMove
    BY <1>1, <1>5, <1>6, <2>4, <2>5 DEF RevisionsMove, SealMove, row, new
  <2>7. RevisionsAreInOrder'
    BY <1>1, <1>6, <2>4, OrderStays DEF RowsAreSound, row, new
  <2>8. DocumentsAreServed'
    BY <1>1, <1>5, <1>6, <2>4, ServedStays DEF RowsAreSound, ServedRow, row, new
  <2> QED
    BY <2>6, <2>7, <2>8 DEF RowsAreSound
<1> QED
  BY <1>3, <1>8, <1>9, <1>10

(* A revision comes into force, and the one before makes way for it.       *)
LEMMA SerialEffective ==
  ASSUME DocumentsAssumption, DocumentsInvariant, RowsAreSound, NEW w \in Worker, Found(req[w]),
         CommitRow(w), req[w].step = "effective"
  PROVE  RowsAreSound' /\ RevisionsMove
<1> DEFINE q == req[w]
           d == q.doc
           row == docs[d]
           replaced == q.supersedes
<1>1. /\ d \in Document
      /\ docs'[d] = Flush(q.loaded, q.new, row)
      /\ \A p \in replaced : /\ p \in Revision /\ p + 1 = d /\ p # d
                             /\ docs'[p] = Moved(docs[p], "superseded")
      /\ \A e \in Document : e # d /\ e \notin replaced => docs'[e] = docs[e]
  BY CommitRowLeaves DEF Superseded
<1>2. /\ row = q.loaded
      /\ replaced = {p \in {d - 1} \cap Revision : docs[p].status = "effective"}
  BY DEF Found
<1>3. /\ d \in Revision /\ row.status = "approved" /\ row.approved_by # Nobody
      /\ q.new = Moved(row, "effective")
  BY <1>2 DEF DocumentsInvariant, InFlightIsTrue, Underway
<1>4. row \in DocumentRow
  BY <1>1 DEF DocumentsInvariant, DocumentsAreWhole, WholeDocument
<1>5. UNCHANGED files
  BY DEF CommitRow
<1>6. \A e \in Revision : e \in Document /\ e \in Nat
  BY DEF Document, Revision
<1>7. \A e \in replaced : docs[e].approved_by # Nobody
  BY <1>2, <1>6 DEF DocumentsInvariant, DocumentsAreWhole, WholeDocument
<1> HIDE DEF q, d, row, replaced
<1>8. docs'[d] = Moved(row, "effective")
  BY <1>1, <1>2, <1>3, <1>4, FlushedMove
<1>9. /\ docs'[d].status = "effective" /\ docs'[d].approved_by = row.approved_by
      /\ docs'[d].owner = row.owner /\ docs'[d].approver = row.approver
      /\ docs'[d].current_version = row.current_version
      /\ docs'[d].approved_version = row.approved_version
  BY <1>8 DEF Moved
<1>10. ASSUME NEW p \in replaced
       PROVE  /\ docs'[p].status = "superseded" /\ docs'[p].approved_by = docs[p].approved_by
              /\ docs'[p].owner = docs[p].owner /\ docs'[p].approver = docs[p].approver
              /\ docs'[p].current_version = docs[p].current_version
              /\ docs'[p].approved_version = docs[p].approved_version
              /\ docs[p].status = "effective"
  <2>1. docs'[p] = Moved(docs[p], "superseded")
    BY <1>1
  <2>2. docs[p].status = "effective"
    BY <1>2
  <2> QED
    BY <2>1, <2>2 DEF Moved
<1>11. RevisionsMove
  <2>1. SealMove(d)
    BY <1>3, <1>5, <1>9 DEF SealMove, row
  <2>2. \A p \in replaced : SealMove(p)
    BY <1>5, <1>7, <1>10 DEF SealMove
  <2>3. \A e \in Revision : e # d /\ e \notin replaced => SealMove(e)
    BY <1>1, <1>5, <1>6 DEF SealMove
  <2> QED
    BY <2>1, <2>2, <2>3 DEF RevisionsMove
<1>12. DocumentsAreServed'
  <2>1. \A e \in Revision : ServedRow(e, docs[e], files[e])
    BY DEF RowsAreSound, DocumentsAreServed
  <2>2. ServedRow(d, docs'[d], files'[d])
    BY <1>3, <1>5, <1>9, <2>1 DEF ServedRow, row
  <2>3. \A p \in replaced : ServedRow(p, docs'[p], files'[p])
    BY <1>1, <1>5, <1>10, <2>1 DEF ServedRow
  <2> QED
    BY <1>1, <1>5, <1>6, <2>2, <2>3, ServedStays DEF RowsAreSound
<1>13. RevisionsAreInOrder'
  <2>1. \A e \in Revision : d < e => ~Exists(e)
    BY <1>3 DEF RowsAreSound, RevisionsAreInOrder, row
  <2>2. \A x \in Revision : docs[x].status = "effective" /\ x < d => x \in replaced
    BY <1>2, <1>3, <1>6 DEF RowsAreSound, RevisionsAreInOrder, row
  <2>3. ASSUME NEW x \in Revision, NEW e \in Revision, x < e, docs'[e].status # "absent"
        PROVE  docs'[x].status \in {"effective", "superseded", "withdrawn"}
    <3>1. docs[e].status # "absent"
      BY <1>1, <1>3, <1>6, <1>10, <2>3 DEF row
    <3>2. docs[x].status \in {"effective", "superseded", "withdrawn"}
      BY <2>3, <3>1 DEF RowsAreSound, RevisionsAreInOrder, Exists
    <3> QED
      BY <1>1, <1>6, <1>9, <1>10, <3>2
  <2>4. ASSUME NEW x \in Revision, NEW e \in Revision, docs'[x].status = "effective", x < e
        PROVE  docs'[e].status = "absent" \/ (e = x + 1 /\ docs'[e].status # "effective")
    <3>1. CASE x = d
      <4>1. e # d /\ e \notin replaced /\ docs[e].status = "absent"
        BY <1>6, <1>10, <2>1, <2>4, <3>1 DEF Exists
      <4> QED
        BY <1>1, <1>6, <4>1
    <3>2. CASE x # d
      <4>1. x \notin replaced /\ docs[x].status = "effective"
        BY <1>1, <1>6, <1>10, <2>4, <3>2
      <4>2. docs[e].status = "absent" \/ (e = x + 1 /\ docs[e].status # "effective")
        BY <2>4, <4>1 DEF RowsAreSound, RevisionsAreInOrder
      <4>3. e # d
        BY <2>2, <2>4, <4>1
      <4>4. e \notin replaced
        BY <1>10, <4>2
      <4> QED
        BY <1>1, <1>6, <4>2, <4>3, <4>4
    <3> QED
      BY <3>1, <3>2
  <2> QED
    BY <2>3, <2>4 DEF RevisionsAreInOrder, Exists
<1> QED
  BY <1>11, <1>12, <1>13 DEF RowsAreSound

LEMMA RowsRestSoundly ==
  ASSUME RowsAreSound, \A d \in Revision : docs'[d] = docs[d] /\ files'[d] = files[d]
  PROVE  RowsAreSound' /\ RevisionsMove
<1>1. RevisionsAreInOrder'
  BY OrderStays DEF RowsAreSound
<1>2. DocumentsAreServed'
  BY ServedStays DEF RowsAreSound
<1> QED
  BY <1>1, <1>2 DEF RowsAreSound, RevisionsMove, SealMove

LEMMA SerialCommits ==
  ASSUME DocumentsAssumption, DocumentsInvariant, RowsAreSound, NEW w \in Worker, Found(req[w]),
         Commits(w)
  PROVE  RowsAreSound' /\ RevisionsMove
<1>1. CASE CommitRow(w)
  BY <1>1, SerialRow, SerialEffective DEF CommitRow
<1>2. CASE CommitRevision(w)
  <2>1. /\ req[w].doc \in Revision /\ ~Exists(req[w].doc)
        /\ docs' = [docs EXCEPT ![req[w].doc] = req[w].new]
        /\ req[w].new.status = "draft" /\ req[w].new.approved_by = Nobody
        /\ req[w].doc \in Document
        /\ UNCHANGED files
    BY <1>2, CommitRevisionLeaves
  <2>2. /\ docs'[req[w].doc] = req[w].new
        /\ \A e \in Revision : e # req[w].doc => docs'[e] = docs[e]
    BY <2>1 DEF DocumentsInvariant, DocumentsAreWhole, Document
  <2>3. req[w].doc - 1 \in Revision /\ docs[req[w].doc - 1].status = "effective"
    BY <1>2 DEF CommitRevision, Found
  <2> QED
    BY <2>1, <2>2, <2>3, SerialInsert
<1>3. CASE Abort(w)
  BY <1>3, RowsRestSoundly DEF Abort
<1> QED
  BY <1>1, <1>2, <1>3, SerialFile DEF Commits

LEMMA FreeIsSerial ==
  ASSUME RequestsAssumption, DocumentsInvariant, Free, UNCHANGED req,
         Serial => RowsAreSound' /\ RevisionsMove
  PROVE  SerialInvariant' /\ (Serial' <=> Serial) /\ (Serial => RevisionsMove)
<1>1. Serial' <=> Serial
  BY DEF Serial
<1>2. Serial => \A v \in Worker : req'[v].step \in {"idle", "off"}
  BY SerialIsAlone DEF InFlight
<1>3. Serial => \A v \in Worker : Found(req[v])'
  BY <1>2 DEF Found
<1> QED
  BY <1>1, <1>3 DEF SerialInvariant

LEMMA SerialCreate ==
  ASSUME DocumentsAssumption, DocumentsInvariant, RowsAreSound, NEW u \in User, NEW owner \in User,
         NEW approver \in User \cup {Nobody}, CreateControlled(u, owner, approver)
  PROVE  RowsAreSound' /\ RevisionsMove
<1>1. /\ 1 \in Revision /\ 1 \in Document /\ ~Exists(1) /\ UNCHANGED files
      /\ docs' = [docs EXCEPT ![1] =
                   Assign(NoDocument, [status |-> "draft", owner |-> owner, approver |-> approver])]
  BY DEF CreateControlled, Document
<1>2. Assign(NoDocument, [status |-> "draft", owner |-> owner, approver |-> approver])
        = Repeopled(Moved(NoDocument, "draft"), owner, approver)
  BY NoDocumentIsRow, AssignedDocument DEF Repeopled, Moved
<1>3. /\ docs'[1] = Repeopled(Moved(NoDocument, "draft"), owner, approver)
      /\ \A e \in Revision : e # 1 => docs'[e] = docs[e]
  BY <1>1, <1>2 DEF DocumentsInvariant, DocumentsAreWhole, Document
<1>4. docs'[1].status = "draft" /\ docs'[1].approved_by = Nobody
  BY <1>3 DEF Repeopled, Moved, NoDocument
<1> QED
  BY <1>1, <1>3, <1>4, SerialInsert

LEMMA StartIsSerial ==
  ASSUME DocumentsAssumption, RequestsAssumption, DocumentsInvariant, SerialInvariant,
         NEW w \in Worker, Starts(w)
  PROVE  SerialInvariant' /\ (Serial' <=> Serial) /\ (Serial => RevisionsMove)
<1>1. PICK q : Start(w, q) /\ q.step # "off" /\ (Serial => Found(q))
  BY StartsAreSound DEF StartsSoundly
<1>2. /\ Serial' <=> Serial
      /\ req'[w] = q
      /\ Serial => \A v \in Worker : v # w => req'[v].step = "off"
  BY <1>1, SerialBegins DEF Start, DocumentsInvariant, InFlightIsTrue
<1>3. UNCHANGED <<docs, files, links>>
  BY <1>1 DEF Start
<1>4. Serial => RowsAreSound' /\ RevisionsMove
  BY <1>3, RowsRestSoundly DEF SerialInvariant
<1>5. Serial => \A v \in Worker : Found(req[v])'
  BY <1>1, <1>2, <1>3 DEF Found
<1> QED
  BY <1>2, <1>4, <1>5 DEF SerialInvariant

LEMMA StepIsSerial ==
  ASSUME DocumentsAssumption, RequestsAssumption, DocumentsInvariant, SerialInvariant, [Next]_vars
  PROVE  SerialInvariant' /\ (Serial' <=> Serial) /\ (Serial => RevisionsMove)
<1>1. CASE UNCHANGED vars
  <2>1. UNCHANGED <<docs, files, req>> /\ (Serial' <=> Serial)
    BY <1>1 DEF vars, Serial
  <2>2. Serial => RowsAreSound' /\ RevisionsMove
    BY <2>1, RowsRestSoundly DEF SerialInvariant
  <2> QED
    BY <2>1, <2>2 DEF SerialInvariant, Found
<1>2. ASSUME NEW u \in User, NEW owner \in User, NEW approver \in User \cup {Nobody},
             CreateControlled(u, owner, approver)
      PROVE  SerialInvariant' /\ (Serial' <=> Serial) /\ (Serial => RevisionsMove)
  BY <1>2, SerialCreate, FreeIsSerial DEF CreateControlled, SerialInvariant
<1>3. ASSUME NEW u \in User, NEW d \in Evidence, FileEvidence(u, d)
      PROVE  SerialInvariant' /\ (Serial' <=> Serial) /\ (Serial => RevisionsMove)
  <2>1. \A e \in Revision : e \in Document /\ e # d
    BY DEF Revision, Evidence, Document, DocumentsAssumption
  <2>2. \A e \in Revision : docs'[e] = docs[e] /\ files'[e] = files[e]
    BY <1>3, <2>1 DEF FileEvidence, DocumentsInvariant, DocumentsAreWhole
  <2> QED
    BY <1>3, <2>2, RowsRestSoundly, FreeIsSerial DEF FileEvidence, SerialInvariant
<1>4. ASSUME NEW l \in links, RemoveLink(l)
      PROVE  SerialInvariant' /\ (Serial' <=> Serial) /\ (Serial => RevisionsMove)
  BY <1>4, RowsRestSoundly, FreeIsSerial DEF RemoveLink, SerialInvariant
<1>5. ASSUME NEW w \in Worker, Commits(w)
      PROVE  SerialInvariant' /\ (Serial' <=> Serial) /\ (Serial => RevisionsMove)
  <2>1. InFlight(w) /\ Finish(w)
    BY <1>5, CommitsKeep
  <2>2. /\ Serial' <=> Serial
        /\ Serial => \A v \in Worker : req'[v].step \in {"idle", "off"}
    BY <2>1, SerialFinishes DEF DocumentsInvariant, InFlightIsTrue
  <2>3. Serial => RowsAreSound' /\ RevisionsMove
    BY <1>5, SerialCommits DEF SerialInvariant
  <2> QED
    BY <2>2, <2>3 DEF SerialInvariant, Found
<1> QED
  BY <1>1, <1>2, <1>3, <1>4, <1>5, StartIsSerial DEF Next, Starts, Commits
-----------------------------------------------------------------------------
(* However many requests race, the first invariant holds; of serial ones   *)
(* the second does too.                                                    *)
THEOREM DocumentsInvariantHolds == Spec => [](DocumentsInvariant /\ SerialInvariant)
<1>1. Init => DocumentsInvariant /\ SerialInvariant
  <2>1. ASSUME Init PROVE SerialInvariant
    <3>1. \A w \in Worker : req[w].step \in {"idle", "off"}
      BY <2>1 DEF Init, RequestsInit, Idle, Off
    <3>2. \A d \in Revision : docs[d].status = "absent"
      BY <2>1, NoDocumentIsRow, DocumentsAssumption DEF Init, Document
    <3>3. RowsAreSound
      BY <3>2 DEF RowsAreSound, DocumentsAreServed, ServedRow, RevisionsAreInOrder, Exists
    <3> QED
      BY <3>1, <3>3 DEF SerialInvariant, Found
  <2> QED
    BY <2>1, InitHolds, DocumentsAssumption
<1>2. DocumentsInvariant /\ SerialInvariant /\ [Next]_vars => (DocumentsInvariant /\ SerialInvariant)'
  BY StepKeeps, StepIsSerial, DocumentsAssumption, RequestsAssumption
<1> QED
  BY <1>1, <1>2, PTL DEF Spec

(* Rows and versions have the types of their columns.                      *)
THEOREM DocumentsTypeCorrect == Spec => []TypeOK
<1>1. ASSUME DocumentsInvariant PROVE TypeOK
  <2>1. \A d \in Document : WholeDocument(d, docs[d], files[d])
    BY <1>1 DEF DocumentsInvariant, DocumentsAreWhole
  <2>2. \A d \in Document : docs[d] \in DocumentRow /\ (Exists(d) => docs[d].owner # Nobody)
    BY <2>1 DEF WholeDocument, Exists
  <2>3. \A d \in Document : files[d] \in Seq(User) /\ Len(files[d]) <= MaxFile
    BY <2>1, DocumentsAssumption DEF WholeDocument, DocumentRow, DocumentsAssumption
  <2>4. \A d \in Revision : docs[d].status # "active"
    BY <2>1 DEF WholeDocument, Document
  <2>5. \A d \in Evidence : docs[d].status \in {"absent", "active", "withdrawn"}
    BY <2>1, DocumentsAssumption DEF WholeDocument, Document, Revision, Evidence, DocumentsAssumption
  <2>6. links \subseteq [doc : Evidence, version : 1..MaxFile, by : User] /\ DOMAIN req = Worker
    BY <1>1 DEF DocumentsInvariant, LinksAreWhole, InFlightIsTrue
  <2> QED
    BY <2>2, <2>3, <2>4, <2>5, <2>6 DEF TypeOK
<1> QED
  BY <1>1, DocumentsInvariantHolds, PTL

(* What was approved was uploaded by somebody else, filed evidence is the  *)
(* file its author filed, and of serial requests an approved document is   *)
(* the one that was approved (transition, add_version, attach_evidence).   *)
THEOREM ApprovedFilesAreServed == Spec => []FilesAreTheApprovedOnes
<1>1. ASSUME DocumentsInvariant PROVE ApprovedFileHadSecondPair
  <2>1. \A d \in Revision : WholeDocument(d, docs[d], files[d])
    BY <1>1 DEF DocumentsInvariant, DocumentsAreWhole, Document
  <2>2. \A d \in Revision : DOMAIN files[d] = 1..Len(files[d])
    BY <2>1 DEF WholeDocument
  <2> QED
    BY <2>1, <2>2 DEF WholeDocument, ApprovedFileHadSecondPair
<1>2. ASSUME DocumentsInvariant, SerialInvariant PROVE ServedIsApproved
  <2>1. \A d \in Revision : WholeDocument(d, docs[d], files[d])
    BY <1>2 DEF DocumentsInvariant, DocumentsAreWhole, Document
  <2> QED
    BY <1>2, <2>1 DEF SerialInvariant, RowsAreSound, DocumentsAreServed, ServedRow, WholeDocument,
                      ServedIsApproved
<1>3. DocumentsInvariant => EvidenceIsPinned
  BY DEF DocumentsInvariant
<1> QED
  BY <1>1, <1>2, <1>3, DocumentsInvariantHolds, PTL DEF FilesAreTheApprovedOnes

(* What is superseded was replaced by an approved revision, and of serial  *)
(* requests at most one revision is in force (revise, transition).         *)
THEOREM RevisionsAreReplaced == Spec => []RevisionsSucceedEachOther
<1>1. ASSUME SerialInvariant, Serial, NEW d \in Revision, NEW e \in Revision,
             docs[d].status = "effective", docs[e].status = "effective"
      PROVE  d = e
  <2>1. d \in Nat /\ e \in Nat
    BY DEF Revision
  <2>2. ~(d < e) /\ ~(e < d)
    BY <1>1 DEF SerialInvariant, RowsAreSound, RevisionsAreInOrder
  <2> QED
    BY <2>1, <2>2
<1>2. SerialInvariant => OneEffective
  BY <1>1 DEF OneEffective
<1>3. DocumentsInvariant => SupersededHasSuccessor
  BY DEF DocumentsInvariant
<1> QED
  BY <1>2, <1>3, DocumentsInvariantHolds, PTL DEF RevisionsSucceedEachOther

(* What a serial step does to the revisions is drafting, changing, sealing *)
(* or retiring records, or nothing.                                        *)
LEMMA RevisionsMoveRefines ==
  ASSUME DocumentsInvariant, Serial' <=> Serial, Serial => RevisionsMove
  PROVE  Governed!Next
<1> SUFFICES ASSUME NEW r \in Revision
             PROVE  \/ Governed!Absent(r) \/ Governed!Draft(r) \/ Governed!Edit(r)
                    \/ Governed!Seal(r) \/ Governed!Retire(r) \/ Governed!Rest(r)
  BY DEF Governed!Next
<1>1. CASE ~Serial
  BY <1>1 DEF Governed!Absent
<1>2. CASE Serial
  <2> DEFINE row == docs[r]
             new == docs'[r]
             same == /\ new.current_version = row.current_version /\ new.owner = row.owner
                     /\ new.approver = row.approver /\ files'[r] = files[r]
  <2>1. CASE new = row /\ files'[r] = files[r]
    BY <1>2, <2>1 DEF Governed!Rest
  <2>2. CASE row.status = "absent" /\ new.status # "absent" /\ new.approved_by = Nobody
    BY <1>2, <2>2 DEF SealState, Governed!Draft
  <2>3. CASE /\ row.status # "absent" /\ row.approved_by = Nobody
             /\ new.status # "absent" /\ new.approved_by = Nobody
    BY <1>2, <2>3 DEF SealState, Governed!Edit
  <2>4. CASE /\ row.status = "draft" /\ row.approved_by = Nobody /\ same
             /\ row.current_version > 0
             /\ new.status = "approved" /\ new.approved_by \in User \ {files[r][row.current_version]}
    <3>1. WholeDocument(r, row, files[r])
      BY DEF DocumentsInvariant, DocumentsAreWhole, Document
    <3>2. files[r] # <<>> /\ row.current_version = Len(files[r])
      BY <2>4, <3>1 DEF WholeDocument
    <3>3. new.approved_by # Nobody
      BY <2>4, DocumentsAssumption DEF DocumentsAssumption
    <3> QED
      BY <1>2, <2>4, <3>2, <3>3 DEF SealState, Governed!Seal
  <2>5. CASE /\ row.status \in {"approved", "effective"} /\ row.approved_by # Nobody /\ same
             /\ new.status = "effective" /\ new.approved_by = row.approved_by
    BY <1>2, <2>5 DEF SealState, Governed!Rest
  <2>6. CASE /\ row.status \in {"approved", "effective"} /\ row.approved_by # Nobody /\ same
             /\ new.status \in {"superseded", "withdrawn"} /\ new.approved_by = row.approved_by
    BY <1>2, <2>6 DEF SealState, Governed!Retire
  <2> QED
    BY <1>2, <2>1, <2>2, <2>3, <2>4, <2>5, <2>6 DEF RevisionsMove, SealMove
<1> QED
  BY <1>1, <1>2

(* Of serial requests, revisions implement sealed records: the file and    *)
(* the people of one may change until somebody other than its uploader     *)
(* approves it, and never again.                                           *)
THEOREM RevisionsAreSealedRecords == Spec => ImplementsSealing
<1>1. ASSUME Init PROVE Governed!Init
  <2>1. \A d \in Revision : SealState(docs[d]) = "none"
    BY <1>1, NoDocumentIsRow, DocumentsAssumption DEF Init, SealState, Document
  <2> QED
    BY <2>1 DEF Governed!Init
<1>2. DocumentsInvariant /\ SerialInvariant /\ [Next]_vars => [Governed!Next]_(Governed!vars)
  BY StepIsSerial, RevisionsMoveRefines, DocumentsAssumption, RequestsAssumption
<1> QED
  BY <1>1, <1>2, DocumentsInvariantHolds, PTL DEF Spec, ImplementsSealing, Governed!Spec
-----------------------------------------------------------------------------
(* A return and a copy of it are of the same month of the same scheme.     *)
SameReturn(r, s) == KeyOf(r) = KeyOf(s) /\ Lk(r) = Lk(s)

(* One row for each month of a scheme, of which there are finitely many.   *)
OneForEachMonth(rows) ==
  /\ IsFiniteSet(rows)
  /\ \A r \in rows : IsReturn(r)
  /\ \A r, s \in rows : SameReturn(r, s) => r = s

ParsedNow == parsed = Nothing \/ \E sheet \in Sheet : parsed = [of |-> sheet, result |-> parse(sheet, table)]
ShownNow == shown = Nothing \/ \E w \in Window : shown = Pages(table, w)

CalculationsInvariant == OneForEachMonth(table) /\ ParsedNow /\ ShownNow
-----------------------------------------------------------------------------
(* A month has one number of its own, so that rows can be put in order.    *)
LEMMA MonthNumber ==
  ASSUME NEW r, IsReturn(r)
  PROVE  Lk(r) \in Int
BY DEF IsReturn, Lk

(* Of finitely many rows one is the newest.                                *)
LEMMA NewestIsThere ==
  ASSUME NEW rows, OneForEachMonth(rows), rows # {}
  PROVE  Newest(rows) \in rows
<1> DEFINE S == {Lk(r) : r \in rows}
           f == [r \in rows |-> Lk(r)]
<1>1. S \in SUBSET Int /\ S # {}
  BY MonthNumber DEF OneForEachMonth
<1>2. IsFiniteSet(S)
  <2>1. f \in Surjection(rows, S)
    BY DEF Surjection
  <2> QED
    BY <2>1, FS_Surjection DEF OneForEachMonth
<1>3. PICK hi \in S : \A x \in S : x <= hi
  BY <1>1, <1>2, LeastAndGreatest
<1>4. PICK r \in rows : Lk(r) = hi
  OBVIOUS
<1>5. \A other \in rows : Lk(other) <= Lk(r)
  BY <1>3, <1>4
<1> QED
  BY <1>5 DEF Newest

(* A row for a row, each of the same month, leaves one for each month.     *)
LEMMA ImageKeepsMonths ==
  ASSUME NEW rows, OneForEachMonth(rows), NEW f, DOMAIN f = rows,
         \A r \in rows : IsReturn(f[r]) /\ SameReturn(f[r], r)
  PROVE  /\ OneForEachMonth({f[r] : r \in rows})
         /\ Cardinality({f[r] : r \in rows}) = Cardinality(rows)
<1> DEFINE S == {f[r] : r \in rows}
           g == [r \in rows |-> f[r]]
<1>1. \A r, s \in rows : SameReturn(f[r], f[s]) => r = s
  BY DEF OneForEachMonth, SameReturn
<1>2. g \in [rows -> S] /\ \A s \in S : \E r \in rows : g[r] = s
  OBVIOUS
<1>3. \A r, s \in rows : g[r] = g[s] => r = s
  BY <1>1 DEF SameReturn
<1>4. g \in Bijection(rows, S)
  BY <1>2, <1>3 DEF Bijection, Injection, Surjection, IsInjective
<1>5. IsFiniteSet(S) /\ Cardinality(S) = Cardinality(rows)
  BY <1>4, FS_Bijection DEF ExistsBijection, OneForEachMonth
<1> QED
  BY <1>1, <1>5 DEF OneForEachMonth

(* A part of the rows has one for each month, too.                         *)
LEMMA PartKeepsMonths ==
  ASSUME NEW rows, OneForEachMonth(rows), NEW part \in SUBSET rows
  PROVE  OneForEachMonth(part)
BY FS_Subset DEF OneForEachMonth
-----------------------------------------------------------------------------
(* The rows of a window, as they are read: by the year they end in.         *)
LEMMA YearByMonth ==
  ASSUME NEW r, IsReturn(r), NEW y \in Int
  PROVE  fy_end_year(r.year, r.month_no) = y
           <=> (IF FY_START_MONTH = 1 THEN r.year = y
                ELSE \/ r.year = y - 1 /\ r.month_no >= FY_START_MONTH
                     \/ r.year = y /\ r.month_no <= FY_START_MONTH - 1)
<1>1. r.year \in Int /\ r.month_no \in 1..12
  BY DEF IsReturn
<1>2. FY_START_MONTH \in 1..12
  BY FiscalCalendarAssumption
<1>3. CASE FY_START_MONTH = 1
  BY <1>3 DEF fy_end_year
<1>4. CASE FY_START_MONTH # 1 /\ r.month_no >= FY_START_MONTH
  <2>1. fy_end_year(r.year, r.month_no) = r.year + 1
    BY <1>4 DEF fy_end_year
  <2> QED
    BY <1>1, <1>2, <1>4, <2>1
<1>5. CASE FY_START_MONTH # 1 /\ ~(r.month_no >= FY_START_MONTH)
  <2>1. fy_end_year(r.year, r.month_no) = r.year
    BY <1>5 DEF fy_end_year
  <2> QED
    BY <1>1, <1>2, <1>5, <2>1
<1> QED
  BY <1>3, <1>4, <1>5

LEMMA FilterIsTheWindow ==
  ASSUME NEW rows, \A r \in rows : IsReturn(r), NEW w, IsWindow(w)
  PROVE  Filter(rows, w) = {r \in rows : InWindow(r, w)}
<1>1. ASSUME NEW r \in rows, w.year # None
      PROVE  fy_end_year(r.year, r.month_no) = w.year
               <=> (IF FY_START_MONTH = 1 THEN r.year = w.year
                    ELSE \/ r.year = w.year - 1 /\ r.month_no >= FY_START_MONTH
                         \/ r.year = w.year /\ r.month_no <= FY_START_MONTH - 1)
  BY <1>1, YearByMonth DEF IsWindow
<1>2. CASE w.year = None
  BY <1>2 DEF Filter, InWindow
<1>3. CASE w.year # None
  BY <1>1, <1>3 DEF Filter, InWindow, apply_fy_filter
<1> QED
  BY <1>2, <1>3

(* There is nothing to choose among one row for each month.                *)
LEMMA NothingToDedupe ==
  ASSUME NEW rows, OneForEachMonth(rows)
  PROVE  DedupeRows(rows) = rows
<1> DEFINE same(s) == {r \in rows : KeyOf(r) = KeyOf(s) /\ Lk(r) = Lk(s)}
           kept(S) == CHOOSE r \in S : \A other \in S : RowScore(other) <= RowScore(r)
<1>1. \A s \in rows : same(s) = {s}
  BY DEF OneForEachMonth, SameReturn
<1>2. \A s : kept({s}) = s
  <2>1. ASSUME NEW s PROVE \A other \in {s} : RowScore(other) <= RowScore(s)
    BY DEF RowScore
  <2> QED
    BY <2>1
<1>3. \A s \in rows : kept(same(s)) = s
  BY <1>1, <1>2
<1>4. DedupeRows(rows) = {kept(S) : S \in {same(s) : s \in rows}}
  BY DEF DedupeRows
<1> HIDE DEF same, kept
<1> QED
  BY <1>3, <1>4

(* A row as it is read: missing figures are noted, and read as nothing.    *)
Read(r) ==
  [r EXCEPT !.missing = {f \in NUMERIC_COLS : r.v[f] = None},
            !.v = [f \in NUMERIC_COLS |-> IF f \in NULLABLE_SENTINEL_COLS THEN r.v[f] ELSE OrZero(r.v[f])]]

LEMMA ReadRow ==
  ASSUME NEW r, IsReturn(r)
  PROVE  /\ IsReturn(Read(r)) /\ SameReturn(Read(r), r)
         /\ Read(r).missing = {f \in NUMERIC_COLS : r.v[f] = None}
         /\ \A f \in NUMERIC_COLS : /\ OrZero(Read(r).v[f]) = OrZero(r.v[f])
                                    /\ OrZero(r.v[f]) # 0 => Read(r).v[f] = r.v[f]
<1> DEFINE v == [f \in NUMERIC_COLS |-> IF f \in NULLABLE_SENTINEL_COLS THEN r.v[f] ELSE OrZero(r.v[f])]
           missing == {f \in NUMERIC_COLS : r.v[f] = None}
<1>1. Read(r) = [zone |-> r.zone, scheme |-> r.scheme, year |-> r.year, month_no |-> r.month_no,
                 canonical |-> r.canonical, v |-> v, missing |-> missing]
  <2>1. Read(r) = [r EXCEPT !.missing = missing, !.v = v]
    BY DEF Read
  <2>2. r = [zone |-> r.zone, scheme |-> r.scheme, year |-> r.year, month_no |-> r.month_no,
             canonical |-> r.canonical, v |-> r.v, missing |-> r.missing]
    BY DEF IsReturn
  <2> HIDE DEF v, missing
  <2> QED
    BY <2>1, <2>2
<1>2. IsReturn(Read(r)) /\ SameReturn(Read(r), r)
  BY <1>1 DEF IsReturn, SameReturn, KeyOf, Lk
<1>3. Read(r).missing = missing /\ Read(r).v = v
  BY <1>1
<1>4. \A f \in NUMERIC_COLS : OrZero(v[f]) = OrZero(r.v[f]) /\ (OrZero(r.v[f]) # 0 => v[f] = r.v[f])
  BY MissingAssumption DEF OrZero
<1> QED
  BY <1>2, <1>3, <1>4

LEMMA LoadedRows ==
  ASSUME NEW rows, OneForEachMonth(rows), NEW w, IsWindow(w)
  PROVE  /\ Loaded(rows, w) = {Read(r) : r \in {s \in rows : InWindow(s, w)}}
         /\ OneForEachMonth(Loaded(rows, w))
         /\ Cardinality(Loaded(rows, w)) = Cardinality({s \in rows : InWindow(s, w)})
<1> DEFINE S == {s \in rows : InWindow(s, w)}
           f == [r \in S |-> Read(r)]
<1>1. OneForEachMonth(S)
  BY PartKeepsMonths
<1>2. Filter(rows, w) = S
  BY FilterIsTheWindow DEF OneForEachMonth
<1>3. Loaded(rows, w) = {Read(r) : r \in S}
  <2>1. DedupeRows(S) = S
    BY <1>1, NothingToDedupe
  <2> QED
    BY <1>2, <2>1 DEF Loaded, CoerceNumericNulls, Read
<1>4. \A r \in S : IsReturn(f[r]) /\ SameReturn(f[r], r)
  BY <1>1, ReadRow DEF OneForEachMonth
<1>5. /\ OneForEachMonth({f[r] : r \in S})
      /\ Cardinality({f[r] : r \in S}) = Cardinality(S)
  <2> HIDE DEF S
  <2>1. DOMAIN f = S
    OBVIOUS
  <2> HIDE DEF f
  <2> QED
    BY <1>1, <1>4, <2>1, ImageKeepsMonths
<1>6. {f[r] : r \in S} = {Read(r) : r \in S}
  OBVIOUS
<1> QED
  BY <1>3, <1>5, <1>6
-----------------------------------------------------------------------------
(* What a row becomes when balances are carried into it.                   *)
Carry(rows, source, r) ==
  IF r # Newest(RowsOf(rows, KeyOf(r))) THEN r
  ELSE [r EXCEPT !.v = [f \in NUMERIC_COLS |->
          IF f \in STOCK_BALANCE_FIELDS /\ ~HasValue(rows, KeyOf(r), f) /\ HasValue(source, KeyOf(r), f)
          THEN Latest(source, KeyOf(r), f) ELSE r.v[f]]]

LEMMA LatestIsGiven ==
  ASSUME NEW rows, OneForEachMonth(rows), NEW key, NEW f, HasValue(rows, key, f)
  PROVE  \E r \in rows : KeyOf(r) = key /\ OrZero(r.v[f]) # 0 /\ Latest(rows, key, f) = r.v[f]
<1> DEFINE given == {r \in RowsOf(rows, key) : OrZero(r.v[f]) # 0}
<1>1. given # {} /\ given \in SUBSET rows
  BY DEF HasValue, RowsOf
<1>2. Newest(given) \in given
  <2> HIDE DEF given
  <2> QED
    BY <1>1, PartKeepsMonths, NewestIsThere
<1>3. Latest(rows, key, f) = Newest(given).v[f]
  BY <1>1 DEF Latest
<1>4. \A r \in given : r \in rows /\ KeyOf(r) = key /\ OrZero(r.v[f]) # 0
  BY DEF RowsOf
<1> HIDE DEF given
<1> QED
  BY <1>2, <1>3, <1>4

LEMMA CarriedRow ==
  ASSUME NEW rows, OneForEachMonth(rows), NEW source, OneForEachMonth(source), NEW r \in rows,
         NEW c, c = Carry(rows, source, r)
  PROVE  /\ IsReturn(c) /\ SameReturn(c, r) /\ c.missing = r.missing
         /\ \A f \in NUMERIC_COLS :
              \/ c.v[f] = r.v[f]
              \/ /\ f \in STOCK_BALANCE_FIELDS /\ ~HasValue(rows, KeyOf(r), f)
                 /\ \E x \in source : KeyOf(x) = KeyOf(r) /\ OrZero(x.v[f]) # 0 /\ c.v[f] = x.v[f]
<1> DEFINE carried(f) == f \in STOCK_BALANCE_FIELDS /\ ~HasValue(rows, KeyOf(r), f) /\ HasValue(source, KeyOf(r), f)
           v == [f \in NUMERIC_COLS |-> IF carried(f) THEN Latest(source, KeyOf(r), f) ELSE r.v[f]]
<1>1. IsReturn(r)
  BY DEF OneForEachMonth
<1>2. CASE r # Newest(RowsOf(rows, KeyOf(r)))
  <2>1. c = r
    BY <1>2 DEF Carry
  <2> QED
    BY <1>1, <2>1 DEF SameReturn
<1>3. CASE r = Newest(RowsOf(rows, KeyOf(r)))
  <2>1. c = [r EXCEPT !.v = v]
    BY <1>3 DEF Carry
  <2>2. r = [zone |-> r.zone, scheme |-> r.scheme, year |-> r.year, month_no |-> r.month_no,
             canonical |-> r.canonical, v |-> r.v, missing |-> r.missing]
    BY <1>1 DEF IsReturn
  <2>3. DOMAIN v = NUMERIC_COLS
    OBVIOUS
  <2>4. \A f \in NUMERIC_COLS :
          \/ v[f] = r.v[f]
          \/ /\ f \in STOCK_BALANCE_FIELDS /\ ~HasValue(rows, KeyOf(r), f)
             /\ \E x \in source : KeyOf(x) = KeyOf(r) /\ OrZero(x.v[f]) # 0 /\ v[f] = x.v[f]
    BY LatestIsGiven
  <2> HIDE DEF v
  <2>5. c = [zone |-> r.zone, scheme |-> r.scheme, year |-> r.year, month_no |-> r.month_no,
             canonical |-> r.canonical, v |-> v, missing |-> r.missing]
    BY <2>1, <2>2
  <2>6. IsReturn(c) /\ SameReturn(c, r) /\ c.missing = r.missing /\ c.v = v
    BY <1>1, <2>3, <2>5 DEF IsReturn, SameReturn, KeyOf, Lk
  <2> QED
    BY <2>4, <2>6
<1> QED
  BY <1>2, <1>3
-----------------------------------------------------------------------------
(* A balance that no row of the scheme gives in the window comes from a    *)
(* month of the scheme, of the fiscal year asked for or the one before.    *)
CarriedFrom(rows, w, key, f, value) ==
  /\ f \in STOCK_BALANCE_FIELDS
  /\ ~GivenIn({r \in rows : InWindow(r, w)}, key, f)
  /\ \E origin \in rows : /\ KeyOf(origin) = key
                          /\ origin.v[f] = value
                          /\ w.year # None => fy_end_year(origin.year, origin.month_no) \in {w.year - 1, w.year}

(* How the rows that are computed with stand to the rows of the window.    *)
StandsFor(r, s, rows, w) ==
  /\ SameReturn(r, s)
  /\ r.missing = {f \in NUMERIC_COLS : s.v[f] = None}
  /\ \A f \in NUMERIC_COLS : OrZero(r.v[f]) = OrZero(s.v[f]) \/ CarriedFrom(rows, w, KeyOf(r), f, r.v[f])

IsBase(base, rows, w) ==
  LET stored == {s \in rows : InWindow(s, w)}
  IN  /\ OneForEachMonth(base)
      /\ Cardinality(base) = Cardinality(stored)
      /\ \A s \in stored : \E r \in base : SameReturn(r, s)
      /\ \A r \in base : \E s \in stored : StandsFor(r, s, rows, w)

LEMMA LoadedIsBase ==
  ASSUME NEW rows, OneForEachMonth(rows), NEW w, IsWindow(w)
  PROVE  IsBase(Loaded(rows, w), rows, w)
<1> DEFINE stored == {s \in rows : InWindow(s, w)}
<1>1. /\ Loaded(rows, w) = {Read(r) : r \in stored}
      /\ OneForEachMonth(Loaded(rows, w)) /\ Cardinality(Loaded(rows, w)) = Cardinality(stored)
  BY LoadedRows
<1>2. \A s \in stored : IsReturn(s)
  BY DEF OneForEachMonth
<1>3. \A s \in stored : StandsFor(Read(s), s, rows, w)
  BY <1>2, ReadRow DEF StandsFor
<1>4. \A s \in stored : SameReturn(Read(s), s)
  BY <1>3 DEF StandsFor
<1> HIDE DEF stored
<1>5. /\ \A s \in stored : \E r \in Loaded(rows, w) : SameReturn(r, s)
      /\ \A r \in Loaded(rows, w) : \E s \in stored : StandsFor(r, s, rows, w)
  BY <1>1, <1>3, <1>4
<1> QED
  BY <1>1, <1>5 DEF IsBase, stored

(* Carrying balances in leaves them so: what is carried is of the years    *)
(* that were looked into.                                                  *)
LEMMA CarryingKeepsBase ==
  ASSUME NEW rows, OneForEachMonth(rows), NEW w, NEW base, IsBase(base, rows, w),
         NEW w2, IsWindow(w2),
         \A r \in rows : InWindow(r, w2) /\ w.year # None => fy_end_year(r.year, r.month_no) \in {w.year - 1, w.year}
  PROVE  IsBase(CarriedInto(base, Loaded(rows, w2)), rows, w)
<1> DEFINE stored == {s \in rows : InWindow(s, w)}
           source == Loaded(rows, w2)
           c == [r \in base |-> Carry(base, source, r)]
           new == {c[r] : r \in base}
<1>1. /\ source = {Read(r) : r \in {s \in rows : InWindow(s, w2)}} /\ OneForEachMonth(source)
      /\ \A r \in rows : IsReturn(r)
  BY LoadedRows DEF OneForEachMonth
<1>2. /\ OneForEachMonth(base) /\ Cardinality(base) = Cardinality(stored)
      /\ \A s \in stored : \E r \in base : SameReturn(r, s)
      /\ \A r \in base : \E s \in stored : StandsFor(r, s, rows, w)
  BY DEF IsBase
<1>3. CarriedInto(base, source) = new
  BY DEF CarriedInto, Carry
<1>4. ASSUME NEW r \in base
      PROVE  /\ IsReturn(c[r]) /\ SameReturn(c[r], r) /\ c[r].missing = r.missing
             /\ \A f \in NUMERIC_COLS :
                  \/ c[r].v[f] = r.v[f]
                  \/ /\ f \in STOCK_BALANCE_FIELDS /\ ~HasValue(base, KeyOf(r), f)
                     /\ \E x \in source : KeyOf(x) = KeyOf(r) /\ OrZero(x.v[f]) # 0 /\ c[r].v[f] = x.v[f]
  <2>1. c[r] = Carry(base, source, r)
    OBVIOUS
  <2>2. OneForEachMonth(source) /\ OneForEachMonth(base)
    BY <1>1, <1>2
  <2> HIDE DEF c, source
  <2>3. ASSUME NEW x, x = Carry(base, source, r)
        PROVE  /\ IsReturn(x) /\ SameReturn(x, r) /\ x.missing = r.missing
               /\ \A f \in NUMERIC_COLS :
                    \/ x.v[f] = r.v[f]
                    \/ /\ f \in STOCK_BALANCE_FIELDS /\ ~HasValue(base, KeyOf(r), f)
                       /\ \E y \in source : KeyOf(y) = KeyOf(r) /\ OrZero(y.v[f]) # 0 /\ x.v[f] = y.v[f]
    BY <2>2, <2>3, CarriedRow
  <2> QED
    BY <2>1, <2>3
<1>5. OneForEachMonth(new) /\ Cardinality(new) = Cardinality(base)
  <2>1. DOMAIN c = base
    OBVIOUS
  <2> HIDE DEF c
  <2> QED
    BY <1>2, <1>4, <2>1, ImageKeepsMonths
<1>6. ASSUME NEW key, NEW f \in NUMERIC_COLS, GivenIn(stored, key, f)
      PROVE  HasValue(base, key, f)
  <2>1. PICK s \in stored : KeyOf(s) = key /\ OrZero(s.v[f]) # 0
    BY <1>6 DEF GivenIn
  <2>2. PICK r \in base : SameReturn(r, s)
    BY <1>2
  <2>3. PICK t \in stored : StandsFor(r, t, rows, w)
    BY <1>2
  <2>4. t = s
    BY <2>2, <2>3 DEF StandsFor, SameReturn, OneForEachMonth
  <2>5. KeyOf(r) = key
    BY <2>1, <2>2 DEF SameReturn
  <2>6. ~CarriedFrom(rows, w, KeyOf(r), f, r.v[f])
    BY <1>6, <2>5 DEF CarriedFrom
  <2>7. OrZero(r.v[f]) = OrZero(s.v[f])
    BY <2>3, <2>4, <2>6 DEF StandsFor
  <2> QED
    BY <2>1, <2>5, <2>7 DEF HasValue, RowsOf
<1>7. ASSUME NEW r \in base, NEW s \in stored, StandsFor(r, s, rows, w) PROVE StandsFor(c[r], s, rows, w)
  <2>1. SameReturn(c[r], s) /\ c[r].missing = {f \in NUMERIC_COLS : s.v[f] = None} /\ KeyOf(c[r]) = KeyOf(r)
    BY <1>4, <1>7 DEF StandsFor, SameReturn
  <2>2. ASSUME NEW f \in NUMERIC_COLS, c[r].v[f] # r.v[f]
        PROVE  CarriedFrom(rows, w, KeyOf(r), f, c[r].v[f])
    <3>1. f \in STOCK_BALANCE_FIELDS /\ ~HasValue(base, KeyOf(r), f)
      BY <1>4, <2>2
    <3>2. PICK x \in source : KeyOf(x) = KeyOf(r) /\ OrZero(x.v[f]) # 0 /\ c[r].v[f] = x.v[f]
      BY <1>4, <2>2
    <3>3. PICK o \in rows : InWindow(o, w2) /\ x = Read(o)
      BY <1>1
    <3>4. KeyOf(o) = KeyOf(r) /\ o.v[f] = x.v[f]
      BY <1>1, <3>2, <3>3, ReadRow DEF SameReturn
    <3>5. ~GivenIn(stored, KeyOf(r), f)
      BY <1>6, <3>1
    <3>6. w.year # None => fy_end_year(o.year, o.month_no) \in {w.year - 1, w.year}
      BY <3>3
    <3> HIDE DEF c, source
    <3> QED
      BY <3>1, <3>2, <3>4, <3>5, <3>6 DEF CarriedFrom
  <2>3. \A f \in NUMERIC_COLS :
          OrZero(c[r].v[f]) = OrZero(s.v[f]) \/ CarriedFrom(rows, w, KeyOf(c[r]), f, c[r].v[f])
    <3> HIDE DEF c
    <3> QED
      BY <1>7, <2>1, <2>2 DEF StandsFor
  <2> HIDE DEF c
  <2> QED
    BY <2>1, <2>3 DEF StandsFor
<1>8. \A s \in stored : \E r \in new : SameReturn(r, s)
  <2>1. \A r \in base : SameReturn(c[r], r)
    BY <1>4
  <2> HIDE DEF c, stored
  <2> QED
    BY <1>2, <2>1 DEF SameReturn
<1>9. \A r \in new : \E s \in stored : StandsFor(r, s, rows, w)
  <2> HIDE DEF c, stored
  <2> QED
    BY <1>2, <1>7
<1> HIDE DEF new
<1> QED
  BY <1>2, <1>3, <1>5, <1>8, <1>9 DEF IsBase

(* So it is with the rows that every page is computed from.                *)
LEMMA BaseRowsAreBase ==
  ASSUME NEW rows, OneForEachMonth(rows), NEW w, IsWindow(w)
  PROVE  IsBase(BaseRows(rows, w), rows, w)
<1> DEFINE year == [w EXCEPT !.months = {}]
           before == [w EXCEPT !.months = {}, !.year = w.year - 1]
           first == BackfillStockBalances(Loaded(rows, w), rows, w)
<1>1. w = [zones |-> w.zones, schemes |-> w.schemes, months |-> w.months, year |-> w.year, quarters |-> w.quarters]
      /\ (w.year = None \/ w.year \in Int)
  BY DEF IsWindow
<1>2. IsWindow(year) /\ year.year = w.year
  <2>1. year = [zones |-> w.zones, schemes |-> w.schemes, months |-> {}, year |-> w.year, quarters |-> w.quarters]
    BY <1>1
  <2> QED
    BY <1>1, <2>1 DEF IsWindow
<1>3. ASSUME w.year # None PROVE IsWindow(before) /\ before.year = w.year - 1 /\ before.year # None
  <2>1. before = [zones |-> w.zones, schemes |-> w.schemes, months |-> {}, year |-> w.year - 1, quarters |-> w.quarters]
    <3> DEFINE y == w.year - 1
    <3>1. before = [w EXCEPT !.months = {}, !.year = y]
      OBVIOUS
    <3> HIDE DEF y, before
    <3>2. before = [zones |-> w.zones, schemes |-> w.schemes, months |-> {}, year |-> y, quarters |-> w.quarters]
      BY <1>1, <3>1
    <3> QED
      BY <3>2 DEF y
  <2>2. w.year - 1 \in Int
    BY <1>1, <1>3
  <2> QED
    BY <2>1, <2>2, MissingAssumption DEF IsWindow
<1>4. IsBase(Loaded(rows, w), rows, w)
  BY LoadedIsBase
<1>5. IsBase(first, rows, w)
  <2>1. CASE w.months = {}
    BY <1>4, <2>1 DEF BackfillStockBalances
  <2>2. CASE w.months # {}
    <3>1. \A r \in rows : InWindow(r, year) /\ w.year # None =>
            fy_end_year(r.year, r.month_no) \in {w.year - 1, w.year}
      BY <1>2 DEF InWindow
    <3>2. IsBase(CarriedInto(Loaded(rows, w), Loaded(rows, year)), rows, w)
      <4> HIDE DEF year
      <4> QED
        BY <1>2, <1>4, <3>1, CarryingKeepsBase
    <3> QED
      BY <2>2, <3>2 DEF BackfillStockBalances
  <2> QED
    BY <2>1, <2>2
<1>6. CASE w.year = None
  BY <1>5, <1>6 DEF BaseRows, CrossfyStockBackfill
<1>7. CASE w.year # None
  <2>1. \A r \in rows : InWindow(r, before) /\ w.year # None =>
          fy_end_year(r.year, r.month_no) \in {w.year - 1, w.year}
    BY <1>3, <1>7 DEF InWindow
  <2>2. IsBase(CarriedInto(first, Loaded(rows, before)), rows, w)
    <3> HIDE DEF first, before
    <3> QED
      BY <1>3, <1>5, <1>7, <2>1, CarryingKeepsBase
  <2> QED
    BY <1>7, <2>2 DEF BaseRows, CrossfyStockBackfill
<1> QED
  BY <1>6, <1>7

(* What the rows of the window are, then.                                  *)
LEMMA ShownIsOfItsWindow ==
  ASSUME OneForEachMonth(table), NEW w, IsWindow(w), shown = Pages(table, w)
  PROVE  /\ Shown /\ shown.of = w /\ IsBase(shown.base.rows, table, w)
         /\ WindowRows = {r \in table : InWindow(r, w)}
<1>1. shown.of = w /\ shown.base.rows = BaseRows(table, w)
  BY DEF Pages, Base
<1>2. IsBase(shown.base.rows, table, w)
  BY <1>1, BaseRowsAreBase
<1>3. Shown
  BY DEF Shown, Pages, Nothing
<1>4. \A r \in table : InWindow(r, w) => \E s \in shown.base.rows : SameReturn(s, r)
  BY <1>2 DEF IsBase
<1>5. ASSUME NEW r \in table, NEW s \in shown.base.rows, SameReturn(r, s) PROVE InWindow(r, w)
  <2>1. PICK t \in table : InWindow(t, w) /\ StandsFor(s, t, table, w)
    BY <1>2 DEF IsBase
  <2>2. r = t
    BY <1>5, <2>1 DEF StandsFor, SameReturn, OneForEachMonth
  <2> QED
    BY <2>1, <2>2
<1>6. WindowRows = {r \in table : InWindow(r, w)}
  BY <1>4, <1>5 DEF WindowRows, SameReturn
<1> QED
  BY <1>1, <1>2, <1>3, <1>6

LEMMA PagesRespectWindow ==
  ASSUME OneForEachMonth(table), NEW w, IsWindow(w), shown = Pages(table, w)
  PROVE  WindowIsRespected
<1> DEFINE stored == {r \in table : InWindow(r, shown.of)}
<1>1. shown.of = w /\ IsBase(shown.base.rows, table, w) /\ WindowRows = stored
  BY ShownIsOfItsWindow
<1>2. Cardinality(shown.base.rows) = Cardinality(stored)
  BY <1>1 DEF IsBase
<1>3. ASSUME NEW r \in shown.base.rows, NEW s \in stored, KeyOf(r) = KeyOf(s) /\ Lk(r) = Lk(s),
             NEW f \in NUMERIC_COLS, OrZero(r.v[f]) # OrZero(s.v[f])
      PROVE  CarriedFrom(table, w, KeyOf(r), f, r.v[f])
  <2>1. PICK t \in stored : StandsFor(r, t, table, w)
    BY <1>1 DEF IsBase
  <2>2. t = s
    BY <1>3, <2>1 DEF StandsFor, SameReturn, OneForEachMonth
  <2> QED
    BY <1>3, <2>1, <2>2 DEF StandsFor
<1>4. ASSUME NEW r \in shown.base.rows, NEW s \in stored, KeyOf(r) = KeyOf(s) /\ Lk(r) = Lk(s),
             NEW f \in NUMERIC_COLS, OrZero(r.v[f]) # OrZero(s.v[f])
      PROVE  /\ f \in STOCK_BALANCE_FIELDS
             /\ ~GivenIn(stored, KeyOf(r), f)
             /\ \E origin \in table : /\ KeyOf(origin) = KeyOf(r)
                                      /\ origin.v[f] = r.v[f]
                                      /\ shown.of.year # None =>
                                           fy_end_year(origin.year, origin.month_no) \in {shown.of.year - 1, shown.of.year}
  BY <1>1, <1>3, <1>4 DEF CarriedFrom
<1> QED
  BY <1>1, <1>2, <1>4 DEF WindowIsRespected
-----------------------------------------------------------------------------
(* The parser: figures are numbers, or not known.                          *)
IsFigures(m) == DOMAIN m = NUMERIC_COLS /\ \A c \in NUMERIC_COLS : m[c] = None \/ m[c] \in Int

LEMMA GreatestNumber ==
  ASSUME NEW S \in SUBSET Int, IsFiniteSet(S), S # {}
  PROVE  Max(S) \in S /\ \A x \in S : x <= Max(S)
<1>1. PICK hi \in S : \A x \in S : x <= hi
  BY LeastAndGreatest
<1>2. \A x \in S : hi >= x
  BY <1>1
<1>3. Max(S) \in S /\ \A x \in S : Max(S) >= x
  BY <1>2 DEF Max
<1> QED
  BY <1>3

(* The sum of parts, as a sum that lemmas are known of.                    *)
Parts(m, parts) == [p \in parts |-> OrZero(m[p])]

LEMMA PartsSumIsSum ==
  ASSUME NEW m, NEW parts
  PROVE  PartsSum(m, parts) = SumOf(Parts(m, parts), parts)
<1> DEFINE Left(sum) == [s \in SUBSET parts |-> IF s = {} THEN 0 ELSE OrZero(m[Picked(s)]) + sum[s \ {Picked(s)}]]
           Right(sum) == SumStep(Parts(m, parts), SUBSET parts, sum)
<1>1. \A sum : Left(sum) = Right(sum)
  <2> TAKE sum
  <2>1. ASSUME NEW s \in SUBSET parts, s # {} PROVE Parts(m, parts)[Picked(s)] = OrZero(m[Picked(s)])
    <3>1. Picked(s) \in parts
      BY <2>1 DEF Picked
    <3> QED
      BY <3>1 DEF Parts
  <2> QED
    BY <2>1 DEF SumStep
<1>2. PartsSum(m, parts) = (CHOOSE sum : sum = Left(sum))[parts]
  BY DEF PartsSum, MapThenSumSet, MapThenFoldSet, Picked
<1>3. SumOf(Parts(m, parts), parts) = (CHOOSE sum : sum = Right(sum))[parts]
  BY DEF SumOf
<1> HIDE DEF Left, Right
<1>4. (CHOOSE sum : sum = Left(sum)) = (CHOOSE sum : sum = Right(sum))
  BY <1>1
<1> QED
  BY <1>2, <1>3, <1>4

LEMMA PartsSumIsNumber ==
  ASSUME NEW m, IsFigures(m), NEW parts \in SUBSET NUMERIC_COLS, IsFiniteSet(parts)
  PROVE  PartsSum(m, parts) \in Int
<1>1. Numbers(Parts(m, parts), parts)
  BY DEF Numbers, Parts, IsFigures, OrZero
<1> QED
  BY <1>1, PartsSumIsSum, SumIsInteger

LEMMA PartsSumOfSame ==
  ASSUME NEW m, NEW n, NEW parts, IsFiniteSet(parts), \A p \in parts : m[p] = n[p]
  PROVE  PartsSum(m, parts) = PartsSum(n, parts)
<1>1. EqualOn(Parts(m, parts), Parts(n, parts), parts)
  BY DEF EqualOn, Parts
<1> QED
  BY <1>1, PartsSumIsSum, SumOfSame

LEMMA MaterialsFilled ==
  ASSUME NEW m, IsFigures(m)
  PROVE  /\ IsFigures(FillMaterials(m))
         /\ \A c \in NUMERIC_COLS \ DOMAIN MATERIAL_SIZES : FillMaterials(m)[c] = m[c]
<1> DEFINE D == DOMAIN MATERIAL_SIZES
<1>1. \A c \in D : PartsSum(m, MATERIAL_SIZES[c]) \in Int
  BY ColumnsAssumption, PartsSumIsNumber DEF PartsAreColumns
<1>2. FillMaterials(m) =
        [c \in NUMERIC_COLS |->
           IF c \in D /\ (m[c] = None \/ PartsSum(m, MATERIAL_SIZES[c]) # 0)
           THEN PartsSum(m, MATERIAL_SIZES[c]) ELSE m[c]]
  BY DEF FillMaterials
<1> HIDE DEF D
<1> QED
  BY <1>1, <1>2 DEF IsFigures, D

LEMMA TotalsFilled ==
  ASSUME NEW m, IsFigures(m), NEW totals, PartsAreColumns(totals)
  PROVE  /\ IsFigures(FillTotals(m, totals))
         /\ \A c \in NUMERIC_COLS \ DOMAIN totals : FillTotals(m, totals)[c] = m[c]
         /\ \A c \in DOMAIN totals : Blank(FillTotals(m, totals), c) => PartsSum(m, totals[c]) = 0
<1> DEFINE sum(c) == PartsSum(m, totals[c])
           new == FillTotals(m, totals)
<1>1. \A c \in DOMAIN totals : c \in NUMERIC_COLS /\ sum(c) \in Int
  BY PartsSumIsNumber DEF PartsAreColumns
<1>2. new = [c \in NUMERIC_COLS |-> IF c \in DOMAIN totals /\ Blank(m, c) /\ sum(c) # 0 THEN sum(c) ELSE m[c]]
  BY DEF FillTotals
<1> HIDE DEF sum, new
<1>3. IsFigures(new) /\ \A c \in NUMERIC_COLS \ DOMAIN totals : new[c] = m[c]
  BY <1>1, <1>2 DEF IsFigures
<1>4. ASSUME NEW c \in DOMAIN totals, Blank(new, c) PROVE sum(c) = 0
  <2>1. new[c] = IF Blank(m, c) /\ sum(c) # 0 THEN sum(c) ELSE m[c]
    BY <1>1, <1>2
  <2>2. CASE Blank(m, c) /\ sum(c) # 0
    <3>1. new[c] = sum(c) /\ sum(c) \in Int
      BY <1>1, <2>1, <2>2
    <3>2. OrZero(sum(c)) = sum(c)
      BY <3>1, MissingAssumption DEF OrZero
    <3> QED
      BY <1>4, <2>2, <3>1, <3>2 DEF Blank
  <2>3. CASE ~Blank(m, c)
    BY <1>4, <2>1, <2>3 DEF Blank
  <2> QED
    BY <2>2, <2>3
<1> QED
  BY <1>3, <1>4 DEF sum, new

LEMMA RatiosFilled ==
  ASSUME NEW m
  PROVE  /\ DOMAIN FillRatios(m) = NUMERIC_COLS
         /\ \A c \in NUMERIC_COLS \ RATIO_COLS : FillRatios(m)[c] = m[c]
<1>1. ASSUME NEW c \in NUMERIC_COLS \ RATIO_COLS PROVE FillRatios(m)[c] = m[c]
  <2>1. c \notin DOMAIN RATIOS /\ c # "staff_per_1000m3_12h"
    BY DEF RATIO_COLS
  <2> HIDE DEF RATIOS
  <2> QED
    BY <2>1 DEF FillRatios
<1> QED
  BY <1>1 DEF FillRatios

(* What the parser makes of the figures of a row.                          *)
LEMMA RolledUp ==
  ASSUME NEW m, IsFigures(m)
  PROVE  /\ DOMAIN rollup_metrics(m) = NUMERIC_COLS
         /\ \A c \in DOMAIN TOTALS : Blank(rollup_metrics(m), c) => PartsSum(rollup_metrics(m), TOTALS[c]) = 0
         /\ \A c \in NUMERIC_COLS \ WORKED_OUT : rollup_metrics(m)[c] = m[c]
<1> DEFINE m1 == FillMaterials(m)
           m2 == FillTotals(m1, CLASS_TOTALS)
           m3 == FillTotals(m2, TOTALS)
           m4 == rollup_metrics(m)
<1>1. IsFigures(m1) /\ \A c \in NUMERIC_COLS \ DOMAIN MATERIAL_SIZES : m1[c] = m[c]
  BY MaterialsFilled
<1>2. IsFigures(m2) /\ \A c \in NUMERIC_COLS \ DOMAIN CLASS_TOTALS : m2[c] = m1[c]
  BY <1>1, ColumnsAssumption, TotalsFilled
<1>3. /\ \A c \in NUMERIC_COLS \ DOMAIN TOTALS : m3[c] = m2[c]
      /\ \A c \in DOMAIN TOTALS : Blank(m3, c) => PartsSum(m2, TOTALS[c]) = 0
  BY <1>2, ColumnsAssumption, TotalsFilled
<1>4. DOMAIN m4 = NUMERIC_COLS /\ \A c \in NUMERIC_COLS \ RATIO_COLS : m4[c] = m3[c]
  BY RatiosFilled DEF rollup_metrics
<1> HIDE DEF m1, m2, m3, m4
<1>5. ASSUME NEW c \in DOMAIN TOTALS, Blank(m4, c) PROVE PartsSum(m4, TOTALS[c]) = 0
  <2>1. /\ c \in NUMERIC_COLS \ RATIO_COLS /\ TOTALS[c] \subseteq NUMERIC_COLS /\ IsFiniteSet(TOTALS[c])
        /\ TOTALS[c] \intersect (DOMAIN TOTALS \union RATIO_COLS) = {}
    BY ColumnsAssumption DEF PartsAreColumns
  <2>2. Blank(m3, c)
    BY <1>4, <1>5, <2>1 DEF Blank
  <2>3. \A p \in TOTALS[c] : m4[p] = m2[p]
    BY <1>3, <1>4, <2>1
  <2> QED
    BY <1>3, <2>1, <2>2, <2>3, PartsSumOfSame
<1>6. \A c \in NUMERIC_COLS \ WORKED_OUT : m4[c] = m[c]
  BY <1>1, <1>2, <1>3, <1>4 DEF WORKED_OUT
<1> QED
  BY <1>4, <1>5, <1>6 DEF m4
-----------------------------------------------------------------------------
(* The cell of a column is one under a header for it, or there is none.    *)
LEMMA CellIsUnderItsHeader ==
  ASSUME NEW sheet, IsSheet(sheet), NEW n \in DOMAIN sheet.rows, NEW column \in COLUMN_MAP,
         NEW cell, cell = CellOf(sheet.headers, sheet.rows[n], column)
  PROVE  \/ cell = None
         \/ \E header : header.column = column /\ IsCell(header, cell)
<1> DEFINE headers == sheet.headers
           cells == sheet.rows[n]
           places == Places(headers, column)
<1>1. /\ DOMAIN headers = 1..Len(headers) /\ Len(headers) \in Nat
      /\ Len(cells) \in Nat /\ DOMAIN cells = 1..Len(cells)
      /\ \A i \in DOMAIN headers \intersect DOMAIN cells : IsCell(headers[i], cells[i])
  BY DEF IsSheet
<1>2. cell = IF places = {} \/ Max(places \union {0}) > Len(cells) THEN None ELSE cells[Max(places)]
  BY DEF CellOf
<1>3. CASE places = {} \/ Max(places \union {0}) > Len(cells)
  BY <1>2, <1>3
<1>4. CASE places # {} /\ ~(Max(places \union {0}) > Len(cells))
  <2>1. places \in SUBSET (1..Len(headers))
    BY <1>1 DEF Places
  <2>2. IsFiniteSet(places) /\ IsFiniteSet(places \union {0})
    <3>1. IsFiniteSet(1..Len(headers))
      BY <1>1, FS_Interval
    <3> HIDE DEF headers, places
    <3>2. IsFiniteSet(places)
      BY <2>1, <3>1, FS_Subset
    <3> QED
      BY <3>2, FS_AddElement
  <2>3. Max(places) \in places
    <3> HIDE DEF headers, places
    <3>1. places \in SUBSET Int
      BY <1>1, <2>1
    <3> QED
      BY <1>4, <2>2, <3>1, GreatestNumber
  <2>4. Max(places \union {0}) \in Int /\ Max(places) <= Max(places \union {0})
    <3> DEFINE S == places \union {0}
    <3>1. S \in SUBSET Int /\ S # {} /\ Max(places) \in S
      BY <1>1, <2>1, <2>3
    <3>2. IsFiniteSet(S)
      BY <2>2
    <3> HIDE DEF S
    <3>3. Max(S) \in S /\ \A x \in S : x <= Max(S)
      BY <3>1, <3>2, GreatestNumber
    <3> QED
      BY <3>1, <3>3 DEF S
  <2> DEFINE i == Max(places)
             top == Max(places \union {0})
  <2>5. i \in 1..Len(headers) /\ resolve_column(headers[i]) = column
    BY <1>1, <2>3 DEF Places
  <2>6. i <= top /\ top \in Int /\ ~(top > Len(cells)) /\ cell = cells[i]
    BY <1>2, <1>4, <2>4
  <2> HIDE DEF i, top
  <2>7. i \in DOMAIN headers \intersect DOMAIN cells
    BY <1>1, <2>5, <2>6
  <2>8. headers[i].column = column
    BY <2>5, ColumnsAssumption DEF resolve_column
  <2> QED
    BY <1>1, <2>6, <2>7, <2>8
<1> QED
  BY <1>3, <1>4

LEMMA CellsAreFigures ==
  ASSUME NEW sheet, IsSheet(sheet), NEW n \in DOMAIN sheet.rows, NEW c \in NUMERIC_COLS,
         NEW cell, cell = CellOf(sheet.headers, sheet.rows[n], c)
  PROVE  coerce_numeric(cell) = None \/ coerce_numeric(cell) \in Int
<1>1. c \in COLUMN_MAP /\ c \notin {"zone", "scheme"}
  BY ColumnsAssumption DEF COLUMN_MAP, REQUIRED_DIMS
<1>2. cell = None \/ \E header : header.column = c /\ IsCell(header, cell)
  BY <1>1, CellIsUnderItsHeader
<1>3. cell \in {None, Text, Blanks} \/ cell \in Int
  BY <1>1, <1>2 DEF IsCell
<1> QED
  BY <1>3 DEF coerce_numeric

LEMMA YearOfCell ==
  ASSUME NEW sheet, IsSheet(sheet), NEW n \in DOMAIN sheet.rows,
         NEW cell, cell = CellOf(sheet.headers, sheet.rows[n], "year"), coerce_year(cell) # None
  PROVE  coerce_year(cell) \in Int /\ coerce_year(cell) > 0
<1>1. "year" \in COLUMN_MAP
  BY DEF COLUMN_MAP, REQUIRED_DIMS
<1>2. cell = None \/ \E header : header.column = "year" /\ IsCell(header, cell)
  BY <1>1, CellIsUnderItsHeader
<1>3. cell \in {None, Text, Blanks} \/ (cell \in Int /\ cell >= 0)
  BY <1>2 DEF IsCell
<1> QED
  BY <1>3 DEF coerce_year

LEMMA MonthOfCell ==
  ASSUME NEW cell, coerce_month(cell) # None
  PROVE  coerce_month(cell) \in 1..12
BY DEF coerce_month

(* A row without an error.                                                 *)
IsClean(issues) == \A i \in issues : i[1] # "error"

LEMMA StatusOfClean ==
  ASSUME NEW issues
  PROVE  Status(issues) # "error" <=> IsClean(issues)
<1>1. CASE IsClean(issues)
  BY <1>1 DEF IsClean, Status
<1>2. CASE ~IsClean(issues)
  BY <1>2 DEF IsClean, Status
<1> QED
  BY <1>1, <1>2

(* What a row of cells becomes.                                            *)
Figures(headers, cells) == [c \in NUMERIC_COLS |-> coerce_numeric(CellOf(headers, cells, c))]

LEMMA ParsedRow ==
  ASSUME NEW sheet, IsSheet(sheet), NEW n \in DOMAIN sheet.rows, NEW q, q = parse_row(sheet.headers, sheet.rows[n])
  PROVE  /\ q = [zone |-> q.zone, scheme |-> q.scheme, month_no |-> q.month_no, year |-> q.year,
                 metrics |-> q.metrics, issues |-> q.issues, conflict |-> {}]
         /\ IsFigures(Figures(sheet.headers, sheet.rows[n]))
         /\ q.metrics = rollup_metrics(Figures(sheet.headers, sheet.rows[n]))
         /\ IsClean(q.issues) => /\ q.zone # None /\ q.scheme # None /\ q.month_no \in 1..12
                                 /\ q.year \in Int /\ q.year > 0
<1> DEFINE headers == sheet.headers
           cells == sheet.rows[n]
           cell(c) == CellOf(headers, cells, c)
           raw == [c \in COLUMN_MAP |-> cell(c)]
           m == [c \in NUMERIC_COLS |-> coerce_numeric(raw[c])]
           dims == [zone |-> coerce_str(raw["zone"]), scheme |-> coerce_str(raw["scheme"]),
                    month |-> coerce_month(raw["month"]), year |-> coerce_year(raw["year"])]
           issues == {<<"error", d>> : d \in {x \in REQUIRED_DIMS : dims[x] = None}}
                       \union {<<"error", c>> : c \in {x \in REQUIRED_METRICS : raw[x] = None}}
                       \union {<<"warning", c>> : c \in {x \in NUMERIC_COLS : raw[x] = Text}}
<1>1. q = [zone |-> dims.zone, scheme |-> dims.scheme, month_no |-> OrElse(dims.month, 0),
           year |-> OrElse(dims.year, 0), metrics |-> rollup_metrics(m), issues |-> issues, conflict |-> {}]
  BY DEF parse_row
<1>2. \A c \in NUMERIC_COLS : raw[c] = cell(c)
  BY DEF COLUMN_MAP
<1>3. m = Figures(headers, cells) /\ IsFigures(m)
  <2>1. m = Figures(headers, cells)
    BY <1>2 DEF Figures
  <2>2. \A c \in NUMERIC_COLS : coerce_numeric(cell(c)) = None \/ coerce_numeric(cell(c)) \in Int
    BY CellsAreFigures
  <2> HIDE DEF cell, headers, cells
  <2> QED
    BY <1>2, <2>1, <2>2 DEF IsFigures
<1>4. raw["month"] = cell("month") /\ raw["year"] = cell("year")
  BY DEF COLUMN_MAP, REQUIRED_DIMS
<1>5. ASSUME IsClean(issues)
      PROVE  /\ dims.zone # None /\ dims.scheme # None
             /\ OrElse(dims.month, 0) \in 1..12
             /\ OrElse(dims.year, 0) \in Int /\ OrElse(dims.year, 0) > 0
  <2>1. \A d \in REQUIRED_DIMS : dims[d] # None
    <3> SUFFICES ASSUME NEW d \in REQUIRED_DIMS, dims[d] = None PROVE FALSE
      OBVIOUS
    <3>1. <<"error", d>> \in issues
      <4> HIDE DEF dims, raw
      <4> QED
        OBVIOUS
    <3> HIDE DEF issues
    <3> QED
      BY <1>5, <3>1 DEF IsClean
  <2>2. dims.zone # None /\ dims.scheme # None /\ dims.month # None /\ dims.year # None
    <3>1. dims["zone"] # None /\ dims["scheme"] # None /\ dims["month"] # None /\ dims["year"] # None
      <4> HIDE DEF dims
      <4> QED
        BY <2>1 DEF REQUIRED_DIMS
    <3> QED
      BY <3>1
  <2>3. dims.month = coerce_month(cell("month")) /\ dims.year = coerce_year(cell("year"))
    BY <1>4
  <2> HIDE DEF dims
  <2>4. dims.month \in 1..12
    BY <2>2, <2>3, MonthOfCell
  <2>5. dims.year \in Int /\ dims.year > 0
    BY <2>2, <2>3, YearOfCell
  <2> QED
    BY <2>2, <2>4, <2>5 DEF OrElse
<1> HIDE DEF raw, m, dims, issues
<1> QED
  BY <1>1, <1>3, <1>5

(* What the table has to say of it does not change the row.                *)
LEMMA ComparedRow ==
  ASSUME NEW q, q = [zone |-> q.zone, scheme |-> q.scheme, month_no |-> q.month_no, year |-> q.year,
                     metrics |-> q.metrics, issues |-> q.issues, conflict |-> {}],
         NEW rows, NEW p, p = detect_conflicts(detect_anomalies(q, rows), rows)
  PROVE  /\ p.zone = q.zone /\ p.scheme = q.scheme /\ p.month_no = q.month_no /\ p.year = q.year
         /\ p.metrics = q.metrics
         /\ Status(p.issues) # "error" =>
              /\ IsClean(q.issues)
              /\ p.conflict # {} <=> \E r \in rows : r.canonical /\ SameMonth(r, p)
<1> DEFINE a == detect_anomalies(q, rows)
           existing == {r \in rows : r.canonical /\ SameMonth(r, a)}
<1>1. PICK more : a = [zone |-> q.zone, scheme |-> q.scheme, month_no |-> q.month_no, year |-> q.year,
                       metrics |-> q.metrics, issues |-> more, conflict |-> {}] /\ q.issues \subseteq more
  <2> DEFINE warnings == {<<"warning", f>> : f \in {x \in ANOMALY_METRICS : Anomalous(q.metrics[x], History(rows, q), x)}}
  <2>1. a = q \/ a = [q EXCEPT !.issues = @ \union warnings]
    BY DEF detect_anomalies
  <2> HIDE DEF warnings, a
  <2>2. CASE a = q
    <3>1. q.issues \subseteq q.issues
      OBVIOUS
    <3> QED
      BY <2>2, <3>1
  <2>3. CASE a = [q EXCEPT !.issues = @ \union warnings]
    <3> DEFINE more == q.issues \union warnings
    <3>1. a = [q EXCEPT !.issues = more] /\ q.issues \subseteq more
      BY <2>3
    <3> HIDE DEF more
    <3>2. a = [zone |-> q.zone, scheme |-> q.scheme, month_no |-> q.month_no, year |-> q.year,
               metrics |-> q.metrics, issues |-> more, conflict |-> {}]
      BY <3>1
    <3> QED
      BY <3>1, <3>2
  <2> QED
    BY <2>1, <2>2, <2>3
<1> DEFINE clash == {[existing |-> [f \in CONFLICT_FIELDS |-> (CHOOSE r \in existing : TRUE).v[f]],
                      incoming |-> [f \in CONFLICT_FIELDS |-> a.metrics[f]]]}
<1>2. p = IF Status(a.issues) = "error" \/ existing = {} THEN a ELSE [a EXCEPT !.conflict = clash]
  BY DEF detect_conflicts
<1>3. clash # {}
  OBVIOUS
<1> HIDE DEF a, clash, existing
<1>4. PICK conflict :
        /\ p = [zone |-> q.zone, scheme |-> q.scheme, month_no |-> q.month_no, year |-> q.year,
                metrics |-> q.metrics, issues |-> more, conflict |-> conflict]
        /\ conflict # {} <=> Status(more) # "error" /\ existing # {}
  <2>1. CASE Status(more) = "error" \/ existing = {}
    BY <1>1, <1>2, <2>1
  <2>2. CASE Status(more) # "error" /\ existing # {}
    <3>1. p = [zone |-> q.zone, scheme |-> q.scheme, month_no |-> q.month_no, year |-> q.year,
               metrics |-> q.metrics, issues |-> more, conflict |-> clash]
      BY <1>1, <1>2, <2>2
    <3> QED
      BY <1>3, <2>2, <3>1
  <2> QED
    BY <2>1, <2>2
<1>5. \A r : SameMonth(r, a) <=> SameMonth(r, p)
  BY <1>1, <1>4 DEF SameMonth, Lk
<1>6. existing # {} <=> \E r \in rows : r.canonical /\ SameMonth(r, p)
  BY <1>5 DEF existing
<1>7. Status(more) # "error" => IsClean(q.issues)
  BY <1>1, StatusOfClean DEF IsClean
<1> QED
  BY <1>4, <1>6, <1>7

(* The rows of a workbook that may be imported.                            *)
LEMMA ImportableRow ==
  ASSUME NEW sheet, IsSheet(sheet), NEW rows, NEW result, result = parse(sheet, rows), result # None,
         NEW n \in importable_rows(result), NEW p, p = result.rows[n]
  PROVE  /\ n \in Nat /\ n \in DOMAIN sheet.rows /\ missing_required_columns(sheet.headers) = {}
         /\ result.currency_mismatch_columns \subseteq {h \in Range(sheet.headers) : foreign_currency_column(h)}
         /\ p.zone # None /\ p.scheme # None /\ p.month_no \in 1..12 /\ p.year \in Int /\ p.year > 0
         /\ IsFigures(Figures(sheet.headers, sheet.rows[n]))
         /\ p.metrics = rollup_metrics(Figures(sheet.headers, sheet.rows[n]))
         /\ p.conflict # {} <=> \E r \in rows : r.canonical /\ SameMonth(r, p)
<1> DEFINE filled == {k \in DOMAIN sheet.rows : \E i \in DOMAIN sheet.rows[k] : sheet.rows[k][i] # None}
           row(k) == detect_conflicts(detect_anomalies(parse_row(sheet.headers, sheet.rows[k]), rows), rows)
           parsedRows == [k \in filled |-> row(k)]
           unrecognised == {h \in Range(sheet.headers) : resolve_column(h) = None}
           foreign == {h \in unrecognised : foreign_currency_column(h)}
           month == Dominant([k \in filled |-> parsedRows[k].month_no])
           year == Dominant([k \in filled |-> parsedRows[k].year])
<1>1. result = IF missing_required_columns(sheet.headers) # {} THEN None
               ELSE [rows |-> parsedRows, unrecognised_columns |-> unrecognised,
                     currency_mismatch_columns |-> foreign, period_month |-> month, period_year |-> year]
  BY DEF parse
<1>2. foreign \subseteq {h \in Range(sheet.headers) : foreign_currency_column(h)}
  OBVIOUS
<1> HIDE DEF parsedRows, unrecognised, foreign, month, year
<1>3. /\ missing_required_columns(sheet.headers) = {}
      /\ result.rows = parsedRows /\ result.currency_mismatch_columns = foreign
  BY <1>1
<1>4. n \in filled /\ Status(p.issues) # "error" /\ p = row(n)
  BY <1>3 DEF importable_rows, parsedRows
<1>5. n \in DOMAIN sheet.rows /\ n \in Nat
  BY <1>4 DEF IsSheet
<1> DEFINE q == parse_row(sheet.headers, sheet.rows[n])
<1>6. p = detect_conflicts(detect_anomalies(q, rows), rows)
  BY <1>4
<1>7. /\ q = [zone |-> q.zone, scheme |-> q.scheme, month_no |-> q.month_no, year |-> q.year,
              metrics |-> q.metrics, issues |-> q.issues, conflict |-> {}]
      /\ IsFigures(Figures(sheet.headers, sheet.rows[n]))
      /\ q.metrics = rollup_metrics(Figures(sheet.headers, sheet.rows[n]))
      /\ IsClean(q.issues) => /\ q.zone # None /\ q.scheme # None /\ q.month_no \in 1..12
                              /\ q.year \in Int /\ q.year > 0
  BY <1>5, ParsedRow
<1> HIDE DEF q, row, filled
<1>8. /\ p.zone = q.zone /\ p.scheme = q.scheme /\ p.month_no = q.month_no /\ p.year = q.year
      /\ p.metrics = q.metrics
      /\ IsClean(q.issues)
      /\ p.conflict # {} <=> \E r \in rows : r.canonical /\ SameMonth(r, p)
  BY <1>4, <1>6, <1>7, ComparedRow
<1> QED
  BY <1>2, <1>3, <1>5, <1>7, <1>8
-----------------------------------------------------------------------------
(* A row is written in the place of the one of its month.                  *)
LEMMA WritingKeepsMonths ==
  ASSUME NEW rows, OneForEachMonth(rows), NEW p, IsReturn(Stored(p)), NEW mode
  PROVE  OneForEachMonth(Written(rows, p, mode))
<1> DEFINE existing == {r \in rows : SameMonth(r, p)}
           kept == rows \ existing
           new == Stored(p)
<1>1. OneForEachMonth(kept)
  BY PartKeepsMonths
<1>2. KeyOf(new) = <<p.zone, p.scheme>> /\ Lk(new) = Lk(p)
  BY DEF Stored, KeyOf, Lk
<1>3. \A r \in kept : ~SameReturn(r, new) /\ ~SameReturn(new, r)
  BY <1>2 DEF SameMonth, SameReturn
<1>4. IsFiniteSet(kept \union {new})
  BY <1>1, FS_AddElement DEF OneForEachMonth
<1> HIDE DEF kept, new
<1>5. OneForEachMonth(kept \union {new})
  BY <1>1, <1>3, <1>4 DEF OneForEachMonth, new
<1>6. Written(rows, p, mode) = rows \/ Written(rows, p, mode) = kept \union {new}
  BY DEF Written, kept, new
<1> QED
  BY <1>5, <1>6

(* Rows are written one after the other, the first of the sheet last to    *)
(* be counted: the commit, as a function of the rows written so far.       *)
CommitStep(written, rows, mode, whole, commit) ==
  [s \in whole |-> IF s = {} THEN rows ELSE Written(commit[s \ {Max(s)}], written[Max(s)], mode)]
IsCommitUpTo(commit, written, rows, mode, whole) == commit = CommitStep(written, rows, mode, whole, commit)

LEMMA GreatestIsLess ==
  ASSUME NEW S \in SUBSET Int, IsFiniteSet(S), NEW n \in Nat, NEW s \in UpTo(S, n + 1), s # {}
  PROVE  Max(s) \in S /\ s \ {Max(s)} \in UpTo(S, n) /\ s \ {Max(s)} \in UpTo(S, n + 1)
<1>1. s \in SUBSET S /\ IsFiniteSet(s) /\ s \in SUBSET Int
  BY FS_Subset DEF UpTo
<1>2. Max(s) \in s
  BY <1>1, GreatestNumber
<1>3. s \ {Max(s)} \in UpTo(S, n)
  BY <1>2, PickedIsLess
<1> QED
  BY <1>1, <1>2, <1>3, UpToAll

LEMMA CommitExists ==
  ASSUME NEW S \in SUBSET Int, IsFiniteSet(S), NEW written, NEW rows, NEW mode
  PROVE  \E commit : IsCommitUpTo(commit, written, rows, mode, SUBSET S)
<1> DEFINE G == {n \in Nat : \E commit : IsCommitUpTo(commit, written, rows, mode, UpTo(S, n))}
<1>1. 0 \in G
  <2> DEFINE commit == [s \in UpTo(S, 0) |-> rows]
  <2>1. IsCommitUpTo(commit, written, rows, mode, UpTo(S, 0))
    BY UpToAll DEF CommitStep, IsCommitUpTo
  <2> QED
    BY <2>1
<1>2. ASSUME NEW n \in Nat, n \in G PROVE n + 1 \in G
  <2>1. PICK commit : IsCommitUpTo(commit, written, rows, mode, UpTo(S, n))
    BY <1>2
  <2> DEFINE next == CommitStep(written, rows, mode, UpTo(S, n + 1), commit)
  <2>2. ASSUME NEW s \in UpTo(S, n + 1), s # {}
        PROVE  next[s \ {Max(s)}] = commit[s \ {Max(s)}]
    <3>1. s \ {Max(s)} \in UpTo(S, n) /\ s \ {Max(s)} \in UpTo(S, n + 1)
      BY <2>2, GreatestIsLess
    <3> QED
      BY <2>1, <3>1 DEF CommitStep, IsCommitUpTo
  <2>3. IsCommitUpTo(next, written, rows, mode, UpTo(S, n + 1))
    BY <2>2 DEF CommitStep, IsCommitUpTo
  <2> HIDE DEF next
  <2> QED
    BY <2>3
<1> HIDE DEF G
<1>3. Nat \subseteq G
  BY <1>1, <1>2, NumberInduction
<1>4. Cardinality(S) \in G
  BY <1>3, UpToAll
<1>5. PICK commit : IsCommitUpTo(commit, written, rows, mode, UpTo(S, Cardinality(S)))
  BY <1>4 DEF G
<1>6. UpTo(S, Cardinality(S)) = SUBSET S
  BY UpToAll
<1> QED
  BY <1>5, <1>6

LEMMA CommitKeepsMonths ==
  ASSUME NEW S \in SUBSET Int, IsFiniteSet(S), NEW written, \A n \in S : IsReturn(Stored(written[n])),
         NEW rows, OneForEachMonth(rows), NEW mode,
         NEW commit, IsCommitUpTo(commit, written, rows, mode, SUBSET S)
  PROVE  OneForEachMonth(commit[S])
<1> DEFINE G == {n \in Nat : \A s \in UpTo(S, n) : OneForEachMonth(commit[s])}
<1>0. commit[{}] = rows
  BY DEF CommitStep, IsCommitUpTo
<1>1. 0 \in G
  BY <1>0, UpToAll
<1>2. ASSUME NEW n \in Nat, n \in G PROVE n + 1 \in G
  <2>1. ASSUME NEW s \in UpTo(S, n + 1) PROVE OneForEachMonth(commit[s])
    <3>1. CASE s = {}
      BY <1>0, <3>1
    <3>2. CASE s # {}
      <4>1. Max(s) \in S /\ s \ {Max(s)} \in UpTo(S, n) /\ s \in SUBSET S
        BY <3>2, GreatestIsLess DEF UpTo
      <4>2. commit[s] = Written(commit[s \ {Max(s)}], written[Max(s)], mode)
        BY <3>2, <4>1 DEF CommitStep, IsCommitUpTo
      <4>3. OneForEachMonth(commit[s \ {Max(s)}])
        BY <1>2, <4>1
      <4> QED
        BY <4>1, <4>2, <4>3, WritingKeepsMonths
    <3> QED
      BY <3>1, <3>2
  <2> QED
    BY <2>1
<1> HIDE DEF G
<1>3. Nat \subseteq G
  BY <1>1, <1>2, NumberInduction
<1>4. Cardinality(S) \in G
  BY <1>3, UpToAll
<1> QED
  BY <1>4, UpToAll DEF G

LEMMA ImportKeepsMonths ==
  ASSUME NEW sheet, IsSheet(sheet), NEW rows, OneForEachMonth(rows),
         NEW result, result = parse(sheet, rows), result # None, NEW mode
  PROVE  OneForEachMonth(execute_commit(rows, result, mode))
<1> DEFINE S == importable_rows(result)
           written == result.rows
<1>1. S \in SUBSET Nat /\ IsFiniteSet(S)
  <2>1. \A n \in S : n \in Nat /\ n \in DOMAIN sheet.rows
    <3> HIDE DEF S
    <3>1. ASSUME NEW n \in S PROVE n \in Nat /\ n \in DOMAIN sheet.rows
      BY ImportableRow DEF S
    <3> QED
      BY <3>1
  <2>2. IsFiniteSet(DOMAIN sheet.rows)
    <3>1. Len(sheet.rows) \in Nat /\ DOMAIN sheet.rows = 1..Len(sheet.rows)
      BY DEF IsSheet
    <3>2. IsFiniteSet(1..Len(sheet.rows))
      BY <3>1, FS_Interval
    <3> QED
      BY <3>1, <3>2
  <2> HIDE DEF S
  <2> QED
    BY <2>1, <2>2, FS_Subset
<1>2. ASSUME NEW n \in S PROVE IsReturn(Stored(written[n]))
  <2> DEFINE p == written[n]
  <2>1. p.month_no \in 1..12 /\ p.year \in Int /\ p.metrics = rollup_metrics(Figures(sheet.headers, sheet.rows[n]))
    BY <1>2, ImportableRow
  <2>2. DOMAIN p.metrics = NUMERIC_COLS
    BY <2>1, RatiosFilled DEF rollup_metrics
  <2> HIDE DEF p
  <2> QED
    BY <2>1, <2>2 DEF Stored, IsReturn, p
<1>3. execute_commit(rows, result, mode) = (CHOOSE commit : IsCommitUpTo(commit, written, rows, mode, SUBSET S))[S]
  BY DEF execute_commit, MapThenFoldSet, IsCommitUpTo, CommitStep
<1> HIDE DEF S, written
<1>4. S \in SUBSET Int
  BY <1>1
<1>5. PICK commit : /\ IsCommitUpTo(commit, written, rows, mode, SUBSET S)
                    /\ execute_commit(rows, result, mode) = commit[S]
  BY <1>1, <1>3, <1>4, CommitExists
<1> QED
  BY <1>1, <1>2, <1>4, <1>5, CommitKeepsMonths
-----------------------------------------------------------------------------
(* A table has one row for each month of a scheme, the preview is of the   *)
(* table as it stands, and so are the pages.                               *)
THEOREM TableInvariant == CalculationsSpec => []CalculationsInvariant
<1>1. CalculationsInit => CalculationsInvariant
  <2> SUFFICES ASSUME CalculationsInit PROVE CalculationsInvariant
    OBVIOUS
  <2>1. OneForEachMonth({})
    BY FS_EmptySet DEF OneForEachMonth
  <2> QED
    BY <2>1 DEF CalculationsInit, CalculationsInvariant, ParsedNow, ShownNow
<1>2. CalculationsInvariant /\ [CalculationsNext]_calculationVars => CalculationsInvariant'
  <2> SUFFICES ASSUME CalculationsInvariant, [CalculationsNext]_calculationVars
               PROVE  CalculationsInvariant'
    OBVIOUS
  <2>0. OneForEachMonth(table) /\ ParsedNow /\ ShownNow
    BY DEF CalculationsInvariant
  <2>a. ASSUME OneForEachMonth(table'), shown' = Nothing, parsed' = Nothing PROVE CalculationsInvariant'
    BY <2>a DEF CalculationsInvariant, ParsedNow, ShownNow
  <2>1. ASSUME NEW r \in Row, Enter(r) PROVE CalculationsInvariant'
    <3>1. /\ \A other \in table : ~SameReturn(other, r) /\ ~SameReturn(r, other)
          /\ table' = table \union {r} /\ shown' = Nothing /\ parsed' = Nothing
      BY <2>1 DEF Enter, SameReturn
    <3>2. IsReturn(r)
      BY CalculationsAssumption
    <3>3. IsFiniteSet(table \union {r})
      BY <2>0, FS_AddElement DEF OneForEachMonth
    <3>4. OneForEachMonth(table \union {r})
      BY <2>0, <3>1, <3>2, <3>3 DEF OneForEachMonth
    <3> QED
      BY <2>a, <3>1, <3>4
  <2>2. ASSUME NEW r \in table, DeleteRow(r) PROVE CalculationsInvariant'
    <3>1. OneForEachMonth(table \ {r})
      BY <2>0, PartKeepsMonths
    <3> QED
      BY <2>a, <2>2, <3>1 DEF DeleteRow
  <2>3. ASSUME NEW w \in Window, Ask(w) PROVE CalculationsInvariant'
    <3>1. table' = table /\ parsed' = parsed /\ parsed = Nothing /\ shown' = Pages(table, w)
      BY <2>3 DEF Ask
    <3>2. shown' = Pages(table, w)'
      BY <3>1 DEF Pages, Base, panels, reports, analytics
    <3> QED
      BY <2>0, <3>1, <3>2 DEF CalculationsInvariant, ParsedNow, ShownNow
  <2>4. ASSUME NEW sheet \in Sheet, Parse(sheet) PROVE CalculationsInvariant'
    BY <2>0, <2>4 DEF Parse, CalculationsInvariant, ParsedNow, ShownNow
  <2>5. ASSUME NEW mode \in {"replace", "skip"}, Import(mode) PROVE CalculationsInvariant'
    <3>1. PICK sheet \in Sheet : parsed.result = parse(sheet, table)
      BY <2>0, <2>5 DEF Import, ParsedNow
    <3>2. IsSheet(sheet)
      BY CalculationsAssumption
    <3>3. OneForEachMonth(execute_commit(table, parsed.result, mode))
      BY <2>0, <2>5, <3>1, <3>2, ImportKeepsMonths DEF Import
    <3> QED
      BY <2>a, <2>5, <3>3 DEF Import
  <2>6. CASE UNCHANGED calculationVars
    BY <2>0, <2>6 DEF calculationVars, CalculationsInvariant, ParsedNow, ShownNow
  <2> QED
    BY <2>1, <2>2, <2>3, <2>4, <2>5, <2>6 DEF CalculationsNext
<1> QED
  BY <1>1, <1>2, PTL DEF CalculationsSpec

(* Pages are computed from the rows of their window and no others, but for *)
(* balances the window does not give, which come from the same scheme, in  *)
(* the fiscal year asked for or the one before (panels.py:583-675).        *)
THEOREM WindowIsRespectedHolds == CalculationsSpec => []WindowIsRespected
<1>1. CalculationsInvariant => WindowIsRespected
  <2> SUFFICES ASSUME CalculationsInvariant, Shown PROVE WindowIsRespected
    BY DEF WindowIsRespected
  <2>1. PICK w \in Window : shown = Pages(table, w)
    BY DEF CalculationsInvariant, ShownNow, Shown
  <2>2. IsWindow(w) /\ OneForEachMonth(table)
    BY CalculationsAssumption DEF CalculationsInvariant
  <2> QED
    BY <2>1, <2>2, PagesRespectWindow
<1> QED
  BY <1>1, TableInvariant, PTL

(* A row that may be imported says which month of which scheme it is, its  *)
(* blank totals have no parts, what is in another currency is not taken,   *)
(* and it is a conflict just when a commit would replace a return that is  *)
(* stored by the name of its month (excel_parser.py:660-935).              *)
THEOREM ParsedRowsAreSoundHolds == CalculationsSpec => []ParsedRowsAreSound
<1>1. CalculationsInvariant => ParsedRowsAreSound
  <2> SUFFICES ASSUME CalculationsInvariant, Previewed, NEW p \in Importable
               PROVE  /\ p.zone # None /\ p.scheme # None /\ p.month_no \in 1..12 /\ p.year > 0
                      /\ \A c \in DOMAIN TOTALS : Blank(p.metrics, c) => PartsSum(p.metrics, TOTALS[c]) = 0
                      /\ \A h \in parsed.result.currency_mismatch_columns :
                           \/ Places(parsed.of.headers, h.column) # {} \/ h.column \in WORKED_OUT
                           \/ p.metrics[h.column] = None
                      /\ (p.conflict # {}) = (\E r \in table : r.canonical /\ KeyOf(r) = <<p.zone, p.scheme>> /\ Lk(r) = Lk(p))
    BY DEF ParsedRowsAreSound
  <2>1. PICK sheet \in Sheet : parsed.of = sheet /\ parsed.result = parse(sheet, table)
    BY DEF CalculationsInvariant, ParsedNow, Previewed
  <2>2. IsSheet(sheet) /\ parsed.result # None
    BY CalculationsAssumption DEF Previewed
  <2>3. PICK n \in importable_rows(parsed.result) : p = parsed.result.rows[n]
    BY DEF Importable
  <2> DEFINE cells == sheet.rows[n]
             m == Figures(sheet.headers, cells)
  <2>4. /\ missing_required_columns(sheet.headers) = {}
        /\ parsed.result.currency_mismatch_columns \subseteq {h \in Range(sheet.headers) : foreign_currency_column(h)}
        /\ p.zone # None /\ p.scheme # None /\ p.month_no \in 1..12 /\ p.year > 0
        /\ IsFigures(m) /\ p.metrics = rollup_metrics(m)
        /\ p.conflict # {} <=> \E r \in table : r.canonical /\ SameMonth(r, p)
    BY <2>1, <2>2, <2>3, ImportableRow
  <2>5. /\ \A c \in DOMAIN TOTALS : Blank(p.metrics, c) => PartsSum(p.metrics, TOTALS[c]) = 0
        /\ \A c \in NUMERIC_COLS \ WORKED_OUT : p.metrics[c] = m[c]
    BY <2>4, RolledUp
  <2>6. ASSUME NEW h \in parsed.result.currency_mismatch_columns,
               Places(sheet.headers, h.column) = {}, h.column \notin WORKED_OUT
        PROVE  p.metrics[h.column] = None
    <3>1. h.column \in COLUMN_MAP
      BY <2>4 DEF foreign_currency_column
    <3>2. h.column \in NUMERIC_COLS
      BY <2>4, <2>6, <3>1 DEF missing_required_columns, COLUMN_MAP
    <3>3. m[h.column] = None
      BY <2>6, <3>2 DEF Figures, CellOf, coerce_numeric
    <3> QED
      BY <2>5, <2>6, <3>2, <3>3
  <2> QED
    BY <2>1, <2>4, <2>5, <2>6 DEF SameMonth
<1> QED
  BY <1>1, TableInvariant, PTL
-----------------------------------------------------------------------------
(* Functions put together.                                                 *)
LEMMA Merged ==
  ASSUME NEW f, NEW g, NEW x \in DOMAIN g, x \notin DOMAIN f
  PROVE  (f ++ g)[x] = g[x]
BY DEF ++

LEMMA MergedFirst ==
  ASSUME NEW f, NEW g, NEW x \in DOMAIN f
  PROVE  (f ++ g)[x] = f[x]
BY DEF ++

LEMMA MergedDomain ==
  ASSUME NEW f, NEW g
  PROVE  DOMAIN (f ++ g) = DOMAIN f \union DOMAIN g
BY DEF ++

(* What a return of the window lacks, its copy is known to lack: no ratio  *)
(* is taken of the rows, nor of those of its zone.                         *)
LEMMA MissingIsIncomplete ==
  ASSUME NEW rows, OneForEachMonth(rows), NEW w, NEW base, IsBase(base, rows, w),
         NEW F \in SUBSET NUMERIC_COLS, NEW stored, stored = {r \in rows : InWindow(r, w)}
  PROVE  /\ Missing(stored, F) => ~Complete(base, F)
         /\ \A z : Missing(RowsIn(stored, z), F) => ~Complete(RowsIn(base, z), F)
<1>1. ASSUME NEW s \in stored, NEW f \in F, s.v[f] = None
      PROVE  \E r \in base : r.zone = s.zone /\ f \in r.missing
  <2>1. PICK r \in base : SameReturn(r, s)
    BY DEF IsBase
  <2>2. PICK t \in stored : StandsFor(r, t, rows, w)
    BY DEF IsBase
  <2>3. t = s
    BY <2>1, <2>2 DEF StandsFor, SameReturn, OneForEachMonth
  <2>4. f \in r.missing
    BY <1>1, <2>2, <2>3 DEF StandsFor
  <2>5. r.zone = s.zone
    BY <2>1 DEF SameReturn, KeyOf
  <2> QED
    BY <2>4, <2>5
<1>2. ASSUME Missing(stored, F) PROVE ~Complete(base, F)
  <2>1. PICK s \in stored, f \in F : s.v[f] = None
    BY <1>2 DEF Missing
  <2>2. PICK r \in base : f \in r.missing
    BY <1>1, <2>1
  <2> QED
    BY <2>2 DEF Complete
<1>3. ASSUME NEW z, Missing(RowsIn(stored, z), F) PROVE ~Complete(RowsIn(base, z), F)
  <2>1. PICK s \in stored, f \in F : s.zone = z /\ s.v[f] = None
    BY <1>3 DEF Missing, RowsIn
  <2>2. PICK r \in base : r.zone = z /\ f \in r.missing
    BY <1>1, <2>1
  <2>3. r \in RowsIn(base, z)
    BY <2>2 DEF RowsIn
  <2> QED
    BY <2>2, <2>3 DEF Complete
<1> QED
  BY <1>2, <1>3

LEMMA RatesAreColumns ==
  {"nrw", "vol_produced", "cash_collected", "amt_billed", "op_cost", "total_debtors", "supply_hours"} \subseteq NUMERIC_COLS
BY DEF NUMERIC_COLS, FLOW_FIELDS, STOCK_BALANCE_FIELDS, DEBTORS, RATE_FIELDS

LEMMA RequiredAreColumns == REQUIRED \subseteq NUMERIC_COLS
BY DEF REQUIRED, NUMERIC_COLS, FLOW_FIELDS, STOCK_BALANCE_FIELDS, DEBTORS, RATE_FIELDS, NULLABLE_SENTINEL_COLS

(* The figures of the pages that are rates, and what they are taken of.    *)
LEMMA RatesOfThePages ==
  ASSUME NEW rows, NEW w, NEW b, b = Base(rows, w), shown = Pages(rows, w)
  PROVE  /\ shown.base = b
         /\ Kpi("nrw").pct_nrw = NrwPct(b.rows) /\ Kpi("production").nrw_pct = NrwPct(b.rows)
         /\ shown.panels["supply_continuity"] = panel_supply_continuity(b)
<1>1. shown.base = b /\ shown.panels = panels(b, rows, w)
  BY DEF Pages
<1>2. /\ shown.panels["nrw"] = panel_nrw(b) /\ shown.panels["production"] = panel_production(b)
      /\ shown.panels["supply_continuity"] = panel_supply_continuity(b)
  BY <1>1 DEF panels
<1>3. panel_nrw(b).kpi["pct_nrw"] = NrwPct(b.rows)
  <2> DEFINE sold == NzSum(b.rows, "revenue_water")
             sales == NzSum(b.rows, "total_sales")
             lost == NzSum(b.rows, "nrw")
             pct == AssessedRatio(b.rows, "nrw", "vol_produced")
             g == [water_sold |-> sold, nrw_volume |-> lost, pct_nrw |-> pct,
                   gap_to_target |-> IF pct = None THEN None ELSE pct - NRW_TARGET_PCT,
                   avg_tariff_per_m3 |-> PerUnit(sales, sold),
                   economic_nrw |-> IF lost = 0 \/ sold = 0 \/ sales = 0 THEN None ELSE (lost * sales) \div sold]
  <2>1. panel_nrw(b).kpi = Sums(b.rows, {"vol_produced"}) ++ g
    BY DEF panel_nrw, Panel
  <2>2. "pct_nrw" \in DOMAIN g /\ g["pct_nrw"] = pct
    OBVIOUS
  <2>3. "pct_nrw" \notin DOMAIN Sums(b.rows, {"vol_produced"})
    BY DEF Sums
  <2> HIDE DEF g
  <2> QED
    BY <2>1, <2>2, <2>3, Merged DEF NrwPct
<1>4. panel_production(b).kpi["nrw_pct"] = NrwPct(b.rows)
  <2> DEFINE figures == {"vol_produced", "revenue_water", "nrw"}
  <2>1. PICK g : /\ panel_production(b).kpi = Sums(b.rows, figures) ++ g
                 /\ "nrw_pct" \in DOMAIN g /\ g["nrw_pct"] = AssessedRatio(b.rows, "nrw", "vol_produced")
    BY DEF panel_production, Panel
  <2>2. "nrw_pct" \notin DOMAIN Sums(b.rows, figures)
    BY DEF Sums
  <2> QED
    BY <2>1, <2>2, Merged DEF NrwPct
<1> QED
  BY <1>1, <1>2, <1>3, <1>4 DEF Kpi

LEMMA RatesOfTheReports ==
  ASSUME NEW b, NEW w, NEW budget
  PROVE  /\ report_operations(b).production_summary.nrw_pct = NrwPct(b.rows)
         /\ report_nrw_analysis(b).summary.nrw_pct = NrwPct(b.rows)
         /\ report_zone_comparison(b).totals.nrw_pct = NrwPct(b.rows)
         /\ report_zone_comparison(b).totals.collection_rate = CollectionRate(b.rows)
         /\ LET summary == report_financial(b, w, budget).summary
            IN  /\ summary.collection_rate = CollectionRate(b.rows) /\ summary.op_ratio = OpRatio(b.rows)
                /\ summary.dso = WholeDso(b)
         /\ report_scheme_performance(b).totals.collection_rate = CollectionRate(b.rows)
<1>1. report_operations(b).production_summary["nrw_pct"] = NrwPct(b.rows)
  <2> DEFINE figures == {"vol_produced", "revenue_water", "nrw", "power_kwh", "power_cost", "chem_cost",
                         "power_fail_hours", "pipe_breakdowns", "pump_breakdowns", "dev_lines_total"}
  <2>1. PICK g : /\ report_operations(b).production_summary = Sums(b.rows, figures) ++ g
                 /\ "nrw_pct" \in DOMAIN g /\ g["nrw_pct"] = NrwPct(b.rows)
    BY DEF report_operations
  <2>2. "nrw_pct" \notin DOMAIN Sums(b.rows, figures)
    BY DEF Sums
  <2> QED
    BY <2>1, <2>2, Merged
<1>2. report_nrw_analysis(b).summary["nrw_pct"] = NrwPct(b.rows)
  <2> DEFINE figures == {"vol_produced", "revenue_water", "nrw"}
  <2>1. PICK g : /\ report_nrw_analysis(b).summary = Sums(b.rows, figures) ++ g
                 /\ "nrw_pct" \in DOMAIN g /\ g["nrw_pct"] = NrwPct(b.rows)
    BY DEF report_nrw_analysis
  <2>2. "nrw_pct" \notin DOMAIN Sums(b.rows, figures)
    BY DEF Sums
  <2> QED
    BY <2>1, <2>2, Merged
<1>3. /\ report_zone_comparison(b).totals["nrw_pct"] = NrwPct(b.rows)
      /\ report_zone_comparison(b).totals["collection_rate"] = CollectionRate(b.rows)
  <2> DEFINE figures == {"op_cost", "amt_billed", "cash_collected"} \union NULLABLE_SENTINEL_COLS
             stocks == {"active_customers"}
             f == Sums(b.rows, figures) ++ PositiveStocks(b.rows, stocks)
  <2>1. PICK g : /\ report_zone_comparison(b).totals = f ++ g
                 /\ "nrw_pct" \in DOMAIN g /\ g["nrw_pct"] = NrwPct(b.rows)
                 /\ "collection_rate" \in DOMAIN g /\ g["collection_rate"] = CollectionRate(b.rows)
    <3> DEFINE vol == MapThenSumSet(LAMBDA z : b.by_zone[z]["vol_produced"], DOMAIN b.by_zone)
               g == [vol_produced |-> vol, nrw_pct |-> NrwPct(b.rows), collection_rate |-> CollectionRate(b.rows),
                     total_breakdowns |-> Breakdowns(b.rows), dso |-> UnguardedDso(b),
                     op_cost_per_m3 |-> PerUnit(NzSum(b.rows, "op_cost"), vol), total_debtors |-> TotalDebtors(b.rows)]
    <3>1. report_zone_comparison(b).totals = f ++ g
      BY DEF report_zone_comparison
    <3> HIDE DEF f, vol
    <3>2. /\ "nrw_pct" \in DOMAIN g /\ g["nrw_pct"] = NrwPct(b.rows)
          /\ "collection_rate" \in DOMAIN g /\ g["collection_rate"] = CollectionRate(b.rows)
      OBVIOUS
    <3> HIDE DEF g
    <3> QED
      BY <3>1, <3>2
  <2>2. DOMAIN Sums(b.rows, figures) = figures /\ DOMAIN PositiveStocks(b.rows, stocks) = stocks
    BY DEF Sums, PositiveStocks
  <2>3. "nrw_pct" \notin figures \union stocks /\ "collection_rate" \notin figures \union stocks
    BY DEF NULLABLE_SENTINEL_COLS
  <2> HIDE DEF figures, stocks
  <2>4. DOMAIN f = figures \union stocks
    BY <2>2, MergedDomain
  <2> HIDE DEF f
  <2> QED
    BY <2>1, <2>3, <2>4, Merged
<1>4. LET summary == report_financial(b, w, budget).summary
      IN  /\ summary["collection_rate"] = CollectionRate(b.rows) /\ summary["op_ratio"] = OpRatio(b.rows)
          /\ summary["dso"] = WholeDso(b)
  <2> DEFINE figures == {"cash_collected", "service_charge", "meter_rental", "total_sales"}
             sums == Sums(b.rows, figures)
             snapshot == Only(financial_snapshot(b), {"total_revenue", "collection_rate", "op_costs", "op_ratio",
                                                      "total_debtors", "dso", "net_surplus"})
             rates == {"collection_rate", "op_ratio", "dso"}
  <2>1. PICK g : report_financial(b, w, budget).summary = (sums ++ snapshot) ++ g
    BY DEF report_financial
  <2>2. DOMAIN sums = figures
    BY DEF Sums
  <2>3. /\ rates \subseteq DOMAIN snapshot
        /\ snapshot["collection_rate"] = CollectionRate(b.rows) /\ snapshot["op_ratio"] = OpRatio(b.rows)
        /\ snapshot["dso"] = WholeDso(b)
    BY DEF financial_snapshot, Only
  <2>4. rates \intersect figures = {}
    OBVIOUS
  <2> HIDE DEF figures, sums, snapshot
  <2>5. \A x \in rates : ((sums ++ snapshot) ++ g)[x] = snapshot[x]
    <3> SUFFICES ASSUME NEW x \in rates PROVE ((sums ++ snapshot) ++ g)[x] = snapshot[x]
      OBVIOUS
    <3>1. x \in DOMAIN snapshot /\ x \notin DOMAIN sums
      BY <2>2, <2>3, <2>4
    <3>2. x \in DOMAIN (sums ++ snapshot)
      BY <3>1, MergedDomain
    <3>3. ((sums ++ snapshot) ++ g)[x] = (sums ++ snapshot)[x]
      BY <3>2, MergedFirst
    <3>4. (sums ++ snapshot)[x] = snapshot[x]
      BY <3>1, Merged
    <3> QED
      BY <3>3, <3>4
  <2> QED
    BY <2>1, <2>3, <2>5
<1>5. report_scheme_performance(b).totals["collection_rate"] = CollectionRate(b.rows)
  <2> DEFINE figures == {"vol_produced", "amt_billed", "cash_collected", "op_cost"}
             stocks == {"active_customers"}
             f == Sums(b.rows, figures) ++ PositiveStocks(b.rows, stocks)
  <2>1. PICK g : /\ report_scheme_performance(b).totals = f ++ g
                 /\ "collection_rate" \in DOMAIN g /\ g["collection_rate"] = CollectionRate(b.rows)
    <3> DEFINE g == [scheme_count |-> Cardinality(Keys(b.rows)), nrw_pct |-> NrwPct(b.rows),
                     collection_rate |-> CollectionRate(b.rows), total_debtors |-> TotalDebtors(b.rows),
                     dso |-> UnguardedDso(b), total_breakdowns |-> Breakdowns(b.rows)]
    <3>1. report_scheme_performance(b).totals = f ++ g
      BY DEF report_scheme_performance
    <3> HIDE DEF f
    <3>2. "collection_rate" \in DOMAIN g /\ g["collection_rate"] = CollectionRate(b.rows)
      OBVIOUS
    <3> HIDE DEF g
    <3> QED
      BY <3>1, <3>2
  <2>2. DOMAIN Sums(b.rows, figures) = figures /\ DOMAIN PositiveStocks(b.rows, stocks) = stocks
    BY DEF Sums, PositiveStocks
  <2>3. "collection_rate" \notin figures \union stocks
    OBVIOUS
  <2> HIDE DEF figures, stocks
  <2>4. DOMAIN f = figures \union stocks
    BY <2>2, MergedDomain
  <2> HIDE DEF f
  <2> QED
    BY <2>1, <2>3, <2>4, Merged
<1> QED
  BY <1>1, <1>2, <1>3, <1>4, <1>5

(* The board pack and its financial snapshot share their rates.            *)
LEMMA RatesOfTheBoardPack ==
  ASSUME NEW b, NEW stored, NEW w, b.rows # {}
  PROVE  LET pack == report_board_pack(b, stored, w)
         IN  /\ pack.executive_kpis.nrw_pct = NrwPct(b.rows)
             /\ pack.executive_kpis.collection_rate = CollectionRate(b.rows)
             /\ pack.executive_kpis.op_ratio = OpRatio(b.rows) /\ pack.executive_kpis.dso = WholeDso(b)
             /\ pack.financial_snapshot.collection_rate = CollectionRate(b.rows)
             /\ pack.financial_snapshot.op_ratio = OpRatio(b.rows)
             /\ pack.financial_snapshot.net_margin_pct = NetMargin(b.rows)
             /\ pack.financial_snapshot.dso = WholeDso(b)
<1>1. /\ report_board_pack(b, stored, w).executive_kpis = executive_kpis(b)
      /\ report_board_pack(b, stored, w).financial_snapshot = financial_snapshot(b)
  BY Zenon DEF report_board_pack
<1>2. /\ executive_kpis(b)["nrw_pct"] = NrwPct(b.rows)
      /\ executive_kpis(b)["collection_rate"] = CollectionRate(b.rows)
      /\ executive_kpis(b)["op_ratio"] = OpRatio(b.rows) /\ executive_kpis(b)["dso"] = WholeDso(b)
  <2> DEFINE figures == {"vol_produced", "cash_collected"}
             rates == {"nrw_pct", "collection_rate", "op_ratio", "dso"}
  <2>1. PICK g : /\ executive_kpis(b) = Sums(b.rows, figures) ++ g
                 /\ rates \subseteq DOMAIN g
                 /\ g["nrw_pct"] = NrwPct(b.rows) /\ g["collection_rate"] = CollectionRate(b.rows)
                 /\ g["op_ratio"] = OpRatio(b.rows) /\ g["dso"] = WholeDso(b)
    BY DEF executive_kpis
  <2>2. DOMAIN Sums(b.rows, figures) = figures /\ rates \intersect figures = {}
    BY DEF Sums
  <2> QED
    BY <2>1, <2>2, Merged
<1>3. /\ financial_snapshot(b).collection_rate = CollectionRate(b.rows)
      /\ financial_snapshot(b).op_ratio = OpRatio(b.rows)
      /\ financial_snapshot(b).net_margin_pct = NetMargin(b.rows)
      /\ financial_snapshot(b).dso = WholeDso(b)
  BY DEF financial_snapshot
<1> QED
  BY <1>1, <1>2, <1>3

(* The executive page takes the newest debt of the schemes for its days.   *)
LEMMA RatesOfTheExecutivePage ==
  ASSUME NEW b, b.rows # {}
  PROVE  LET page == panel_executive(b)
         IN  /\ page.nrw.nrw_pct = NrwPct(b.rows)
             /\ page.financial.collection_rate = CollectionRate(b.rows)
             /\ page.financial.op_ratio = OpRatio(b.rows)
             /\ page.financial.net_margin = NetMargin(b.rows)
             /\ ~Complete(b.rows, {"total_debtors", "amt_billed"}) => page.financial.dso = None
<1>1. panel_executive(b).financial = Financial(b) /\ panel_executive(b).nrw = NrwIntelligence(b)
  BY Zenon DEF panel_executive
<1>2. NrwIntelligence(b)["nrw_pct"] = NrwPct(b.rows)
  <2>1. PICK g : /\ NrwIntelligence(b) = Sums(b.rows, {"vol_produced"}) ++ g
                 /\ "nrw_pct" \in DOMAIN g /\ g["nrw_pct"] = NrwPct(b.rows)
    BY DEF NrwIntelligence, NrwPct
  <2>2. "nrw_pct" \notin DOMAIN Sums(b.rows, {"vol_produced"})
    BY DEF Sums
  <2> QED
    BY <2>1, <2>2, Merged
<1>3. /\ Financial(b)["collection_rate"] = CollectionRate(b.rows)
      /\ Financial(b)["op_ratio"] = OpRatio(b.rows)
      /\ Financial(b)["net_margin"] = NetMargin(b.rows)
      /\ ~Complete(b.rows, {"total_debtors", "amt_billed"}) => Financial(b)["dso"] = None
  <2> DEFINE figures == {"cash_collected", "amt_billed"}
             rates == {"collection_rate", "op_ratio", "net_margin", "dso"}
  <2>1. PICK g : /\ Financial(b) = Sums(b.rows, figures) ++ g
                 /\ rates \subseteq DOMAIN g
                 /\ g["collection_rate"] = CollectionRate(b.rows)
                 /\ g["op_ratio"] = OpRatio(b.rows) /\ g["net_margin"] = NetMargin(b.rows)
                 /\ ~Complete(b.rows, {"total_debtors", "amt_billed"}) => g["dso"] = None
    BY DEF Financial, CollectionRate, OpRatio, NetMargin
  <2>2. DOMAIN Sums(b.rows, figures) = figures /\ rates \intersect figures = {}
    BY DEF Sums
  <2> QED
    BY <2>1, <2>2, Merged
<1> QED
  BY <1>1, <1>2, <1>3

LEMMA RatesOfTheZones ==
  ASSUME NEW rows, NEW z \in Zones(rows)
  PROVE  /\ ByZone(rows)[z].nrw_pct = NrwPct(RowsIn(rows, z))
         /\ ByZone(rows)[z].collection_rate = CollectionRate(RowsIn(rows, z))
<1> DEFINE zrows == RowsIn(rows, z)
           F1 == ZONE_FLOWS
           F2 == ZONE_STOCKS
           F3 == CHEM_INTENSITY_FIELDS \union {"power_kwh_per_m3", "connection_days", "collection_per_sales"}
           F4 == DEBTORS
           F5 == {"stuck_meters"}
           f1 == Sums(zrows, F1)
           f2 == Stocks(zrows, F2)
           f3 == Averages(zrows, F3)
           f4 == PositiveSums(LatestNonzero(zrows, "total_debtors"), F4)
           f5 == PositiveStocks(zrows, F5)
           f == (((f1 ++ f2) ++ f3) ++ f4) ++ f5
           rates == {"nrw_pct", "collection_rate"}
<1>1. PICK g : /\ ByZone(rows)[z] = f ++ g
               /\ rates \subseteq DOMAIN g
               /\ g["nrw_pct"] = NrwPct(zrows) /\ g["collection_rate"] = CollectionRate(zrows)
  <2> DEFINE g == [nrw_pct |-> AssessedRatio(zrows, "nrw", "vol_produced"),
                   collection_rate |-> AssessedRatio(zrows, "cash_collected", "amt_billed"),
                   total_disconnected |-> TotalDisconnected(zrows),
                   pct_pop_supplied |-> Share(LatestSum(zrows, "pop_supplied"), LatestSum(zrows, "pop_supply_area")),
                   power_cost_per_m3 |-> PerUnit(NzSum(zrows, "power_cost"), NzSum(zrows, "vol_produced")),
                   pipe_breakdowns |-> Counted(zrows, "pipe_breakdowns"),
                   pump_breakdowns |-> Counted(zrows, "pump_breakdowns"),
                   supply_hours |-> SupplyDaily(zrows)]
  <2>1. ByZone(rows)[z] = f ++ g
    BY DEF ByZone
  <2>2. /\ rates \subseteq DOMAIN g
        /\ g["nrw_pct"] = NrwPct(zrows) /\ g["collection_rate"] = CollectionRate(zrows)
    BY DEF NrwPct, CollectionRate
  <2> HIDE DEF g, f
  <2> QED
    BY <2>1, <2>2
<1>2. /\ DOMAIN f1 = F1 /\ DOMAIN f2 = F2 /\ DOMAIN f3 = F3 /\ DOMAIN f4 = F4 /\ DOMAIN f5 = F5
  BY DEF Sums, Stocks, Averages, PositiveSums, PositiveStocks
<1>3. \A x \in rates : x \notin F1 /\ x \notin F2 /\ x \notin F3 /\ x \notin F4 /\ x \notin F5
  <2>1. \A x \in rates : x \notin FLOW_FIELDS /\ x \notin STOCK_BALANCE_FIELDS /\ x \notin RATE_FIELDS
    BY RatesAssumption DEF NUMERIC_COLS
  <2>2. \A x \in rates : x \notin WORKFORCE_EFFICIENCY_FIELDS
    BY DEF WORKFORCE_EFFICIENCY_FIELDS
  <2>3. \A x \in rates : x \notin F1
    BY <2>1, <2>2 DEF ZONE_FLOWS
  <2>4. \A x \in rates : /\ x \notin DISCONNECTED_CLASSES /\ x \notin CONNECTION_STOCK_FIELDS
                         /\ x \notin STUCK_STOCK_FIELDS /\ x \notin DEBTORS /\ x \notin CHEM_INTENSITY_FIELDS
    BY <2>1 DEF STOCK_BALANCE_FIELDS, RATE_FIELDS
  <2>5. \A x \in rates : x \notin F2
    BY <2>4 DEF ZONE_STOCKS
  <2> QED
    BY <2>3, <2>4, <2>5
<1> HIDE DEF F1, F2, F3, F4, F5, f1, f2, f3, f4, f5
<1>4. DOMAIN f = (((F1 \union F2) \union F3) \union F4) \union F5
  <2>1. DOMAIN (f1 ++ f2) = F1 \union F2
    BY <1>2, MergedDomain
  <2>2. DOMAIN ((f1 ++ f2) ++ f3) = (F1 \union F2) \union F3
    BY <1>2, <2>1, MergedDomain
  <2>3. DOMAIN (((f1 ++ f2) ++ f3) ++ f4) = ((F1 \union F2) \union F3) \union F4
    BY <1>2, <2>2, MergedDomain
  <2> DEFINE h == ((f1 ++ f2) ++ f3) ++ f4
  <2>4. DOMAIN h = ((F1 \union F2) \union F3) \union F4 /\ f = h ++ f5
    BY <2>3
  <2> HIDE DEF h, f
  <2>5. DOMAIN (h ++ f5) = DOMAIN h \union DOMAIN f5
    BY MergedDomain
  <2> QED
    BY <1>2, <2>4, <2>5
<1> HIDE DEF f
<1>5. \A x \in rates : (f ++ g)[x] = g[x]
  BY <1>1, <1>3, <1>4, Merged
<1> QED
  BY <1>1, <1>5
-----------------------------------------------------------------------------
(* An alert on a rate of a zone is raised on rows that give the rate.      *)
LEMMA YearRowsAre ==
  ASSUME NEW rows, OneForEachMonth(rows), NEW w, IsWindow(w)
  PROVE  YearRows(rows, w.year)
           = {Read(r) : r \in {s \in rows : fy_end_year(s.year, s.month_no) = OrElse(w.year, CURRENT_FY)}}
<1> DEFINE y == OrElse(w.year, CURRENT_FY)
<1>1. y \in Int
  BY CurrentYearAssumption DEF OrElse, IsWindow
<1>2. \A r \in rows : fy_end_year(r.year, r.month_no) = y
               <=> (IF FY_START_MONTH = 1 THEN r.year = y
                    ELSE \/ r.year = y - 1 /\ r.month_no >= FY_START_MONTH
                         \/ r.year = y /\ r.month_no <= FY_START_MONTH - 1)
  <2> HIDE DEF y
  <2> QED
    BY <1>1, YearByMonth DEF OneForEachMonth
<1>3. apply_fy_filter(rows, y) = {s \in rows : fy_end_year(s.year, s.month_no) = y}
  BY <1>2 DEF apply_fy_filter
<1> QED
  BY <1>3 DEF YearRows, CoerceNumericNulls, Read

LEMMA CompleteRowsAreGiven ==
  ASSUME NEW rows, \A r \in rows : IsReturn(r), NEW z, NEW F \in SUBSET NUMERIC_COLS,
         Complete(RowsIn({Read(r) : r \in rows}, z), F)
  PROVE  ~Missing(RowsIn(rows, z), F)
<1> SUFFICES ASSUME NEW s \in RowsIn(rows, z), NEW f \in F, s.v[f] = None PROVE FALSE
  BY DEF Missing
<1>1. s \in rows /\ s.zone = z
  BY DEF RowsIn
<1>2. f \in Read(s).missing /\ Read(s).zone = z
  BY <1>1, ReadRow DEF SameReturn, KeyOf
<1>3. Read(s) \in RowsIn({Read(r) : r \in rows}, z)
  BY <1>1, <1>2 DEF RowsIn
<1> QED
  BY <1>2, <1>3 DEF Complete

LEMMA ZoneAlertsAreOfTheKnown ==
  ASSUME NEW rows, NEW zone, NEW a \in ZoneAlerts(rows, zone)
  PROVE  /\ a[4] = zone
         /\ a[3] = "pct_nrw" => Complete(RowsIn(rows, zone), {"nrw", "vol_produced"})
         /\ a[3] = "collection_rate" => Complete(RowsIn(rows, zone), {"cash_collected", "amt_billed"})
<1> DEFINE zrows == RowsIn(rows, zone)
           nrw == NrwPct(zrows)
           coll == CollectionRate(zrows)
           stuck == Share(SnapshotSum(zrows, "stuck_meters"), AtLeastOne(SnapshotSum(zrows, "active_customers")))
           severity == IF FallsShort(coll, T("coll_warn")) THEN "critical" ELSE "warning"
           A1 == Alert(Exceeds(nrw, T("zone_nrw_critical")), "critical", "nrw", "pct_nrw", zone)
           A2 == Alert(Exceeds(nrw, NRW_TARGET_PCT) /\ ~Exceeds(nrw, T("zone_nrw_critical")), "warning", "nrw", "pct_nrw", zone)
           A3 == Alert(FallsShort(coll, T("zone_coll_warn")), severity, "financial", "collection_rate", zone)
           A4 == Alert(2 * stuck > 3 * T("stuck_pct_warn"), "warning", "operations", "stuck_meters", zone)
<1>1. a \in A1 \/ a \in A2 \/ a \in A3 \/ a \in A4
  BY DEF ZoneAlerts
<1>2. nrw # None => Complete(zrows, {"nrw", "vol_produced"})
  BY DEF NrwPct, AssessedRatio
<1>3. coll # None => Complete(zrows, {"cash_collected", "amt_billed"})
  BY DEF CollectionRate, AssessedRatio
<1> HIDE DEF zrows, nrw, coll, stuck, severity
<1>4. CASE a \in A1 \/ a \in A2
  <2>1. nrw # None /\ a[3] = "pct_nrw" /\ a[4] = zone
    BY <1>4 DEF Alert, Exceeds
  <2> QED
    BY <1>2, <2>1 DEF zrows
<1>5. CASE a \in A3
  <2>1. coll # None /\ a[3] = "collection_rate" /\ a[4] = zone
    BY <1>5 DEF Alert, FallsShort
  <2> QED
    BY <1>3, <2>1 DEF zrows
<1>6. CASE a \in A4
  <2>1. a[3] = "stuck_meters" /\ a[4] = zone
    BY <1>6 DEF Alert
  <2> QED
    BY <2>1
<1> QED
  BY <1>1, <1>4, <1>5, <1>6

LEMMA OtherAlertsNameNoZone ==
  ASSUME NEW rows, NEW a
  PROVE  a \in Whole(rows) \/ a \in MonthOnMonth(rows) \/ a \in TrendAlerts(rows) => a[4] = None
<1>0. \A c, severity, category, metric : a \in Alert(c, severity, category, metric, None) => a[4] = None
  BY DEF Alert
<1>1. ASSUME a \in Whole(rows) PROVE a[4] = None
  BY <1>0, <1>1 DEF Whole
<1>2. ASSUME a \in MonthOnMonth(rows) PROVE a[4] = None
  BY <1>0, <1>2 DEF MonthOnMonth
<1>3. ASSUME a \in TrendAlerts(rows) PROVE a[4] = None
  BY <1>0, <1>3 DEF TrendAlerts
<1> QED
  BY <1>1, <1>2, <1>3

LEMMA AlertsAreOfTheKnown ==
  ASSUME NEW rows, OneForEachMonth(rows), NEW w, IsWindow(w), NEW a \in generate_alerts(rows, w.year), a[4] # None,
         NEW year, year = {r \in rows : fy_end_year(r.year, r.month_no) = OrElse(w.year, CURRENT_FY)}
  PROVE  /\ a[3] = "pct_nrw" => ~Missing(RowsIn(year, a[4]), {"nrw", "vol_produced"})
         /\ a[3] = "collection_rate" => ~Missing(RowsIn(year, a[4]), {"cash_collected", "amt_billed"})
<1> DEFINE of == YearRows(rows, w.year)
           zones == UNION {ZoneAlerts(of, z) : z \in Zones(of)}
<1>1. of = {Read(r) : r \in year} /\ \A r \in year : IsReturn(r)
  BY YearRowsAre DEF OneForEachMonth
<1>2. a \in Whole(of) \/ a \in MonthOnMonth(of) \/ a \in TrendAlerts(of) \/ a \in zones
  <2>1. generate_alerts(rows, w.year)
          = IF MonthsOfYear(of) = <<>> THEN {} ELSE Whole(of) \union MonthOnMonth(of) \union zones \union TrendAlerts(of)
    BY Zenon DEF generate_alerts
  <2>2. a \in generate_alerts(rows, w.year)
    OBVIOUS
  <2> HIDE DEF of, zones
  <2>3. a \in Whole(of) \union MonthOnMonth(of) \union zones \union TrendAlerts(of)
    <3>1. CASE MonthsOfYear(of) = <<>>
      BY <2>1, <2>2, <3>1
    <3>2. CASE MonthsOfYear(of) # <<>>
      BY <2>1, <2>2, <3>2
    <3> QED
      BY <3>1, <3>2
  <2> QED
    BY <2>3
<1> HIDE DEF of
<1>7. a \in zones => \E z \in Zones(of) : a \in ZoneAlerts(of, z)
  OBVIOUS
<1> HIDE DEF zones
<1>3. PICK z : a \in ZoneAlerts(of, z)
  BY <1>2, <1>7, OtherAlertsNameNoZone
<1>4. /\ a[4] = z
      /\ a[3] = "pct_nrw" => Complete(RowsIn(of, z), {"nrw", "vol_produced"})
      /\ a[3] = "collection_rate" => Complete(RowsIn(of, z), {"cash_collected", "amt_billed"})
  BY <1>3, ZoneAlertsAreOfTheKnown
<1>5. {"nrw", "vol_produced"} \in SUBSET NUMERIC_COLS /\ {"cash_collected", "amt_billed"} \in SUBSET NUMERIC_COLS
  BY RatesAreColumns
<1>6. \A F \in SUBSET NUMERIC_COLS : Complete(RowsIn(of, z), F) => ~Missing(RowsIn(year, z), F)
  BY <1>1, CompleteRowsAreGiven
<1> QED
  BY <1>4, <1>5, <1>6

(* The pages that assess a rate, for the whole or for a zone, show it only *)
(* if it is known; nothing is graded, and no alert of a zone is raised, on *)
(* figures that a return has left out (assessment.py:12-43).  The pages    *)
(* that show a rate without assessing it are named at UnknownIsNotZero.    *)
THEOREM UnknownIsNotZeroHolds == CalculationsSpec => []UnknownIsNotZero
<1>1. CalculationsInvariant => UnknownIsNotZero
  <2> SUFFICES ASSUME CalculationsInvariant, Shown PROVE UnknownIsNotZero
    BY DEF UnknownIsNotZero
  <2>1. PICK w \in Window : shown = Pages(table, w)
    BY DEF CalculationsInvariant, ShownNow, Shown
  <2>2. IsWindow(w) /\ OneForEachMonth(table)
    BY CalculationsAssumption DEF CalculationsInvariant
  <2> DEFINE b == shown.base
             stored == {r \in table : InWindow(r, w)}
             rep == shown.reports
             summary == rep.financial.summary
             pack == rep.board_pack
             executive == shown.executive
  <2>3. shown.of = w /\ WindowRows = stored /\ IsBase(b.rows, table, w)
    BY <2>1, <2>2, ShownIsOfItsWindow
  <2>4. /\ b = Base(table, w) /\ Kpi("nrw").pct_nrw = NrwPct(b.rows) /\ Kpi("production").nrw_pct = NrwPct(b.rows)
        /\ shown.panels["supply_continuity"] = panel_supply_continuity(b) /\ executive = panel_executive(b)
    BY <2>1, RatesOfThePages DEF Pages
  <2>5. rep = reports(b, table, w)
    BY <2>1 DEF Pages
  <2>6. /\ rep.operations = report_operations(b) /\ rep.nrw_analysis = report_nrw_analysis(b)
        /\ rep.zone_comparison = report_zone_comparison(b) /\ rep.financial = report_financial(b, w, BudgetOf(w))
        /\ rep.scheme_performance = report_scheme_performance(b) /\ rep.board_pack = report_board_pack(b, table, w)
        /\ rep.scorecard = report_scorecard(b) /\ rep.recommendations = report_recommendations(table, w)
    BY <2>5 DEF reports
  <2>7. b.by_zone = ByZone(b.rows)
    BY <2>4 DEF Base
  <2> HIDE DEF b, rep
  <2>8. /\ rep.operations.production_summary.nrw_pct = NrwPct(b.rows)
        /\ rep.nrw_analysis.summary.nrw_pct = NrwPct(b.rows)
        /\ rep.zone_comparison.totals.nrw_pct = NrwPct(b.rows)
        /\ rep.zone_comparison.totals.collection_rate = CollectionRate(b.rows)
        /\ summary.collection_rate = CollectionRate(b.rows) /\ summary.op_ratio = OpRatio(b.rows)
        /\ summary.dso = WholeDso(b)
        /\ rep.scheme_performance.totals.collection_rate = CollectionRate(b.rows)
    BY <2>6, RatesOfTheReports
  <2> HIDE DEF stored, summary, pack, executive
  <2>9. ASSUME NEW F \in SUBSET NUMERIC_COLS
        PROVE  /\ Missing(stored, F) => ~Complete(b.rows, F)
               /\ \A z : Missing(RowsIn(stored, z), F) => ~Complete(RowsIn(b.rows, z), F)
    BY <2>2, <2>3, MissingIsIncomplete DEF stored
  <2>10. /\ {"nrw", "vol_produced"} \in SUBSET NUMERIC_COLS /\ {"cash_collected", "amt_billed"} \in SUBSET NUMERIC_COLS
         /\ {"op_cost", "amt_billed"} \in SUBSET NUMERIC_COLS /\ {"total_debtors", "amt_billed"} \in SUBSET NUMERIC_COLS
         /\ {"supply_hours"} \in SUBSET NUMERIC_COLS /\ REQUIRED \in SUBSET NUMERIC_COLS
    BY RatesAreColumns, RequiredAreColumns
  <2>19. ASSUME b.rows # {}
         PROVE  /\ pack.executive_kpis.nrw_pct = NrwPct(b.rows)
                /\ pack.executive_kpis.collection_rate = CollectionRate(b.rows)
                /\ pack.executive_kpis.op_ratio = OpRatio(b.rows) /\ pack.executive_kpis.dso = WholeDso(b)
                /\ pack.financial_snapshot.collection_rate = CollectionRate(b.rows)
                /\ pack.financial_snapshot.op_ratio = OpRatio(b.rows)
                /\ pack.financial_snapshot.net_margin_pct = NetMargin(b.rows)
                /\ pack.financial_snapshot.dso = WholeDso(b)
    BY <2>6, <2>19, RatesOfTheBoardPack DEF pack
  <2>20. ASSUME b.rows # {}
         PROVE  /\ executive.nrw.nrw_pct = NrwPct(b.rows)
                /\ executive.financial.collection_rate = CollectionRate(b.rows)
                /\ executive.financial.op_ratio = OpRatio(b.rows)
                /\ executive.financial.net_margin = NetMargin(b.rows)
                /\ ~Complete(b.rows, {"total_debtors", "amt_billed"}) => executive.financial.dso = None
    BY <2>4, <2>20, RatesOfTheExecutivePage
  <2>21. ASSUME NEW F, Missing(stored, F) PROVE b.rows # {}
    BY <2>3, <2>21 DEF stored, IsBase, Missing
  <2>11. Missing(stored, {"nrw", "vol_produced"}) => NrwPct(b.rows) = None
    BY <2>9, <2>10 DEF NrwPct, AssessedRatio
  <2>12. Missing(stored, {"cash_collected", "amt_billed"}) => CollectionRate(b.rows) = None
    BY <2>9, <2>10 DEF CollectionRate, AssessedRatio
  <2>13. Missing(stored, {"op_cost", "amt_billed"}) => OpRatio(b.rows) = None /\ NetMargin(b.rows) = None
    <3>1. {"op_cost", "amt_billed"} = {"amt_billed", "op_cost"}
      OBVIOUS
    <3> QED
      BY <2>9, <2>10, <3>1 DEF OpRatio, NetMargin, AssessedRatio
  <2>14. Missing(stored, {"total_debtors", "amt_billed"}) => WholeDso(b) = None
    BY <2>9, <2>10 DEF WholeDso, Dso
  <2>15. Missing(stored, {"supply_hours"}) => "supply_continuity" \notin Cards
    BY <2>4, <2>9, <2>10 DEF Cards, panel_supply_continuity, SupplyDaily
  <2>16. ASSUME NEW z \in DOMAIN b.by_zone
         PROVE  /\ Missing(RowsIn(stored, z), {"nrw", "vol_produced"}) => b.by_zone[z].nrw_pct = None
                /\ Missing(RowsIn(stored, z), {"cash_collected", "amt_billed"}) => b.by_zone[z].collection_rate = None
    <3>1. z \in Zones(b.rows)
      BY <2>7 DEF ByZone
    <3>2. /\ b.by_zone[z].nrw_pct = NrwPct(RowsIn(b.rows, z))
          /\ b.by_zone[z].collection_rate = CollectionRate(RowsIn(b.rows, z))
      BY <2>7, <3>1, RatesOfTheZones
    <3> QED
      BY <2>9, <2>10, <3>2 DEF NrwPct, CollectionRate, AssessedRatio
  <2>17. Missing(stored, REQUIRED) => rep.scorecard.overall_score = None
    <3>1. ASSUME Missing(stored, REQUIRED) PROVE ~Assessable(b)
      <4>1. ~Complete(b.rows, REQUIRED)
        BY <2>9, <2>10, <3>1
      <4>2. Assessable(b) => Complete(b.rows, REQUIRED)
        BY Zenon DEF Assessable
      <4> QED
        BY <4>1, <4>2
    <3>2. ~Assessable(b) => report_scorecard(b).overall_score = None
      BY Zenon DEF report_scorecard
    <3> QED
      BY <2>6, <3>1, <3>2
  <2>18. ASSUME NEW severity \in DOMAIN rep.recommendations, NEW a \in rep.recommendations[severity], a[4] # None
         PROVE  /\ a[3] = "pct_nrw" => ~Missing(RowsIn(YearOfAlerts(w), a[4]), {"nrw", "vol_produced"})
                /\ a[3] = "collection_rate" => ~Missing(RowsIn(YearOfAlerts(w), a[4]), {"cash_collected", "amt_billed"})
    <3>1. a \in generate_alerts(table, w.year)
      BY <2>6 DEF report_recommendations
    <3> QED
      BY <2>2, <2>18, <3>1, AlertsAreOfTheKnown DEF YearOfAlerts
  <2>22. Missing(stored, {"nrw", "vol_produced"}) =>
           {Kpi("nrw").pct_nrw, Kpi("production").nrw_pct, rep.operations.production_summary.nrw_pct,
            rep.nrw_analysis.summary.nrw_pct, rep.zone_comparison.totals.nrw_pct,
            pack.executive_kpis.nrw_pct, executive.nrw.nrw_pct} = {None}
    BY <2>4, <2>8, <2>11, <2>19, <2>20, <2>21
  <2>23. Missing(stored, {"cash_collected", "amt_billed"}) =>
           {summary.collection_rate, rep.zone_comparison.totals.collection_rate,
            rep.scheme_performance.totals.collection_rate, pack.executive_kpis.collection_rate,
            pack.financial_snapshot.collection_rate, executive.financial.collection_rate} = {None}
    BY <2>8, <2>12, <2>19, <2>20, <2>21
  <2>24. Missing(stored, {"op_cost", "amt_billed"}) =>
           {summary.op_ratio, pack.executive_kpis.op_ratio, pack.financial_snapshot.op_ratio,
            pack.financial_snapshot.net_margin_pct, executive.financial.op_ratio, executive.financial.net_margin} = {None}
    BY <2>8, <2>13, <2>19, <2>20, <2>21
  <2>25. Missing(stored, {"total_debtors", "amt_billed"}) =>
           {summary.dso, pack.executive_kpis.dso, pack.financial_snapshot.dso, executive.financial.dso} = {None}
    BY <2>8, <2>9, <2>10, <2>14, <2>19, <2>20, <2>21
  <2> QED
    BY <2>3, <2>15, <2>16, <2>17, <2>18, <2>22, <2>23, <2>24, <2>25
    DEF UnknownIsNotZero, b, rep, summary, pack, executive, stored
<1> QED
  BY <1>1, TableInvariant, PTL
=============================================================================
