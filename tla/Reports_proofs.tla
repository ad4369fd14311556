---------------------------- MODULE Reports_proofs ----------------------------
(***************************************************************************)
(* Proofs about Reports, for any people, reports, data and number of       *)
(* workers: a report in force can be served however requests race; of      *)
(* serial requests, what is in force was approved by somebody else over    *)
(* the content it still has, and reports implement sealed records.         *)
(***************************************************************************)
EXTENDS Reports, Requests_proofs

(* A row that a report has once it is drafted.                             *)
DraftedRow(row) ==
  /\ row \in ReportRow
  /\ row.status # "absent"
  /\ row.author # Nobody
  /\ row.version > 0
  /\ row.data \in Data

(* An approver once named stays named, and a fingerprint comes with one.   *)
ApprovedRow(row) ==
  /\ InForce(row) => row.approver # Nobody
  /\ row.approver = Nobody => row.hash = Nothing

(* What ApprovalIsSound asks of one report.                                *)
SoundRow(r, row) ==
  row.status \in {"approved", "published", "withdrawn"} =>
    /\ row.hash = ContentHash(row)
    /\ r \in NeedsScore => row.data \in ScoreApproved
    /\ row.approver \notin {Nobody, row.author, row.submitter}

(* From the row a handler loads to the row it leaves: one step of a sealed *)
(* record.                                                                 *)
SealMove(row, new) ==
  \/ SealState(row) = "open" /\ SealState(new) = "open"
  \/ /\ SealState(row) = "open" /\ SealState(new) = "sealed"
     /\ new.approver \in User \ {row.author}
     /\ ContentHash(new) = ContentHash(row)
  \/ /\ SealState(row) = "sealed" /\ SealState(new) \in {"sealed", "retired"}
     /\ new.approver = row.approver
     /\ ContentHash(new) = ContentHash(row)

(* What every handler makes of the row it has loaded.                      *)
Handled(r, op, row, new) ==
  /\ DraftedRow(new)
  /\ new.author = row.author
  /\ IF op = "approve"
     THEN new.approver \in User /\ new.hash = ContentHash(new)
     ELSE /\ new.approver = row.approver
          /\ new.hash = row.hash
          /\ InForce(new) => InForce(row)
  /\ SoundRow(r, row) => SoundRow(r, new)
  /\ SealMove(row, new)

(* What is true of a request in flight and of the reports, whatever was    *)
(* committed since it loaded its own.                                      *)
Underway(q, table) ==
  /\ q.on \in Report
  /\ table[q.on].status # "absent"
  /\ DraftedRow(q.loaded)
  /\ ApprovedRow(q.loaded)
  /\ q.loaded.approver # Nobody => table[q.on].approver # Nobody
  /\ Handled(q.on, q.op, q.loaded, q.new)

InFlightIsTrue ==
  /\ DOMAIN req = Worker
  /\ \A w \in Worker :
       /\ req[w].step \in {"idle", "off", "loaded"}
       /\ req[w].step = "loaded" => Underway(req[w], reports)

RowsAreWhole ==
  /\ live \in Data
  /\ DOMAIN reports = Report
  /\ DOMAIN outputs = Report
  /\ \A r \in Report :
       /\ reports[r] = NoReport \/ DraftedRow(reports[r])
       /\ ApprovedRow(reports[r])

(* An output shows what its hash says, and the one for the fingerprint of  *)
(* a report that was ever approved is stored.                              *)
OutputsAreStored ==
  \A r \in Report :
    /\ \A o \in outputs[r] : \E c \in Content : o = [hash |-> c, shows |-> c]
    /\ reports[r].approver # Nobody => \E o \in outputs[r] : o.hash = reports[r].hash

(* Of serial requests, the loaded row is the row there is, and the reports *)
(* are sound.                                                              *)
SerialIsTrue ==
  Serial =>
    /\ \A w \in Worker : req[w].step = "loaded" => req[w].loaded = reports[req[w].on]
    /\ \A r \in Report : SoundRow(r, reports[r])

(* The inductive invariant.                                                *)
ReportsInvariant == InFlightIsTrue /\ RowsAreWhole /\ OutputsAreStored /\ SerialIsTrue
-----------------------------------------------------------------------------
(* Rows.                                                                   *)

(* A handler's copy has the columns of the row.                            *)
LEMMA AssignedRow ==
  ASSUME NEW row \in ReportRow, NEW values
  PROVE  Assign(row, values) =
           [status |-> IF "status" \in DOMAIN values THEN values.status ELSE row.status,
            author |-> IF "author" \in DOMAIN values THEN values.author ELSE row.author,
            submitter |-> IF "submitter" \in DOMAIN values THEN values.submitter ELSE row.submitter,
            approver |-> IF "approver" \in DOMAIN values THEN values.approver ELSE row.approver,
            data |-> IF "data" \in DOMAIN values THEN values.data ELSE row.data,
            version |-> IF "version" \in DOMAIN values THEN values.version ELSE row.version,
            commentary |-> IF "commentary" \in DOMAIN values THEN values.commentary ELSE row.commentary,
            hash |-> IF "hash" \in DOMAIN values THEN values.hash ELSE row.hash]
BY DEF Assign, ReportRow

(* A commit writes the columns the handler changed.                        *)
LEMMA FlushedRow ==
  ASSUME NEW loaded \in ReportRow, NEW new \in ReportRow, NEW row \in ReportRow
  PROVE  Flush(loaded, new, row) =
           [status |-> IF new.status = loaded.status THEN row.status ELSE new.status,
            author |-> IF new.author = loaded.author THEN row.author ELSE new.author,
            submitter |-> IF new.submitter = loaded.submitter THEN row.submitter ELSE new.submitter,
            approver |-> IF new.approver = loaded.approver THEN row.approver ELSE new.approver,
            data |-> IF new.data = loaded.data THEN row.data ELSE new.data,
            version |-> IF new.version = loaded.version THEN row.version ELSE new.version,
            commentary |-> IF new.commentary = loaded.commentary THEN row.commentary ELSE new.commentary,
            hash |-> IF new.hash = loaded.hash THEN row.hash ELSE new.hash]
BY DEF Flush, ReportRow

(* An undisturbed commit leaves the handler's copy.                        *)
LEMMA FlushedAlone ==
  ASSUME NEW row \in ReportRow, NEW new \in ReportRow
  PROVE  Flush(row, new, row) = new
<1>1. new = [c \in DOMAIN row |-> new[c]]
  BY DEF ReportRow
<1> QED
  BY <1>1, FlushIsWhole

LEMMA NoReportIsRow == ASSUME ReportsAssumption PROVE NoReport \in ReportRow
BY DEF NoReport, ReportRow, ReportsAssumption
-----------------------------------------------------------------------------
(* The handlers.                                                           *)

LEMMA FreezeHandles ==
  ASSUME ReportsAssumption, RowsAreWhole, NEW r \in Report, NEW row, DraftedRow(row),
         Draftable(row), row.version < MaxVersion
  PROVE  Handled(r, "freeze", row, Frozen(row))
<1> DEFINE new == Frozen(row)
<1>1. new = [status |-> row.status, author |-> row.author, submitter |-> row.submitter,
             approver |-> row.approver, data |-> live, version |-> row.version + 1,
             commentary |-> row.commentary, hash |-> row.hash]
  BY AssignedRow DEF Frozen, DraftedRow
<1>2. row.version + 1 \in 0..MaxVersion /\ row.version + 1 > 0
  BY DEF DraftedRow, ReportRow, ReportsAssumption
<1> HIDE DEF new
<1>3. Handled(r, "freeze", row, new)
  BY <1>1, <1>2
     DEF Handled, DraftedRow, ReportRow, Draftable, InForce, SoundRow, SealMove, SealState, RowsAreWhole
<1> QED
  BY <1>3 DEF new

LEMMA CommentaryHandles ==
  ASSUME NEW r \in Report, NEW row, DraftedRow(row), Draftable(row), NEW text \in Text
  PROVE  Handled(r, "commentary", row, Assign(row, [commentary |-> text]))
<1> DEFINE new == Assign(row, [commentary |-> text])
<1>1. new = [status |-> row.status, author |-> row.author, submitter |-> row.submitter,
             approver |-> row.approver, data |-> row.data, version |-> row.version,
             commentary |-> text, hash |-> row.hash]
  BY AssignedRow DEF DraftedRow
<1> HIDE DEF new
<1>2. Handled(r, "commentary", row, new)
  BY <1>1 DEF Handled, DraftedRow, ReportRow, Draftable, InForce, SoundRow, SealMove, SealState
<1> QED
  BY <1>2 DEF new

(* A transition changes the state and who is named for it.                 *)
LEMMA SubmitHandles ==
  ASSUME NEW r \in Report, NEW row, DraftedRow(row), NEW u \in User,
         Permits(FLOW, "submit", row.status, FALSE)
  PROVE  Handled(r, "submit", row,
                 Assign(row, [status |-> TargetOf(FLOW, "submit"), submitter |-> u]))
<1> DEFINE new == Assign(row, [status |-> TargetOf(FLOW, "submit"), submitter |-> u])
<1>1. new = [status |-> TargetOf(FLOW, "submit"), author |-> row.author, submitter |-> u,
             approver |-> row.approver, data |-> row.data, version |-> row.version,
             commentary |-> row.commentary, hash |-> row.hash]
  BY AssignedRow DEF DraftedRow
<1>2. row.status = "draft" /\ TargetOf(FLOW, "submit") = "in_review"
  BY DEF Permits, TargetOf, FLOW, Transition
<1> HIDE DEF new
<1>3. Handled(r, "submit", row, new)
  BY <1>1, <1>2 DEF Handled, DraftedRow, ReportRow, InForce, SoundRow, SealMove, SealState
<1> QED
  BY <1>3 DEF new

LEMMA ReturnHandles ==
  ASSUME NEW r \in Report, NEW row, DraftedRow(row), NEW reasoned \in BOOLEAN,
         Permits(FLOW, "return", row.status, reasoned)
  PROVE  Handled(r, "return", row, Assign(row, Moved(row, "return")))
<1> DEFINE new == Assign(row, Moved(row, "return"))
<1>1. new = [status |-> TargetOf(FLOW, "return"), author |-> row.author,
             submitter |-> row.submitter, approver |-> row.approver, data |-> row.data,
             version |-> row.version, commentary |-> row.commentary, hash |-> row.hash]
  BY AssignedRow DEF DraftedRow, Moved
<1>2. row.status = "in_review" /\ TargetOf(FLOW, "return") = "draft"
  BY DEF Permits, TargetOf, FLOW, ReasonedTransition
<1> HIDE DEF new
<1>3. Handled(r, "return", row, new)
  BY <1>1, <1>2 DEF Handled, DraftedRow, ReportRow, InForce, SoundRow, SealMove, SealState
<1> QED
  BY <1>3 DEF new

LEMMA ApproveHandles ==
  ASSUME ReportsAssumption, NEW r \in Report, NEW row, DraftedRow(row), NEW u \in User,
         Permits(FLOW, "approve", row.status, FALSE), NotTheAuthor(u, row), ScoreIsApproved(r, row)
  PROVE  Handled(r, "approve", row, Sealed(row, u))
<1> DEFINE new == Sealed(row, u)
<1>1. new = [status |-> TargetOf(FLOW, "approve"), author |-> row.author,
             submitter |-> row.submitter, approver |-> u, data |-> row.data,
             version |-> row.version, commentary |-> row.commentary, hash |-> ContentHash(row)]
  BY AssignedRow DEF DraftedRow, Sealed
<1>2. row.status = "in_review" /\ TargetOf(FLOW, "approve") = "approved"
  BY DEF Permits, TargetOf, FLOW, Transition
<1>3. ContentHash(row) \in Content
  BY DEF DraftedRow, ReportRow, ContentHash, Content
<1>4. u # Nobody /\ u \notin {row.author, row.submitter}
  BY DEF ReportsAssumption, NotTheAuthor
<1> HIDE DEF new
<1>5. DraftedRow(new) /\ ContentHash(new) = ContentHash(row)
  BY <1>1, <1>2, <1>3 DEF DraftedRow, ReportRow, ContentHash
<1>6. Handled(r, "approve", row, new)
  BY <1>1, <1>2, <1>4, <1>5
     DEF Handled, InForce, SoundRow, SealMove, SealState, ScoreIsApproved
<1> QED
  BY <1>6 DEF new

LEMMA PublishOrWithdrawHandles ==
  ASSUME NEW r \in Report, NEW row, DraftedRow(row), NEW name \in {"publish", "withdraw"},
         NEW reasoned \in BOOLEAN, Permits(FLOW, name, row.status, reasoned)
  PROVE  Handled(r, name, row, Assign(row, Moved(row, name)))
<1> DEFINE new == Assign(row, Moved(row, name))
<1>1. new = [status |-> TargetOf(FLOW, name), author |-> row.author,
             submitter |-> row.submitter, approver |-> row.approver, data |-> row.data,
             version |-> row.version, commentary |-> row.commentary, hash |-> row.hash]
  BY AssignedRow DEF DraftedRow, Moved
<1>2. /\ row.status \in {"approved", "published"}
      /\ TargetOf(FLOW, name) \in {"published", "withdrawn"}
  BY DEF Permits, TargetOf, FLOW, Transition, ReasonedTransition
<1> HIDE DEF new
<1>3. DraftedRow(new) /\ ContentHash(new) = ContentHash(row)
  BY <1>1, <1>2 DEF DraftedRow, ReportRow, ContentHash
<1>4. Handled(r, name, row, new)
  BY <1>1, <1>2, <1>3 DEF Handled, InForce, SoundRow, SealMove, SealState
<1> QED
  BY <1>4 DEF new
-----------------------------------------------------------------------------
(* The steps.                                                              *)

(* Reports stay once they are drafted, and so does an approver's name.     *)
RowsStay(table, table2) ==
  \A r \in Report :
    /\ table[r].status # "absent" => table2[r].status # "absent"
    /\ table[r].approver # Nobody => table2[r].approver # Nobody

LEMMA UnderwayStays ==
  ASSUME NEW q, NEW table, NEW table2, Underway(q, table), RowsStay(table, table2)
  PROVE  Underway(q, table2)
BY DEF Underway, RowsStay

LEMMA InitHolds == ASSUME ReportsAssumption, Init PROVE ReportsInvariant
<1>1. \A r \in Report : reports[r] = NoReport /\ outputs[r] = {}
  BY DEF Init
<1>2. \A w \in Worker : req[w].step \in {"idle", "off"}
  BY DEF Init, RequestsInit, Idle, Off
<1>3. InFlightIsTrue
  BY <1>2 DEF InFlightIsTrue, Init, RequestsInit
<1>4. RowsAreWhole
  BY <1>1 DEF RowsAreWhole, Init, NoReport, ApprovedRow, InForce
<1>5. OutputsAreStored
  BY <1>1 DEF OutputsAreStored, NoReport
<1>6. SerialIsTrue
  BY <1>1, <1>2 DEF SerialIsTrue, SoundRow, NoReport
<1> QED
  BY <1>3, <1>4, <1>5, <1>6 DEF ReportsInvariant

LEMMA DataChangesKeeps == ASSUME ReportsInvariant, DataChanges PROVE ReportsInvariant'
BY DEF DataChanges, ReportsInvariant, InFlightIsTrue, RowsAreWhole, OutputsAreStored, SerialIsTrue, Serial

LEMMA CreateDrafts ==
  ASSUME ReportsAssumption, ReportsInvariant, NEW u \in User, NEW r \in Report, Create(u, r)
  PROVE  LET new == reports'[r]
         IN /\ DraftedRow(new) /\ ApprovedRow(new) /\ SoundRow(r, new)
            /\ new.status = "draft" /\ new.approver = Nobody
            /\ \A q \in Report : q # r => reports'[q] = reports[q]
<1> DEFINE new == reports'[r]
<1>1. Assign(NoReport, [status |-> "draft", author |-> u])
        = [status |-> "draft", author |-> u, submitter |-> Nobody, approver |-> Nobody,
           data |-> Nothing, version |-> 0, commentary |-> Nothing, hash |-> Nothing]
  BY NoReportIsRow, AssignedRow DEF NoReport
<1>2. Assign(NoReport, [status |-> "draft", author |-> u]) \in ReportRow
  BY <1>1 DEF ReportRow, ReportsAssumption
<1>3. new = [status |-> "draft", author |-> u, submitter |-> Nobody, approver |-> Nobody,
             data |-> live, version |-> 1, commentary |-> Nothing, hash |-> Nothing]
  BY <1>1, <1>2, AssignedRow DEF Create, Frozen, ReportsInvariant, RowsAreWhole
<1>4. \A q \in Report : q # r => reports'[q] = reports[q]
  BY DEF Create, ReportsInvariant, RowsAreWhole
<1>5. DraftedRow(new) /\ ApprovedRow(new) /\ SoundRow(r, new)
  BY <1>3 DEF DraftedRow, ReportRow, ApprovedRow, InForce, SoundRow, ReportsAssumption,
              ReportsInvariant, RowsAreWhole
<1> QED
  BY <1>3, <1>4, <1>5

LEMMA CreateKeeps ==
  ASSUME ReportsAssumption, ReportsInvariant, NEW u \in User, NEW r \in Report, Create(u, r)
  PROVE  ReportsInvariant'
<1> DEFINE new == reports'[r]
<1>1. \A q \in Report : q # r => reports'[q] = reports[q]
  BY CreateDrafts
<1>2. DraftedRow(new) /\ ApprovedRow(new) /\ new.approver = Nobody /\ SoundRow(r, new)
  BY CreateDrafts
<1>3. RowsStay(reports, reports')
  BY <1>1, <1>2 DEF RowsStay, Create, Exists, ReportsInvariant, RowsAreWhole, DraftedRow, NoReport
<1>4. InFlightIsTrue'
  BY <1>3, UnderwayStays DEF Create, ReportsInvariant, InFlightIsTrue
<1>5. RowsAreWhole'
  BY <1>1, <1>2 DEF Create, ReportsInvariant, RowsAreWhole
<1>6. OutputsAreStored'
  BY <1>1, <1>2 DEF Create, ReportsInvariant, OutputsAreStored
<1>7. SerialIsTrue'
  <2>1. \A w \in Worker : req[w].step = "loaded" => req[w].on \in Report \ {r}
    BY DEF Create, Exists, ReportsInvariant, InFlightIsTrue, Underway
  <2>2. Serial' <=> Serial
    BY DEF Create, Serial
  <2> QED
    BY <1>1, <1>2, <2>1, <2>2 DEF Create, ReportsInvariant, SerialIsTrue
<1> QED
  BY <1>4, <1>5, <1>6, <1>7 DEF ReportsInvariant

(* A handler that loads a report and changes its copy as it may.           *)
LEMMA LoadKeeps ==
  ASSUME ReportsInvariant, NEW w \in Worker, NEW u \in User, NEW r \in Report, NEW op, NEW new,
         Load(w, u, r, op, new), Handled(r, op, reports[r], new)
  PROVE  ReportsInvariant'
<1> DEFINE q == [step |-> "loaded", op |-> op, on |-> r, loaded |-> reports[r], new |-> new]
<1>1. /\ req[w].step = "idle" /\ req' = [req EXCEPT ![w] = q]
      /\ UNCHANGED <<live, reports, outputs>> /\ Exists(r)
  BY DEF Load, Begin
<1>2. \A v \in Worker : req'[v] = IF v = w THEN q ELSE req[v]
  BY <1>1 DEF ReportsInvariant, InFlightIsTrue
<1>3. Underway(q, reports)
  BY <1>1 DEF Underway, Exists, ReportsInvariant, RowsAreWhole, NoReport
<1>4. InFlightIsTrue'
  BY <1>1, <1>2, <1>3 DEF ReportsInvariant, InFlightIsTrue
<1>5. Serial' <=> Serial
  BY <1>1, SerialStays DEF ReportsInvariant, InFlightIsTrue
<1>6. SerialIsTrue'
  BY <1>1, <1>2, <1>5 DEF ReportsInvariant, SerialIsTrue
<1> QED
  BY <1>1, <1>4, <1>6 DEF ReportsInvariant, RowsAreWhole, OutputsAreStored

LEMMA LoadsKeep ==
  ASSUME ReportsAssumption, ReportsInvariant, NEW w \in Worker, NEW u \in User, NEW r \in Report,
         \/ Freeze(w, u, r)
         \/ \E text \in Text : SetCommentary(w, u, r, text)
         \/ Submit(w, u, r)
         \/ \E reasoned \in BOOLEAN : Return(w, u, r, reasoned)
         \/ Approve(w, u, r)
         \/ \E name \in {"publish", "withdraw"}, reasoned \in BOOLEAN :
              PublishOrWithdraw(w, u, r, name, reasoned)
  PROVE  ReportsInvariant'
<1>0. /\ RowsAreWhole
      /\ Exists(r) => DraftedRow(reports[r])
  BY DEF ReportsInvariant, RowsAreWhole, Exists, NoReport
<1>1. CASE Freeze(w, u, r)
  BY <1>0, <1>1, FreezeHandles, LoadKeeps DEF Freeze, Load
<1>2. ASSUME NEW text \in Text, SetCommentary(w, u, r, text) PROVE ReportsInvariant'
  BY <1>0, <1>2, CommentaryHandles, LoadKeeps DEF SetCommentary, Load
<1>3. CASE Submit(w, u, r)
  BY <1>0, <1>3, SubmitHandles, LoadKeeps DEF Submit, Load
<1>4. ASSUME NEW reasoned \in BOOLEAN, Return(w, u, r, reasoned) PROVE ReportsInvariant'
  BY <1>0, <1>4, ReturnHandles, LoadKeeps DEF Return, Load
<1>5. CASE Approve(w, u, r)
  BY <1>0, <1>5, ApproveHandles, LoadKeeps DEF Approve, Load
<1>6. ASSUME NEW name \in {"publish", "withdraw"}, NEW reasoned \in BOOLEAN,
             PublishOrWithdraw(w, u, r, name, reasoned)
      PROVE  ReportsInvariant'
  BY <1>0, <1>6, PublishOrWithdrawHandles, LoadKeeps DEF PublishOrWithdraw, Load
<1> QED
  BY <1>1, <1>2, <1>3, <1>4, <1>5, <1>6

(* What a commit leaves of its report, whatever it finds there.            *)
LEMMA CommitLeaves ==
  ASSUME ReportsAssumption, ReportsInvariant, NEW w \in Worker, Commit(w)
  PROVE  LET q == req[w]
             row == reports[q.on]
             new == reports'[q.on]
         IN /\ Underway(q, reports)
            /\ DraftedRow(row) /\ DraftedRow(new)
            /\ new = Flush(q.loaded, q.new, row)
            /\ \A r \in Report : r # q.on => reports'[r] = reports[r]
            /\ RowsStay(reports, reports')
            /\ ApprovedRow(new)
<1> DEFINE q == req[w]
           row == reports[q.on]
           new == reports'[q.on]
<1>1. Underway(q, reports)
  BY DEF Commit, ReportsInvariant, InFlightIsTrue
<1>2. DraftedRow(row) /\ ApprovedRow(row)
  BY <1>1 DEF Underway, ReportsInvariant, RowsAreWhole, NoReport
<1>3. /\ new = Flush(q.loaded, q.new, row)
      /\ \A r \in Report : r # q.on => reports'[r] = reports[r]
  BY <1>1 DEF Commit, ReportsInvariant, RowsAreWhole, Underway
<1>4. /\ DraftedRow(q.loaded) /\ ApprovedRow(q.loaded)
      /\ DraftedRow(q.new) /\ q.new.author = q.loaded.author
      /\ q.loaded.approver # Nobody => row.approver # Nobody
      /\ IF q.op = "approve" THEN q.new.approver \in User
         ELSE /\ q.new.approver = q.loaded.approver
              /\ q.new.hash = q.loaded.hash
              /\ InForce(q.new) => InForce(q.loaded)
  BY <1>1 DEF Underway, Handled
<1> HIDE DEF q, row, new
<1>5. new = [status |-> IF q.new.status = q.loaded.status THEN row.status ELSE q.new.status,
            author |-> row.author,
            submitter |-> IF q.new.submitter = q.loaded.submitter THEN row.submitter ELSE q.new.submitter,
            approver |-> IF q.new.approver = q.loaded.approver THEN row.approver ELSE q.new.approver,
            data |-> IF q.new.data = q.loaded.data THEN row.data ELSE q.new.data,
            version |-> IF q.new.version = q.loaded.version THEN row.version ELSE q.new.version,
            commentary |-> IF q.new.commentary = q.loaded.commentary THEN row.commentary ELSE q.new.commentary,
            hash |-> IF q.new.hash = q.loaded.hash THEN row.hash ELSE q.new.hash]
  BY <1>2, <1>3, <1>4, FlushedRow DEF DraftedRow
<1>6. DraftedRow(new)
  BY <1>2, <1>4, <1>5 DEF DraftedRow, ReportRow
<1>7. row.approver # Nobody => new.approver # Nobody
  BY <1>4, <1>5 DEF ReportsAssumption
<1>8. ApprovedRow(new)
  BY <1>2, <1>4, <1>5 DEF ApprovedRow, InForce, ReportsAssumption
<1>9. RowsStay(reports, reports')
  BY <1>1, <1>3, <1>6, <1>7 DEF RowsStay, DraftedRow, row, new, q
<1> QED
  BY <1>1, <1>2, <1>3, <1>6, <1>8, <1>9 DEF q, row, new

(* The outputs stored with an approval, or left by another commit, include *)
(* the one for the fingerprint the row is left with.                       *)
LEMMA CommitStores ==
  ASSUME ReportsAssumption, ReportsInvariant, NEW w \in Worker, Commit(w)
  PROVE  OutputsAreStored'
<1> DEFINE q == req[w]
           a == q.on
           row == reports[a]
           new == reports'[a]
           h == q.new.hash
<1>1. /\ Underway(q, reports)
      /\ DraftedRow(row) /\ DraftedRow(new)
      /\ new = Flush(q.loaded, q.new, row)
      /\ \A r \in Report : r # a => reports'[r] = reports[r]
  BY CommitLeaves
<1>2. /\ a \in Report
      /\ DraftedRow(q.loaded) /\ ApprovedRow(q.loaded) /\ DraftedRow(q.new)
      /\ q.loaded.approver # Nobody => row.approver # Nobody
      /\ ApprovedRow(row)
  BY <1>1 DEF Underway, Handled, ReportsInvariant, RowsAreWhole
<1>3. \A r \in Report : r # a => outputs'[r] = outputs[r]
  BY DEF Commit, ReportsInvariant, RowsAreWhole
<1> HIDE DEF q, a, row, new
<1>4. /\ new.hash = (IF h = q.loaded.hash THEN row.hash ELSE h)
      /\ new.approver = (IF q.new.approver = q.loaded.approver THEN row.approver ELSE q.new.approver)
  <2> DEFINE flushed == Flush(q.loaded, q.new, row)
  <2>1. /\ flushed.hash = (IF h = q.loaded.hash THEN row.hash ELSE h)
        /\ flushed.approver = (IF q.new.approver = q.loaded.approver THEN row.approver ELSE q.new.approver)
    BY <1>1, <1>2 DEF Flush, DraftedRow, ReportRow
  <2> QED
    BY <1>1, <2>1
<1>5. CASE q.op = "approve"
  <2>1. h = ContentHash(q.new) /\ h \in Content
    <3>1. h = ContentHash(q.new)
      BY <1>1, <1>5 DEF Underway, Handled
    <3>2. ContentHash(q.new) \in Content
      BY <1>2 DEF DraftedRow, ReportRow, ContentHash, Content
    <3> QED
      BY <3>1, <3>2
  <2>2. outputs'[a] = Stored(a, q.new)
    BY <1>2, <1>5 DEF Commit, q, a, ReportsInvariant, RowsAreWhole
  <2>3. /\ outputs[a] \subseteq outputs'[a]
        /\ \A o \in outputs'[a] : o \in outputs[a] \/ o = [hash |-> h, shows |-> h]
        /\ \E o \in outputs'[a] : o.hash = h
    <3> DEFINE made == [hash |-> h, shows |-> h]
               fresh == {o \in {made} : \A p \in outputs[a] : p.hash # h}
    <3>1. outputs'[a] = outputs[a] \cup fresh
      BY <2>1, <2>2 DEF Stored
    <3>2. \A o \in fresh : o = made
      OBVIOUS
    <3>3. (\A p \in outputs[a] : p.hash # h) => made \in fresh
      OBVIOUS
    <3>4. made.hash = h
      OBVIOUS
    <3> HIDE DEF made, fresh
    <3>5. \E o \in outputs'[a] : o.hash = h
      BY <3>1, <3>3, <3>4
    <3> QED
      BY <3>1, <3>2, <3>5 DEF made
  <2>4. \A o \in outputs'[a] : \E c \in Content : o = [hash |-> c, shows |-> c]
    BY <1>2, <2>1, <2>3 DEF ReportsInvariant, OutputsAreStored
  <2>5. \E o \in outputs'[a] : o.hash = new.hash
    <3>1. CASE new.hash = h
      BY <2>3, <3>1
    <3>2. CASE row.approver # Nobody /\ new.hash = row.hash
      BY <1>2, <2>3, <3>2 DEF ReportsInvariant, OutputsAreStored, row
    <3> QED
      BY <1>2, <1>4, <3>1, <3>2 DEF ApprovedRow
  <2> QED
    BY <1>1, <1>3, <2>4, <2>5 DEF ReportsInvariant, OutputsAreStored, new
<1>6. CASE q.op # "approve"
  <2>1. outputs' = outputs
    BY <1>6 DEF Commit, q
  <2>2. new.hash = row.hash /\ new.approver = row.approver
    BY <1>1, <1>4, <1>6 DEF Underway, Handled
  <2> QED
    BY <1>1, <2>1, <2>2 DEF ReportsInvariant, OutputsAreStored, new, row
<1> QED
  BY <1>5, <1>6

(* While requests are serial, a commit finds the row it loaded and leaves  *)
(* what its handler made of it; nobody else's request is in flight.        *)
LEMMA SerialCommit ==
  ASSUME ReportsAssumption, RequestsAssumption, ReportsInvariant, NEW w \in Worker, Commit(w), Serial
  PROVE  /\ reports[req[w].on] = req[w].loaded
         /\ reports'[req[w].on] = req[w].new
         /\ \A v \in Worker : req'[v].step # "loaded"
<1>1. reports[req[w].on] = req[w].loaded
  BY DEF Commit, ReportsInvariant, SerialIsTrue
<1>2. reports'[req[w].on] = req[w].new
  BY <1>1, CommitLeaves, FlushedAlone DEF Underway, Handled, DraftedRow
<1>3. \A v \in Worker : v # w => req[v].step = "off"
  BY SerialWorker DEF Commit
<1> QED
  BY <1>1, <1>2, <1>3 DEF Commit, Finish, Idle, ReportsInvariant, InFlightIsTrue

LEMMA FinishKeepsRequests ==
  ASSUME InFlightIsTrue, NEW w \in Worker, req[w].step = "loaded", Finish(w),
         RowsStay(reports, reports')
  PROVE  InFlightIsTrue' /\ (Serial' <=> Serial)
<1>1. \A v \in Worker : req'[v] = IF v = w THEN Idle ELSE req[v]
  BY DEF Finish, InFlightIsTrue
<1>2. InFlightIsTrue'
  BY <1>1, UnderwayStays DEF InFlightIsTrue, Finish, Idle
<1>3. Serial' <=> Serial
  BY SerialStays DEF Finish, Idle, InFlightIsTrue
<1> QED
  BY <1>2, <1>3

LEMMA CommitKeeps ==
  ASSUME ReportsAssumption, RequestsAssumption, ReportsInvariant, NEW w \in Worker, Commit(w)
  PROVE  ReportsInvariant'
<1>1. /\ InFlightIsTrue'
      /\ Serial' <=> Serial
  BY CommitLeaves, FinishKeepsRequests DEF Commit, ReportsInvariant
<1>2. RowsAreWhole'
  BY CommitLeaves DEF Commit, ReportsInvariant, RowsAreWhole, Underway
<1>3. SerialIsTrue'
  <2> SUFFICES ASSUME Serial PROVE SerialIsTrue'
    BY <1>1 DEF SerialIsTrue
  <2>1. SoundRow(req[w].on, req[w].new)
    BY SerialCommit, CommitLeaves DEF Underway, Handled, ReportsInvariant, SerialIsTrue
  <2> QED
    BY <2>1, SerialCommit, CommitLeaves DEF ReportsInvariant, SerialIsTrue
<1> QED
  BY <1>1, <1>2, <1>3, CommitStores DEF ReportsInvariant

LEMMA AbortKeeps ==
  ASSUME ReportsInvariant, NEW w \in Worker, Abort(w)
  PROVE  ReportsInvariant'
<1>1. req[w].step = "loaded"
  BY DEF Abort, InFlight, ReportsInvariant, InFlightIsTrue
<1>2. InFlightIsTrue' /\ (Serial' <=> Serial)
  BY <1>1, FinishKeepsRequests DEF Abort, ReportsInvariant, RowsStay
<1>3. \A v \in Worker : req'[v] = Idle \/ req'[v] = req[v]
  BY DEF Abort, Finish, ReportsInvariant, InFlightIsTrue
<1>4. SerialIsTrue'
  BY <1>2, <1>3 DEF Abort, ReportsInvariant, SerialIsTrue, Idle
<1> QED
  BY <1>2, <1>4 DEF Abort, ReportsInvariant, RowsAreWhole, OutputsAreStored

LEMMA NextKeeps ==
  ASSUME ReportsAssumption, RequestsAssumption, ReportsInvariant, [Next]_vars
  PROVE  ReportsInvariant'
<1>1. CASE UNCHANGED vars
  BY <1>1 DEF vars, ReportsInvariant, InFlightIsTrue, RowsAreWhole, OutputsAreStored, SerialIsTrue, Serial
<1>2. CASE Next
  BY <1>2, DataChangesKeeps, CreateKeeps, LoadsKeep, CommitKeeps, AbortKeeps DEF Next
<1> QED
  BY <1>1, <1>2
-----------------------------------------------------------------------------
(* However many requests race, the inductive invariant holds.              *)
THEOREM ReportsInvariantHolds == Spec => []ReportsInvariant
<1>1. Init => ReportsInvariant
  BY InitHolds, ReportsAssumption
<1>2. ReportsInvariant /\ [Next]_vars => ReportsInvariant'
  BY NextKeeps, ReportsAssumption, RequestsAssumption
<1> QED
  BY <1>1, <1>2, PTL DEF Spec

(* Rows and stored outputs have the types of their columns.                *)
THEOREM ReportsTypeCorrect == Spec => []TypeOK
<1>1. ReportsInvariant => TypeOK
  BY NoReportIsRow, ReportsAssumption
     DEF ReportsInvariant, InFlightIsTrue, RowsAreWhole, OutputsAreStored, DraftedRow, TypeOK, Exists, NoReport
<1> QED
  BY <1>1, ReportsInvariantHolds, PTL

(* A report in force can be served, whatever requests raced for it: the    *)
(* output for its fingerprint is stored, once, and shows what was          *)
(* fingerprinted (transition, output).                                     *)
THEOREM ReportsInForceAreServable == Spec => []InForceIsServable
<1>1. ReportsInvariant => InForceIsServable
  BY DEF ReportsInvariant, RowsAreWhole, ApprovedRow, OutputsAreStored, InForceIsServable
<1> QED
  BY <1>1, ReportsInvariantHolds, PTL

(* Of serial requests: what is in force was approved by neither its author *)
(* nor its submitter, over an approved score where one is needed, and has  *)
(* the content that was approved (transition).                             *)
THEOREM ApprovalsAreSound == Spec => []ApprovalIsSound
<1>1. ReportsInvariant => ApprovalIsSound
  BY DEF ReportsInvariant, SerialIsTrue, SoundRow, ApprovalIsSound
<1> QED
  BY <1>1, ReportsInvariantHolds, PTL
-----------------------------------------------------------------------------
(* The refinement.                                                         *)

(* What one report does in a step of a sealed record.                      *)
Seals(r, row, new) ==
  \/ row = new
  \/ SealState(row) = "none" /\ SealState(new) = "open"
  \/ SealMove(row, new) /\ new.author = row.author

LEMMA SealsRefines ==
  ASSUME Serial' <=> Serial,
         \A r \in Report : ~Serial \/ Seals(r, reports[r], reports'[r])
  PROVE  Governed!Next
<1> SUFFICES ASSUME NEW r \in Report
             PROVE  \/ Governed!Absent(r) \/ Governed!Draft(r) \/ Governed!Edit(r)
                    \/ Governed!Seal(r) \/ Governed!Retire(r) \/ Governed!Rest(r)
  BY DEF Governed!Next
<1>1. CASE ~Serial
  BY <1>1 DEF Governed!Absent
<1>2. CASE Serial
  <2>1. CASE reports[r] = reports'[r]
    BY <1>2, <2>1 DEF Governed!Rest
  <2>2. CASE SealState(reports[r]) = "none" /\ SealState(reports'[r]) = "open"
    BY <1>2, <2>2 DEF Governed!Draft
  <2>3. CASE SealMove(reports[r], reports'[r]) /\ reports'[r].author = reports[r].author
    BY <1>2, <2>3
       DEF SealMove, Governed!Edit, Governed!Seal, Governed!Retire, Governed!Rest
  <2> QED
    BY <1>2, <2>1, <2>2, <2>3 DEF Seals
<1> QED
  BY <1>1, <1>2

(* A handler's move, committed, is a move of the sealed record.            *)
LEMMA CommitSeals ==
  ASSUME ReportsAssumption, RequestsAssumption, ReportsInvariant, NEW w \in Worker, Commit(w), Serial
  PROVE  \A r \in Report : Seals(r, reports[r], reports'[r])
<1>1. SealMove(reports[req[w].on], reports'[req[w].on])
  BY SerialCommit, CommitLeaves DEF Underway, Handled
<1>2. reports'[req[w].on].author = reports[req[w].on].author
  BY SerialCommit, CommitLeaves DEF Underway, Handled
<1> QED
  BY <1>1, <1>2, CommitLeaves DEF Seals

LEMMA NextSeals ==
  ASSUME ReportsAssumption, RequestsAssumption, ReportsInvariant, Next
  PROVE  /\ Serial' <=> Serial
         /\ \A r \in Report : ~Serial \/ Seals(r, reports[r], reports'[r])
<1>1. CASE DataChanges
  BY <1>1 DEF DataChanges, Serial, Seals
<1>2. ASSUME NEW u \in User, NEW a \in Report, Create(u, a)
      PROVE  /\ Serial' <=> Serial
             /\ \A r \in Report : Seals(r, reports[r], reports'[r])
  <2>1. SealState(reports[a]) = "none"
    BY <1>2 DEF Create, Exists, SealState, InForce
  <2>2. SealState(reports'[a]) = "open"
    BY <1>2, CreateDrafts DEF SealState, InForce
  <2>3. \A r \in Report : r # a => reports'[r] = reports[r]
    BY <1>2 DEF Create, ReportsInvariant, RowsAreWhole
  <2> QED
    BY <1>2, <2>1, <2>2, <2>3 DEF Create, Serial, Seals
<1>3. ASSUME NEW w \in Worker, NEW u \in User, NEW a \in Report, NEW op, NEW new,
             Load(w, u, a, op, new)
      PROVE  /\ Serial' <=> Serial
             /\ \A r \in Report : Seals(r, reports[r], reports'[r])
  <2>1. Serial' <=> Serial
    BY <1>3, SerialStays DEF Load, Begin, ReportsInvariant, InFlightIsTrue
  <2> QED
    BY <1>3, <2>1 DEF Load, Seals
<1>4. ASSUME NEW w \in Worker, Commit(w)
      PROVE  /\ Serial' <=> Serial
             /\ \A r \in Report : ~Serial \/ Seals(r, reports[r], reports'[r])
  <2>1. Serial' <=> Serial
    BY <1>4, SerialStays DEF Commit, Finish, Idle, ReportsInvariant, InFlightIsTrue
  <2> QED
    BY <1>4, <2>1, CommitSeals
<1>5. ASSUME NEW w \in Worker, Abort(w)
      PROVE  /\ Serial' <=> Serial
             /\ \A r \in Report : Seals(r, reports[r], reports'[r])
  <2>1. Serial' <=> Serial
    BY <1>5, SerialStays DEF Abort, InFlight, Finish, Idle, ReportsInvariant, InFlightIsTrue
  <2> QED
    BY <1>5, <2>1 DEF Abort, Seals
<1>6. ASSUME NEW w \in Worker, NEW u \in User, NEW a \in Report,
             \/ Freeze(w, u, a)
             \/ \E text \in Text : SetCommentary(w, u, a, text)
             \/ Submit(w, u, a)
             \/ \E reasoned \in BOOLEAN : Return(w, u, a, reasoned)
             \/ Approve(w, u, a)
             \/ \E name \in {"publish", "withdraw"}, reasoned \in BOOLEAN :
                  PublishOrWithdraw(w, u, a, name, reasoned)
      PROVE  /\ Serial' <=> Serial
             /\ \A r \in Report : Seals(r, reports[r], reports'[r])
  BY <1>3, <1>6 DEF Freeze, SetCommentary, Submit, Return, Approve, PublishOrWithdraw
<1> QED
  BY <1>1, <1>2, <1>4, <1>5, <1>6 DEF Next

(* Of serial requests, reports implement sealed records: the content may   *)
(* change until somebody else approves it, and never again.                *)
THEOREM ReportsAreSealedRecords == Spec => ImplementsSealing
<1>1. Init => Governed!Init
  BY DEF Init, Governed!Init, NoReport, SealState, InForce
<1>2. ReportsInvariant /\ [Next]_vars => [Governed!Next]_(Governed!vars)
  <2>1. CASE UNCHANGED vars
    BY <2>1 DEF vars, Governed!vars, Serial
  <2>2. ASSUME ReportsInvariant, Next PROVE Governed!Next
    BY <2>2, NextSeals, SealsRefines, ReportsAssumption, RequestsAssumption
  <2> QED
    BY <2>1, <2>2
<1> QED
  BY <1>1, <1>2, ReportsInvariantHolds, PTL DEF Spec, ImplementsSealing, Governed!Spec
=============================================================================
