------------------------------- MODULE Returns -------------------------------
(***************************************************************************)
(* The monthly returns: the table the dashboards read, one row of figures  *)
(* per scheme and month.  Administrators upload a workbook in two steps -  *)
(* a preview that is kept on disk under a token, and its commit - or edit  *)
(* single rows (app/routers/upload.py, app/routers/records.py).            *)
(*                                                                         *)
(* The figures of a row are told apart by where they came from: the token  *)
(* of the preview, or the hand of an administrator.  A commit runs on a    *)
(* connection of its own: what it reads before its first write is not      *)
(* locked, from that write on no other request writes (SQLite).            *)
(***************************************************************************)
EXTENDS Accounts, SequencesExt

CONSTANTS
  SchemeMonth,     \* a scheme and a month
  Token,           \* preview tokens; each is issued once
  NoFigures,       \* no row
  ByHand           \* figures entered by an administrator

ASSUME ReturnsAssumption ==
  IsFiniteSet(SchemeMonth) /\ {NoFigures, ByHand} \cap Token = {} /\ NoFigures # ByHand

VARIABLES
  records,         \* rows of records, by key
  previews,        \* the preview files: what each has for a key, if it exists
  uploads,         \* rows of upload_log
  issued,          \* the tokens there have been
  byHand,          \* history: rows created, imported at start-up and deleted, as a number
  unlogged         \* history: rows that uploads inserted without leaving an entry, as a number

Modes == {"replace", "skip"}
NoPreview == [k \in SchemeMonth |-> "absent"]

ReturnsInit ==
  /\ records = [k \in SchemeMonth |-> NoFigures]
  /\ previews = [t \in Token |-> NoPreview]
  /\ uploads = <<>>
  /\ issued = {}
  /\ byHand = 0
  /\ unlogged = 0

Recorded == {k \in SchemeMonth : records[k] # NoFigures}

(* A preview that may be committed: its file is there.                     *)
Previewed == {t \in issued : previews[t] # NoPreview}
Importable(preview) == {k \in SchemeMonth : preview[k] = "ok"}

(* _delete_preview.                                                        *)
Deleted_Never(t) == previews
Deleted(t) == [previews EXCEPT ![t] = NoPreview]

others == <<accounts, issued, byHand, unlogged>>
-----------------------------------------------------------------------------
(* preview: the workbook is parsed and kept; rows in error are marked.     *)
Preview(a, t, rows) ==
  /\ Free
  /\ Admin(a)
  /\ t \notin issued
  /\ rows # NoPreview
  /\ issued' = issued \cup {t}
  /\ previews' = [previews EXCEPT ![t] = rows]
  /\ UNCHANGED <<accounts, records, uploads, byHand, unlogged, req>>

(* _load_preview finds the file too old and removes it.                    *)
Expire(t) ==
  /\ Free
  /\ t \in Previewed
  /\ previews' = Deleted(t)
  /\ UNCHANGED <<others, records, uploads, req>>

(* commit, up to the first row: whether it exists is looked up before the  *)
(* connection holds the lock.                                              *)
StartCommit(w, a, t, modes) ==
  /\ Admin(a)
  /\ t \in Previewed
  /\ \E first \in Importable(previews[t]) :
       Begin(w, [step |-> "upload", token |-> t, rows |-> Importable(previews[t]), modes |-> modes,
                 first |-> first, found |-> first \in Recorded])
  /\ UNCHANGED <<others, records, previews, uploads>>

(* What becomes of a row: skipped or replaced if it was found; inserted if *)
(* not, unless the unique key refuses it after all.                        *)
Insert_Anyway(k) == "inserted"
Insert(k) == IF k \in Recorded THEN "errored" ELSE "inserted"

Fate(q, k) ==
  IF (IF k = q.first THEN q.found ELSE k \in Recorded)
  THEN (IF q.modes[k] = "skip" THEN "skipped" ELSE "replaced") ELSE Insert(k)

Count(q, fate) == Cardinality({k \in q.rows : Fate(q, k) = fate})

(* The rows of a preview, written.                                         *)
RowsWritten(q) ==
  [k \in SchemeMonth |-> IF k \in q.rows /\ Fate(q, k) \in {"inserted", "replaced"} THEN q.token ELSE records[k]]

(* _execute_commit, the commit, and the removal of the preview.            *)
ExecuteCommit(w) ==
  LET q == req[w]
  IN /\ q.step = "upload"
     /\ records' = RowsWritten(q)
     /\ previews' = Deleted(q.token)
     /\ req' = [req EXCEPT ![w] = [step |-> "log", token |-> q.token, rows |-> Cardinality(q.rows),
                  inserted |-> Count(q, "inserted"), replaced |-> Count(q, "replaced"),
                  skipped |-> Count(q, "skipped"), errored |-> Count(q, "errored")]]
     /\ UNCHANGED <<others, uploads>>

(* The rows are committed, and the preview cannot be removed, or the       *)
(* process ends: there is no entry, and the preview may be committed again.*)
BreakOff(w) ==
  LET q == req[w]
  IN /\ q.step = "upload"
     /\ records' = RowsWritten(q)
     /\ unlogged' = unlogged + Count(q, "inserted")
     /\ Finish(w)
     /\ UNCHANGED <<accounts, issued, byHand, previews, uploads>>

(* An error before the commit: the rows are rolled back.                   *)
RollBack(w) ==
  /\ req[w].step = "upload"
  /\ Finish(w)
  /\ UNCHANGED <<others, records, previews, uploads>>

(* A preview without a row to import: nothing is written but the log.      *)
EmptyCommit(w, a, t) ==
  /\ Admin(a)
  /\ t \in Previewed
  /\ Importable(previews[t]) = {}
  /\ Begin(w, [step |-> "log", token |-> t, rows |-> 0, inserted |-> 0, replaced |-> 0,
               skipped |-> 0, errored |-> 0])
  /\ previews' = Deleted(t)
  /\ UNCHANGED <<others, records, uploads>>

(* _write_upload_log, after the rows are committed.                        *)
WriteUploadLog(w) ==
  /\ req[w].step = "log"
  /\ uploads' = Append(uploads, req[w])
  /\ Finish(w)
  /\ UNCHANGED <<others, records, previews>>

(* It fails, which is passed over, or the process ends before it is        *)
(* reached: the rows stay without an entry.                                *)
LoseUploadLog(w) ==
  /\ req[w].step = "log"
  /\ unlogged' = unlogged + req[w].inserted
  /\ Finish(w)
  /\ UNCHANGED <<accounts, issued, byHand, records, previews, uploads>>
-----------------------------------------------------------------------------
(* _auto_import: at start-up, while there is no row, those of the workbook *)
(* that was found beside the program, all of them or none.                 *)
AutoImport(rows) ==
  /\ Free
  /\ Recorded = {}
  /\ records' = [k \in SchemeMonth |-> IF k \in rows THEN ByHand ELSE NoFigures]
  /\ byHand' = byHand + Cardinality(rows)
  /\ UNCHANGED <<accounts, issued, unlogged, previews, uploads, req>>

(* create_record: refused when there is one, by look-up or by unique key.  *)
CreateRecord(a, k) ==
  /\ Free
  /\ Admin(a)
  /\ k \notin Recorded
  /\ records' = [records EXCEPT ![k] = ByHand]
  /\ byHand' = byHand + 1
  /\ UNCHANGED <<accounts, issued, unlogged, previews, uploads, req>>

(* update_record: every column, those of the key too.                      *)
UpdateRecord(a, k, l) ==
  /\ Free
  /\ Admin(a)
  /\ k \in Recorded /\ l \notin Recorded \ {k}
  /\ records' = [records EXCEPT ![k] = NoFigures, ![l] = ByHand]
  /\ UNCHANGED <<others, previews, uploads, req>>

DeleteRecord(a, k) ==
  /\ Free
  /\ Admin(a)
  /\ k \in Recorded
  /\ records' = [records EXCEPT ![k] = NoFigures]
  /\ byHand' = byHand - 1
  /\ UNCHANGED <<accounts, issued, unlogged, previews, uploads, req>>

ReturnsNext ==
  \/ \E a \in User, t \in Token, rows \in [SchemeMonth -> {"ok", "error", "absent"}] : Preview(a, t, rows)
  \/ \E t \in Token : Expire(t)
  \/ \E rows \in SUBSET SchemeMonth : AutoImport(rows)
  \/ \E w \in Waiting, a \in User, t \in Token :
       EmptyCommit(w, a, t) \/ \E modes \in [SchemeMonth -> Modes] : StartCommit(w, a, t, modes)
  \/ \E w \in Worker : ExecuteCommit(w) \/ BreakOff(w) \/ RollBack(w) \/ WriteUploadLog(w) \/ LoseUploadLog(w)
  \/ \E a \in User, k \in SchemeMonth :
       CreateRecord(a, k) \/ DeleteRecord(a, k) \/ \E l \in SchemeMonth : UpdateRecord(a, k, l)

ReturnsTypeOK ==
  /\ records \in [SchemeMonth -> Token \cup {NoFigures, ByHand}]
  /\ previews \in [Token -> [SchemeMonth -> {"ok", "error", "absent"}]]
  /\ issued \subseteq Token
-----------------------------------------------------------------------------
(* The commits that are in the log, and those about to write it.           *)
Committed == {uploads[n] : n \in DOMAIN uploads} \cup {req[w] : w \in {v \in Worker : req[v].step = "log"}}

(* The upload history accounts for the table: an entry says of each row    *)
(* the commit took what became of it, the rows there are were inserted by  *)
(* the uploads of the history, by hand, or by an upload that was cut off   *)
(* between its rows and its entry, and no preview is in the history twice  *)
(* (upload.py:188, 216, 235).  Two commits of one preview, or a row        *)
(* deleted between its look-up and its replacement, break it: it needs     *)
(* serial requests.                                                        *)
HistoryAccountsForTheReturns ==
  /\ \A c \in Committed : c.rows = c.inserted + c.replaced + c.skipped + c.errored
  /\ Serial =>
       /\ Cardinality(Recorded) =
            byHand + unlogged + MapThenSumSet(LAMBDA c : c.inserted, Committed)
       /\ \A m, n \in DOMAIN uploads : uploads[m].token = uploads[n].token => m = n

(* A row that an upload was told to keep keeps its figures, also when it   *)
(* was entered after the upload had looked for it (upload.py:350, 357): an *)
(* insertion does not replace.                                             *)
KeptRowsKeepTheirFigures ==
  [][\A w \in Worker : req[w].step = "upload" /\ req'[w].step # "upload" =>
       \A k \in Recorded : req[w].modes[k] = "skip" => records'[k] = records[k]]_records
=============================================================================
