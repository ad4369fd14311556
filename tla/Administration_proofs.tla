------------------------ MODULE Administration_proofs ------------------------
(***************************************************************************)
(* What administrators keep: the accounts, the organisation tree and the   *)
(* access to it, what hangs on them - links, notices, the monthly returns  *)
(* and the budgets - and the sources that the integration hub              *)
(* synchronises.                                                           *)
(*                                                                         *)
(* A step of the administration is of one area, and leaves the requests    *)
(* and the tables of the others alone; each area has an inductive          *)
(* invariant of its own, which says of a request in flight what it has     *)
(* read that is still so: always, or while requests are served one at a    *)
(* time.                                                                   *)
(*                                                                         *)
(* Of a synchronisation, the watermark passes nothing over, for any number *)
(* of requests in flight, rows, values and changes.  That is not inductive *)
(* as it stands: a request in flight carries the watermark it will write,  *)
(* so it must be known of that one too that what it passes has been read,  *)
(* by a finished run or by this one; and that the source system has        *)
(* reached every such watermark, so that what changes later is stamped     *)
(* beyond it.  And requests that are served one after the other take       *)
(* turns: a source has one run at a time and a load finds every value that *)
(* is stored.                                                              *)
(***************************************************************************)
EXTENDS MCAdministration, Sync, Requests_proofs, SequenceTheorems

-----------------------------------------------------------------------------
(* What the areas leave to one another: the request of one is none of the  *)
(* others'.                                                                *)
Elsewhere(steps) ==
  \/ UNCHANGED req
  \/ \E w \in Worker : /\ req' = [req EXCEPT ![w] = req'[w]]
                       /\ {req[w].step, req'[w].step} \cap (steps \cup {"off"}) = {}

(* A worker goes on with the requests of an area.                          *)
TakesOver(w, steps) == TakesUp(w, steps) /\ req[w].step \in steps

LEMMA ElsewhereStays ==
  ASSUME DOMAIN req = Worker, NEW steps, Elsewhere(steps)
  PROVE  /\ DOMAIN req' = Worker /\ (Serial' <=> Serial)
         /\ \A v \in Worker : req'[v] = req[v] \/ req'[v].step \notin steps
<1>1. CASE UNCHANGED req
  BY <1>1 DEF Serial
<1>2. ASSUME NEW w \in Worker, req' = [req EXCEPT ![w] = req'[w]],
             {req[w].step, req'[w].step} \cap (steps \cup {"off"}) = {}
      PROVE  /\ DOMAIN req' = Worker /\ (Serial' <=> Serial)
             /\ \A v \in Worker : req'[v] = req[v] \/ req'[v].step \notin steps
  <2>1. Serial' <=> Serial
    BY <1>2, SerialStays
  <2>2. DOMAIN req' = Worker /\ \A v \in Worker : v # w => req'[v] = req[v]
    BY <1>2
  <2> QED
    BY <1>2, <2>1, <2>2
<1> QED
  BY <1>1, <1>2 DEF Elsewhere

(* The requests of each area.                                              *)
LEMMA AccountRequests ==
  ASSUME DOMAIN req = Worker, AccountsNext
  PROVE  UNCHANGED req \/ \E w \in Worker : TakesOver(w, {"idle", "account", "create", "delete"})
<1> DEFINE Takes(w) == TakesOver(w, {"idle", "account", "create", "delete"})
<1>1. ASSUME NEW w \in Worker, NEW u, NEW fields, LoadAccount(w, u, fields) PROVE Takes(w)
  BY <1>1 DEF LoadAccount, Begin, TakesOver, TakesUp
<1>2. ASSUME NEW w \in Worker, NEW a, NEW u, NEW role, CreateUser(w, a, u, role) PROVE Takes(w)
  BY <1>2 DEF CreateUser, Begin, TakesOver, TakesUp
<1>3. ASSUME NEW w \in Worker, NEW a, NEW u, DeleteUser(w, a, u) PROVE Takes(w)
  BY <1>3 DEF DeleteUser, Begin, TakesOver, TakesUp
<1>4. ASSUME NEW w \in Worker, CommitUser(w) \/ CommitAccount(w) \/ CommitDelete(w) PROVE Takes(w)
  BY <1>4 DEF CommitUser, CommitAccount, CommitDelete, Finish, Idle, TakesOver, TakesUp
<1> HIDE DEF Takes
<1>5. UNCHANGED req \/ \E w \in Worker : Takes(w)
  BY <1>1, <1>2, <1>3, <1>4 DEF AccountsNext, Waiting, StartUp, ChangePassword, UpdateUser, ResetPassword
<1> QED
  BY <1>5 DEF Takes

LEMMA UnitRequests ==
  ASSUME DOMAIN req = Worker, OrgUnitsNext
  PROVE  UNCHANGED req \/ \E w \in Worker : TakesOver(w, {"idle", "unit"})
<1> DEFINE Takes(w) == TakesOver(w, {"idle", "unit"})
<1>1. ASSUME NEW w \in Worker, NEW a, NEW u, NEW p, NEW active, UpsertUnit(w, a, u, p, active) PROVE Takes(w)
  BY <1>1 DEF UpsertUnit, Begin, TakesOver, TakesUp
<1>2. ASSUME NEW w \in Worker, CommitUnit(w) PROVE Takes(w)
  BY <1>2 DEF CommitUnit, Finish, Idle, TakesOver, TakesUp
<1> HIDE DEF Takes
<1>3. UNCHANGED req \/ \E w \in Worker : Takes(w)
  BY <1>1, <1>2 DEF OrgUnitsNext, Waiting, EnsureOrgTree, BootstrapLegacy
<1> QED
  BY <1>3 DEF Takes

LEMMA AccessRequests ==
  ASSUME DOMAIN req = Worker, AccessNext
  PROVE  \E w \in Worker : TakesOver(w, {"idle", "access"})
<1>1. ASSUME NEW w \in Worker, NEW a, NEW u, NEW g, NEW f, SetAccess(w, a, u, g, f) PROVE TakesOver(w, {"idle", "access"})
  BY <1>1 DEF SetAccess, Begin, TakesOver, TakesUp
<1>2. ASSUME NEW w \in Worker, CommitAccess(w) PROVE TakesOver(w, {"idle", "access"})
  BY <1>2 DEF CommitAccess, Finish, Idle, TakesOver, TakesUp
<1> QED
  BY <1>1, <1>2 DEF AccessNext, Waiting

LEMMA LinkRequests ==
  ASSUME DOMAIN req = Worker, LinksNext
  PROVE  UNCHANGED req \/ \E w \in Worker : TakesOver(w, {"idle", "link", "unlink"})
<1> DEFINE Takes(w) == TakesOver(w, {"idle", "link", "unlink"})
<1>1. ASSUME NEW w \in Worker, NEW u, NEW l, AddLink(w, u, l) PROVE Takes(w)
  BY <1>1 DEF AddLink, LoadLinks, Begin, TakesOver, TakesUp
<1>2. ASSUME NEW w \in Worker, NEW u, NEW l, NEW reasoned, RemoveLink(w, u, l, reasoned) PROVE Takes(w)
  BY <1>2 DEF RemoveLink, LoadLinks, Begin, TakesOver, TakesUp
<1>3. ASSUME NEW w \in Worker, CommitLink(w) \/ CommitUnlink(w) PROVE Takes(w)
  BY <1>3 DEF CommitLink, CommitUnlink, Finish, Idle, TakesOver, TakesUp
<1> HIDE DEF Takes
<1>4. UNCHANGED req \/ \E w \in Worker : Takes(w)
  BY <1>1, <1>2, <1>3 DEF LinksNext, Waiting, AddComment
<1> QED
  BY <1>4 DEF Takes

LEMMA NoticeRequests ==
  ASSUME DOMAIN req = Worker, NoticesNext
  PROVE  UNCHANGED req \/ \E w \in Worker : TakesOver(w, {"idle", "remind"})
<1> DEFINE Takes(w) == TakesOver(w, {"idle", "remind"})
<1>1. ASSUME NEW w \in Worker, RunReminders(w) PROVE Takes(w)
  BY <1>1 DEF RunReminders, Begin, TakesOver, TakesUp
<1>2. ASSUME NEW w \in Worker, CommitReminders(w) PROVE Takes(w)
  BY <1>2 DEF CommitReminders, Finish, Idle, TakesOver, TakesUp
<1> HIDE DEF Takes
<1>3. UNCHANGED req \/ \E w \in Worker : Takes(w)
  BY <1>1, <1>2 DEF NoticesNext, SetItem, NextDay, ReadNotice, ReadAll
<1> QED
  BY <1>3 DEF Takes

LEMMA ReturnRequests ==
  ASSUME DOMAIN req = Worker, ReturnsNext
  PROVE  UNCHANGED req \/ \E w \in Worker : TakesOver(w, {"idle", "upload", "log"})
<1> DEFINE Takes(w) == TakesOver(w, {"idle", "upload", "log"})
<1>1. ASSUME NEW w \in Worker, NEW a, NEW t, NEW modes, StartCommit(w, a, t, modes) PROVE Takes(w)
  BY <1>1 DEF StartCommit, Begin, TakesOver, TakesUp
<1>2. ASSUME NEW w \in Worker, NEW a, NEW t, EmptyCommit(w, a, t) PROVE Takes(w)
  BY <1>2 DEF EmptyCommit, Begin, TakesOver, TakesUp
<1>3. ASSUME NEW w \in Worker, ExecuteCommit(w) PROVE Takes(w)
  BY <1>3 DEF ExecuteCommit, TakesOver, TakesUp
<1>4. ASSUME NEW w \in Worker, BreakOff(w) \/ RollBack(w) \/ WriteUploadLog(w) \/ LoseUploadLog(w) PROVE Takes(w)
  BY <1>4 DEF BreakOff, RollBack, WriteUploadLog, LoseUploadLog, Finish, Idle, TakesOver, TakesUp
<1> HIDE DEF Takes
<1>5. UNCHANGED req \/ \E w \in Worker : Takes(w)
  BY <1>1, <1>2, <1>3, <1>4
     DEF ReturnsNext, Waiting, Preview, Expire, AutoImport, CreateRecord, UpdateRecord, DeleteRecord
<1> QED
  BY <1>5 DEF Takes

LEMMA BudgetRequests ==
  ASSUME DOMAIN req = Worker, BudgetsNext
  PROVE  UNCHANGED req \/ \E w \in Worker : TakesOver(w, {"idle", "lines"})
<1> DEFINE Takes(w) == TakesOver(w, {"idle", "lines"})
<1>1. ASSUME NEW w \in Worker, NEW a, NEW y, NEW new, Upsert(w, a, y, new) PROVE Takes(w)
  BY <1>1 DEF Upsert, Begin, TakesOver, TakesUp
<1>2. ASSUME NEW w \in Worker, NEW a, NEW y, NEW from, NEW rate, NEW overwrite, CopyBudget(w, a, y, from, rate, overwrite)
      PROVE  Takes(w)
  BY <1>2 DEF CopyBudget, Begin, TakesOver, TakesUp
<1>3. ASSUME NEW w \in Worker, CommitLines(w) PROVE Takes(w)
  BY <1>3 DEF CommitLines, Finish, Idle, TakesOver, TakesUp
<1> HIDE DEF Takes
<1>4. UNCHANGED req \/ \E w \in Worker : Takes(w)
  BY <1>1, <1>2, <1>3 DEF BudgetsNext, Waiting, CreateFiscalYear
<1> QED
  BY <1>4 DEF Takes

(* A step is of one area, and elsewhere for the others.                    *)
LEMMA AreasAreApart ==
  ASSUME DOMAIN req = Worker, [AdministrationNext]_administrationVars
  PROVE  /\ AccountsNext \/ (Elsewhere({"account", "create", "delete"}) /\ UNCHANGED accounts)
         /\ OrgUnitsNext \/ (Elsewhere({"unit"}) /\ UNCHANGED units)
         /\ \/ AccessNext \/ (AccountsNext /\ Cascade)
            \/ Elsewhere({"access"}) /\ UNCHANGED <<grants, duties>>
         /\ LinksNext \/ (Elsewhere({"link", "unlink"}) /\ UNCHANGED links)
         /\ NoticesNext \/ (Elsewhere({"remind"}) /\ UNCHANGED noticeVars)
         /\ ReturnsNext \/ (Elsewhere({"upload", "log"}) /\ UNCHANGED returnVars)
         /\ BudgetsNext \/ (Elsewhere({"lines"}) /\ UNCHANGED lines)
<1>1. CASE UNCHANGED administrationVars
  <2>1. UNCHANGED <<accounts, treeVars, linkVars, noticeVars, returnVars, lines, req>>
    BY <1>1 DEF administrationVars, budgetVars
  <2>2. \A steps : Elsewhere(steps)
    BY <2>1 DEF Elsewhere
  <2> QED
    BY <2>1, <2>2 DEF treeVars, linkVars, noticeVars
<1>2. CASE AccountsNext /\ Cascade /\ UNCHANGED <<units, linkVars, noticeVars, returnVars, budgetVars>>
  <2>1. \/ UNCHANGED req \/ \E w \in Worker : TakesOver(w, {"idle", "account", "create", "delete"})
    BY <1>2, AccountRequests
  <2>2. /\ Elsewhere({"unit"}) /\ Elsewhere({"link", "unlink"}) /\ Elsewhere({"remind"})
        /\ Elsewhere({"upload", "log"}) /\ Elsewhere({"lines"})
    BY <2>1 DEF Elsewhere, TakesOver, TakesUp
  <2> QED
    BY <1>2, <2>2 DEF linkVars, noticeVars, budgetVars
<1>3. CASE OrgUnitsNext /\ UNCHANGED <<grants, duties, linkVars, noticeVars, returnVars, budgetVars>>
  <2>1. UNCHANGED req \/ \E w \in Worker : TakesOver(w, {"idle", "unit"})
    BY <1>3, UnitRequests
  <2>2. UNCHANGED accounts
    BY <1>3 DEF OrgUnitsNext, EnsureOrgTree, BootstrapLegacy, UpsertUnit, CommitUnit
  <2>3. /\ Elsewhere({"account", "create", "delete"}) /\ Elsewhere({"access"}) /\ Elsewhere({"link", "unlink"})
        /\ Elsewhere({"remind"}) /\ Elsewhere({"upload", "log"}) /\ Elsewhere({"lines"})
    BY <2>1 DEF Elsewhere, TakesOver, TakesUp
  <2> QED
    BY <1>3, <2>2, <2>3 DEF linkVars, noticeVars, budgetVars
<1>4. CASE AccessNext /\ UNCHANGED <<linkVars, noticeVars, returnVars, budgetVars>>
  <2>1. \E w \in Worker : TakesOver(w, {"idle", "access"})
    BY <1>4, AccessRequests
  <2>2. UNCHANGED <<accounts, units>>
    BY <1>4 DEF AccessNext, SetAccess, CommitAccess
  <2>3. /\ Elsewhere({"account", "create", "delete"}) /\ Elsewhere({"unit"}) /\ Elsewhere({"link", "unlink"})
        /\ Elsewhere({"remind"}) /\ Elsewhere({"upload", "log"}) /\ Elsewhere({"lines"})
    BY <2>1 DEF Elsewhere, TakesOver, TakesUp
  <2> QED
    BY <1>4, <2>2, <2>3 DEF linkVars, noticeVars, budgetVars
<1>5. CASE LinksNext /\ UNCHANGED <<noticeVars, returnVars, budgetVars>>
  <2>1. UNCHANGED req \/ \E w \in Worker : TakesOver(w, {"idle", "link", "unlink"})
    BY <1>5, LinkRequests
  <2>2. UNCHANGED <<accounts, units, grants, duties>>
    BY <1>5 DEF LinksNext, AddLink, RemoveLink, LoadLinks, AddComment, CommitLink, CommitUnlink
  <2>3. /\ Elsewhere({"account", "create", "delete"}) /\ Elsewhere({"unit"}) /\ Elsewhere({"access"})
        /\ Elsewhere({"remind"}) /\ Elsewhere({"upload", "log"}) /\ Elsewhere({"lines"})
    BY <2>1 DEF Elsewhere, TakesOver, TakesUp
  <2> QED
    BY <1>5, <2>2, <2>3 DEF noticeVars, budgetVars
<1>6. CASE NoticesNext /\ UNCHANGED <<treeVars, linkVars, returnVars, budgetVars>>
  <2>1. UNCHANGED req \/ \E w \in Worker : TakesOver(w, {"idle", "remind"})
    BY <1>6, NoticeRequests
  <2>2. UNCHANGED accounts
    BY <1>6 DEF NoticesNext, SetItem, NextDay, RunReminders, CommitReminders, ReadNotice, ReadAll
  <2>3. /\ Elsewhere({"account", "create", "delete"}) /\ Elsewhere({"unit"}) /\ Elsewhere({"access"})
        /\ Elsewhere({"link", "unlink"}) /\ Elsewhere({"upload", "log"}) /\ Elsewhere({"lines"})
    BY <2>1 DEF Elsewhere, TakesOver, TakesUp
  <2> QED
    BY <1>6, <2>2, <2>3 DEF treeVars, linkVars, budgetVars
<1>7. CASE ReturnsNext /\ UNCHANGED <<treeVars, linkVars, noticeVars, budgetVars>>
  <2>1. UNCHANGED req \/ \E w \in Worker : TakesOver(w, {"idle", "upload", "log"})
    BY <1>7, ReturnRequests
  <2>2. UNCHANGED accounts
    <3> USE DEF others
    <3>1. ASSUME NEW a, NEW t, NEW rows, Preview(a, t, rows) \/ Expire(t) \/ AutoImport(rows) PROVE UNCHANGED accounts
      BY <3>1 DEF Preview, Expire, AutoImport
    <3>2. ASSUME NEW w, NEW a, NEW t, NEW modes, StartCommit(w, a, t, modes) \/ EmptyCommit(w, a, t)
          PROVE  UNCHANGED accounts
      BY <3>2 DEF StartCommit, EmptyCommit
    <3>3. ASSUME NEW w, ExecuteCommit(w) \/ BreakOff(w) \/ RollBack(w) \/ WriteUploadLog(w) \/ LoseUploadLog(w)
          PROVE  UNCHANGED accounts
      BY <3>3 DEF ExecuteCommit, BreakOff, RollBack, WriteUploadLog, LoseUploadLog
    <3>4. ASSUME NEW a, NEW k, NEW l, CreateRecord(a, k) \/ UpdateRecord(a, k, l) \/ DeleteRecord(a, k)
          PROVE  UNCHANGED accounts
      BY <3>4 DEF CreateRecord, UpdateRecord, DeleteRecord
    <3> HIDE DEF others
    <3>5. CASE \E a \in User, t \in Token, rows \in [SchemeMonth -> {"ok", "error", "absent"}] : Preview(a, t, rows)
      BY <3>1, <3>5
    <3>6. CASE \/ \E t \in Token : Expire(t)
               \/ \E rows \in SUBSET SchemeMonth : AutoImport(rows)
               \/ \E w \in Worker : ExecuteCommit(w) \/ BreakOff(w) \/ RollBack(w) \/ WriteUploadLog(w) \/ LoseUploadLog(w)
      BY <3>1, <3>3, <3>6
    <3>7. CASE \E w \in Waiting, a \in User, t \in Token :
                 EmptyCommit(w, a, t) \/ \E modes \in [SchemeMonth -> Modes] : StartCommit(w, a, t, modes)
      BY <3>2, <3>7
    <3>8. CASE \E a \in User, k \in SchemeMonth :
                 CreateRecord(a, k) \/ DeleteRecord(a, k) \/ \E l \in SchemeMonth : UpdateRecord(a, k, l)
      BY <3>4, <3>8
    <3> QED
      BY <1>7, <3>5, <3>6, <3>7, <3>8 DEF ReturnsNext
  <2>3. /\ Elsewhere({"account", "create", "delete"}) /\ Elsewhere({"unit"}) /\ Elsewhere({"access"})
        /\ Elsewhere({"link", "unlink"}) /\ Elsewhere({"remind"}) /\ Elsewhere({"lines"})
    BY <2>1 DEF Elsewhere, TakesOver, TakesUp
  <2> QED
    BY <1>7, <2>2, <2>3 DEF treeVars, linkVars, noticeVars, budgetVars
<1>8. CASE BudgetsNext /\ UNCHANGED <<treeVars, linkVars, noticeVars, returnVars>>
  <2>1. UNCHANGED req \/ \E w \in Worker : TakesOver(w, {"idle", "lines"})
    BY <1>8, BudgetRequests
  <2>2. UNCHANGED accounts
    <3>1. ASSUME NEW a, NEW y, CreateFiscalYear(a, y) PROVE UNCHANGED accounts
      BY <3>1 DEF CreateFiscalYear
    <3>2. ASSUME NEW w, NEW a, NEW y, NEW new, Upsert(w, a, y, new) PROVE UNCHANGED accounts
      BY <3>2 DEF Upsert
    <3>3. ASSUME NEW w, NEW a, NEW y, NEW from, NEW rate, NEW overwrite, CopyBudget(w, a, y, from, rate, overwrite)
          PROVE  UNCHANGED accounts
      BY <3>3 DEF CopyBudget
    <3>4. ASSUME NEW w, CommitLines(w) PROVE UNCHANGED accounts
      BY <3>4 DEF CommitLines
    <3> QED
      BY <1>8, <3>1, <3>2, <3>3, <3>4 DEF BudgetsNext
  <2>3. /\ Elsewhere({"account", "create", "delete"}) /\ Elsewhere({"unit"}) /\ Elsewhere({"access"})
        /\ Elsewhere({"link", "unlink"}) /\ Elsewhere({"remind"}) /\ Elsewhere({"upload", "log"})
    BY <2>1 DEF Elsewhere, TakesOver, TakesUp
  <2> QED
    BY <1>8, <2>2, <2>3 DEF treeVars, linkVars, noticeVars
<1> QED
  BY <1>1, <1>2, <1>3, <1>4, <1>5, <1>6, <1>7, <1>8 DEF AdministrationNext
-----------------------------------------------------------------------------
(* The accounts.                                                           *)
AccountRow == [role : VALID_ROLES \cup {"none"}, active : BOOLEAN, must_change : BOOLEAN,
               password : {"none", "given", "own"}]
AccountRequest(q) ==
  /\ q.step = "account" => q.id \in User /\ q.loaded \in AccountRow /\ q.new \in AccountRow
  /\ q.step = "create" => q.row \in AccountRow

(* Whether one request is served at a time or several: the rows are rows.  *)
AccountsAreRows ==
  /\ DOMAIN req = Worker
  /\ accounts \in [User -> AccountRow]
  /\ \A w \in Worker : AccountRequest(req[w])

(* A request on its own leaves an administrator, and lets nobody in on a   *)
(* password that somebody else knows.                                      *)
AdministratorIn(table) == \E u \in User : table[u].role = "admin" /\ table[u].active
Trusted(row) == row.role # "none" /\ ~row.must_change => row.password = "own"
Writes(q, row) == \A c \in DOMAIN row : q.loaded[c] = row[c] \/ q.new[c] # q.loaded[c]

AccountServed(q, table) ==
  /\ q.step = "account" =>
       Trusted(q.new) /\ Writes(q, table[q.id]) /\ AdministratorIn([table EXCEPT ![q.id] = q.new])
  /\ q.step = "create" => Trusted(q.row) /\ AdministratorIn(table)
  /\ q.step = "delete" => q.id \in User /\ AdministratorIn([table EXCEPT ![q.id] = NoAccount])

AccountsAreServed ==
  Serial => /\ Account # {} => AdministratorIn(accounts)
            /\ \A u \in User : Trusted(accounts[u])
            /\ \A w \in Worker : AccountServed(req[w], accounts)

AccountsInvariant == AccountsAreRows /\ AccountsAreServed

AccountSteps == {"account", "create", "delete"}

LEMMA NoAccountIsARow == NoAccount \in AccountRow /\ Trusted(NoAccount)
BY DEF NoAccount, AccountRow, Trusted

LEMMA AccountColumns ==
  ASSUME NEW row
  PROVE  /\ row \in AccountRow =>
              /\ row.role \in VALID_ROLES \cup {"none"} /\ row.active \in BOOLEAN /\ row.must_change \in BOOLEAN
              /\ row.password \in {"none", "given", "own"}
              /\ DOMAIN row = {"role", "active", "must_change", "password"}
         /\ \A r, a, m, p : row = [role |-> r, active |-> a, must_change |-> m, password |-> p] =>
              (row \in AccountRow <=> r \in VALID_ROLES \cup {"none"} /\ a \in BOOLEAN /\ m \in BOOLEAN
                                        /\ p \in {"none", "given", "own"})
BY DEF AccountRow

LEMMA AccountByColumn ==
  ASSUME NEW row, row = [c \in {"role", "active", "must_change", "password"} |-> row[c]],
         row.role \in VALID_ROLES \cup {"none"}, row.active \in BOOLEAN, row.must_change \in BOOLEAN,
         row.password \in {"none", "given", "own"}
  PROVE  row \in AccountRow
BY DEF AccountRow

(* Rows are written whole, or column by column.                            *)
LEMMA FlushedAccount ==
  ASSUME NEW row \in AccountRow, NEW loaded \in AccountRow, NEW new \in AccountRow
  PROVE  /\ Flush(loaded, new, row) \in AccountRow
         /\ (\A c \in DOMAIN row : loaded[c] = row[c] \/ new[c] # loaded[c]) => Flush(loaded, new, row) = new
<1> DEFINE r == Flush(loaded, new, row)
           C == {"role", "active", "must_change", "password"}
<1>1. DOMAIN row = C /\ DOMAIN new = C
  BY AccountColumns
<1>2. r = [c \in C |-> IF new[c] = loaded[c] THEN row[c] ELSE new[c]]
  BY <1>1 DEF Flush
<1>3. r \in AccountRow
  <2>1. /\ r.role \in {row.role, new.role} /\ r.active \in {row.active, new.active}
        /\ r.must_change \in {row.must_change, new.must_change} /\ r.password \in {row.password, new.password}
    BY <1>2
  <2>2. r = [c \in C |-> r[c]]
    BY <1>2
  <2> HIDE DEF r
  <2> QED
    BY <2>1, <2>2, AccountColumns, AccountByColumn
<1>4. ASSUME \A c \in DOMAIN row : loaded[c] = row[c] \/ new[c] # loaded[c]
      PROVE  r = new
  <2>1. \A c \in C : r[c] = new[c]
    BY <1>1, <1>2, <1>4
  <2>2. new = [c \in C |-> new[c]] /\ r = [c \in C |-> r[c]]
    BY <1>1, <1>2 DEF AccountRow
  <2> HIDE DEF r
  <2> QED
    BY <2>1, <2>2
<1> QED
  BY <1>3, <1>4

(* What is assigned to a row: one of the changes of an administrator, or a *)
(* password.                                                               *)
PasswordChange(fields) ==
  \E p \in {"given", "own"}, m \in BOOLEAN : fields = [password |-> p, must_change |-> m]

LEMMA AssignedAccount ==
  ASSUME NEW row \in AccountRow, NEW fields, fields \in Changes \/ PasswordChange(fields)
  PROVE  LET new == Assign(row, fields)
         IN /\ new \in AccountRow
            /\ fields \in Changes => /\ new.password = row.password /\ new.must_change = row.must_change
                                     /\ "password" \notin DOMAIN fields
                                     /\ new.role = row.role \/ (new.role \in VALID_ROLES /\ "role" \in DOMAIN fields
                                                                  /\ new.role = fields.role)
                                     /\ new.active = row.active \/ ("active" \in DOMAIN fields /\ new.active = fields.active)
            /\ PasswordChange(fields) => /\ new.password = fields.password /\ new.must_change = fields.must_change
                                         /\ new.role = row.role /\ new.active = row.active
                                         /\ "password" \in DOMAIN fields /\ fields.password \in {"given", "own"}
<1> DEFINE new == Assign(row, fields)
           C == {"role", "active", "must_change", "password"}
<1>1. DOMAIN row = C
  BY AccountColumns
<1>2. new = [c \in C |-> IF c \in DOMAIN fields THEN fields[c] ELSE row[c]]
  BY <1>1 DEF Assign
<1>3. fields \in Changes =>
        /\ DOMAIN fields \in {{"role"}, {"active"}, {"role", "active"}}
        /\ "role" \in DOMAIN fields => fields.role \in VALID_ROLES
        /\ "active" \in DOMAIN fields => fields.active \in BOOLEAN
  BY DEF Changes
<1>4. PasswordChange(fields) =>
        /\ DOMAIN fields = {"password", "must_change"}
        /\ fields.password \in {"given", "own"} /\ fields.must_change \in BOOLEAN
  BY DEF PasswordChange
<1>5. /\ row.role \in VALID_ROLES \cup {"none"} /\ row.active \in BOOLEAN /\ row.must_change \in BOOLEAN
      /\ row.password \in {"none", "given", "own"}
  BY AccountColumns
<1>6. new = [c \in C |-> new[c]]
  BY <1>2
<1>7. CASE fields \in Changes
  <2>1. /\ new.password = row.password /\ new.must_change = row.must_change
        /\ "password" \notin DOMAIN fields
    BY <1>2, <1>3, <1>7
  <2>2. /\ new.role = (IF "role" \in DOMAIN fields THEN fields.role ELSE row.role)
        /\ new.active = (IF "active" \in DOMAIN fields THEN fields.active ELSE row.active)
    BY <1>2
  <2> HIDE DEF new
  <2>3. new.role \in VALID_ROLES \cup {"none"} /\ new.active \in BOOLEAN
    BY <1>3, <1>5, <1>7, <2>2
  <2>4. new \in AccountRow
    BY <1>5, <1>6, <2>1, <2>3, AccountByColumn
  <2>5. ~PasswordChange(fields)
    BY <1>3, <1>4, <1>7
  <2> QED
    BY <1>3, <1>7, <2>1, <2>2, <2>4, <2>5 DEF new
<1>8. CASE PasswordChange(fields)
  <2>1. /\ new.password = fields.password /\ new.must_change = fields.must_change
        /\ new.role = row.role /\ new.active = row.active
    BY <1>2, <1>4, <1>8
  <2> HIDE DEF new
  <2>2. new \in AccountRow
    BY <1>4, <1>5, <1>6, <1>8, <2>1, AccountByColumn
  <2>3. fields \notin Changes
    BY <1>3, <1>4, <1>8
  <2> QED
    BY <1>4, <1>8, <2>1, <2>2, <2>3 DEF new
<1> QED
  BY <1>7, <1>8

-----------------------------------------------------------------------------
LEMMA AccountsInit_Holds == ASSUME AdministrationInit PROVE AccountsInvariant
<1>1. DOMAIN req = Worker /\ \A w \in Worker : req[w].step \in {"idle", "off"}
  BY DEF AdministrationInit, RequestsInit, Idle, Off
<1>2. accounts = [u \in User |-> NoAccount]
  BY DEF AdministrationInit, AccountsInit
<1>3. AccountsAreRows
  BY <1>1, <1>2, NoAccountIsARow DEF AccountsAreRows, AccountRequest
<1>4. Account = {}
  BY <1>2 DEF Account, NoAccount
<1>5. AccountsAreServed
  BY <1>1, <1>2, <1>4, NoAccountIsARow DEF AccountsAreServed, AccountServed
<1> QED
  BY <1>3, <1>5 DEF AccountsInvariant

(* A handler reads: the request it leaves in flight is the only one.       *)
LEMMA AccountRequestBegins ==
  ASSUME AccountsInvariant, NEW w \in Worker, NEW r, r.step # "off", Begin(w, r), UNCHANGED accounts,
         AccountRequest(r), Serial => AccountServed(r, accounts)
  PROVE  AccountsInvariant'
<1>1. DOMAIN req = Worker
  BY DEF AccountsInvariant, AccountsAreRows
<1>2. /\ Serial' <=> Serial
      /\ req'[w] = r
      /\ \A v \in Worker : v # w => req'[v] = req[v]
  BY <1>1, SerialBegins, RequestsAssumption
<1>3. DOMAIN req' = Worker
  BY <1>1 DEF Begin
<1>4. AccountsAreRows'
  BY <1>2, <1>3 DEF AccountsInvariant, AccountsAreRows
<1>5. AccountsAreServed'
  BY <1>2 DEF AccountsInvariant, AccountsAreServed, Account
<1> QED
  BY <1>4, <1>5 DEF AccountsInvariant

(* A commit writes one row, and nothing else is in flight.                 *)
LEMMA AccountRequestFinishes ==
  ASSUME AccountsInvariant, NEW w \in Worker, InFlight(w), Finish(w), accounts' \in [User -> AccountRow],
         Serial => (Account' # {} => AdministratorIn(accounts')) /\ \A u \in User : Trusted(accounts'[u])
  PROVE  AccountsInvariant'
<1>1. DOMAIN req = Worker
  BY DEF AccountsInvariant, AccountsAreRows
<1>2. /\ Serial' <=> Serial
      /\ req'[w] = Idle
      /\ \A v \in Worker : v # w => req'[v] = req[v]
      /\ Serial => \A v \in Worker : req'[v].step \in {"idle", "off"}
  BY <1>1, SerialFinishes, RequestsAssumption
<1>3. DOMAIN req' = Worker
  BY <1>1 DEF Finish
<1>4. AccountsAreRows'
  BY <1>2, <1>3 DEF AccountsInvariant, AccountsAreRows, AccountRequest, Idle
<1>5. AccountsAreServed'
  BY <1>2 DEF AccountsAreServed, AccountServed
<1> QED
  BY <1>4, <1>5 DEF AccountsInvariant

(* An account of the table, and who remains of the administrators.         *)
LEMMA LoadedAccount ==
  ASSUME AccountsInvariant, NEW w \in Worker, NEW u \in Account, NEW fields,
         fields \in Changes \/ PasswordChange(fields), LoadAccount(w, u, fields),
         LET new == Assign(accounts[u], fields)
         IN Serial => Trusted(new) /\ AdministratorIn([accounts EXCEPT ![u] = new])
  PROVE  AccountsInvariant'
<1> DEFINE new == Assign(accounts[u], fields)
           loaded == [accounts[u] EXCEPT !.password = IF "password" \in DOMAIN fields THEN "none" ELSE @]
           r == [step |-> "account", id |-> u, new |-> new, loaded |-> loaded]
<1>1. u \in User /\ accounts[u] \in AccountRow
  BY DEF Account, AccountsInvariant, AccountsAreRows
<1>2. /\ new \in AccountRow
      /\ "password" \in DOMAIN fields => new.password # "none"
  <2>1. /\ new \in AccountRow
        /\ fields \in Changes => "password" \notin DOMAIN fields
        /\ PasswordChange(fields) => new.password = fields.password /\ fields.password \in {"given", "own"}
    BY <1>1, AssignedAccount
  <2> HIDE DEF new
  <2> QED
    BY <2>1
<1>3. loaded \in AccountRow /\ Writes(r, accounts[u])
  <2>1. /\ DOMAIN accounts[u] = {"role", "active", "must_change", "password"}
        /\ accounts[u].role \in VALID_ROLES \cup {"none"} /\ accounts[u].active \in BOOLEAN
        /\ accounts[u].must_change \in BOOLEAN /\ accounts[u].password \in {"none", "given", "own"}
    BY <1>1, AccountColumns
  <2>2. loaded = [c \in {"role", "active", "must_change", "password"} |-> loaded[c]]
    BY <2>1
  <2>3. /\ loaded.role = accounts[u].role /\ loaded.active = accounts[u].active
        /\ loaded.must_change = accounts[u].must_change
        /\ loaded.password = (IF "password" \in DOMAIN fields THEN "none" ELSE accounts[u].password)
    BY <2>1
  <2> HIDE DEF loaded, new
  <2>4. loaded \in AccountRow
    BY <2>1, <2>2, <2>3, AccountByColumn
  <2>5. \A c \in DOMAIN accounts[u] : loaded[c] = accounts[u][c] \/ new[c] # loaded[c]
    BY <1>2, <2>1, <2>3
  <2> QED
    BY <2>4, <2>5 DEF Writes
<1>4. Begin(w, r) /\ UNCHANGED accounts /\ r.step # "off"
  BY DEF LoadAccount
<1>5. AccountRequest(r)
  BY <1>1, <1>2, <1>3 DEF AccountRequest
<1>6. Serial => AccountServed(r, accounts)
  <2>1. Serial => Trusted(new) /\ AdministratorIn([accounts EXCEPT ![u] = new])
    OBVIOUS
  <2> HIDE DEF loaded, new
  <2> QED
    BY <1>3, <2>1 DEF AccountServed
<1> HIDE DEF r
<1> QED
  BY <1>4, <1>5, <1>6, AccountRequestBegins

LEMMA OthersAdminister ==
  ASSUME accounts \in [User -> AccountRow], NEW a \in User, NEW u \in User, NEW new, a # u, Admin(a)
  PROVE  AdministratorIn([accounts EXCEPT ![u] = new])
BY DEF AdministratorIn, Admin, MayUse, SignedIn

LEMMA AccountLoadsKeep ==
  ASSUME AccountsInvariant, NEW w \in Worker, NEW u \in User, NEW a \in User
  PROVE  /\ ChangePassword(w, u) => AccountsInvariant'
         /\ \A fields \in Changes : UpdateUser(w, a, u, fields) => AccountsInvariant'
         /\ ResetPassword(w, a, u) => AccountsInvariant'
<1>0. accounts \in [User -> AccountRow] /\ \A v \in User : accounts[v] \in AccountRow
  BY DEF AccountsInvariant, AccountsAreRows
<1>1. ASSUME ChangePassword(w, u) PROVE AccountsInvariant'
  <2> DEFINE fields == [password |-> "own", must_change |-> FALSE]
             new == Assign(accounts[u], fields)
  <2>1. PasswordChange(fields)
    BY DEF PasswordChange
  <2>2. u \in Account /\ LoadAccount(w, u, fields)
    BY <1>1 DEF ChangePassword, SignedIn
  <2>3. new.password = "own" /\ new.role = accounts[u].role /\ new.active = accounts[u].active
    BY <1>0, <2>1, AssignedAccount
  <2> HIDE DEF new, fields
  <2>4. Trusted(new)
    BY <2>3 DEF Trusted
  <2>5. Serial => AdministratorIn([accounts EXCEPT ![u] = new])
    <3>1. Serial => AdministratorIn(accounts)
      BY <2>2 DEF AccountsInvariant, AccountsAreServed
    <3> QED
      BY <1>0, <2>3, <3>1 DEF AdministratorIn
  <2> QED
    BY <2>1, <2>2, <2>4, <2>5, LoadedAccount DEF new
<1>2. ASSUME NEW fields \in Changes, UpdateUser(w, a, u, fields) PROVE AccountsInvariant'
  <2> DEFINE new == Assign(accounts[u], fields)
  <2>1. Admin(a) /\ u \in Account /\ MayUpdate(a, u, fields) /\ LoadAccount(w, u, fields)
    BY <1>2 DEF UpdateUser
  <2>2. /\ new.password = accounts[u].password /\ new.must_change = accounts[u].must_change
        /\ new.role = accounts[u].role \/ (new.role \in VALID_ROLES /\ "role" \in DOMAIN fields
                                             /\ new.role = fields.role)
        /\ new.active = accounts[u].active \/ ("active" \in DOMAIN fields /\ new.active = fields.active)
    BY <1>0, AssignedAccount
  <2> HIDE DEF new
  <2>3. Serial => Trusted(new)
    <3>1. Serial => Trusted(accounts[u])
      BY DEF AccountsInvariant, AccountsAreServed
    <3> QED
      BY <2>1, <2>2, <3>1 DEF Trusted, Account
  <2>4. AdministratorIn([accounts EXCEPT ![u] = new])
    <3>1. CASE a # u
      BY <1>0, <2>1, <3>1, OthersAdminister
    <3>2. CASE a = u
      <4>1. accounts[u].role = "admin" /\ accounts[u].active
        BY <2>1, <3>2 DEF Admin, MayUse, SignedIn
      <4>2. new.role = "admin" /\ new.active
        BY <2>1, <2>2, <3>2, <4>1 DEF MayUpdate
      <4> QED
        BY <1>0, <4>2 DEF AdministratorIn
    <3> QED
      BY <3>1, <3>2
  <2> QED
    BY <2>1, <2>3, <2>4, LoadedAccount DEF new
<1>3. ASSUME ResetPassword(w, a, u) PROVE AccountsInvariant'
  <2> DEFINE fields == Reset(a, u)
             new == Assign(accounts[u], fields)
  <2>1. Admin(a) /\ u \in Account /\ LoadAccount(w, u, fields)
    BY <1>3 DEF ResetPassword
  <2>2. /\ PasswordChange(fields)
        /\ fields.must_change = (u # a) /\ fields.password = (IF u = a THEN "own" ELSE "given")
    BY DEF PasswordChange, Reset
  <2>3. /\ new.password = fields.password /\ new.must_change = fields.must_change
        /\ new.role = accounts[u].role /\ new.active = accounts[u].active
    BY <1>0, <2>2, AssignedAccount
  <2> HIDE DEF new, fields
  <2>4. Trusted(new)
    BY <2>2, <2>3 DEF Trusted
  <2>5. AdministratorIn([accounts EXCEPT ![u] = new])
    <3>1. CASE a # u
      BY <1>0, <2>1, <3>1, OthersAdminister
    <3>2. CASE a = u
      <4>1. new.role = "admin" /\ new.active
        BY <2>1, <2>3, <3>2 DEF Admin, MayUse, SignedIn
      <4> QED
        BY <1>0, <4>1 DEF AdministratorIn
    <3> QED
      BY <3>1, <3>2
  <2> QED
    BY <2>1, <2>2, <2>4, <2>5, LoadedAccount DEF new
<1> QED
  BY <1>1, <1>2, <1>3

LEMMA AccountsBegin ==
  ASSUME AccountsInvariant, NEW w \in Worker, NEW a \in User, NEW u \in User
  PROVE  /\ \A role \in VALID_ROLES : CreateUser(w, a, u, role) => AccountsInvariant'
         /\ DeleteUser(w, a, u) => AccountsInvariant'
<1>0. accounts \in [User -> AccountRow]
  BY DEF AccountsInvariant, AccountsAreRows
<1>1. ASSUME NEW role \in VALID_ROLES, CreateUser(w, a, u, role) PROVE AccountsInvariant'
  <2> DEFINE row == [role |-> role, active |-> TRUE, must_change |-> TRUE, password |-> "given"]
             r == [step |-> "create", id |-> u, row |-> row]
  <2>1. Begin(w, r) /\ UNCHANGED accounts /\ r.step # "off" /\ Admin(a)
    BY <1>1 DEF CreateUser
  <2>2. row \in AccountRow /\ Trusted(row)
    BY DEF AccountRow, Trusted
  <2>3. AdministratorIn(accounts)
    BY <2>1 DEF AdministratorIn, Admin, MayUse, SignedIn
  <2> HIDE DEF row
  <2>4. AccountRequest(r) /\ AccountServed(r, accounts)
    BY <2>2, <2>3 DEF AccountRequest, AccountServed
  <2> HIDE DEF r
  <2> QED
    BY <2>1, <2>4, AccountRequestBegins
<1>2. ASSUME DeleteUser(w, a, u) PROVE AccountsInvariant'
  <2> DEFINE r == [step |-> "delete", id |-> u]
  <2>1. Begin(w, r) /\ UNCHANGED accounts /\ r.step # "off" /\ Admin(a) /\ a # u
    BY <1>2 DEF DeleteUser
  <2>2. AdministratorIn([accounts EXCEPT ![u] = NoAccount])
    BY <1>0, <2>1, OthersAdminister
  <2>3. AccountRequest(r) /\ AccountServed(r, accounts)
    BY <2>2 DEF AccountRequest, AccountServed
  <2> HIDE DEF r
  <2> QED
    BY <2>1, <2>3, AccountRequestBegins
<1> QED
  BY <1>1, <1>2

LEMMA AccountCommitsKeep ==
  ASSUME AccountsInvariant, NEW w \in Worker
  PROVE  CommitUser(w) \/ CommitAccount(w) \/ CommitDelete(w) => AccountsInvariant'
<1>0. /\ accounts \in [User -> AccountRow] /\ AccountRequest(req[w])
      /\ Serial => /\ AccountServed(req[w], accounts)
                   /\ \A u \in User : Trusted(accounts[u])
                   /\ Account # {} => AdministratorIn(accounts)
  BY DEF AccountsInvariant, AccountsAreRows, AccountsAreServed
<1> DEFINE q == req[w]
<1>1. ASSUME CommitUser(w) PROVE AccountsInvariant'
  <2>1. /\ q.step = "create" /\ Finish(w) /\ InFlight(w)
        /\ accounts' = IF q.id \in Account THEN accounts ELSE [accounts EXCEPT ![q.id] = q.row]
    BY <1>1 DEF CommitUser, InFlight
  <2>2. q.row \in AccountRow /\ (Serial => Trusted(q.row) /\ AdministratorIn(accounts))
    BY <1>0, <2>1 DEF AccountRequest, AccountServed
  <2> HIDE DEF q
  <2>3. accounts' \in [User -> AccountRow]
    BY <1>0, <2>1, <2>2
  <2>4. Serial => /\ AdministratorIn(accounts')
                  /\ \A u \in User : Trusted(accounts'[u])
    <3>1. ASSUME Serial PROVE \A u \in User : Trusted(accounts'[u])
      BY <1>0, <2>1, <2>2, <3>1
    <3>2. ASSUME Serial PROVE AdministratorIn(accounts')
      <4>1. PICK u \in User : accounts[u].role = "admin" /\ accounts[u].active
        BY <2>2, <3>2 DEF AdministratorIn
      <4>2. accounts'[u] = accounts[u]
        BY <1>0, <2>1, <4>1 DEF Account
      <4> QED
        BY <4>1, <4>2 DEF AdministratorIn
    <3> QED
      BY <3>1, <3>2
  <2> QED
    BY <2>1, <2>3, <2>4, AccountRequestFinishes DEF q
<1>2. ASSUME CommitAccount(w) PROVE AccountsInvariant'
  <2>1. /\ q.step = "account" /\ Finish(w) /\ InFlight(w)
        /\ accounts' = IF q.id \in Account
                       THEN [accounts EXCEPT ![q.id] = Flush(q.loaded, q.new, accounts[q.id])] ELSE accounts
    BY <1>2 DEF CommitAccount, InFlight
  <2>2. /\ q.id \in User /\ q.new \in AccountRow /\ q.loaded \in AccountRow
        /\ Serial => /\ Trusted(q.new) /\ AdministratorIn([accounts EXCEPT ![q.id] = q.new])
                     /\ Writes(q, accounts[q.id])
    BY <1>0, <2>1 DEF AccountRequest, AccountServed
  <2>3. /\ Flush(q.loaded, q.new, accounts[q.id]) \in AccountRow
        /\ Serial => Flush(q.loaded, q.new, accounts[q.id]) = q.new
    <3> DEFINE row == accounts[q.id]
               loaded == q.loaded
               new == q.new
    <3>1. row \in AccountRow /\ loaded \in AccountRow /\ new \in AccountRow
      BY <1>0, <2>2
    <3>2. Serial => \A c \in DOMAIN row : loaded[c] = row[c] \/ new[c] # loaded[c]
      BY <2>2 DEF Writes
    <3> HIDE DEF row, loaded, new
    <3>3. /\ Flush(loaded, new, row) \in AccountRow
          /\ Serial => Flush(loaded, new, row) = new
      BY <3>1, <3>2, FlushedAccount
    <3> QED
      BY <3>3 DEF row, loaded, new
  <2> HIDE DEF q
  <2>4. accounts' \in [User -> AccountRow]
    BY <1>0, <2>1, <2>2, <2>3
  <2>5. Serial => \A u \in User : Trusted(accounts'[u])
    BY <1>0, <2>1, <2>2, <2>3
  <2>6. Serial => (Account' # {} => AdministratorIn(accounts'))
    <3>1. CASE q.id \in Account
      BY <2>1, <2>2, <2>3, <3>1
    <3>2. CASE q.id \notin Account
      BY <1>0, <2>1, <3>2 DEF Account
    <3> QED
      BY <3>1, <3>2
  <2> QED
    BY <2>1, <2>4, <2>5, <2>6, AccountRequestFinishes DEF q
<1>3. ASSUME CommitDelete(w) PROVE AccountsInvariant'
  <2>1. q.step = "delete" /\ Finish(w) /\ InFlight(w) /\ accounts' = [accounts EXCEPT ![q.id] = NoAccount]
    BY <1>3 DEF CommitDelete, InFlight
  <2>2. Serial => AdministratorIn(accounts')
    BY <1>0, <2>1 DEF AccountServed
  <2> HIDE DEF q
  <2>3. accounts' \in [User -> AccountRow] /\ (Serial => \A u \in User : Trusted(accounts'[u]))
    BY <1>0, <2>1, NoAccountIsARow
  <2> QED
    BY <2>1, <2>2, <2>3, AccountRequestFinishes DEF q
<1> QED
  BY <1>1, <1>2, <1>3

(* Start-up finds no request in flight.                                    *)
LEMMA StartUpKeeps == ASSUME AccountsInvariant, StartUp PROVE AccountsInvariant'
<1> DEFINE row == [role |-> "admin", active |-> TRUE, must_change |-> TRUE, password |-> "given"]
<1>0. /\ accounts \in [User -> AccountRow] /\ DefaultAdmin \in User
      /\ accounts' = [accounts EXCEPT ![DefaultAdmin] = row] /\ req' = req /\ Free
  BY AccountsAssumption DEF AccountsInvariant, AccountsAreRows, StartUp
<1>1. row \in AccountRow /\ Trusted(row)
  BY DEF AccountRow, Trusted, VALID_ROLES
<1>2. AdministratorIn(accounts')
  BY <1>0 DEF AdministratorIn
<1> HIDE DEF row
<1>3. accounts' \in [User -> AccountRow]
  BY <1>0, <1>1
<1>4. AccountsAreRows'
  BY <1>0, <1>3 DEF AccountsInvariant, AccountsAreRows
<1>5. Serial' <=> Serial
  BY <1>0 DEF Serial
<1>6. Serial => \A w \in Worker : AccountServed(req'[w], accounts')
  BY <1>0, SerialIsAlone, RequestsAssumption DEF InFlight, AccountServed
<1>7. Serial => \A u \in User : Trusted(accounts'[u])
  BY <1>0, <1>1 DEF AccountsInvariant, AccountsAreServed
<1>8. AccountsAreServed'
  BY <1>2, <1>5, <1>6, <1>7 DEF AccountsAreServed
<1> QED
  BY <1>4, <1>8 DEF AccountsInvariant

LEMMA OthersKeepAccounts ==
  ASSUME AccountsInvariant, Elsewhere({"account", "create", "delete"}), UNCHANGED accounts
  PROVE  AccountsInvariant'
<1>1. DOMAIN req = Worker
  BY DEF AccountsInvariant, AccountsAreRows
<1> DEFINE steps == {"account", "create", "delete"}
<1>2. /\ DOMAIN req' = Worker /\ (Serial' <=> Serial)
      /\ \A v \in Worker : req'[v] = req[v] \/ req'[v].step \notin steps
  <2> HIDE DEF steps
  <2>1. Elsewhere(steps)
    BY DEF steps
  <2> QED
    BY <1>1, <2>1, ElsewhereStays
<1>3. AccountsAreRows'
  BY <1>2 DEF AccountsInvariant, AccountsAreRows, AccountRequest
<1>4. AccountsAreServed'
  <2>1. Account' = Account
    BY DEF Account
  <2> QED
    BY <1>2, <2>1 DEF AccountsInvariant, AccountsAreServed, AccountServed
<1> QED
  BY <1>3, <1>4 DEF AccountsInvariant

LEMMA AccountsStep ==
  ASSUME AccountsInvariant, [AdministrationNext]_administrationVars
  PROVE  AccountsInvariant'
<1>1. DOMAIN req = Worker
  BY DEF AccountsInvariant, AccountsAreRows
<1>2. CASE AccountsNext
  <2>1. CASE StartUp
    BY <2>1, StartUpKeeps
  <2>2. CASE \E w \in Waiting, u \in User :
               \/ ChangePassword(w, u)
               \/ \E a \in User :
                    \/ \E role \in VALID_ROLES : CreateUser(w, a, u, role)
                    \/ \E fields \in Changes : UpdateUser(w, a, u, fields)
                    \/ ResetPassword(w, a, u)
                    \/ DeleteUser(w, a, u)
    <3>1. Waiting \subseteq Worker
      BY DEF Waiting
    <3> QED
      BY <2>2, <3>1, AccountLoadsKeep, AccountsBegin
  <2>3. CASE \E w \in Worker : CommitUser(w) \/ CommitAccount(w) \/ CommitDelete(w)
    BY <2>3, AccountCommitsKeep
  <2> QED
    BY <1>2, <2>1, <2>2, <2>3 DEF AccountsNext
<1>3. CASE Elsewhere({"account", "create", "delete"}) /\ UNCHANGED accounts
  BY <1>3, OthersKeepAccounts
<1> QED
  BY <1>1, <1>2, <1>3, AreasAreApart

(* The inductive invariant of the accounts: their rows are rows however    *)
(* requests race; and a request served on its own leaves an administrator  *)
(* and passwords that are their holders'.                                  *)
THEOREM AccountsInvariantHolds == AdministrationSpec => []AccountsInvariant
<1>1. AdministrationInit => AccountsInvariant
  BY AccountsInit_Holds
<1>2. AccountsInvariant /\ [AdministrationNext]_administrationVars => AccountsInvariant'
  BY AccountsStep
<1> QED
  BY <1>1, <1>2, PTL DEF AdministrationSpec

(* While requests are served one at a time, an installation that has an    *)
(* account has an active administrator, and whoever may use it does so on  *)
(* a password of their own (users.py:311, 351, auth.py:121).               *)
THEOREM AccountsAlwaysStayUsable == AdministrationSpec => []AccountsStayUsable
<1>1. AccountsInvariant => AccountsStayUsable
  <2> SUFFICES ASSUME AccountsInvariant, Serial
               PROVE  /\ Account # {} => \E u \in Account : accounts[u].role = "admin" /\ accounts[u].active
                      /\ \A u \in Account : MayUse(u) => accounts[u].password = "own"
    BY DEF AccountsStayUsable, AnAdministratorRemains, GivenPasswordsAreChanged
  <2> QED
    BY DEF AccountsInvariant, AccountsAreServed, AdministratorIn, Trusted, Account, MayUse
<1> QED
  BY <1>1, AccountsInvariantHolds, PTL
-----------------------------------------------------------------------------
(* The organisation tree.                                                  *)

(* subtree: what is below a unit, closed under "child of", and no more     *)
(* than that, however the parents run.                                     *)
LEMMA SubtreeIsBelow ==
  ASSUME NEW u \in Unit
  PROVE  u \in subtree(u) /\ Closed(subtree(u)) /\ subtree(u) \subseteq Unit /\ subtree(u) = Below(u)
<1> DEFINE D == Unit
           N == Cardinality(Unit)
           From(T) == UNION {Children(c) : c \in T}
           P == [T \in SUBSET D |-> From(T)]
<1>0. IsFiniteSet(D) /\ N \in Nat /\ N <= N /\ 0 \in 0..N
  BY OrgUnitsAssumption, FS_CardinalityType
<1>1. \A T \in SUBSET D : From(T) \in SUBSET D
  BY DEF Children, Known
<1>2. StepOn(P, D)
  BY <1>1 DEF StepOn
<1> HIDE DEF N
<1>3. PICK g : Reaches(g, P, D, u, N)
  BY <1>0, <1>2, ReachedExists
<1>4. g = [n \in 0..N |-> IF n = 0 THEN {u} ELSE g[n - 1] \cup From(g[n - 1])]
  <2>1. ASSUME NEW n \in 0..N PROVE g[n] = IF n = 0 THEN {u} ELSE g[n - 1] \cup From(g[n - 1])
    <3>1. CASE n = 0
      BY <1>3, <3>1 DEF Reaches
    <3>2. CASE n # 0
      <4>1. n \in 1..N /\ n - 1 \in 0..N
        BY <1>0, <3>2
      <4>2. g[n - 1] \in SUBSET D
        BY <1>3, <4>1 DEF Reaches
      <4>3. P[g[n - 1]] = From(g[n - 1])
        BY <4>2
      <4> HIDE DEF P, From
      <4> QED
        BY <1>3, <3>2, <4>1, <4>3 DEF Reaches
    <3> QED
      BY <3>1, <3>2
  <2> HIDE DEF P, From, D
  <2> QED
    BY <1>3, <2>1 DEF Reaches
<1>5. PICK up : /\ up = [n \in 0..N |-> IF n = 0 THEN {u} ELSE up[n - 1] \cup From(up[n - 1])]
                /\ subtree(u) = up[N]
  BY <1>4 DEF subtree, N
<1>6. /\ \A n \in 0..N : up[n] = IF n = 0 THEN {u} ELSE up[n - 1] \cup From(up[n - 1])
      /\ up[0] = {u} /\ DOMAIN up = 0..N
  <2> HIDE DEF From
  <2> QED
    BY <1>0, <1>5
<1>7. \A n \in 0..N : up[n] \in SUBSET D
  <2> DEFINE G == {n \in Nat : n \in 0..N => up[n] \in SUBSET D}
  <2>1. 0 \in G
    BY <1>6
  <2>2. ASSUME NEW n \in Nat, n \in G PROVE n + 1 \in G
    <3> SUFFICES ASSUME n + 1 \in 0..N PROVE up[n + 1] \in SUBSET D
      OBVIOUS
    <3>1. n \in 0..N /\ n + 1 # 0 /\ (n + 1) - 1 = n
      BY <1>0
    <3>2. up[n] \in SUBSET D
      BY <2>2, <3>1
    <3>3. up[n + 1] = up[n] \cup From(up[n])
      <4> HIDE DEF From
      <4> QED
        BY <1>6, <3>1
    <3> QED
      BY <1>1, <3>2, <3>3
  <2> HIDE DEF G
  <2>3. Nat \subseteq G
    BY <2>1, <2>2, NumberInduction
  <2> QED
    BY <1>0, <2>3 DEF G
<1>8. Reaches(up, P, D, u, N)
  <2>1. ASSUME NEW n \in 1..N PROVE up[n] = up[n - 1] \cup P[up[n - 1]]
    <3>1. n \in 0..N /\ n # 0 /\ n - 1 \in 0..N
      BY <1>0
    <3>2. P[up[n - 1]] = From(up[n - 1])
      BY <1>7, <3>1
    <3> HIDE DEF P, From
    <3> QED
      BY <1>6, <3>1, <3>2
  <2>2. up = [n \in 0..N |-> up[n]]
    BY <1>5
  <2>3. up \in [0..N -> SUBSET D]
    BY <1>7, <2>2
  <2> HIDE DEF P, D
  <2> QED
    BY <1>6, <2>1, <2>3 DEF Reaches
<1>9. P[up[N]] \subseteq up[N] /\ u \in up[N] /\ up[N] \subseteq D
  <2>1. u \in D /\ Cardinality(D) <= N
    BY <1>0 DEF N
  <2> HIDE DEF P, D
  <2> QED
    BY <1>0, <1>2, <1>8, <2>1, ReachedIsClosed
<1>10. Closed(subtree(u)) /\ u \in subtree(u) /\ subtree(u) \subseteq Unit
  <2>1. From(up[N]) \subseteq up[N]
    BY <1>9
  <2>2. \A c \in up[N] : Children(c) \subseteq up[N]
    BY <2>1
  <2> HIDE DEF P, From
  <2> QED
    BY <1>5, <1>9, <2>2 DEF Closed
<1>11. ASSUME NEW C \in SUBSET Unit, u \in C, Closed(C) PROVE up[N] \subseteq C
  <2>1. ClosedUnder(C, P)
    BY <1>11 DEF Closed, ClosedUnder
  <2>2. u \in D /\ C \subseteq D
    OBVIOUS
  <2> HIDE DEF P, D
  <2> QED
    BY <1>0, <1>8, <1>11, <2>1, <2>2, ReachedIsLeast
<1>12. subtree(u) = Below(u)
  <2>1. subtree(u) \subseteq Below(u)
    BY <1>5, <1>10, <1>11 DEF Below
  <2>2. Below(u) \subseteq subtree(u)
    BY <1>10 DEF Below
  <2> QED
    BY <2>1, <2>2
<1> QED
  BY <1>10, <1>12

(* A table of units is a tree: a parent is a row of the table, and no unit *)
(* is below what hangs on it, for something closed keeps them apart.       *)
UnitRow == [exists : BOOLEAN, parent : Unit \cup {NoUnit}, active : BOOLEAN]

Shut(t, S) == \A c \in Unit : t[c].exists /\ t[c].parent \in S => c \in S
Apart(t, c, u) == \E S \in SUBSET Unit : c \in S /\ u \notin S /\ Shut(t, S)

Tree(t) ==
  \A c \in Unit : t[c].exists /\ t[c].parent # NoUnit =>
    t[c].parent \in Unit /\ t[t[c].parent].exists /\ Apart(t, c, t[c].parent)

LEMMA ClosedIsShut ==
  ASSUME NEW S \in SUBSET Unit
  PROVE  Closed(S) <=> Shut(units, S)
BY DEF Closed, Shut, Children, Known

(* New units on one that is there, or on none.                             *)
LEMMA NewUnitsHang ==
  ASSUME NEW t, NEW t2, NEW p, Tree(t), p # NoUnit => p \in Unit /\ t[p].exists,
         \A u \in Unit : t[u].exists => t2[u] = t[u],
         \A u \in Unit : ~t[u].exists /\ t2[u].exists => t2[u].parent = p
  PROVE  Tree(t2)
<1> SUFFICES ASSUME NEW c \in Unit, t2[c].exists, t2[c].parent # NoUnit
             PROVE  t2[c].parent \in Unit /\ t2[t2[c].parent].exists /\ Apart(t2, c, t2[c].parent)
  BY DEF Tree
<1> DEFINE u == t2[c].parent
<1>1. CASE t[c].exists
  <2>1. u = t[c].parent /\ u \in Unit /\ t[u].exists /\ t2[u].exists /\ Apart(t, c, u)
    BY <1>1 DEF Tree
  <2>2. PICK S \in SUBSET Unit : c \in S /\ u \notin S /\ Shut(t, S)
    BY <2>1 DEF Apart
  <2> DEFINE S2 == {x \in Unit : IF t[x].exists THEN x \in S ELSE t2[x].exists /\ p \in S}
  <2>3. c \in S2 /\ u \notin S2
    BY <1>1, <2>1, <2>2
  <2>4. ASSUME NEW x \in Unit, t2[x].exists, t2[x].parent \in S2 PROVE x \in S2
    <3>1. CASE t[x].exists
      <4>1. t2[x].parent = t[x].parent /\ t[x].parent \in Unit
        BY <3>1, <2>4
      <4>2. t[t[x].parent].exists
        BY <3>1, <4>1, OrgUnitsAssumption DEF Tree
      <4>3. t[x].parent \in S
        BY <2>4, <4>1, <4>2
      <4> QED
        BY <2>2, <3>1, <4>3 DEF Shut
    <3>2. CASE ~t[x].exists
      <4>1. t2[x].parent = p /\ p \in Unit /\ p \in S2
        BY <3>2, <2>4
      <4>2. p \in S
        BY <4>1, OrgUnitsAssumption
      <4> QED
        BY <3>2, <2>4, <4>2
    <3> QED
      BY <3>1, <3>2
  <2>5. S2 \in SUBSET Unit /\ Shut(t2, S2)
    BY <2>4 DEF Shut
  <2> HIDE DEF S2
  <2>6. Apart(t2, c, u)
    BY <2>3, <2>5 DEF Apart
  <2> QED
    BY <2>1, <2>6
<1>2. CASE ~t[c].exists
  <2>1. u = p /\ u \in Unit /\ t[u].exists /\ t2[u].exists /\ u # c
    BY <1>2
  <2>2. ASSUME NEW x \in Unit, t2[x].exists, t2[x].parent = c PROVE FALSE
    <3>1. CASE t[x].exists
      BY <1>2, <2>2, <3>1, OrgUnitsAssumption DEF Tree
    <3>2. CASE ~t[x].exists
      BY <2>1, <2>2, <3>2
    <3> QED
      BY <3>1, <3>2
  <2>3. {c} \in SUBSET Unit /\ c \in {c} /\ u \notin {c} /\ Shut(t2, {c})
    BY <2>1, <2>2 DEF Shut
  <2>4. Apart(t2, c, u)
    BY <2>3 DEF Apart
  <2> QED
    BY <2>1, <2>4
<1> QED
  BY <1>1, <1>2

(* A unit that is moved under one that is not below it.                    *)
LEMMA UnitMoves ==
  ASSUME NEW t, NEW t2, NEW i \in Unit, NEW row, Tree(t), row.exists,
         row.parent # NoUnit => row.parent \in Unit /\ t[row.parent].exists /\ Apart(t, i, row.parent),
         t2[i] = row, \A u \in Unit : u # i => t2[u] = t[u]
  PROVE  Tree(t2)
<1> SUFFICES ASSUME NEW c \in Unit, t2[c].exists, t2[c].parent # NoUnit
             PROVE  t2[c].parent \in Unit /\ t2[t2[c].parent].exists /\ Apart(t2, c, t2[c].parent)
  BY DEF Tree
<1> DEFINE u == t2[c].parent
           p == row.parent
<1>1. PICK M \in SUBSET Unit : p # NoUnit => i \in M /\ p \notin M /\ Shut(t, M)
  BY DEF Apart
<1>2. \A x \in Unit : t[x].exists => t2[x].exists
  OBVIOUS
<1>3. CASE c = i
  <2>1. u = p /\ u \in Unit /\ t2[u].exists
    BY <1>2, <1>3
  <2>2. i \in M /\ u \notin M /\ Shut(t2, M)
    BY <1>1, <1>3, <2>1 DEF Shut
  <2>3. Apart(t2, c, u)
    BY <1>3, <2>2 DEF Apart
  <2> QED
    BY <2>1, <2>3
<1>4. CASE c # i
  <2>1. u = t[c].parent /\ t[c].exists /\ u \in Unit /\ t2[u].exists /\ Apart(t, c, u)
    BY <1>2, <1>4 DEF Tree
  <2>2. PICK S \in SUBSET Unit : c \in S /\ u \notin S /\ Shut(t, S)
    BY <2>1 DEF Apart
  <2>3. CASE p = NoUnit
    <3>1. Shut(t2, S)
      BY <2>2, <2>3, OrgUnitsAssumption DEF Shut
    <3> QED
      BY <2>1, <2>2, <3>1 DEF Apart
  <2>4. CASE p # NoUnit /\ u \in M
    <3>1. c \in M
      BY <1>1, <2>1, <2>4 DEF Shut
    <3>2. S \cap M \in SUBSET Unit /\ c \in S \cap M /\ u \notin S \cap M
      BY <2>2, <3>1
    <3>3. Shut(t2, S \cap M)
      BY <1>1, <2>2, <2>4 DEF Shut
    <3>4. Apart(t2, c, u)
      BY <3>2, <3>3 DEF Apart
    <3> QED
      BY <2>1, <3>4
  <2>5. CASE p # NoUnit /\ u \notin M
    <3>1. S \cup M \in SUBSET Unit /\ c \in S \cup M /\ u \notin S \cup M
      BY <2>2, <2>5
    <3>2. Shut(t2, S \cup M)
      BY <1>1, <2>2, <2>5 DEF Shut
    <3>3. Apart(t2, c, u)
      BY <3>1, <3>2 DEF Apart
    <3> QED
      BY <2>1, <3>3
  <2> QED
    BY <2>3, <2>4, <2>5
<1> QED
  BY <1>3, <1>4

(* A move that is under way would leave a tree.                            *)
UnitServed(q, t) ==
  q.step = "unit" =>
    /\ q.id \in Unit /\ q.loaded = t[q.id] /\ q.new \in UnitRow /\ q.new.exists
    /\ q.new.parent # NoUnit =>
         q.new.parent \in Unit /\ t[q.new.parent].exists /\ Apart(t, q.id, q.new.parent)

TreeInvariant ==
  /\ DOMAIN req = Worker
  /\ Serial => /\ OrgUnitsTypeOK
               /\ Tree(units)
               /\ \A w \in Worker : UnitServed(req[w], units)

LEMMA UnitRows ==
  ASSUME NEW e \in BOOLEAN, NEW p \in Unit \cup {NoUnit}, NEW a \in BOOLEAN
  PROVE  [exists |-> e, parent |-> p, active |-> a] \in UnitRow
BY DEF UnitRow

LEMMA TreeBuilt ==
  ASSUME TreeInvariant, UNCHANGED req, Free, Serial => OrgUnitsTypeOK' /\ Tree(units')
  PROVE  TreeInvariant'
<1>1. DOMAIN req' = Worker /\ (Serial' <=> Serial) /\ (OrgUnitsTypeOK' <=> units' \in [Unit -> UnitRow])
  BY DEF TreeInvariant, Serial, OrgUnitsTypeOK, UnitRow
<1>2. Serial => \A w \in Worker : UnitServed(req'[w], units')
  BY SerialIsAlone, RequestsAssumption DEF InFlight, UnitServed
<1> QED
  BY <1>1, <1>2 DEF TreeInvariant

(* The root, the missing of some units on it, and of some on one of these. *)
LEMMA TreeGrows ==
  ASSUME units \in [Unit -> UnitRow], Tree(units), NEW Z \in SUBSET (Unit \ {Root}),
         NEW T \in SUBSET (Unit \ ({Root} \cup Z)),
         NEW z \in Z \cup {Root},
         units' = [u \in Unit |-> IF u \in Known THEN units[u]
                                  ELSE IF u = Root THEN UnitUnder(NoUnit)
                                  ELSE IF u \in Z THEN UnitUnder(Root)
                                  ELSE IF u \in T THEN UnitUnder(z) ELSE NoRow]
  PROVE  units' \in [Unit -> UnitRow] /\ Tree(units')
<1> DEFINE t1 == [u \in Unit |-> IF u \in Known THEN units[u] ELSE IF u = Root THEN UnitUnder(NoUnit) ELSE NoRow]
           t2 == [u \in Unit |-> IF u \in Known THEN units[u] ELSE IF u = Root THEN UnitUnder(NoUnit)
                                 ELSE IF u \in Z THEN UnitUnder(Root) ELSE NoRow]
<1>0. Root \in Unit /\ NoUnit \notin Unit /\ z \in Unit
  BY OrgUnitsAssumption
<1>1. UnitUnder(NoUnit) \in UnitRow /\ UnitUnder(Root) \in UnitRow /\ UnitUnder(z) \in UnitRow /\ NoRow \in UnitRow
  BY <1>0, UnitRows DEF UnitUnder, NoRow
<1>2. \A p : UnitUnder(p).exists /\ UnitUnder(p).parent = p
  BY DEF UnitUnder
<1>3. ~NoRow.exists
  BY DEF NoRow
<1>4. \A u \in Unit : u \in Known <=> units[u].exists
  BY DEF Known
<1> HIDE DEF Known
<1>5. Tree(t1)
  <2>1. \A u \in Unit : units[u].exists => t1[u] = units[u]
    BY <1>4
  <2>2. \A u \in Unit : ~units[u].exists /\ t1[u].exists => t1[u].parent = NoUnit
    BY <1>2, <1>3, <1>4
  <2> HIDE DEF t1
  <2> QED
    BY <2>1, <2>2, NewUnitsHang
<1>6. t1[Root].exists
  BY <1>0, <1>2, <1>4
<1>7. Tree(t2)
  <2>1. \A u \in Unit : t1[u].exists => t2[u] = t1[u]
    BY <1>2, <1>3, <1>4
  <2>2. \A u \in Unit : ~t1[u].exists /\ t2[u].exists => t2[u].parent = Root
    BY <1>2, <1>3, <1>4
  <2> HIDE DEF t1, t2
  <2> QED
    BY <1>0, <1>5, <1>6, <2>1, <2>2, NewUnitsHang
<1>8. t2[z].exists
  BY <1>0, <1>2, <1>4
<1>9. Tree(units')
  <2>1. \A u \in Unit : t2[u].exists => units'[u] = t2[u]
    BY <1>2, <1>3, <1>4
  <2>2. \A u \in Unit : ~t2[u].exists /\ units'[u].exists => units'[u].parent = z
    BY <1>2, <1>3, <1>4
  <2> HIDE DEF t2
  <2> QED
    BY <1>0, <1>7, <1>8, <2>1, <2>2, NewUnitsHang
<1>10. units' \in [Unit -> UnitRow]
  BY <1>1
<1> QED
  BY <1>9, <1>10

LEMMA EnsureKeepsTree ==
  ASSUME TreeInvariant, NEW a, EnsureOrgTree(a)
  PROVE  TreeInvariant'
<1> SUFFICES ASSUME Serial PROVE OrgUnitsTypeOK' /\ Tree(units')
  BY TreeBuilt DEF EnsureOrgTree
<1>1. units \in [Unit -> UnitRow] /\ Tree(units)
  BY DEF TreeInvariant, OrgUnitsTypeOK, UnitRow
<1>2. /\ Zone \in SUBSET (Unit \ {Root}) /\ {} \in SUBSET (Unit \ ({Root} \cup Zone)) /\ Root \in Zone \cup {Root}
      /\ Root \notin Zone
  BY OrgUnitsAssumption
<1>3. units' = [u \in Unit |-> IF u \in Known THEN units[u]
                               ELSE IF u = Root THEN UnitUnder(NoUnit)
                               ELSE IF u \in Zone THEN UnitUnder(Root)
                               ELSE IF u \in {} THEN UnitUnder(Root) ELSE NoRow]
  BY <1>2 DEF EnsureOrgTree
<1>4. units' \in [Unit -> UnitRow] /\ Tree(units')
  BY <1>1, <1>2, <1>3, TreeGrows
<1> QED
  BY <1>4 DEF OrgUnitsTypeOK, UnitRow

LEMMA BootstrapKeepsTree ==
  ASSUME TreeInvariant, NEW a, NEW zone \in Zone, BootstrapLegacy(a, zone)
  PROVE  TreeInvariant'
<1> SUFFICES ASSUME Serial PROVE OrgUnitsTypeOK' /\ Tree(units')
  BY TreeBuilt DEF BootstrapLegacy
<1>1. units \in [Unit -> UnitRow] /\ Tree(units)
  BY DEF TreeInvariant, OrgUnitsTypeOK, UnitRow
<1>2. /\ {zone} \in SUBSET (Unit \ {Root}) /\ Scheme \ {zone} \in SUBSET (Unit \ ({Root} \cup {zone}))
      /\ zone \in {zone} \cup {Root} /\ Root # zone /\ Root \notin Scheme
  BY OrgUnitsAssumption
<1>3. units' = [u \in Unit |-> IF u \in Known THEN units[u]
                               ELSE IF u = Root THEN UnitUnder(NoUnit)
                               ELSE IF u \in {zone} THEN UnitUnder(Root)
                               ELSE IF u \in Scheme \ {zone} THEN UnitUnder(zone) ELSE NoRow]
  BY <1>2 DEF BootstrapLegacy
<1>4. units' \in [Unit -> UnitRow] /\ Tree(units')
  <2> DEFINE Z == {zone}
             T == Scheme \ {zone}
  <2>1. Z \in SUBSET (Unit \ {Root}) /\ T \in SUBSET (Unit \ ({Root} \cup Z)) /\ zone \in Z \cup {Root}
    BY <1>2
  <2>2. units' = [u \in Unit |-> IF u \in Known THEN units[u]
                                 ELSE IF u = Root THEN UnitUnder(NoUnit)
                                 ELSE IF u \in Z THEN UnitUnder(Root)
                                 ELSE IF u \in T THEN UnitUnder(zone) ELSE NoRow]
    BY <1>3
  <2> HIDE DEF Z, T
  <2> QED
    BY <1>1, <2>1, <2>2, TreeGrows
<1> QED
  BY <1>4 DEF OrgUnitsTypeOK, UnitRow

LEMMA UpsertKeepsTree ==
  ASSUME TreeInvariant, NEW w \in Worker, NEW a, NEW u \in Unit, NEW p \in Unit \cup {NoUnit}, NEW active \in BOOLEAN,
         UpsertUnit(w, a, u, p, active)
  PROVE  TreeInvariant'
<1> DEFINE new == [exists |-> TRUE, parent |-> p, active |-> active]
           r == [step |-> "unit", id |-> u, loaded |-> units[u], new |-> new]
<1>1. UNCHANGED units /\ r.step # "off" /\ Begin(w, r) /\ DOMAIN req = Worker
  BY DEF UpsertUnit, TreeInvariant
<1>2. /\ Serial' <=> Serial
      /\ req'[w] = r
      /\ \A v \in Worker : v # w => req'[v] = req[v]
  <2> HIDE DEF r
  <2> QED
    BY <1>1, SerialBegins, RequestsAssumption
<1>3. p # NoUnit => units[p].exists /\ Apart(units, u, p)
  <2> SUFFICES ASSUME p # NoUnit PROVE units[p].exists /\ Apart(units, u, p)
    OBVIOUS
  <2>1. p \in Known /\ p \notin subtree(u)
    BY DEF UpsertUnit, MayMoveUnder
  <2>2. u \in subtree(u) /\ Closed(subtree(u)) /\ subtree(u) \in SUBSET Unit
    BY SubtreeIsBelow
  <2>3. Shut(units, subtree(u))
    BY <2>2, ClosedIsShut
  <2> QED
    BY <2>1, <2>2, <2>3 DEF Apart, Known
<1>4. new \in UnitRow /\ new.exists /\ new.parent = p
  BY UnitRows
<1>5. UnitServed(r, units)
  <2> HIDE DEF new
  <2> QED
    BY <1>3, <1>4, OrgUnitsAssumption DEF UnitServed
<1>6. DOMAIN req' = Worker
  BY <1>1 DEF Begin
<1>7. Serial => \A v \in Worker : UnitServed(req'[v], units')
  <2> HIDE DEF r
  <2> QED
    BY <1>1, <1>2, <1>5 DEF TreeInvariant
<1>8. Serial => OrgUnitsTypeOK' /\ Tree(units')
  BY <1>1 DEF TreeInvariant, OrgUnitsTypeOK
<1> QED
  BY <1>2, <1>6, <1>7, <1>8 DEF TreeInvariant

LEMMA CommitKeepsTree ==
  ASSUME TreeInvariant, NEW w \in Worker, CommitUnit(w)
  PROVE  TreeInvariant'
<1> DEFINE q == req[w]
<1>1. /\ q.step = "unit" /\ Finish(w) /\ DOMAIN req = Worker /\ InFlight(w)
      /\ units' = [units EXCEPT ![q.id] = Flush(q.loaded, q.new, @)]
  BY DEF CommitUnit, TreeInvariant, InFlight
<1>2. /\ Serial' <=> Serial
      /\ DOMAIN req' = Worker
      /\ Serial => \A v \in Worker : req'[v].step # "unit"
  BY <1>1, SerialFinishes, RequestsAssumption DEF Finish, Idle, Off
<1> SUFFICES ASSUME Serial PROVE OrgUnitsTypeOK' /\ Tree(units')
  BY <1>2 DEF TreeInvariant, UnitServed
<1>3. units \in [Unit -> UnitRow] /\ Tree(units) /\ UnitServed(q, units)
  BY DEF TreeInvariant, OrgUnitsTypeOK, UnitRow
<1>4. /\ q.id \in Unit /\ q.loaded = units[q.id] /\ q.new \in UnitRow /\ q.new.exists
      /\ q.new.parent # NoUnit =>
           q.new.parent \in Unit /\ units[q.new.parent].exists /\ Apart(units, q.id, q.new.parent)
  BY <1>1, <1>3 DEF UnitServed
<1>5. Flush(units[q.id], q.new, units[q.id]) = q.new
  <2>1. units[q.id] \in UnitRow
    BY <1>3, <1>4
  <2>2. q.new = [c \in DOMAIN units[q.id] |-> q.new[c]]
    BY <1>4, <2>1 DEF UnitRow
  <2> QED
    BY <2>2, FlushIsWhole
<1> HIDE DEF q
<1>6. units' = [units EXCEPT ![q.id] = q.new]
  BY <1>1, <1>4, <1>5
<1>7. units' \in [Unit -> UnitRow] /\ units'[q.id] = q.new /\ \A u \in Unit : u # q.id => units'[u] = units[u]
  <2> HIDE DEF UnitRow
  <2> QED
    BY <1>3, <1>4, <1>6
<1>8. Tree(units')
  BY <1>3, <1>4, <1>7, UnitMoves
<1> QED
  BY <1>7, <1>8 DEF OrgUnitsTypeOK, UnitRow

LEMMA TreeStep ==
  ASSUME TreeInvariant, [AdministrationNext]_administrationVars
  PROVE  TreeInvariant'
<1>1. DOMAIN req = Worker
  BY DEF TreeInvariant
<1>2. CASE OrgUnitsNext
  <2>1. Waiting \subseteq Worker
    BY DEF Waiting
  <2> QED
    BY <1>2, <2>1, EnsureKeepsTree, BootstrapKeepsTree, UpsertKeepsTree, CommitKeepsTree DEF OrgUnitsNext
<1>3. CASE Elsewhere({"unit"}) /\ UNCHANGED units
  <2> DEFINE steps == {"unit"}
  <2>1. /\ DOMAIN req' = Worker /\ (Serial' <=> Serial)
        /\ \A v \in Worker : req'[v] = req[v] \/ req'[v].step \notin steps
    <3>1. Elsewhere(steps)
      BY <1>3
    <3> HIDE DEF steps
    <3> QED
      BY <1>1, <3>1, ElsewhereStays
  <2>2. Serial => \A v \in Worker : UnitServed(req'[v], units')
    BY <1>3, <2>1 DEF TreeInvariant, UnitServed
  <2> QED
    BY <1>3, <2>1, <2>2 DEF TreeInvariant, OrgUnitsTypeOK
<1> QED
  BY <1>1, <1>2, <1>3, AreasAreApart

(* The inductive invariant of the organisation tree: what a request on its *)
(* own moves, it moves under a unit that is not below it.                  *)
THEOREM TreeInvariantHolds == AdministrationSpec => []TreeInvariant
<1>1. AdministrationInit => TreeInvariant
  <2> SUFFICES ASSUME AdministrationInit PROVE TreeInvariant
    OBVIOUS
  <2>1. DOMAIN req = Worker /\ \A w \in Worker : req[w].step # "unit"
    BY DEF AdministrationInit, RequestsInit, Idle, Off
  <2>2. NoRow \in UnitRow /\ ~NoRow.exists
    BY UnitRows DEF NoRow
  <2>3. units = [u \in Unit |-> NoRow]
    BY DEF AdministrationInit, OrgUnitsInit
  <2>4. OrgUnitsTypeOK
    BY <2>2, <2>3 DEF OrgUnitsTypeOK, UnitRow
  <2>5. Tree(units)
    BY <2>2, <2>3 DEF Tree
  <2> QED
    BY <2>1, <2>4, <2>5 DEF TreeInvariant, UnitServed
<1>2. TreeInvariant /\ [AdministrationNext]_administrationVars => TreeInvariant'
  BY TreeStep
<1> QED
  BY <1>1, <1>2, PTL DEF AdministrationSpec
-----------------------------------------------------------------------------
(* The scopes.                                                             *)

RoleNames == {"none", "viewer", "contributor", "reviewer", "approver"}

LEMMA Ranks ==
  /\ DOMAIN ROLE_RANK = RoleNames
  /\ ROLE_RANK["none"] = 0 /\ ROLE_RANK["viewer"] = 1 /\ ROLE_RANK["contributor"] = 2
  /\ ROLE_RANK["reviewer"] = 3 /\ ROLE_RANK["approver"] = 4
BY DEF ROLE_RANK, RoleNames

(* The highest of some roles is one of them, if they are any but "none".   *)
LEMMA BestIsHighest ==
  ASSUME NEW roles \in SUBSET RoleNames
  PROVE  /\ Best(roles) \in RoleNames
         /\ Best(roles) # "none" <=> \E r \in roles : r # "none"
         /\ Best(roles) \in roles \cup {"none"}
         /\ \A r \in roles : ROLE_RANK[Best(roles)] >= ROLE_RANK[r]
<1> DEFINE Highest(r) == r \in roles \cup {"none"} /\ \A s \in roles : ROLE_RANK[r] >= ROLE_RANK[s]
<1>1. \E r : Highest(r)
  <2>1. CASE "approver" \in roles
    BY <2>1, Ranks DEF RoleNames
  <2>2. CASE "approver" \notin roles /\ "reviewer" \in roles
    BY <2>2, Ranks DEF RoleNames
  <2>3. CASE {"approver", "reviewer"} \cap roles = {} /\ "contributor" \in roles
    BY <2>3, Ranks DEF RoleNames
  <2>4. CASE {"approver", "reviewer", "contributor"} \cap roles = {} /\ "viewer" \in roles
    BY <2>4, Ranks DEF RoleNames
  <2>5. CASE roles \subseteq {"none"}
    BY <2>5, Ranks DEF RoleNames
  <2> QED
    BY <2>1, <2>2, <2>3, <2>4, <2>5 DEF RoleNames
<1>2. Highest(Best(roles))
  BY <1>1 DEF Best
<1>3. Best(roles) = "none" => \A s \in roles : s = "none"
  <2> SUFFICES ASSUME Best(roles) = "none", NEW s \in roles PROVE s = "none"
    OBVIOUS
  <2>1. ROLE_RANK["none"] >= ROLE_RANK[s] /\ s \in RoleNames
    BY <1>2
  <2> QED
    BY <2>1, Ranks DEF RoleNames
<1> QED
  BY <1>2, <1>3 DEF RoleNames

(* Grants are roles on units, whatever requests race.                      *)
GrantsInvariant ==
  /\ DOMAIN req = Worker
  /\ grants \in [User -> Grants]
  /\ \A w \in Worker : req[w].step = "access" => req[w].grants \in Grants

LEMMA NoGrants == [x \in Unit |-> "none"] \in Grants
BY Ranks DEF Grants, RoleNames

LEMMA AccessKeepsGrants ==
  ASSUME GrantsInvariant, AccessNext
  PROVE  GrantsInvariant'
<1>1. DOMAIN req = Worker /\ grants \in [User -> Grants]
  BY DEF GrantsInvariant
<1>2. ASSUME NEW w \in Worker, NEW a \in User, NEW u \in User, NEW g \in Entered, NEW f, SetAccess(w, a, u, g, f)
      PROVE  GrantsInvariant'
  <2> DEFINE r == [step |-> "access", id |-> u, grants |-> g, functions |-> f]
  <2>1. UNCHANGED grants /\ req' = [req EXCEPT ![w] = r]
    BY <1>2 DEF SetAccess, Begin
  <2>2. r.grants \in Grants
    BY EnteredAssumption
  <2> HIDE DEF r
  <2> QED
    BY <1>1, <2>1, <2>2 DEF GrantsInvariant
<1>3. ASSUME NEW w \in Worker, CommitAccess(w)
      PROVE  GrantsInvariant'
  <2>1. req' = [req EXCEPT ![w] = Idle] /\ Idle.step # "access"
    BY <1>3 DEF CommitAccess, Finish, Idle
  <2>2. req[w].grants \in Grants
    BY <1>3 DEF CommitAccess, GrantsInvariant
  <2>3. grants' \in [User -> Grants]
    <3>1. grants' = [grants EXCEPT ![req[w].id] = req[w].grants] \/ UNCHANGED grants
      BY <1>3 DEF CommitAccess
    <3> HIDE DEF Grants
    <3> QED
      BY <1>1, <2>2, <3>1
  <2> QED
    BY <1>1, <2>1, <2>3 DEF GrantsInvariant
<1> QED
  BY <1>2, <1>3 DEF AccessNext, Waiting

LEMMA GrantsStep ==
  ASSUME GrantsInvariant, [AdministrationNext]_administrationVars
  PROVE  GrantsInvariant'
<1>1. DOMAIN req = Worker
  BY DEF GrantsInvariant
<1>2. CASE AccessNext
  BY <1>2, AccessKeepsGrants
<1>3. ASSUME Elsewhere({"access"}), grants' \in [User -> Grants]
      PROVE  GrantsInvariant'
  <2> DEFINE steps == {"access"}
  <2>1. /\ DOMAIN req' = Worker
        /\ \A v \in Worker : req'[v] = req[v] \/ req'[v].step \notin steps
    <3>1. Elsewhere(steps)
      BY <1>3
    <3> HIDE DEF steps
    <3> QED
      BY <1>1, <3>1, ElsewhereStays
  <2> QED
    BY <1>3, <2>1 DEF GrantsInvariant
<1>4. CASE AccountsNext /\ Cascade
  <2>1. UNCHANGED req \/ \E w \in Worker : TakesOver(w, {"idle", "account", "create", "delete"})
    BY <1>1, <1>4, AccountRequests
  <2>2. Elsewhere({"access"})
    BY <2>1 DEF Elsewhere, TakesOver, TakesUp
  <2>3. grants' \in [User -> Grants]
    BY <1>4, NoGrants DEF Cascade, GrantsInvariant
  <2> QED
    BY <1>3, <2>2, <2>3
<1>5. CASE Elsewhere({"access"}) /\ UNCHANGED <<grants, duties>>
  BY <1>3, <1>5 DEF GrantsInvariant
<1> QED
  BY <1>1, <1>2, <1>4, <1>5, AreasAreApart

(* The inductive invariant of the grants: however requests race, and when  *)
(* an account goes with its grants, what is stored are roles on units      *)
(* (platform/router.py, set_access).                                       *)
THEOREM GrantsInvariantHolds == AdministrationSpec => []GrantsInvariant
<1>1. AdministrationInit => GrantsInvariant
  <2> SUFFICES ASSUME AdministrationInit PROVE GrantsInvariant
    OBVIOUS
  <2>1. DOMAIN req = Worker /\ \A w \in Worker : req[w].step # "access"
    BY DEF AdministrationInit, RequestsInit, Idle, Off
  <2>2. grants \in [User -> Grants]
    BY NoGrants DEF AdministrationInit, AccessInit
  <2> QED
    BY <2>1, <2>2 DEF GrantsInvariant
<1>2. GrantsInvariant /\ [AdministrationNext]_administrationVars => GrantsInvariant'
  BY GrantsStep
<1> QED
  BY <1>1, <1>2, PTL DEF AdministrationSpec

(* What a scope lets through, from the grants it was worked out from.      *)
LEMMA ScopeIsGranted ==
  ASSUME GrantsInvariant, NEW u \in User, NEW x \in Unit
  PROVE  LET s == resolve_scope(u)
         IN /\ s.account_role = accounts[u].role /\ s.functions = duties[u]
            /\ s.org_wide_role # "none" <=> grants[u][Root] # "none"
            /\ s.unit_roles[x] # "none" <=>
                 \E g \in Unit \ {Root} : grants[u][g] # "none" /\ x \in Below(g)
            /\ can_see(s, x) <=>
                 accounts[u].role = "admin" \/ s.org_wide_role # "none" \/ s.unit_roles[x] # "none"
<1> DEFINE covering(y) == {g \in Unit \ {Root} : grants[u][g] # "none" /\ y \in subtree(g)}
           roles(y) == {grants[u][g] : g \in covering(y)}
           s == resolve_scope(u)
<1>1. grants[u] \in [Unit -> RoleNames] /\ Root \in Unit
  BY OrgUnitsAssumption, Ranks DEF GrantsInvariant, Grants
<1>2. /\ s.account_role = accounts[u].role /\ s.functions = duties[u]
      /\ s.org_wide_role = grants[u][Root] /\ s.unit_roles[x] = Best(roles(x))
  BY DEF resolve_scope
<1>3. roles(x) \in SUBSET RoleNames
  BY <1>1
<1>4. Best(roles(x)) \in RoleNames /\ (Best(roles(x)) # "none" <=> \E r \in roles(x) : r # "none")
  <2> HIDE DEF roles
  <2> QED
    BY <1>3, BestIsHighest
<1>5. (\E r \in roles(x) : r # "none") <=> \E g \in Unit \ {Root} : grants[u][g] # "none" /\ x \in Below(g)
  BY SubtreeIsBelow
<1>6. s.org_wide_role \in RoleNames /\ s.unit_roles[x] \in RoleNames
  BY <1>1, <1>2, <1>4
<1> HIDE DEF s, roles
<1>7. can_see(s, x) <=> accounts[u].role = "admin" \/ s.org_wide_role # "none" \/ s.unit_roles[x] # "none"
  <2> DEFINE both == {s.org_wide_role, s.unit_roles[x]}
  <2>1. both \in SUBSET RoleNames
    BY <1>6
  <2>2. Best(both) # "none" <=> \E r \in both : r # "none"
    <3> HIDE DEF both
    <3> QED
      BY <2>1, BestIsHighest
  <2> QED
    BY <1>2, <2>2 DEF can_see, role_on, IsAdmin
<1> QED
  BY <1>2, <1>4, <1>5, <1>7 DEF s

(* The rank of a scope on a unit is that of the highest grant above it.    *)
LEMMA RankIsGranted ==
  ASSUME GrantsInvariant, NEW u \in User, NEW x \in Unit, NEW role \in SCOPE_ROLES
  PROVE  ROLE_RANK[role_on(resolve_scope(u), x)] >= ROLE_RANK[role] <=>
           \/ accounts[u].role = "admin"
           \/ ROLE_RANK[grants[u][Root]] >= ROLE_RANK[role]
           \/ \E g \in Unit \ {Root} : x \in Below(g) /\ ROLE_RANK[grants[u][g]] >= ROLE_RANK[role]
<1> DEFINE covering(y) == {g \in Unit \ {Root} : grants[u][g] # "none" /\ y \in subtree(g)}
           roles(y) == {grants[u][g] : g \in covering(y)}
           whole == grants[u][Root]
           own == Best(roles(x))
           both == {whole, own}
           AsHigh(r) == ROLE_RANK[r] >= ROLE_RANK[role]
<1>1. grants[u] \in [Unit -> RoleNames] /\ Root \in Unit
  BY OrgUnitsAssumption, Ranks DEF GrantsInvariant, Grants
<1>2. role \in RoleNames \ {"none"}
  BY Ranks DEF SCOPE_ROLES
<1>3. role_on(resolve_scope(u), x) = IF accounts[u].role = "admin" THEN "approver" ELSE Best(both)
  BY DEF role_on, resolve_scope, IsAdmin
<1>4. roles(x) \in SUBSET RoleNames
  BY <1>1
<1>5. (\E r \in roles(x) : AsHigh(r)) <=> \E g \in Unit \ {Root} : x \in Below(g) /\ AsHigh(grants[u][g])
  <2>1. \A g \in Unit \ {Root} : AsHigh(grants[u][g]) => grants[u][g] # "none"
    BY <1>2, Ranks DEF RoleNames
  <2>2. (\E r \in roles(x) : AsHigh(r)) <=> \E g \in covering(x) : AsHigh(grants[u][g])
    <3> HIDE DEF AsHigh, covering
    <3> QED
      OBVIOUS
  <2> HIDE DEF AsHigh, roles
  <2> QED
    BY <2>1, <2>2, SubtreeIsBelow
<1>6. /\ own \in RoleNames /\ own \in roles(x) \cup {"none"}
      /\ \A r \in roles(x) : ROLE_RANK[own] >= ROLE_RANK[r]
  <2> HIDE DEF roles
  <2> QED
    BY <1>4, BestIsHighest
<1> HIDE DEF roles, own
<1>7. AsHigh(own) <=> \E r \in roles(x) : AsHigh(r)
  <2>1. ~AsHigh("none")
    BY <1>2, Ranks DEF RoleNames
  <2>2. ASSUME NEW r \in roles(x), AsHigh(r) PROVE AsHigh(own)
    BY <1>2, <1>4, <1>6, <2>2, Ranks DEF RoleNames
  <2> HIDE DEF AsHigh
  <2> QED
    BY <1>6, <2>1, <2>2
<1>8. both \in SUBSET RoleNames /\ whole \in RoleNames
  BY <1>1, <1>6
<1>9. AsHigh(Best(both)) <=> AsHigh(whole) \/ AsHigh(own)
  <2>1. Best(both) \in both \cup {"none"} /\ \A r \in both : ROLE_RANK[Best(both)] >= ROLE_RANK[r]
    <3> HIDE DEF both
    <3> QED
      BY <1>8, BestIsHighest
  <2>2. ~AsHigh("none")
    BY <1>2, Ranks DEF RoleNames
  <2>3. ASSUME NEW r \in both, AsHigh(r) PROVE AsHigh(Best(both))
    BY <1>2, <1>8, <2>1, <2>3, Ranks DEF RoleNames
  <2> HIDE DEF AsHigh
  <2> QED
    BY <2>1, <2>2, <2>3
<1>10. AsHigh("approver")
  BY <1>2, Ranks DEF RoleNames
<1> QED
  BY <1>3, <1>5, <1>7, <1>9, <1>10

LEMMA ScopesFollowGrants ==
  ASSUME GrantsInvariant
  PROVE  ScopesAreWhatWasGranted
<1> SUFFICES ASSUME NEW u \in Account
             PROVE  LET s == resolve_scope(u)
                        granted(x) == {g \in Unit : grants[u][g] # "none" /\ (g = Root \/ x \in Below(g))}
                        seen == {x \in Unit : can_see(s, x)}
                    IN /\ seen = {x \in Unit : accounts[u].role = "admin" \/ granted(x) # {}}
                       /\ seen = visible_units(s)
                       /\ \A x \in Unit, role \in SCOPE_ROLES :
                            can(s, x, role) <=>
                              /\ role # "viewer" => accounts[u].role # "viewer"
                              /\ \/ accounts[u].role = "admin"
                                 \/ \E g \in granted(x) : ROLE_RANK[grants[u][g]] >= ROLE_RANK[role]
                       /\ \A f \in PrivateDuty : require_function(s, f) => f \in duties[u]
                       /\ OrgUnitsFor(s) \subseteq {x \in Unit : u \in AssignableUsers(x)} \/ ~accounts[u].active
  BY DEF ScopesAreWhatWasGranted
<1> DEFINE s == resolve_scope(u)
           granted(x) == {g \in Unit : grants[u][g] # "none" /\ (g = Root \/ x \in Below(g))}
           seen == {x \in Unit : can_see(s, x)}
<1>0. u \in User /\ Root \in Unit
  BY OrgUnitsAssumption DEF Account
<1>1. /\ s.account_role = accounts[u].role /\ s.functions = duties[u]
      /\ s.org_wide_role # "none" <=> grants[u][Root] # "none"
      /\ \A x \in Unit :
           /\ s.unit_roles[x] # "none" <=> \E g \in Unit \ {Root} : grants[u][g] # "none" /\ x \in Below(g)
           /\ can_see(s, x) <=> accounts[u].role = "admin" \/ s.org_wide_role # "none" \/ s.unit_roles[x] # "none"
  BY <1>0, ScopeIsGranted
<1> HIDE DEF s
<1>2. \A x \in Unit : granted(x) # {} <=> s.org_wide_role # "none" \/ s.unit_roles[x] # "none"
  BY <1>0, <1>1
<1>3. seen = {x \in Unit : accounts[u].role = "admin" \/ granted(x) # {}}
  <2> HIDE DEF granted
  <2> QED
    BY <1>1, <1>2
<1>4. seen = visible_units(s)
  BY <1>1 DEF visible_units, OrgWide, IsAdmin
<1>5. ASSUME NEW x \in Unit, NEW role \in SCOPE_ROLES
      PROVE  can(s, x, role) <=>
               /\ role # "viewer" => accounts[u].role # "viewer"
               /\ \/ accounts[u].role = "admin"
                  \/ \E g \in granted(x) : ROLE_RANK[grants[u][g]] >= ROLE_RANK[role]
  <2> DEFINE AsHigh(r) == ROLE_RANK[r] >= ROLE_RANK[role]
  <2>1. ~AsHigh("none")
    BY Ranks DEF SCOPE_ROLES, RoleNames
  <2>2. AsHigh(role_on(s, x)) <=> \/ accounts[u].role = "admin"
                                 \/ AsHigh(grants[u][Root])
                                 \/ \E g \in Unit \ {Root} : x \in Below(g) /\ AsHigh(grants[u][g])
    BY <1>0, RankIsGranted DEF s
  <2>3. can(s, x, role) <=> (role # "viewer" => accounts[u].role # "viewer") /\ AsHigh(role_on(s, x))
    <3>1. AsHigh(role_on(s, x)) => can_see(s, x)
      BY <2>1 DEF can_see
    <3> QED
      BY <1>1, <3>1 DEF can, ReadOnly
  <2> HIDE DEF AsHigh
  <2>4. (\E g \in granted(x) : AsHigh(grants[u][g])) <=>
          AsHigh(grants[u][Root]) \/ \E g \in Unit \ {Root} : x \in Below(g) /\ AsHigh(grants[u][g])
    BY <1>0, <2>1
  <2> QED
    BY <2>2, <2>3, <2>4 DEF AsHigh
<1>6. \A f \in PrivateDuty : require_function(s, f) => f \in duties[u]
  BY <1>1 DEF require_function, has_function
<1>7. OrgUnitsFor(s) \subseteq {x \in Unit : u \in AssignableUsers(x)} \/ ~accounts[u].active
  <2> SUFFICES ASSUME accounts[u].active, NEW x \in OrgUnitsFor(s)
               PROVE  x \in Unit /\ u \in AssignableUsers(x)
    OBVIOUS
  <2>1. x \in Unit /\ can_see(s, x)
    BY <1>0, <1>1 DEF OrgUnitsFor, OrgWide, IsAdmin, Known
  <2> QED
    BY <2>1 DEF AssignableUsers, s
<1> QED
  BY <1>3, <1>4, <1>5, <1>6, <1>7 DEF s

(* While requests are served one at a time, the units form a tree on which *)
(* no unit is below itself; and however they race, an account sees exactly *)
(* what was granted to it on a unit, above it or on the root, may do there *)
(* what the highest of those grants allows, and nothing but read if it is  *)
(* read-only, lists filter as the guards do, and a private duty is held    *)
(* only if granted (integration.py:350, scope.py:99, 102, 111).            *)
THEOREM AccessAlwaysFollowsTheTree == AdministrationSpec => []AccessFollowsTheTree
<1>1. TreeInvariant => UnitsFormATree
  <2> SUFFICES ASSUME TreeInvariant, Serial, NEW u \in Known, NEW c \in Children(u) PROVE u \notin Below(c)
    BY DEF UnitsFormATree
  <2>1. c \in Unit /\ units[c].exists /\ units[c].parent = u /\ u # NoUnit
    BY OrgUnitsAssumption DEF Children, Known
  <2>2. Apart(units, c, u)
    BY <2>1 DEF TreeInvariant, Tree
  <2> QED
    BY <2>2, ClosedIsShut DEF Apart, Below
<1>2. GrantsInvariant => ScopesAreWhatWasGranted
  BY ScopesFollowGrants
<1>3. TreeInvariant /\ GrantsInvariant => AccessFollowsTheTree
  BY <1>1, <1>2 DEF AccessFollowsTheTree
<1> QED
  BY <1>3, TreeInvariantHolds, GrantsInvariantHolds, PTL
-----------------------------------------------------------------------------
(* The links.                                                              *)
LinksInvariant ==
  /\ DOMAIN req = Worker
  /\ links \in [Link -> 0..MaxLink]
  /\ \A l \in Link : l.pin # Unpinned => links[l] <= 1
  /\ \A w \in Worker : req[w].step \in {"link", "unlink"} => req[w].link \in Link
  /\ Serial => /\ \A l \in Link : links[l] <= 1
               /\ \A w \in Worker : req[w].step = "link" => links[req[w].link] = 0

LEMMA LinksInitHolds == ASSUME AdministrationInit PROVE LinksInvariant
<1>1. DOMAIN req = Worker /\ \A w \in Worker : req[w].step \in {"idle", "off"}
  BY DEF AdministrationInit, RequestsInit, Idle, Off
<1>2. links = [l \in Link |-> 0] /\ MaxLink \in Nat
  BY LinksAssumption DEF AdministrationInit, LinksInit
<1>3. links \in [Link -> 0..MaxLink] /\ \A l \in Link : links[l] <= 1
  BY <1>2
<1> QED
  BY <1>1, <1>3 DEF LinksInvariant

LEMMA LinkRequestBegins ==
  ASSUME LinksInvariant, NEW w \in Worker, NEW l \in Link, NEW step \in {"link", "unlink"},
         Begin(w, [step |-> step, link |-> l]), UNCHANGED links, step = "link" => l \notin MadeLinks
  PROVE  LinksInvariant'
<1> DEFINE r == [step |-> step, link |-> l]
<1>0. DOMAIN req = Worker /\ r.step # "off" /\ r.step = step /\ r.link = l /\ Begin(w, r)
  BY DEF LinksInvariant
<1> HIDE DEF r
<1>1. /\ Serial' <=> Serial
      /\ req'[w] = r
      /\ \A v \in Worker : v # w => req'[v] = req[v]
  BY <1>0, SerialBegins, RequestsAssumption
<1>2. DOMAIN req' = Worker
  BY <1>0 DEF Begin
<1>3. step = "link" => links[l] = 0
  <2>1. links[l] \in 0..MaxLink /\ MaxLink \in Nat
    BY LinksAssumption DEF LinksInvariant
  <2> QED
    BY <2>1 DEF MadeLinks
<1>4. \A v \in Worker : req'[v].step \in {"link", "unlink"} => req'[v].link \in Link
  BY <1>0, <1>1 DEF LinksInvariant
<1>5. Serial => \A v \in Worker : req'[v].step = "link" => links[req'[v].link] = 0
  BY <1>0, <1>1, <1>3 DEF LinksInvariant
<1> QED
  BY <1>1, <1>2, <1>4, <1>5 DEF LinksInvariant

LEMMA LinkRequestFinishes ==
  ASSUME LinksInvariant, NEW w \in Worker, NEW l \in Link, NEW step \in {"link", "unlink"},
         req[w].step = step, req[w].link = l, Finish(w),
         links' = IF step = "link"
                  THEN IF Refused(l) \/ links[l] = MaxLink THEN links ELSE [links EXCEPT ![l] = @ + 1]
                  ELSE IF links[l] = 0 THEN links ELSE [links EXCEPT ![l] = @ - 1]
  PROVE  LinksInvariant'
<1>0. DOMAIN req = Worker /\ InFlight(w)
  BY DEF LinksInvariant, InFlight
<1>1. /\ Serial' <=> Serial
      /\ req'[w] = Idle
      /\ \A v \in Worker : v # w => req'[v] = req[v]
      /\ Serial => \A v \in Worker : req'[v].step \in {"idle", "off"}
  BY <1>0, SerialFinishes, RequestsAssumption
<1>2. DOMAIN req' = Worker
  BY <1>0 DEF Finish
<1>3. links \in [Link -> 0..MaxLink] /\ MaxLink \in Nat /\ links[l] \in 0..MaxLink
  BY LinksAssumption DEF LinksInvariant
<1> DEFINE n == IF step = "link" THEN (IF Refused(l) \/ links[l] = MaxLink THEN links[l] ELSE links[l] + 1)
                ELSE (IF links[l] = 0 THEN links[l] ELSE links[l] - 1)
<1>4. n \in 0..MaxLink
  BY <1>3
<1>5. links' = [links EXCEPT ![l] = n]
  BY <1>3
<1>6. l.pin # Unpinned => n <= 1
  <2>1. l.pin # Unpinned => links[l] <= 1 /\ (Refused(l) <=> links[l] > 0)
    BY DEF LinksInvariant, Refused, MadeLinks
  <2> QED
    BY <1>3, <2>1
<1>7. Serial => n <= 1
  <2>1. Serial => links[l] <= 1 /\ (step = "link" => links[l] = 0)
    BY DEF LinksInvariant
  <2> QED
    BY <1>3, <2>1
<1> HIDE DEF n
<1>8. links' \in [Link -> 0..MaxLink]
  BY <1>3, <1>4, <1>5
<1>9. \A k \in Link : links'[k] = IF k = l THEN n ELSE links[k]
  BY <1>3, <1>5
<1>10. (\A k \in Link : k.pin # Unpinned => links'[k] <= 1) /\ (Serial => \A k \in Link : links'[k] <= 1)
  BY <1>6, <1>7, <1>9 DEF LinksInvariant
<1>11. \A v \in Worker : req'[v].step \in {"link", "unlink"} => req'[v].link \in Link
  BY <1>1 DEF LinksInvariant, Idle
<1> QED
  BY <1>1, <1>2, <1>8, <1>10, <1>11 DEF LinksInvariant

LEMMA OthersKeepLinks ==
  ASSUME LinksInvariant, Elsewhere({"link", "unlink"}), UNCHANGED links
  PROVE  LinksInvariant'
<1>1. DOMAIN req = Worker
  BY DEF LinksInvariant
<1> DEFINE steps == {"link", "unlink"}
<1>2. /\ DOMAIN req' = Worker /\ (Serial' <=> Serial)
      /\ \A v \in Worker : req'[v] = req[v] \/ req'[v].step \notin steps
  <2> HIDE DEF steps
  <2>1. Elsewhere(steps)
    BY DEF steps
  <2> QED
    BY <1>1, <2>1, ElsewhereStays
<1> QED
  BY <1>2 DEF LinksInvariant

LEMMA LinksStep ==
  ASSUME LinksInvariant, [AdministrationNext]_administrationVars
  PROVE  LinksInvariant'
<1>1. DOMAIN req = Worker
  BY DEF LinksInvariant
<1>2. CASE LinksNext
  <2>1. ASSUME NEW w \in Worker, NEW u, NEW l \in Link, AddLink(w, u, l) PROVE LinksInvariant'
    <3>1. Begin(w, [step |-> "link", link |-> l]) /\ UNCHANGED links /\ l \notin MadeLinks
      BY <2>1 DEF AddLink, LoadLinks
    <3> QED
      BY <3>1, LinkRequestBegins
  <2>2. ASSUME NEW w \in Worker, NEW u, NEW l \in Link, NEW reasoned, RemoveLink(w, u, l, reasoned)
        PROVE  LinksInvariant'
    <3>1. Begin(w, [step |-> "unlink", link |-> l]) /\ UNCHANGED links
      BY <2>2 DEF RemoveLink, LoadLinks
    <3> QED
      BY <3>1, LinkRequestBegins
  <2>3. ASSUME NEW u, NEW e, AddComment(u, e) PROVE LinksInvariant'
    <3>1. UNCHANGED <<links, req>>
      BY <2>3 DEF AddComment
    <3>2. Elsewhere({"link", "unlink"})
      BY <3>1 DEF Elsewhere
    <3> QED
      BY <3>1, <3>2, OthersKeepLinks
  <2>4. ASSUME NEW w \in Worker, CommitLink(w) PROVE LinksInvariant'
    <3> DEFINE l == req[w].link
    <3>1. l \in Link /\ req[w].step = "link" /\ Finish(w)
      BY <2>4 DEF LinksInvariant, CommitLink
    <3>2. links' = IF Refused(l) \/ links[l] = MaxLink THEN links ELSE [links EXCEPT ![l] = @ + 1]
      BY <2>4 DEF CommitLink
    <3> QED
      BY <3>1, <3>2, LinkRequestFinishes
  <2>5. ASSUME NEW w \in Worker, CommitUnlink(w) PROVE LinksInvariant'
    <3> DEFINE l == req[w].link
    <3>1. l \in Link /\ req[w].step = "unlink" /\ Finish(w)
      BY <2>5 DEF LinksInvariant, CommitUnlink
    <3>2. links' = IF links[l] = 0 THEN links ELSE [links EXCEPT ![l] = @ - 1]
      BY <2>5 DEF CommitUnlink
    <3> QED
      BY <3>1, <3>2, LinkRequestFinishes
  <2>6. Waiting \subseteq Worker
    BY DEF Waiting
  <2> QED
    BY <1>2, <2>1, <2>2, <2>3, <2>4, <2>5, <2>6 DEF LinksNext
<1>3. CASE Elsewhere({"link", "unlink"}) /\ UNCHANGED links
  BY <1>3, OthersKeepLinks
<1> QED
  BY <1>1, <1>2, <1>3, AreasAreApart

(* The inductive invariant of the links: one that is pinned to a version   *)
(* is made once whatever races, for the table has it unique; one that is   *)
(* not, while requests are served one at a time, for what the request      *)
(* looked up is so still (links.py:35).                                    *)
THEOREM LinksInvariantHolds == AdministrationSpec => []LinksInvariant
<1>1. AdministrationInit => LinksInvariant
  BY LinksInitHolds
<1>2. LinksInvariant /\ [AdministrationNext]_administrationVars => LinksInvariant'
  BY LinksStep
<1> QED
  BY <1>1, <1>2, PTL DEF AdministrationSpec

(* Who is sent a link may open both of its ends.                           *)
LEMMA ListedEndsAreSeen ==
  ASSUME NEW s, NEW e, NEW l \in Listed(s, e), load(s, e, "viewer")
  PROVE  can_see(s, UnitOf[l.from]) /\ can_see(s, UnitOf[l.to])
<1>1. e \in {l.from, l.to} /\ \A o \in {l.from, l.to} \ {e} : load(s, o, "viewer")
  BY DEF Listed, Touching
<1>2. \A o \in {l.from, l.to} : load(s, o, "viewer")
  BY <1>1
<1> QED
  BY <1>2 DEF load
-----------------------------------------------------------------------------
(* The notices: what a run has found is a notice each, of which no more    *)
(* than one row is ever kept, and is sent or about to be.                  *)
NoticeTables ==
  /\ today \in Day
  /\ items \in [Item -> [owner : User, due : Day, open : BOOLEAN]]
  /\ notices \in [Notice -> {0, 1}]

ReminderRun(q) ==
  /\ q.due \subseteq Notice /\ q.batch \subseteq q.due
  /\ \A n \in q.due : n \in q.batch \/ Sent(n)

NoticesInvariant ==
  /\ DOMAIN req = Worker
  /\ NoticeTables
  /\ \A n \in reminded : n \in Notice /\ Sent(n)
  /\ \A w \in Worker : req[w].step = "remind" => ReminderRun(req[w])

(* What is found due is told apart by what the key of a notice holds.      *)
LEMMA DueAreNotices == ASSUME NoticeTables PROVE Due \subseteq Notice
<1> SUFFICES ASSUME NEW i \in Item, NEW kind \in Kinds(i) PROVE Reminder(i, kind) \in Notice
  BY DEF Due
<1>1. items[i].owner \in User /\ items[i].due \in Day /\ today \in Day
  BY DEF NoticeTables
<1>2. kind \in {"overdue", "due_soon"}
  BY DEF Kinds
<1> QED
  BY <1>1, <1>2 DEF Reminder, Notice

LEMMA RunRemindersKeeps ==
  ASSUME NoticesInvariant, NEW w \in Worker, RunReminders(w)
  PROVE  NoticesInvariant'
<1> DEFINE r == [step |-> "remind", due |-> Due, batch |-> {n \in Due : ~Sent(n)}]
<1>1. req' = [req EXCEPT ![w] = r] /\ UNCHANGED <<today, items, notices, reminded>> /\ DOMAIN req = Worker
  BY DEF RunReminders, Begin, NoticesInvariant
<1>2. ReminderRun(r)
  BY DueAreNotices DEF ReminderRun, NoticesInvariant
<1> HIDE DEF r
<1>3. DOMAIN req' = Worker /\ \A v \in Worker : req'[v] = IF v = w THEN r ELSE req[v]
  BY <1>1
<1>4. \A n : (Sent(n))' <=> Sent(n)
  BY <1>1 DEF Sent
<1>5. \A v \in Worker : req'[v].step = "remind" => (ReminderRun(req[v]))'
  <2> TAKE v \in Worker
  <2> HAVE req'[v].step = "remind"
  <2>1. ReminderRun(req'[v])
    BY <1>2, <1>3 DEF NoticesInvariant
  <2>2. /\ req'[v].due \subseteq Notice /\ req'[v].batch \subseteq req'[v].due
        /\ \A n \in req'[v].due : n \in req'[v].batch \/ Sent(n)
    BY <2>1 DEF ReminderRun
  <2> QED
    BY <1>4, <2>2 DEF ReminderRun
<1>6. NoticeTables'
  BY <1>1 DEF NoticesInvariant, NoticeTables
<1>7. \A n \in reminded' : n \in Notice /\ (Sent(n))'
  BY <1>1, <1>4 DEF NoticesInvariant
<1> QED
  BY <1>3, <1>5, <1>6, <1>7 DEF NoticesInvariant

(* What was sent stays sent.                                               *)
LEMMA NoticesStay ==
  ASSUME NoticesInvariant, DOMAIN req' = Worker, NoticeTables',
         \A n \in Notice : Sent(n) => (Sent(n))',
         \A n \in reminded' : n \in Notice /\ (Sent(n))',
         \A v \in Worker : req'[v] = req[v] \/ req'[v].step # "remind"
  PROVE  NoticesInvariant'
<1>1. ASSUME NEW v \in Worker, req'[v].step = "remind" PROVE (ReminderRun(req[v]))'
  <2>1. req'[v] = req[v] /\ ReminderRun(req[v])
    BY <1>1 DEF NoticesInvariant
  <2>2. /\ req[v].due \subseteq Notice /\ req[v].batch \subseteq req[v].due
        /\ \A n \in req[v].due : n \in req[v].batch \/ Sent(n)
    BY <2>1 DEF ReminderRun
  <2>3. /\ req'[v].due \subseteq Notice /\ req'[v].batch \subseteq req'[v].due
        /\ \A n \in req'[v].due : n \in req'[v].batch \/ (Sent(n))'
    BY <2>1, <2>2
  <2> QED
    BY <2>3 DEF ReminderRun
<1> QED
  BY <1>1 DEF NoticesInvariant

(* The unique key keeps a run from sending again what another has sent.    *)
LEMMA CommitRemindersKeeps ==
  ASSUME NoticesInvariant, NEW w \in Worker, CommitReminders(w)
  PROVE  NoticesInvariant'
<1> DEFINE q == req[w]
<1>0. /\ DOMAIN req = Worker /\ q.step = "remind" /\ req' = [req EXCEPT ![w] = Idle]
      /\ q.due \subseteq Notice /\ q.batch \subseteq q.due
      /\ \A n \in q.due : n \in q.batch \/ Sent(n)
      /\ UNCHANGED <<today, items>>
  BY DEF NoticesInvariant, CommitReminders, Finish, ReminderRun
<1>1. DOMAIN req' = Worker /\ \A v \in Worker : req'[v] = req[v] \/ req'[v].step # "remind"
  BY <1>0 DEF Idle
<1>2. CASE AlreadySent(q.batch)
  <2>1. UNCHANGED <<notices, reminded>>
    BY <1>2 DEF CommitReminders
  <2>2. NoticeTables' /\ \A n : (Sent(n))' <=> Sent(n)
    BY <1>0, <2>1 DEF NoticesInvariant, NoticeTables, Sent
  <2>3. \A n \in reminded' : n \in Notice /\ (Sent(n))'
    BY <2>1, <2>2 DEF NoticesInvariant
  <2> QED
    BY <1>1, <2>2, <2>3, NoticesStay
<1>3. CASE ~AlreadySent(q.batch)
  <2>1. notices' = OneMore(notices, q.batch) /\ reminded' = q.due
    BY <1>3 DEF CommitReminders
  <2> HIDE DEF q
  <2>2. notices \in [Notice -> {0, 1}]
    BY DEF NoticesInvariant, NoticeTables
  <2>3. \A n \in q.batch : ~(notices[n] > 0)
    BY <1>3 DEF AlreadySent, Sent
  <2>4. \A n \in q.batch : n \in Notice /\ notices[n] = 0
    BY <1>0, <2>2, <2>3
  <2>5. /\ DOMAIN notices' = Notice
        /\ \A n \in Notice : notices'[n] = IF n \in q.batch THEN notices[n] + 1 ELSE notices[n]
        /\ notices' = [n \in Notice |-> notices'[n]]
    BY <2>1 DEF OneMore
  <2>6. \A n \in Notice : notices'[n] \in {0, 1} /\ (n \in q.batch \/ notices[n] > 0 => notices'[n] > 0)
    BY <2>2, <2>4, <2>5
  <2>7. NoticeTables'
    <3>1. notices' \in [Notice -> {0, 1}]
      BY <2>5, <2>6
    <3> QED
      BY <1>0, <3>1 DEF NoticesInvariant, NoticeTables
  <2>8. \A n \in Notice : (n \in q.batch \/ Sent(n)) => (Sent(n))'
    BY <2>6 DEF Sent
  <2>9. \A n \in reminded' : n \in Notice /\ (Sent(n))'
    BY <1>0, <2>1, <2>8
  <2> QED
    BY <1>1, <2>7, <2>8, <2>9, NoticesStay
<1> QED
  BY <1>2, <1>3

LEMMA OthersKeepNotices ==
  ASSUME NoticesInvariant, Elsewhere({"remind"}), UNCHANGED <<notices, reminded>>, NoticeTables'
  PROVE  NoticesInvariant'
<1> DEFINE steps == {"remind"}
<1>1. /\ DOMAIN req' = Worker
      /\ \A v \in Worker : req'[v] = req[v] \/ req'[v].step \notin steps
  <2>1. DOMAIN req = Worker
    BY DEF NoticesInvariant
  <2> HIDE DEF steps
  <2>2. Elsewhere(steps)
    BY DEF steps
  <2> QED
    BY <2>1, <2>2, ElsewhereStays
<1>2. \A n : (Sent(n))' <=> Sent(n)
  BY DEF Sent
<1>3. \A n \in reminded' : n \in Notice /\ (Sent(n))'
  BY <1>2 DEF NoticesInvariant
<1> QED
  BY <1>1, <1>2, <1>3, NoticesStay

LEMMA ItemsAndDaysKeep ==
  ASSUME NoticesInvariant
  PROVE  /\ NextDay => NoticesInvariant'
         /\ \A i \in Item, o \in Account, due \in Day, open \in BOOLEAN : SetItem(i, o, due, open) => NoticesInvariant'
         /\ \A n \in Notice : ReadNotice(n) => NoticesInvariant'
         /\ \A u \in User : ReadAll(u) => NoticesInvariant'
<1>1. ASSUME UNCHANGED <<notices, reminded, req>>, NoticeTables' PROVE NoticesInvariant'
  BY <1>1, OthersKeepNotices DEF Elsewhere
<1>2. ASSUME NextDay PROVE NoticesInvariant'
  <2>1. today' \in Day
    BY <1>2, NoticesAssumption DEF NextDay, NoticesInvariant, NoticeTables, Day
  <2>2. NoticeTables'
    BY <1>2, <2>1 DEF NextDay, NoticesInvariant, NoticeTables
  <2> QED
    BY <1>1, <1>2, <2>2 DEF NextDay
<1>3. ASSUME NEW i \in Item, NEW o \in Account, NEW due \in Day, NEW open \in BOOLEAN, SetItem(i, o, due, open)
      PROVE  NoticesInvariant'
  <2> DEFINE ItemRow == [owner : User, due : Day, open : BOOLEAN]
             row == [owner |-> o, due |-> due, open |-> open]
  <2>1. row \in ItemRow
    BY DEF Account
  <2>2. items \in [Item -> ItemRow] /\ items' = [items EXCEPT ![i] = row]
    BY <1>3 DEF SetItem, NoticesInvariant, NoticeTables
  <2> HIDE DEF ItemRow, row
  <2>3. items' \in [Item -> ItemRow]
    BY <2>1, <2>2
  <2>4. NoticeTables'
    BY <1>3, <2>3 DEF SetItem, NoticesInvariant, NoticeTables, ItemRow
  <2> QED
    BY <1>1, <1>3, <2>4 DEF SetItem
<1>4. ASSUME UNCHANGED <<today, items, notices, reminded, req>> PROVE NoticesInvariant'
  BY <1>1, <1>4 DEF NoticesInvariant, NoticeTables
<1>5. ASSUME NEW n \in Notice, ReadNotice(n) PROVE NoticesInvariant'
  BY <1>4, <1>5 DEF ReadNotice
<1>6. ASSUME NEW u \in User, ReadAll(u) PROVE NoticesInvariant'
  BY <1>4, <1>6 DEF ReadAll
<1> QED
  BY <1>2, <1>3, <1>5, <1>6

LEMMA NoticesStep ==
  ASSUME NoticesInvariant, [AdministrationNext]_administrationVars
  PROVE  NoticesInvariant'
<1>1. DOMAIN req = Worker
  BY DEF NoticesInvariant
<1>2. CASE NoticesNext
  BY <1>2, RunRemindersKeeps, CommitRemindersKeeps, ItemsAndDaysKeep DEF NoticesNext
<1>3. CASE Elsewhere({"remind"}) /\ UNCHANGED noticeVars
  BY <1>3, OthersKeepNotices DEF noticeVars, NoticesInvariant, NoticeTables
<1> QED
  BY <1>1, <1>2, <1>3, AreasAreApart

LEMMA NoticesInitHolds == ASSUME AdministrationInit PROVE NoticesInvariant
<1>1. DOMAIN req = Worker /\ \A w \in Worker : req[w].step \in {"idle", "off"}
  BY DEF AdministrationInit, RequestsInit, Idle, Off
<1>2. /\ today = 0 /\ notices = [n \in Notice |-> 0] /\ reminded = {}
      /\ items = [i \in Item |-> [owner |-> DefaultAdmin, due |-> MaxDay, open |-> FALSE]]
  BY DEF AdministrationInit, NoticesInit
<1>3. 0 \in Day /\ MaxDay \in Day /\ DefaultAdmin \in User
  BY NoticesAssumption, AccountsAssumption DEF Day
<1>4. NoticeTables
  BY <1>2, <1>3 DEF NoticeTables
<1> QED
  BY <1>1, <1>2, <1>4 DEF NoticesInvariant

(* The inductive invariant of the reminders, which holds however many runs *)
(* of the command race.                                                    *)
THEOREM NoticesInvariantHolds == AdministrationSpec => []NoticesInvariant
<1>1. AdministrationInit => NoticesInvariant
  BY NoticesInitHolds
<1>2. NoticesInvariant /\ [AdministrationNext]_administrationVars => NoticesInvariant'
  BY NoticesStep
<1> QED
  BY <1>1, <1>2, PTL DEF AdministrationSpec

(* A pinned link between two records is made once, however requests race,  *)
(* and one without a version while they do not (links.py:35); a run of the *)
(* reminders that finished has left every notice of its day, and no notice *)
(* has two rows, however many runs race (models.py:198,                    *)
(* notifications.py:62).                                                   *)
THEOREM NothingIsEverMadeTwice == AdministrationSpec => []NothingIsMadeTwice
<1>1. LinksInvariant => LinksAreMadeOnce
  BY ListedEndsAreSeen DEF LinksInvariant, LinksAreMadeOnce
<1>2. NoticesInvariant => RemindersAreDailyAndOnce
  <2> SUFFICES ASSUME NoticesInvariant PROVE RemindersAreDailyAndOnce
    OBVIOUS
  <2>1. \A n \in Notice : notices[n] \in {0, 1}
    BY DEF NoticesInvariant, NoticeTables
  <2>2. \A n \in Notice : notices[n] <= 1
    BY <2>1
  <2> QED
    BY <2>2 DEF NoticesInvariant, RemindersAreDailyAndOnce
<1>3. LinksInvariant /\ NoticesInvariant => NothingIsMadeTwice
  BY <1>1, <1>2 DEF NothingIsMadeTwice
<1> QED
  BY <1>3, LinksInvariantHolds, NoticesInvariantHolds, PTL
-----------------------------------------------------------------------------
(* The monthly returns.                                                    *)
Figures == Token \cup {NoFigures, ByHand}
Sheet == [SchemeMonth -> {"ok", "error", "absent"}]
LogEntry ==
  {q \in [step : {"log"}, token : Token, rows : Nat, inserted : Nat, replaced : Nat, skipped : Nat, errored : Nat] :
     q.rows = q.inserted + q.replaced + q.skipped + q.errored}

ReturnRequest(q) ==
  /\ q.step = "upload" => q.token \in Token /\ q.rows \subseteq SchemeMonth /\ q.modes \in [SchemeMonth -> Modes]
  /\ q.step = "log" => q \in LogEntry

(* However requests race.                                                  *)
ReturnsAreRows ==
  /\ DOMAIN req = Worker
  /\ records \in [SchemeMonth -> Figures]
  /\ previews \in [Token -> Sheet]
  /\ issued \subseteq Token
  /\ byHand \in Int /\ unlogged \in Int
  /\ uploads \in Seq(LogEntry)
  /\ \A w \in Worker : ReturnRequest(req[w])

(* On its own, an upload spends its token, and finds what it looked up.    *)
Spent(t) == t \in issued /\ previews[t] = NoPreview
ReturnServed(q) ==
  /\ q.step = "log" => Spent(q.token) /\ \A n \in DOMAIN uploads : uploads[n].token # q.token
  /\ q.step = "upload" => q.token \in Previewed /\ (q.found <=> q.first \in Recorded)

InsertedBy(C) == SumOf([c \in C |-> c.inserted], C)

ReturnsAreAccounted ==
  Serial => /\ \A m, n \in DOMAIN uploads : uploads[m].token = uploads[n].token => m = n
            /\ \A n \in DOMAIN uploads : Spent(uploads[n].token)
            /\ \A w \in Worker : ReturnServed(req[w])
            /\ Cardinality(Recorded) = byHand + unlogged + InsertedBy(Committed)

ReturnsInvariant == ReturnsAreRows /\ ReturnsAreAccounted

(* What is in the log.                                                     *)
LEMMA EntryColumns ==
  ASSUME NEW q \in LogEntry
  PROVE  /\ q.step = "log" /\ q.token \in Token /\ q.inserted \in Nat
         /\ q.rows = q.inserted + q.replaced + q.skipped + q.errored
BY DEF LogEntry

LEMMA ImageIsFinite ==
  ASSUME NEW D, IsFiniteSet(D), NEW f
  PROVE  IsFiniteSet({f[x] : x \in D})
<1> DEFINE T == {f[x] : x \in D}
           g == [x \in D |-> f[x]]
<1>1. g \in Surjection(D, T)
  BY DEF Surjection
<1> HIDE DEF g, T
<1>2. IsFiniteSet(T)
  BY <1>1, FS_Surjection
<1> QED
  BY <1>2 DEF T

LEMMA CommittedIsFinite ==
  ASSUME ReturnsAreRows
  PROVE  IsFiniteSet(Committed) /\ Committed \subseteq LogEntry
<1> DEFINE on == {v \in Worker : req[v].step = "log"}
           log == {uploads[n] : n \in DOMAIN uploads}
           flying == {req[w] : w \in on}
<1>0. uploads \in Seq(LogEntry) /\ \A w \in on : req[w] \in LogEntry
  BY DEF ReturnsAreRows, ReturnRequest
<1>1. DOMAIN uploads = 1..Len(uploads) /\ Len(uploads) \in Nat /\ \A n \in DOMAIN uploads : uploads[n] \in LogEntry
  <2> DEFINE E == LogEntry
  <2>1. uploads \in Seq(E)
    BY <1>0
  <2> HIDE DEF E
  <2>2. DOMAIN uploads = 1..Len(uploads) /\ Len(uploads) \in Nat /\ \A n \in DOMAIN uploads : uploads[n] \in E
    BY <2>1
  <2> QED
    BY <2>2 DEF E
<1>2. IsFiniteSet(DOMAIN uploads)
  BY <1>1, FS_Interval
<1>3. IsFiniteSet(on)
  BY FS_Subset, RequestsAssumption DEF RequestsAssumption
<1> HIDE DEF on
<1>4. IsFiniteSet(log) /\ IsFiniteSet(flying)
  BY <1>2, <1>3, ImageIsFinite
<1>5. log \subseteq LogEntry /\ flying \subseteq LogEntry
  BY <1>0, <1>1
<1>6. Committed = log \cup flying
  BY DEF Committed, on
<1> HIDE DEF log, flying
<1> QED
  BY <1>4, <1>5, <1>6, FS_Union

LEMMA InsertedIsNumber ==
  ASSUME NEW C, C \subseteq LogEntry
  PROVE  Numbers([c \in C |-> c.inserted], C)
BY EntryColumns DEF Numbers

LEMMA InsertedWith ==
  ASSUME NEW C, IsFiniteSet(C), C \subseteq LogEntry, NEW e \in LogEntry, e \notin C
  PROVE  InsertedBy(C \cup {e}) = e.inserted + InsertedBy(C) /\ InsertedBy(C) \in Int
<1> DEFINE D == C \cup {e}
           f == [c \in D |-> c.inserted]
           g == [c \in C |-> c.inserted]
<1>1. Numbers(f, D) /\ Numbers(g, C)
  BY InsertedIsNumber
<1>2. EqualOn(f, g, C) /\ f[e] = e.inserted
  BY DEF EqualOn
<1> HIDE DEF f, g
<1>3. SumOf(f, D) = f[e] + SumOf(f, C)
  BY <1>1, SumWith
<1>4. SumOf(f, C) = SumOf(g, C) /\ SumOf(g, C) \in Int
  BY <1>1, <1>2, SumOfSame, SumIsInteger
<1> QED
  BY <1>2, <1>3, <1>4 DEF InsertedBy, f, g

(* The sum that the history is read by.                                    *)
LEMMA InsertedIsSum ==
  ASSUME NEW S
  PROVE  MapThenSumSet(LAMBDA c : c.inserted, S) = InsertedBy(S)
<1> DEFINE f == [c \in S |-> c.inserted]
           Left(sum) == [s \in SUBSET S |-> IF s = {} THEN 0 ELSE Picked(s).inserted + sum[s \ {Picked(s)}]]
           Right(sum) == SumStep(f, SUBSET S, sum)
<1>1. \A sum : Left(sum) = Right(sum)
  <2> TAKE sum
  <2>1. ASSUME NEW s \in SUBSET S, s # {} PROVE f[Picked(s)] = Picked(s).inserted
    <3>1. Picked(s) \in S
      BY <2>1 DEF Picked
    <3> QED
      BY <3>1
  <2> QED
    BY <2>1 DEF SumStep
<1>2. MapThenSumSet(LAMBDA c : c.inserted, S) = (CHOOSE sum : sum = Left(sum))[S]
  BY DEF MapThenSumSet, MapThenFoldSet, Picked
<1>3. SumOf(f, S) = (CHOOSE sum : sum = Right(sum))[S]
  BY DEF SumOf
<1> HIDE DEF Left, Right
<1>4. (CHOOSE sum : sum = Left(sum)) = (CHOOSE sum : sum = Right(sum))
  BY <1>1
<1> QED
  BY <1>2, <1>3, <1>4 DEF InsertedBy

(* What a commit says became of its rows adds up to them.                  *)
LEMMA DisjointUnion ==
  ASSUME NEW S, IsFiniteSet(S), NEW T, IsFiniteSet(T), S \cap T = {}
  PROVE  /\ IsFiniteSet(S \cup T) /\ Cardinality(S \cup T) = Cardinality(S) + Cardinality(T)
         /\ Cardinality(S) \in Nat /\ Cardinality(T) \in Nat
<1>1. Cardinality(S \cap T) = 0
  BY FS_EmptySet
<1>2. Cardinality(S) \in Nat /\ Cardinality(T) \in Nat
  BY FS_CardinalityType
<1>3. /\ IsFiniteSet(S \cup T)
      /\ Cardinality(S \cup T) = Cardinality(S) + Cardinality(T) - Cardinality(S \cap T)
  BY FS_Union
<1> QED
  BY <1>1, <1>2, <1>3

LEMMA FourParts ==
  ASSUME NEW A, NEW B, NEW C, NEW D, IsFiniteSet(A), IsFiniteSet(B), IsFiniteSet(C), IsFiniteSet(D),
         A \cap B = {}, (A \cup B) \cap C = {}, (A \cup B \cup C) \cap D = {}
  PROVE  /\ Cardinality(A \cup B \cup C \cup D)
              = Cardinality(A) + Cardinality(B) + Cardinality(C) + Cardinality(D)
         /\ Cardinality(A) \in Nat /\ Cardinality(B) \in Nat /\ Cardinality(C) \in Nat /\ Cardinality(D) \in Nat
<1>1. IsFiniteSet(A \cup B) /\ Cardinality(A \cup B) = Cardinality(A) + Cardinality(B)
  BY DisjointUnion
<1> DEFINE AB == A \cup B
<1>2. IsFiniteSet(AB) /\ AB \cap C = {}
  BY <1>1
<1> HIDE DEF AB
<1>3. IsFiniteSet(AB \cup C) /\ Cardinality(AB \cup C) = Cardinality(AB) + Cardinality(C)
  BY <1>2, DisjointUnion
<1> DEFINE ABC == AB \cup C
<1>4. IsFiniteSet(ABC) /\ ABC \cap D = {}
  BY <1>3 DEF AB
<1> HIDE DEF ABC
<1>5. Cardinality(ABC \cup D) = Cardinality(ABC) + Cardinality(D)
  BY <1>4, DisjointUnion
<1>6. Cardinality(A) \in Nat /\ Cardinality(B) \in Nat /\ Cardinality(C) \in Nat /\ Cardinality(D) \in Nat
  BY FS_CardinalityType
<1>7. Cardinality(ABC) = Cardinality(A) + Cardinality(B) + Cardinality(C)
  BY <1>1, <1>3 DEF AB, ABC
<1>8. ABC \cup D = A \cup B \cup C \cup D
  BY DEF AB, ABC
<1> QED
  BY <1>5, <1>6, <1>7, <1>8

LEMMA FateIsOneOf ==
  ASSUME NEW q, NEW k
  PROVE  Fate(q, k) \in {"inserted", "replaced", "skipped", "errored"}
BY DEF Fate, Insert

LEMMA CountsAddUp ==
  ASSUME NEW q, q.rows \subseteq SchemeMonth
  PROVE  /\ Cardinality(q.rows) = Count(q, "inserted") + Count(q, "replaced") + Count(q, "skipped") + Count(q, "errored")
         /\ Cardinality(q.rows) \in Nat /\ Count(q, "inserted") \in Nat /\ Count(q, "replaced") \in Nat
         /\ Count(q, "skipped") \in Nat /\ Count(q, "errored") \in Nat
<1> DEFINE Part(fate) == {k \in q.rows : Fate(q, k) = fate}
           S == q.rows
           A == Part("inserted")
           B == Part("replaced")
           C == Part("skipped")
           D == Part("errored")
<1>1. IsFiniteSet(S)
  BY FS_Subset, ReturnsAssumption
<1>2. S = A \cup B \cup C \cup D
  BY FateIsOneOf
<1>3. A \cap B = {} /\ (A \cup B) \cap C = {} /\ (A \cup B \cup C) \cap D = {}
  OBVIOUS
<1>4. /\ Count(q, "inserted") = Cardinality(A) /\ Count(q, "replaced") = Cardinality(B)
      /\ Count(q, "skipped") = Cardinality(C) /\ Count(q, "errored") = Cardinality(D)
  BY DEF Count
<1>5. IsFiniteSet(A) /\ IsFiniteSet(B) /\ IsFiniteSet(C) /\ IsFiniteSet(D)
  BY <1>1, FS_Subset
<1> HIDE DEF S, A, B, C, D
<1>6. /\ Cardinality(A \cup B \cup C \cup D)
           = Cardinality(A) + Cardinality(B) + Cardinality(C) + Cardinality(D)
      /\ Cardinality(A) \in Nat /\ Cardinality(B) \in Nat /\ Cardinality(C) \in Nat /\ Cardinality(D) \in Nat
  BY <1>3, <1>5, FourParts
<1>7. Cardinality(S) \in Nat /\ Cardinality(S) = Cardinality(A) + Cardinality(B) + Cardinality(C) + Cardinality(D)
  BY <1>2, <1>6
<1> QED
  BY <1>4, <1>6, <1>7 DEF S

LEMMA ReturnsInitHolds == ASSUME AdministrationInit PROVE ReturnsInvariant
<1>1. DOMAIN req = Worker /\ \A w \in Worker : req[w].step \in {"idle", "off"}
  BY DEF AdministrationInit, RequestsInit, Idle, Off
<1>2. /\ records = [k \in SchemeMonth |-> NoFigures] /\ previews = [t \in Token |-> NoPreview]
      /\ uploads = <<>> /\ issued = {} /\ byHand = 0 /\ unlogged = 0
  BY DEF AdministrationInit, ReturnsInit
<1>3. NoPreview \in Sheet
  BY DEF NoPreview, Sheet
<1>4. uploads \in Seq(LogEntry) /\ DOMAIN uploads = {}
  <2> DEFINE E == LogEntry
  <2> HIDE DEF E
  <2>1. uploads \in Seq(E) /\ DOMAIN uploads = {}
    BY <1>2
  <2> QED
    BY <2>1 DEF E
<1>5. ReturnsAreRows
  BY <1>1, <1>2, <1>3, <1>4 DEF ReturnsAreRows, ReturnRequest, Figures
<1>6. Recorded = {} /\ Committed = {}
  BY <1>1, <1>2, <1>4 DEF Recorded, Committed
<1>7. Cardinality(Recorded) = 0 /\ InsertedBy(Committed) = 0
  BY <1>6, FS_EmptySet, SumOfNone DEF InsertedBy
<1>8. ReturnsAreAccounted
  BY <1>1, <1>2, <1>4, <1>7 DEF ReturnsAreAccounted, ReturnServed
<1> QED
  BY <1>5, <1>8 DEF ReturnsInvariant

(* What needs no request in flight: previews, their expiry, and edits.     *)
LEMMA QuietReturns ==
  ASSUME ReturnsInvariant, Free, UNCHANGED <<req, uploads, unlogged>>,
         records' \in [SchemeMonth -> Figures], previews' \in [Token -> Sheet], issued' \subseteq Token, byHand' \in Int,
         \A t \in Token : Spent(t) => t \in issued' /\ previews'[t] = NoPreview,
         Cardinality(Recorded') - byHand' = Cardinality(Recorded) - byHand
  PROVE  ReturnsInvariant'
<1>1. ReturnsAreRows'
  BY DEF ReturnsInvariant, ReturnsAreRows, ReturnRequest
<1>2. Committed' = Committed /\ (Serial' <=> Serial)
  BY DEF Committed, Serial
<1>3. \A w \in Worker : Serial => ReturnServed(req[w])'
  BY SerialIsAlone, RequestsAssumption DEF InFlight, ReturnServed
<1>4. IsFiniteSet(Committed) /\ Committed \subseteq LogEntry
  BY CommittedIsFinite DEF ReturnsInvariant
<1>5. InsertedBy(Committed) \in Int
  BY <1>4, InsertedIsNumber, SumIsInteger DEF InsertedBy
<1>6. Cardinality(Recorded) \in Int /\ Cardinality(Recorded') \in Int
  <2>1. \A S \in SUBSET SchemeMonth : Cardinality(S) \in Nat
    BY ReturnsAssumption, FS_Subset, FS_CardinalityType
  <2>2. Recorded \in SUBSET SchemeMonth /\ Recorded' \in SUBSET SchemeMonth
    BY DEF Recorded
  <2> QED
    BY <2>1, <2>2
<1>7. Serial => Cardinality(Recorded') = byHand' + unlogged' + InsertedBy(Committed)
  <2>1. Serial => Cardinality(Recorded) = byHand + unlogged + InsertedBy(Committed)
    BY DEF ReturnsInvariant, ReturnsAreAccounted
  <2>2. byHand \in Int /\ unlogged \in Int
    BY DEF ReturnsInvariant, ReturnsAreRows
  <2> QED
    BY <1>5, <1>6, <2>1, <2>2
<1>8. \A n \in DOMAIN uploads : uploads[n].token \in Token
  <2> DEFINE E == LogEntry
  <2>1. uploads \in Seq(E) /\ \A e \in E : e.token \in Token
    BY EntryColumns DEF ReturnsInvariant, ReturnsAreRows
  <2> HIDE DEF E
  <2> QED
    BY <2>1
<1>9. Serial => \A n \in DOMAIN uploads : Spent(uploads[n].token)'
  BY <1>8 DEF ReturnsInvariant, ReturnsAreAccounted, Spent
<1>10. ReturnsAreAccounted'
  <2>1. InsertedBy(Committed)' = InsertedBy(Committed)
    BY <1>2 DEF InsertedBy
  <2> QED
    BY <1>2, <1>3, <1>7, <1>9, <2>1 DEF ReturnsInvariant, ReturnsAreAccounted
<1> QED
  BY <1>1, <1>10 DEF ReturnsInvariant

LEMMA PreviewKeeps ==
  ASSUME ReturnsInvariant, NEW a, NEW t \in Token, NEW rows \in Sheet, Preview(a, t, rows)
  PROVE  ReturnsInvariant'
<1>1. /\ Free /\ t \notin issued /\ issued' = issued \cup {t} /\ previews' = [previews EXCEPT ![t] = rows]
      /\ UNCHANGED <<records, uploads, byHand, unlogged, req>>
  BY DEF Preview
<1>2. previews \in [Token -> Sheet] /\ issued \subseteq Token /\ records \in [SchemeMonth -> Figures] /\ byHand \in Int
  BY DEF ReturnsInvariant, ReturnsAreRows
<1>3. \A s \in Token : Spent(s) => s \in issued' /\ previews'[s] = NoPreview
  BY <1>1, <1>2 DEF Spent
<1>4. Cardinality(Recorded') - byHand' = Cardinality(Recorded) - byHand
  BY <1>1 DEF Recorded
<1>5. previews' \in [Token -> Sheet]
  <2> DEFINE X == Sheet
  <2> HIDE DEF X
  <2>1. previews \in [Token -> X] /\ rows \in X
    BY <1>2 DEF X
  <2>2. previews' \in [Token -> X]
    BY <1>1, <2>1
  <2> QED
    BY <2>2 DEF X
<1>6. issued' \subseteq Token /\ records' \in [SchemeMonth -> Figures] /\ byHand' \in Int
  BY <1>1, <1>2
<1>7. Free /\ UNCHANGED <<req, uploads, unlogged>>
  BY <1>1
<1> QED
  BY <1>3, <1>4, <1>5, <1>6, <1>7, QuietReturns

LEMMA NoPreviewIsASheet == NoPreview \in Sheet
BY DEF NoPreview, Sheet

LEMMA DeletedIsSheets ==
  ASSUME ReturnsInvariant, NEW t \in Token
  PROVE  /\ Deleted(t) \in [Token -> Sheet] /\ Deleted(t)[t] = NoPreview
         /\ \A s \in Token : s # t => Deleted(t)[s] = previews[s]
<1> DEFINE X == Sheet
<1>1. previews \in [Token -> X] /\ NoPreview \in X
  BY NoPreviewIsASheet DEF ReturnsInvariant, ReturnsAreRows
<1> HIDE DEF X
<1>2. /\ Deleted(t) \in [Token -> X] /\ Deleted(t)[t] = NoPreview
      /\ \A s \in Token : s # t => Deleted(t)[s] = previews[s]
  BY <1>1 DEF Deleted
<1> QED
  BY <1>2 DEF X

LEMMA ExpireKeeps ==
  ASSUME ReturnsInvariant, NEW t \in Token, Expire(t)
  PROVE  ReturnsInvariant'
<1>1. Free /\ previews' = Deleted(t) /\ UNCHANGED <<issued, records, uploads, byHand, unlogged, req>>
  BY DEF Expire, others
<1>2. issued \subseteq Token /\ records \in [SchemeMonth -> Figures] /\ byHand \in Int
  BY DEF ReturnsInvariant, ReturnsAreRows
<1>3. previews' \in [Token -> Sheet]
  BY <1>1, DeletedIsSheets
<1>4. \A s \in Token : Spent(s) => s \in issued' /\ previews'[s] = NoPreview
  BY <1>1, DeletedIsSheets DEF Spent
<1>5. Cardinality(Recorded') - byHand' = Cardinality(Recorded) - byHand
  BY <1>1 DEF Recorded
<1>6. issued' \subseteq Token /\ records' \in [SchemeMonth -> Figures] /\ byHand' \in Int
  BY <1>1, <1>2
<1>7. Free /\ UNCHANGED <<req, uploads, unlogged>>
  BY <1>1
<1> QED
  BY <1>3, <1>4, <1>5, <1>6, <1>7, QuietReturns

(* The rows of the table, one more or one less.                            *)
LEMMA RowsCounted ==
  ASSUME NEW S \in SUBSET SchemeMonth, NEW k \in SchemeMonth
  PROVE  /\ Cardinality(S) \in Nat
         /\ k \notin S => Cardinality(S \cup {k}) = Cardinality(S) + 1
         /\ k \in S => Cardinality(S \ {k}) = Cardinality(S) - 1
<1>1. IsFiniteSet(S)
  BY FS_Subset, ReturnsAssumption
<1> QED
  BY <1>1, FS_CardinalityType, FS_AddElement, FS_RemoveElement

LEMMA EditsKeep ==
  ASSUME ReturnsInvariant, NEW a
  PROVE  /\ \A rows \in SUBSET SchemeMonth : AutoImport(rows) => ReturnsInvariant'
         /\ \A k \in SchemeMonth : CreateRecord(a, k) \/ DeleteRecord(a, k) => ReturnsInvariant'
         /\ \A k, l \in SchemeMonth : UpdateRecord(a, k, l) => ReturnsInvariant'
<1>0. /\ issued \subseteq Token /\ records \in [SchemeMonth -> Figures] /\ byHand \in Int
      /\ previews \in [Token -> Sheet] /\ ByHand \in Figures /\ NoFigures \in Figures /\ ByHand # NoFigures
      /\ Recorded \in SUBSET SchemeMonth
  BY ReturnsAssumption DEF ReturnsInvariant, ReturnsAreRows, Figures, Recorded
<1>a. ASSUME Free, UNCHANGED <<issued, unlogged, previews, uploads, req>>, records' \in [SchemeMonth -> Figures], byHand' \in Int,
             Cardinality(Recorded') - byHand' = Cardinality(Recorded) - byHand
      PROVE  ReturnsInvariant'
  <2>1. \A s \in Token : Spent(s) => s \in issued' /\ previews'[s] = NoPreview
    BY <1>a DEF Spent
  <2> QED
    BY <1>0, <1>a, <2>1, QuietReturns
<1>1. ASSUME NEW rows \in SUBSET SchemeMonth, AutoImport(rows) PROVE ReturnsInvariant'
  <2>1. /\ Free /\ Recorded = {} /\ records' = [k \in SchemeMonth |-> IF k \in rows THEN ByHand ELSE NoFigures]
        /\ byHand' = byHand + Cardinality(rows) /\ UNCHANGED <<issued, unlogged, previews, uploads, req>>
    BY <1>1 DEF AutoImport
  <2>2. Recorded' = rows
    BY <1>0, <2>1 DEF Recorded
  <2>3. Cardinality(rows) \in Nat /\ Cardinality(Recorded) = 0
    BY <2>1, FS_EmptySet, FS_Subset, FS_CardinalityType, ReturnsAssumption
  <2>4. records' \in [SchemeMonth -> Figures]
    BY <1>0, <2>1
  <2> QED
    BY <1>0, <1>a, <2>1, <2>2, <2>3, <2>4
<1>2. ASSUME NEW k \in SchemeMonth, CreateRecord(a, k) PROVE ReturnsInvariant'
  <2>1. /\ Free /\ k \notin Recorded /\ records' = [records EXCEPT ![k] = ByHand]
        /\ byHand' = byHand + 1 /\ UNCHANGED <<issued, unlogged, previews, uploads, req>>
    BY <1>2 DEF CreateRecord
  <2>2. Recorded' = Recorded \cup {k}
    BY <1>0, <2>1 DEF Recorded
  <2>3. Cardinality(Recorded') = Cardinality(Recorded) + 1 /\ Cardinality(Recorded) \in Nat
    BY <1>0, <2>1, <2>2, RowsCounted
  <2>4. records' \in [SchemeMonth -> Figures]
    BY <1>0, <2>1
  <2> QED
    BY <1>0, <1>a, <2>1, <2>3, <2>4
<1>3. ASSUME NEW k \in SchemeMonth, DeleteRecord(a, k) PROVE ReturnsInvariant'
  <2>1. /\ Free /\ k \in Recorded /\ records' = [records EXCEPT ![k] = NoFigures]
        /\ byHand' = byHand - 1 /\ UNCHANGED <<issued, unlogged, previews, uploads, req>>
    BY <1>3 DEF DeleteRecord
  <2>2. Recorded' = Recorded \ {k}
    BY <1>0, <2>1 DEF Recorded
  <2>3. Cardinality(Recorded') = Cardinality(Recorded) - 1 /\ Cardinality(Recorded) \in Nat
    BY <1>0, <2>1, <2>2, RowsCounted
  <2>4. records' \in [SchemeMonth -> Figures]
    BY <1>0, <2>1
  <2> QED
    BY <1>0, <1>a, <2>1, <2>3, <2>4
<1>4. ASSUME NEW k \in SchemeMonth, NEW l \in SchemeMonth, UpdateRecord(a, k, l) PROVE ReturnsInvariant'
  <2>1. /\ Free /\ k \in Recorded /\ l \notin Recorded \ {k}
        /\ records' = [records EXCEPT ![k] = NoFigures, ![l] = ByHand]
        /\ UNCHANGED <<issued, byHand, unlogged, previews, uploads, req>>
    BY <1>4 DEF UpdateRecord, others
  <2>2. Recorded' = (Recorded \ {k}) \cup {l}
    BY <1>0, <2>1 DEF Recorded
  <2>3. Recorded \ {k} \in SUBSET SchemeMonth
    BY <1>0
  <2>4. Cardinality(Recorded') = Cardinality(Recorded) /\ Cardinality(Recorded) \in Nat
    <3>1. Cardinality(Recorded \ {k}) = Cardinality(Recorded) - 1 /\ Cardinality(Recorded) \in Nat
      BY <1>0, <2>1, RowsCounted
    <3>2. Cardinality((Recorded \ {k}) \cup {l}) = Cardinality(Recorded \ {k}) + 1
      BY <2>1, <2>3, RowsCounted
    <3> QED
      BY <2>2, <3>1, <3>2
  <2>5. records' \in [SchemeMonth -> Figures]
    BY <1>0, <2>1
  <2> QED
    BY <1>0, <1>a, <2>1, <2>4, <2>5
<1> QED
  BY <1>1, <1>2, <1>3, <1>4

(* The log, entry by entry.                                                *)
LEMMA LogIsTyped ==
  ASSUME ReturnsInvariant
  PROVE  /\ DOMAIN uploads = 1..Len(uploads) /\ Len(uploads) \in Nat
         /\ \A n \in DOMAIN uploads : uploads[n] \in LogEntry /\ uploads[n].token \in Token
<1> DEFINE E == LogEntry
<1>1. uploads \in Seq(E) /\ \A e \in E : e.token \in Token
  BY EntryColumns DEF ReturnsInvariant, ReturnsAreRows
<1> HIDE DEF E
<1>2. /\ DOMAIN uploads = 1..Len(uploads) /\ Len(uploads) \in Nat
      /\ \A n \in DOMAIN uploads : uploads[n] \in E /\ uploads[n].token \in Token
  BY <1>1
<1> QED
  BY <1>2 DEF E

(* Of serial requests, those committed are in the log but for one's own.   *)
LEMMA CommittedAlone ==
  ASSUME DOMAIN req = Worker, NEW w \in Worker, \A v \in Worker : v # w => req[v].step = "off"
  PROVE  Committed = {uploads[n] : n \in DOMAIN uploads} \cup (IF req[w].step = "log" THEN {req[w]} ELSE {})
<1>1. {req[v] : v \in {x \in Worker : req[x].step = "log"}} = IF req[w].step = "log" THEN {req[w]} ELSE {}
  OBVIOUS
<1> QED
  BY <1>1 DEF Committed

LEMMA StartCommitKeeps ==
  ASSUME ReturnsInvariant, NEW w \in Worker, NEW a, NEW t \in Token, NEW modes \in [SchemeMonth -> Modes],
         StartCommit(w, a, t, modes)
  PROVE  ReturnsInvariant'
<1>1. PICK first \in Importable(previews[t]) :
        Begin(w, [step |-> "upload", token |-> t, rows |-> Importable(previews[t]), modes |-> modes,
                  first |-> first, found |-> first \in Recorded])
  BY DEF StartCommit
<1> DEFINE r == [step |-> "upload", token |-> t, rows |-> Importable(previews[t]), modes |-> modes,
                 first |-> first, found |-> first \in Recorded]
<1>2. /\ UNCHANGED <<issued, byHand, unlogged, records, previews, uploads>> /\ t \in Previewed
      /\ DOMAIN req = Worker /\ r.step = "upload" /\ Begin(w, r)
  BY <1>1 DEF StartCommit, others, ReturnsInvariant, ReturnsAreRows
<1>3. ReturnRequest(r) /\ ReturnServed(r)
  <2>1. Importable(previews[t]) \subseteq SchemeMonth
    BY DEF Importable
  <2> QED
    BY <1>2, <2>1 DEF ReturnRequest, ReturnServed
<1> HIDE DEF r
<1>4. /\ Serial' <=> Serial
      /\ req'[w] = r
      /\ \A v \in Worker : v # w => req'[v] = req[v]
      /\ Serial => \A v \in Worker : v # w => req'[v].step = "off"
  BY <1>2, SerialBegins, RequestsAssumption
<1>5. DOMAIN req' = Worker
  BY <1>2 DEF Begin
<1>6. ReturnsAreRows'
  BY <1>2, <1>3, <1>4, <1>5 DEF ReturnsInvariant, ReturnsAreRows, ReturnRequest
<1>7. \A v \in Worker : Serial => ReturnServed(req[v])'
  <2> TAKE v \in Worker
  <2>1. (Recorded' = Recorded) /\ (Previewed' = Previewed)
    BY <1>2 DEF Recorded, Previewed
  <2>2. CASE v = w
    BY <1>2, <1>3, <1>4, <2>1, <2>2 DEF ReturnServed, Spent
  <2>3. CASE v # w
    BY <1>4, <2>3 DEF ReturnServed
  <2> QED
    BY <2>2, <2>3
<1>8. Serial => Committed' = Committed
  <2>1. Begin(w, r) => req[w].step = "idle"
    BY DEF Begin
  <2>2. {v \in Worker : req'[v].step = "log"} = {v \in Worker : req[v].step = "log"}
    BY <1>2, <1>4, <2>1
  <2>3. \A v \in {x \in Worker : req[x].step = "log"} : req'[v] = req[v]
    BY <1>2, <1>4, <2>1
  <2> QED
    BY <1>2, <2>2, <2>3 DEF Committed
<1>9. ReturnsAreAccounted'
  <2>1. Recorded' = Recorded /\ \A s : (Spent(s))' <=> Spent(s)
    BY <1>2 DEF Recorded, Spent
  <2>2. Serial => Cardinality(Recorded)' = byHand' + unlogged' + InsertedBy(Committed)'
    BY <1>2, <1>8, <2>1 DEF ReturnsInvariant, ReturnsAreAccounted, InsertedBy
  <2>3. Serial => \A n \in DOMAIN uploads' : Spent(uploads[n].token)'
    BY <1>2, <2>1 DEF ReturnsInvariant, ReturnsAreAccounted, Spent
  <2> QED
    BY <1>2, <1>4, <1>7, <2>2, <2>3 DEF ReturnsInvariant, ReturnsAreAccounted
<1> QED
  BY <1>6, <1>9 DEF ReturnsInvariant

(* A token is spent, and its entry is about to be written.                 *)
LEMMA TokenIsSpent ==
  ASSUME ReturnsInvariant, NEW w \in Worker, NEW e \in LogEntry, req[w].step # "off", req[w].step # "log",
         req' = [req EXCEPT ![w] = e], e.token \in Previewed,
         previews' = Deleted(e.token), UNCHANGED <<issued, byHand, unlogged, uploads>>,
         records' \in [SchemeMonth -> Figures],
         Serial => Cardinality(Recorded') = Cardinality(Recorded) + e.inserted
  PROVE  ReturnsInvariant'
<1>0. /\ DOMAIN req = Worker /\ issued \subseteq Token /\ byHand \in Int /\ unlogged \in Int /\ uploads \in Seq(LogEntry)
      /\ e.step = "log" /\ e.token \in Token /\ e.inserted \in Nat /\ e.token \in issued
      /\ previews[e.token] # NoPreview /\ ReturnRequest(e)
  BY EntryColumns DEF ReturnsInvariant, ReturnsAreRows, Previewed, ReturnRequest
<1>1. DOMAIN req' = Worker /\ req'[w] = e /\ \A v \in Worker : v # w => req'[v] = req[v]
  BY <1>0
<1>2. ReturnsAreRows'
  <2>1. previews' \in [Token -> Sheet]
    BY <1>0, DeletedIsSheets
  <2>2. \A v \in Worker : ReturnRequest(req'[v])
    BY <1>0, <1>1 DEF ReturnsInvariant, ReturnsAreRows
  <2> QED
    BY <1>0, <1>1, <2>1, <2>2 DEF ReturnsAreRows, ReturnRequest
<1>3. Serial' <=> Serial
  BY <1>0, SerialStays
<1>4. ASSUME Serial
      PROVE  /\ \A m, n \in DOMAIN uploads' : uploads'[m].token = uploads'[n].token => m = n
             /\ \A n \in DOMAIN uploads' : Spent(uploads[n].token)'
             /\ \A v \in Worker : ReturnServed(req[v])'
             /\ Cardinality(Recorded') = byHand' + unlogged' + InsertedBy(Committed')
  <2>1. \A v \in Worker : v # w => req[v].step = "off" /\ req'[v].step = "off"
    BY <1>1, <1>4, SerialWorker, RequestsAssumption
  <2>2. /\ \A m, n \in DOMAIN uploads : uploads[m].token = uploads[n].token => m = n
        /\ \A n \in DOMAIN uploads : Spent(uploads[n].token)
        /\ Cardinality(Recorded) = byHand + unlogged + InsertedBy(Committed)
    BY <1>4 DEF ReturnsInvariant, ReturnsAreAccounted
  <2>3. \A s \in Token : Spent(s) => s # e.token /\ (Spent(s))'
    BY <1>0, DeletedIsSheets DEF Spent
  <2>4. \A n \in DOMAIN uploads : (Spent(uploads[n].token))' /\ uploads[n].token # e.token
    <3> TAKE n \in DOMAIN uploads
    <3>1. uploads[n].token \in Token /\ Spent(uploads[n].token)
      BY <2>2, LogIsTyped
    <3> QED
      BY <2>3, <3>1 DEF Spent
  <2>5. (Spent(e.token))'
    BY <1>0, DeletedIsSheets DEF Spent
  <2>6. \A v \in Worker : ReturnServed(req[v])'
    <3> TAKE v \in Worker
    <3>1. CASE v = w
      <4>1. Spent(req[v].token)'
        BY <1>1, <2>5, <3>1 DEF Spent
      <4> QED
        BY <1>0, <1>1, <2>4, <3>1, <4>1 DEF ReturnServed
    <3>2. CASE v # w
      BY <2>1, <3>2 DEF ReturnServed
    <3> QED
      BY <3>1, <3>2
  <2>7. Committed = {uploads[n] : n \in DOMAIN uploads}
    BY <1>0, <2>1, CommittedAlone
  <2>8. Committed' = Committed \cup {e}
    <3>1. {req'[v] : v \in {x \in Worker : req'[x].step = "log"}} = {e}
      BY <1>0, <1>1, <2>1
    <3> QED
      BY <2>7, <3>1 DEF Committed
  <2>9. e \notin Committed
    BY <2>4, <2>7
  <2>10. IsFiniteSet(Committed) /\ Committed \subseteq LogEntry
    BY CommittedIsFinite DEF ReturnsInvariant
  <2>11. InsertedBy(Committed') = e.inserted + InsertedBy(Committed) /\ InsertedBy(Committed) \in Int
    BY <2>8, <2>9, <2>10, InsertedWith
  <2>12. Cardinality(Recorded') = byHand' + unlogged' + InsertedBy(Committed')
    BY <1>0, <1>4, <2>2, <2>11
  <2> QED
    BY <2>2, <2>4, <2>6, <2>12 DEF Spent
<1>5. ReturnsAreAccounted'
  <2>1. InsertedBy(Committed)' = InsertedBy(Committed') /\ Cardinality(Recorded)' = Cardinality(Recorded')
    BY DEF InsertedBy
  <2> QED
    BY <1>3, <1>4, <2>1 DEF ReturnsAreAccounted
<1> QED
  BY <1>2, <1>5 DEF ReturnsInvariant

LEMMA EmptyCommitKeeps ==
  ASSUME ReturnsInvariant, NEW w \in Worker, NEW a, NEW t \in Token, EmptyCommit(w, a, t)
  PROVE  ReturnsInvariant'
<1> DEFINE e == [step |-> "log", token |-> t, rows |-> 0, inserted |-> 0, replaced |-> 0, skipped |-> 0, errored |-> 0]
<1>1. /\ t \in Previewed /\ req[w].step = "idle" /\ req' = [req EXCEPT ![w] = e] /\ previews' = Deleted(t)
      /\ UNCHANGED <<issued, byHand, unlogged, records, uploads>>
  BY DEF EmptyCommit, Begin, others
<1>2. e \in LogEntry /\ e.token = t /\ e.inserted = 0
  BY DEF LogEntry
<1> HIDE DEF e
<1>3. records' \in [SchemeMonth -> Figures]
  BY <1>1 DEF ReturnsInvariant, ReturnsAreRows
<1>4. Recorded' = Recorded /\ Cardinality(Recorded) \in Nat
  <2>1. Recorded \in SUBSET SchemeMonth
    BY DEF Recorded
  <2>2. Cardinality(Recorded) \in Nat
    BY <2>1, FS_Subset, FS_CardinalityType, ReturnsAssumption
  <2> QED
    BY <1>1, <2>2 DEF Recorded
<1>5. Cardinality(Recorded') = Cardinality(Recorded) + e.inserted
  BY <1>2, <1>4
<1> QED
  BY <1>1, <1>2, <1>3, <1>5, TokenIsSpent

(* The rows that were inserted were not there.                             *)
LEMMA InsertedRows ==
  ASSUME ReturnsInvariant, NEW w \in Worker, req[w].step = "upload", Serial,
         records' = RowsWritten(req[w])
  PROVE  Cardinality(Recorded') = Cardinality(Recorded) + Count(req[w], "inserted")
<1> DEFINE q == req[w]
           I == {k \in q.rows : Fate(q, k) = "inserted"}
<1>1. q.token \in Token /\ q.rows \subseteq SchemeMonth /\ (q.found <=> q.first \in Recorded)
  BY DEF ReturnsInvariant, ReturnsAreRows, ReturnRequest, ReturnsAreAccounted, ReturnServed
<1>2. \A k \in q.rows : /\ Fate(q, k) = "inserted" => k \notin Recorded
                        /\ Fate(q, k) = "replaced" => k \in Recorded
  BY <1>1 DEF Fate, Insert
<1>3. q.token # NoFigures
  BY <1>1, ReturnsAssumption
<1>4. Count(q, "inserted") = Cardinality(I) /\ I \subseteq SchemeMonth
  BY <1>1 DEF Count
<1>5. \A k \in SchemeMonth : records'[k] = IF k \in q.rows /\ Fate(q, k) \in {"inserted", "replaced"}
                                           THEN q.token ELSE records[k]
  BY DEF RowsWritten
<1>6. Recorded' = {k \in SchemeMonth : records'[k] # NoFigures}
  BY DEF Recorded
<1> HIDE DEF q
<1>7. Recorded' = Recorded \cup I /\ Recorded \cap I = {}
  BY <1>1, <1>2, <1>3, <1>4, <1>5, <1>6 DEF Recorded
<1>8. IsFiniteSet(Recorded) /\ IsFiniteSet(I)
  <2>1. Recorded \in SUBSET SchemeMonth /\ I \in SUBSET SchemeMonth
    BY <1>4 DEF Recorded
  <2> QED
    BY <2>1, FS_Subset, ReturnsAssumption
<1> HIDE DEF I
<1>9. Cardinality(Recorded \cup I) = Cardinality(Recorded) + Cardinality(I)
  BY <1>7, <1>8, DisjointUnion
<1> QED
  BY <1>4, <1>7, <1>9 DEF q

LEMMA WrittenAreFigures ==
  ASSUME ReturnsInvariant, NEW w \in Worker, req[w].step = "upload"
  PROVE  RowsWritten(req[w]) \in [SchemeMonth -> Figures]
<1>1. req[w].token \in Figures /\ records \in [SchemeMonth -> Figures]
  BY DEF ReturnsInvariant, ReturnsAreRows, ReturnRequest, Figures
<1> QED
  BY <1>1 DEF RowsWritten

LEMMA PreviewedUpload ==
  ASSUME ReturnsInvariant, Serial, NEW w \in Worker, req[w].step = "upload"
  PROVE  req[w].token \in Previewed
BY DEF ReturnsInvariant, ReturnsAreAccounted, ReturnServed

LEMMA ExecuteCommitKeeps ==
  ASSUME ReturnsInvariant, NEW w \in Worker, ExecuteCommit(w)
  PROVE  ReturnsInvariant'
<1> DEFINE q == req[w]
           e == [step |-> "log", token |-> q.token, rows |-> Cardinality(q.rows),
                 inserted |-> Count(q, "inserted"), replaced |-> Count(q, "replaced"),
                 skipped |-> Count(q, "skipped"), errored |-> Count(q, "errored")]
<1>1. /\ q.step = "upload" /\ req' = [req EXCEPT ![w] = e] /\ previews' = Deleted(q.token)
      /\ UNCHANGED <<issued, byHand, unlogged, uploads>>
      /\ records' = RowsWritten(q)
  BY DEF ExecuteCommit, others
<1>2. q.token \in Token /\ q.rows \subseteq SchemeMonth
  BY <1>1 DEF ReturnsInvariant, ReturnsAreRows, ReturnRequest
<1>3. /\ Cardinality(q.rows) = Count(q, "inserted") + Count(q, "replaced") + Count(q, "skipped") + Count(q, "errored")
      /\ Cardinality(q.rows) \in Nat /\ Count(q, "inserted") \in Nat /\ Count(q, "replaced") \in Nat
      /\ Count(q, "skipped") \in Nat /\ Count(q, "errored") \in Nat
  <2> HIDE DEF q
  <2> QED
    BY <1>2, CountsAddUp
<1>4. e \in LogEntry
  BY <1>2, <1>3 DEF LogEntry
<1>5. e.token = q.token /\ e.inserted = Count(q, "inserted") /\ e.step = "log"
  OBVIOUS
<1>6. records' \in [SchemeMonth -> Figures]
  BY <1>1, WrittenAreFigures
<1>7. Serial => Cardinality(Recorded') = Cardinality(Recorded) + e.inserted
  BY <1>1, <1>5, InsertedRows
<1>8. Serial => q.token \in Previewed
  BY <1>1, PreviewedUpload
<1> HIDE DEF e
<1>9. CASE Serial
  BY <1>1, <1>4, <1>5, <1>6, <1>7, <1>8, <1>9, TokenIsSpent
<1>10. CASE ~Serial
  <2>0. /\ DOMAIN req = Worker /\ issued \subseteq Token /\ byHand \in Int /\ unlogged \in Int /\ uploads \in Seq(LogEntry)
        /\ ReturnRequest(e)
    BY <1>4, EntryColumns DEF ReturnsInvariant, ReturnsAreRows, ReturnRequest
  <2>1. DOMAIN req' = Worker /\ req'[w] = e /\ \A v \in Worker : v # w => req'[v] = req[v]
    BY <1>1, <2>0
  <2>2. previews' \in [Token -> Sheet]
    BY <1>1, <1>2, DeletedIsSheets
  <2>3. \A v \in Worker : ReturnRequest(req'[v])
    BY <2>0, <2>1 DEF ReturnsInvariant, ReturnsAreRows
  <2>4. ReturnsAreRows'
    BY <1>1, <1>6, <2>0, <2>1, <2>2, <2>3 DEF ReturnsAreRows, ReturnRequest
  <2>5. ~Serial'
    BY <1>1, <1>5, <1>10, <2>0, SerialStays
  <2> QED
    BY <2>4, <2>5 DEF ReturnsInvariant, ReturnsAreAccounted
<1> QED
  BY <1>9, <1>10

(* An upload that ends without an entry: its rows count as such, or there  *)
(* are none.                                                               *)
LEMMA UploadEnds ==
  ASSUME ReturnsInvariant, NEW w \in Worker, req[w].step = "upload", Finish(w),
         UNCHANGED <<issued, byHand, previews, uploads>>,
         records' \in [SchemeMonth -> Figures], unlogged' \in Int,
         Serial => Cardinality(Recorded') = Cardinality(Recorded) + (unlogged' - unlogged)
  PROVE  ReturnsInvariant'
<1>0. DOMAIN req = Worker /\ InFlight(w) /\ byHand \in Int /\ unlogged \in Int
  BY DEF ReturnsInvariant, ReturnsAreRows, InFlight
<1>1. /\ Serial' <=> Serial
      /\ req'[w] = Idle
      /\ \A v \in Worker : v # w => req'[v] = req[v]
      /\ Serial => \A v \in Worker : req'[v].step \in {"idle", "off"}
  BY <1>0, SerialFinishes, RequestsAssumption
<1>2. DOMAIN req' = Worker
  BY <1>0 DEF Finish
<1>3. ReturnsAreRows'
  <2>1. \A v \in Worker : ReturnRequest(req'[v])
    BY <1>1 DEF ReturnsInvariant, ReturnsAreRows, ReturnRequest, Idle
  <2> QED
    BY <1>0, <1>2, <2>1 DEF ReturnsInvariant, ReturnsAreRows, ReturnRequest
<1>4. Committed' = Committed
  <2>1. /\ {v \in Worker : req'[v].step = "log"} = {v \in Worker : req[v].step = "log"}
        /\ \A v \in {x \in Worker : req[x].step = "log"} : req'[v] = req[v]
    BY <1>1 DEF Idle
  <2> QED
    BY <2>1 DEF Committed
<1>5. InsertedBy(Committed) \in Int
  BY CommittedIsFinite, InsertedIsNumber, SumIsInteger DEF InsertedBy, ReturnsInvariant
<1>6. Serial => Cardinality(Recorded') = byHand' + unlogged' + InsertedBy(Committed')
  <2>1. Serial => Cardinality(Recorded) = byHand + unlogged + InsertedBy(Committed)
    BY DEF ReturnsInvariant, ReturnsAreAccounted
  <2>2. InsertedBy(Committed') = InsertedBy(Committed)
    BY <1>4
  <2> HIDE DEF InsertedBy
  <2> QED
    BY <1>0, <1>5, <2>1, <2>2
<1>7. Serial => \A n \in DOMAIN uploads' : Spent(uploads[n].token)'
  BY DEF ReturnsInvariant, ReturnsAreAccounted, Spent
<1>8. Serial => \A v \in Worker : ReturnServed(req[v])'
  BY <1>1 DEF ReturnServed
<1>9. ReturnsAreAccounted'
  <2>1. InsertedBy(Committed)' = InsertedBy(Committed') /\ Cardinality(Recorded)' = Cardinality(Recorded')
    BY DEF InsertedBy
  <2>2. Serial => \A m, n \in DOMAIN uploads' : uploads'[m].token = uploads'[n].token => m = n
    BY DEF ReturnsInvariant, ReturnsAreAccounted
  <2> QED
    BY <1>1, <1>6, <1>7, <1>8, <2>1, <2>2 DEF ReturnsAreAccounted
<1> QED
  BY <1>3, <1>9 DEF ReturnsInvariant

LEMMA BreakOffKeeps ==
  ASSUME ReturnsInvariant, NEW w \in Worker, BreakOff(w)
  PROVE  ReturnsInvariant'
<1> DEFINE q == req[w]
<1>1. /\ q.step = "upload" /\ Finish(w) /\ UNCHANGED <<issued, byHand, previews, uploads>>
      /\ records' = RowsWritten(q) /\ unlogged' = unlogged + Count(q, "inserted")
      /\ unlogged \in Int /\ q.rows \subseteq SchemeMonth
  BY DEF BreakOff, ReturnsInvariant, ReturnsAreRows, ReturnRequest
<1>2. records' \in [SchemeMonth -> Figures]
  BY <1>1, WrittenAreFigures
<1>3. Serial => Cardinality(Recorded') = Cardinality(Recorded) + Count(q, "inserted")
  BY <1>1, InsertedRows
<1> HIDE DEF q
<1>4. Count(q, "inserted") \in Nat
  BY <1>1, CountsAddUp
<1>5. unlogged' \in Int /\ unlogged' - unlogged = Count(q, "inserted")
  BY <1>1, <1>4
<1>6. Serial => Cardinality(Recorded') = Cardinality(Recorded) + (unlogged' - unlogged)
  BY <1>3, <1>5
<1> QED
  BY <1>1, <1>2, <1>5, <1>6, UploadEnds DEF q

LEMMA RollBackKeeps ==
  ASSUME ReturnsInvariant, NEW w \in Worker, RollBack(w)
  PROVE  ReturnsInvariant'
<1>1. /\ req[w].step = "upload" /\ Finish(w)
      /\ UNCHANGED <<issued, byHand, unlogged, records, previews, uploads>>
      /\ records \in [SchemeMonth -> Figures] /\ unlogged \in Int
  BY DEF RollBack, others, ReturnsInvariant, ReturnsAreRows
<1>2. Recorded \in SUBSET SchemeMonth /\ Recorded' = Recorded
  BY <1>1 DEF Recorded
<1>3. Cardinality(Recorded) \in Nat
  BY <1>2, FS_Subset, FS_CardinalityType, ReturnsAssumption
<1>4. Cardinality(Recorded') = Cardinality(Recorded) + (unlogged' - unlogged)
  BY <1>1, <1>2, <1>3
<1> QED
  BY <1>1, <1>4, UploadEnds

(* The entry is lost: what it said was inserted counts as unlogged.        *)
LEMMA LoseUploadLogKeeps ==
  ASSUME ReturnsInvariant, NEW w \in Worker, LoseUploadLog(w)
  PROVE  ReturnsInvariant'
<1> DEFINE e == req[w]
<1>0. /\ DOMAIN req = Worker /\ issued \subseteq Token /\ byHand \in Int /\ unlogged \in Int /\ uploads \in Seq(LogEntry)
      /\ e.step = "log" /\ e \in LogEntry /\ Finish(w) /\ InFlight(w)
      /\ unlogged' = unlogged + e.inserted
      /\ UNCHANGED <<issued, byHand, records, previews, uploads>>
  BY DEF ReturnsInvariant, ReturnsAreRows, ReturnRequest, LoseUploadLog, InFlight
<1>1. /\ Serial' <=> Serial
      /\ req'[w] = Idle
      /\ \A v \in Worker : v # w => req'[v] = req[v]
      /\ Serial => \A v \in Worker : req'[v].step \in {"idle", "off"}
  BY <1>0, SerialFinishes, RequestsAssumption
<1>2. DOMAIN req' = Worker
  BY <1>0 DEF Finish
<1>3. e.inserted \in Nat /\ unlogged' \in Int
  BY <1>0, EntryColumns
<1>4. ReturnsAreRows'
  <2>1. \A v \in Worker : ReturnRequest(req'[v])
    BY <1>1 DEF ReturnsInvariant, ReturnsAreRows, ReturnRequest, Idle
  <2> QED
    BY <1>0, <1>2, <1>3, <2>1 DEF ReturnsInvariant, ReturnsAreRows, ReturnRequest
<1>5. ASSUME Serial PROVE Cardinality(Recorded') = byHand' + unlogged' + InsertedBy(Committed')
  <2>1. /\ Cardinality(Recorded) = byHand + unlogged + InsertedBy(Committed)
        /\ \A n \in DOMAIN uploads : uploads[n].token # e.token
    BY <1>0, <1>5 DEF ReturnsInvariant, ReturnsAreAccounted, ReturnServed
  <2>2. \A v \in Worker : v # w => req[v].step = "off"
    BY <1>0, <1>5, SerialWorker, RequestsAssumption DEF InFlight
  <2>3. Committed = {uploads[n] : n \in DOMAIN uploads} \cup {e}
    BY <1>0, <2>2, CommittedAlone
  <2>4. Committed' = {uploads[n] : n \in DOMAIN uploads}
    <3>1. {v \in Worker : req'[v].step = "log"} = {}
      BY <1>1, <1>5
    <3> QED
      BY <1>0, <3>1 DEF Committed
  <2>5. Committed = Committed' \cup {e} /\ e \notin Committed'
    BY <2>1, <2>3, <2>4
  <2>6. IsFiniteSet(Committed) /\ Committed \subseteq LogEntry
    BY CommittedIsFinite DEF ReturnsInvariant
  <2>7. IsFiniteSet(Committed') /\ Committed' \subseteq LogEntry
    BY <2>5, <2>6, FS_Subset
  <2> DEFINE C == Committed'
             sum == InsertedBy(C)
             all == InsertedBy(Committed)
             i == e.inserted
  <2>8. all = i + sum /\ sum \in Int
    BY <1>0, <2>5, <2>7, InsertedWith
  <2>9. Recorded' = Recorded
    BY <1>0 DEF Recorded
  <2>10. Cardinality(Recorded) = byHand + unlogged + all /\ i \in Nat /\ unlogged' = unlogged + i
    BY <1>0, <1>3, <2>1
  <2> HIDE DEF sum, all, i
  <2>11. Cardinality(Recorded) = byHand + unlogged' + sum
    BY <1>0, <2>8, <2>10
  <2> QED
    BY <1>0, <2>9, <2>11 DEF sum
<1>6. Serial => \A n \in DOMAIN uploads' : Spent(uploads[n].token)'
  BY <1>0 DEF ReturnsInvariant, ReturnsAreAccounted, Spent
<1>7. Serial => \A v \in Worker : ReturnServed(req[v])'
  BY <1>1 DEF ReturnServed
<1>8. ReturnsAreAccounted'
  <2>1. InsertedBy(Committed)' = InsertedBy(Committed') /\ Cardinality(Recorded)' = Cardinality(Recorded')
    BY DEF InsertedBy
  <2>2. Serial => \A m, n \in DOMAIN uploads' : uploads'[m].token = uploads'[n].token => m = n
    BY <1>0 DEF ReturnsInvariant, ReturnsAreAccounted
  <2> QED
    BY <1>1, <1>5, <1>6, <1>7, <2>1, <2>2 DEF ReturnsAreAccounted
<1> QED
  BY <1>4, <1>8 DEF ReturnsInvariant

LEMMA WriteUploadLogKeeps ==
  ASSUME ReturnsInvariant, NEW w \in Worker, WriteUploadLog(w)
  PROVE  ReturnsInvariant'
<1> DEFINE e == req[w]
           N == Len(uploads)
<1>0. /\ DOMAIN req = Worker /\ issued \subseteq Token /\ byHand \in Int /\ unlogged \in Int /\ uploads \in Seq(LogEntry)
      /\ e.step = "log" /\ e \in LogEntry /\ uploads' = Append(uploads, e) /\ Finish(w) /\ InFlight(w)
      /\ UNCHANGED <<issued, byHand, unlogged, records, previews>>
  BY DEF ReturnsInvariant, ReturnsAreRows, ReturnRequest, WriteUploadLog, InFlight, others
<1>1. /\ Serial' <=> Serial
      /\ req'[w] = Idle
      /\ \A v \in Worker : v # w => req'[v] = req[v]
      /\ Serial => \A v \in Worker : req'[v].step \in {"idle", "off"}
  BY <1>0, SerialFinishes, RequestsAssumption
<1>2. DOMAIN req' = Worker
  BY <1>0 DEF Finish
<1> HIDE DEF e
<1>3. /\ uploads' \in Seq(LogEntry) /\ DOMAIN uploads = 1..N /\ DOMAIN uploads' = 1..(N + 1) /\ N \in Nat
      /\ \A n \in 1..N : uploads'[n] = uploads[n]
      /\ uploads'[N + 1] = e
  <2> DEFINE E == LogEntry
  <2>1. uploads \in Seq(E) /\ e \in E
    BY <1>0
  <2> HIDE DEF E
  <2>2. /\ uploads' \in Seq(E) /\ DOMAIN uploads = 1..N /\ DOMAIN uploads' = 1..(N + 1) /\ N \in Nat
        /\ \A n \in 1..N : uploads'[n] = uploads[n]
        /\ uploads'[N + 1] = e
    BY <1>0, <2>1
  <2> QED
    BY <2>2 DEF E
<1> HIDE DEF N
<1>4. ReturnsAreRows'
  <2>1. \A v \in Worker : ReturnRequest(req'[v])
    BY <1>1 DEF ReturnsInvariant, ReturnsAreRows, ReturnRequest, Idle
  <2> QED
    BY <1>0, <1>2, <1>3, <2>1 DEF ReturnsInvariant, ReturnsAreRows, ReturnRequest
<1>5. ASSUME Serial
      PROVE  /\ \A m, n \in DOMAIN uploads' : uploads'[m].token = uploads'[n].token => m = n
             /\ \A n \in DOMAIN uploads' : Spent(uploads[n].token)'
             /\ \A v \in Worker : ReturnServed(req[v])'
             /\ Cardinality(Recorded') = byHand' + unlogged' + InsertedBy(Committed')
  <2>1. /\ \A m, n \in DOMAIN uploads : uploads[m].token = uploads[n].token => m = n
        /\ \A n \in DOMAIN uploads : Spent(uploads[n].token)
        /\ Cardinality(Recorded) = byHand + unlogged + InsertedBy(Committed)
        /\ Spent(e.token) /\ \A n \in DOMAIN uploads : uploads[n].token # e.token
    BY <1>0, <1>5 DEF ReturnsInvariant, ReturnsAreAccounted, ReturnServed, e
  <2>2. \A v \in Worker : ReturnServed(req[v])'
    BY <1>1, <1>5 DEF ReturnServed
  <2>3. \A n \in 1..(N + 1) : n \in 1..N \/ n = N + 1
    BY <1>3
  <2>4. \A m, n \in DOMAIN uploads' : uploads'[m].token = uploads'[n].token => m = n
    BY <1>3, <2>1, <2>3
  <2>5. \A n \in DOMAIN uploads' : Spent(uploads'[n].token)
    BY <1>3, <2>1, <2>3
  <2>6. \A n \in DOMAIN uploads' : Spent(uploads[n].token)'
    BY <1>0, <2>5 DEF Spent
  <2>7. \A v \in Worker : v # w => req[v].step = "off"
    BY <1>0, <1>5, SerialWorker, RequestsAssumption DEF InFlight
  <2>8. Committed = {uploads[n] : n \in DOMAIN uploads} \cup {e}
    BY <1>0, <2>7, CommittedAlone DEF e
  <2>9. Committed' = {uploads'[n] : n \in DOMAIN uploads'}
    <3>1. {v \in Worker : req'[v].step = "log"} = {}
      BY <1>1, <1>5
    <3> QED
      BY <3>1 DEF Committed
  <2>10. {uploads'[n] : n \in 1..(N + 1)} = {uploads[n] : n \in 1..N} \cup {e}
    <3>1. N + 1 \in 1..(N + 1) /\ \A n \in 1..N : n \in 1..(N + 1)
      BY <1>3
    <3> QED
      BY <1>3, <2>3, <3>1
  <2>11. Committed' = Committed
    BY <1>3, <2>8, <2>9, <2>10
  <2>12. Recorded' = Recorded
    BY <1>0 DEF Recorded
  <2> QED
    BY <1>0, <2>1, <2>2, <2>4, <2>6, <2>11, <2>12
<1>6. ReturnsAreAccounted'
  <2>1. InsertedBy(Committed)' = InsertedBy(Committed') /\ Cardinality(Recorded)' = Cardinality(Recorded')
    BY DEF InsertedBy
  <2> QED
    BY <1>1, <1>5, <2>1 DEF ReturnsAreAccounted
<1> QED
  BY <1>4, <1>6 DEF ReturnsInvariant

LEMMA OthersKeepReturns ==
  ASSUME ReturnsInvariant, Elsewhere({"upload", "log"}), UNCHANGED returnVars
  PROVE  ReturnsInvariant'
<1>0. /\ UNCHANGED <<records, previews, uploads, issued, byHand, unlogged>> /\ DOMAIN req = Worker
  BY DEF returnVars, ReturnsInvariant, ReturnsAreRows
<1>1. /\ DOMAIN req' = Worker /\ (Serial' <=> Serial)
      /\ \A v \in Worker : req'[v] = req[v] \/ req'[v].step \notin {"upload", "log"}
  <2> DEFINE steps == {"upload", "log"}
  <2> HIDE DEF steps
  <2>1. Elsewhere(steps)
    BY DEF steps
  <2>2. /\ DOMAIN req' = Worker /\ (Serial' <=> Serial)
        /\ \A v \in Worker : req'[v] = req[v] \/ req'[v].step \notin steps
    BY <1>0, <2>1, ElsewhereStays
  <2> QED
    BY <2>2 DEF steps
<1>2. ReturnsAreRows'
  BY <1>0, <1>1 DEF ReturnsInvariant, ReturnsAreRows, ReturnRequest
<1>3. Committed' = Committed
  <2>1. CASE UNCHANGED req
    BY <1>0, <2>1 DEF Committed
  <2>2. ASSUME NEW w \in Worker, req' = [req EXCEPT ![w] = req'[w]],
               {req[w].step, req'[w].step} \cap ({"upload", "log"} \cup {"off"}) = {}
        PROVE  Committed' = Committed
    <3>1. \A v \in Worker : v # w => req'[v] = req[v]
      BY <1>0, <2>2
    <3>2. /\ {v \in Worker : req'[v].step = "log"} = {v \in Worker : req[v].step = "log"}
          /\ \A v \in {x \in Worker : req[x].step = "log"} : req'[v] = req[v]
      BY <2>2, <3>1
    <3> QED
      BY <1>0, <3>2 DEF Committed
  <2> QED
    BY <2>1, <2>2 DEF Elsewhere
<1>4. Serial => \A v \in Worker : ReturnServed(req[v])'
  <2>1. Recorded' = Recorded /\ Previewed' = Previewed
    BY <1>0 DEF Recorded, Previewed
  <2> QED
    BY <1>0, <1>1, <2>1 DEF ReturnsInvariant, ReturnsAreAccounted, ReturnServed, Spent
<1>5. Serial => Cardinality(Recorded') = byHand' + unlogged' + InsertedBy(Committed')
  <2>1. Recorded' = Recorded
    BY <1>0 DEF Recorded
  <2> QED
    BY <1>0, <1>3, <2>1 DEF ReturnsInvariant, ReturnsAreAccounted
<1>6. Serial => \A n \in DOMAIN uploads' : Spent(uploads[n].token)'
  BY <1>0 DEF ReturnsInvariant, ReturnsAreAccounted, Spent
<1>7. ReturnsAreAccounted'
  <2>1. InsertedBy(Committed)' = InsertedBy(Committed') /\ Cardinality(Recorded)' = Cardinality(Recorded')
    BY DEF InsertedBy
  <2> QED
    BY <1>0, <1>1, <1>4, <1>5, <1>6, <2>1 DEF ReturnsInvariant, ReturnsAreAccounted
<1> QED
  BY <1>2, <1>7 DEF ReturnsInvariant

LEMMA ReturnsStep ==
  ASSUME ReturnsInvariant, [AdministrationNext]_administrationVars
  PROVE  ReturnsInvariant'
<1>1. DOMAIN req = Worker /\ Waiting \subseteq Worker
  BY DEF ReturnsInvariant, ReturnsAreRows, Waiting
<1>2. CASE ReturnsNext
  <2>1. CASE \E a \in User, t \in Token, rows \in [SchemeMonth -> {"ok", "error", "absent"}] : Preview(a, t, rows)
    BY <2>1, PreviewKeeps DEF Sheet
  <2>2. CASE \E t \in Token : Expire(t)
    BY <2>2, ExpireKeeps
  <2>3. CASE \E rows \in SUBSET SchemeMonth : AutoImport(rows)
    BY <2>3, EditsKeep
  <2>4. CASE \E w \in Waiting, a \in User, t \in Token :
               EmptyCommit(w, a, t) \/ \E modes \in [SchemeMonth -> Modes] : StartCommit(w, a, t, modes)
    BY <1>1, <2>4, EmptyCommitKeeps, StartCommitKeeps
  <2>5. CASE \E w \in Worker : ExecuteCommit(w) \/ BreakOff(w) \/ RollBack(w) \/ WriteUploadLog(w) \/ LoseUploadLog(w)
    BY <2>5, ExecuteCommitKeeps, BreakOffKeeps, RollBackKeeps, WriteUploadLogKeeps, LoseUploadLogKeeps
  <2>6. CASE \E a \in User, k \in SchemeMonth :
               CreateRecord(a, k) \/ DeleteRecord(a, k) \/ \E l \in SchemeMonth : UpdateRecord(a, k, l)
    BY <2>6, EditsKeep
  <2> QED
    BY <1>2, <2>1, <2>2, <2>3, <2>4, <2>5, <2>6 DEF ReturnsNext
<1>3. CASE Elsewhere({"upload", "log"}) /\ UNCHANGED returnVars
  BY <1>3, OthersKeepReturns
<1> QED
  BY <1>1, <1>2, <1>3, AreasAreApart

(* The inductive invariant of the monthly returns: however requests race,  *)
(* the log says of each row of a commit what became of it; one at a time,  *)
(* a token has one entry at most, what a commit looked up is so still, and *)
(* the rows of the table are those of the log, of the hand, and of uploads *)
(* that were cut off before their entry.                                   *)
THEOREM ReturnsInvariantHolds == AdministrationSpec => []ReturnsInvariant
<1>1. AdministrationInit => ReturnsInvariant
  BY ReturnsInitHolds
<1>2. ReturnsInvariant /\ [AdministrationNext]_administrationVars => ReturnsInvariant'
  BY ReturnsStep
<1> QED
  BY <1>1, <1>2, PTL DEF AdministrationSpec

(* A row that is to be kept is not among those a commit writes.            *)
LEMMA KeptRowsStay ==
  ASSUME NEW w \in Worker, ExecuteCommit(w) \/ BreakOff(w), NEW k \in Recorded, req[w].modes[k] = "skip"
  PROVE  records'[k] = records[k]
<1>1. k \in SchemeMonth
  BY DEF Recorded
<1>2. Fate(req[w], k) \in {"skipped", "errored"}
  BY DEF Fate, Insert
<1>3. records'[k] = IF k \in req[w].rows /\ Fate(req[w], k) \in {"inserted", "replaced"}
                    THEN req[w].token ELSE records[k]
  BY <1>1 DEF ExecuteCommit, BreakOff, RowsWritten
<1> QED
  BY <1>2, <1>3

(* An upload ends with its rows written, or with none.                     *)
LEMMA UploadsWriteOrNot ==
  ASSUME DOMAIN req = Worker, [AdministrationNext]_administrationVars,
         NEW w \in Worker, req[w].step = "upload", req'[w].step # "upload"
  PROVE  ExecuteCommit(w) \/ BreakOff(w) \/ UNCHANGED records
<1>1. ~Elsewhere({"upload", "log"})
  <2> SUFFICES ASSUME Elsewhere({"upload", "log"}) PROVE FALSE
    OBVIOUS
  <2>1. CASE UNCHANGED req
    BY <2>1
  <2>2. ASSUME NEW v \in Worker, req' = [req EXCEPT ![v] = req'[v]],
               {req[v].step, req'[v].step} \cap ({"upload", "log"} \cup {"off"}) = {}
        PROVE  FALSE
    <3>1. v # w
      BY <2>2
    <3>2. req'[w] = req[w]
      BY <2>2, <3>1
    <3> QED
      BY <3>2
  <2> QED
    BY <2>1, <2>2 DEF Elsewhere
<1>2. ReturnsNext
  BY <1>1, AreasAreApart
<1>3. ASSUME NEW v \in Worker, ExecuteCommit(v) \/ BreakOff(v) PROVE v = w
  <2>1. v # w => req'[w] = req[w]
    BY <1>3 DEF ExecuteCommit, BreakOff, Finish
  <2> QED
    BY <2>1
<1>4. ASSUME NEW v \in Worker, RollBack(v) \/ WriteUploadLog(v) \/ LoseUploadLog(v) PROVE UNCHANGED records
  BY <1>4 DEF RollBack, WriteUploadLog, LoseUploadLog
<1>5. ASSUME NEW v \in Worker, NEW a, NEW t, NEW modes, StartCommit(v, a, t, modes) PROVE UNCHANGED records
  BY <1>5 DEF StartCommit
<1>6. ASSUME NEW v \in Worker, NEW a, NEW t, EmptyCommit(v, a, t) PROVE UNCHANGED records
  BY <1>6 DEF EmptyCommit
<1>7. req' # req
  OBVIOUS
<1>8. ASSUME NEW a, NEW t, NEW rows, Preview(a, t, rows) \/ Expire(t) \/ AutoImport(rows) PROVE FALSE
  BY <1>7, <1>8 DEF Preview, Expire, AutoImport
<1>9. ASSUME NEW a, NEW k, NEW l, CreateRecord(a, k) \/ UpdateRecord(a, k, l) \/ DeleteRecord(a, k) PROVE FALSE
  BY <1>7, <1>9 DEF CreateRecord, UpdateRecord, DeleteRecord
<1>10. Waiting \subseteq Worker
  BY DEF Waiting
<1> QED
  BY <1>2, <1>3, <1>4, <1>5, <1>6, <1>8, <1>9, <1>10 DEF ReturnsNext

(* However requests race, a row that an upload was told to keep keeps its  *)
(* figures, also when it was entered after the upload had looked for it    *)
(* (upload.py:350, 357).                                                   *)
THEOREM KeptRowsAlwaysKeepTheirFigures == AdministrationSpec => KeptRowsKeepTheirFigures
<1>1. ReturnsInvariant => DOMAIN req = Worker
  BY DEF ReturnsInvariant, ReturnsAreRows
<1>2. ASSUME ReturnsInvariant, [AdministrationNext]_administrationVars
      PROVE  [\A w \in Worker : req[w].step = "upload" /\ req'[w].step # "upload" =>
                \A k \in Recorded : req[w].modes[k] = "skip" => records'[k] = records[k]]_records
  <2> SUFFICES ASSUME NEW w \in Worker, req[w].step = "upload", req'[w].step # "upload",
                      NEW k \in Recorded, req[w].modes[k] = "skip"
               PROVE  records'[k] = records[k]
    OBVIOUS
  <2> QED
    BY <1>1, <1>2, UploadsWriteOrNot, KeptRowsStay
<1> QED
  BY <1>2, ReturnsInvariantHolds, PTL DEF AdministrationSpec, KeptRowsKeepTheirFigures

(* The history that the property reads is the invariant's.                 *)
LEMMA HistoryAccounts == ASSUME ReturnsInvariant PROVE HistoryAccountsForTheReturns
<1>1. \A c \in Committed : c.rows = c.inserted + c.replaced + c.skipped + c.errored
  BY CommittedIsFinite, EntryColumns DEF ReturnsInvariant
<1>2. Serial => Cardinality(Recorded) = byHand + unlogged + MapThenSumSet(LAMBDA c : c.inserted, Committed)
  BY InsertedIsSum DEF ReturnsInvariant, ReturnsAreAccounted
<1>3. Serial => \A m, n \in DOMAIN uploads : uploads[m].token = uploads[n].token => m = n
  BY DEF ReturnsInvariant, ReturnsAreAccounted
<1> QED
  BY <1>1, <1>2, <1>3 DEF HistoryAccountsForTheReturns
-----------------------------------------------------------------------------
(* The budgets.                                                            *)
BudgetRow == [Category -> Int \cup {NoLine}]

(* A line that was copied is there as it was, or raised; one that was not  *)
(* copied is there already.                                                *)
CopiesLine(q, table, c) ==
  \/ /\ c \in Lines(q.new)
     /\ c \notin BudgetLine => q.new[c] = table[q.from][c]
     /\ c \in BudgetLine => 100 * q.new[c] - table[q.from][c] * Percent(c, q.rate) \in -500..500
     /\ q.overwrite \/ c \notin Lines(table[q.year])
  \/ ~q.overwrite /\ c \in Lines(table[q.year]) /\ c \notin Lines(q.new)

BudgetServed(q, table) ==
  /\ ~q.overwrite => \A c \in q.added : c \notin Lines(table[q.year])
  /\ "from" \in DOMAIN q /\ q.from # q.year => \A c \in Lines(table[q.from]) : CopiesLine(q, table, c)

BudgetsInvariant ==
  /\ DOMAIN req = Worker
  /\ lines \in [Year -> BudgetRow]
  /\ \A w \in Worker : req[w].step = "lines" => req[w].year \in Year /\ req[w].new \in BudgetRow
  /\ Serial => \A w \in Worker : req[w].step = "lines" => BudgetServed(req[w], lines)

LEMMA BudgetsInitHolds == ASSUME AdministrationInit PROVE BudgetsInvariant
<1>1. DOMAIN req = Worker /\ \A w \in Worker : req[w].step \in {"idle", "off"}
  BY DEF AdministrationInit, RequestsInit, Idle, Off
<1>2. lines = [y \in Year |-> NoBudget]
  BY DEF AdministrationInit, BudgetsInit
<1>3. NoBudget \in BudgetRow
  BY DEF NoBudget, BudgetRow
<1> QED
  BY <1>1, <1>2, <1>3 DEF BudgetsInvariant

LEMMA BudgetRequestBegins ==
  ASSUME BudgetsInvariant, NEW w \in Worker, NEW r, r.step = "lines", Begin(w, r), UNCHANGED lines,
         r.year \in Year, r.new \in BudgetRow, BudgetServed(r, lines)
  PROVE  BudgetsInvariant'
<1>1. DOMAIN req = Worker /\ r.step # "off"
  BY DEF BudgetsInvariant
<1>2. /\ Serial' <=> Serial
      /\ req'[w] = r
      /\ \A v \in Worker : v # w => req'[v] = req[v]
  BY <1>1, SerialBegins, RequestsAssumption
<1>3. DOMAIN req' = Worker
  BY <1>1 DEF Begin
<1>4. \A v \in Worker : req'[v].step = "lines" => req'[v].year \in Year /\ req'[v].new \in BudgetRow
  BY <1>2 DEF BudgetsInvariant
<1>5. Serial => \A v \in Worker : req'[v].step = "lines" => BudgetServed(req'[v], lines)
  BY <1>2 DEF BudgetsInvariant
<1> QED
  BY <1>2, <1>3, <1>4, <1>5 DEF BudgetsInvariant

LEMMA UpsertKeeps ==
  ASSUME BudgetsInvariant, NEW w \in Worker, NEW a, NEW y \in Year, NEW new \in BudgetRow, Upsert(w, a, y, new)
  PROVE  BudgetsInvariant'
<1> DEFINE r == [step |-> "lines", year |-> y, overwrite |-> FALSE,
                 added |-> {c \in Lines(new) : c \notin Lines(lines[y])}, new |-> new]
<1>1. Begin(w, r) /\ UNCHANGED lines /\ r.step = "lines" /\ r.year = y /\ r.new = new
  BY DEF Upsert
<1>2. BudgetServed(r, lines)
  BY DEF BudgetServed
<1> HIDE DEF r
<1> QED
  BY <1>1, <1>2, BudgetRequestBegins

(* What is raised is to the nearest hundredth; the rest is as it was.      *)
LEMMA NearestIsNear ==
  ASSUME NEW n \in Int
  PROVE  Nearest(n, 1000) \in Int /\ 1000 * Nearest(n, 1000) - n \in -500..500
<1> DEFINE m == 2 * n + 1000
           k == m \div 2000
<1>1. Nearest(n, 1000) = k /\ m \in Int
  BY DEF Nearest
<1>2. k \in Int /\ 2000 * k <= m /\ m < 2000 * k + 2000
  <2> HIDE DEF m
  <2> QED
    BY <1>1
<1> HIDE DEF k
<1>3. 2000 * k <= 2 * n + 1000 /\ 2 * n + 1000 < 2000 * k + 2000
  BY <1>2
<1>4. 1000 * k - n \in -500..500
  BY <1>2, <1>3
<1> QED
  BY <1>1, <1>2, <1>4

LEMMA RaisedIsNear ==
  ASSUME NEW c, NEW amount \in Int, NEW rate \in Int
  PROVE  /\ Raised(c, amount, rate) \in Int /\ Raised(c, amount, rate) # NoLine
         /\ c \notin BudgetLine => Raised(c, amount, rate) = amount
         /\ c \in BudgetLine => 100 * Raised(c, amount, rate) - amount * Percent(c, rate) \in -500..500
<1> DEFINE n == amount * Percent(c, rate)
           k == Nearest(n, 1000)
           r == Raised(c, amount, rate)
<1>1. n \in Int
  BY DEF Percent
<1>2. r = IF c \in BudgetLine THEN 10 * k ELSE amount
  BY DEF Raised
<1> HIDE DEF n, r
<1>3. k \in Int /\ 1000 * k - n \in -500..500
  <2> DEFINE Near(x) == Nearest(x, 1000) \in Int /\ 1000 * Nearest(x, 1000) - x \in -500..500
  <2>1. \A x \in Int : Near(x)
    BY NearestIsNear
  <2> HIDE DEF Near
  <2>2. Near(n)
    BY <1>1, <2>1
  <2> QED
    BY <2>2 DEF Near
<1> HIDE DEF k
<1>4. r \in Int /\ (c \notin BudgetLine => r = amount) /\ (c \in BudgetLine => 100 * r - n \in -500..500)
  BY <1>1, <1>2, <1>3
<1>5. r # NoLine
  BY <1>4, BudgetsAssumption
<1> QED
  BY <1>4, <1>5 DEF n, r

LEMMA CopyBudgetKeeps ==
  ASSUME BudgetsInvariant, NEW w \in Worker, NEW a, NEW y \in Year, NEW from \in Year, NEW rate \in Rate,
         NEW overwrite \in BOOLEAN, CopyBudget(w, a, y, from, rate, overwrite)
  PROVE  BudgetsInvariant'
<1> DEFINE budget == IF overwrite /\ from = y THEN NoBudget ELSE lines[from]
           copied == Copied(budget, lines[y], overwrite)
           new == [c \in Category |-> IF c \in copied THEN Raised(c, budget[c], rate) ELSE NoLine]
           r == [step |-> "lines", year |-> y, overwrite |-> overwrite, added |-> copied, from |-> from, rate |-> rate,
                 new |-> new]
<1>1. Begin(w, r) /\ UNCHANGED lines
  BY DEF CopyBudget
<1>2. budget \in BudgetRow /\ (from # y => budget = lines[from])
  <2>1. NoBudget \in BudgetRow
    BY DEF NoBudget, BudgetRow
  <2>2. lines[from] \in BudgetRow
    BY DEF BudgetsInvariant
  <2> QED
    BY <2>1, <2>2
<1>3. /\ r.step = "lines" /\ r.year = y /\ r.new = new /\ r.overwrite = overwrite /\ r.added = copied /\ r.from = from
      /\ r.rate = rate /\ rate \in Int
  BY BudgetsAssumption
<1>4. /\ copied \subseteq Lines(budget)
      /\ ~overwrite => \A c \in copied : c \notin Lines(lines[y])
      /\ \A c \in Lines(budget) : c \in copied \/ (~overwrite /\ c \in Lines(lines[y]))
  BY DEF Copied
<1> HIDE DEF budget, copied, new, r
<1>5. \A c \in Lines(budget) : c \in Category /\ budget[c] \in Int
  BY <1>2 DEF Lines, BudgetRow
<1>6. \A c \in copied : new[c] = Raised(c, budget[c], rate) /\ new[c] \in Int /\ new[c] # NoLine
  BY <1>3, <1>4, <1>5, RaisedIsNear DEF new
<1>7. \A c \in Category : c \notin copied => new[c] = NoLine
  BY DEF new
<1>8. new \in BudgetRow
  <2>1. \A c \in Category : new[c] \in Int \cup {NoLine}
    BY <1>6, <1>7
  <2>2. new = [c \in Category |-> new[c]]
    BY DEF new
  <2> QED
    BY <2>1, <2>2 DEF BudgetRow
<1>9. BudgetServed(r, lines)
  <2>1. ASSUME from # y, NEW c \in Lines(budget) PROVE CopiesLine(r, lines, c)
    <3>1. c \in Category /\ budget[c] \in Int /\ budget = lines[from]
      BY <1>2, <1>5, <2>1
    <3>2. CASE c \in copied
      <4>1. c \in Lines(new) /\ (overwrite \/ c \notin Lines(lines[y]))
        BY <1>4, <1>6, <3>1, <3>2 DEF Lines
      <4>2. /\ c \notin BudgetLine => new[c] = budget[c]
            /\ c \in BudgetLine => 100 * new[c] - budget[c] * Percent(c, rate) \in -500..500
        BY <1>3, <1>6, <3>1, <3>2, RaisedIsNear
      <4> QED
        BY <1>3, <3>1, <4>1, <4>2 DEF CopiesLine
    <3>3. CASE c \notin copied
      <4>1. ~overwrite /\ c \in Lines(lines[y]) /\ c \notin Lines(new)
        BY <1>4, <1>7, <3>1, <3>3 DEF Lines
      <4> QED
        BY <1>3, <4>1 DEF CopiesLine
    <3> QED
      BY <3>2, <3>3
  <2>2. r.from # r.year => \A c \in Lines(lines[r.from]) : CopiesLine(r, lines, c)
    BY <1>2, <1>3, <2>1
  <2>3. ~r.overwrite => \A c \in r.added : c \notin Lines(lines[r.year])
    BY <1>3, <1>4
  <2> QED
    BY <2>2, <2>3 DEF BudgetServed
<1> QED
  BY <1>1, <1>3, <1>8, <1>9, BudgetRequestBegins

LEMMA CommitLinesKeeps ==
  ASSUME BudgetsInvariant, NEW w \in Worker, CommitLines(w)
  PROVE  BudgetsInvariant'
<1> DEFINE q == req[w]
           kept == IF q.overwrite THEN NoBudget ELSE lines[q.year]
           new == [c \in Category |-> IF c \in Lines(q.new) THEN q.new[c] ELSE kept[c]]
<1>0. /\ DOMAIN req = Worker /\ q.step = "lines" /\ InFlight(w) /\ Finish(w)
      /\ lines' = IF RefusedLines(q) THEN lines ELSE [lines EXCEPT ![q.year] = new]
      /\ q.year \in Year /\ q.new \in BudgetRow /\ lines \in [Year -> BudgetRow]
  BY DEF CommitLines, BudgetsInvariant, InFlight
<1>1. /\ Serial' <=> Serial
      /\ req'[w] = Idle
      /\ \A v \in Worker : v # w => req'[v] = req[v]
      /\ Serial => \A v \in Worker : req'[v].step \in {"idle", "off"}
  BY <1>0, SerialFinishes, RequestsAssumption
<1>2. DOMAIN req' = Worker
  BY <1>0 DEF Finish
<1> HIDE DEF q
<1>3. kept \in BudgetRow
  BY <1>0 DEF NoBudget, BudgetRow
<1> HIDE DEF kept
<1>4. new \in BudgetRow
  BY <1>0, <1>3 DEF BudgetRow, Lines
<1> HIDE DEF new
<1>5. lines' \in [Year -> BudgetRow]
  BY <1>0, <1>4
<1>6. \A v \in Worker : req'[v].step = "lines" => req'[v].year \in Year /\ req'[v].new \in BudgetRow
  BY <1>1 DEF BudgetsInvariant, Idle
<1> QED
  BY <1>1, <1>2, <1>5, <1>6 DEF BudgetsInvariant

LEMMA OthersKeepBudgets ==
  ASSUME BudgetsInvariant, Elsewhere({"lines"}), UNCHANGED lines
  PROVE  BudgetsInvariant'
<1>1. /\ DOMAIN req' = Worker /\ (Serial' <=> Serial)
      /\ \A v \in Worker : req'[v] = req[v] \/ req'[v].step # "lines"
  <2> DEFINE steps == {"lines"}
  <2>1. DOMAIN req = Worker /\ Elsewhere(steps)
    BY DEF BudgetsInvariant
  <2> HIDE DEF steps
  <2>2. /\ DOMAIN req' = Worker /\ (Serial' <=> Serial)
        /\ \A v \in Worker : req'[v] = req[v] \/ req'[v].step \notin steps
    BY <2>1, ElsewhereStays
  <2> QED
    BY <2>2 DEF steps
<1>2. \A v \in Worker : req'[v].step = "lines" => req'[v].year \in Year /\ req'[v].new \in BudgetRow
  BY <1>1 DEF BudgetsInvariant
<1>3. Serial => \A v \in Worker : req'[v].step = "lines" => BudgetServed(req'[v], lines)
  BY <1>1 DEF BudgetsInvariant
<1> QED
  BY <1>1, <1>2, <1>3 DEF BudgetsInvariant

LEMMA BudgetsStep ==
  ASSUME BudgetsInvariant, [AdministrationNext]_administrationVars
  PROVE  BudgetsInvariant'
<1>1. DOMAIN req = Worker /\ Waiting \subseteq Worker
  BY DEF BudgetsInvariant, Waiting
<1>2. CASE BudgetsNext
  <2>1. ASSUME NEW a, NEW y, CreateFiscalYear(a, y) PROVE BudgetsInvariant'
    BY <2>1, OthersKeepBudgets DEF CreateFiscalYear, Elsewhere
  <2>2. ASSUME NEW w \in Worker, NEW a, NEW y \in Year, NEW new \in [Category -> Amount \cup {NoLine}],
               Upsert(w, a, y, new)
        PROVE  BudgetsInvariant'
    <3>1. new \in BudgetRow
      BY <2>2, BudgetsAssumption DEF BudgetRow
    <3> QED
      BY <2>2, <3>1, UpsertKeeps
  <2> QED
    BY <1>1, <1>2, <2>1, <2>2, CopyBudgetKeeps, CommitLinesKeeps DEF BudgetsNext
<1>3. CASE Elsewhere({"lines"}) /\ UNCHANGED lines
  BY <1>3, OthersKeepBudgets
<1> QED
  BY <1>1, <1>2, <1>3, AreasAreApart

(* The inductive invariant of the budgets: lines are amounts, and a copy   *)
(* in flight still has what it copies (fiscal_years.py:294).               *)
THEOREM BudgetsInvariantHolds == AdministrationSpec => []BudgetsInvariant
<1>1. AdministrationInit => BudgetsInvariant
  BY BudgetsInitHolds
<1>2. BudgetsInvariant /\ [AdministrationNext]_administrationVars => BudgetsInvariant'
  BY BudgetsStep
<1> QED
  BY <1>1, <1>2, PTL DEF AdministrationSpec

LEMMA BudgetsCopied == ASSUME BudgetsInvariant PROVE BudgetsAreCopiedWhole
<1> SUFFICES ASSUME NEW w \in Worker, Serial, req[w].step = "lines"
             PROVE  /\ ~RefusedLines(req[w])
                    /\ "from" \in DOMAIN req[w] /\ req[w].from # req[w].year =>
                         \A c \in Lines(lines[req[w].from]) : CopiesLine(req[w], lines, c)
  BY DEF BudgetsAreCopiedWhole, CopiesLine
<1> QED
  BY DEF BudgetsInvariant, BudgetServed, RefusedLines

(* The upload log says of every row what became of it, however requests    *)
(* race; one at a time, the rows of the returns are those it says were     *)
(* inserted, those entered by hand, and those of uploads that were cut off *)
(* before their entry (upload.py:188, 213, 235), no preview is in the log  *)
(* twice, and a budget is copied whole, at any rate, each of its lines to  *)
(* the nearest hundredth (fiscal_years.py:294, 347).                       *)
THEOREM FiguresAreAlwaysAccountedFor == AdministrationSpec => []FiguresAreAccountedFor
<1>1. ReturnsInvariant /\ BudgetsInvariant => FiguresAreAccountedFor
  BY HistoryAccounts, BudgetsCopied DEF FiguresAreAccountedFor
<1> QED
  BY <1>1, ReturnsInvariantHolds, BudgetsInvariantHolds, PTL
-----------------------------------------------------------------------------
(* The sources.                                                            *)

(* The source system has stamped a change with n or later.                 *)
Reached(n) == n = 0 \/ \E r \in Row : n <= origin[r]

(* Of the rows that are there, those up to n have been read.               *)
Covered(n, versions) ==
  \A r \in Row : Exists(r) /\ origin[r] <= n => <<r, origin[r]>> \in versions

(* What a request loaded, and what it will write, passes nothing over.     *)
RequestCovers(q) ==
  /\ q.step \in {"extract", "map", "commit"} =>
       Reached(q.since) /\ Covered(q.since, handled)
  /\ q.step \in {"map", "commit"} =>
       Reached(q.newest) /\ Covered(q.newest, handled \cup q.rows)

IInv ==
  /\ TypeOK
  /\ Reached(source.watermark)
  /\ Covered(source.watermark, handled)
  /\ \A w \in Worker : RequestCovers(req[w])

-----------------------------------------------------------------------------
(* Every step keeps the types: of each action, the request it leaves.      *)
LEMMA TypeInit == Init => TypeOK
BY SyncAssumption DEF Init, TypeOK, RequestsInit, Idle, Off, Watermark, Values, Stamp

LEMMA TypeCall ==
  ASSUME TypeOK, NEW w \in Worker, NEW pull \in BOOLEAN, NEW rows \in SUBSET Version,
         Call(w, pull, rows), spare' \in 0..MaxEvents
  PROVE  TypeOK'
BY DEF TypeOK, Call, Begin, data, OpenRequest

LEMMA TypeOpen ==
  ASSUME TypeOK, NEW w \in Worker, Open(w)
  PROVE  TypeOK'
<1> DEFINE r == CHOOSE x \in RunId : Fresh(x)
           q == [step |-> "extract", pull |-> req[w].pull, rows |-> req[w].rows,
                 run |-> r, since |-> source.watermark]
<1>1. r \in RunId
  BY DEF Open
<1>2. req[w] \in OpenRequest
  BY DEF Open, TypeOK, Idle, Off, ExtractRequest, MapRequest, CommitRequest
<1>3. q \in ExtractRequest
  BY <1>1, <1>2 DEF OpenRequest, ExtractRequest, TypeOK
<1>4. running' \subseteq RunId /\ req' = [req EXCEPT ![w] = q]
  BY <1>1 DEF Open, TypeOK
<1> QED
  BY <1>3, <1>4 DEF Open, TypeOK

LEMMA TypeExtract ==
  ASSUME TypeOK, NEW w \in Worker, Extract(w)
  PROVE  TypeOK'
<1> DEFINE rows == IF req[w].pull THEN Changed(req[w].since) ELSE req[w].rows
<1>1. req[w] \in ExtractRequest
  BY DEF Extract, TypeOK, Idle, Off, OpenRequest, MapRequest, CommitRequest
<1>2. rows \in SUBSET Version
  BY <1>1 DEF ExtractRequest, Changed
<1>3. PICK n \in Watermark :
        req' = [req EXCEPT ![w] = [step |-> "map", run |-> req[w].run, since |-> req[w].since,
                                   rows |-> rows, newest |-> n]]
  BY DEF Extract
<1>4. [step |-> "map", run |-> req[w].run, since |-> req[w].since,
       rows |-> rows, newest |-> n] \in MapRequest
  BY <1>1, <1>2 DEF ExtractRequest, MapRequest
<1> QED
  BY <1>3, <1>4 DEF Extract, TypeOK, data

LEMMA TypeMap ==
  ASSUME TypeOK, NEW w \in Worker, Map(w)
  PROVE  TypeOK'
<1> DEFINE q == [step |-> "commit", run |-> req[w].run, since |-> req[w].since,
                 rows |-> req[w].rows, newest |-> req[w].newest,
                 new |-> Aggregated(req[w].rows), loaded |-> Existing]
<1>1. req[w] \in MapRequest
  BY DEF Map, TypeOK, Idle, Off, OpenRequest, ExtractRequest, CommitRequest
<1>2. Aggregated(req[w].rows) \in Values /\ Existing \in Values
  BY <1>1 DEF MapRequest, Aggregated, Values, Existing, TypeOK
<1>3. q \in CommitRequest
  BY <1>1, <1>2 DEF MapRequest, CommitRequest
<1> QED
  BY <1>3 DEF Map, TypeOK, data

LEMMA TypeCommit ==
  ASSUME TypeOK, NEW w \in Worker, Commit(w)
  PROVE  TypeOK'
<1>1. req[w] \in CommitRequest
  BY DEF Commit, TypeOK, Idle, Off, OpenRequest, ExtractRequest, MapRequest
<1>2. /\ values' \in Values
      /\ source' \in [watermark : Watermark, enabled : BOOLEAN]
      /\ handled' \subseteq Version
  BY <1>1 DEF Commit, TypeOK, CommitRequest, Values
<1> QED
  BY <1>2 DEF Commit, TypeOK, Finish

LEMMA TypeFail ==
  ASSUME TypeOK, NEW w \in Worker, Fail(w)
  PROVE  TypeOK'
BY SyncAssumption DEF Fail, TypeOK, Finish, Spend, AfterFailure

LEMMA TypeStep == TypeOK /\ [Next]_vars => TypeOK'
<1> SUFFICES ASSUME TypeOK, [Next]_vars PROVE TypeOK'
  OBVIOUS
<1>1. CASE UNCHANGED vars
  BY <1>1 DEF TypeOK, vars, data
<1>2. ASSUME NEW r \in Row, ChangeRow(r) PROVE TypeOK'
  BY <1>2 DEF ChangeRow, TypeOK, Stamp, Watermark
<1>3. ASSUME NEW r \in Row, NEW c \in Cell, MapKey(r, c) PROVE TypeOK'
  BY <1>3, SyncAssumption DEF MapKey, TypeOK, Spend
<1>4. ASSUME NEW reset \in BOOLEAN, NEW enabled \in BOOLEAN, UpdateSource(reset, enabled)
      PROVE  TypeOK'
  BY <1>4, SyncAssumption DEF UpdateSource, TypeOK, Spend, Watermark
<1>5. ASSUME NEW w \in Worker, Scheduled(w) PROVE TypeOK'
  <2>1. spare' \in 0..MaxEvents
    BY <1>5 DEF Scheduled, TypeOK
  <2> QED
    BY <1>5, <2>1, TypeCall DEF Scheduled
<1>6. ASSUME NEW w \in Worker, Manual(w) PROVE TypeOK'
  <2>1. spare' \in 0..MaxEvents
    BY <1>6, SyncAssumption DEF Manual, TypeOK, Spend
  <2> QED
    BY <1>6, <2>1, TypeCall DEF Manual
<1>7. ASSUME NEW w \in Worker, NEW rows \in SUBSET {r \in Row : Exists(r)}, Upload(w, rows)
      PROVE  TypeOK'
  <2>1. spare' \in 0..MaxEvents
    BY <1>7, SyncAssumption DEF Upload, TypeOK, Spend
  <2>2. {<<r, origin[r]>> : r \in rows} \in SUBSET Version
    BY DEF TypeOK, Exists, Version, Stamp, Watermark
  <2> QED
    BY <1>7, <2>1, <2>2, TypeCall DEF Upload
<1>8. ASSUME NEW w \in Worker, Conflict(w) PROVE TypeOK'
  BY <1>8 DEF Conflict, TypeOK, Finish, data
<1>9. ASSUME NEW w \in Worker, Crash(w) PROVE TypeOK'
  BY <1>9, SyncAssumption DEF Crash, TypeOK, Finish, data, Spend
<1>10. ASSUME NEW r \in RunId, Age(r) PROVE TypeOK'
  BY <1>10 DEF Age, TypeOK
<1> QED
  BY <1>1, <1>2, <1>3, <1>4, <1>5, <1>6, <1>7, <1>8, <1>9, <1>10,
     TypeOpen, TypeExtract, TypeMap, TypeCommit, TypeFail DEF Next, Proceed

(* Stored rows and requests keep their types.                              *)
THEOREM TypeCorrect == Spec => []TypeOK
<1>1. Init => TypeOK
  BY TypeInit
<1>2. TypeOK /\ [Next]_vars => TypeOK'
  BY TypeStep
<1> QED
  BY <1>1, <1>2, PTL DEF Spec
-----------------------------------------------------------------------------
(* A step that changes neither the source system nor what a request        *)
(* carries leaves the request covered.                                     *)
LEMMA CoverKept ==
  ASSUME NEW w \in Worker, RequestCovers(req[w]), req'[w] = req[w],
         origin' = origin, handled \subseteq handled'
  PROVE  RequestCovers(req[w])'
BY DEF RequestCovers, Reached, Covered, Exists

(* A step of one worker that leaves it with a covered request and takes    *)
(* the source to a covered watermark keeps the invariant.                  *)
LEMMA OneWorker ==
  ASSUME IInv, TypeOK', NEW w \in Worker, NEW q,
         req' = [req EXCEPT ![w] = q], origin' = origin, handled \subseteq handled',
         RequestCovers(req[w])',
         Reached(source.watermark)', Covered(source.watermark, handled)'
  PROVE  IInv'
<1> SUFFICES ASSUME NEW v \in Worker PROVE RequestCovers(req[v])'
  BY DEF IInv
<1>1. CASE v = w
  BY <1>1
<1>2. CASE v # w
  BY <1>2, CoverKept DEF IInv, TypeOK
<1> QED
  BY <1>1, <1>2

(* The same source, and the same rows read, are covered after the step.    *)
LEMMA SourceKept ==
  ASSUME IInv, origin' = origin, source' = source, handled' = handled
  PROVE  Reached(source.watermark)' /\ Covered(source.watermark, handled)'
BY DEF IInv, Reached, Covered, Exists

-----------------------------------------------------------------------------
(* A change is stamped beyond every watermark the source system reached.   *)
LEMMA InvChangeRow ==
  ASSUME IInv, TypeOK', NEW r \in Row, ChangeRow(r)
  PROVE  IInv'
<1>1. PICK s \in Stamp : /\ \A q \in Row : origin[q] < s
                         /\ origin' = [origin EXCEPT ![r] = s]
  BY DEF ChangeRow
<1>2. ASSUME NEW n \in Watermark, NEW V, Reached(n), Covered(n, V)
      PROVE  Reached(n)' /\ \A q \in Row : origin'[q] # 0 /\ origin'[q] <= n => <<q, origin'[q]>> \in V
  <2>1. n < s
    BY <1>1, <1>2 DEF Reached, IInv, TypeOK, Stamp, Watermark
  <2>2. Reached(n)'
    BY <1>1, <2>1 DEF Reached, IInv, TypeOK, Stamp, Watermark
  <2>3. ASSUME NEW q \in Row, origin'[q] # 0, origin'[q] <= n PROVE <<q, origin'[q]>> \in V
    <3>1. q # r
      BY <1>1, <2>1, <2>3 DEF IInv, TypeOK, Stamp, Watermark
    <3> QED
      BY <1>1, <1>2, <2>3, <3>1 DEF Covered, Exists, IInv, TypeOK
  <2> QED
    BY <2>2, <2>3
<1>3. req' = req /\ source' = source /\ handled' = handled
  BY DEF ChangeRow
<1>4. Reached(source.watermark)' /\ Covered(source.watermark, handled)'
  BY <1>2, <1>3 DEF IInv, TypeOK, Covered, Exists
<1>5. ASSUME NEW w \in Worker PROVE RequestCovers(req[w])'
  <2>1. RequestCovers(req[w])
    BY DEF IInv
  <2>2. req[w].step \in {"extract", "map", "commit"} => req[w].since \in Watermark
    BY DEF IInv, TypeOK, Idle, Off, OpenRequest, ExtractRequest, MapRequest, CommitRequest
  <2>3. req[w].step \in {"map", "commit"} => req[w].newest \in Watermark
    BY DEF IInv, TypeOK, Idle, Off, OpenRequest, ExtractRequest, MapRequest, CommitRequest
  <2>4. req[w].step \in {"extract", "map", "commit"} =>
          Reached(req[w].since)' /\ Covered(req[w].since, handled)'
    BY <1>2, <1>3, <2>1, <2>2 DEF RequestCovers, Covered, Exists
  <2>5. req[w].step \in {"map", "commit"} =>
          Reached(req[w].newest)' /\ Covered(req[w].newest, handled \cup req[w].rows)'
    BY <1>2, <1>3, <2>1, <2>3 DEF RequestCovers, Covered, Exists
  <2> QED
    BY <1>3, <2>4, <2>5 DEF RequestCovers
<1> QED
  BY <1>4, <1>5 DEF IInv

LEMMA InvCall ==
  ASSUME IInv, TypeOK', NEW w \in Worker, NEW pull, NEW rows, Call(w, pull, rows)
  PROVE  IInv'
<1>1. req'[w].step = "open"
  BY DEF Call, Begin, IInv, TypeOK
<1>2. RequestCovers(req[w])'
  BY <1>1 DEF RequestCovers
<1> QED
  BY <1>2, OneWorker, SourceKept DEF Call, Begin, data

(* A request that ends, with nothing else changed, leaves the invariant.   *)
LEMMA InvFinish ==
  ASSUME IInv, TypeOK', NEW w \in Worker, Finish(w),
         origin' = origin, source' = source, handled' = handled
  PROVE  IInv'
<1>1. req'[w].step = "idle"
  BY DEF Finish, Idle, IInv, TypeOK
<1>2. RequestCovers(req[w])'
  BY <1>1 DEF RequestCovers
<1> QED
  BY <1>2, OneWorker, SourceKept DEF Finish

(* A run works from the watermark of the source, which is covered.         *)
LEMMA InvOpen ==
  ASSUME IInv, TypeOK', NEW w \in Worker, Open(w)
  PROVE  IInv'
<1> DEFINE q == req'[w]
<1>1. q.step = "extract" /\ q.since = source.watermark
  BY DEF Open, IInv, TypeOK
<1>2. Reached(source.watermark)' /\ Covered(source.watermark, handled)'
  BY SourceKept DEF Open
<1>3. RequestCovers(req[w])'
  BY <1>1, <1>2 DEF RequestCovers, Open
<1> QED
  BY <1>2, <1>3, OneWorker DEF Open

(* A pull reads every row that changed after its watermark, so that the    *)
(* latest stamp it read is covered by what was read before and by it.      *)
LEMMA InvExtract ==
  ASSUME IInv, TypeOK', NEW w \in Worker, Extract(w)
  PROVE  IInv'
<1> DEFINE rows == IF req[w].pull THEN Changed(req[w].since) ELSE req[w].rows
<1>1. req[w] \in ExtractRequest
  BY DEF Extract, IInv, TypeOK, Idle, Off, OpenRequest, MapRequest, CommitRequest
<1>2. PICK n \in Watermark :
        /\ NewWatermark(n, req[w], rows)
        /\ req' = [req EXCEPT ![w] = [step |-> "map", run |-> req[w].run, since |-> req[w].since,
                                      rows |-> rows, newest |-> n]]
  BY DEF Extract
<1>3. Reached(req[w].since) /\ Covered(req[w].since, handled)
  BY DEF IInv, RequestCovers, Extract
<1>4. Reached(n) /\ Covered(n, handled \cup rows)
  <2>1. CASE ~req[w].pull
    BY <1>2, <1>3, <2>1 DEF NewWatermark, Covered
  <2>2. CASE req[w].pull
    <3>1. rows = Changed(req[w].since) /\ HighWater(n, req[w].since, rows)
      BY <1>2, <2>2 DEF NewWatermark
    <3>2. Reached(n)
      <4>1. CASE n = req[w].since
        BY <1>3, <4>1
      <4>2. CASE \E v \in rows : v[2] = n
        <5>1. PICK v \in rows : v[2] = n
          BY <4>2
        <5>2. v[1] \in Row /\ n = origin[v[1]]
          BY <3>1, <5>1 DEF Changed, Version
        <5> QED
          BY <5>2 DEF Reached, Watermark
      <4> QED
        BY <3>1, <4>1, <4>2 DEF HighWater
    <3>3. ASSUME NEW r \in Row, Exists(r), origin[r] <= n
          PROVE  <<r, origin[r]>> \in handled \cup rows
      <4>1. origin[r] \in Stamp
        BY <3>3 DEF IInv, TypeOK, Exists, Stamp, Watermark
      <4>2. CASE origin[r] <= req[w].since
        BY <1>3, <3>3, <4>2 DEF Covered
      <4>3. CASE origin[r] > req[w].since
        BY <3>1, <4>1, <4>3 DEF Changed, Version
      <4> QED
        BY <1>1, <4>1, <4>2, <4>3 DEF ExtractRequest, Stamp, Watermark
    <3> QED
      BY <3>2, <3>3 DEF Covered
  <2> QED
    BY <1>1, <2>1, <2>2 DEF ExtractRequest
<1>5. origin' = origin /\ source' = source /\ handled' = handled
  BY DEF Extract, data
<1>6. req'[w] = [step |-> "map", run |-> req[w].run, since |-> req[w].since,
                 rows |-> rows, newest |-> n]
  BY <1>2 DEF IInv, TypeOK
<1>7. RequestCovers(req[w])'
  BY <1>3, <1>4, <1>5, <1>6 DEF RequestCovers, Reached, Covered, Exists
<1> QED
  BY <1>2, <1>5, <1>7, OneWorker, SourceKept

LEMMA InvMap ==
  ASSUME IInv, TypeOK', NEW w \in Worker, Map(w)
  PROVE  IInv'
<1>1. /\ req'[w].step = "commit" /\ req'[w].since = req[w].since
      /\ req'[w].newest = req[w].newest /\ req'[w].rows = req[w].rows
  BY DEF Map, IInv, TypeOK
<1>2. RequestCovers(req[w]) /\ req[w].step = "map"
  BY DEF IInv, Map
<1>3. origin' = origin /\ source' = source /\ handled' = handled
  BY DEF Map, data
<1>4. RequestCovers(req[w])'
  BY <1>1, <1>2, <1>3 DEF RequestCovers, Reached, Covered, Exists
<1> QED
  BY <1>3, <1>4, OneWorker, SourceKept DEF Map

(* A run writes a watermark that covers what it adds to the rows read, or  *)
(* leaves the one that is there.                                           *)
LEMMA InvCommit ==
  ASSUME IInv, TypeOK', NEW w \in Worker, Commit(w)
  PROVE  IInv'
<1>1. /\ Reached(req[w].newest) /\ Covered(req[w].newest, handled \cup req[w].rows)
      /\ Reached(source.watermark) /\ Covered(source.watermark, handled)
  BY DEF IInv, RequestCovers, Commit
<1>2. /\ origin' = origin /\ handled' = handled \cup req[w].rows
      /\ source'.watermark \in {req[w].newest, source.watermark}
  BY DEF Commit
<1>3. Reached(source.watermark)' /\ Covered(source.watermark, handled)'
  BY <1>1, <1>2 DEF Reached, Covered, Exists
<1>4. req'[w].step = "idle"
  BY DEF Commit, Finish, Idle, IInv, TypeOK
<1>5. RequestCovers(req[w])'
  BY <1>4 DEF RequestCovers
<1> QED
  BY <1>2, <1>3, <1>5, OneWorker DEF Commit, Finish

LEMMA InvFail ==
  ASSUME IInv, TypeOK', NEW w \in Worker, Fail(w)
  PROVE  IInv'
<1>1. source'.watermark = source.watermark /\ origin' = origin /\ handled' = handled
  BY DEF Fail, AfterFailure
<1>2. Reached(source.watermark)' /\ Covered(source.watermark, handled)'
  BY <1>1 DEF IInv, Reached, Covered, Exists
<1>3. req'[w].step = "idle"
  BY DEF Fail, Finish, Idle, IInv, TypeOK
<1>4. RequestCovers(req[w])'
  BY <1>3 DEF RequestCovers
<1> QED
  BY <1>1, <1>2, <1>4, OneWorker DEF Fail, Finish

(* A reset takes the watermark to where nothing is passed over.            *)
LEMMA InvUpdateSource ==
  ASSUME IInv, TypeOK', NEW reset, NEW enabled, UpdateSource(reset, enabled)
  PROVE  IInv'
<1>1. source'.watermark \in {0, source.watermark}
      /\ origin' = origin /\ handled' = handled /\ req' = req
  BY DEF UpdateSource
<1>2. Reached(source.watermark)' /\ Covered(source.watermark, handled)'
  BY <1>1 DEF IInv, TypeOK, Reached, Covered, Exists, Watermark
<1>3. \A w \in Worker : RequestCovers(req[w])'
  BY <1>1 DEF IInv, RequestCovers, Reached, Covered, Exists
<1> QED
  BY <1>2, <1>3 DEF IInv

(* What touches neither the source, its rows nor the requests.             *)
LEMMA InvElsewhere ==
  ASSUME IInv, TypeOK', origin' = origin, source' = source, handled' = handled, req' = req
  PROVE  IInv'
BY DEF IInv, RequestCovers, Reached, Covered, Exists

LEMMA InvInit == Init => IInv
<1> SUFFICES ASSUME Init PROVE IInv
  OBVIOUS
<1>1. TypeOK
  BY TypeInit
<1>2. Reached(source.watermark) /\ Covered(source.watermark, handled)
  BY DEF Init, Reached, Covered, Exists
<1>3. ASSUME NEW w \in Worker PROVE RequestCovers(req[w])
  BY DEF Init, RequestsInit, Idle, Off, RequestCovers
<1> QED
  BY <1>1, <1>2, <1>3 DEF IInv

LEMMA InvStep == IInv /\ [Next]_vars => IInv'
<1> SUFFICES ASSUME IInv, [Next]_vars PROVE IInv'
  OBVIOUS
<1>0. TypeOK'
  BY TypeStep DEF IInv
<1>1. CASE UNCHANGED vars
  BY <1>0, <1>1, InvElsewhere DEF vars, data
<1>2. ASSUME NEW r \in Row, ChangeRow(r) PROVE IInv'
  BY <1>0, <1>2, InvChangeRow
<1>3. ASSUME NEW r \in Row, NEW c \in Cell, MapKey(r, c) PROVE IInv'
  BY <1>0, <1>3, InvElsewhere DEF MapKey
<1>4. ASSUME NEW reset \in BOOLEAN, NEW enabled \in BOOLEAN, UpdateSource(reset, enabled)
      PROVE  IInv'
  BY <1>0, <1>4, InvUpdateSource
<1>5. ASSUME NEW w \in Worker, Scheduled(w) \/ Manual(w) PROVE IInv'
  BY <1>0, <1>5, InvCall DEF Scheduled, Manual
<1>6. ASSUME NEW w \in Worker, NEW rows \in SUBSET {r \in Row : Exists(r)}, Upload(w, rows)
      PROVE  IInv'
  BY <1>0, <1>6, InvCall DEF Upload
<1>7. ASSUME NEW w \in Worker, Proceed(w) PROVE IInv'
  <2>1. CASE Open(w)
    BY <1>0, <2>1, InvOpen
  <2>2. CASE Extract(w)
    BY <1>0, <2>2, InvExtract
  <2>3. CASE Map(w)
    BY <1>0, <2>3, InvMap
  <2>4. CASE Commit(w)
    BY <1>0, <2>4, InvCommit
  <2>5. CASE Conflict(w)
    BY <1>0, <2>5, InvFinish DEF Conflict, data
  <2> QED
    BY <1>7, <2>1, <2>2, <2>3, <2>4, <2>5 DEF Proceed
<1>8. ASSUME NEW w \in Worker, Fail(w) PROVE IInv'
  BY <1>0, <1>8, InvFail
<1>9. ASSUME NEW w \in Worker, Crash(w) PROVE IInv'
  BY <1>0, <1>9, InvFinish DEF Crash, data
<1>10. ASSUME NEW r \in RunId, Age(r) PROVE IInv'
  BY <1>0, <1>10, InvElsewhere DEF Age
<1> QED
  BY <1>1, <1>2, <1>3, <1>4, <1>5, <1>6, <1>7, <1>8, <1>9, <1>10 DEF Next

(* However runs race, fail or die, the watermark passes no version of a    *)
(* row that no finished run has read.                                      *)
THEOREM NothingIsPassedOver == Spec => []NothingPassedOver
<1>1. Init => IInv
  BY InvInit
<1>2. IInv /\ [Next]_vars => IInv'
  BY InvStep
<1>3. IInv => NothingPassedOver
  BY DEF IInv, NothingPassedOver, Covered
<1> QED
  BY <1>1, <1>2, <1>3, PTL DEF Spec
-----------------------------------------------------------------------------
(* Requests served one after the other.  That one run is recorded at a     *)
(* time is not inductive as it stands: it must be known that a request     *)
(* that was let through finds no other run recorded until it records its   *)
(* own, and that nobody stores a value between its load and its commit.    *)
InTurn(q, runs, table) ==
  /\ q.step = "open" => runs = {}
  /\ q.step \in {"extract", "map", "commit"} => runs \subseteq {q.run}
  /\ q.step = "commit" => q.loaded = table

OneRunning == \A r, s \in running : r = s

TurnsAreTaken == Serial => OneRunning /\ \A w \in Worker : InTurn(req[w], running, values)

(* A step that begins, continues or ends no request.                       *)
LEMMA TurnElsewhere ==
  ASSUME TurnsAreTaken, UNCHANGED <<values, req>>, running' \subseteq running
  PROVE  TurnsAreTaken'
<1>1. Serial' <=> Serial
  BY DEF Serial
<1>2. Serial => OneRunning' /\ \A w \in Worker : InTurn(req'[w], running', values')
  BY DEF TurnsAreTaken, OneRunning, InTurn
<1> QED
  BY <1>1, <1>2 DEF TurnsAreTaken

LEMMA TurnCall ==
  ASSUME RequestsAssumption, TypeOK, NEW w \in Worker, NEW pull \in BOOLEAN, NEW rows,
         Call(w, pull, rows)
  PROVE  TurnsAreTaken'
<1> DEFINE r == [step |-> "open", pull |-> pull, rows |-> rows]
<1>1. Begin(w, r) /\ r.step # "off" /\ running = {} /\ running' = {}
  BY DEF Call, Busy, data
<1>2. Serial => \A v \in Worker : v = w \/ req'[v].step = "off"
  BY <1>1, SerialBegins DEF TypeOK
<1>3. Serial' <=> Serial
  BY <1>1, SerialBegins DEF TypeOK
<1>4. req'[w] = r
  BY <1>1, SerialBegins DEF TypeOK
<1> QED
  BY <1>1, <1>2, <1>3, <1>4 DEF TurnsAreTaken, OneRunning, InTurn

(* A request goes on: what it carries then is the only one in flight.      *)
LEMMA TurnContinues ==
  ASSUME RequestsAssumption, TypeOK, NEW w \in Worker, InFlight(w), NEW r, r.step # "off",
         req' = [req EXCEPT ![w] = r],
         Serial => InTurn(r, running', values') /\ OneRunning'
  PROVE  TurnsAreTaken'
<1>1. /\ Serial' <=> Serial
      /\ req'[w] = r
      /\ Serial => \A v \in Worker : v # w => req'[v].step = "off"
  BY SerialContinues DEF TypeOK
<1>2. Serial => \A v \in Worker : InTurn(req'[v], running', values')
  BY <1>1 DEF InTurn
<1> QED
  BY <1>1, <1>2 DEF TurnsAreTaken

LEMMA TurnEnds ==
  ASSUME RequestsAssumption, TypeOK, TurnsAreTaken, NEW w \in Worker, InFlight(w), Finish(w),
         running' \subseteq running
  PROVE  TurnsAreTaken'
<1>1. /\ Serial' <=> Serial
      /\ Serial => \A v \in Worker : req'[v].step \in {"idle", "off"}
  BY SerialFinishes DEF TypeOK
<1>2. Serial => \A v \in Worker : InTurn(req'[v], running', values')
  BY <1>1 DEF InTurn
<1> QED
  BY <1>1, <1>2 DEF TurnsAreTaken, OneRunning

LEMMA TurnOpen ==
  ASSUME RequestsAssumption, TypeOK, TurnsAreTaken, NEW w \in Worker, Open(w)
  PROVE  TurnsAreTaken'
<1> DEFINE id == CHOOSE x \in RunId : Fresh(x)
           r == [step |-> "extract", pull |-> req[w].pull, rows |-> req[w].rows,
                 run |-> id, since |-> source.watermark]
<1>1. /\ InFlight(w) /\ req' = [req EXCEPT ![w] = r]
      /\ running' = running \cup {id}
      /\ Serial => running = {}
  BY DEF Open, InFlight, TurnsAreTaken, InTurn
<1> HIDE DEF id
<1>2. r.step = "extract" /\ r.run = id
  OBVIOUS
<1> HIDE DEF r
<1>3. Serial => InTurn(r, running', values') /\ OneRunning'
  BY <1>1, <1>2 DEF InTurn, OneRunning
<1> QED
  BY <1>1, <1>2, <1>3, TurnContinues

LEMMA TurnReads ==
  ASSUME RequestsAssumption, TypeOK, TurnsAreTaken, NEW w \in Worker, Extract(w) \/ Map(w)
  PROVE  TurnsAreTaken'
<1>1. UNCHANGED <<running, values>> /\ InFlight(w)
      /\ (Serial => OneRunning' /\ running \subseteq {req[w].run})
  BY DEF Extract, Map, InFlight, data, TurnsAreTaken, InTurn, OneRunning
<1>2. CASE Extract(w)
  <2> DEFINE rows == IF req[w].pull THEN Changed(req[w].since) ELSE req[w].rows
  <2>1. PICK n \in Watermark :
          req' = [req EXCEPT ![w] = [step |-> "map", run |-> req[w].run, since |-> req[w].since,
                                     rows |-> rows, newest |-> n]]
    BY <1>2 DEF Extract
  <2> DEFINE r == [step |-> "map", run |-> req[w].run, since |-> req[w].since,
                   rows |-> rows, newest |-> n]
  <2>2. r.step = "map" /\ r.run = req[w].run /\ req' = [req EXCEPT ![w] = r]
    BY <2>1
  <2> HIDE DEF r
  <2>3. Serial => InTurn(r, running', values')
    BY <1>1, <2>2 DEF InTurn
  <2> QED
    BY <1>1, <2>2, <2>3, TurnContinues
<1>3. CASE Map(w)
  <2> DEFINE r == [step |-> "commit", run |-> req[w].run, since |-> req[w].since,
                   rows |-> req[w].rows, newest |-> req[w].newest,
                   new |-> Aggregated(req[w].rows), loaded |-> Existing]
  <2>1. /\ req' = [req EXCEPT ![w] = r]
        /\ r.step = "commit" /\ r.run = req[w].run /\ r.loaded = values
    BY <1>3 DEF Map, Existing
  <2> HIDE DEF r
  <2>2. Serial => InTurn(r, running', values')
    BY <1>1, <2>1 DEF InTurn
  <2> QED
    BY <1>1, <2>1, <2>2, TurnContinues
<1> QED
  BY <1>2, <1>3

LEMMA TurnStep ==
  ASSUME RequestsAssumption, TypeOK, TurnsAreTaken, [Next]_vars
  PROVE  TurnsAreTaken'
<1>1. CASE UNCHANGED vars
  BY <1>1, TurnElsewhere DEF vars, data
<1>2. ASSUME NEW r \in Row, ChangeRow(r) PROVE TurnsAreTaken'
  BY <1>2, TurnElsewhere DEF ChangeRow
<1>3. ASSUME NEW r \in Row, NEW c \in Cell, MapKey(r, c) PROVE TurnsAreTaken'
  BY <1>3, TurnElsewhere DEF MapKey
<1>4. ASSUME NEW reset \in BOOLEAN, NEW enabled \in BOOLEAN, UpdateSource(reset, enabled)
      PROVE  TurnsAreTaken'
  BY <1>4, TurnElsewhere DEF UpdateSource
<1>5. ASSUME NEW r \in RunId, Age(r) PROVE TurnsAreTaken'
  BY <1>5, TurnElsewhere DEF Age
<1>6. ASSUME NEW w \in Worker, Scheduled(w) \/ Manual(w) PROVE TurnsAreTaken'
  BY <1>6, TurnCall DEF Scheduled, Manual
<1>7. ASSUME NEW w \in Worker, NEW rows \in SUBSET {r \in Row : Exists(r)}, Upload(w, rows)
      PROVE  TurnsAreTaken'
  BY <1>7, TurnCall DEF Upload
<1>8. ASSUME NEW w \in Worker, Commit(w) \/ Conflict(w) \/ Fail(w) \/ Crash(w)
      PROVE  TurnsAreTaken'
  <2>1. InFlight(w) /\ Finish(w) /\ running' \subseteq running
    BY <1>8 DEF Commit, Conflict, Fail, Crash, InFlight, data
  <2> QED
    BY <2>1, TurnEnds
<1> QED
  BY <1>1, <1>2, <1>3, <1>4, <1>5, <1>6, <1>7, <1>8, TurnOpen, TurnReads DEF Next, Proceed

(* Served one after the other, a source has one run at a time, the ones    *)
(* that died included, and a load inserts no value a second time (run_sync, *)
(* _load).                                                                 *)
THEOREM SerialRunsTakeTurns == Spec => []RunsTakeTurns
<1>1. Init => TurnsAreTaken
  <2>1. Init => \A w \in Worker : req[w].step \in {"idle", "off"}
    BY DEF Init, RequestsInit, Idle, Off
  <2> QED
    BY <2>1 DEF Init, TurnsAreTaken, OneRunning, InTurn
<1>2. TypeOK /\ TurnsAreTaken /\ [Next]_vars => TurnsAreTaken'
  BY TurnStep, RequestsAssumption
<1>3. TurnsAreTaken => OneRunAtATime
  BY AtMostOne DEF TurnsAreTaken, OneRunning, OneRunAtATime
<1>4. TurnsAreTaken => LoadsAreUpserts
  BY DEF TurnsAreTaken, InTurn, LoadsAreUpserts, Clash
<1> QED
  BY <1>1, <1>2, <1>3, <1>4, TypeCorrect, PTL DEF Spec, RunsTakeTurns
=============================================================================
