-------------------------- MODULE MCAdministration --------------------------
(***************************************************************************)
(* What administrators keep, and what hangs on the accounts: the           *)
(* organisation tree and the access to it, links between records, notices, *)
(* the monthly returns and the budgets, served by the same workers.        *)
(***************************************************************************)
EXTENDS Links, Notices, Returns, Budgets

treeVars == <<units, grants, duties>>
linkVars == <<links, comments>>
noticeVars == <<today, items, notices, unread, reminded>>
returnVars == <<records, previews, uploads, issued, byHand, unlogged>>
budgetVars == <<years, lines>>
administrationVars == <<accounts, treeVars, linkVars, noticeVars, returnVars, budgetVars, req>>

AdministrationInit ==
  /\ RequestsInit
  /\ AccountsInit
  /\ OrgUnitsInit
  /\ AccessInit
  /\ LinksInit
  /\ NoticesInit
  /\ ReturnsInit
  /\ BudgetsInit

AdministrationNext ==
  \/ AccountsNext /\ Cascade /\ UNCHANGED <<units, linkVars, noticeVars, returnVars, budgetVars>>
  \/ OrgUnitsNext /\ UNCHANGED <<grants, duties, linkVars, noticeVars, returnVars, budgetVars>>
  \/ AccessNext /\ UNCHANGED <<linkVars, noticeVars, returnVars, budgetVars>>
  \/ LinksNext /\ UNCHANGED <<noticeVars, returnVars, budgetVars>>
  \/ NoticesNext /\ UNCHANGED <<treeVars, linkVars, returnVars, budgetVars>>
  \/ ReturnsNext /\ UNCHANGED <<treeVars, linkVars, noticeVars, budgetVars>>
  \/ BudgetsNext /\ UNCHANGED <<treeVars, linkVars, noticeVars, returnVars>>

AdministrationSpec == AdministrationInit /\ [][AdministrationNext]_administrationVars

(* The accounts stay in the hands of their holders and of an administrator *)
(* (users.py:311, 351).                                                    *)
AccountsStayUsable == AnAdministratorRemains /\ GivenPasswordsAreChanged

(* What is looked up and then inserted is there once: links between        *)
(* records and notices of what is due (links.py:35, notifications.py:25).  *)
NothingIsMadeTwice == LinksAreMadeOnce /\ RemindersAreDailyAndOnce

(* Figures can be traced to where they came from: the monthly returns to   *)
(* the uploads and entries, a copied budget to the year it was copied from *)
(* (upload.py:235, fiscal_years.py:294).                                   *)
FiguresAreAccountedFor == HistoryAccountsForTheReturns /\ BudgetsAreCopiedWhole

-----------------------------------------------------------------------------

CONSTANTS ann, bob, org, north, plant, finding, paper, jan, feb, staff, share

MCUnitOf == finding :> north @@ paper :> plant

(* Thousandths that round and that do not, and rates in percent.           *)
MCAmount == {-25, 105}
MCRate == {-50, 0, 8}
MCEvidence == {<<finding, paper>>}

(* Grants on the root, on a zone, on a scheme, and one inside another.     *)
Grant(o, n, p) == org :> o @@ north :> n @@ plant :> p
MCEntered ==
  {Grant("none", "none", "none"), Grant("viewer", "none", "none"), Grant("approver", "none", "none"),
   Grant("none", "contributor", "none"), Grant("viewer", "approver", "none"),
   Grant("none", "reviewer", "approver"), Grant("none", "none", "viewer")}

Notified == {n \in Notice : Sent(n)}
Granted == {p \in User \X Unit : grants[p[1]][p[2]] # "none"}
Taken == {q \in {req[w] : w \in Worker} : q.step \notin {"idle", "off"}}
Asked(steps) == \E q \in Taken : q.step \in steps

(* The tree of the configuration and the returns.                          *)
UsualTree == units = [x \in Unit |-> UnitUnder(CASE x = org -> NoUnit [] x = north -> org [] OTHER -> north)]

(* The areas hang on the accounts only: one of them at a time.             *)
Areas ==
  {area \in {<<"accounts", Asked({"account", "create", "delete"})>>,
             <<"tree", Known # {} \/ Asked({"unit"})>>,
             <<"notices", today > 0 \/ (\E i \in Item : items[i].open) \/ Asked({"remind"}) \/ Notified # {}>>,
             <<"returns", issued # {} \/ Recorded # {} \/ byHand # 0>>,
             <<"budgets", years # {}>>} : area[2]}
Linked == MadeLinks # {} \/ (\E e \in Entity : comments[e] # {}) \/ Asked({"link", "unlink"})

(* The default administrator and a plain account.                          *)
Settled == Account = User /\ \A u \in User : MayUse(u) /\ accounts[u].password = "own" /\ Admin(ann)

(* Grants and duties on the usual tree, or one grant on any tree or while  *)
(* there are links.                                                        *)
AccessBounds ==
  /\ Granted # {} \/ Asked({"access"}) => Settled /\ ~Admin(bob)
  /\ ~UsualTree => Cardinality(Granted) <= 1
  /\ \A u \in User : duties[u] # {} => u = bob /\ Granted = {} /\ UsualTree
  /\ \A q \in Taken : q.step = "access" =>
       q.id = bob /\ UsualTree /\ (q.functions = {} \/ q.grants = Grant("none", "none", "none"))
  /\ Linked => UsualTree /\ Cardinality(Granted) <= 1 /\ (\A u \in User : duties[u] = {})
  /\ MadeLinks # {} => \A e \in Entity : comments[e] = {}

(* Only the scheme is ever switched off.                                   *)
TreeBounds ==
  /\ \A x \in Known : units[x].active \/ x = plant
  /\ \A q \in Taken : q.step = "unit" => q.new.active \/ q.id = plant

(* Workbooks with two rows, with one, and with one in error.               *)
ReturnsBounds ==
  /\ byHand \in 0..1 \/ (issued = {} /\ byHand = 2)
  /\ \A t \in Previewed :
       <<previews[t][jan], previews[t][feb]>> \in {<<"ok", "ok">>, <<"ok", "absent">>, <<"error", "ok">>, <<"error", "error">>}
  /\ Cardinality(issued) = 2 => unlogged = 0 /\ (Len(uploads) <= 1 \/ Taken = {})

NoticesBounds ==
  /\ Cardinality(Notified) <= 2 /\ (Cardinality(Notified) = 2 => unread = notices)
  /\ \A i \in Item :
       /\ ~items[i].open => items[i].due = MaxDay
       /\ ~items[i].open \/ Notified # {} \/ today > 0 \/ Asked({"remind"}) => items[i].owner = ann

(* Salaries beside shares, or staff alone; and copies of what was entered: *)
(* the budget of the first year stays as entered.                          *)
Budgeted == UNION {Lines(lines[y]) : y \in Year} \cup UNION {Lines(q.new) : q \in {r \in Taken : r.step = "lines"}}
BudgetsBounds ==
  /\ Budgeted \subseteq Category \ {staff} \/ Budgeted = {staff}
  /\ \A c \in Category : lines[2025][c] \in Amount \cup {NoLine}

(* Where requests race: what the properties still promise of links,        *)
(* reminders and uploads, and a little of the rest.                        *)
Racing ==
  /\ <<"accounts", TRUE>> \in Areas => Cardinality(Taken) <= 1
  /\ Known # {} /\ ~UsualTree => (\A q \in Taken : q.step = "unit") /\ org \in Known /\ units[org] = UnitUnder(NoUnit)
  /\ Asked({"unit"}) => Granted = {} /\ MadeLinks = {} /\ ~Asked({"access"})
  /\ \A q \in Taken : q.step = "unit" => q.loaded.exists /\ q.new.active /\ q.id # org
  /\ \A e \in Entity : comments[e] = {}
  /\ \A l \in MadeLinks : l.from = finding
  /\ Linked => Granted = {} /\ ~Asked({"access"})
  /\ today <= 1 /\ Cardinality(Notified) <= 1
  /\ \A i \in Item : items[i].owner = ann /\ items[i].due \in {1, MaxDay}
  /\ Cardinality(issued) <= 1 /\ Len(uploads) + unlogged <= 1 /\ \A t \in Previewed : previews[t][jan] = "ok"
  /\ byHand > 0 => byHand = 1 /\ uploads = <<>> /\ Cardinality(Taken) = 1 /\ Asked({"upload"})
  /\ Cardinality(years) <= 1 /\ \A q \in Taken : q.step = "lines" => q.new[staff] = NoLine /\ q.new[share] = NoLine

Bounds ==
  /\ Cardinality(Areas) <= 1
  /\ Areas \subseteq {<<"accounts", TRUE>>} \/ Settled
  /\ Areas # {} /\ <<"accounts", TRUE>> \notin Areas =>
       /\ ~Asked({"account", "create", "delete"})
       /\ accounts[bob].role \in (IF Known = {} THEN {"user"} ELSE {"user", "viewer"})
  /\ AccessBounds
  /\ TreeBounds
  /\ ReturnsBounds
  /\ NoticesBounds
  /\ BudgetsBounds
  /\ Serial \/ Racing

Symmetry == Permutations(Worker) \cup Permutations(Token)
=============================================================================
