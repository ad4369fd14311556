------------------------------ MODULE Accounts ------------------------------
(***************************************************************************)
(* Accounts and sign-in (app/routers/users.py, app/auth.py).  A request    *)
(* carries a token that names an account; the role, whether the account is *)
(* active and whether its password is still to be changed are read from    *)
(* the database at the start of every request.  Administrators manage the  *)
(* accounts; start-up makes the first administrator when there is none.    *)
(*                                                                         *)
(* A password is told apart by who knows it: "given" when somebody else    *)
(* set it, "own" when the holder chose it.                                 *)
(***************************************************************************)
EXTENDS Requests

CONSTANTS
  User,            \* user names
  DefaultAdmin     \* the one start-up creates

ASSUME AccountsAssumption == DefaultAdmin \in User

VARIABLES
  accounts         \* rows of users, by name

VALID_ROLES == {"admin", "user", "viewer"}

NoAccount == [role |-> "none", active |-> FALSE, must_change |-> FALSE, password |-> "none"]

AccountsInit == accounts = [u \in User |-> NoAccount]

Account == {u \in User : accounts[u].role # "none"}

(* get_current_user_allow_pending, get_current_user and require_admin.     *)
SignedIn(u) == u \in Account /\ accounts[u].active
MayUse(u) == SignedIn(u) /\ ~accounts[u].must_change
Admin(u) == MayUse(u) /\ accounts[u].role = "admin"

(* require_export: what leaves the application, beyond the pages.          *)
MayExport(u) == MayUse(u) /\ accounts[u].role # "viewer"

(* Hashes are salted: a password that is set is written whatever it was.   *)
LoadAccount(w, u, values) ==
  /\ Begin(w, [step |-> "account", id |-> u, new |-> Assign(accounts[u], values),
               loaded |-> [accounts[u] EXCEPT !.password = IF "password" \in DOMAIN values THEN "none" ELSE @]])
  /\ UNCHANGED accounts
-----------------------------------------------------------------------------
(* ensure_default_admin: at start-up, when no account is left or was made; *)
(* its password is printed once and has to be changed.                     *)
StartUp ==
  /\ Free
  /\ Account = {}
  /\ accounts' = [accounts EXCEPT ![DefaultAdmin] =
       [role |-> "admin", active |-> TRUE, must_change |-> TRUE, password |-> "given"]]
  /\ UNCHANGED req

(* change_password: the account's own, which must differ.                  *)
ChangePassword(w, u) ==
  /\ SignedIn(u)
  /\ LoadAccount(w, u, [password |-> "own", must_change |-> FALSE])

(* create_user: the name is looked up first, and unique in the table.      *)
CreateUser(w, a, u, role) ==
  /\ Admin(a)
  /\ u \notin Account
  /\ Begin(w, [step |-> "create", id |-> u,
               row |-> [role |-> role, active |-> TRUE, must_change |-> TRUE, password |-> "given"]])
  /\ UNCHANGED accounts

CommitUser(w) ==
  LET q == req[w]
  IN /\ q.step = "create"
     /\ accounts' = IF q.id \in Account THEN accounts ELSE [accounts EXCEPT ![q.id] = q.row]
     /\ Finish(w)

(* update_user: of role and active, those that are given; administrators   *)
(* neither demote nor deactivate themselves.                               *)
MayUpdate_Oneself(a, u, values) == TRUE
MayUpdate(a, u, values) ==
  u = a => /\ "role" \in DOMAIN values => values.role = "admin"
           /\ "active" \in DOMAIN values => values.active

UpdateUser(w, a, u, values) ==
  /\ Admin(a)
  /\ u \in Account
  /\ MayUpdate(a, u, values)
  /\ LoadAccount(w, u, values)

(* reset_password: temporary, unless administrators reset their own.       *)
Reset(a, u) == [password |-> IF u = a THEN "own" ELSE "given", must_change |-> u # a]

ResetPassword(w, a, u) ==
  /\ Admin(a)
  /\ u \in Account
  /\ LoadAccount(w, u, Reset(a, u))

(* The commit of an account that was deleted meanwhile fails.              *)
CommitAccount(w) ==
  LET q == req[w]
  IN /\ q.step = "account"
     /\ accounts' = IF q.id \in Account
                    THEN [accounts EXCEPT ![q.id] = Flush(q.loaded, q.new, @)] ELSE accounts
     /\ Finish(w)

(* delete_user: never one's own.                                           *)
DeleteUser(w, a, u) ==
  /\ Admin(a)
  /\ u \in Account \ {a}
  /\ Begin(w, [step |-> "delete", id |-> u])
  /\ UNCHANGED accounts

CommitDelete(w) ==
  /\ req[w].step = "delete"
  /\ accounts' = [accounts EXCEPT ![req[w].id] = NoAccount]
  /\ Finish(w)

Changes == [role : VALID_ROLES] \cup [active : BOOLEAN] \cup [role : VALID_ROLES, active : BOOLEAN]

AccountsNext ==
  \/ StartUp
  \/ \E w \in Waiting, u \in User :
       \/ ChangePassword(w, u)
       \/ \E a \in User :
            \/ \E role \in VALID_ROLES : CreateUser(w, a, u, role)
            \/ \E values \in Changes : UpdateUser(w, a, u, values)
            \/ ResetPassword(w, a, u)
            \/ DeleteUser(w, a, u)
  \/ \E w \in Worker : CommitUser(w) \/ CommitAccount(w) \/ CommitDelete(w)

AccountsTypeOK ==
  accounts \in [User -> [role : VALID_ROLES \cup {"none"}, active : BOOLEAN, must_change : BOOLEAN,
                         password : {"none", "given", "own"}]]
-----------------------------------------------------------------------------
(* The installation always keeps an active administrator: nobody demotes,  *)
(* deactivates or deletes their own account, so one is left whatever they  *)
(* do to each other (users.py:311, 369).  Two of them at once do it to     *)
(* each other, which is why it needs serial requests; start-up repairs     *)
(* only the case that no account is left at all.                           *)
AnAdministratorRemains ==
  Serial /\ Account # {} => \E u \in Account : accounts[u].role = "admin" /\ accounts[u].active

(* Nobody uses the application on a password somebody else knows           *)
(* (users.py:351, auth.py:121): it is changed first.  A holder who changes *)
(* a temporary password while it is reset again clears the mark the second *)
(* reset found set and did not write: so it needs serial requests.         *)
GivenPasswordsAreChanged ==
  Serial => \A u \in Account : MayUse(u) => accounts[u].password = "own"
=============================================================================
