------------------------------- MODULE Access -------------------------------
(***************************************************************************)
(* Who may see and change what (app/platform/scope.py, and the access      *)
(* administration of app/platform/router.py).  An administrator grants     *)
(* roles on units, and duties; a scope is worked out from them at the      *)
(* start of every request, and everything else asks the scope.             *)
(***************************************************************************)
EXTENDS Accounts

-----------------------------------------------------------------------------
(* The organisation tree: rows of org_units, each under a parent, entered  *)
(* by administrators (app/routers/integration.py, upsert_org_units), from  *)
(* the configured zones (app/platform/bootstrap.py) and from the monthly   *)
(* returns (app/integration/pipeline.py, bootstrap_legacy).  Units are     *)
(* never deleted; their parent may change.                                 *)

CONSTANTS
  Unit,            \* unit codes
  NoUnit,          \* no parent
  Root,            \* the code "org"
  Zone,            \* the zones of the configuration
  Scheme           \* the schemes of the returns, under the first zone

ASSUME OrgUnitsAssumption ==
  /\ NoUnit \notin Unit /\ IsFiniteSet(Unit)
  /\ Root \in Unit
  /\ Zone \cup Scheme \subseteq Unit \ {Root}

VARIABLES
  units            \* rows of org_units, by code

NoRow == [exists |-> FALSE, parent |-> NoUnit, active |-> FALSE]
UnitUnder(parent) == [exists |-> TRUE, parent |-> parent, active |-> TRUE]

OrgUnitsInit == units = [u \in Unit |-> NoRow]

Known == {u \in Unit : units[u].exists}

(* _tree: the children of a unit.                                          *)
Children(u) == {c \in Known : units[c].parent = u}

(* subtree: a unit and, level by level, everything below it.               *)
subtree_Children(u) == {u} \cup Children(u)
subtree(u) ==
  LET upTo[n \in 0..Cardinality(Unit)] ==
        IF n = 0 THEN {u} ELSE upTo[n - 1] \cup UNION {Children(c) : c \in upTo[n - 1]}
  IN upTo[Cardinality(Unit)]
-----------------------------------------------------------------------------
(* ensure_org_tree: the root and the zones, those that are missing.        *)
EnsureOrgTree(a) ==
  /\ Free
  /\ Admin(a)
  /\ units' = [u \in Unit |-> IF u \in Known THEN units[u]
                              ELSE CASE u = Root -> UnitUnder(NoUnit)
                                     [] u \in Zone -> UnitUnder(Root)
                                     [] OTHER -> NoRow]
  /\ UNCHANGED <<accounts, req>>

(* bootstrap_legacy: the root, a zone and its schemes, those missing.      *)
BootstrapLegacy(a, zone) ==
  /\ Free
  /\ Admin(a)
  /\ units' = [u \in Unit |-> IF u \in Known THEN units[u]
                              ELSE CASE u = Root -> UnitUnder(NoUnit)
                                     [] u = zone -> UnitUnder(Root)
                                     [] u \in Scheme \ {zone} -> UnitUnder(zone)
                                     [] OTHER -> NoRow]
  /\ UNCHANGED <<accounts, req>>

(* upsert_org_units: under a parent that exists and is not below the unit. *)
MayMoveUnder_Itself(u, parent) == parent # NoUnit => parent \in Known
MayMoveUnder(u, parent) == parent # NoUnit => parent \in Known \ subtree(u)

UpsertUnit(w, a, u, parent, active) ==
  /\ Admin(a)
  /\ MayMoveUnder(u, parent)
  /\ Begin(w, [step |-> "unit", id |-> u, loaded |-> units[u],
               new |-> [exists |-> TRUE, parent |-> parent, active |-> active]])
  /\ UNCHANGED <<accounts, units>>

CommitUnit(w) ==
  LET q == req[w]
  IN /\ q.step = "unit"
     /\ units' = [units EXCEPT ![q.id] = Flush(q.loaded, q.new, @)]
     /\ Finish(w)
     /\ UNCHANGED accounts

OrgUnitsNext ==
  \E a \in User :
    \/ EnsureOrgTree(a)
    \/ \E z \in Zone : BootstrapLegacy(a, z)
    \/ \E w \in Waiting, u \in Unit, p \in Unit \cup {NoUnit}, active \in BOOLEAN : UpsertUnit(w, a, u, p, active)
    \/ \E w \in Worker : CommitUnit(w)

OrgUnitsTypeOK == units \in [Unit -> [exists : BOOLEAN, parent : Unit \cup {NoUnit}, active : BOOLEAN]]
-----------------------------------------------------------------------------
(* A set of units with everything below its members.                       *)
Closed(S) == \A u \in S : Children(u) \subseteq S

(* What is below a unit, said without an order of search.                  *)
Below(u) == {v \in Unit : \A S \in SUBSET Unit : u \in S /\ Closed(S) => v \in S}

(* No unit is below itself, so that totals over the tree count every unit  *)
(* once (integration.py:350).  Two moves at once may each find the other   *)
(* one not made, so it needs serial requests.                              *)
UnitsFormATree == Serial => \A u \in Known : \A c \in Children(u) : u \notin Below(c)

-----------------------------------------------------------------------------
(* Grants, duties and the scope worked out from them.                      *)

CONSTANTS
  Duty,            \* organisation-wide duties (FUNCTIONS)
  PrivateDuty,     \* those an administrator does not hold by being one
  Entered          \* the grants that administrators enter

ASSUME AccessAssumption == PrivateDuty \subseteq Duty

VARIABLES
  grants,          \* rows of user_org_roles: the role of a user on a unit
  duties           \* rows of user_functions

ROLE_RANK == [none |-> 0, viewer |-> 1, contributor |-> 2, reviewer |-> 3, approver |-> 4]
SCOPE_ROLES == DOMAIN ROLE_RANK \ {"none"}
Grants == [Unit -> DOMAIN ROLE_RANK]

ASSUME EnteredAssumption == Entered \subseteq Grants

AccessInit ==
  /\ grants = [u \in User |-> [x \in Unit |-> "none"]]
  /\ duties = [u \in User |-> {}]

(* The highest of some roles, "none" if there is none.                     *)
Best(roles) == CHOOSE r \in roles \cup {"none"} : \A s \in roles : ROLE_RANK[r] >= ROLE_RANK[s]

(* resolve_scope: grants on a unit cover what is below it, grants on the   *)
(* root everything.                                                        *)
resolve_scope(u) ==
  [account_role  |-> accounts[u].role,
   org_wide_role |-> grants[u][Root],
   unit_roles    |-> LET covering(x) == {g \in Unit \ {Root} : grants[u][g] # "none" /\ x \in subtree(g)}
                     IN [x \in Unit |-> Best({grants[u][g] : g \in covering(x)})],
   functions     |-> duties[u]]

IsAdmin(s) == s.account_role = "admin"
OrgWide(s) == IsAdmin(s) \/ s.org_wide_role # "none"
ReadOnly(s) == s.account_role = "viewer"

has_function(s, f) == f \in s.functions \/ (IsAdmin(s) /\ f \notin PrivateDuty)
require_function(s, f) == has_function(s, f) /\ ~ReadOnly(s)

role_on(s, x) == IF IsAdmin(s) THEN "approver" ELSE Best({s.org_wide_role, s.unit_roles[x]})
can_see(s, x) == role_on(s, x) # "none"

can_EvenReadOnly(s, x, role) == can_see(s, x) /\ ROLE_RANK[role_on(s, x)] >= ROLE_RANK[role]
can(s, x, role) ==
  /\ can_see(s, x)
  /\ role # "viewer" => ~ReadOnly(s)
  /\ ROLE_RANK[role_on(s, x)] >= ROLE_RANK[role]

(* visible_units, and the filter every list is put through.                *)
visible_units_Granted(s) == {x \in Unit : s.unit_roles[x] # "none"}
visible_units(s) == IF OrgWide(s) THEN Unit ELSE {x \in Unit : s.unit_roles[x] # "none"}

(* org_units, position_org_units and assignable_users.                     *)
OrgUnitsFor(s) == {x \in Known : units[x].active /\ can_see(s, x)} \cup (IF OrgWide(s) THEN {Root} ELSE {})
AssignableUsers(x) == {u \in Account : accounts[u].active /\ can_see(resolve_scope(u), x)}
-----------------------------------------------------------------------------
(* set_access replaces what there was: grants on known units, duties.  The *)
(* rows are deleted and added in one transaction, which fails when the     *)
(* account has gone meanwhile.                                             *)
KnownUnits == Known \cup {Root}

SetAccess(w, a, u, granted, functions) ==
  /\ Admin(a)
  /\ u \in Account
  /\ \A x \in Unit : granted[x] # "none" => x \in KnownUnits
  /\ Begin(w, [step |-> "access", id |-> u, grants |-> granted, functions |-> functions])
  /\ UNCHANGED <<accounts, units, grants, duties>>

CommitAccess(w) ==
  LET q == req[w]
  IN /\ q.step = "access"
     /\ IF q.id \in Account
        THEN grants' = [grants EXCEPT ![q.id] = q.grants] /\ duties' = [duties EXCEPT ![q.id] = q.functions]
        ELSE UNCHANGED <<grants, duties>>
     /\ Finish(w)
     /\ UNCHANGED <<accounts, units>>

(* With an account go its grants and duties (ON DELETE CASCADE).           *)
Cascade ==
  /\ grants' = [u \in User |-> IF accounts'[u].role = "none" THEN [x \in Unit |-> "none"] ELSE grants[u]]
  /\ duties' = [u \in User |-> IF accounts'[u].role = "none" THEN {} ELSE duties[u]]

AccessNext ==
  \/ \E w \in Waiting, a, u \in User, g \in Entered, f \in SUBSET Duty : SetAccess(w, a, u, g, f)
  \/ \E w \in Worker : CommitAccess(w)

AccessTypeOK == grants \in [User -> Grants] /\ duties \in [User -> SUBSET Duty]
-----------------------------------------------------------------------------
(* What a scope answers is what was granted: a unit is seen exactly if the *)
(* account is an administrator's, or a role was granted on it, on a unit   *)
(* above it or on the root, and the filter of lists (111) holds the units  *)
(* the guards let through (99); work for a role may be done on a unit      *)
(* exactly if one of those grants ranks as high, and by a read-only        *)
(* account never (102); and the private duty is held only if granted       *)
(* (scope.py: "A grant on a unit covers that unit and every unit below     *)
(* it", "The account-level viewer role stays read-only whatever the        *)
(* grant").                                                                *)
ScopesAreWhatWasGranted ==
  \A u \in Account :
    LET s == resolve_scope(u)
        granted(x) == {g \in Unit : grants[u][g] # "none" /\ (g = Root \/ x \in Below(g))}
        seen == {x \in Unit : can_see(s, x)}
    IN /\ seen = {x \in Unit : accounts[u].role = "admin" \/ granted(x) # {}}
       /\ seen = visible_units(s)
       /\ \A x \in Unit, role \in SCOPE_ROLES :
            can(s, x, role) <=>
              /\ role # "viewer" => accounts[u].role # "viewer"
              /\ accounts[u].role = "admin" \/ \E g \in granted(x) : ROLE_RANK[grants[u][g]] >= ROLE_RANK[role]
       /\ \A f \in PrivateDuty : require_function(s, f) => f \in duties[u]
       /\ OrgUnitsFor(s) \subseteq {x \in Unit : u \in AssignableUsers(x)} \/ ~accounts[u].active

(* Access is worked out over a tree: no unit is below itself, and scopes   *)
(* answer what was granted on it.                                          *)
AccessFollowsTheTree == UnitsFormATree /\ ScopesAreWhatWasGranted
=============================================================================
