-------------------------------- MODULE Roles --------------------------------
(***************************************************************************)
(* The accounts and the roles they hold on the unit the records belong to  *)
(* (app/platform/scope.py, resolve_scope: read once by every request).     *)
(***************************************************************************)
CONSTANTS
  User,
  Nobody,
  Reviewer,        \* accounts with the reviewer role on the unit
  Approver         \* accounts with the approver role on the unit

ASSUME RolesAssumption == Nobody \notin User /\ Reviewer \subseteq User /\ Approver \subseteq User
=============================================================================
