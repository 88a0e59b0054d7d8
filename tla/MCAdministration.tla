-------------------------- MODULE MCAdministration --------------------------
(* Two workers, the initial administrator and one more superadmin; either  *)
(* may be deleted, demoted, and created again.                             *)
EXTENDS Administration

CONSTANTS e1, e2

MCCreated == {[email |-> e2, role |-> "superadmin"]}
MCChange ==
    {[role |-> {"readonly"}, active |-> {}], [role |-> {"superadmin"}, active |-> {}]}

(* The lists of PERMISSIONS and the levels of the roles agree: who is in a *)
(* list is who check_permission lets pass.                                 *)
ASSUME ListsAgreeWithLevels ==
    \A p \in DOMAIN PERMISSIONS : \A r \in Role : CheckPermission(r, p) <=> r \in PERMISSIONS[p]
=============================================================================
