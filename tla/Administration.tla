--------------------------- MODULE Administration ---------------------------
(***************************************************************************)
(* Start-up of the server and its accounts: lifespan and _init_db of       *)
(* main.py, which every uvicorn worker runs by itself against the one      *)
(* database, the roles of core/rbac.py, and the endpoints of               *)
(* api/v1/users.py that create, change and delete accounts.                *)
(*                                                                         *)
(* A worker is bounded to one request at a time; the next one may be any.  *)
(* Requests that end before they write (401, 403, 404, 400) are left out.  *)
(***************************************************************************)
EXTENDS Naturals, FiniteSets

CONSTANTS
    Worker,
    Id,           \* the accounts' UUIDs; a bound on those in use
    Email,
    InitialAdmin, \* settings.INITIAL_ADMIN_EMAIL
    Created,      \* the [email, role] that create_user is called with
    Change,       \* what update_user is called with: [role, active], sets of at
                  \* most one value, empty for a field that is left out
    NoAccount,
    MaxCrashes    \* bounds the crashes of workers

ASSUME AdministrationAssumption ==
    /\ IsFiniteSet(Worker)
    /\ NoAccount \notin Id
    /\ InitialAdmin \in Email
    /\ \A c \in Created : c.email \in Email
    /\ \A c \in Change : c.active \subseteq BOOLEAN
    /\ MaxCrashes \in Nat

-----------------------------------------------------------------------------
(* Role, ROLE_LEVELS and has_role.  Role(...) raises for any other name: a *)
(* user with such a role is answered 500.                                  *)
ROLE_LEVELS == [readonly |-> 0, helpdesk |-> 1, admin |-> 2, superadmin |-> 3]
Role == DOMAIN ROLE_LEVELS

HasRole(role, required) == role \in Role /\ ROLE_LEVELS[role] >= ROLE_LEVELS[required]

ForAll ==
    {"device:read", "policy:read", "patch:read", "software:read", "bitlocker:read",
     "compliance:read", "report:read", "alert:read"}
ForHelpdesk == {"remote:shell", "remote:file_transfer", "remote:lock", "alert:manage"}
ForAdmins ==
    {"device:write", "device:retire", "remote:reboot", "policy:write", "patch:approve",
     "patch:deploy", "software:deploy", "software:upload", "bitlocker:manage",
     "bitlocker:recovery_key", "compliance:write", "user:read", "report:export",
     "settings:read"}
ForSuperadmins == {"device:delete", "device:wipe", "user:write", "settings:write"}

PERMISSIONS ==
    [p \in ForAll \cup ForHelpdesk \cup ForAdmins \cup ForSuperadmins |->
        CASE p \in ForAll -> Role
          [] p \in ForHelpdesk -> Role \ {"readonly"}
          [] p \in ForAdmins -> {"admin", "superadmin"}
          [] p \in ForSuperadmins -> {"superadmin"}]

CheckPermission(role, p) == \E q \in PERMISSIONS[p] : HasRole(role, q)

\* The row of a user.  The role of a request is any string.
GivenRole == {c.role : c \in Created} \cup UNION {c.role : c \in Change}
Row == [email : Email, role : Role \cup GivenRole, active : BOOLEAN]

ASSUME NoAccountAssumption == NoAccount \notin Row
-----------------------------------------------------------------------------
VARIABLES
    tables,       \* whether the tables are there
    account,      \* the row of each user: [email, role, active]
    ruleSets,     \* how many times the default compliance rules were added
    pc,           \* where each worker stands
    request,      \* what it serves: [by, kind, target, change]
    loaded,       \* the row of the target it read
    crashes,
    cause         \* history: what may have left the server without superadmin

database == <<tables, account, ruleSets>>
accountsVars == <<database, pc, request, loaded, crashes, cause>>

Starting == {"down", "tables", "creating", "admin", "adding", "rules", "seeding"}
NoCall == [by |-> NoAccount, kind |-> "none", target |-> NoAccount, change |-> NoAccount]

Live == {i \in Id : account[i] # NoAccount}
Superadmin(i) == i \in Live /\ account[i].active /\ CheckPermission(account[i].role, "user:write")
Has(e) == \E i \in Live : account[i].email = e

(* What the code relies on beside the types: a worker that serves has      *)
(* found the compliance rules or added them, and no email is taken twice.  *)
AccountsTypeOK ==
    /\ tables \in BOOLEAN
    /\ account \in [Id -> Row \cup {NoAccount}]
    /\ ruleSets \in 0 .. Cardinality(Worker)
    /\ pc \in [Worker -> Starting \cup {"ready", "allowed", "loaded"}]
    /\ \A w \in Worker :
          /\ pc[w] \in {"allowed", "loaded"} <=> request[w] # NoCall
          /\ pc[w] \notin Starting => ruleSets > 0
    /\ \A i, j \in Live : account[i].email = account[j].email => i = j
    /\ loaded \in [Worker -> Row \cup {NoAccount}]
    /\ crashes \in 0 .. MaxCrashes
    /\ cause \subseteq {"demoted", "outlived"}

(* An empty database, no worker yet.                                       *)
AccountsInit ==
    /\ tables = FALSE
    /\ account = [i \in Id |-> NoAccount]
    /\ ruleSets = 0
    /\ pc = [w \in Worker |-> "down"]
    /\ request = [w \in Worker |-> NoCall]
    /\ loaded = [w \in Worker |-> NoAccount]
    /\ crashes = 0
    /\ cause = {}

(* A UUID nobody refers to any more is as good as a new one.               *)
FreshIds == {i \in Id \ Live : \A w \in Worker : i \notin {request[w].by, request[w].target}}
Insert(row) ==
    /\ FreshIds # {}
    /\ account' = [account EXCEPT ![CHOOSE i \in FreshIds : TRUE] = row]

-----------------------------------------------------------------------------
Step(w, from, to) ==
    /\ pc[w] = from
    /\ pc' = [pc EXCEPT ![w] = to]
    /\ UNCHANGED <<request, loaded, crashes, cause>>

(* The supervisor of uvicorn starts a worker, and another for one that     *)
(* died.                                                                   *)
Spawn(w) == Step(w, "down", "tables") /\ UNCHANGED database

(* create_all looks which tables there are and creates those that are not, *)
(* in one transaction; of two that do the second fails, and its worker     *)
(* with it.                                                                *)
InspectTables(w) ==
    /\ Step(w, "tables", IF tables THEN "admin" ELSE "creating")
    /\ UNCHANGED database

CreateTables(w) ==
    /\ Step(w, "creating", IF tables THEN "down" ELSE "admin")
    /\ tables' = TRUE
    /\ UNCHANGED <<account, ruleSets>>

(* The initial administrator, if nobody has that email.                    *)
SelectAdmin(w) ==
    /\ Step(w, "admin", IF Has(InitialAdmin) THEN "rules" ELSE "adding")
    /\ UNCHANGED database

\* Variant: on a conflict the session is used again.
InsertAdminRetries(w) ==
    /\ Step(w, "adding", IF Has(InitialAdmin) THEN "adding" ELSE "rules")
    /\ IF Has(InitialAdmin) THEN UNCHANGED account
       ELSE Insert([email |-> InitialAdmin, role |-> "superadmin", active |-> TRUE])
    /\ UNCHANGED <<tables, ruleSets>>

\* The email is unique: the second insert ends its worker.
InsertAdmin(w) ==
    /\ Step(w, "adding", IF Has(InitialAdmin) THEN "down" ELSE "rules")
    /\ IF Has(InitialAdmin) THEN UNCHANGED account
       ELSE Insert([email |-> InitialAdmin, role |-> "superadmin", active |-> TRUE])
    /\ UNCHANGED <<tables, ruleSets>>

\* Variant: the rules are left to others.
SelectRulesServes(w) ==
    /\ Step(w, "rules", "ready")
    /\ UNCHANGED database

(* _seed_compliance_rules: nothing keeps two workers from adding the       *)
(* rules; they are all there once one has.                                 *)
SelectRules(w) ==
    /\ Step(w, "rules", IF ruleSets > 0 THEN "ready" ELSE "seeding")
    /\ UNCHANGED database

InsertRules(w) ==
    /\ Step(w, "seeding", "ready")
    /\ ruleSets' = ruleSets + 1
    /\ UNCHANGED <<tables, account>>

Crash(w) ==
    /\ pc[w] # "down"
    /\ crashes < MaxCrashes
    /\ crashes' = crashes + 1
    /\ pc' = [pc EXCEPT ![w] = "down"]
    /\ request' = [request EXCEPT ![w] = NoCall]
    /\ loaded' = [loaded EXCEPT ![w] = NoAccount]
    /\ UNCHANGED <<database, cause>>

-----------------------------------------------------------------------------
(* require_permission("user:write"): the caller's row is read once.        *)
Allow(w, r) ==
    /\ pc[w] = "ready"
    /\ Superadmin(r.by)
    /\ pc' = [pc EXCEPT ![w] = "allowed"]
    /\ request' = [request EXCEPT ![w] = r]
    /\ UNCHANGED <<database, loaded, crashes, cause>>

\* Variant: without the check of one's own account.
CallsWithOneself ==
    {[by |-> b, kind |-> "create", target |-> NoAccount, change |-> c] : b \in Id, c \in Created}
    \cup {[by |-> b, kind |-> "update", target |-> t, change |-> c] : b \in Id, t \in Live, c \in Change}
    \cup {[by |-> b, kind |-> "delete", target |-> t, change |-> NoAccount] : b \in Id, t \in Live}

\* delete_user answers 400 to who deletes the own account; update_user lets
\* anyone change the own role.
Calls ==
    {[by |-> b, kind |-> "create", target |-> NoAccount, change |-> c] : b \in Id, c \in Created}
    \cup {[by |-> b, kind |-> "update", target |-> t, change |-> c] : b \in Id, t \in Live, c \in Change}
    \cup {r \in [by : Id, kind : {"delete"}, target : Live, change : {NoAccount}] : r.by # r.target}

(* The select of the target, or of the new email.                          *)
Load(w) ==
    LET r == request[w] IN
    /\ pc[w] = "allowed"
    /\ IF IF r.kind = "create" THEN Has(r.change.email) ELSE r.target \notin Live
       THEN /\ pc' = [pc EXCEPT ![w] = "ready"]
            /\ request' = [request EXCEPT ![w] = NoCall]
            /\ UNCHANGED loaded
       ELSE /\ pc' = [pc EXCEPT ![w] = "loaded"]
            /\ loaded' = [loaded EXCEPT ![w] = IF r.kind = "create" THEN NoAccount ELSE account[r.target]]
            /\ UNCHANGED request
    /\ UNCHANGED <<database, crashes, cause>>

(* The request ends.  An exception of the commit is answered 500 and       *)
(* changes nothing.                                                        *)
Ends(w, kind) ==
    /\ pc[w] = "loaded"
    /\ request[w].kind = kind
    /\ pc' = [pc EXCEPT ![w] = "ready"]
    /\ request' = [request EXCEPT ![w] = NoCall]
    /\ loaded' = [loaded EXCEPT ![w] = NoAccount]
    /\ UNCHANGED <<tables, ruleSets, crashes>>

CommitCreate(w) ==
    LET c == request[w].change IN
    /\ Ends(w, "create")
    /\ IF Has(c.email) THEN UNCHANGED account
       ELSE Insert([email |-> c.email, role |-> c.role, active |-> TRUE])
    /\ UNCHANGED cause

\* A column is written only if it differs from what was read.
Written(current, read, value) ==
    IF value \subseteq {read} THEN current ELSE CHOOSE v \in value : TRUE

CommitUpdate(w) ==
    LET r == request[w]
        t == r.target
    IN
    /\ Ends(w, "update")
    /\ account' = IF t \notin Live THEN account
                  ELSE [account EXCEPT
                          ![t].role = Written(@, loaded[w].role, r.change.role),
                          ![t].active = Written(@, loaded[w].active, r.change.active)]
    /\ cause' = cause \cup (IF \E i \in Id : Superadmin(i) /\ ~Superadmin(i)' THEN {"demoted"} ELSE {})

CommitDelete(w) ==
    LET r == request[w] IN
    /\ Ends(w, "delete")
    /\ account' = [account EXCEPT ![r.target] = NoAccount]
    /\ cause' = cause \cup (IF Superadmin(r.by) THEN {} ELSE {"outlived"})

-----------------------------------------------------------------------------
Starts(w) ==
    \/ Spawn(w) \/ InspectTables(w) \/ CreateTables(w)
    \/ SelectAdmin(w) \/ InsertAdmin(w) \/ SelectRules(w) \/ InsertRules(w)

Serves(w) == Load(w) \/ CommitCreate(w) \/ CommitUpdate(w) \/ CommitDelete(w)

AccountsNext ==
    \E w \in Worker :
       \/ Starts(w) \/ Serves(w) \/ Crash(w)
       \/ \E r \in Calls : Allow(w, r)

(* A worker's steps are its own; the database answers.                     *)
AccountsSpec == AccountsInit /\ [][AccountsNext]_accountsVars /\ \A w \in Worker : WF_accountsVars(Starts(w) \/ Serves(w))

-----------------------------------------------------------------------------
(* While the accounts are only created and deleted a superadmin stays: one *)
(* cannot delete oneself.  What may leave the server without one are a     *)
(* change of roles, which has no such check, and a deletion that commits   *)
(* after its caller has lost the right to it, as when two delete each      *)
(* other.  A restart brings the initial one back only if its row is gone.  *)
LockOutHasCause ==
    (\E w \in Worker : pc[w] \notin Starting) /\ (\A i \in Id : ~Superadmin(i)) => cause # {}

(* Workers that start at once on an empty database stop each other, at the *)
(* tables or at the initial administrator, but not for ever: each comes to *)
(* serve again and again.                                                  *)
WorkersComeUp == \A w \in Worker : []<>(pc[w] = "ready")
=============================================================================
