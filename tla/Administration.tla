--------------------------- MODULE Administration ---------------------------
(***************************************************************************)
(* The super admin endpoints (admin/interfaces/http/handler.go): system    *)
(* roles, suspension and moderation, each change followed by a row of the  *)
(* audit log. What a caller may do is read from its access token, not from *)
(* the users row (gateway/middleware/auth.go, rbac.go); the token carries  *)
(* the role of the moment it was made. The listings read only.             *)
(***************************************************************************)
EXTENDS Naturals, FiniteSets

CONSTANTS
    Users,
    Requests,    \* slots: admin requests served at the same time
    MaxChanges,  \* bound: changes made
    MaxFaults,   \* bound: failed audit inserts and deaths
    NULL

AdministrationAssumption ==
    MaxChanges \in Nat /\ MaxFaults \in Nat /\ NULL \notin Users

VARIABLES
    user,     \* system_role and status of the users rows
    token,    \* the access token a user holds: the role in it, and whether
              \* it is about to expire
    spec,     \* is_deleted of a spec and whether deleted_at is set
    req,      \* what each slot is doing
    changed,  \* history: changes made by the handlers
    logged,   \* rows of admin_audit_logs
    faults

vars == <<user, token, spec, req, changed, logged, faults>>

User == [admin : BOOLEAN, active : BOOLEAN]
Token == [role : {"none", "expired", "user", "admin"}, aged : BOOLEAN]
NoToken == [role |-> "none", aged |-> FALSE]
Request == [at : {"idle", "count", "write", "audit"},
            set : {"role", "status", "spec", NULL},
            target : Users \cup {NULL}, to : BOOLEAN]
Idle == [at |-> "idle", set |-> NULL, target |-> NULL, to |-> FALSE]

\* The shape of the rows and of the request slots.
TypeOK ==
    /\ user \in [Users -> User]
    /\ token \in [Users -> Token]
    /\ spec \in [deleted : BOOLEAN, dated : BOOLEAN]
    /\ req \in [Requests -> Request]
    /\ changed \in 0..MaxChanges /\ logged \in 0..MaxChanges
    /\ faults \in 0..MaxFaults

Admins == {u \in Users : user[u].admin}

\* BootstrapSuperAdmin has promoted one user when the server starts.
Init ==
    /\ \E first \in Users :
        user = [u \in Users |-> [admin |-> u = first, active |-> TRUE]]
    /\ token = [u \in Users |-> NoToken]
    /\ spec = [deleted |-> FALSE, dated |-> FALSE]
    /\ req = [r \in Requests |-> Idle]
    /\ changed = 0 /\ logged = 0 /\ faults = 0

Fault == faults < MaxFaults /\ faults' = faults + 1
Finish(r) == req' = [req EXCEPT ![r] = Idle]
GoTo(r, stage) == req' = [req EXCEPT ![r].at = stage]
Changing == {r \in Requests : req[r].at \in {"count", "write"}}

----------------------------------------------------------------------------
(* Access tokens.                                                          *)

\* Mutant of ClaimOf: a refresh copies the role from the old token.
ClaimKept(u) ==
    IF token[u].role = "admin" \/ user[u].admin THEN "admin" ELSE "user"

\* RefreshSession and Login read the role from the users row.
ClaimOf(u) == IF user[u].admin THEN "admin" ELSE "user"

Login(u) ==
    /\ user[u].active
    /\ token' = [token EXCEPT ![u] = [role |-> ClaimOf(u), aged |-> FALSE]]
    /\ UNCHANGED <<user, spec, req, changed, logged, faults>>

\* GoogleLogin finds the account by its email and does not look at its status.
GoogleLogin(u) ==
    /\ token' = [token EXCEPT ![u] = [role |-> ClaimOf(u), aged |-> FALSE]]
    /\ UNCHANGED <<user, spec, req, changed, logged, faults>>

\* The refresh token outlives the access token.
RefreshSession(u) ==
    /\ token[u].role # "none"
    /\ token' = [token EXCEPT ![u] = [role |-> ClaimOf(u), aged |-> FALSE]]
    /\ UNCHANGED <<user, spec, req, changed, logged, faults>>

\* JWT_EXPIRY draws near; a client that does not refresh is left without.
TokenAges(u) ==
    /\ token[u].role \in {"user", "admin"} /\ ~token[u].aged
    /\ token' = [token EXCEPT ![u].aged = TRUE]
    /\ UNCHANGED <<user, spec, req, changed, logged, faults>>

TokenExpires(u) ==
    /\ token[u].aged
    /\ token' = [token EXCEPT ![u] = [role |-> "expired", aged |-> FALSE]]
    /\ UNCHANGED <<user, spec, req, changed, logged, faults>>

----------------------------------------------------------------------------
(* Roles and suspension.                                                   *)

\* RequirePermission; the target is read, and only a step that takes an
\* administrator away is counted first.
Begin(r, caller, u, set, to) ==
    /\ req[r] = Idle /\ token[caller].role = "admin"
    /\ changed + Cardinality(Changing) < MaxChanges
    /\ req' = [req EXCEPT ![r] =
        [at |-> IF user[u].admin /\ ~to THEN "count" ELSE "write",
         set |-> set, target |-> u, to |-> to]]
    /\ UNCHANGED <<user, token, spec, changed, logged, faults>>

\* Mutant of IsLast: off by one.
IsLastOffByOne == Admins = {}

IsLast == Cardinality(Admins) =< 1

\* ensureNotLastSuperAdmin counts the rows with the role, in any status.
EnsureNotLast(r) ==
    /\ req[r].at = "count"
    /\ IF IsLast THEN Finish(r) ELSE GoTo(r, "write")
    /\ UNCHANGED <<user, token, spec, changed, logged, faults>>

\* UpdateSystemRole, UpdateStatus.
Write(r) ==
    /\ req[r].at = "write"
    /\ user' = IF req[r].set = "role"
               THEN [user EXCEPT ![req[r].target].admin = req[r].to]
               ELSE [user EXCEPT ![req[r].target].active = req[r].to]
    /\ changed' = changed + 1
    /\ GoTo(r, "audit")
    /\ UNCHANGED <<token, spec, logged, faults>>

----------------------------------------------------------------------------
(* Moderation.                                                             *)

\* deleted_at: COALESCE(deleted_at, NOW()) when the row ends up deleted, else
\* NULL; without a value in the request is_deleted stays as it is.
Dated(to) == IF to = NULL THEN spec.deleted ELSE to

\* UpdateSpec (is_deleted given or not) and DeleteSpec.
Moderate(r, caller, to) ==
    /\ req[r] = Idle /\ token[caller].role = "admin"
    /\ changed + Cardinality(Changing) < MaxChanges
    /\ spec' = [deleted |-> IF to = NULL THEN spec.deleted ELSE to,
                dated |-> Dated(to)]
    /\ changed' = changed + 1
    /\ req' = [req EXCEPT ![r] = [Idle EXCEPT !.at = "audit", !.set = "spec"]]
    /\ UNCHANGED <<user, token, logged, faults>>

\* The producer's own delete of a spec with buyers: see Catalog.
SoftDelete ==
    /\ ~spec.deleted
    /\ spec' = [deleted |-> TRUE, dated |-> TRUE]
    /\ UNCHANGED <<user, token, req, changed, logged, faults>>

----------------------------------------------------------------------------

\* The audit row; its error is dropped.
Audit(r) ==
    /\ req[r].at = "audit"
    /\ \/ /\ logged' = logged + 1
          /\ UNCHANGED faults
       \/ Fault /\ UNCHANGED logged
    /\ Finish(r)
    /\ UNCHANGED <<user, token, spec, changed>>

RequestDies(r) ==
    /\ req[r] # Idle /\ Fault
    /\ Finish(r)
    /\ UNCHANGED <<user, token, spec, changed, logged>>

Next ==
    \/ \E u \in Users :
        \/ Login(u) \/ GoogleLogin(u) \/ RefreshSession(u)
        \/ TokenAges(u) \/ TokenExpires(u)
    \/ \E r \in Requests :
        \/ \E caller, u \in Users, set \in {"role", "status"}, to \in BOOLEAN :
                Begin(r, caller, u, set, to)
        \/ \E caller \in Users, to \in BOOLEAN \cup {NULL} :
                Moderate(r, caller, to)
        \/ EnsureNotLast(r) \/ Write(r) \/ Audit(r) \/ RequestDies(r)
    \/ SoftDelete

Spec == Init /\ [][Next]_vars

TokenEnds(u) == token[u].aged /\ (TokenExpires(u) \/ RefreshSession(u))

\* Time passes: a token ages, and then it is renewed or expires.
Fairness ==
    \A u \in Users : WF_vars(TokenAges(u)) /\ WF_vars(TokenEnds(u))

FairSpec == Spec /\ Fairness

----------------------------------------------------------------------------

\* There is always a super admin: "cannot remove the last super admin".
SuperAdminRemains == Admins # {}

\* There is always a super admin who may sign in: "cannot suspend the last
\* super admin".
\* The code does not keep this: see "Divergences" in the README.
ActiveSuperAdminRemains == \E u \in Admins : user[u].active

\* A change is missing in the audit log only while its request is about to
\* write it, or because a fault lost it; nothing is logged twice.
ChangesAreLogged ==
    LET open == Cardinality({r \in Requests : req[r].at = "audit"})
    IN  logged + open =< changed /\ changed =< logged + open + faults

\* deleted_at tells when a spec was deleted, and says nothing of others.
DeletedIsDated == spec.deleted <=> spec.dated

\* Whatever the administration is asked in turn: there is a super admin, every
\* change is in the log and a deleted spec, and no other, has its date.
AdminInv == TypeOK /\ SuperAdminRemains /\ ChangesAreLogged /\ DeletedIsDated

\* Who is no longer a super admin loses the access that goes with it: the
\* role in the token ends with the token, however often the client refreshes.
DemotedLosesAccess ==
    \A u \in Users : <>[]~user[u].admin => <>[](token[u].role # "admin")
=============================================================================
