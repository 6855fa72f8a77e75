-------------------------------- MODULE Rbac --------------------------------
(***************************************************************************)
(* Roles and permissions: the routes of AdminHandler over the tables users,*)
(* user_roles and role_permissions.  A request reads the caller, then the  *)
(* caller's permission, then reads or writes, in three statements; in      *)
(* between the caller can be deleted or the permission come from elsewhere.*)
(* No route takes a role or a permission away, though README.md:93 lists   *)
(* one (admin.go:25-37 does not register it); only the deletion of a user  *)
(* does.  Nobody has a role unless it was given by hand at first.          *)
(***************************************************************************)
EXTENDS Naturals, FiniteSets

CONSTANTS
  Users,       \* values of users.id
  Roles,       \* rows of roles
  Permissions, \* names in permissions
  SeedPerms,   \* role_permissions after the migrations
  SeedRoles,   \* user_roles given by hand
  Requests     \* request slots: how many handlers can be in flight together

ASSUME SeedsAreRows == SeedPerms \subseteq Roles \X Permissions /\ SeedRoles \subseteq Users \X Roles
ASSUME CheckedPermissions == {"users.read", "users.delete", "roles.manage"} \subseteq Permissions

VARIABLES
  users,       \* ids present in the users table
  userRoles,   \* the user_roles table
  rolePerms,   \* the role_permissions table
  req          \* request slot -> what its handler has read so far

vars == <<users, userRoles, rolePerms, req>>

-----------------------------------------------------------------------------
\* What a route asks for, by the change it makes; "look" stands for ListUsers,
\* GetUser and GetUserPermissions, "lookRoles" for ListRoles, ListPermissions
\* and GetRolePermissions.
Needs == [look        |-> "users.read",
          lookRoles   |-> "roles.manage",
          deleteUser  |-> "users.delete",
          assignRole  |-> "roles.manage",
          assignPerm  |-> "roles.manage"]

\* Mutant: a route asks for the wrong permission.
Asks_Weaker(kind) == IF kind = "assignRole" THEN "users.read" ELSE Needs[kind]

Asks(kind) == Needs[kind]

\* What a request is about.
Targets == [look        |-> {<<>>},
            lookRoles   |-> {<<>>},
            deleteUser  |-> Users,
            assignRole  |-> Users \X Roles,
            assignPerm  |-> Roles \X Permissions]

\* wasEntitled is history: the caller had the permission at some time since the
\* request began.
Idle == [pc |-> "idle"]
Busy == UNION {[pc: {"check", "act"}, kind: {k}, what: Targets[k], caller: Users,
                wasEntitled: BOOLEAN] : k \in DOMAIN Needs}

\* The join of UserHasPermission.
Holds(ur, rp, u, p) == \E r \in Roles : <<u, r>> \in ur /\ <<r, p>> \in rp
Has(u, p) == Holds(userRoles, rolePerms, u, p)

\* Mutant: user_roles.user_id left out of the WHERE.
UserHasPermission_AnyUser(u, p) == \E v \in Users : Has(v, p)

UserHasPermission(u, p) == Has(u, p)

Finish(q) == req' = [req EXCEPT ![q] = Idle]

\* A row is written by slot q, whose request is over; the history of the others.
Observe(q, ur, rp) ==
  [s \in Requests |->
     IF s = q \/ req[s] = Idle THEN Idle
     ELSE [req[s] EXCEPT !.wasEntitled = @ \/ Holds(ur, rp, req[s].caller, Needs[req[s].kind])]]

-----------------------------------------------------------------------------
\* AuthMiddleware found the caller.
Begin(q, kind, c, w) ==
  /\ req[q] = Idle
  /\ c \in users
  /\ req' = [req EXCEPT ![q] =
       [pc |-> "check", kind |-> kind, what |-> w, caller |-> c,
        wasEntitled |-> Has(c, Needs[kind])]]
  /\ UNCHANGED <<users, userRoles, rolePerms>>

\* requirePermission.  Without it: 403.
Check(q) ==
  /\ req[q].pc = "check"
  /\ IF UserHasPermission(req[q].caller, Asks(req[q].kind))
     THEN req' = [req EXCEPT ![q].pc = "act"]
     ELSE Finish(q)
  /\ UNCHANGED <<users, userRoles, rolePerms>>

Acts(q, kind) == req[q].pc = "act" /\ req[q].kind = kind

Look(q) ==
  /\ Acts(q, "look") \/ Acts(q, "lookRoles")
  /\ Finish(q)
  /\ UNCHANGED <<users, userRoles, rolePerms>>

\* Mutant: the cascade of migration 000008 is missing.
LostRoles_None(u) == {}

LostRoles(u) == {ur \in userRoles : ur[1] = u}

\* DELETE of the users row, and of its rows in user_roles.
DeleteUser(q) ==
  /\ Acts(q, "deleteUser")
  /\ users' = users \ {req[q].what}
  /\ userRoles' = userRoles \ LostRoles(req[q].what)
  /\ Finish(q)
  /\ UNCHANGED rolePerms

\* ON CONFLICT DO NOTHING; the foreign key refuses a user that is gone: 500.
AfterAssignRole(q) ==
  IF req[q].what[1] \in users THEN userRoles \cup {req[q].what} ELSE userRoles

AssignRoleToUser(q) ==
  /\ Acts(q, "assignRole")
  /\ userRoles' = AfterAssignRole(q)
  /\ req' = Observe(q, AfterAssignRole(q), rolePerms)
  /\ UNCHANGED <<users, rolePerms>>

AfterAssignPermission(q) == rolePerms \cup {req[q].what}

AssignPermissionToRole(q) ==
  /\ Acts(q, "assignPerm")
  /\ rolePerms' = AfterAssignPermission(q)
  /\ req' = Observe(q, userRoles, AfterAssignPermission(q))
  /\ UNCHANGED <<users, userRoles>>

\* The server dies, the client goes away or the database reports an error.
Abort(q) ==
  /\ req[q] # Idle
  /\ Finish(q)
  /\ UNCHANGED <<users, userRoles, rolePerms>>

\* A stale copy of the users row is saved and inserts it again (module Accounts).
RestoreUser(u) ==
  /\ u \in Users \ users
  /\ users' = users \cup {u}
  /\ UNCHANGED <<userRoles, rolePerms, req>>

-----------------------------------------------------------------------------
Init ==
  /\ users = Users
  /\ userRoles = SeedRoles
  /\ rolePerms = SeedPerms
  /\ req = [q \in Requests |-> Idle]

Advance(q) ==
  \/ Check(q)
  \/ Look(q)
  \/ DeleteUser(q)
  \/ AssignRoleToUser(q)
  \/ AssignPermissionToRole(q)

Next ==
  \/ \E q \in Requests :
       \/ \E kind \in DOMAIN Needs, c \in Users : \E w \in Targets[kind] : Begin(q, kind, c, w)
       \/ Advance(q)
       \/ Abort(q)
  \/ \E u \in Users : RestoreUser(u)

Spec == Init /\ [][Next]_vars

-----------------------------------------------------------------------------
\* Every variable has the shape its declaration says.
TypeOK ==
  /\ users \subseteq Users
  /\ userRoles \subseteq Users \X Roles
  /\ rolePerms \subseteq Roles \X Permissions
  /\ req \in [Requests -> Busy \cup {Idle}]

\* A role belongs to an account: a deletion takes the roles along, one that is being
\* assigned meanwhile does not stay behind, and an account that comes back by a Save
\* of a stale copy comes back without.
RolesHaveOwners == \A ur \in userRoles : ur[1] \in users

\* Permission and deed are statements apart, and the permission may be gone by then;
\* but whoever looks or changes something did have it while the request ran.
ActorsWereEntitled == \A q \in Requests : req[q].pc = "act" => req[q].wasEntitled

\* Where a permission may still come from: somebody who has it, somebody who may
\* give it, and requests under way that have shown either.
Source(p) ==
  \/ \E u \in Users : Has(u, p) \/ Has(u, "roles.manage")
  \/ \E q \in Requests : req[q].pc = "act" /\ Needs[req[q].kind] \in {p, "roles.manage"}

\* Authority is given, never taken: a permission nobody has and nobody can give is
\* gone for good, and while nobody can delete users none is deleted.  A manager that
\* was deleted can still give roles, but only by a request already past its check.
AuthorityIsGiven ==
  [][/\ \A p \in Permissions : ~Source(p) => ~Source(p)'
     /\ ~Source("users.delete") => users \subseteq users']_vars
=============================================================================
