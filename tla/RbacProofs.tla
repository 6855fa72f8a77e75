----------------------------- MODULE RbacProofs -----------------------------
(***************************************************************************)
(* Proofs about module Rbac, for every set of users, roles, permissions    *)
(* and request slots, and every seed.                                      *)
(***************************************************************************)
EXTENDS Rbac, TLAPS

\* What a handler that is past its check relies on: whoever has the permission
\* now is known to have had it since the request began.
EntitlementIsSeen ==
  \A q \in Requests : req[q] # Idle =>
    (Has(req[q].caller, Needs[req[q].kind]) => req[q].wasEntitled)

RbacInv == TypeOK /\ RolesHaveOwners /\ EntitlementIsSeen /\ ActorsWereEntitled

-----------------------------------------------------------------------------
\* The kinds of requests, and what each of them needs and is about.
LEMMA Kinds ==
  /\ DOMAIN Needs = {"look", "lookRoles", "deleteUser", "assignRole", "assignPerm"}
  /\ \A k \in DOMAIN Needs : Needs[k] \in Permissions
  /\ Needs["deleteUser"] = "users.delete"
  /\ Needs["assignRole"] = "roles.manage"
  /\ Needs["assignPerm"] = "roles.manage"
  /\ Targets["deleteUser"] = Users
  /\ Targets["assignRole"] = Users \X Roles
  /\ Targets["assignPerm"] = Roles \X Permissions
BY CheckedPermissions DEF Needs, Targets

\* A request that is under way has all of its fields.
LEMMA BusyFields ==
  ASSUME TypeOK, NEW q \in Requests, req[q] # Idle
  PROVE  \E k \in DOMAIN Needs :
           req[q] \in [pc: {"check", "act"}, kind: {k}, what: Targets[k], caller: Users,
                       wasEntitled: BOOLEAN]
BY DEF TypeOK, Busy

LEMMA ActingIsBusy ==
  ASSUME TypeOK, NEW q \in Requests, req[q].pc \in {"check", "act"}
  PROVE  /\ req[q] # Idle
         /\ req[q].kind \in DOMAIN Needs
         /\ req[q].caller \in Users
         /\ req[q].what \in Targets[req[q].kind]
<1>1. req[q] # Idle
  BY DEF Idle
<1>. QED
  BY <1>1, BusyFields

\* What may change in a step: one request goes on, or one row is written by a
\* request that is past its check and asked for the permission to do so.
LEMMA StepKinds ==
  ASSUME RbacInv, [Next]_vars
  PROVE  \/ UNCHANGED <<userRoles, rolePerms>> /\ users \subseteq users'
         \/ \E q \in Requests : DeleteUser(q)
         \/ \E q \in Requests : AssignRoleToUser(q)
         \/ \E q \in Requests : AssignPermissionToRole(q)
BY DEF Next, Advance, Begin, Check, Look, Abort, RestoreUser, vars

-----------------------------------------------------------------------------
\* Observing a request that goes on keeps its fields, and notes what it has now.
LEMMA ObservedRequest ==
  ASSUME TypeOK, NEW ur, NEW rp, NEW q \in Requests, NEW s \in Requests,
         req' = Observe(q, ur, rp)
  PROVE  \/ req'[s] = Idle
         \/ /\ s # q
            /\ req[s] # Idle
            /\ req'[s] = [req[s] EXCEPT !.wasEntitled =
                            @ \/ Holds(ur, rp, req[s].caller, Needs[req[s].kind])]
BY DEF Observe

LEMMA ObserveKeeps ==
  ASSUME TypeOK, EntitlementIsSeen, ActorsWereEntitled, NEW q \in Requests,
         req' = Observe(q, userRoles', rolePerms')
  PROVE  /\ req' \in [Requests -> Busy \cup {Idle}]
         /\ EntitlementIsSeen'
         /\ ActorsWereEntitled'
<1>. DEFINE now(s) == Holds(userRoles', rolePerms', req[s].caller, Needs[req[s].kind])
<1>1. ASSUME NEW s \in Requests, req'[s] # Idle
      PROVE  /\ req[s] # Idle
             /\ req'[s] \in Busy
             /\ req'[s].pc = req[s].pc
             /\ req'[s].kind = req[s].kind
             /\ req'[s].caller = req[s].caller
             /\ req[s].wasEntitled => req'[s].wasEntitled
             /\ now(s) => req'[s].wasEntitled
  <2>1. req[s] # Idle /\ req'[s] = [req[s] EXCEPT !.wasEntitled = req[s].wasEntitled \/ now(s)]
    BY <1>1, ObservedRequest
  <2>2. PICK k \in DOMAIN Needs :
          req[s] \in [pc: {"check", "act"}, kind: {k}, what: Targets[k], caller: Users,
                      wasEntitled: BOOLEAN]
    BY <2>1, BusyFields
  <2>3. now(s) \in BOOLEAN /\ (req[s].wasEntitled \/ now(s)) \in BOOLEAN
    BY DEF Holds
  <2>4. req'[s] \in [pc: {"check", "act"}, kind: {k}, what: Targets[k], caller: Users,
                     wasEntitled: BOOLEAN]
    BY <2>1, <2>2, <2>3
  <2>5. req'[s] \in Busy
    BY <2>4 DEF Busy
  <2>6. req'[s].wasEntitled = (req[s].wasEntitled \/ now(s))
    BY <2>1, <2>2
  <2>7. /\ req'[s].pc = req[s].pc
        /\ req'[s].kind = req[s].kind
        /\ req'[s].caller = req[s].caller
    BY <2>1, <2>2
  <2>. QED
    BY <2>1, <2>5, <2>6, <2>7
<1>2. req' \in [Requests -> Busy \cup {Idle}]
  BY <1>1 DEF Observe
<1>3. EntitlementIsSeen'
  BY <1>1 DEF EntitlementIsSeen, Has
<1>4. ActorsWereEntitled'
  <2>. SUFFICES ASSUME NEW s \in Requests, req'[s].pc = "act"
                PROVE  req'[s].wasEntitled
    BY DEF ActorsWereEntitled
  <2>1. req'[s] # Idle
    BY DEF Idle
  <2>2. req[s].pc = "act" /\ (req[s].wasEntitled => req'[s].wasEntitled)
    BY <1>1, <2>1
  <2>. QED
    BY <2>2 DEF ActorsWereEntitled
<1>. QED
  BY <1>2, <1>3, <1>4

\* A step that gives nobody a permission, and in which a request gets past its
\* check only with the permission it asked for.
LEMMA NothingGiven ==
  ASSUME RbacInv, req' \in [Requests -> Busy \cup {Idle}],
         \A u \in Users : \A p \in Permissions : Holds(userRoles', rolePerms', u, p) => Has(u, p),
         \A s \in Requests : \/ req'[s] \in {req[s], Idle}
                             \/ req'[s].wasEntitled = Has(req'[s].caller, Needs[req'[s].kind])
                                  /\ req'[s].pc = "check"
                             \/ /\ req'[s] = [req[s] EXCEPT !.pc = "act"]
                                /\ req[s].pc = "check"
                                /\ Has(req[s].caller, Needs[req[s].kind])
  PROVE  EntitlementIsSeen' /\ ActorsWereEntitled'
<1>. DEFINE Now(s) == Holds(userRoles', rolePerms', req'[s].caller, Needs[req'[s].kind])
<1>. SUFFICES ASSUME NEW s \in Requests, req'[s] # Idle
              PROVE  /\ Now(s) => req'[s].wasEntitled
                     /\ req'[s].pc = "act" => req'[s].wasEntitled
  <2>1. (\A s \in Requests : req'[s] # Idle => (Now(s) => req'[s].wasEntitled))
          => EntitlementIsSeen'
    BY DEF EntitlementIsSeen, Has
  <2>2. (\A s \in Requests : req'[s] # Idle => (req'[s].pc = "act" => req'[s].wasEntitled))
          => ActorsWereEntitled'
    BY DEF ActorsWereEntitled, Idle
  <2>. QED
    BY <2>1, <2>2
<1>1. PICK k \in DOMAIN Needs :
        req'[s] \in [pc: {"check", "act"}, kind: {k}, what: Targets[k], caller: Users,
                     wasEntitled: BOOLEAN]
  BY DEF Busy
<1>2. Now(s) => Has(req'[s].caller, Needs[req'[s].kind])
  BY <1>1, Kinds
<1>3. CASE req'[s] = req[s]
  BY <1>2, <1>3 DEF RbacInv, EntitlementIsSeen, ActorsWereEntitled
<1>4. CASE req'[s].pc = "check" /\
           req'[s].wasEntitled = Has(req'[s].caller, Needs[req'[s].kind])
  BY <1>2, <1>4
<1>5. CASE /\ req'[s] = [req[s] EXCEPT !.pc = "act"]
           /\ req[s].pc = "check"
           /\ Has(req[s].caller, Needs[req[s].kind])
  <2>1. req[s] # Idle
    BY <1>5 DEF Idle
  <2>2. req[s].wasEntitled
    BY <1>5, <2>1 DEF RbacInv, EntitlementIsSeen
  <2>3. PICK j \in DOMAIN Needs :
          req[s] \in [pc: {"check", "act"}, kind: {j}, what: Targets[j], caller: Users,
                      wasEntitled: BOOLEAN]
    BY <2>1, BusyFields DEF RbacInv
  <2>4. req'[s].wasEntitled = req[s].wasEntitled
    BY <1>5, <2>3
  <2>. QED
    BY <2>2, <2>4
<1>. QED
  BY <1>3, <1>4, <1>5
-----------------------------------------------------------------------------
\* Each kind of step keeps the invariant.
LEMMA BeginKeeps ==
  ASSUME RbacInv, NEW q \in Requests, NEW kind \in DOMAIN Needs, NEW c \in Users,
         NEW w \in Targets[kind], Begin(q, kind, c, w)
  PROVE  RbacInv'
<1>1. [pc |-> "check", kind |-> kind, what |-> w, caller |-> c,
       wasEntitled |-> Has(c, Needs[kind])]
        \in [pc: {"check", "act"}, kind: {kind}, what: Targets[kind], caller: Users,
             wasEntitled: BOOLEAN]
  BY DEF Has, Holds
<1>2. [pc |-> "check", kind |-> kind, what |-> w, caller |-> c,
       wasEntitled |-> Has(c, Needs[kind])] \in Busy
  BY <1>1 DEF Busy
<1>3. TypeOK'
  BY <1>2 DEF RbacInv, TypeOK, Begin
<1>4. ASSUME NEW s \in Requests
      PROVE  \/ req'[s] = req[s]
             \/ /\ req'[s].wasEntitled = Has(req'[s].caller, Needs[req'[s].kind])
                /\ req'[s].pc = "check"
  BY DEF RbacInv, TypeOK, Begin
<1>5. EntitlementIsSeen' /\ ActorsWereEntitled'
  BY <1>3, <1>4, NothingGiven DEF TypeOK, Begin, Has
<1>. QED
  BY <1>3, <1>5 DEF RbacInv, RolesHaveOwners, Begin

LEMMA CheckKeeps ==
  ASSUME RbacInv, NEW q \in Requests, Check(q)
  PROVE  RbacInv'
<1>1. req[q] # Idle
  BY ActingIsBusy DEF RbacInv, Check
<1>2. PICK k \in DOMAIN Needs :
        req[q] \in [pc: {"check", "act"}, kind: {k}, what: Targets[k], caller: Users,
                    wasEntitled: BOOLEAN]
  BY <1>1, BusyFields DEF RbacInv
<1>3. [req[q] EXCEPT !.pc = "act"] \in
        [pc: {"check", "act"}, kind: {k}, what: Targets[k], caller: Users, wasEntitled: BOOLEAN]
  BY <1>2
<1>4. [req[q] EXCEPT !.pc = "act"] \in Busy
  BY <1>3 DEF Busy
<1>5. TypeOK'
  BY <1>4 DEF RbacInv, TypeOK, Check, Finish
<1>6. ASSUME NEW s \in Requests
      PROVE  \/ req'[s] \in {req[s], Idle}
             \/ /\ req'[s] = [req[s] EXCEPT !.pc = "act"]
                /\ req[s].pc = "check"
                /\ Has(req[s].caller, Needs[req[s].kind])
  BY DEF RbacInv, TypeOK, Check, Finish, UserHasPermission, Asks
<1>7. EntitlementIsSeen' /\ ActorsWereEntitled'
  BY <1>5, <1>6, NothingGiven DEF TypeOK, Check, Has
<1>. QED
  BY <1>5, <1>7 DEF RbacInv, RolesHaveOwners, Check

LEMMA FinishKeeps ==
  ASSUME RbacInv, NEW q \in Requests, Finish(q), rolePerms' = rolePerms,
         userRoles' \subseteq userRoles, users' \subseteq Users,
         \A ur \in userRoles' : ur[1] \in users'
  PROVE  RbacInv'
<1>1. TypeOK'
  BY DEF RbacInv, TypeOK, Finish
<1>2. \A s \in Requests : req'[s] \in {req[s], Idle}
  BY DEF RbacInv, TypeOK, Finish
<1>3. EntitlementIsSeen' /\ ActorsWereEntitled'
  BY <1>1, <1>2, NothingGiven DEF TypeOK, Has, Holds
<1>. QED
  BY <1>1, <1>3 DEF RbacInv, RolesHaveOwners

LEMMA AssignRoleKeeps ==
  ASSUME RbacInv, NEW q \in Requests, AssignRoleToUser(q)
  PROVE  RbacInv'
<1>1. req[q].what \in Users \X Roles
  BY ActingIsBusy, Kinds DEF RbacInv, AssignRoleToUser, Acts
<1>2. userRoles' \subseteq Users \X Roles /\ RolesHaveOwners'
  BY <1>1 DEF RbacInv, TypeOK, RolesHaveOwners, AssignRoleToUser, AfterAssignRole
<1>3. req' = Observe(q, userRoles', rolePerms')
  BY DEF AssignRoleToUser
<1>. QED
  BY <1>2, <1>3, ObserveKeeps DEF RbacInv, TypeOK, AssignRoleToUser

LEMMA AssignPermissionKeeps ==
  ASSUME RbacInv, NEW q \in Requests, AssignPermissionToRole(q)
  PROVE  RbacInv'
<1>1. req[q].what \in Roles \X Permissions
  BY ActingIsBusy, Kinds DEF RbacInv, AssignPermissionToRole, Acts
<1>2. rolePerms' \subseteq Roles \X Permissions
  BY <1>1 DEF RbacInv, TypeOK, AssignPermissionToRole, AfterAssignPermission
<1>3. req' = Observe(q, userRoles', rolePerms')
  BY DEF AssignPermissionToRole
<1>. QED
  BY <1>2, <1>3, ObserveKeeps DEF RbacInv, TypeOK, RolesHaveOwners, AssignPermissionToRole

LEMMA RbacInvStep ==
  ASSUME RbacInv, [Next]_vars
  PROVE  RbacInv'
<1>1. ASSUME NEW q \in Requests, Look(q) \/ Abort(q)
      PROVE  RbacInv'
  BY <1>1, FinishKeeps DEF Look, Abort, RbacInv, TypeOK, RolesHaveOwners
<1>2. ASSUME NEW q \in Requests, DeleteUser(q)
      PROVE  RbacInv'
  BY <1>2, FinishKeeps DEF DeleteUser, LostRoles, RbacInv, TypeOK, RolesHaveOwners
<1>3. ASSUME (\E u \in Users : RestoreUser(u)) \/ UNCHANGED vars
      PROVE  RbacInv'
  BY <1>3 DEF RestoreUser, vars, RbacInv, TypeOK, RolesHaveOwners, EntitlementIsSeen,
              ActorsWereEntitled, Has
<1>. QED
  BY <1>1, <1>2, <1>3, BeginKeeps, CheckKeeps, AssignRoleKeeps, AssignPermissionKeeps
  DEF Next, Advance

-----------------------------------------------------------------------------
\* What is true in every reachable state of Rbac.
THEOREM Safety == Spec => []RbacInv
<1>1. Init => RbacInv
  BY SeedsAreRows
  DEF Init, RbacInv, TypeOK, RolesHaveOwners, EntitlementIsSeen, ActorsWereEntitled, Idle
<1>. QED
  BY <1>1, RbacInvStep, PTL DEF Spec

\* Every variable keeps the shape its declaration says.
THEOREM TypeCorrect == Spec => []TypeOK
BY Safety, PTL DEF RbacInv

\* No role is left behind by an account, or waits for one that comes back.
THEOREM RolesAreOwned == Spec => []RolesHaveOwners
BY Safety, PTL DEF RbacInv

\* Whoever acts had the permission while the request ran.
THEOREM ActorsAreEntitled == Spec => []ActorsWereEntitled
BY Safety, PTL DEF RbacInv

\* A request that is past its check after a step was so before, or its caller had
\* the permission when it was checked.
LEMMA ActingWasEntitled ==
  ASSUME RbacInv, [Next]_vars, NEW q \in Requests, req'[q].pc = "act"
  PROVE  \/ req[q].pc = "act" /\ req'[q].kind = req[q].kind
         \/ \E u \in Users : Has(u, Needs[req'[q].kind])
<1>. USE DEF RbacInv, TypeOK
<1>1. ASSUME NEW s \in Requests, req' = [req EXCEPT ![s] = Idle]
      PROVE  req'[q] = req[q]
  BY <1>1 DEF Idle
<1>2. ASSUME NEW s \in Requests, NEW ur, NEW rp, req' = Observe(s, ur, rp)
      PROVE  req[q].pc = "act" /\ req'[q].kind = req[q].kind
  <2>1. /\ req[q] # Idle
        /\ req'[q] = [req[q] EXCEPT !.wasEntitled =
                        @ \/ Holds(ur, rp, req[q].caller, Needs[req[q].kind])]
    BY <1>2, ObservedRequest DEF Idle
  <2>. QED
    BY <2>1, BusyFields
<1>3. ASSUME NEW s \in Requests, Check(s)
      PROVE  \/ req'[q] = req[q]
             \/ /\ req'[q] = [req[q] EXCEPT !.pc = "act"]
                /\ req[q].pc = "check"
                /\ Has(req[q].caller, Needs[req[q].kind])
  BY <1>1, <1>3 DEF Check, Finish, UserHasPermission, Asks
<1>4. ASSUME req'[q] = [req[q] EXCEPT !.pc = "act"], req[q].pc = "check",
             Has(req[q].caller, Needs[req[q].kind])
      PROVE  \E u \in Users : Has(u, Needs[req'[q].kind])
  <2>1. req[q] # Idle /\ req[q].caller \in Users
    BY <1>4, ActingIsBusy
  <2>2. req'[q].kind = req[q].kind
    BY <1>4, <2>1, BusyFields
  <2>. QED
    BY <1>4, <2>1, <2>2
<1>5. ASSUME NEW s \in Requests, NEW kind \in DOMAIN Needs, NEW c \in Users,
             NEW w \in Targets[kind], Begin(s, kind, c, w)
      PROVE  req'[q] = req[q]
  BY <1>5 DEF Begin
<1>. QED
  BY <1>1, <1>2, <1>3, <1>4, <1>5
  DEF Next, Advance, Look, DeleteUser, AssignRoleToUser, AssignPermissionToRole, Abort,
      Finish, RestoreUser, vars

\* A permission is had after a step by somebody who had it before, or because a
\* request gave it that is past its check for roles.manage.
LEMMA PermissionWasGiven ==
  ASSUME RbacInv, [Next]_vars, NEW u \in Users, NEW p \in Permissions,
         Holds(userRoles', rolePerms', u, p), ~Has(u, p)
  PROVE  \E q \in Requests : req[q].pc = "act" /\ Needs[req[q].kind] = "roles.manage"
<1>1. ~(userRoles' \subseteq userRoles /\ rolePerms' \subseteq rolePerms)
  BY DEF Has, Holds
<1>2. \E q \in Requests : AssignRoleToUser(q) \/ AssignPermissionToRole(q)
  BY <1>1, StepKinds DEF DeleteUser
<1>. QED
  BY <1>2, Kinds DEF AssignRoleToUser, AssignPermissionToRole, Acts

\* Authority comes from authority: no number of requests in any order gives a
\* permission that nobody has and nobody can give, or deletes a user without one
\* who may.
THEOREM AuthorityComesFromAuthority == Spec => AuthorityIsGiven
<1>1. ASSUME RbacInv, [Next]_vars, NEW p \in Permissions, ~Source(p)
      PROVE  ~Source(p)'
  <2>1. ASSUME NEW u \in Users, NEW r \in {p, "roles.manage"}, Holds(userRoles', rolePerms', u, r)
        PROVE  FALSE
    <3>1. r \in Permissions
      BY CheckedPermissions
    <3>2. ~Has(u, r)
      BY <1>1 DEF Source
    <3>. QED
      BY <1>1, <2>1, <3>1, <3>2, PermissionWasGiven DEF Source
  <2>2. ASSUME NEW q \in Requests, req'[q].pc = "act", Needs[req'[q].kind] \in {p, "roles.manage"}
        PROVE  FALSE
    BY <1>1, <2>2, ActingWasEntitled DEF Source
  <2>. QED
    BY <2>1, <2>2 DEF Source, Has
<1>2. ASSUME RbacInv, [Next]_vars, ~Source("users.delete")
      PROVE  users \subseteq users'
  <2>1. ASSUME NEW q \in Requests, DeleteUser(q)
        PROVE  FALSE
    BY <1>2, <2>1, Kinds DEF DeleteUser, Acts, Source
  <2>. QED
    BY <1>2, <2>1, StepKinds DEF AssignRoleToUser, AssignPermissionToRole
<1>3. RbacInv /\ [Next]_vars =>
        [/\ \A p \in Permissions : ~Source(p) => ~Source(p)'
         /\ ~Source("users.delete") => users \subseteq users']_vars
  BY <1>1, <1>2
<1>. QED
  BY <1>3, Safety, PTL DEF Spec, AuthorityIsGiven
=============================================================================
