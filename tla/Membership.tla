----------------------------- MODULE Membership -----------------------------
(***************************************************************************)
(* Members and invitations of tenants: the writing half of TenantHandler   *)
(* over the tables tenants, tenant_members and tenant_invitations.         *)
(*                                                                         *)
(* An administrative request reads the caller's membership in one          *)
(* statement and writes in another; accepting an invitation reads it,      *)
(* marks it and adds the member in three.  No transaction and no lock      *)
(* holds them together, so the steps of different requests interleave.     *)
(*                                                                         *)
(* createTenant never commits (it gives the member the tenant's id before  *)
(* the tenant has one), so tenants are there from the start, each with the *)
(* membership of its owner.  The roles table does not change: no handler   *)
(* writes it.                                                              *)
(***************************************************************************)
EXTENDS Naturals, FiniteSets

CONSTANTS
  Users,       \* values of users.id
  Tenants,     \* values of tenants.id
  Owner,       \* tenants.owner_id, by tenant
  Roles,       \* values of roles.id
  AdminRoles,  \* the roles named tenant_admin and super_admin
  Requests,    \* request slots: how many handlers can be in flight together
  MaxInvite,   \* bound: tenant_invitations rows ever inserted
  MaxTime,     \* bound: the time the clock runs
  InviteTTL    \* the 7 days an invitation is open, in units of the model

ASSUME TenantsAreOwned == Owner \in [Tenants -> Users]
ASSUME AdminRolesAreRoles == AdminRoles \subseteq Roles
ASSUME BoundsAreNat == MaxInvite \in Nat /\ MaxTime \in Nat /\ InviteTTL \in Nat

VARIABLES
  now,         \* the wall clock
  users,       \* ids present in the users table
  tenants,     \* the tenants table: "active", "inactive" or "deleted"
  members,     \* the tenant_members table, by its UNIQUE key (tenant, user)
  invites,     \* the tenant_invitations table, by primary key
  req,         \* request slot -> what its handler has read so far
  lostMarks    \* history: invitations whose accepted_at an error kept unset

vars == <<now, users, tenants, members, invites, req, lostMarks>>

-----------------------------------------------------------------------------
InviteIds == 1..MaxInvite

\* The row of a removed member stays, with is_active = false.  via, by and
\* assigned are history: the invitation and the slot that added the member (0 for
\* an owner), and whether its role was changed since.
Member   == [status: {"active", "removed"}, role: Roles, via: InviteIds \cup {0},
             by: Requests \cup {0}, assigned: BOOLEAN]
NoMember == [status |-> "none"]

\* "gone" keeps the id of a row removed by the cascade.
Invite   == [status: {"open", "accepted", "gone"}, tenant: Tenants, role: Roles, exp: Nat]
NoInvite == [status |-> "unused"]

\* The administrative requests between requireTenantAdmin and their write, and
\* acceptInvitation before its UPDATE and before its INSERT.
AdminPcs == {"invite", "assign", "remove", "activate", "deactivate"}
JoinPcs  == {"mark", "join"}

Idle == [pc |-> "idle"]
Busy == [pc: AdminPcs, tenant: Tenants, user: Users, role: Roles, inv: {0}] \cup
        [pc: JoinPcs, tenant: Tenants, user: Users, role: Roles, inv: InviteIds]

Unused == {i \in InviteIds : invites[i].status = "unused"}

\* GetMembership finds the row of an active member.
IsMember(t, u) == members[t][u].status = "active"

\* Mutant: requireMembership where requireTenantAdmin belongs.
IsTenantAdmin_AnyMember(t, u) == IsMember(t, u)

\* requireTenantAdmin.  It does not ask whether the tenant is active.
IsTenantAdmin(t, u) == IsMember(t, u) /\ members[t][u].role \in AdminRoles

Finish(q) == req' = [req EXCEPT ![q] = Idle]

-----------------------------------------------------------------------------
\* An administrative handler until its write: the middleware found the caller u,
\* requireTenantAdmin let it pass.  Otherwise: 401, 403.  v and r are the member
\* and the role the request is about.
BeginAdmin(q, pc, u, t, v, r) ==
  /\ req[q] = Idle
  /\ u \in users
  /\ IsTenantAdmin(t, u)
  /\ req' = [req EXCEPT ![q] = [pc |-> pc, tenant |-> t, user |-> v, role |-> r, inv |-> 0]]
  /\ UNCHANGED <<now, users, tenants, members, invites, lostMarks>>

\* The bound MaxInvite: it starts only if an id is left.
BeginInvite(q, u, t, r) ==
  /\ Cardinality({p \in Requests : req[p].pc = "invite"}) < Cardinality(Unused)
  /\ BeginAdmin(q, "invite", u, t, u, r)

BeginAssign(q, u, t, v, r) == BeginAdmin(q, "assign", u, t, v, r)
BeginRemove(q, u, t, v)    == BeginAdmin(q, "remove", u, t, v, members[t][u].role)

\* updateTenant with is_active, and deleteTenant, which deactivates.
BeginActivate(q, u, t)   == BeginAdmin(q, "activate", u, t, u, members[t][u].role)
BeginDeactivate(q, u, t) == BeginAdmin(q, "deactivate", u, t, u, members[t][u].role)

NewInvite(q) == [status |-> "open", tenant |-> req[q].tenant, role |-> req[q].role,
                 exp |-> now + InviteTTL]

TenantExists(t) == tenants[t] # "deleted"

\* CreateInvitation.  If the tenant is gone the foreign key refuses: 500.
CreateInvitation(q) ==
  /\ req[q].pc = "invite"
  /\ \/ /\ TenantExists(req[q].tenant)
        /\ \E n \in Unused : invites' = [invites EXCEPT ![n] = NewInvite(q)]
     \/ /\ ~TenantExists(req[q].tenant)
        /\ UNCHANGED invites
  /\ Finish(q)
  /\ UNCHANGED <<now, users, tenants, members, lostMarks>>

\* Mutant: the role written to the wrong column.
AfterAssign_OtherColumn(q) ==
  IF IsMember(req[q].tenant, req[q].user)
  THEN [members EXCEPT ![req[q].tenant][req[q].user].status = req[q].role]
  ELSE members

\* UPDATE ... WHERE tenant_id, user_id and is_active: no row, no change.
AfterAssign(q) ==
  IF IsMember(req[q].tenant, req[q].user)
  THEN [members EXCEPT ![req[q].tenant][req[q].user] =
          [@ EXCEPT !.role = req[q].role, !.assigned = TRUE]]
  ELSE members

\* UpdateMemberRole, answered 200 whether or not it met a row.
UpdateMemberRole(q) ==
  /\ req[q].pc = "assign"
  /\ members' = AfterAssign(q)
  /\ Finish(q)
  /\ UNCHANGED <<now, users, tenants, invites, lostMarks>>

\* Mutant: tenant_id left out of the WHERE.
AfterRemove_AnyTenant(q) ==
  [t \in Tenants |->
     IF IsMember(t, req[q].user) THEN [members[t] EXCEPT ![req[q].user].status = "removed"]
                                 ELSE members[t]]

AfterRemove(q) ==
  IF IsMember(req[q].tenant, req[q].user)
  THEN [members EXCEPT ![req[q].tenant][req[q].user].status = "removed"]
  ELSE members

\* RemoveMember: a soft deletion, of the last admin as of anyone.
RemoveMember(q) ==
  /\ req[q].pc = "remove"
  /\ members' = AfterRemove(q)
  /\ Finish(q)
  /\ UNCHANGED <<now, users, tenants, invites, lostMarks>>

\* UpdateTenant and SoftDelete.  What updateTenant reads afterwards only shapes
\* its answer.
SetActive(q) ==
  /\ req[q].pc \in {"activate", "deactivate"}
  /\ tenants' = IF TenantExists(req[q].tenant)
                THEN [tenants EXCEPT ![req[q].tenant] =
                        IF req[q].pc = "activate" THEN "active" ELSE "inactive"]
                ELSE tenants
  /\ Finish(q)
  /\ UNCHANGED <<now, users, members, invites, lostMarks>>

-----------------------------------------------------------------------------
\* Mutant: the tenant of the path is not compared.
Acceptable_AnyTenant(i, t) == invites[i].status = "open" /\ now <= invites[i].exp

\* GetInvitationByTokenHash and the two checks after it.  Otherwise: 404, 400.
\* The invited address is not compared with the caller's.
Acceptable(i, t) ==
  invites[i].status = "open" /\ invites[i].tenant = t /\ now <= invites[i].exp

\* acceptInvitation until its first write.  Whoever has the token may present it.
\* The middleware's read of the caller is taken together with that of the row: a
\* caller deleted between them is refused by the foreign key at the end all the same.
BeginAccept(q, u, t, i) ==
  /\ req[q] = Idle
  /\ u \in users
  /\ Acceptable(i, t)
  /\ req' = [req EXCEPT ![q] =
       [pc |-> "mark", tenant |-> t, user |-> u, role |-> invites[i].role, inv |-> i]]
  /\ UNCHANGED <<now, users, tenants, members, invites, lostMarks>>

\* Mutant: accepted_at is never set.
Marked_Never(i) == invites

Marked(i) ==
  IF invites[i].status = "open" THEN [invites EXCEPT ![i].status = "accepted"] ELSE invites

\* AcceptInvitation, unconditional; the handler drops its error and goes on.
MarkAccepted(q) ==
  /\ req[q].pc = "mark"
  /\ \/ /\ invites' = Marked(req[q].inv)
        /\ UNCHANGED lostMarks
     \/ /\ lostMarks' = lostMarks \cup {req[q].inv}
        /\ UNCHANGED invites
  /\ req' = [req EXCEPT ![q].pc = "join"]
  /\ UNCHANGED <<now, users, tenants, members>>

\* Mutants of MayInsert: UNIQUE among active members only; no foreign keys.
MayInsert_IfInactive(t, u) == TenantExists(t) /\ u \in users /\ ~IsMember(t, u)
MayInsert_NoForeignKey(t, u) == members[t][u] = NoMember

\* What the foreign keys and UNIQUE (tenant_id, user_id) ask of a new row.
MayInsert(t, u) == TenantExists(t) /\ u \in users /\ members[t][u] = NoMember

\* Mutant: every member joins with the role a tenant is created with.
NewMember_AsAdmin(r, i, q) ==
  [status |-> "active", role |-> CHOOSE a \in AdminRoles : TRUE, via |-> i, by |-> q,
   assigned |-> FALSE]

NewMember(r, i, q) ==
  [status |-> "active", role |-> r, via |-> i, by |-> q, assigned |-> FALSE]

\* AddMember.  A row that may not be inserted: 500, and the invitation is spent.
AddMember(q) ==
  LET t == req[q].tenant
      u == req[q].user
  IN /\ req[q].pc = "join"
     /\ \/ /\ MayInsert(t, u)
           /\ members' = [members EXCEPT ![t][u] = NewMember(req[q].role, req[q].inv, q)]
        \/ /\ ~MayInsert(t, u)
           /\ UNCHANGED members
     /\ Finish(q)
     /\ UNCHANGED <<now, users, tenants, invites, lostMarks>>

\* The server dies, the client goes away or the database reports an error.
Abort(q) ==
  /\ req[q] # Idle
  /\ Finish(q)
  /\ UNCHANGED <<now, users, tenants, members, invites, lostMarks>>

-----------------------------------------------------------------------------
\* AdminHandler.DeleteUser.  ON DELETE CASCADE takes the tenants the user owns
\* along, and the members and invitations of these.
DeleteUser(u) ==
  LET lost == {t \in Tenants : Owner[t] = u}
  IN /\ u \in users
     /\ users' = users \ {u}
     /\ tenants' = [t \in Tenants |-> IF t \in lost THEN "deleted" ELSE tenants[t]]
     /\ members' = [t \in Tenants |-> [v \in Users |->
                      IF t \in lost \/ v = u THEN NoMember ELSE members[t][v]]]
     /\ invites' = [i \in InviteIds |->
                      IF i \notin Unused /\ invites[i].tenant \in lost
                      THEN [invites[i] EXCEPT !.status = "gone"] ELSE invites[i]]
     /\ UNCHANGED <<now, req, lostMarks>>

\* A stale copy of the users row is saved and inserts it again (module Accounts);
\* what the cascade took does not come back.
RestoreUser(u) ==
  /\ u \in Users \ users
  /\ users' = users \cup {u}
  /\ UNCHANGED <<now, tenants, members, invites, req, lostMarks>>

Tick ==
  /\ now < MaxTime
  /\ now' = now + 1
  /\ UNCHANGED <<users, tenants, members, invites, req, lostMarks>>

-----------------------------------------------------------------------------
Init ==
  /\ now = 0
  /\ users = Users
  /\ tenants = [t \in Tenants |-> "active"]
  /\ \E r \in AdminRoles :
       members = [t \in Tenants |-> [u \in Users |->
                    IF u = Owner[t] THEN NewMember(r, 0, 0) ELSE NoMember]]
  /\ invites = [i \in InviteIds |-> NoInvite]
  /\ req = [q \in Requests |-> Idle]
  /\ lostMarks = {}

Begin(q, u, t) ==
  \/ \E r \in Roles : BeginInvite(q, u, t, r)
  \/ \E v \in Users, r \in Roles : BeginAssign(q, u, t, v, r)
  \/ \E v \in Users : BeginRemove(q, u, t, v)
  \/ BeginActivate(q, u, t)
  \/ BeginDeactivate(q, u, t)
  \/ \E i \in InviteIds : BeginAccept(q, u, t, i)

\* The steps the server takes on its own once a request has arrived.
Advance(q) ==
  \/ CreateInvitation(q)
  \/ UpdateMemberRole(q)
  \/ RemoveMember(q)
  \/ SetActive(q)
  \/ MarkAccepted(q)
  \/ AddMember(q)

Next ==
  \/ \E q \in Requests :
       \/ \E u \in Users, t \in Tenants : Begin(q, u, t)
       \/ Advance(q)
       \/ Abort(q)
  \/ \E u \in Users : DeleteUser(u) \/ RestoreUser(u)
  \/ Tick

Spec == Init /\ [][Next]_vars

-----------------------------------------------------------------------------
\* Every variable has the shape its declaration says.
TypeOK ==
  /\ now \in Nat
  /\ users \subseteq Users
  /\ tenants \in [Tenants -> {"active", "inactive", "deleted"}]
  /\ members \in [Tenants -> [Users -> Member \cup {NoMember}]]
  /\ invites \in [InviteIds -> Invite \cup {NoInvite}]
  /\ req \in [Requests -> Busy \cup {Idle}]
  /\ lostMarks \subseteq InviteIds

\* Nobody is in a tenant, or has a role there, that none of its admins gave: the
\* role of a member comes from an invitation to this very tenant or from an
\* assignment in it, although the handler takes the tenant from the path, the
\* invitation from the token and the role from a row read two statements before.
\* The owner came with the tenant.
MembersWereInvited ==
  \A t \in Tenants, u \in Users :
    LET m == members[t][u]
    IN IsMember(t, u) =>
         \/ m.via # 0 /\ invites[m.via].tenant = t
                      /\ (m.role = invites[m.via].role \/ m.assigned)
         \/ m.via = 0 /\ u = Owner[t] /\ (m.role \in AdminRoles \/ m.assigned)

\* The invitation through which u has its row in t, as a set of at most one.
JoinedBy(t, u) ==
  IF members[t][u] = NoMember THEN {} ELSE {members[t][u].via} \ {0}

\* The check that an invitation is still open and the mark that closes it are
\* two statements, so one invitation can bring in several users.  No more than
\* there were requests in flight together: unless the database failed to mark
\* the invitation, no slot joins two users by it.
OneJoinPerSlot ==
  \A t \in Tenants, u, v \in Users :
    (u # v /\ JoinedBy(t, u) \ lostMarks # {} /\ JoinedBy(t, u) = JoinedBy(t, v)) =>
      members[t][u].by # members[t][v].by

\* Nothing outlives the user or tenant it belongs to: a join or an invitation
\* under way while its tenant, its user or the owner is deleted leaves no row.
NothingOutlivesItsParent ==
  /\ \A t \in Tenants : TenantExists(t) => Owner[t] \in users
  /\ \A t \in Tenants, u \in Users :
       members[t][u] # NoMember => TenantExists(t) /\ u \in users
  /\ \A i \in InviteIds :
       invites[i].status \in {"open", "accepted"} => TenantExists(invites[i].tenant)

\* What every step preserves: a join under way is one its invitation allows and,
\* once past the mark, one nobody can begin again; what joined somebody before
\* is marked; a slot that is joining by an invitation has not done so before.
JoinIsInvited ==
  \A q \in Requests : req[q].pc \in JoinPcs =>
    /\ req[q].inv \in InviteIds \ Unused
    /\ invites[req[q].inv].tenant = req[q].tenant
    /\ invites[req[q].inv].role = req[q].role
IsClosed(i) == i \notin Unused /\ (invites[i].status # "open" \/ i \in lostMarks)
JoinIsMarked ==
  /\ \A q \in Requests : req[q].pc = "join" => IsClosed(req[q].inv)
  /\ \A t \in Tenants, u \in Users : \A i \in JoinedBy(t, u) : IsClosed(i)
JoinsOnce ==
  \A q \in Requests, t \in Tenants, u \in Users :
    (req[q].pc \in JoinPcs /\ req[q].inv \in JoinedBy(t, u) /\ members[t][u].by = q) =>
      req[q].inv \in lostMarks

\* The inductive invariant behind the safety properties above.
IndInv == JoinIsInvited /\ JoinIsMarked /\ JoinsOnce

-----------------------------------------------------------------------------
\* Removal is final: neither an invitation that was still open, nor a change of
\* role or a join that was under way makes a removed member active again.  Only
\* with the user, or the tenant, does the row go.
RemovalIsFinal ==
  [][\A t \in Tenants, u \in Users :
       members[t][u].status = "removed" =>
         members'[t][u] = members[t][u] \/ u \notin users' \/ tenants'[t] = "deleted"]_vars

\* Whence a tenant can get an admin: from an admin, from a request one has begun,
\* from an invitation of one that makes an admin and is neither accepted nor
\* expired, or from a join under way by such an invitation.
SourceOfAuthority(t) ==
  \/ \E u \in Users : IsMember(t, u) /\ members[t][u].role \in AdminRoles
  \/ \E q \in Requests : req[q].pc \in AdminPcs /\ req[q].tenant = t
  \/ \E i \in InviteIds : Acceptable(i, t) /\ invites[i].role \in AdminRoles
  \/ \E q \in Requests :
       req[q].pc \in JoinPcs /\ req[q].tenant = t /\ req[q].role \in AdminRoles

\* No member and no outsider, admin of another tenant or not, makes itself an
\* admin: a tenant that has lost every source of authority never has one again.
NoSelfMadeAdmin ==
  [][\A t \in Tenants : ~SourceOfAuthority(t) => ~SourceOfAuthority(t)']_vars

\* Tenants are isolated: what belongs to a tenant changes only through a request
\* for this tenant (or the deletion of a user), an existing membership only
\* through a request that names its member.
TenantsAreIsolated ==
  [][\A t \in Tenants :
       LET done(pcs) == {q \in Requests : req[q].pc \in pcs /\ req'[q] = Idle /\ req[q].tenant = t}
       IN \/ users' \subseteq users /\ users' # users
          \/ /\ tenants'[t] # tenants[t] => done({"activate", "deactivate"}) # {}
             /\ \A u \in Users : members'[t][u] # members[t][u] =>
                  \E q \in done({"assign", "remove", "join"}) : req[q].user = u]_vars

\* Membership is a register (TenantRegister) of who is in which tenant.
MemberPairs == {<<t, u>> : t \in Tenants, u \in Users}
Register == INSTANCE TenantRegister WITH
  Seeded <- Tenants,
  tenants <- [t \in Tenants |-> IF tenants[t] = "deleted" THEN "none" ELSE tenants[t]],
  members <- {m \in MemberPairs : IsMember(m[1], m[2])}

\* Membership keeps the register: whatever was checked when and by whom, one write
\* lets one user in or out of one tenant or switches one tenant, which is there, as
\* is the user; only a deletion changes more, and takes exactly what hangs on it.
KeepsRegister == Register!RegisterSpec

-----------------------------------------------------------------------------
\* tenant.go:344 answers "Invitation not found or already accepted.": an
\* invitation is accepted once, it does not bring in two users.
InvitationJoinsOne ==
  \A t \in Tenants, u, v \in Users : JoinedBy(t, u) \cap JoinedBy(t, v) # {} => u = v
=============================================================================
