-------------------------- MODULE MembershipProofs --------------------------
(***************************************************************************)
(* Proofs about module Membership, for every set of users, tenants, roles  *)
(* and request slots and every value of the bounds.                        *)
(*                                                                         *)
(* Three lemmas say what a step can do to one member row, one invitation   *)
(* and one request slot; the invariants and the action properties follow   *)
(* from these, and not from the actions themselves.                        *)
(***************************************************************************)
EXTENDS Membership, FunctionTheorems, FiniteSetTheorems, TLAPS

LEMMA BusyByPc ==
  ASSUME TypeOK, NEW q \in Requests, req[q].pc \in AdminPcs \cup JoinPcs
  PROVE  req[q] \in Busy /\ req[q] # Idle
BY DEF TypeOK, Idle, AdminPcs, JoinPcs

LEMMA MemberIsRow ==
  ASSUME TypeOK, NEW t \in Tenants, NEW u \in Users
  PROVE  /\ members[t][u] \in Member \cup {NoMember}
         /\ members[t][u] # NoMember => members[t][u] \in Member
         /\ members[t][u].status \in {"active", "removed"} => members[t][u] \in Member
         /\ members[t][u] = NoMember <=> members[t][u].status = "none"
BY DEF TypeOK, Member, NoMember

LEMMA StoredIsInvite ==
  ASSUME TypeOK, NEW i \in InviteIds \ Unused
  PROVE  invites[i] \in Invite
BY DEF TypeOK, Unused, NoInvite

-----------------------------------------------------------------------------
\* What a step can do to the row of u in t.

AssignedBy(q, t, u) ==
  /\ req[q].pc = "assign" /\ req[q].tenant = t /\ req[q].user = u
  /\ IsMember(t, u)
  /\ members'[t][u] = [members[t][u] EXCEPT !.role = req[q].role, !.assigned = TRUE]
  /\ req'[q] = Idle
  /\ UNCHANGED <<now, users, tenants, invites, lostMarks>>

RemovedBy(q, t, u) ==
  /\ req[q].pc = "remove" /\ req[q].tenant = t /\ req[q].user = u
  /\ IsMember(t, u)
  /\ members'[t][u] = [members[t][u] EXCEPT !.status = "removed"]
  /\ req'[q] = Idle
  /\ UNCHANGED <<now, users, tenants, invites, lostMarks>>

AddedBy(q, t, u) ==
  /\ req[q].pc = "join" /\ req[q].tenant = t /\ req[q].user = u
  /\ MayInsert(t, u)
  /\ members'[t][u] = NewMember(req[q].role, req[q].inv, q)
  /\ Finish(q)
  /\ \A v \in Users : \A s \in Tenants : (s # t \/ v # u) => members'[s][v] = members[s][v]
  /\ UNCHANGED <<now, users, tenants, invites, lostMarks>>

DeletedWith(v, t, u) ==
  /\ DeleteUser(v)
  /\ v = u \/ v = Owner[t]
  /\ members'[t][u] = NoMember

LEMMA MemberStep ==
  ASSUME TypeOK, [Next]_vars, NEW t \in Tenants, NEW u \in Users
  PROVE  \/ members'[t][u] = members[t][u]
         \/ \E q \in Requests : AssignedBy(q, t, u) \/ RemovedBy(q, t, u) \/ AddedBy(q, t, u)
         \/ \E v \in Users : DeletedWith(v, t, u)
<1>. DEFINE Goal == \/ members'[t][u] = members[t][u]
                    \/ \E q \in Requests : AssignedBy(q, t, u) \/ RemovedBy(q, t, u) \/ AddedBy(q, t, u)
                    \/ \E v \in Users : DeletedWith(v, t, u)
<1>1. ASSUME NEW q \in Requests, UpdateMemberRole(q)
      PROVE  Goal
  <2>. req[q] \in Busy
    BY <1>1, BusyByPc DEF UpdateMemberRole, AdminPcs
  <2>. DEFINE s == req[q].tenant
              v == req[q].user
  <2>1. s \in Tenants /\ v \in Users
    BY DEF Busy
  <2>2. CASE ~IsMember(s, v)
    BY <1>1, <2>2 DEF UpdateMemberRole, AfterAssign
  <2>3. CASE IsMember(s, v)
    <3>1. members' = [members EXCEPT ![s][v] = [members[s][v] EXCEPT !.role = req[q].role, !.assigned = TRUE]]
      BY <1>1, <2>3 DEF UpdateMemberRole, AfterAssign
    <3>2. CASE t = s /\ u = v
      <4>1. members'[t][u] = [members[t][u] EXCEPT !.role = req[q].role, !.assigned = TRUE]
        BY <3>1, <3>2 DEF TypeOK
      <4>2. req'[q] = Idle
        BY <1>1 DEF UpdateMemberRole, Finish, TypeOK
      <4>. QED
        BY <1>1, <2>3, <3>2, <4>1, <4>2 DEF AssignedBy, UpdateMemberRole
    <3>3. CASE ~(t = s /\ u = v)
      BY <2>1, <3>1, <3>3 DEF TypeOK
    <3>. QED
      BY <3>2, <3>3
  <2>. QED
    BY <2>2, <2>3
<1>2. ASSUME NEW q \in Requests, RemoveMember(q)
      PROVE  Goal
  <2>. req[q] \in Busy
    BY <1>2, BusyByPc DEF RemoveMember, AdminPcs
  <2>. DEFINE s == req[q].tenant
              v == req[q].user
  <2>1. s \in Tenants /\ v \in Users
    BY DEF Busy
  <2>2. CASE ~IsMember(s, v)
    BY <1>2, <2>2 DEF RemoveMember, AfterRemove
  <2>3. CASE IsMember(s, v)
    <3>1. members' = [members EXCEPT ![s][v].status = "removed"]
      BY <1>2, <2>3 DEF RemoveMember, AfterRemove
    <3>2. CASE t = s /\ u = v
      <4>1. members'[t][u] = [members[t][u] EXCEPT !.status = "removed"]
        BY <3>1, <3>2 DEF TypeOK
      <4>2. req'[q] = Idle
        BY <1>2 DEF RemoveMember, Finish, TypeOK
      <4>. QED
        BY <1>2, <2>3, <3>2, <4>1, <4>2 DEF RemovedBy, RemoveMember
    <3>3. CASE ~(t = s /\ u = v)
      BY <2>1, <3>1, <3>3 DEF TypeOK
    <3>. QED
      BY <3>2, <3>3
  <2>. QED
    BY <2>2, <2>3
<1>3. ASSUME NEW q \in Requests, AddMember(q)
      PROVE  Goal
  <2>. req[q] \in Busy
    BY <1>3, BusyByPc DEF AddMember, JoinPcs
  <2>. DEFINE s == req[q].tenant
              v == req[q].user
              m == NewMember(req[q].role, req[q].inv, q)
  <2>1. s \in Tenants /\ v \in Users
    BY DEF Busy
  <2>2. CASE ~MayInsert(s, v)
    BY <1>3, <2>2 DEF AddMember
  <2>3. CASE MayInsert(s, v)
    <3>1. members' = [members EXCEPT ![s][v] = m]
      BY <1>3, <2>3 DEF AddMember
    <3>2. CASE t = s /\ u = v
      <4>1. members'[t][u] = m
        BY <3>1, <3>2 DEF TypeOK
      <4>2. \A w \in Users : \A r \in Tenants : (r # t \/ w # u) => members'[r][w] = members[r][w]
        BY <3>1, <3>2 DEF TypeOK
      <4>. QED
        BY <1>3, <2>3, <3>2, <4>1, <4>2 DEF AddedBy, AddMember
    <3>3. CASE ~(t = s /\ u = v)
      BY <2>1, <3>1, <3>3 DEF TypeOK
    <3>. QED
      BY <3>2, <3>3
  <2>. QED
    BY <2>2, <2>3
<1>4. ASSUME NEW v \in Users, DeleteUser(v)
      PROVE  Goal
  BY <1>4 DEF DeleteUser, DeletedWith
<1>5. ASSUME NEW q \in Requests, NEW v \in Users, NEW s \in Tenants, Begin(q, v, s)
      PROVE  members' = members
  BY <1>5 DEF Begin, BeginInvite, BeginAssign, BeginRemove, BeginActivate, BeginDeactivate,
              BeginAdmin, BeginAccept
<1>6. ASSUME NEW q \in Requests,
             CreateInvitation(q) \/ SetActive(q) \/ MarkAccepted(q) \/ Abort(q)
      PROVE  members' = members
  BY <1>6 DEF CreateInvitation, SetActive, MarkAccepted, Abort
<1>7. ASSUME \/ \E v \in Users : RestoreUser(v)
             \/ Tick
             \/ UNCHANGED vars
      PROVE  members' = members
  BY <1>7 DEF RestoreUser, Tick, vars
<1>. HIDE DEF Goal
<1>8. members' = members => Goal
  BY DEF Goal
<1>9. Goal
  BY <1>1, <1>2, <1>3, <1>4, <1>5, <1>6, <1>7, <1>8 DEF Next, Advance
<1>. QED
  BY <1>9 DEF Goal

-----------------------------------------------------------------------------
\* What a step can do to invitation i.

CreatedBy(q, i) ==
  /\ req[q].pc = "invite"
  /\ i \in Unused
  /\ TenantExists(req[q].tenant)
  /\ invites'[i] = NewInvite(q)
  /\ Finish(q)
  /\ UNCHANGED <<now, users, tenants, members, lostMarks>>

ClosedNow(i) ==
  /\ i \notin Unused
  /\ \/ invites[i].status = "open" /\ invites'[i] = [invites[i] EXCEPT !.status = "accepted"]
     \/ invites'[i] = [invites[i] EXCEPT !.status = "gone"]
  /\ now' = now

LEMMA InviteStep ==
  ASSUME TypeOK, [Next]_vars, NEW i \in InviteIds
  PROVE  \/ invites'[i] = invites[i]
         \/ \E q \in Requests : CreatedBy(q, i)
         \/ ClosedNow(i)
<1>. DEFINE Goal == \/ invites'[i] = invites[i]
                    \/ \E q \in Requests : CreatedBy(q, i)
                    \/ ClosedNow(i)
<1>1. ASSUME NEW q \in Requests, CreateInvitation(q)
      PROVE  Goal
  <2>1. CASE ~TenantExists(req[q].tenant)
    BY <1>1, <2>1 DEF CreateInvitation
  <2>2. CASE TenantExists(req[q].tenant)
    <3>1. PICK n \in Unused : invites' = [invites EXCEPT ![n] = NewInvite(q)]
      BY <1>1, <2>2 DEF CreateInvitation
    <3>2. CASE i = n
      BY <1>1, <2>2, <3>1, <3>2 DEF CreateInvitation, CreatedBy, TypeOK, Unused
    <3>3. CASE i # n
      BY <3>1, <3>3 DEF TypeOK
    <3>. QED
      BY <3>2, <3>3
  <2>. QED
    BY <2>1, <2>2
<1>2. ASSUME NEW q \in Requests, MarkAccepted(q)
      PROVE  Goal
  <2>1. CASE invites' = Marked(req[q].inv)
    BY <1>2, <2>1 DEF Marked, MarkAccepted, TypeOK, Unused, ClosedNow
  <2>. QED
    BY <1>2, <2>1 DEF MarkAccepted
<1>3. ASSUME NEW v \in Users, DeleteUser(v)
      PROVE  Goal
  BY <1>3 DEF DeleteUser, ClosedNow
<1>4. ASSUME NEW q \in Requests, NEW v \in Users, NEW s \in Tenants, Begin(q, v, s)
      PROVE  UNCHANGED <<invites, lostMarks>>
  BY <1>4 DEF Begin, BeginInvite, BeginAssign, BeginRemove, BeginActivate, BeginDeactivate,
              BeginAdmin, BeginAccept
<1>5. ASSUME NEW q \in Requests,
             \/ UpdateMemberRole(q) \/ RemoveMember(q) \/ SetActive(q) \/ AddMember(q) \/ Abort(q)
      PROVE  UNCHANGED <<invites, lostMarks>>
  BY <1>5 DEF UpdateMemberRole, RemoveMember, SetActive, AddMember, Abort
<1>6. ASSUME \/ \E v \in Users : RestoreUser(v)
             \/ Tick
             \/ UNCHANGED vars
      PROVE  UNCHANGED <<invites, lostMarks>>
  BY <1>6 DEF RestoreUser, Tick, vars
<1>7. invites' = invites => Goal
  OBVIOUS
<1>. HIDE DEF Goal
<1>8. Goal
  BY <1>1, <1>2, <1>3, <1>4, <1>5, <1>6, <1>7 DEF Next, Advance
<1>. QED
  BY <1>8 DEF Goal

LEMMA LostMarksStep ==
  ASSUME [Next]_vars
  PROVE  lostMarks \subseteq lostMarks'
<1>1. ASSUME NEW q \in Requests, NEW v \in Users, NEW s \in Tenants, Begin(q, v, s)
      PROVE  lostMarks' = lostMarks
  BY <1>1 DEF Begin, BeginInvite, BeginAssign, BeginRemove, BeginActivate, BeginDeactivate,
              BeginAdmin, BeginAccept
<1>. QED
  BY <1>1 DEF Next, Advance, CreateInvitation, UpdateMemberRole, RemoveMember, SetActive,
              MarkAccepted, AddMember, Abort, DeleteUser, RestoreUser, Tick, vars

\* An invitation keeps its tenant, role and expiry, and stays closed.
LEMMA InviteKept ==
  ASSUME TypeOK, [Next]_vars, NEW i \in InviteIds \ Unused
  PROVE  /\ invites'[i].status # "unused"
         /\ invites'[i].tenant = invites[i].tenant
         /\ invites'[i].role = invites[i].role
         /\ invites'[i].exp = invites[i].exp
         /\ invites[i].status # "open" => invites'[i].status # "open"
         /\ invites'[i].status = "open" => invites[i] = invites'[i]
         /\ IsClosed(i) => IsClosed(i)'
<1>1. invites[i] \in Invite
  BY StoredIsInvite
<1>2. \/ invites'[i] = invites[i]
      \/ \E s \in {"accepted", "gone"} : invites'[i] = [invites[i] EXCEPT !.status = s]
  BY InviteStep DEF CreatedBy, ClosedNow
<1>3. i \in lostMarks => i \in lostMarks'
  BY LostMarksStep
<1>. QED
  BY <1>1, <1>2, <1>3 DEF Invite, IsClosed, Unused

-----------------------------------------------------------------------------
\* What a step can do to the request slot of q.

Quiet == UNCHANGED <<now, users, tenants, members, invites, lostMarks>>

BegunAdmin(q) ==
  /\ Quiet
  /\ req'[q] \in Busy /\ req'[q].pc \in AdminPcs
  /\ \E u \in users : IsTenantAdmin(req'[q].tenant, u)

BegunAccept(q) ==
  /\ Quiet
  /\ req'[q] \in Busy /\ req'[q].pc = "mark"
  /\ req'[q].inv \in InviteIds
  /\ Acceptable(req'[q].inv, req'[q].tenant)
  /\ req'[q].role = invites[req'[q].inv].role

MarkedBy(q) ==
  /\ req[q].pc = "mark"
  /\ req'[q] = [req[q] EXCEPT !.pc = "join"]
  /\ UNCHANGED <<now, users, tenants, members>>
  /\ \A i \in InviteIds \ Unused : i = req[q].inv => IsClosed(i)'

LEMMA BeginAdminStep ==
  ASSUME TypeOK, NEW p \in Requests, NEW pc \in AdminPcs, NEW u \in Users, NEW t \in Tenants,
         NEW v \in Users, NEW r \in Roles, BeginAdmin(p, pc, u, t, v, r), NEW q \in Requests
  PROVE  req'[q] = req[q] \/ BegunAdmin(q)
<1>. DEFINE b == [pc |-> pc, tenant |-> t, user |-> v, role |-> r, inv |-> 0]
<1>1. b \in Busy
  BY DEF Busy
<1>2. (q # p => req'[q] = req[q]) /\ (q = p => req'[q] = b)
  BY DEF BeginAdmin, TypeOK
<1>3. Quiet /\ u \in users /\ IsTenantAdmin(t, u)
  BY DEF BeginAdmin, Quiet
<1>. QED
  BY <1>1, <1>2, <1>3 DEF BegunAdmin

LEMMA BeginStep ==
  ASSUME TypeOK, NEW p \in Requests, NEW u \in Users, NEW t \in Tenants, Begin(p, u, t),
         NEW q \in Requests
  PROVE  req'[q] = req[q] \/ BegunAdmin(q) \/ BegunAccept(q)
<1>1. ASSUME NEW i \in InviteIds, BeginAccept(p, u, t, i)
      PROVE  req'[q] = req[q] \/ BegunAccept(q)
  <2>. DEFINE b == [pc |-> "mark", tenant |-> t, user |-> u, role |-> invites[i].role, inv |-> i]
  <2>1. i \notin Unused
    BY <1>1 DEF BeginAccept, Acceptable, Unused
  <2>2. b \in Busy
    BY <2>1, StoredIsInvite DEF Busy, Invite, JoinPcs
  <2>3. (q # p => req'[q] = req[q]) /\ (q = p => req'[q] = b)
    BY <1>1 DEF BeginAccept, TypeOK
  <2>. QED
    BY <1>1, <2>2, <2>3 DEF BeginAccept, BegunAccept, Quiet
<1>2. ASSUME NEW r \in Roles, BeginInvite(p, u, t, r)
      PROVE  req'[q] = req[q] \/ BegunAdmin(q)
  BY <1>2, BeginAdminStep DEF BeginInvite, AdminPcs
<1>3. ASSUME NEW v \in Users, NEW r \in Roles, BeginAssign(p, u, t, v, r)
      PROVE  req'[q] = req[q] \/ BegunAdmin(q)
  BY <1>3, BeginAdminStep DEF BeginAssign, AdminPcs
<1>4. IsTenantAdmin(t, u) => members[t][u].role \in Roles
  BY MemberIsRow DEF IsTenantAdmin, IsMember, Member
<1>5. ASSUME NEW v \in Users, BeginRemove(p, u, t, v)
      PROVE  req'[q] = req[q] \/ BegunAdmin(q)
  BY <1>4, <1>5, BeginAdminStep DEF BeginRemove, BeginAdmin, AdminPcs
<1>6. BeginActivate(p, u, t) => req'[q] = req[q] \/ BegunAdmin(q)
  BY <1>4, BeginAdminStep DEF BeginActivate, BeginAdmin, AdminPcs
<1>7. BeginDeactivate(p, u, t) => req'[q] = req[q] \/ BegunAdmin(q)
  BY <1>4, BeginAdminStep DEF BeginDeactivate, BeginAdmin, AdminPcs
<1>. QED
  BY <1>1, <1>2, <1>3, <1>5, <1>6, <1>7 DEF Begin

LEMMA RequestStep ==
  ASSUME TypeOK, [Next]_vars, NEW q \in Requests
  PROVE  \/ req'[q] = req[q] \/ req'[q] = Idle
         \/ BegunAdmin(q) \/ BegunAccept(q) \/ MarkedBy(q)
<1>1. ASSUME NEW p \in Requests, Finish(p)
      PROVE  req'[q] = req[q] \/ req'[q] = Idle
  BY <1>1 DEF Finish, TypeOK
<1>2. ASSUME NEW p \in Requests, MarkAccepted(p)
      PROVE  req'[q] = req[q] \/ MarkedBy(q)
  <2>1. CASE q # p
    BY <1>2, <2>1 DEF MarkAccepted, TypeOK
  <2>2. CASE q = p
    <3>1. req'[q] = [req[q] EXCEPT !.pc = "join"]
      BY <1>2, <2>2 DEF MarkAccepted, TypeOK
    <3>2. ASSUME NEW i \in InviteIds \ Unused, i = req[q].inv
          PROVE  IsClosed(i)'
      <4>. SUFFICES i \notin Unused' /\ (invites'[i].status # "open" \/ i \in lostMarks')
        BY DEF IsClosed
      <4>1. invites[i] \in Invite
        BY StoredIsInvite
      <4>2. CASE invites' = Marked(i)
        <5>1. invites[i].status = "open" => invites'[i] = [invites[i] EXCEPT !.status = "accepted"]
          BY <4>2 DEF Marked, TypeOK
        <5>2. invites[i].status # "open" => invites'[i] = invites[i]
          BY <4>2 DEF Marked
        <5>. QED
          BY <4>1, <5>1, <5>2 DEF Invite, Unused
      <4>3. CASE lostMarks' = lostMarks \cup {i} /\ UNCHANGED invites
        BY <4>3 DEF Unused
      <4>. QED
        BY <1>2, <2>2, <3>2, <4>2, <4>3 DEF MarkAccepted
    <3>. QED
      BY <1>2, <2>2, <3>1, <3>2 DEF MarkAccepted, MarkedBy
  <2>. QED
    BY <2>1, <2>2
<1>3. ASSUME NEW p \in Requests, Advance(p), ~MarkAccepted(p)
      PROVE  Finish(p)
  BY <1>3 DEF Advance, CreateInvitation, UpdateMemberRole, RemoveMember, SetActive, AddMember
<1>4. ASSUME \/ \E v \in Users : DeleteUser(v) \/ RestoreUser(v)
             \/ Tick
             \/ UNCHANGED vars
      PROVE  req' = req
  BY <1>4 DEF DeleteUser, RestoreUser, Tick, vars
<1>5. ASSUME NEW p \in Requests, NEW u \in Users, NEW t \in Tenants, Begin(p, u, t)
      PROVE  req'[q] = req[q] \/ BegunAdmin(q) \/ BegunAccept(q)
  BY <1>5, BeginStep
<1>. QED
  BY <1>1, <1>2, <1>3, <1>4, <1>5 DEF Next, Abort

-----------------------------------------------------------------------------
\* Typing, from the effects on one row, one invitation and one slot.

LEMMA NewMemberIsMember ==
  ASSUME NEW r \in Roles, NEW i \in InviteIds \cup {0}, NEW q \in Requests \cup {0}
  PROVE  NewMember(r, i, q) \in Member
BY DEF NewMember, Member

LEMMA MemberTyping ==
  ASSUME TypeOK, [Next]_vars, NEW t \in Tenants, NEW u \in Users
  PROVE  members'[t][u] \in Member \cup {NoMember}
<1>1. CASE members'[t][u] = members[t][u]
  BY <1>1, MemberIsRow
<1>2. ASSUME NEW q \in Requests, AssignedBy(q, t, u)
      PROVE  members'[t][u] \in Member
  BY <1>2, MemberIsRow, BusyByPc DEF AssignedBy, IsMember, Member, Busy, AdminPcs
<1>3. ASSUME NEW q \in Requests, RemovedBy(q, t, u)
      PROVE  members'[t][u] \in Member
  BY <1>3, MemberIsRow DEF RemovedBy, IsMember, Member
<1>4. ASSUME NEW q \in Requests, AddedBy(q, t, u)
      PROVE  members'[t][u] \in Member
  BY <1>4, BusyByPc, NewMemberIsMember DEF AddedBy, Busy, JoinPcs
<1>. QED
  BY <1>1, <1>2, <1>3, <1>4, MemberStep DEF DeletedWith

LEMMA InviteTyping ==
  ASSUME TypeOK, [Next]_vars, NEW i \in InviteIds
  PROVE  invites'[i] \in Invite \cup {NoInvite}
<1>1. CASE invites'[i] = invites[i]
  BY <1>1 DEF TypeOK
<1>2. ASSUME NEW q \in Requests, CreatedBy(q, i)
      PROVE  invites'[i] \in Invite
  <2>1. req[q] \in Busy
    BY <1>2, BusyByPc DEF CreatedBy, AdminPcs
  <2>2. now + InviteTTL \in Nat
    BY BoundsAreNat DEF TypeOK
  <2>. QED
    BY <1>2, <2>1, <2>2 DEF CreatedBy, NewInvite, Invite, Busy
<1>3. ASSUME ClosedNow(i)
      PROVE  invites'[i] \in Invite
  BY <1>3, StoredIsInvite DEF ClosedNow, Invite
<1>. QED
  BY <1>1, <1>2, <1>3, InviteStep

LEMMA RequestTyping ==
  ASSUME TypeOK, [Next]_vars, NEW q \in Requests
  PROVE  req'[q] \in Busy \cup {Idle}
<1>1. MarkedBy(q) => req'[q] \in Busy
  BY BusyByPc DEF MarkedBy, AdminPcs, JoinPcs, Busy
<1>. QED
  BY <1>1, RequestStep DEF BegunAdmin, BegunAccept, TypeOK

\* A table stays a table of rows when one of its rows is replaced by a row.
LEMMA ReplaceRow ==
  ASSUME TypeOK, NEW t \in Tenants, NEW u \in Users, NEW m \in Member
  PROVE  [members EXCEPT ![t][u] = m] \in [Tenants -> [Users -> Member \cup {NoMember}]]
<1>1. [members[t] EXCEPT ![u] = m] \in [Users -> Member \cup {NoMember}]
  BY DEF TypeOK
<1>. QED
  BY <1>1 DEF TypeOK

LEMMA MembersTyping ==
  ASSUME TypeOK, [Next]_vars
  PROVE  members' \in [Tenants -> [Users -> Member \cup {NoMember}]]
<1>1. CASE members' = members
  BY <1>1 DEF TypeOK
<1>2. ASSUME NEW q \in Requests, UpdateMemberRole(q)
      PROVE  members' \in [Tenants -> [Users -> Member \cup {NoMember}]]
  <2>1. req[q] \in Busy
    BY <1>2, BusyByPc DEF UpdateMemberRole, AdminPcs
  <2>2. CASE IsMember(req[q].tenant, req[q].user)
    <3>1. members' = [members EXCEPT ![req[q].tenant][req[q].user] =
                        [members[req[q].tenant][req[q].user] EXCEPT !.role = req[q].role, !.assigned = TRUE]]
      BY <1>2, <2>2 DEF UpdateMemberRole, AfterAssign
    <3>. DEFINE m == members[req[q].tenant][req[q].user]
    <3>2. [m EXCEPT !.role = req[q].role, !.assigned = TRUE] \in Member
      <4>1. m \in Member /\ req[q].role \in Roles
        BY <2>1, <2>2, MemberIsRow DEF IsMember, Busy
      <4>. QED
        BY <4>1 DEF Member
    <3>. QED
      BY <2>1, <3>1, <3>2, ReplaceRow DEF Busy
  <2>. QED
    BY <1>1, <1>2, <2>2 DEF UpdateMemberRole, AfterAssign
<1>3. ASSUME NEW q \in Requests, RemoveMember(q)
      PROVE  members' \in [Tenants -> [Users -> Member \cup {NoMember}]]
  <2>1. req[q] \in Busy
    BY <1>3, BusyByPc DEF RemoveMember, AdminPcs
  <2>2. CASE IsMember(req[q].tenant, req[q].user)
    <3>1. members' = [members EXCEPT ![req[q].tenant][req[q].user] =
                        [members[req[q].tenant][req[q].user] EXCEPT !.status = "removed"]]
      BY <1>3, <2>2 DEF RemoveMember, AfterRemove
    <3>. DEFINE m == members[req[q].tenant][req[q].user]
    <3>2. [m EXCEPT !.status = "removed"] \in Member
      <4>1. m \in Member
        BY <2>1, <2>2, MemberIsRow DEF IsMember, Busy
      <4>. QED
        BY <4>1 DEF Member
    <3>. QED
      BY <2>1, <3>1, <3>2, ReplaceRow DEF Busy
  <2>. QED
    BY <1>1, <1>3, <2>2 DEF RemoveMember, AfterRemove
<1>4. ASSUME NEW q \in Requests, AddMember(q)
      PROVE  members' \in [Tenants -> [Users -> Member \cup {NoMember}]]
  <2>1. req[q] \in Busy
    BY <1>4, BusyByPc DEF AddMember, JoinPcs
  <2>2. NewMember(req[q].role, req[q].inv, q) \in Member
    BY <2>1, NewMemberIsMember DEF Busy
  <2>3. [members EXCEPT ![req[q].tenant][req[q].user] = NewMember(req[q].role, req[q].inv, q)]
          \in [Tenants -> [Users -> Member \cup {NoMember}]]
    BY <2>1, <2>2, ReplaceRow DEF Busy
  <2>. QED
    BY <1>1, <1>4, <2>3 DEF AddMember
<1>5. ASSUME NEW v \in Users, DeleteUser(v)
      PROVE  members' \in [Tenants -> [Users -> Member \cup {NoMember}]]
  BY <1>5 DEF DeleteUser, TypeOK
<1>6. ASSUME NEW q \in Requests, NEW v \in Users, NEW s \in Tenants, Begin(q, v, s)
      PROVE  members' = members
  BY <1>6 DEF Begin, BeginInvite, BeginAssign, BeginRemove, BeginActivate, BeginDeactivate,
              BeginAdmin, BeginAccept
<1>. QED
  BY <1>1, <1>2, <1>3, <1>4, <1>5, <1>6
  DEF Next, Advance, CreateInvitation, SetActive, MarkAccepted, Abort, RestoreUser, Tick, vars

LEMMA TypingStep ==
  ASSUME TypeOK, [Next]_vars
  PROVE  TypeOK'
<1>1. ASSUME NEW q \in Requests, NEW v \in Users, NEW s \in Tenants, Begin(q, v, s)
      PROVE  /\ UNCHANGED <<now, users, tenants, invites, lostMarks>>
             /\ req' = [p \in Requests |-> req'[p]]
  <2>1. ASSUME NEW i \in InviteIds, BeginAccept(q, v, s, i)
        PROVE  /\ UNCHANGED <<now, users, tenants, invites, lostMarks>>
               /\ req' = [p \in Requests |-> req'[p]]
    BY <2>1 DEF BeginAccept, TypeOK
  <2>2. ASSUME NEW pc, NEW w, NEW r, BeginAdmin(q, pc, v, s, w, r)
        PROVE  /\ UNCHANGED <<now, users, tenants, invites, lostMarks>>
               /\ req' = [p \in Requests |-> req'[p]]
    BY <2>2 DEF BeginAdmin, TypeOK
  <2>. QED
    BY <1>1, <2>1, <2>2
    DEF Begin, BeginInvite, BeginAssign, BeginRemove, BeginActivate, BeginDeactivate
<1>2. now' \in Nat
  <2>1. Tick => now' \in Nat
    BY DEF Tick, TypeOK
  <2>2. ~Tick => now' = now
    BY <1>1 DEF Next, Advance, CreateInvitation, UpdateMemberRole, RemoveMember, SetActive,
                MarkAccepted, AddMember, Abort, DeleteUser, RestoreUser, vars
  <2>. QED
    BY <2>1, <2>2 DEF TypeOK
<1>3. users' \subseteq Users
  BY <1>1 DEF TypeOK, Next, Advance, CreateInvitation, UpdateMemberRole, RemoveMember, SetActive,
              MarkAccepted, AddMember, Abort, DeleteUser, RestoreUser, Tick, vars
<1>4. tenants' \in [Tenants -> {"active", "inactive", "deleted"}]
  BY <1>1 DEF TypeOK, Next, Advance, CreateInvitation, UpdateMemberRole, RemoveMember, SetActive,
              MarkAccepted, AddMember, Abort, DeleteUser, RestoreUser, Tick, vars
<1>5. invites' \in [InviteIds -> Invite \cup {NoInvite}]
  <2>1. invites' = [i \in InviteIds |-> invites'[i]]
    BY <1>1 DEF TypeOK, Next, Advance, CreateInvitation, UpdateMemberRole, RemoveMember, SetActive,
                MarkAccepted, Marked, AddMember, Abort, DeleteUser, RestoreUser, Tick, vars
  <2>. QED
    BY <2>1, InviteTyping
<1>6. req' \in [Requests -> Busy \cup {Idle}]
  <2>1. req' = [q \in Requests |-> req'[q]]
    BY <1>1 DEF TypeOK, Next, Advance, CreateInvitation, UpdateMemberRole, RemoveMember, SetActive,
                MarkAccepted, AddMember, Abort, DeleteUser, RestoreUser, Tick, vars, Finish
  <2>. QED
    BY <2>1, RequestTyping
<1>7. lostMarks' \subseteq InviteIds
  <2>1. ASSUME NEW q \in Requests, MarkAccepted(q)
        PROVE  lostMarks' \subseteq InviteIds
    BY <2>1, BusyByPc DEF MarkAccepted, TypeOK, Busy, AdminPcs, JoinPcs
  <2>. QED
    BY <1>1, <2>1
    DEF TypeOK, Next, Advance, CreateInvitation, UpdateMemberRole, RemoveMember, SetActive,
        AddMember, Abort, DeleteUser, RestoreUser, Tick, vars
<1>. QED
  BY <1>2, <1>3, <1>4, <1>5, <1>6, <1>7, MembersTyping DEF TypeOK

-----------------------------------------------------------------------------
\* A slot that joins by an invitation after a step did so before it, or began in
\* a step that left the tables alone.
LEMMA JoinUnderWay ==
  ASSUME TypeOK, [Next]_vars, NEW q \in Requests, req'[q].pc \in JoinPcs
  PROVE  \/ /\ req[q].pc \in JoinPcs
            /\ req'[q].inv = req[q].inv
            /\ req'[q].tenant = req[q].tenant
            /\ req'[q].role = req[q].role
            /\ req'[q].pc = req[q].pc \/ MarkedBy(q)
         \/ BegunAccept(q)
BY RequestStep, BusyByPc DEF MarkedBy, BegunAdmin, JoinPcs, AdminPcs, Idle, TypeOK, Busy

LEMMA JoinIsInvitedStep ==
  ASSUME TypeOK, JoinIsInvited, [Next]_vars
  PROVE  JoinIsInvited'
<1>. SUFFICES ASSUME NEW q \in Requests, req'[q].pc \in JoinPcs
              PROVE  /\ req'[q].inv \in InviteIds \ Unused'
                     /\ invites'[req'[q].inv].tenant = req'[q].tenant
                     /\ invites'[req'[q].inv].role = req'[q].role
  BY DEF JoinIsInvited
<1>1. CASE BegunAccept(q)
  BY <1>1 DEF BegunAccept, Quiet, Acceptable, Unused
<1>2. CASE ~BegunAccept(q)
  BY <1>2, JoinUnderWay, InviteKept DEF JoinIsInvited, Unused
<1>. QED
  BY <1>1, <1>2

\* Who joined through an invitation after a step did so before it, or joins now.
LEMMA JoinedByStep ==
  ASSUME TypeOK, [Next]_vars, NEW t \in Tenants, NEW u \in Users, NEW i \in JoinedBy(t, u)'
  PROVE  \/ i \in JoinedBy(t, u) /\ members'[t][u].by = members[t][u].by
         \/ \E q \in Requests : AddedBy(q, t, u) /\ i = req[q].inv /\ members'[t][u].by = q
<1>1. CASE members'[t][u] = members[t][u]
  BY <1>1 DEF JoinedBy
<1>2. ASSUME NEW q \in Requests, AssignedBy(q, t, u) \/ RemovedBy(q, t, u)
      PROVE  i \in JoinedBy(t, u) /\ members'[t][u].by = members[t][u].by
  <2>1. members[t][u] \in Member /\ members[t][u] # NoMember
    BY <1>2, MemberIsRow DEF AssignedBy, RemovedBy, IsMember
  <2>2. members'[t][u].via = members[t][u].via /\ members'[t][u].by = members[t][u].by
    BY <1>2, <2>1 DEF AssignedBy, RemovedBy, Member
  <2>. QED
    BY <2>1, <2>2 DEF JoinedBy
<1>3. ASSUME NEW q \in Requests, AddedBy(q, t, u)
      PROVE  i = req[q].inv /\ members'[t][u].by = q
  BY <1>3 DEF AddedBy, NewMember, JoinedBy
<1>4. ASSUME NEW v \in Users, DeletedWith(v, t, u)
      PROVE  FALSE
  BY <1>4 DEF DeletedWith, JoinedBy
<1>. QED
  BY <1>1, <1>2, <1>3, <1>4, MemberStep

LEMMA JoinedByInvite ==
  ASSUME TypeOK, NEW t \in Tenants, NEW u \in Users, NEW i \in JoinedBy(t, u)
  PROVE  i \in InviteIds /\ i = members[t][u].via /\ members[t][u] \in Member
BY MemberIsRow DEF JoinedBy, Member

LEMMA ClosedStays ==
  ASSUME TypeOK, [Next]_vars, NEW i \in InviteIds, IsClosed(i)
  PROVE  IsClosed(i)'
BY InviteKept DEF IsClosed

LEMMA JoinIsMarkedStep ==
  ASSUME TypeOK, JoinIsInvited, JoinIsMarked, [Next]_vars
  PROVE  JoinIsMarked'
<1>1. ASSUME NEW q \in Requests, req'[q].pc = "join"
      PROVE  IsClosed(req[q].inv)' /\ req'[q].inv = req[q].inv
  <2>1. req[q].pc \in JoinPcs /\ req'[q].inv = req[q].inv /\ (req[q].pc = "join" \/ MarkedBy(q))
    BY <1>1, JoinUnderWay DEF BegunAccept, JoinPcs
  <2>2. req[q].inv \in InviteIds \ Unused
    BY <2>1 DEF JoinIsInvited
  <2>. QED
    BY <2>1, <2>2, ClosedStays DEF MarkedBy, JoinIsMarked
<1>2. ASSUME NEW t \in Tenants, NEW u \in Users, NEW i \in JoinedBy(t, u)'
      PROVE  IsClosed(i)'
  <2>1. CASE i \in JoinedBy(t, u)
    BY <2>1, JoinedByInvite, ClosedStays DEF JoinIsMarked
  <2>2. ASSUME NEW q \in Requests, AddedBy(q, t, u), i = req[q].inv
        PROVE  IsClosed(i)'
    BY <2>2, ClosedStays DEF AddedBy, JoinIsMarked, JoinIsInvited, JoinPcs
  <2>. QED
    BY <2>1, <2>2, JoinedByStep
<1>. QED
  BY <1>1, <1>2 DEF JoinIsMarked

\* A slot that begins to join by an invitation found it open; what was joined by
\* it before was joined without the mark.
LEMMA JoinsOnceStep ==
  ASSUME TypeOK, JoinIsInvited, JoinIsMarked, JoinsOnce, [Next]_vars
  PROVE  JoinsOnce'
<1>. SUFFICES ASSUME NEW q \in Requests, NEW t \in Tenants, NEW u \in Users,
                     req'[q].pc \in JoinPcs,
                     NEW i \in JoinedBy(t, u)', i = req'[q].inv, members'[t][u].by = q
              PROVE  i \in lostMarks'
  BY DEF JoinsOnce
<1>1. CASE BegunAccept(q)
  <2>1. i \in JoinedBy(t, u) /\ i \in InviteIds /\ invites[i].status = "open"
    BY <1>1 DEF BegunAccept, Quiet, JoinedBy, Acceptable
  <2>2. IsClosed(i)
    BY <2>1 DEF JoinIsMarked
  <2>. QED
    BY <1>1, <2>1, <2>2 DEF IsClosed, BegunAccept, Quiet
<1>2. CASE ~BegunAccept(q)
  <2>1. req[q].pc \in JoinPcs /\ i = req[q].inv /\ req'[q] # Idle
    BY <1>2, JoinUnderWay DEF JoinPcs, Idle
  <2>2. CASE i \in JoinedBy(t, u) /\ members'[t][u].by = members[t][u].by
    BY <2>1, <2>2, LostMarksStep, JoinedByInvite DEF JoinsOnce
  <2>3. ASSUME NEW p \in Requests, AddedBy(p, t, u), members'[t][u].by = p
        PROVE  FALSE
    <3>1. p = q /\ req'[p] = Idle
      BY <2>3 DEF AddedBy, Finish, TypeOK
    <3>. QED
      BY <2>1, <3>1
  <2>. QED
    BY <2>2, <2>3, JoinedByStep
<1>. QED
  BY <1>1, <1>2

LEMMA OneJoinStep ==
  ASSUME TypeOK, JoinIsInvited, JoinIsMarked, JoinsOnce, OneJoinPerSlot, [Next]_vars
  PROVE  OneJoinPerSlot'
<1>. SUFFICES ASSUME NEW t \in Tenants, NEW u \in Users, NEW v \in Users, u # v,
                     JoinedBy(t, u)' \ lostMarks' # {}, JoinedBy(t, u)' = JoinedBy(t, v)',
                     members'[t][u].by = members'[t][v].by
              PROVE  FALSE
  BY DEF OneJoinPerSlot
<1>1. PICK i \in JoinedBy(t, u)' : i \notin lostMarks'
  OBVIOUS
<1>2. i \in JoinedBy(t, v)' /\ i \notin lostMarks
  BY <1>1, LostMarksStep
<1>3. ASSUME NEW w \in {u, v}, NEW x \in {u, v}, w # x,
             NEW q \in Requests, AddedBy(q, t, w), i = req[q].inv, members'[t][w].by = q
      PROVE  FALSE
  <2>1. members'[t][x] = members[t][x]
    BY <1>3 DEF AddedBy
  <2>2. i \in JoinedBy(t, x) /\ members[t][x].by = q
    BY <1>1, <1>2, <1>3, <2>1 DEF JoinedBy
  <2>. QED
    BY <1>2, <1>3, <2>2 DEF JoinsOnce, AddedBy, JoinPcs
<1>4. CASE /\ i \in JoinedBy(t, u) /\ members'[t][u].by = members[t][u].by
           /\ i \in JoinedBy(t, v) /\ members'[t][v].by = members[t][v].by
  <2>1. JoinedBy(t, u) = {i} /\ JoinedBy(t, v) = {i}
    BY <1>4 DEF JoinedBy
  <2>. QED
    BY <1>2, <1>4, <2>1 DEF OneJoinPerSlot
<1>. QED
  BY <1>1, <1>2, <1>3, <1>4, JoinedByStep

\* The row of an active member has the role its invitation or an admin gave it.
LEMMA InvitedStep ==
  ASSUME TypeOK, JoinIsInvited, JoinIsMarked, MembersWereInvited, [Next]_vars
  PROVE  MembersWereInvited'
<1>. DEFINE Invited(t, m) == m.via # 0 /\ invites[m.via].tenant = t
                                     /\ (m.role = invites[m.via].role \/ m.assigned)
            Owns(t, u, m) == m.via = 0 /\ u = Owner[t] /\ (m.role \in AdminRoles \/ m.assigned)
<1>. SUFFICES ASSUME NEW t \in Tenants, NEW u \in Users, IsMember(t, u)'
              PROVE  Invited(t, members[t][u])' \/ Owns(t, u, members[t][u])'
  BY DEF MembersWereInvited
<1>1. ASSUME NEW i \in InviteIds, i \notin Unused
      PROVE  invites'[i].tenant = invites[i].tenant /\ invites'[i].role = invites[i].role
  BY <1>1, InviteKept
<1>2. ASSUME IsMember(t, u)
      PROVE  /\ members[t][u] \in Member
             /\ members[t][u].via # 0 => members[t][u].via \in InviteIds \ Unused
             /\ Invited(t, members[t][u]) \/ Owns(t, u, members[t][u])
  <2>1. members[t][u] \in Member
    BY <1>2, MemberIsRow DEF IsMember
  <2>2. members[t][u].via # 0 => members[t][u].via \in JoinedBy(t, u)
    BY <1>2 DEF JoinedBy, IsMember, NoMember
  <2>. QED
    BY <1>2, <2>1, <2>2 DEF MembersWereInvited, JoinIsMarked, IsClosed, Member
<1>3. CASE members'[t][u] = members[t][u]
  <2>1. IsMember(t, u)
    BY <1>3 DEF IsMember
  <2>. QED
    BY <1>1, <1>2, <1>3, <2>1
<1>4. ASSUME NEW q \in Requests, AssignedBy(q, t, u)
      PROVE  Invited(t, members[t][u])' \/ Owns(t, u, members[t][u])'
  <2>1. /\ members'[t][u].via = members[t][u].via
        /\ members'[t][u].assigned
    BY <1>2, <1>4 DEF AssignedBy, Member
  <2>. QED
    BY <1>1, <1>2, <1>4, <2>1 DEF AssignedBy
<1>5. ASSUME NEW q \in Requests, RemovedBy(q, t, u)
      PROVE  FALSE
  BY <1>2, <1>5 DEF RemovedBy, IsMember, Member
<1>6. ASSUME NEW q \in Requests, AddedBy(q, t, u)
      PROVE  Invited(t, members[t][u])'
  <2>1. req[q].inv \in InviteIds \ Unused /\ invites[req[q].inv].tenant = t
          /\ invites[req[q].inv].role = req[q].role
    BY <1>6 DEF AddedBy, JoinIsInvited, JoinPcs
  <2>2. members'[t][u].via = req[q].inv /\ members'[t][u].role = req[q].role
    BY <1>6 DEF AddedBy, NewMember
  <2>3. req[q].inv # 0
    BY <2>1, BoundsAreNat DEF InviteIds
  <2>. QED
    BY <1>1, <2>1, <2>2, <2>3
<1>7. ASSUME NEW v \in Users, DeletedWith(v, t, u)
      PROVE  FALSE
  BY <1>7 DEF DeletedWith, IsMember, NoMember
<1>. QED
  BY <1>3, <1>4, <1>5, <1>6, <1>7, MemberStep

LEMMA ClockStep ==
  ASSUME TypeOK, [Next]_vars
  PROVE  now' \in Nat /\ now <= now'
<1>1. ASSUME NEW q \in Requests, NEW v \in Users, NEW s \in Tenants, Begin(q, v, s)
      PROVE  now' = now
  BY <1>1 DEF Begin, BeginInvite, BeginAssign, BeginRemove, BeginActivate, BeginDeactivate,
              BeginAdmin, BeginAccept
<1>2. Tick => now' \in Nat /\ now <= now'
  BY DEF Tick, TypeOK
<1>3. ~Tick => now' = now
  BY <1>1 DEF Next, Advance, CreateInvitation, UpdateMemberRole, RemoveMember, SetActive,
              MarkAccepted, AddMember, Abort, DeleteUser, RestoreUser, vars
<1>. QED
  BY <1>2, <1>3 DEF TypeOK

\* Only a deletion takes users or tenants away, and nothing brings a tenant back.
LEMMA PopulationStep ==
  ASSUME TypeOK, [Next]_vars
  PROVE  \/ /\ users \subseteq users'
            /\ \A t \in Tenants : TenantExists(t)' = TenantExists(t)
         \/ \E v \in Users : DeleteUser(v)
<1>1. ASSUME NEW q \in Requests, NEW v \in Users, NEW s \in Tenants, Begin(q, v, s)
      PROVE  UNCHANGED <<users, tenants>>
  BY <1>1 DEF Begin, BeginInvite, BeginAssign, BeginRemove, BeginActivate, BeginDeactivate,
              BeginAdmin, BeginAccept
<1>2. ASSUME NEW q \in Requests, SetActive(q)
      PROVE  users' = users /\ \A t \in Tenants : TenantExists(t)' = TenantExists(t)
  BY <1>2 DEF SetActive, TenantExists, TypeOK
<1>3. ASSUME NEW q \in Requests,
             \/ CreateInvitation(q) \/ UpdateMemberRole(q) \/ RemoveMember(q)
             \/ MarkAccepted(q) \/ AddMember(q) \/ Abort(q)
      PROVE  UNCHANGED <<users, tenants>>
  BY <1>3 DEF CreateInvitation, UpdateMemberRole, RemoveMember, MarkAccepted, AddMember, Abort
<1>4. ASSUME \/ \E v \in Users : RestoreUser(v)
             \/ Tick
             \/ UNCHANGED vars
      PROVE  users \subseteq users' /\ tenants' = tenants
  BY <1>4 DEF RestoreUser, Tick, vars
<1>5. tenants' = tenants => \A t \in Tenants : TenantExists(t)' = TenantExists(t)
  BY DEF TenantExists
<1>. QED
  BY <1>1, <1>2, <1>3, <1>4, <1>5 DEF Next, Advance

LEMMA ParentsStep ==
  ASSUME TypeOK, NothingOutlivesItsParent, [Next]_vars
  PROVE  NothingOutlivesItsParent'
<1>1. ASSUME NEW v \in Users, DeleteUser(v)
      PROVE  NothingOutlivesItsParent'
  <2>1. \A t \in Tenants : TenantExists(t)' => TenantExists(t) /\ Owner[t] # v
    BY <1>1 DEF DeleteUser, TenantExists
  <2>2. ASSUME NEW t \in Tenants, NEW u \in Users, members'[t][u] # NoMember
        PROVE  TenantExists(t)' /\ u \in users'
    BY <1>1, <2>2 DEF DeleteUser, NothingOutlivesItsParent, TenantExists
  <2>3. ASSUME NEW i \in InviteIds, invites'[i].status \in {"open", "accepted"}
        PROVE  TenantExists(invites[i].tenant)' /\ invites'[i] = invites[i]
    <3>1. i \notin Unused
      BY <1>1, <2>3 DEF DeleteUser, Unused
    <3>2. invites[i] \in Invite
      BY <3>1, StoredIsInvite
    <3>. QED
      BY <1>1, <2>3, <3>1, <3>2 DEF DeleteUser, NothingOutlivesItsParent, TenantExists, Invite
  <2>4. \A i \in InviteIds : invites'[i].status \in {"open", "accepted"} =>
          tenants'[invites'[i].tenant] # "deleted"
    BY <2>3 DEF TenantExists
  <2>. QED
    BY <1>1, <2>1, <2>2, <2>4 DEF NothingOutlivesItsParent, DeleteUser, TenantExists
<1>2. ASSUME users \subseteq users', \A t \in Tenants : TenantExists(t)' = TenantExists(t),
             \A v \in Users : ~DeleteUser(v)
      PROVE  NothingOutlivesItsParent'
  <2>1. ASSUME NEW t \in Tenants, NEW u \in Users, members'[t][u] # NoMember
        PROVE  TenantExists(t) /\ u \in users
    <3>1. members[t][u] # NoMember => TenantExists(t) /\ u \in users
      BY DEF NothingOutlivesItsParent
    <3>2. ASSUME NEW q \in Requests, AssignedBy(q, t, u) \/ RemovedBy(q, t, u)
          PROVE  members[t][u] # NoMember
      BY <3>2 DEF AssignedBy, RemovedBy, IsMember, NoMember
    <3>3. ASSUME NEW q \in Requests, AddedBy(q, t, u)
          PROVE  TenantExists(t) /\ u \in users
      BY <3>3 DEF AddedBy, MayInsert
    <3>. QED
      BY <2>1, <3>1, <3>2, <3>3, MemberStep DEF DeletedWith
  <2>2. ASSUME NEW i \in InviteIds, invites'[i].status \in {"open", "accepted"}
        PROVE  invites'[i].tenant \in Tenants /\ TenantExists(invites'[i].tenant)
    <3>1. CASE invites'[i] = invites[i]
      <4>1. invites[i] \in Invite
        BY <2>2, <3>1, StoredIsInvite DEF Unused
      <4>. QED
        BY <2>2, <3>1, <4>1 DEF NothingOutlivesItsParent, Invite
    <3>2. ASSUME NEW q \in Requests, CreatedBy(q, i)
          PROVE  invites'[i].tenant \in Tenants /\ TenantExists(invites'[i].tenant)
      BY <3>2, BusyByPc DEF CreatedBy, NewInvite, Busy, AdminPcs
    <3>3. ASSUME ClosedNow(i)
          PROVE  invites'[i].tenant \in Tenants /\ TenantExists(invites'[i].tenant)
      <4>1. invites[i] \in Invite
        BY <3>3, StoredIsInvite DEF ClosedNow
      <4>. QED
        BY <2>2, <3>3, <4>1 DEF ClosedNow, NothingOutlivesItsParent, Invite
    <3>. QED
      BY <2>2, <3>1, <3>2, <3>3, InviteStep
  <2>3. \A i \in InviteIds : invites'[i].status \in {"open", "accepted"} =>
          tenants'[invites'[i].tenant] # "deleted"
    BY <1>2, <2>2 DEF TenantExists
  <2>. QED
    BY <1>2, <2>1, <2>3 DEF NothingOutlivesItsParent, TenantExists
<1>. QED
  BY <1>1, <1>2, PopulationStep

-----------------------------------------------------------------------------
\* The inductive invariant: typing, the safety properties, and what the handlers
\* of acceptInvitation have to do with the invitations they read.
AllInv ==
  /\ TypeOK
  /\ IndInv
  /\ MembersWereInvited
  /\ OneJoinPerSlot
  /\ NothingOutlivesItsParent

THEOREM Safety == Spec => []AllInv
<1>1. Init => AllInv
  <2>. SUFFICES ASSUME Init PROVE AllInv
    OBVIOUS
  <2>1. PICK r \in AdminRoles :
          members = [t \in Tenants |-> [u \in Users |->
                       IF u = Owner[t] THEN NewMember(r, 0, 0) ELSE NoMember]]
    BY DEF Init
  <2>2. r \in Roles /\ NewMember(r, 0, 0) \in Member
    BY AdminRolesAreRoles, NewMemberIsMember
  <2>3. Unused = InviteIds /\ \A q \in Requests : req[q].pc = "idle"
    BY DEF Init, Unused, NoInvite, Idle
  <2>4. \A t \in Tenants, u \in Users :
          /\ JoinedBy(t, u) = {}
          /\ IsMember(t, u) => u = Owner[t] /\ members[t][u] = NewMember(r, 0, 0)
    BY <2>1 DEF JoinedBy, IsMember, NoMember, NewMember
  <2>5. TypeOK
    BY <2>1, <2>2 DEF Init, TypeOK
  <2>6. IndInv
    BY <2>3, <2>4 DEF IndInv, JoinIsInvited, JoinIsMarked, JoinsOnce, JoinPcs
  <2>7. MembersWereInvited
    BY <2>4 DEF MembersWereInvited, NewMember
  <2>8. OneJoinPerSlot
    BY <2>4 DEF OneJoinPerSlot
  <2>9. NothingOutlivesItsParent
    <3>1. \A t \in Tenants : TenantExists(t) /\ Owner[t] \in users
      BY TenantsAreOwned DEF Init, TenantExists
    <3>2. \A i \in InviteIds : invites[i].status = "unused"
      BY DEF Init, NoInvite
    <3>. QED
      BY <3>1, <3>2 DEF NothingOutlivesItsParent, Init
  <2>. QED
    BY <2>5, <2>6, <2>7, <2>8, <2>9 DEF AllInv
<1>2. AllInv /\ [Next]_vars => AllInv'
  BY TypingStep, JoinIsInvitedStep, JoinIsMarkedStep, JoinsOnceStep, InvitedStep, OneJoinStep,
     ParentsStep
  DEF AllInv, IndInv
<1>. QED
  BY <1>1, <1>2, PTL DEF Spec

-----------------------------------------------------------------------------
\* Every variable keeps the shape its declaration says.
THEOREM TypeCorrect == Spec => []TypeOK
BY Safety, PTL DEF AllInv

\* A handler that is joining a user stays bound to the invitation it read.
THEOREM JoinsAreBound == Spec => []IndInv
BY Safety, PTL DEF AllInv

\* Nobody is a member, or has a role, that no admin of the tenant gave.
THEOREM MembershipIsGiven == Spec => []MembersWereInvited
BY Safety, PTL DEF AllInv

\* One invitation joins at most as many users as there are handlers at a time,
\* unless the database failed to mark it.
THEOREM JoinsAreBounded == Spec => []OneJoinPerSlot
BY Safety, PTL DEF AllInv

\* Who joined the tenant t by the invitation i.
JoinersOf(t, i) == {u \in Users : i \in JoinedBy(t, u)}

\* An invitation that the database did mark brings in no more users than there can be
\* requests at one time, however many present it.
JoinersAreFew ==
  \A t \in Tenants, i \in InviteIds \ lostMarks :
    Cardinality(JoinersOf(t, i)) <= Cardinality(Requests)

\* Who joined by an invitation was added by a request.
JoinersHaveSlots ==
  \A t \in Tenants, u \in Users : JoinedBy(t, u) # {} => members[t][u].by \in Requests

\* The bound of OneJoinPerSlot as a number (acceptInvitation checks and marks apart).
THEOREM JoinsAreCounted ==
  ASSUME IsFiniteSet(Requests)
  PROVE  Spec => []JoinersAreFew
<1>1. Init => JoinersHaveSlots
  <2>. SUFFICES ASSUME Init, NEW t \in Tenants, NEW u \in Users
                PROVE  JoinedBy(t, u) = {}
    BY DEF JoinersHaveSlots
  <2>1. PICK r \in AdminRoles : members[t][u] \in {NewMember(r, 0, 0), NoMember}
    BY DEF Init
  <2>. QED
    BY <2>1 DEF JoinedBy, NewMember
<1>2. AllInv /\ JoinersHaveSlots /\ [Next]_vars => JoinersHaveSlots'
  <2>. SUFFICES ASSUME AllInv, JoinersHaveSlots, [Next]_vars,
                       NEW t \in Tenants, NEW u \in Users, NEW i \in JoinedBy(t, u)'
                PROVE  members'[t][u].by \in Requests
    BY DEF JoinersHaveSlots
  <2>. QED
    BY JoinedByStep DEF AllInv, JoinersHaveSlots
<1>3. AllInv /\ JoinersHaveSlots => JoinersAreFew
  <2>. SUFFICES ASSUME AllInv, JoinersHaveSlots, NEW t \in Tenants, NEW i \in InviteIds \ lostMarks
                PROVE  Cardinality(JoinersOf(t, i)) <= Cardinality(Requests)
    BY DEF JoinersAreFew
  <2>. DEFINE slotOf == [u \in JoinersOf(t, i) |-> members[t][u].by]
  <2>1. \A u \in JoinersOf(t, i) : u \in Users /\ members[t][u].by \in Requests
    BY DEF JoinersOf, JoinersHaveSlots
  <2>2. \A u \in JoinersOf(t, i) : JoinedBy(t, u) = {i}
    BY DEF JoinersOf, JoinedBy
  <2>3. \A u, v \in JoinersOf(t, i) : members[t][u].by = members[t][v].by => u = v
    BY <2>1, <2>2 DEF AllInv, OneJoinPerSlot
  <2>4. slotOf \in Injection(JoinersOf(t, i), Requests)
    BY <2>1, <2>3, Fun_IsInj
  <2>. QED
    BY <2>4, FS_Injection
<1>. QED
  BY <1>1, <1>2, <1>3, Safety, PTL DEF Spec

\* No member, invitation or tenant outlives what it belongs to.
THEOREM NothingIsOrphaned == Spec => []NothingOutlivesItsParent
BY Safety, PTL DEF AllInv

\* A removed member stays removed.
THEOREM RemovedForGood == Spec => RemovalIsFinal
<1>1. TypeOK /\ [Next]_vars =>
        [\A t \in Tenants, u \in Users :
           members[t][u].status = "removed" =>
             members'[t][u] = members[t][u] \/ u \notin users' \/ tenants'[t] = "deleted"]_vars
  <2>. SUFFICES ASSUME TypeOK, [Next]_vars, NEW t \in Tenants, NEW u \in Users,
                       members[t][u].status = "removed"
                PROVE  members'[t][u] = members[t][u] \/ u \notin users' \/ tenants'[t] = "deleted"
    OBVIOUS
  <2>1. ASSUME NEW q \in Requests,
               AssignedBy(q, t, u) \/ RemovedBy(q, t, u) \/ AddedBy(q, t, u)
        PROVE  FALSE
    BY <2>1 DEF AssignedBy, RemovedBy, AddedBy, IsMember, MayInsert, NoMember
  <2>2. ASSUME NEW v \in Users, DeletedWith(v, t, u)
        PROVE  u \notin users' \/ tenants'[t] = "deleted"
    BY <2>2 DEF DeletedWith, DeleteUser
  <2>. QED
    BY <2>1, <2>2, MemberStep
<1>. QED
  BY <1>1, TypeCorrect, PTL DEF Spec, RemovalIsFinal

\* A tenant without any source of authority gets none.
THEOREM AuthorityIsGiven == Spec => NoSelfMadeAdmin
<1>1. AllInv /\ [Next]_vars =>
        [\A t \in Tenants : ~SourceOfAuthority(t) => ~SourceOfAuthority(t)']_vars
  <2>. SUFFICES ASSUME AllInv, [Next]_vars, NEW t \in Tenants, SourceOfAuthority(t)'
                PROVE  SourceOfAuthority(t)
    OBVIOUS
  <2>. TypeOK /\ JoinIsInvited
    BY DEF AllInv, IndInv
  <2>1. ASSUME NEW u \in Users, IsTenantAdmin(t, u)'
        PROVE  SourceOfAuthority(t)
    <3>1. CASE members'[t][u] = members[t][u]
      BY <2>1, <3>1 DEF IsTenantAdmin, IsMember, SourceOfAuthority
    <3>2. ASSUME NEW q \in Requests, AssignedBy(q, t, u) \/ RemovedBy(q, t, u)
          PROVE  SourceOfAuthority(t)
      BY <3>2 DEF AssignedBy, RemovedBy, AdminPcs, SourceOfAuthority
    <3>3. ASSUME NEW q \in Requests, AddedBy(q, t, u)
          PROVE  SourceOfAuthority(t)
      BY <2>1, <3>3 DEF AddedBy, NewMember, IsTenantAdmin, JoinPcs, SourceOfAuthority
    <3>4. ASSUME NEW v \in Users, DeletedWith(v, t, u)
          PROVE  FALSE
      BY <2>1, <3>4 DEF DeletedWith, IsTenantAdmin, IsMember, NoMember
    <3>. QED
      BY <3>1, <3>2, <3>3, <3>4, MemberStep
  <2>2. ASSUME NEW q \in Requests, req'[q].pc \in AdminPcs, req'[q].tenant = t
        PROVE  SourceOfAuthority(t)
    <3>1. req'[q] = req[q] \/ BegunAdmin(q)
      <4>1. MarkedBy(q) => req'[q].pc = "join"
        BY BusyByPc DEF MarkedBy, JoinPcs, Busy
      <4>. QED
        BY <2>2, <4>1, RequestStep DEF BegunAccept, Idle, AdminPcs
    <3>2. BegunAdmin(q) => \E u \in Users : IsTenantAdmin(t, u)
      BY <2>2 DEF BegunAdmin, TypeOK
    <3>. QED
      BY <2>2, <3>1, <3>2 DEF IsTenantAdmin, SourceOfAuthority
  <2>3. ASSUME NEW i \in InviteIds, Acceptable(i, t)', invites'[i].role \in AdminRoles
        PROVE  SourceOfAuthority(t)
    <3>1. ASSUME NEW q \in Requests, CreatedBy(q, i)
          PROVE  SourceOfAuthority(t)
      BY <2>3, <3>1 DEF CreatedBy, NewInvite, Acceptable, AdminPcs, SourceOfAuthority
    <3>2. CASE i \notin Unused
      <4>1. invites'[i] = invites[i]
        BY <2>3, <3>2, InviteKept DEF Acceptable
      <4>2. now' <= invites[i].exp => now <= invites[i].exp
        <5>1. invites[i].exp \in Nat
          BY <3>2, StoredIsInvite DEF Invite
        <5>. QED
          BY <5>1, ClockStep DEF TypeOK
      <4>. QED
        BY <2>3, <4>1, <4>2 DEF Acceptable, SourceOfAuthority
    <3>3. CASE i \in Unused /\ invites'[i] = invites[i]
      BY <2>3, <3>3 DEF Unused, Acceptable
    <3>. QED
      BY <3>1, <3>2, <3>3, InviteStep DEF ClosedNow
  <2>4. ASSUME NEW q \in Requests, req'[q].pc \in JoinPcs, req'[q].tenant = t,
               req'[q].role \in AdminRoles
        PROVE  SourceOfAuthority(t)
    <3>1. CASE BegunAccept(q)
      BY <2>4, <3>1 DEF BegunAccept, SourceOfAuthority
    <3>. QED
      BY <2>4, <3>1, JoinUnderWay DEF SourceOfAuthority
  <2>. QED
    BY <2>1, <2>2, <2>3, <2>4 DEF IsTenantAdmin, SourceOfAuthority
<1>. QED
  BY <1>1, Safety, PTL DEF Spec, NoSelfMadeAdmin

\* What belongs to a tenant changes through requests for this tenant only.
THEOREM TenantsStayApart == Spec => TenantsAreIsolated
<1>. DEFINE done(t, pcs) == {q \in Requests : req[q].pc \in pcs /\ req'[q] = Idle /\ req[q].tenant = t}
            Apart(t) == \/ users' \subseteq users /\ users' # users
                        \/ /\ tenants'[t] # tenants[t] => done(t, {"activate", "deactivate"}) # {}
                           /\ \A u \in Users : members'[t][u] # members[t][u] =>
                                \E q \in done(t, {"assign", "remove", "join"}) : req[q].user = u
<1>1. TypeOK /\ [Next]_vars => \A t \in Tenants : Apart(t)
  <2>. SUFFICES ASSUME TypeOK, [Next]_vars, NEW t \in Tenants PROVE Apart(t)
    OBVIOUS
  <2>1. ASSUME NEW v \in Users, DeleteUser(v)
        PROVE  users' \subseteq users /\ users' # users
    BY <2>1 DEF DeleteUser
  <2>2. ASSUME NEW u \in Users, members'[t][u] # members[t][u], \A v \in Users : ~DeleteUser(v)
        PROVE  \E q \in done(t, {"assign", "remove", "join"}) : req[q].user = u
    <3>1. PICK q \in Requests : AssignedBy(q, t, u) \/ RemovedBy(q, t, u) \/ AddedBy(q, t, u)
      BY <2>2, MemberStep DEF DeletedWith
    <3>2. req'[q] = Idle
      BY <3>1 DEF AssignedBy, RemovedBy, AddedBy, Finish, TypeOK
    <3>. QED
      BY <3>1, <3>2 DEF AssignedBy, RemovedBy, AddedBy
  <2>3. ASSUME tenants'[t] # tenants[t], \A v \in Users : ~DeleteUser(v)
        PROVE  done(t, {"activate", "deactivate"}) # {}
    <3>1. PICK q \in Requests : SetActive(q)
      <4>1. ASSUME NEW q \in Requests, NEW v \in Users, NEW s \in Tenants, Begin(q, v, s)
            PROVE  tenants' = tenants
        BY <4>1 DEF Begin, BeginInvite, BeginAssign, BeginRemove, BeginActivate,
                    BeginDeactivate, BeginAdmin, BeginAccept
      <4>. QED
        BY <2>3, <4>1 DEF Next, Advance, CreateInvitation, UpdateMemberRole, RemoveMember,
                          MarkAccepted, AddMember, Abort, RestoreUser, Tick, vars
    <3>2. req[q].tenant = t /\ req'[q] = Idle
      BY <2>3, <3>1 DEF SetActive, Finish, TypeOK
    <3>. QED
      BY <3>1, <3>2 DEF SetActive
  <2>. QED
    BY <2>1, <2>2, <2>3
<1>2. TypeOK /\ [Next]_vars =>
        [\A t \in Tenants :
           LET d(pcs) == {q \in Requests : req[q].pc \in pcs /\ req'[q] = Idle /\ req[q].tenant = t}
           IN \/ users' \subseteq users /\ users' # users
              \/ /\ tenants'[t] # tenants[t] => d({"activate", "deactivate"}) # {}
                 /\ \A u \in Users : members'[t][u] # members[t][u] =>
                      \E q \in d({"assign", "remove", "join"}) : req[q].user = u]_vars
  BY <1>1
<1>. QED
  BY <1>2, TypeCorrect, PTL DEF Spec, TenantsAreIsolated

-----------------------------------------------------------------------------
\* The refinement of TenantRegister.  What a step does to the register follows from
\* what it does to the rows of tenants and to the status of members.
TenantsOf == [t \in Tenants |-> IF tenants[t] = "deleted" THEN "none" ELSE tenants[t]]
PairsOf   == {m \in MemberPairs : IsMember(m[1], m[2])}

\* The pairs of the register are the active members.
LEMMA PairIsMember ==
  ASSUME NEW t \in Tenants, NEW u \in Users
  PROVE  <<t, u>> \in PairsOf <=> IsMember(t, u)
<1>1. <<t, u>> \in MemberPairs
  BY DEF MemberPairs
<1>. QED
  BY <1>1 DEF PairsOf

\* Where one member row is written, the register differs in that pair at most.
LEMMA OnePair ==
  ASSUME NEW t \in Tenants, NEW u \in Users,
         \A s \in Tenants, v \in Users : (s # t \/ v # u) => members'[s][v] = members[s][v]
  PROVE  PairsOf' = IF IsMember(t, u)' THEN PairsOf \cup {<<t, u>>} ELSE PairsOf \ {<<t, u>>}
<1>1. ASSUME NEW s \in Tenants, NEW v \in Users, s # t \/ v # u
      PROVE  IsMember(s, v)' <=> IsMember(s, v)
  BY <1>1 DEF IsMember
<1>. QED
  BY <1>1 DEF PairsOf, MemberPairs

LEMMA SamePairs ==
  ASSUME \A s \in Tenants, v \in Users : IsMember(s, v)' <=> IsMember(s, v)
  PROVE  PairsOf' = PairsOf
BY DEF PairsOf, MemberPairs

\* A tenant exists in the register where its row does.
LEMMA RegisteredExists ==
  ASSUME TypeOK, NEW t \in Tenants
  PROVE  Register!Exists(t) <=> TenantExists(t)
BY DEF Register!Exists, TenantExists, TypeOK

LEMMA AddMemberJoins ==
  ASSUME TypeOK, NEW q \in Requests, AddMember(q)
  PROVE  [Register!RegisterNext]_(Register!registerVars)
<1>1. PICK t \in Tenants, u \in Users : t = req[q].tenant /\ u = req[q].user
  BY BusyByPc DEF AddMember, JoinPcs, Busy
<1>2. UNCHANGED <<users, tenants>>
  BY DEF AddMember
<1>3. CASE UNCHANGED members
  BY <1>2, <1>3 DEF Register!registerVars, IsMember
<1>4. CASE /\ MayInsert(t, u)
           /\ members' = [members EXCEPT ![t][u] = NewMember(req[q].role, req[q].inv, q)]
  <2>1. members'[t][u] = NewMember(req[q].role, req[q].inv, q)
    BY <1>1, <1>4 DEF TypeOK
  <2>2. IsMember(t, u)'
    BY <2>1 DEF IsMember, NewMember
  <2>3. \A s \in Tenants, v \in Users : (s # t \/ v # u) => members'[s][v] = members[s][v]
    BY <1>1, <1>4 DEF TypeOK
  <2>4. PairsOf' = PairsOf \cup {<<t, u>>}
    BY <1>1, <2>2, <2>3, OnePair
  <2>5. Register!Join(t, u)
    BY <1>1, <1>2, <1>4, <2>4, RegisteredExists DEF Register!Join, MayInsert, PairsOf
  <2>. QED
    BY <1>1, <2>5 DEF Register!RegisterNext
<1>. QED
  BY <1>1, <1>3, <1>4 DEF AddMember

LEMMA RemoveMemberLeaves ==
  ASSUME TypeOK, NEW q \in Requests, RemoveMember(q)
  PROVE  [Register!RegisterNext]_(Register!registerVars)
<1>1. PICK t \in Tenants, u \in Users : t = req[q].tenant /\ u = req[q].user
  BY BusyByPc DEF RemoveMember, AdminPcs, Busy
<1>2. UNCHANGED <<users, tenants>>
  BY DEF RemoveMember
<1>3. CASE ~IsMember(t, u)
  BY <1>1, <1>2, <1>3 DEF RemoveMember, AfterRemove, Register!registerVars, IsMember
<1>4. CASE IsMember(t, u)
  <2>1. members' = [members EXCEPT ![t][u].status = "removed"]
    BY <1>1, <1>4 DEF RemoveMember, AfterRemove
  <2>2. members'[t][u] = [members[t][u] EXCEPT !.status = "removed"]
    BY <1>1, <2>1 DEF TypeOK
  <2>3. members[t][u] \in Member
    BY <1>1, <1>4, MemberIsRow DEF IsMember
  <2>4. ~IsMember(t, u)'
    BY <2>2, <2>3 DEF IsMember, Member
  <2>5. \A s \in Tenants, v \in Users : (s # t \/ v # u) => members'[s][v] = members[s][v]
    BY <1>1, <2>1 DEF TypeOK
  <2>6. PairsOf' = PairsOf \ {<<t, u>>}
    BY <1>1, <2>4, <2>5, OnePair
  <2>7. Register!Leave(t, u)
    BY <1>1, <1>2, <1>4, <2>6, PairIsMember DEF Register!Leave, PairsOf
  <2>. QED
    BY <1>1, <2>7 DEF Register!RegisterNext
<1>. QED
  BY <1>3, <1>4

LEMMA UpdateMemberRoleKeepsPairs ==
  ASSUME TypeOK, NEW q \in Requests, UpdateMemberRole(q)
  PROVE  UNCHANGED Register!registerVars
<1>1. PICK t \in Tenants, u \in Users : t = req[q].tenant /\ u = req[q].user
  BY BusyByPc DEF UpdateMemberRole, AdminPcs, Busy
<1>2. PairsOf' = PairsOf
  <2>1. CASE ~IsMember(t, u)
    BY <1>1, <2>1, SamePairs DEF UpdateMemberRole, AfterAssign, IsMember
  <2>2. CASE IsMember(t, u)
    <3>1. members' = [members EXCEPT ![t][u] =
            [members[t][u] EXCEPT !.role = req[q].role, !.assigned = TRUE]]
      BY <1>1, <2>2 DEF UpdateMemberRole, AfterAssign
    <3>2. members'[t][u] = [members[t][u] EXCEPT !.role = req[q].role, !.assigned = TRUE]
      BY <1>1, <3>1 DEF TypeOK
    <3>3. members[t][u] \in Member
      BY <1>1, <2>2, MemberIsRow DEF IsMember
    <3>4. members'[t][u].status = members[t][u].status
      BY <3>2, <3>3 DEF Member
    <3>5. \A s \in Tenants, v \in Users : (s # t \/ v # u) => members'[s][v] = members[s][v]
      BY <1>1, <3>1 DEF TypeOK
    <3>6. \A s \in Tenants, v \in Users : IsMember(s, v)' <=> IsMember(s, v)
      BY <3>4, <3>5 DEF IsMember
    <3>. QED
      BY <3>6, SamePairs
  <2>. QED
    BY <2>1, <2>2
<1>. QED
  BY <1>2 DEF UpdateMemberRole, Register!registerVars, PairsOf

LEMMA SetActiveSwitches ==
  ASSUME TypeOK, NEW q \in Requests, SetActive(q)
  PROVE  [Register!RegisterNext]_(Register!registerVars)
<1>1. PICK t \in Tenants, status \in {"active", "inactive"} :
        t = req[q].tenant /\ status = IF req[q].pc = "activate" THEN "active" ELSE "inactive"
  BY BusyByPc DEF SetActive, AdminPcs, Busy
<1>2. UNCHANGED <<users, members>> /\ PairsOf' = PairsOf
  BY SamePairs DEF SetActive, IsMember
<1>3. CASE ~TenantExists(t)
  BY <1>1, <1>2, <1>3 DEF SetActive, Register!registerVars, PairsOf
<1>4. CASE TenantExists(t)
  <2>1. tenants' = [tenants EXCEPT ![t] = status]
    BY <1>1, <1>4 DEF SetActive
  <2>2. TenantsOf' = [TenantsOf EXCEPT ![t] = status]
    BY <1>1, <2>1 DEF TenantsOf, TypeOK
  <2>3. Register!Switch(t, status)
    BY <1>1, <1>2, <1>4, <2>2, RegisteredExists DEF Register!Switch, TenantsOf, PairsOf
  <2>. QED
    BY <2>3 DEF Register!RegisterNext
<1>. QED
  BY <1>3, <1>4

LEMMA DeleteUserDeparts ==
  ASSUME TypeOK, NEW u \in Users, DeleteUser(u)
  PROVE  Register!RegisterNext
<1>1. TenantsOf' = [t \in Tenants |-> IF Owner[t] = u THEN "none" ELSE TenantsOf[t]]
  BY DEF DeleteUser, TenantsOf
<1>2. ASSUME NEW t \in Tenants, NEW v \in Users
      PROVE  IsMember(t, v)' <=> IsMember(t, v) /\ v # u /\ Owner[t] # u
  BY DEF DeleteUser, IsMember, NoMember
<1>3. PairsOf' = {m \in PairsOf : m[2] # u /\ Owner[m[1]] # u}
  BY <1>2 DEF PairsOf, MemberPairs
<1>4. Register!Depart(u)
  BY <1>1, <1>3 DEF DeleteUser, Register!Depart, TenantsOf, PairsOf
<1>. QED
  BY <1>4 DEF Register!RegisterNext

\* Membership keeps the register, for any number of users, tenants, invitations and
\* requests: what Tenancy has for its surroundings is what happens.
THEOREM MembershipKeepsRegister == Spec => KeepsRegister
<1>1. Init => Register!RegisterInit
  <2>. SUFFICES ASSUME Init
                PROVE  Register!RegisterInit
    OBVIOUS
  <2>1. \A t \in Tenants, u \in Users : IsMember(t, u) <=> u = Owner[t]
    BY DEF Init, IsMember, NewMember, NoMember
  <2>2. PairsOf = {<<t, Owner[t]>> : t \in Tenants}
    BY <2>1, TenantsAreOwned DEF PairsOf, MemberPairs
  <2>3. TenantsOf = [t \in Tenants |-> IF t \in Tenants THEN "active" ELSE "none"]
    BY DEF Init, TenantsOf
  <2>. QED
    BY <2>2, <2>3 DEF Init, Register!RegisterInit, PairsOf, TenantsOf
<1>2. TypeOK /\ [Next]_vars => [Register!RegisterNext]_(Register!registerVars)
  <2>. SUFFICES ASSUME TypeOK, [Next]_vars
                PROVE  [Register!RegisterNext]_(Register!registerVars)
    OBVIOUS
  <2>1. ASSUME UNCHANGED <<users, tenants, members>>
        PROVE  UNCHANGED Register!registerVars
    BY <2>1 DEF Register!registerVars, IsMember
  <2>2. ASSUME NEW q \in Requests, NEW u \in Users, NEW t \in Tenants, Begin(q, u, t)
        PROVE  UNCHANGED <<users, tenants, members>>
    BY <2>2 DEF Begin, BeginInvite, BeginAssign, BeginRemove, BeginActivate,
                BeginDeactivate, BeginAdmin, BeginAccept
  <2>3. ASSUME NEW q \in Requests, CreateInvitation(q) \/ MarkAccepted(q) \/ Abort(q)
        PROVE  UNCHANGED <<users, tenants, members>>
    BY <2>3 DEF CreateInvitation, MarkAccepted, Abort
  <2>4. ASSUME NEW u \in Users, RestoreUser(u)
        PROVE  Register!RegisterNext
    <3>1. Register!Return(u)
      BY <2>4 DEF RestoreUser, Register!Return, IsMember
    <3>. QED
      BY <3>1 DEF Register!RegisterNext
  <2>5. ASSUME Tick \/ UNCHANGED vars
        PROVE  UNCHANGED <<users, tenants, members>>
    BY <2>5 DEF Tick, vars
  <2>. QED
    BY <2>1, <2>2, <2>3, <2>4, <2>5, AddMemberJoins, RemoveMemberLeaves,
       UpdateMemberRoleKeepsPairs, SetActiveSwitches, DeleteUserDeparts
    DEF Next, Advance
<1>. QED
  BY <1>1, <1>2, TypeCorrect, PTL DEF Spec, KeepsRegister, Register!RegisterSpec
=============================================================================
