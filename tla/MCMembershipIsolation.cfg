\* Two tenants of two users, each an outsider in the other's, and an invitation of
\* either, which expires.  One role: what roles do is the question of
\* MCMembershipJoins.
CONSTANTS
  u1 = u1
  u2 = u2
  u3 = u3
  t1 = t1
  t2 = t2
  Users = {u1, u2}
  Tenants = {t1, t2}
  Owner <- OwnerOfTwo
  Roles = {admin}
  AdminRoles = {admin}
  Requests = {q1, q2}
  MaxInvite = 1
  MaxTime = 1
  InviteTTL = 0
SPECIFICATION Spec
SYMMETRY TenantSymmetry
INVARIANTS
  MembersWereInvited
PROPERTIES
  TenantsAreIsolated
