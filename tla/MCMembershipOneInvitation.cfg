CONSTANTS
  u1 = u1
  u2 = u2
  u3 = u3
  t1 = t1
  t2 = t2
  Users = {u1, u2, u3}
  Tenants = {t1}
  Owner <- OwnerOfOne
  Roles = {admin, plain}
  AdminRoles = {admin}
  Requests = {q1, q2}
  MaxInvite = 1
  MaxTime = 0
  InviteTTL = 0
SPECIFICATION Spec
SYMMETRY JoinSymmetry
INVARIANTS
  InvitationJoinsOne
