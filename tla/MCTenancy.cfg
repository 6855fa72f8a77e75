\* Two tenants, the slug of one of them unsafe, in both modes; somebody tries to create
\* a tenant again after it went with its owner.
CONSTANTS
  u1 = u1
  u2 = u2
  t1 = t1
  t2 = t2
  n1 = n1
  n2 = n2
  NoTenant = none
  Users = {u1, u2}
  Tenants = {t1, t2}
  Seeded = {t1, t2}
  Owner <- OwnerOfEach
  SafeSlugs = {t1}
  SchemaName <- SchemaOfEach
  Modes = {"row", "schema"}
  Requests = {q1}
SPECIFICATION Spec
INVARIANTS
  EntitledWhileServed
  ClaimBinds
  SchemaModeFailsClosed
PROPERTIES
  ClaimsAreEarned
  TenantComesWithOwner
