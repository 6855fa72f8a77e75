\* Two tenants with safe slugs and a schema each.
CONSTANTS
  u1 = u1
  u2 = u2
  t1 = t1
  t2 = t2
  n1 = n1
  n2 = n2
  NoTenant = none
  Users = {u1, u2}
  Tenants = {t1, t2}
  Seeded = {t1, t2}
  Owner <- OwnerOfEach
  SafeSlugs = {t1, t2}
  SchemaName <- SchemaOfEach
  Modes = {"schema"}
  Requests = {q1}
SPECIFICATION Spec
PROPERTIES
  SchemaModeServes
