\* A manager and a plain user, two handlers at a time.  users.write, which no route
\* asks for, is left out.
CONSTANTS
  u1 = u1
  u2 = u2
  super = super
  plain = plain
  Users = {u1, u2}
  Roles = {super, plain}
  Permissions = {"users.read", "users.delete", "roles.manage"}
  SeedPerms <- SeedOfMigrations
  SeedRoles <- OneManager
  Requests = {q1, q2}
SPECIFICATION Spec
SYMMETRY SlotSymmetry
INVARIANTS
  RolesHaveOwners
  ActorsWereEntitled
PROPERTIES
  AuthorityIsGiven
