------------------------------- MODULE MCRbac -------------------------------
(* Values for checking Rbac: the seeds of two of the roles, one manager. *)
EXTENDS Rbac, TLC

CONSTANTS u1, u2, super, plain

SeedOfMigrations ==
  {super} \X {"users.read", "users.delete", "roles.manage"} \cup {<<plain, "users.read">>}
OneManager == {<<u1, super>>, <<u2, plain>>}

SlotSymmetry == Permutations(Requests)
=============================================================================
