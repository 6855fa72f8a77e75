----------------------------- MODULE MCTenancy ------------------------------
(* Values for checking Tenancy. *)
EXTENDS Tenancy, TLC

CONSTANTS u1, u2, t1, t2, n1, n2

SchemaOfEach == t1 :> n1 @@ t2 :> n2

\* Two tenants of two users, each an outsider in the other's at first.
OwnerOfEach == t1 :> u1 @@ t2 :> u2

=============================================================================
