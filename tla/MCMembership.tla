---------------------------- MODULE MCMembership ----------------------------
(* Values for checking Membership. *)
EXTENDS Membership, TLC

CONSTANTS u1, u2, u3, t1, t2

\* One tenant of u1, or one of u1 and one of u2.
OwnerOfOne == t1 :> u1
OwnerOfTwo == t1 :> u1 @@ t2 :> u2

\* Request slots are interchangeable; so are users who own nothing, and two tenants
\* together with their owners.
TenantSymmetry == Permutations(Requests) \cup {t1 :> t2 @@ t2 :> t1 @@ u1 :> u2 @@ u2 :> u1}
JoinSymmetry == Permutations(Requests) \cup Permutations(Users \ {u1})
=============================================================================
