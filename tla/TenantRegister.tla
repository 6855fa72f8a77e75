--------------------------- MODULE TenantRegister ---------------------------
(***************************************************************************)
(* Users, tenants and who is in which: what the requests of one part of    *)
(* the server may do to the tables another part reads, without roles,      *)
(* invitations, checks or statements.  Module Membership keeps to it;      *)
(* module Tenancy has it for its surroundings.                             *)
(***************************************************************************)
CONSTANTS
  Users,
  Tenants,
  Owner,       \* tenant -> the user who owns it
  Seeded       \* tenants that are there from the start

VARIABLES
  users,       \* those who have an account
  tenants,     \* "none", "active" or "inactive"
  members      \* pairs of tenant and user

registerVars == <<users, tenants, members>>

Exists(t) == tenants[t] # "none"

RegisterInit ==
  /\ users = Users
  /\ tenants = [t \in Tenants |-> IF t \in Seeded THEN "active" ELSE "none"]
  /\ members = {<<t, Owner[t]>> : t \in Seeded}

\* An invitation is accepted, or a member removed.
Join(t, u) ==
  /\ Exists(t)
  /\ u \in users
  /\ members' = members \cup {<<t, u>>}
  /\ UNCHANGED <<users, tenants>>

Leave(t, u) ==
  /\ <<t, u>> \in members
  /\ members' = members \ {<<t, u>>}
  /\ UNCHANGED <<users, tenants>>

\* A tenant is switched on or off.
Switch(t, status) ==
  /\ Exists(t)
  /\ tenants' = [tenants EXCEPT ![t] = status]
  /\ UNCHANGED <<users, members>>

\* An account goes, with the tenants it owns; it may come back, they do not.
Depart(u) ==
  /\ u \in users
  /\ users' = users \ {u}
  /\ tenants' = [t \in Tenants |-> IF Owner[t] = u THEN "none" ELSE tenants[t]]
  /\ members' = {m \in members : m[2] # u /\ Owner[m[1]] # u}

Return(u) ==
  /\ u \in Users \ users
  /\ users' = users \cup {u}
  /\ UNCHANGED <<tenants, members>>

RegisterNext ==
  \/ \E t \in Tenants, u \in Users : Join(t, u) \/ Leave(t, u)
  \/ \E t \in Tenants, status \in {"active", "inactive"} : Switch(t, status)
  \/ \E u \in Users : Depart(u) \/ Return(u)

RegisterSpec == RegisterInit /\ [][RegisterNext]_registerVars
=============================================================================
