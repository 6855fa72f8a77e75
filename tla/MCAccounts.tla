----------------------------- MODULE MCAccounts -----------------------------
(* Values for checking Accounts. *)
EXTENDS Accounts, TLC

\* Addresses, passwords and request slots are interchangeable.
Symmetry == Permutations(Addresses) \cup Permutations(Passwords) \cup Permutations(Requests)
=============================================================================
