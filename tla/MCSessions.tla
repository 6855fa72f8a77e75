----------------------------- MODULE MCSessions -----------------------------
(* Values for checking Sessions. *)
EXTENDS Sessions, TLC

\* Users, request slots and scopes are interchangeable: no value of them is special,
\* "no claim" is carried along as any other.
Symmetry == Permutations(Users) \cup Permutations(Requests) \cup Permutations(Scopes)
=============================================================================
