------------------------------- MODULE MCAuth -------------------------------
(* An instance of Auth: one user, lifetimes of one and two seconds.        *)
EXTENDS Auth, TLC
Interchangeable == Permutations(Requests)
=============================================================================
