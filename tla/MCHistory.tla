----------------------------- MODULE MCHistory -----------------------------
(* Instances of History: three messages, pages of one and of two.          *)
EXTENDS History, TLC
Interchangeable == Permutations(Messages) \cup Permutations(Convs)
=============================================================================
