--------------------------- MODULE MCRateLimiter ---------------------------
(* Instances of RateLimiter: two connections of one client, and a request  *)
(* and a half of burst for each.                                           *)
EXTENDS RateLimiter, TLC
CONSTANT phone
MCClient == [k \in Keys |-> phone]
Connections == Permutations(Keys)
=============================================================================
