------------------------------- MODULE MCHub -------------------------------
(* Instances of Hub: one user, with one or two devices.                    *)
EXTENDS Hub, TLC
CONSTANT alice
MCOwner == [c \in Clients |-> alice]
Devices == Permutations(Clients)
=============================================================================
