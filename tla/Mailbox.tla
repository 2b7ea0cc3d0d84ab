------------------------------ MODULE Mailbox ------------------------------
(***************************************************************************)
(* What the hub promises each connection: a mailbox that accepts events    *)
(* while the connection is registered, none of them twice, and delivers    *)
(* what it accepted in that order.  Delivery may stop at any point.        *)
(***************************************************************************)
EXTENDS Naturals, Sequences

CONSTANTS Clients, Events
VARIABLES phase, accepted, taken
vars == <<phase, accepted, taken>>

Init ==
  /\ phase = [c \in Clients |-> "new"]
  /\ accepted = [c \in Clients |-> <<>>]
  /\ taken = [c \in Clients |-> 0]

Open(c) ==
  /\ phase[c] = "new"
  /\ phase' = [phase EXCEPT ![c] = "open"]
  /\ UNCHANGED <<accepted, taken>>

Accept(c, e) ==
  /\ phase[c] = "open"
  /\ \A i \in DOMAIN accepted[c] : accepted[c][i] # e
  /\ accepted' = [accepted EXCEPT ![c] = Append(@, e)]
  /\ UNCHANGED <<phase, taken>>

Deliver(c) ==
  /\ taken[c] < Len(accepted[c])
  /\ taken' = [taken EXCEPT ![c] = @ + 1]
  /\ UNCHANGED <<phase, accepted>>

Shut(c) ==
  /\ phase[c] = "open"
  /\ phase' = [phase EXCEPT ![c] = "shut"]
  /\ UNCHANGED <<accepted, taken>>

Next == \E c \in Clients :
          Open(c) \/ Deliver(c) \/ Shut(c) \/ \E e \in Events : Accept(c, e)
Spec == Init /\ [][Next]_vars
=============================================================================
