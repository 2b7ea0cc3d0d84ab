-------------------------- MODULE MCConversations --------------------------
(* Three calls of CreateConversation among three users, one of whom has    *)
(* two spellings, and with an id that is nobody's.                         *)
EXTENDS Conversations, TLC
CONSTANTS alice, bob, carol, ALICE, nobody
MCPerson == [n \in Names |-> CASE n = ALICE -> alice [] n = nobody -> None [] OTHER -> n]
Interchangeable == Permutations({bob, carol}) \cup Permutations(Requests)
=============================================================================
