---------------------------- MODULE MCMessaging ----------------------------
(* Instances of Messaging: a conversation of alice and bob, in which carol *)
(* is not, and one of carol with bob.                                      *)
EXTENDS Messaging, TLC
CONSTANTS alice, bob, carol, ab, bc
MCMembers == [c \in Convs |-> IF c = ab THEN {alice, bob} ELSE {bob, carol}]
Everything == {<<"send", "http">>, <<"mark", "http">>, <<"typing", "ws">>, <<"mark", "ws">>}
WsSends == {<<"send", "ws">>}
=============================================================================
