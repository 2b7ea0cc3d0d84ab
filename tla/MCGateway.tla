----------------------------- MODULE MCGateway -----------------------------
(* Instances of Gateway: one request of each sort that makes a difference. *)
(* A look-up with an escaped '&' stands for all that a service executes.   *)
EXTENDS Gateway, TLC
CONSTANTS alice, bob
Ask(route, token, query, escaped) ==
  [route |-> route, token |-> token, query |-> query, escaped |-> escaped]
MCParams == {Ask("preflight", None, {}, "nothing"),
             Ask("public", alice, {}, "nothing"),
             Ask("page", None, {"conversation_id"}, "nothing"),
             Ask("page", alice, {"conversation_id"}, "nothing"),
             Ask("page", alice, {"conversation_id", "before"}, "junk"),
             Ask("lookup", alice, {}, "nothing"), Ask("lookup", bob, {"id"}, "syntax")}
=============================================================================
