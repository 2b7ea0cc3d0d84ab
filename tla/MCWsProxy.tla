----------------------------- MODULE MCWsProxy -----------------------------
(* An instance of WsProxy: three messages each way.                          *)
EXTENDS WsProxy, TLC
=============================================================================
