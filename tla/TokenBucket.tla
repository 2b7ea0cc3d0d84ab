---------------------------- MODULE TokenBucket ----------------------------
(***************************************************************************)
(* What the rate limiter promises each key: a bucket that is full at       *)
(* first, regains one unit per tick, and admits a request, for Cost units, *)
(* exactly when it holds them.  No bucket is ever created or forgotten.    *)
(***************************************************************************)
EXTENDS Naturals

CONSTANTS Keys, Cap, Cost, None

VARIABLES level, answer
vars == <<level, answer>>

Init == level = [k \in Keys |-> Cap] /\ answer = None

Tick == /\ level' = [k \in Keys |-> IF level[k] < Cap THEN level[k] + 1 ELSE Cap]
        /\ answer' = None
Admit(k) == /\ level[k] >= Cost
            /\ level' = [level EXCEPT ![k] = @ - Cost]
            /\ answer' = <<k, TRUE>>
Refuse(k) == level[k] < Cost /\ answer' = <<k, FALSE>> /\ UNCHANGED level

Next == Tick \/ \E k \in Keys : Admit(k) \/ Refuse(k)
Spec == Init /\ [][Next]_vars
=============================================================================
