--------------------------- MODULE GatewayProofs ---------------------------
(***************************************************************************)
(* What the gateway answers is true, and nobody is left without an answer, *)
(* for any number of requests and users, any requests and any time-outs    *)
(* that keep the order of the code's.                                      *)
(***************************************************************************)
EXTENDS Gateway, TLAPS

(* How far a service is with a request that is somewhere in the gateway.   *)
Served ==
  \A r \in Requests :
    /\ pc[r] \in {"idle", "reading"} => work[r] = "none"
    /\ pc[r] = "copying" => work[r] = "replied"
    /\ work[r] = "replied" => reply[r] \in {"ok", "refused"}
Typed == TypeOK /\ Served

LEMMA InitTyped == Init => Typed
<1> SUFFICES ASSUME Init PROVE Typed
  OBVIOUS
<1>1. req \in [Requests -> Params]
  <2>1. (CHOOSE p \in Params : TRUE) \in Params
    BY GatewayAssumption
  <2> QED
    BY <2>1 DEF Init
<1> QED
  BY <1>1, GatewayAssumption DEF Init, Typed, Served, TypeOK, Answers, Local

(* The answers given are answers, and None is not one.                     *)
LEMMA AnswersAre ==
  /\ None \notin Answers
  /\ \A p : LocalAnswers(p) \subseteq Local
  /\ Local \subseteq Answers
<1>1. \A p : Verdict(p) \in {"404", "200", "401", "400", "forward"}
  BY DEF Verdict
<1> QED
  BY <1>1, GatewayAssumption DEF Answers, Local, LocalAnswers

LEMMA EndTyped ==
  ASSUME TypeOK, NEW r \in Requests, NEW label \in {"answered", "lost"}, End(r, label)
  PROVE  /\ pc' \in [Requests -> {"idle", "reading", "forwarded", "copying", "answered", "lost"}]
         /\ deadline' \in [Requests -> 0 .. ServerTimeout]
         /\ patience' \in [Requests -> 0 .. ClientTimeout]
BY GatewayAssumption DEF TypeOK, End, Goto

LEMMA FinishTyped ==
  ASSUME TypeOK, NEW r \in Requests, Running(r), NEW a \in Answers, Finish(r, a),
         UNCHANGED <<phase, grace, req, service, history>>
  PROVE  TypeOK'
<1>1. End(r, "answered") \/ End(r, "lost")
  BY DEF Finish
<1>2. /\ pc' \in [Requests -> {"idle", "reading", "forwarded", "copying", "answered", "lost"}]
      /\ deadline' \in [Requests -> 0 .. ServerTimeout]
      /\ patience' \in [Requests -> 0 .. ClientTimeout]
  BY <1>1, EndTyped
<1>3. \/ pc' = [pc EXCEPT ![r] = "answered"] /\ answer' = [answer EXCEPT ![r] = a]
      \/ pc' = [pc EXCEPT ![r] = "lost"] /\ answer' = answer
  BY DEF Finish, End, Goto
<1>4. /\ answer' \in [Requests -> Answers \cup {None}]
      /\ \A q \in Requests : pc'[q] = "answered" <=> answer'[q] # None
  BY <1>3, AnswersAre DEF TypeOK, Running
<1> QED
  BY <1>2, <1>4 DEF TypeOK, service, history

LEMMA StepTyped == Typed /\ [Next]_vars => TypeOK'
<1> SUFFICES ASSUME TypeOK, Served, [Next]_vars PROVE TypeOK'
  BY DEF Typed
<1> USE GatewayAssumption
<1>1. ASSUME NEW r \in Requests, NEW p \in Params, Arrive(r, p) PROVE TypeOK'
  <2>1. CASE End(r, "answered") /\ \E a \in LocalAnswers(p) : answer' = [answer EXCEPT ![r] = a]
    <3>1. PICK a \in LocalAnswers(p) : answer' = [answer EXCEPT ![r] = a]
      BY <2>1
    <3>2. a \in Answers /\ a # None
      BY AnswersAre
    <3>3. /\ answer' \in [Requests -> Answers \cup {None}]
          /\ \A q \in Requests : pc'[q] = "answered" <=> answer'[q] # None
      BY <2>1, <3>1, <3>2 DEF TypeOK, End, Goto
    <3> QED
      BY <1>1, <2>1, <3>3, EndTyped DEF TypeOK, Arrive, service, history
  <2>2. CASE Goto(r, "reading") /\ deadline' = [deadline EXCEPT ![r] = ServerTimeout]
             /\ UNCHANGED <<patience, answer>>
    BY <1>1, <2>2 DEF TypeOK, Arrive, Goto, service, history
  <2> QED
    BY <1>1, <2>1, <2>2 DEF Arrive
<1>2. ASSUME NEW r \in Requests, Forward(r) PROVE TypeOK'
  BY <1>2 DEF TypeOK, Forward, Goto, Patience
<1>3. ASSUME NEW r \in Requests, BodyFails(r) PROVE TypeOK'
  <2>1. "400" \in Answers /\ "400" # None
    BY AnswersAre DEF Local
  <2>2. CASE End(r, "answered") /\ answer' = [answer EXCEPT ![r] = "400"] /\ UNCHANGED slow
    <3>1. /\ answer' \in [Requests -> Answers \cup {None}]
          /\ \A q \in Requests : pc'[q] = "answered" <=> answer'[q] # None
      BY <2>1, <2>2 DEF TypeOK, End, Goto
    <3> QED
      BY <1>3, <2>2, <3>1, EndTyped DEF TypeOK, BodyFails, service
  <2>3. CASE End(r, "lost") /\ slow' = slow \cup {r} /\ UNCHANGED answer
    <3>1. \A q \in Requests : pc'[q] = "answered" <=> answer'[q] # None
      BY <1>3, <2>3 DEF TypeOK, End, Goto, BodyFails
    <3> QED
      BY <1>3, <2>3, <3>1, EndTyped DEF TypeOK, BodyFails, service
  <2> QED
    BY <1>3, <2>2, <2>3 DEF BodyFails
<1>4. ASSUME NEW r \in Requests, Relay(r) PROVE TypeOK'
  BY <1>4 DEF TypeOK, Relay, Goto, timers, service, history
<1>5. ASSUME NEW r \in Requests, EndCopy(r) PROVE TypeOK'
  <2>1. PICK a \in {Status(r), "cut"} : Finish(r, a)
    BY <1>5 DEF EndCopy
  <2>2. a \in Answers
    BY <1>5 DEF EndCopy, Served, Status, Answers
  <2> QED
    BY <1>5, <2>1, <2>2, FinishTyped DEF EndCopy, Running
<1>6. ASSUME NEW r \in Requests, GiveUp(r) PROVE TypeOK'
  <2>1. "502" \in Answers
    BY DEF Answers
  <2> QED
    BY <1>6, <2>1, FinishTyped DEF GiveUp, Running
<1>7. ASSUME NEW r \in Requests, Leave(r) PROVE TypeOK'
  <2>1. \A q \in Requests : pc'[q] = "answered" <=> answer'[q] # None
    BY <1>7 DEF TypeOK, Leave, End, Goto, Running
  <2> QED
    BY <1>7, <2>1, EndTyped DEF TypeOK, Leave, service
<1>8. ASSUME NEW r \in Requests, Execute(r) PROVE TypeOK'
  <2>1. UserHeader(req[r]) \in Users \cup {None}
    BY DEF TypeOK, UserHeader
  <2> QED
    BY <1>8, <2>1 DEF TypeOK, Execute, timers, history
<1>9. ASSUME NEW r \in Requests, Reply(r) PROVE TypeOK'
  <2>1. PICK a \in {"ok", "refused"} : reply' = [reply EXCEPT ![r] = a]
    BY <1>9 DEF Reply
  <2> QED
    BY <1>9, <2>1 DEF TypeOK, Reply, timers, history
<1>10. ASSUME NEW r \in Requests, Stop(r) PROVE TypeOK'
  BY <1>10 DEF TypeOK, Stop, timers, history
<1>11. CASE Tick
  BY <1>11 DEF TypeOK, Tick, Less, service, history
<1>12. CASE Terminate
  BY <1>12 DEF TypeOK, Terminate, timers, service
<1>13. CASE Exit
  BY <1>13 DEF TypeOK, Exit, Running, service, history
<1>14. CASE UNCHANGED vars
  BY <1>14 DEF TypeOK, vars, timers, service, history
<1>15. ASSUME NEW r \in Requests, CannotForward(r) PROVE TypeOK'
  <2>1. "500" \in Answers
    BY DEF Answers, Local
  <2> QED
    BY <1>15, <2>1, FinishTyped DEF CannotForward, Running
<1> QED
  BY <1>1, <1>2, <1>3, <1>4, <1>5, <1>6, <1>7, <1>8, <1>9, <1>10, <1>11, <1>12, <1>13, <1>14,
     <1>15 DEF Next

(* What any step does to the labels of requests and to the service's.      *)
LEMMA StepServed == Typed /\ [Next]_vars => Served'
<1> SUFFICES ASSUME Typed, [Next]_vars PROVE Served'
  OBVIOUS
<1> USE DEF Typed, TypeOK, Served
<1>1. ASSUME NEW r \in Requests, NEW p \in Params, Arrive(r, p) PROVE Served'
  BY <1>1 DEF Arrive, End, Goto, service
<1>2. ASSUME NEW r \in Requests, Forward(r) PROVE Served'
  BY <1>2 DEF Forward, Goto
<1>3. ASSUME NEW r \in Requests, BodyFails(r) PROVE Served'
  BY <1>3 DEF BodyFails, End, Goto, service
<1>4. ASSUME NEW r \in Requests, Relay(r) PROVE Served'
  BY <1>4 DEF Relay, Goto, service
<1>5. ASSUME NEW r \in Requests, EndCopy(r) PROVE Served'
  BY <1>5 DEF EndCopy, Finish, End, Goto, service
<1>6. ASSUME NEW r \in Requests, GiveUp(r) PROVE Served'
  BY <1>6 DEF GiveUp, Finish, End, Goto, service
<1>7. ASSUME NEW r \in Requests, Leave(r) PROVE Served'
  BY <1>7 DEF Leave, End, Goto, service
<1>8. ASSUME NEW r \in Requests, Execute(r) PROVE Served'
  BY <1>8 DEF Execute
<1>9. ASSUME NEW r \in Requests, Reply(r) PROVE Served'
  BY <1>9 DEF Reply
<1>10. ASSUME NEW r \in Requests, Stop(r) PROVE Served'
  BY <1>10 DEF Stop
<1>11. CASE Tick \/ Terminate \/ Exit \/ UNCHANGED vars
  BY <1>11 DEF Tick, Terminate, Exit, Running, vars, service
<1>12. ASSUME NEW r \in Requests, CannotForward(r) PROVE Served'
  BY <1>12 DEF CannotForward, Finish, End, Goto, service
<1> QED
  BY <1>1, <1>2, <1>3, <1>4, <1>5, <1>6, <1>7, <1>8, <1>9, <1>10, <1>11, <1>12 DEF Next

(* Every variable of the gateway keeps its type in every behaviour.        *)
THEOREM TypeCorrect == Spec => []TypeOK
<1>1. Typed /\ [Next]_vars => Typed'
  BY StepTyped, StepServed DEF Typed
<1>2. Typed => TypeOK
  BY DEF Typed
<1> QED
  BY InitTyped, <1>1, <1>2, PTL DEF Spec
-----------------------------------------------------------------------------
(* Who gets past the mux: only a request for a proxied route, with a token *)
(* where the route needs one.                                              *)
Admitted(p) == p.route \in Proxied /\ (NeedsToken(p) => p.token # None)

LEMMA ForwardIsAdmitted ==
  ASSUME NEW p \in Params, Verdict(p) = "forward", p.route # "preflight"
  PROVE  Admitted(p)
<1>1. p.route \notin {"unknown", "health"}
  BY DEF Verdict
<1>2. ~(NeedsToken(p) /\ p.token = None)
  <2>1. ASSUME NeedsToken(p), p.token = None PROVE FALSE
    <3>1. Verdict(p) = "401"
      BY <1>1, <2>1 DEF Verdict
    <3> QED
      BY <3>1
  <2> QED
    BY <2>1
<1>3. p.route \in Proxied \cup {"preflight", "unknown", "health"}
  BY GatewayAssumption
<1> QED
  BY <1>1, <1>2, <1>3 DEF Admitted

LEMMA HeaderOfAdmitted ==
  ASSUME NEW p, Admitted(p)
  PROVE  {UserHeader(p)} \subseteq IF p.route = "public" THEN {None} ELSE {p.token} \ {None}
BY DEF Admitted, UserHeader, NeedsToken

(* What ties an answer to what the service did: a request is admitted      *)
(* before its service sees it, the service executes only what it           *)
(* understands and as the header says, and what it replies is what is      *)
(* relayed.                                                                *)
Truth ==
  \A r \in Requests :
    /\ pc[r] = "reading" \/ work[r] # "none" => Admitted(req[r])
    /\ work[r] = "none" => runs[r] = {}
    /\ runs[r] \subseteq {UserHeader(req[r])}
    /\ runs[r] # {} => Understood(req[r])
    /\ work[r] = "replied" /\ reply[r] = "ok" => runs[r] # {}
    /\ answer[r] = "ok" => runs[r] # {}
    /\ answer[r] \in Local => work[r] = "none"

LEMMA InitTruth == Init => Truth
BY GatewayAssumption DEF Init, Truth, Answers

LEMMA StepTruth == Typed /\ Truth /\ [Next]_vars => Truth'
<1> SUFFICES ASSUME Typed, Truth, [Next]_vars PROVE Truth'
  OBVIOUS
<1> USE DEF Typed, TypeOK, Served, Truth
<1>1. ASSUME NEW r \in Requests, NEW p \in Params, Arrive(r, p) PROVE Truth'
  <2>1. work[r] = "none" /\ runs[r] = {}
    BY <1>1 DEF Arrive
  <2>2. \/ pc' = [pc EXCEPT ![r] = "answered"] /\ \E a \in Local : answer' = [answer EXCEPT ![r] = a]
        \/ pc' = [pc EXCEPT ![r] = "reading"] /\ Admitted(p) /\ UNCHANGED answer
    BY <1>1, ForwardIsAdmitted, AnswersAre DEF Arrive, End, Goto
  <2>3. req' = [req EXCEPT ![r] = p] /\ UNCHANGED service
    BY <1>1 DEF Arrive
  <2>4. "ok" \notin Local
    BY DEF Local
  <2> QED
    BY <2>1, <2>2, <2>3, <2>4 DEF service
<1>2. ASSUME NEW r \in Requests, Forward(r) PROVE Truth'
  BY <1>2, GatewayAssumption, AnswersAre DEF Forward, Goto
<1>3. ASSUME NEW r \in Requests, BodyFails(r) PROVE Truth'
  BY <1>3 DEF BodyFails, End, Goto, service
<1>4. ASSUME NEW r \in Requests, Relay(r) PROVE Truth'
  BY <1>4 DEF Relay, Goto, service
<1>5. ASSUME NEW r \in Requests, EndCopy(r) PROVE Truth'
  <2>1. PICK a \in {Status(r), "cut"} : Finish(r, a)
    BY <1>5 DEF EndCopy
  <2>2. a \notin Local /\ (a = "ok" => runs[r] # {})
    BY <1>5 DEF EndCopy, Status, Local
  <2>3. answer' = answer \/ answer' = [answer EXCEPT ![r] = a]
    BY <2>1 DEF Finish
  <2>4. \A q \in Requests : pc'[q] = "reading" => pc[q] = "reading"
    BY <2>1 DEF Finish, End, Goto
  <2> QED
    BY <1>5, <2>2, <2>3, <2>4 DEF EndCopy, service
<1>6. ASSUME NEW r \in Requests, GiveUp(r) PROVE Truth'
  <2>1. answer' = answer \/ answer' = [answer EXCEPT ![r] = "502"]
    BY <1>6 DEF GiveUp, Finish
  <2>2. \A q \in Requests : pc'[q] = "reading" => pc[q] = "reading"
    BY <1>6 DEF GiveUp, Finish, End, Goto
  <2> QED
    BY <1>6, <2>1, <2>2 DEF GiveUp, service, Local
<1>7. ASSUME NEW r \in Requests, Leave(r) PROVE Truth'
  BY <1>7 DEF Leave, End, Goto, service
<1>8. ASSUME NEW r \in Requests, Execute(r) PROVE Truth'
  BY <1>8 DEF Execute
<1>9. ASSUME NEW r \in Requests, Reply(r) PROVE Truth'
  BY <1>9 DEF Reply
<1>10. ASSUME NEW r \in Requests, Stop(r) PROVE Truth'
  BY <1>10 DEF Stop
<1>11. CASE Tick \/ Terminate \/ Exit \/ UNCHANGED vars
  BY <1>11 DEF Tick, Terminate, Exit, Running, vars, service
<1>12. ASSUME NEW r \in Requests, CannotForward(r) PROVE Truth'
  <2>1. answer' = answer \/ answer' = [answer EXCEPT ![r] = "500"]
    BY <1>12 DEF CannotForward, Finish
  <2>2. \A q \in Requests : pc'[q] = "reading" => pc[q] = "reading"
    BY <1>12 DEF CannotForward, Finish, End, Goto
  <2>3. work[r] = "none"
    BY <1>12 DEF CannotForward
  <2> QED
    BY <1>12, <2>1, <2>2, <2>3 DEF CannotForward, service
<1> QED
  BY <1>1, <1>2, <1>3, <1>4, <1>5, <1>6, <1>7, <1>8, <1>9, <1>10, <1>11, <1>12 DEF Next

LEMMA TruthImplies == Truth => AnswerIsTrue
<1> SUFFICES ASSUME Truth, NEW r \in Requests
             PROVE  /\ answer[r] = "ok" => runs[r] # {} /\ Understood(req[r])
                    /\ answer[r] \in Local => work[r] = "none" /\ runs[r] = {}
                    /\ runs[r] \subseteq IF req[r].route = "public" THEN {None}
                                         ELSE {req[r].token} \ {None}
  BY DEF AnswerIsTrue
<1>1. CASE runs[r] = {}
  BY <1>1 DEF Truth
<1>2. CASE runs[r] # {}
  <2>1. Admitted(req[r]) /\ runs[r] \subseteq {UserHeader(req[r])}
    BY <1>2 DEF Truth
  <2> QED
    BY <1>2, <2>1, HeaderOfAdmitted DEF Truth
<1> QED
  BY <1>1, <1>2

(* Whatever the gateway answers, and however long the service goes on      *)
(* behind it, the answer is true and only the token's user is acted for.   *)
THEOREM AnswersAreTrue == Spec => []AnswerIsTrue
<1>1. Init => Typed /\ Truth
  BY InitTyped, InitTruth
<1>2. Typed /\ Truth /\ [Next]_vars => Typed' /\ Truth'
  BY StepTyped, StepServed, StepTruth DEF Typed
<1> QED
  BY <1>1, <1>2, TruthImplies, PTL DEF Spec
-----------------------------------------------------------------------------
(* Why the timers leave time for an answer: what is not slow has more      *)
(* left to its deadline than its service may take, and the shutdown waits  *)
(* longer than what is owed an answer.                                     *)
InTime ==
  /\ phase = "serving" => grace = Grace /\ owed = {}
  /\ phase = "down" => \A r \in Requests : ~Running(r)
  /\ \A r \in Requests \ slow : pc[r] \in {"forwarded", "copying"} => deadline[r] > patience[r]
  /\ \A r \in owed : pc[r] \notin {"idle", "reading"}
  /\ phase = "stopping" =>
       \A r \in owed : pc[r] \in {"forwarded", "copying"} => patience[r] < grace
TimeInv == InTime /\ NoAnswerIsLost

LEMMA InitTime == Init => TimeInv
BY DEF Init, TimeInv, InTime, NoAnswerIsLost, Running

LEMMA FinishInTime ==
  ASSUME Typed, TimeInv, NEW r \in Requests, pc[r] \in {"forwarded", "copying"}, NEW a, Finish(r, a),
         UNCHANGED <<phase, grace, history>>
  PROVE  TimeInv'
<1> USE DEF Typed, TypeOK, TimeInv, InTime, NoAnswerIsLost, Running, history
<1>1. /\ \A q \in Requests \ {r} : pc'[q] = pc[q] /\ deadline'[q] = deadline[q] /\ patience'[q] = patience[q]
      /\ pc'[r] = "answered" \/ (pc'[r] = "lost" /\ deadline[r] = 0)
  BY DEF Finish, End, Goto
<1>2. deadline[r] = 0 => r \in slow
  BY GatewayAssumption
<1> QED
  BY <1>1, <1>2

LEMMA StepTime == Typed /\ TimeInv /\ [Next]_vars => TimeInv'
<1> SUFFICES ASSUME Typed, TimeInv, [Next]_vars PROVE TimeInv'
  OBVIOUS
<1> USE GatewayAssumption DEF Typed, TypeOK, TimeInv, InTime, NoAnswerIsLost, Running, history
<1>1. ASSUME NEW r \in Requests, NEW p \in Params, Arrive(r, p) PROVE TimeInv'
  BY <1>1 DEF Arrive, End, Goto
<1>2. ASSUME NEW r \in Requests, Forward(r) PROVE TimeInv'
  BY <1>2 DEF Forward, Goto, Patience
<1>3. ASSUME NEW r \in Requests, BodyFails(r) PROVE TimeInv'
  BY <1>3 DEF BodyFails, End, Goto
<1>4. ASSUME NEW r \in Requests, Relay(r) PROVE TimeInv'
  BY <1>4 DEF Relay, Goto, timers
<1>5. ASSUME NEW r \in Requests, EndCopy(r) PROVE TimeInv'
  BY <1>5, FinishInTime DEF EndCopy
<1>6. ASSUME NEW r \in Requests, GiveUp(r) PROVE TimeInv'
  BY <1>6, FinishInTime DEF GiveUp
<1>7. ASSUME NEW r \in Requests, Leave(r) PROVE TimeInv'
  BY <1>7 DEF Leave, End, Goto
<1>8. ASSUME NEW r \in Requests, Execute(r) \/ Reply(r) \/ Stop(r) PROVE TimeInv'
  BY <1>8 DEF Execute, Reply, Stop, timers
<1>9. CASE Tick
  <2>1. \A r \in Requests : /\ pc[r] \in {"forwarded", "copying"} => patience[r] > 0
                            /\ patience'[r] = Less(patience[r])
                            /\ deadline'[r] = Less(deadline[r])
    BY <1>9 DEF Tick, TimedOut
  <2>2. /\ phase = "stopping" => grace' = grace - 1
        /\ phase # "stopping" => grace' = grace
        /\ UNCHANGED <<phase, pc, history>>
    BY <1>9 DEF Tick, Less
  <2> QED
    BY <2>1, <2>2 DEF Less
<1>10. CASE Terminate
  BY <1>10 DEF Terminate, timers
<1>11. CASE Exit
  BY <1>11 DEF Exit, MayExit
<1>12. CASE UNCHANGED vars
  BY <1>12 DEF vars, timers
<1>13. ASSUME NEW r \in Requests, CannotForward(r) PROVE TimeInv'
  BY <1>13 DEF CannotForward, Finish, End, Goto
<1> QED
  BY <1>1, <1>2, <1>3, <1>4, <1>5, <1>6, <1>7, <1>8, <1>9, <1>10, <1>11, <1>12, <1>13 DEF Next

(* Only a client that left, one whose body came late, and one whose        *)
(* request was not yet with a service when the signal came, may go         *)
(* without an answer.                                                      *)
THEOREM NobodyIsForgotten == Spec => []NoAnswerIsLost
<1>1. Init => Typed /\ TimeInv
  BY InitTyped, InitTime
<1>2. Typed /\ TimeInv /\ [Next]_vars => Typed' /\ TimeInv'
  BY StepTyped, StepServed, StepTime DEF Typed
<1>3. TimeInv => NoAnswerIsLost
  BY DEF TimeInv
<1> QED
  BY <1>1, <1>2, <1>3, PTL DEF Spec
=============================================================================
